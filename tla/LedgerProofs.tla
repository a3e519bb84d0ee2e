---------------------------- MODULE LedgerProofs ----------------------------
(***************************************************************************)
(* Proofs about Ledger, for every set of users, every set of amounts and   *)
(* every bound.  TypeCorrect holds for any number of processes; the safety *)
(* theorems are about the deployment the code is written for, one process  *)
(* per file (LedgerSharedFile.cfg shows what two processes do).            *)
(***************************************************************************)
EXTENDS Ledger, TLAPS

(* Posting a row of natural amount to a user's sums yields sums.           *)
LEMMA PostedType ==
    ASSUME NEW t \in Totals, NEW kind, NEW amount \in Nat
    PROVE  Posted(t, kind, amount) \in Totals
BY DEF Posted, Totals

(* Row amounts are natural numbers.                                        *)
LEMMA AmountsAreNat == Amounts \cup {0} \subseteq Nat
BY LedgerConstants

(* The fields of an operation are typed, the idle one's too.               *)
LEMMA OpFields ==
    ASSUME NEW o \in Ops
    PROVE  o.user \in Users /\ o.amount \in Nat
<1>1. CASE o = NoOp
  BY <1>1, LedgerConstants DEF NoOp
<1>2. CASE o # NoOp
  <2>1. o.user \in Users /\ o.amount \in Amounts \cup {0}
    BY <1>2 DEF Ops
  <2> QED
    BY <2>1, AmountsAreNat
<1> QED
  BY <1>1, <1>2

(* Post maps books to books.                                               *)
LEMMA PostType ==
    ASSUME NEW b \in [Users -> Totals], NEW o \in Ops
    PROVE  Post(b, o) \in [Users -> Totals]
<1>1. CASE o.kind \in RowKinds
  <2>1. o.user \in Users /\ o.amount \in Nat
    BY OpFields
  <2>2. b[o.user] \in Totals
    BY <2>1
  <2>3. Posted(b[o.user], o.kind, o.amount) \in Totals
    BY <2>1, <2>2, PostedType
  <2> QED
    BY <1>1, <2>1, <2>3 DEF Post
<1>2. CASE o.kind \notin RowKinds
  BY <1>2 DEF Post
<1> QED
  BY <1>1, <1>2

(* The state of the ledger is always well typed.                           *)
THEOREM TypeCorrect == Spec => []TypeOK
<1>1. Init => TypeOK
  BY LedgerConstants DEF Init, TypeOK, Totals, NoTotals, Ops
<1>2. TypeOK /\ [Next]_vars => TypeOK'
  <2> SUFFICES ASSUME TypeOK, [Next]_vars PROVE TypeOK'
    OBVIOUS
  <2>1. ASSUME NEW p \in Procs, NEW kind \in Kinds, NEW u \in Users,
               NEW amount \in Amounts \cup {0}, Lock(p, kind, u, amount),
               owed' \in [Procs -> Nat]
        PROVE  TypeOK'
    <3>1. [kind |-> kind, user |-> u, amount |-> amount, stage |-> "locked"] \in Ops
      BY DEF Ops
    <3>2. op' \in [Procs -> Ops]
      BY <2>1, <3>1 DEF Lock, TypeOK
    <3> QED
      BY <2>1, <3>2 DEF Lock, TypeOK
  <2>2. ASSUME NEW p \in Procs, Persist(p)
        PROVE  TypeOK'
    <3>1. op[p] \in Ops /\ op[p].stage = "locked"
      BY <2>2 DEF TypeOK, Persist
    <3>2. disk' \in [Users -> Totals]
      BY <2>2, <3>1, PostType DEF TypeOK, Persist
    <3>a. [op[p] EXCEPT !.stage = "persisted"] \in Ops
      BY <3>1 DEF Ops, NoOp
    <3>3. op' \in [Procs -> Ops]
      BY <2>2, <3>a DEF TypeOK, Persist
    <3> QED
      BY <2>2, <3>2, <3>3 DEF TypeOK, Persist
  <2>3. ASSUME NEW p \in Procs, Append(p)
        PROVE  TypeOK'
    <3>1. op[p] \in Ops
      BY DEF TypeOK
    <3>2. Post(mem[p], op[p]) \in [Users -> Totals] /\ acked' \in [Users -> Totals]
      BY <2>3, <3>1, PostType DEF TypeOK, Append
    <3>3. op' \in [Procs -> Ops]
      BY <2>3 DEF TypeOK, Append, Ops
    <3> QED
      BY <2>3, <3>2, <3>3 DEF TypeOK, Append
  <2>4. ASSUME NEW p \in Procs, PersistFails(p)
        PROVE  TypeOK'
    BY <2>4 DEF TypeOK, PersistFails, Ops
  <2>5. ASSUME NEW p \in Procs, Crash(p)
        PROVE  TypeOK'
    BY <2>5 DEF TypeOK, Crash, Ops, Totals, NoTotals
  <2>6. ASSUME NEW p \in Procs, Restart(p)
        PROVE  TypeOK'
    BY <2>6 DEF TypeOK, Restart
  <2>7. ASSUME NEW p \in Procs, RecordAdminAction(p)
        PROVE  TypeOK'
    <3>1. owed' \in [Procs -> Nat]
      BY <2>7 DEF RecordAdminAction, TypeOK
    <3> QED
      BY <2>1, <2>7, <3>1, LedgerConstants DEF RecordAdminAction, Kinds
  <2>8. ASSUME NEW p \in Procs, NEW u \in Users, NEW amount \in Amounts,
               \/ CreditAccount(p, u, amount)
               \/ ClaimStartupGrantOnce(p, u, amount)
               \/ DebitAccount(p, u, amount)
               \/ TreasuryCredit(p, amount)
        PROVE  TypeOK'
    <3>1. owed' \in [Procs -> Nat]
      BY <2>8 DEF CreditAccount, ClaimStartupGrantOnce, DebitAccount,
                  TreasuryCredit, TypeOK
    <3>2. \E kind \in RowKinds, v \in Users : Lock(p, kind, v, amount)
      BY <2>8, LedgerConstants
         DEF CreditAccount, ClaimStartupGrantOnce, DebitAccount,
             TreasuryCredit, RowKinds
    <3> QED
      BY <2>1, <3>1, <3>2 DEF Kinds
  <2>9. CASE UNCHANGED vars
    BY <2>9 DEF vars, TypeOK
  <2> QED
    BY <2>2, <2>3, <2>4, <2>5, <2>6, <2>7, <2>8, <2>9, LedgerConstants DEF Next
<1> QED
  BY <1>1, <1>2, PTL DEF Spec

-----------------------------------------------------------------------------
(***************************************************************************)
(* The inductive invariant.  NoOverdraft and GrantAtMostOnce are facts     *)
(* about the file, while the checks that protect them read memory; so the  *)
(* invariant carries MirrorExact, and what a lock holder has checked stays *)
(* true of the file until it inserts.                                      *)
(***************************************************************************)
DownIsIdle == \A p \in Procs : ~up[p] => op[p] = NoOp

RowAmountsGiven ==
    \A p \in Procs : op[p].kind \in RowKinds => op[p].amount \in Amounts

CheckedStillTrue ==
    \A p \in Procs : op[p].stage = "locked" =>
        /\ op[p].kind = "grant" => disk[op[p].user].grants = 0
        /\ op[p].kind = "debit" => Affords(disk[op[p].user], op[p].amount)

Below(a, b) ==
    \A u \in Users :
        /\ a[u].grant   <= b[u].grant
        /\ a[u].earned  <= b[u].earned
        /\ a[u].debited <= b[u].debited
        /\ a[u].grants  <= b[u].grants

AckWillBeDurable ==
    \A p \in Procs : op[p].stage = "persisted" => Below(Post(acked, op[p]), disk)

IInv ==
    /\ TypeOK
    /\ DownIsIdle
    /\ RowAmountsGiven
    /\ MirrorExact
    /\ CheckedStillTrue
    /\ NoOverdraft
    /\ GrantAtMostOnce
    /\ AckedIsDurable
    /\ AckWillBeDurable

(* Posting the same row on both sides keeps the order of two books.        *)
LEMMA PostMonotone ==
    ASSUME NEW a \in [Users -> Totals], NEW b \in [Users -> Totals],
           NEW o \in Ops, Below(a, b)
    PROVE  Below(Post(a, o), Post(b, o))
<1>1. CASE o.kind \in RowKinds
  <2>1. o.user \in Users /\ o.amount \in Nat
    BY OpFields
  <2>2. SUFFICES ASSUME NEW u \in Users
                 PROVE  /\ Post(a, o)[u].grant   <= Post(b, o)[u].grant
                        /\ Post(a, o)[u].earned  <= Post(b, o)[u].earned
                        /\ Post(a, o)[u].debited <= Post(b, o)[u].debited
                        /\ Post(a, o)[u].grants  <= Post(b, o)[u].grants
    BY DEF Below
  <2>3. a[u] \in Totals /\ b[u] \in Totals
    OBVIOUS
  <2>4. CASE u = o.user
    <3>1. /\ Post(a, o)[u] = Posted(a[u], o.kind, o.amount)
          /\ Post(b, o)[u] = Posted(b[u], o.kind, o.amount)
      BY <1>1, <2>1, <2>4 DEF Post
    <3>2. /\ a[u].grant <= b[u].grant /\ a[u].earned <= b[u].earned
          /\ a[u].debited <= b[u].debited /\ a[u].grants <= b[u].grants
      BY DEF Below
    <3> QED
      BY <2>1, <2>3, <3>1, <3>2 DEF Posted, Totals
  <2>5. CASE u # o.user
    <3>1. Post(a, o)[u] = a[u] /\ Post(b, o)[u] = b[u]
      BY <1>1, <2>1, <2>5 DEF Post
    <3> QED
      BY <3>1 DEF Below
  <2> QED
    BY <2>4, <2>5
<1>2. CASE o.kind \notin RowKinds
  BY <1>2 DEF Post
<1> QED
  BY <1>1, <1>2

(* Posting a row never lowers a sum.                                       *)
LEMMA PostGrows ==
    ASSUME NEW b \in [Users -> Totals], NEW o \in Ops
    PROVE  Below(b, Post(b, o))
<1>1. CASE o.kind \in RowKinds
  <2>1. o.user \in Users /\ o.amount \in Nat
    BY OpFields
  <2>2. SUFFICES ASSUME NEW u \in Users
                 PROVE  /\ b[u].grant   <= Post(b, o)[u].grant
                        /\ b[u].earned  <= Post(b, o)[u].earned
                        /\ b[u].debited <= Post(b, o)[u].debited
                        /\ b[u].grants  <= Post(b, o)[u].grants
    BY DEF Below
  <2>3. b[u] \in Totals
    OBVIOUS
  <2>4. Post(b, o)[u] = IF u = o.user THEN Posted(b[u], o.kind, o.amount) ELSE b[u]
    BY <1>1, <2>1 DEF Post
  <2> QED
    BY <2>1, <2>3, <2>4 DEF Posted, Totals
<1>2. CASE o.kind \notin RowKinds
  BY <1>2 DEF Post, Below, Totals
<1> QED
  BY <1>1, <1>2

(* Taking the mutex with a check that holds of memory, hence of the file.  *)
LEMMA LockKeepsIInv ==
    ASSUME NEW p \in Procs, Procs = {p}, IInv, TypeOK',
           NEW kind \in Kinds, NEW u \in Users, NEW amount \in Nat,
           Lock(p, kind, u, amount),
           kind \in RowKinds => amount \in Amounts,
           kind = "grant" => mem[p][u].grants = 0,
           kind = "debit" => Affords(mem[p][u], amount)
    PROVE  IInv'
<1>1. up[p] /\ op[p] = NoOp /\ disk = mem[p]
  BY DEF IInv, MirrorExact, Lock, NoOp
<1>2. op'[p] = [kind |-> kind, user |-> u, amount |-> amount, stage |-> "locked"]
  BY DEF IInv, TypeOK, Lock
<1>3. disk' = disk /\ mem' = mem /\ up' = up /\ acked' = acked
  BY DEF Lock
<1>4. MirrorExact' /\ DownIsIdle' /\ RowAmountsGiven'
  BY <1>1, <1>2, <1>3 DEF MirrorExact, DownIsIdle, RowAmountsGiven
<1>5. CheckedStillTrue'
  BY <1>1, <1>2, <1>3 DEF CheckedStillTrue
<1>6. AckWillBeDurable'
  BY <1>2 DEF AckWillBeDurable
<1> QED
  BY <1>3, <1>4, <1>5, <1>6 DEF IInv, NoOverdraft, GrantAtMostOnce, AckedIsDurable

(* The INSERT: the checked row keeps the file within its limits.           *)
LEMMA PersistKeepsIInv ==
    ASSUME NEW p \in Procs, Procs = {p}, IInv, TypeOK', Persist(p)
    PROVE  IInv'
<1> DEFINE o == op[p]
<1>1. o \in Ops /\ o.stage = "locked" /\ up[p] /\ disk = mem[p]
  BY DEF IInv, TypeOK, Persist, MirrorExact, DownIsIdle, NoOp
<1>2. o.user \in Users /\ o.amount \in Nat
  BY <1>1, OpFields
<1>3. op'[p] = [o EXCEPT !.stage = "persisted"]
  BY DEF IInv, TypeOK, Persist
<1>4. /\ op'[p].stage = "persisted" /\ op'[p].kind = o.kind
      /\ op'[p].user = o.user /\ op'[p].amount = o.amount
  BY <1>1, <1>3 DEF Ops, NoOp
<1>5. \A b : Post(b, op'[p]) = Post(b, o)
  BY <1>4 DEF Post
<1>6. disk' = Post(disk, o) /\ mem' = mem /\ up' = up /\ acked' = acked
  BY DEF Persist
<1>7. MirrorExact' /\ DownIsIdle' /\ RowAmountsGiven'
  BY <1>1, <1>4, <1>5, <1>6 DEF IInv, MirrorExact, DownIsIdle, RowAmountsGiven
<1>8. CheckedStillTrue'
  BY <1>4 DEF CheckedStillTrue
<1>9. AckedIsDurable' /\ AckWillBeDurable'
  <2>1. disk \in [Users -> Totals] /\ acked \in [Users -> Totals]
    BY DEF IInv, TypeOK
  <2>2. Below(acked, disk)
    BY DEF IInv, AckedIsDurable, Below
  <2>3. Below(Post(acked, o), Post(disk, o))
    BY <1>1, <2>1, <2>2, PostMonotone
  <2>4. Below(disk, Post(disk, o))
    BY <1>1, <2>1, PostGrows
  <2>5. Post(disk, o) \in [Users -> Totals]
    BY <1>1, <2>1, PostType
  <2>6. Below(acked, Post(disk, o))
    BY <2>1, <2>2, <2>4, <2>5 DEF Below, Totals
  <2> QED
    BY <1>5, <1>6, <2>3, <2>6 DEF AckedIsDurable, AckWillBeDurable, Below
<1>10. NoOverdraft' /\ GrantAtMostOnce'
  <2>1. SUFFICES ASSUME NEW u \in Users
                 PROVE  ~Anomaly(disk'[u]) /\ disk'[u].grants <= 1
    BY DEF NoOverdraft, GrantAtMostOnce
  <2>2. disk[u] \in Totals /\ ~Anomaly(disk[u]) /\ disk[u].grants <= 1
    BY DEF IInv, TypeOK, NoOverdraft, GrantAtMostOnce
  <2>3. CASE o.kind \in RowKinds /\ u = o.user
    <3>1. disk'[u] = Posted(disk[u], o.kind, o.amount)
      BY <1>2, <1>6, <2>3 DEF Post, IInv, TypeOK
    <3>2. /\ o.kind = "grant" => disk[u].grants = 0
          /\ o.kind = "debit" => Affords(disk[u], o.amount)
      BY <1>1, <2>3 DEF IInv, CheckedStillTrue
    <3> QED
      BY <1>2, <2>2, <3>1, <3>2
         DEF Posted, Totals, Anomaly, Affords, Credits
  <2>4. CASE ~(o.kind \in RowKinds /\ u = o.user)
    <3>1. disk'[u] = disk[u]
      BY <1>2, <1>6, <2>4 DEF Post, IInv, TypeOK
    <3> QED
      BY <2>2, <3>1
  <2> QED
    BY <2>3, <2>4
<1> QED
  BY <1>7, <1>8, <1>9, <1>10 DEF IInv

(* The append to memory, after which the caller is told "done".            *)
LEMMA AppendKeepsIInv ==
    ASSUME NEW p \in Procs, Procs = {p}, IInv, TypeOK', Append(p)
    PROVE  IInv'
<1>1. /\ op[p].stage = "persisted" /\ up[p]
      /\ disk = Post(mem[p], op[p])
  BY DEF IInv, Append, MirrorExact, DownIsIdle, NoOp
<1>2. /\ disk' = disk /\ up' = up /\ acked' = Post(acked, op[p])
      /\ mem'[p] = Post(mem[p], op[p]) /\ op'[p] = NoOp
  BY DEF Append, IInv, TypeOK
<1>3. NoOp.stage = "idle" /\ NoOp.kind \notin RowKinds
  BY DEF NoOp, RowKinds
<1>4. /\ MirrorExact' /\ DownIsIdle' /\ RowAmountsGiven'
      /\ CheckedStillTrue' /\ AckWillBeDurable'
  BY <1>1, <1>2, <1>3
     DEF MirrorExact, DownIsIdle, RowAmountsGiven, CheckedStillTrue, AckWillBeDurable
<1>5. AckedIsDurable'
  BY <1>1, <1>2 DEF IInv, AckWillBeDurable, AckedIsDurable, Below
<1> QED
  BY <1>2, <1>4, <1>5 DEF IInv, NoOverdraft, GrantAtMostOnce

(* Every step of a single process keeps the invariant.                     *)
LEMMA StepKeepsIInv ==
    ASSUME NEW p0, Procs = {p0}, IInv, TypeOK', [Next]_vars
    PROVE  IInv'
<1> p0 \in Procs
  OBVIOUS
<1>a. NoOp.stage = "idle" /\ NoOp.kind \notin RowKinds
  BY DEF NoOp, RowKinds
<1>1. ASSUME NEW u \in Users, NEW amount \in Amounts,
             \/ CreditAccount(p0, u, amount)
             \/ ClaimStartupGrantOnce(p0, u, amount)
             \/ DebitAccount(p0, u, amount)
             \/ TreasuryCredit(p0, amount)
      PROVE  IInv'
  <2>1. amount \in Nat
    BY LedgerConstants
  <2>2. CASE CreditAccount(p0, u, amount)
    BY <2>1, <2>2, LockKeepsIInv DEF CreditAccount, Kinds, RowKinds
  <2>3. CASE ClaimStartupGrantOnce(p0, u, amount)
    BY <2>1, <2>3, LockKeepsIInv DEF ClaimStartupGrantOnce, Kinds, RowKinds
  <2>4. CASE DebitAccount(p0, u, amount)
    BY <2>1, <2>4, LockKeepsIInv DEF DebitAccount, Kinds, RowKinds
  <2>5. CASE TreasuryCredit(p0, amount)
    BY <2>1, <2>5, LockKeepsIInv, LedgerConstants DEF TreasuryCredit, Kinds, RowKinds
  <2> QED
    BY <1>1, <2>2, <2>3, <2>4, <2>5
<1>2. CASE RecordAdminAction(p0)
  BY <1>2, LockKeepsIInv, LedgerConstants DEF RecordAdminAction, Kinds, RowKinds
<1>3. CASE Persist(p0)
  BY <1>3, PersistKeepsIInv
<1>4. CASE Append(p0)
  BY <1>4, AppendKeepsIInv
<1>5. CASE PersistFails(p0)
  <2>1. op'[p0] = NoOp /\ op[p0].stage = "locked" /\ UNCHANGED <<disk, mem, up, acked>>
    BY <1>5 DEF PersistFails, IInv, TypeOK
  <2> QED
    BY <1>a, <2>1 DEF IInv, MirrorExact, DownIsIdle, RowAmountsGiven, CheckedStillTrue,
                AckWillBeDurable, NoOverdraft, GrantAtMostOnce, AckedIsDurable
<1>6. CASE Crash(p0)
  <2>1. op'[p0] = NoOp /\ ~up'[p0] /\ UNCHANGED <<disk, acked>>
    BY <1>6 DEF Crash, IInv, TypeOK
  <2> QED
    BY <1>a, <2>1 DEF IInv, MirrorExact, DownIsIdle, RowAmountsGiven, CheckedStillTrue,
                AckWillBeDurable, NoOverdraft, GrantAtMostOnce, AckedIsDurable
<1>7. CASE Restart(p0)
  <2>1. op[p0] = NoOp /\ op' = op /\ up'[p0] /\ mem'[p0] = disk /\ UNCHANGED <<disk, acked>>
    BY <1>7 DEF Restart, IInv, TypeOK, DownIsIdle
  <2> QED
    BY <1>a, <2>1 DEF IInv, MirrorExact, DownIsIdle, RowAmountsGiven, CheckedStillTrue,
                AckWillBeDurable, NoOverdraft, GrantAtMostOnce, AckedIsDurable
<1>8. CASE UNCHANGED vars
  BY <1>8 DEF vars, IInv, MirrorExact, DownIsIdle, RowAmountsGiven, CheckedStillTrue,
              AckWillBeDurable, NoOverdraft, GrantAtMostOnce, AckedIsDurable,
              Below, Post
<1> QED
  BY <1>1, <1>2, <1>3, <1>4, <1>5, <1>6, <1>7, <1>8, LedgerConstants DEF Next

-----------------------------------------------------------------------------
(* What a step may do to the file: nothing, or insert one checked row.     *)
LEMMA StepWritesOneRow ==
    ASSUME NEW p0, Procs = {p0}, IInv, [Next]_vars, disk' # disk
    PROVE  \E u \in Users, amount \in Amounts, kind \in RowKinds :
               /\ kind = "grant" => disk[u].grants = 0
               /\ kind = "debit" => Affords(disk[u], amount)
               /\ disk' = [disk EXCEPT ![u] = Posted(@, kind, amount)]
<1>1. Persist(p0)
  BY DEF Next, vars, CreditAccount, ClaimStartupGrantOnce, DebitAccount,
         TreasuryCredit, RecordAdminAction, Lock, PersistFails, Append,
         Crash, Restart
<1>2. /\ op[p0] \in Ops /\ op[p0].stage = "locked"
      /\ disk' = Post(disk, op[p0])
  BY <1>1 DEF Persist, IInv, TypeOK
<1>3. op[p0].kind \in RowKinds
  BY <1>2 DEF Post
<1>4. op[p0].user \in Users /\ op[p0].amount \in Amounts
  BY <1>2, <1>3, OpFields DEF IInv, RowAmountsGiven
<1>5. /\ op[p0].kind = "grant" => disk[op[p0].user].grants = 0
      /\ op[p0].kind = "debit" => Affords(disk[op[p0].user], op[p0].amount)
  BY <1>2 DEF IInv, CheckedStillTrue
<1>6. disk' = [disk EXCEPT ![op[p0].user] = Posted(@, op[p0].kind, op[p0].amount)]
  BY <1>2, <1>3 DEF Post
<1> QED
  BY <1>3, <1>4, <1>5, <1>6

(* The invariant, as a theorem of one process's specification.             *)
LEMMA IInvAlways ==
    ASSUME NEW p0, Procs = {p0}
    PROVE  Spec => []IInv
<1>1. Init => IInv
  <2> SUFFICES ASSUME Init PROVE IInv
    OBVIOUS
  <2>1. TypeOK
    BY LedgerConstants DEF Init, TypeOK, Totals, NoTotals, Ops
  <2> QED
    BY <2>1 DEF Init, IInv, DownIsIdle, RowAmountsGiven, RowKinds, MirrorExact,
              CheckedStillTrue, NoOverdraft, GrantAtMostOnce, AckedIsDurable,
              AckWillBeDurable, NoOp, NoTotals, Anomaly, Credits
<1>2. IInv /\ TypeOK' /\ [Next]_vars => IInv'
  BY StepKeepsIInv
<1>3. Spec => []TypeOK
  BY TypeCorrect
<1> QED
  BY <1>1, <1>2, <1>3, PTL DEF Spec

(* One process per file: memory mirrors the file, no account overdraws,    *)
(* nobody gets a second grant, and what was acknowledged is on disk, for   *)
(* any users and amounts, any number of rows, failed writes and crashes.   *)
THEOREM LedgerSafety ==
    ASSUME NEW p0, Procs = {p0}
    PROVE  Spec => [](MirrorExact /\ NoOverdraft /\ GrantAtMostOnce /\ AckedIsDurable)
<1>1. IInv => MirrorExact /\ NoOverdraft /\ GrantAtMostOnce /\ AckedIsDurable
  BY DEF IInv
<1> QED
  BY <1>1, IInvAlways, PTL

(* The parts of the balance of an account that is not overdrawn.           *)
LEMMA BalanceParts ==
    ASSUME NEW t \in Totals, ~Anomaly(t)
    PROVE  LET b == balanceFromTotals(t)
           IN  /\ b.total = t.grant + t.earned - t.debited
               /\ t.debited <= t.grant => /\ b.grantBalance = t.grant - t.debited
                                          /\ b.earnedBalance = t.earned
               /\ t.debited > t.grant => /\ b.grantBalance = 0
                                         /\ b.earnedBalance = t.earned - (t.debited - t.grant)
BY DEF Totals, balanceFromTotals, Excess, Least, Credits, Anomaly

(* What one checked row does to a balance that overdraws nothing.          *)
LEMMA RowMovesBalance ==
    ASSUME NEW t \in Totals, ~Anomaly(t), NEW kind \in RowKinds, NEW amount \in Nat,
           kind = "debit" => Affords(t, amount), NEW s, s = Posted(t, kind, amount)
    PROVE  LET before == balanceFromTotals(t)
               after == balanceFromTotals(s)
           IN  /\ after.total + Credits(t) + s.debited = before.total + Credits(s) + t.debited
               /\ after.earnedBalance < before.earnedBalance => after.grantBalance = 0
               /\ after.earnedBalance + t.earned > before.earnedBalance + s.earned
                     => /\ s.grant > t.grant
                        /\ before.grantBalance = 0
                        /\ after.earnedBalance <= s.earned
<1> DEFINE before == balanceFromTotals(t)
           after == balanceFromTotals(s)
<1>1. /\ t.grant \in Nat /\ t.earned \in Nat /\ t.debited \in Nat
      /\ t.debited <= t.grant + t.earned
  BY DEF Totals, Anomaly, Credits
<1>2. /\ s \in Totals
      /\ s.grant = IF kind = "grant" THEN t.grant + amount ELSE t.grant
      /\ s.earned = IF kind \in {"earn", "admin"} THEN t.earned + amount ELSE t.earned
      /\ s.debited = IF kind = "debit" THEN t.debited + amount ELSE t.debited
  BY DEF Posted, Totals
<1>3. ~Anomaly(s)
  BY <1>1, <1>2 DEF Anomaly, Affords, Credits, RowKinds
<1>4. /\ before.total = t.grant + t.earned - t.debited
      /\ t.debited <= t.grant => /\ before.grantBalance = t.grant - t.debited
                                 /\ before.earnedBalance = t.earned
      /\ t.debited > t.grant => /\ before.grantBalance = 0
                                /\ before.earnedBalance = t.earned - (t.debited - t.grant)
  BY BalanceParts
<1>5. /\ after.total = s.grant + s.earned - s.debited
      /\ s.debited <= s.grant => /\ after.grantBalance = s.grant - s.debited
                                 /\ after.earnedBalance = s.earned
      /\ s.debited > s.grant => /\ after.grantBalance = 0
                                /\ after.earnedBalance = s.earned - (s.debited - s.grant)
  BY <1>2, <1>3, BalanceParts
<1> HIDE DEF before, after
<1>6. \/ s.grant >= t.grant /\ s.earned = t.earned /\ s.debited = t.debited
      \/ s.grant = t.grant /\ s.earned >= t.earned /\ s.debited = t.debited
      \/ s.grant = t.grant /\ s.earned = t.earned /\ s.debited >= t.debited
  BY <1>1, <1>2
<1>7. /\ s.grant \in Nat /\ s.earned \in Nat /\ s.debited \in Nat
      /\ s.debited <= s.grant + s.earned
  BY <1>2, <1>3 DEF Totals, Anomaly, Credits
<1>8. after.total + Credits(t) + s.debited = before.total + Credits(s) + t.debited
  BY <1>1, <1>4, <1>5, <1>7 DEF Credits
<1>9. after.earnedBalance < before.earnedBalance => after.grantBalance = 0
  BY <1>1, <1>4, <1>5, <1>6, <1>7
<1>10. after.earnedBalance + t.earned > before.earnedBalance + s.earned
          => s.grant > t.grant /\ before.grantBalance = 0 /\ after.earnedBalance <= s.earned
  BY <1>1, <1>4, <1>5, <1>6, <1>7
<1> QED
  BY <1>8, <1>9, <1>10 DEF before, after

(* Earned credit is touched only when the grant is used up, and a late     *)
(* grant becomes earned credit only to repay what was spent for want of it.*)
THEOREM GrantFirst ==
    ASSUME NEW p0, Procs = {p0}
    PROVE  Spec => GrantSpentFirst
<1> DEFINE Moves(t, s) ==
      LET before == balanceFromTotals(t)
          after == balanceFromTotals(s)
      IN  /\ after.total + Credits(t) + s.debited = before.total + Credits(s) + t.debited
          /\ after.earnedBalance < before.earnedBalance => after.grantBalance = 0
          /\ after.earnedBalance + t.earned > before.earnedBalance + s.earned
                => /\ s.grant > t.grant
                   /\ before.grantBalance = 0
                   /\ after.earnedBalance <= s.earned
<1>1. IInv /\ [Next]_vars => [\A u \in Users : Moves(disk[u], disk'[u])]_vars
  <2> SUFFICES ASSUME IInv, [Next]_vars, NEW v \in Users PROVE Moves(disk[v], disk'[v])
    OBVIOUS
  <2>1. disk[v] \in Totals /\ ~Anomaly(disk[v])
    BY DEF IInv, TypeOK, NoOverdraft
  <2>2. CASE disk'[v] = disk[v]
    <3>1. /\ balanceFromTotals(disk[v]).earnedBalance \in Nat
          /\ disk[v].earned \in Nat
      BY <2>1 DEF balanceFromTotals, Totals, Excess, Least
    <3> QED
      BY <2>2, <3>1
  <2>3. CASE disk'[v] # disk[v]
    <3>1. PICK u \in Users, amount \in Amounts, kind \in RowKinds :
               /\ kind = "debit" => Affords(disk[u], amount)
               /\ disk' = [disk EXCEPT ![u] = Posted(@, kind, amount)]
      BY <2>3, StepWritesOneRow
    <3>2. u = v /\ disk'[v] = Posted(disk[v], kind, amount)
      BY <2>3, <3>1 DEF IInv, TypeOK
    <3>3. amount \in Nat
      BY LedgerConstants
    <3> QED
      BY <2>1, <3>1, <3>2, <3>3, RowMovesBalance
  <2> QED
    BY <2>2, <2>3
<1> QED
  BY <1>1, IInvAlways, PTL DEF Spec, GrantSpentFirst

(* The file of a SQLite ledger is a credit book: every step of a call, a   *)
(* failed INSERT, a crash or a replay is one whole row or none.            *)
THEOREM LedgerImplementsCreditBook ==
    ASSUME NEW p0, Procs = {p0}
    PROVE  Spec => ImplementsCreditBook
<1>1. Init => Book!Init
  BY DEF Init, Book!Init, NoTotals, Book!NoTotals
<1>2. IInv /\ [Next]_vars => [Book!Next]_disk
  <2> SUFFICES ASSUME IInv, [Next]_vars, disk' # disk
               PROVE  Book!Next
    OBVIOUS
  <2>1. PICK u \in Users, amount \in Amounts, kind \in RowKinds :
               /\ kind = "grant" => disk[u].grants = 0
               /\ kind = "debit" => Affords(disk[u], amount)
               /\ disk' = [disk EXCEPT ![u] = Posted(@, kind, amount)]
    BY StepWritesOneRow
  <2>2. \/ Book!Credit(u, amount)
        \/ Book!ClaimGrant(u, amount)
        \/ Book!Debit(u, amount)
    BY <2>1 DEF RowKinds, Book!Credit, Book!ClaimGrant, Book!Debit, Book!Row,
                Book!Affords, Book!Credits, Affords, Credits, Book!Posted, Posted
  <2> QED
    BY <2>2 DEF Book!Next
<1> QED
  BY <1>1, <1>2, IInvAlways, PTL DEF Spec, Book!Spec, ImplementsCreditBook

-----------------------------------------------------------------------------
(* Audit rows that the process still owes or is writing are covered by the *)
(* treasury credits on record: what AuditNeverInvents needs to be kept.    *)
AuditBalance(p) ==
    diskActions + owed[p]
        + (IF op[p].kind = "record" /\ op[p].stage = "locked" THEN 1 ELSE 0)
        + (IF op[p].kind = "admin" /\ op[p].stage = "persisted" THEN 1 ELSE 0)
    <= adminRows

(* POST /admin/treasury/credit: the audit log never shows a credit that is *)
(* not on record, although crashes and failed INSERTs may lose audit rows. *)
THEOREM AuditSafety ==
    ASSUME NEW p0, Procs = {p0}
    PROVE  Spec => []AuditNeverInvents
<1> p0 \in Procs
  OBVIOUS
<1>1. Init => AuditBalance(p0)
  BY DEF Init, AuditBalance, NoOp
<1>2. TypeOK /\ AuditBalance(p0) /\ [Next]_vars => AuditBalance(p0)'
  <2> SUFFICES ASSUME TypeOK, AuditBalance(p0), [Next]_vars
               PROVE  AuditBalance(p0)'
    OBVIOUS
  <2> USE DEF AuditBalance
  <2>1. /\ diskActions \in Nat /\ adminRows \in Nat /\ owed[p0] \in Nat
        /\ NoOp.kind = "none" /\ NoOp.stage = "idle"
    BY DEF TypeOK, NoOp
  <2>2. ASSUME NEW u \in Users, NEW amount \in Amounts,
               \/ CreditAccount(p0, u, amount)
               \/ ClaimStartupGrantOnce(p0, u, amount)
               \/ DebitAccount(p0, u, amount)
               \/ TreasuryCredit(p0, amount)
        PROVE  AuditBalance(p0)'
    <3>1. /\ op'[p0].kind # "record" /\ op'[p0].stage = "locked" /\ owed' = owed
          /\ UNCHANGED <<diskActions, adminRows>>
      BY <2>2 DEF CreditAccount, ClaimStartupGrantOnce, DebitAccount, TreasuryCredit,
                  Lock, TypeOK
    <3> QED
      BY <2>1, <3>1
  <2>3. CASE RecordAdminAction(p0)
    <3>1. /\ op[p0] = NoOp /\ op'[p0].kind = "record" /\ op'[p0].stage = "locked"
          /\ owed'[p0] = owed[p0] - 1 /\ UNCHANGED <<diskActions, adminRows>>
      BY <2>3 DEF RecordAdminAction, Lock, TypeOK
    <3> QED
      BY <2>1, <3>1
  <2>4. CASE Persist(p0)
    <3>1. /\ op[p0].stage = "locked" /\ op'[p0].stage = "persisted"
          /\ op'[p0].kind = op[p0].kind /\ owed' = owed
          /\ diskActions' = IF op[p0].kind = "record" THEN diskActions + 1 ELSE diskActions
          /\ adminRows' = IF op[p0].kind = "admin" THEN adminRows + 1 ELSE adminRows
      BY <2>1, <2>4 DEF Persist, TypeOK, Ops
    <3> QED
      BY <2>1, <3>1
  <2>5. CASE Append(p0)
    <3>1. /\ op[p0].stage = "persisted" /\ op'[p0] = NoOp
          /\ owed'[p0] = IF op[p0].kind = "admin" THEN owed[p0] + 1 ELSE owed[p0]
          /\ UNCHANGED <<diskActions, adminRows>>
      BY <2>5 DEF Append, TypeOK
    <3> QED
      BY <2>1, <3>1
  <2>6. CASE PersistFails(p0) \/ Crash(p0) \/ Restart(p0)
    <3>1. /\ op'[p0] = NoOp \/ op' = op
          /\ owed'[p0] = 0 \/ owed' = owed
          /\ UNCHANGED <<diskActions, adminRows>>
      BY <2>6 DEF PersistFails, Crash, Restart, TypeOK
    <3> QED
      BY <2>1, <3>1
  <2>7. CASE UNCHANGED vars
    BY <2>7 DEF vars
  <2> QED
    BY <2>2, <2>3, <2>4, <2>5, <2>6, <2>7, LedgerConstants DEF Next
<1>3. TypeOK /\ AuditBalance(p0) => AuditNeverInvents
  BY DEF TypeOK, AuditBalance, AuditNeverInvents
<1> QED
  BY <1>1, <1>2, <1>3, TypeCorrect, PTL DEF Spec

(* The four books of one process on its file agree at every moment: memory *)
(* with the file, the file with what callers were told, and the audit log  *)
(* with the treasury's credits.                                            *)
THEOREM BooksAlwaysAgree ==
    ASSUME NEW p0, Procs = {p0}
    PROVE  Spec => []BooksAgree
<1>1. MirrorExact /\ AckedIsDurable /\ AuditNeverInvents => BooksAgree
  BY DEF BooksAgree
<1> QED
  BY <1>1, LedgerSafety, AuditSafety, PTL
=============================================================================
