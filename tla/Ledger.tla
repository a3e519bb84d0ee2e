------------------------------- MODULE Ledger -------------------------------
(***************************************************************************)
(* The SQLite backend of settlement.Ledger: a log on disk, an in-memory    *)
(* copy of it in each coordinator process that opened the file, and one    *)
(* mutex per process.  Every write holds the mutex from its check of the   *)
(* copy, through the INSERT, to the append to the copy; so a process has   *)
(* at most one write under way, op[p], and the interleavings that matter   *)
(* are with a crash between two of those steps and with another process    *)
(* that has the same file open.  The memory-only backend is this one       *)
(* without the disk: nothing survives it.                                  *)
(*                                                                         *)
(* A call that is refused (a second grant, an unaffordable debit) returns  *)
(* without changing anything and is not an action.                         *)
(***************************************************************************)
EXTENDS CreditTotals

CONSTANTS
    Users,        \* accounts
    Treasury,     \* the account admin adjustments go to
    Procs,        \* coordinator processes that opened this file
    Amounts,      \* amounts of a row
    MaxRows,      \* bound: rows the log may hold
    MaxCrashes    \* bound: crashes of coordinator processes

ASSUME LedgerConstants ==
    /\ Treasury \in Users
    /\ Amounts \subseteq Nat
    /\ MaxRows \in Nat
    /\ MaxCrashes \in Nat

VARIABLES
    disk,         \* disk[u]: sums of the rows of u in the file
    diskActions,  \* number of rows of admin_actions in the file
    mem,          \* mem[p][u]: the same sums in process p's memory
    up,           \* up[p]: process p is running
    op,           \* op[p]: the write that holds p's mutex
    owed,         \* owed[p]: treasury credits whose audit row p must still write
    rows,         \* rows written so far
    crashes,      \* crashes so far
    adminRows,    \* admin_adjustment rows written so far
    acked         \* acked[u]: sums of the rows whose writers were told "done"

vars == <<disk, diskActions, mem, up, op, owed, rows, crashes, adminRows, acked>>

Kinds == RowKinds \cup {"record"}

NoOp == [kind |-> "none", user |-> Treasury, amount |-> 0, stage |-> "idle"]

Ops == [kind : Kinds, user : Users, amount : Amounts \cup {0},
        stage : {"locked", "persisted"}] \cup {NoOp}

Post(totals, o) ==
    IF o.kind \in RowKinds
    THEN [totals EXCEPT ![o.user] = Posted(@, o.kind, o.amount)]
    ELSE totals

-----------------------------------------------------------------------------
(* Taking the mutex and checking the in-memory copy.                       *)

Lock(p, kind, u, amount) ==
    /\ up[p]
    /\ op[p] = NoOp
    /\ op' = [op EXCEPT ![p] = [kind |-> kind, user |-> u, amount |-> amount,
                                stage |-> "locked"]]
    /\ UNCHANGED <<disk, diskActions, mem, up, rows, crashes, adminRows, acked>>

CreditAccount(p, u, amount) ==
    /\ Lock(p, "earn", u, amount)
    /\ UNCHANGED owed

(* POST /admin/treasury/credit, first half: the ledger effect.             *)
TreasuryCredit(p, amount) ==
    /\ amount > 0
    /\ Lock(p, "admin", Treasury, amount)
    /\ UNCHANGED owed

ClaimStartupGrantOnce(p, u, amount) ==
    /\ mem[p][u].grants = 0
    /\ Lock(p, "grant", u, amount)
    /\ UNCHANGED owed

DebitAgainstCreditsOnly(p, u, amount) ==
    /\ amount <= Credits(mem[p][u])
    /\ Lock(p, "debit", u, amount)
    /\ UNCHANGED owed

DebitAccount(p, u, amount) ==
    /\ Affords(mem[p][u], amount)
    /\ Lock(p, "debit", u, amount)
    /\ UNCHANGED owed

(* POST /admin/treasury/credit, second half: the audit row.                *)
RecordUnowed(p) ==
    /\ Lock(p, "record", Treasury, 0)
    /\ owed' = [owed EXCEPT ![p] = @ - 1]

RecordAdminAction(p) ==
    /\ owed[p] > 0
    /\ Lock(p, "record", Treasury, 0)
    /\ owed' = [owed EXCEPT ![p] = @ - 1]

-----------------------------------------------------------------------------
(* The INSERT, its failure, and the append to memory that ends the call.   *)

PersistTwice(p) ==
    /\ op[p].stage = "locked"
    /\ rows < MaxRows
    /\ rows' = rows + 1
    /\ disk' = Post(Post(disk, op[p]), op[p])
    /\ diskActions' = IF op[p].kind = "record" THEN diskActions + 1 ELSE diskActions
    /\ adminRows' = IF op[p].kind = "admin" THEN adminRows + 1 ELSE adminRows
    /\ op' = [op EXCEPT ![p].stage = "persisted"]
    /\ UNCHANGED <<mem, up, owed, crashes, acked>>

Persist(p) ==
    /\ op[p].stage = "locked"
    /\ rows < MaxRows
    /\ rows' = rows + 1
    /\ disk' = Post(disk, op[p])
    /\ diskActions' = IF op[p].kind = "record" THEN diskActions + 1 ELSE diskActions
    /\ adminRows' = IF op[p].kind = "admin" THEN adminRows + 1 ELSE adminRows
    /\ op' = [op EXCEPT ![p].stage = "persisted"]
    /\ UNCHANGED <<mem, up, owed, crashes, acked>>

PersistFails(p) ==
    /\ op[p].stage = "locked"
    /\ op' = [op EXCEPT ![p] = NoOp]
    /\ UNCHANGED <<disk, diskActions, mem, up, owed, rows, crashes, adminRows, acked>>

Append(p) ==
    /\ op[p].stage = "persisted"
    /\ mem' = [mem EXCEPT ![p] = Post(@, op[p])]
    /\ acked' = Post(acked, op[p])
    /\ owed' = [owed EXCEPT ![p] = IF op[p].kind = "admin" THEN @ + 1 ELSE @]
    /\ op' = [op EXCEPT ![p] = NoOp]
    /\ UNCHANGED <<disk, diskActions, up, rows, crashes, adminRows>>

-----------------------------------------------------------------------------
(* The process dies with whatever it was doing; NewPersistentLedger        *)
(* replays the file on the next start.                                     *)

Crash(p) ==
    /\ up[p]
    /\ crashes < MaxCrashes
    /\ crashes' = crashes + 1
    /\ up' = [up EXCEPT ![p] = FALSE]
    /\ mem' = [mem EXCEPT ![p] = [u \in Users |-> NoTotals]]
    /\ op' = [op EXCEPT ![p] = NoOp]
    /\ owed' = [owed EXCEPT ![p] = 0]
    /\ UNCHANGED <<disk, diskActions, rows, adminRows, acked>>

Restart(p) ==
    /\ ~up[p]
    /\ up' = [up EXCEPT ![p] = TRUE]
    /\ mem' = [mem EXCEPT ![p] = disk]
    /\ UNCHANGED <<disk, diskActions, op, owed, rows, crashes, adminRows, acked>>

-----------------------------------------------------------------------------
Init ==
    /\ disk = [u \in Users |-> NoTotals]
    /\ diskActions = 0
    /\ mem = [p \in Procs |-> [u \in Users |-> NoTotals]]
    /\ up = [p \in Procs |-> TRUE]
    /\ op = [p \in Procs |-> NoOp]
    /\ owed = [p \in Procs |-> 0]
    /\ rows = 0
    /\ crashes = 0
    /\ adminRows = 0
    /\ acked = [u \in Users |-> NoTotals]

Next == \E p \in Procs :
    \/ \E u \in Users, amount \in Amounts :
          \/ CreditAccount(p, u, amount)
          \/ ClaimStartupGrantOnce(p, u, amount)
          \/ DebitAccount(p, u, amount)
    \/ \E amount \in Amounts : TreasuryCredit(p, amount)
    \/ RecordAdminAction(p)
    \/ Persist(p)
    \/ PersistFails(p)
    \/ Append(p)
    \/ Crash(p)
    \/ Restart(p)

Spec == Init /\ [][Next]_vars

-----------------------------------------------------------------------------
(* Type correctness of the ledger's state.                                 *)
TypeOK ==
    /\ disk \in [Users -> Totals]
    /\ diskActions \in Nat
    /\ mem \in [Procs -> [Users -> Totals]]
    /\ up \in [Procs -> BOOLEAN]
    /\ op \in [Procs -> Ops]
    /\ owed \in [Procs -> Nat]
    /\ rows \in Nat
    /\ crashes \in Nat
    /\ adminRows \in Nat
    /\ acked \in [Users -> Totals]

(* A running process's memory is exactly what a restart would recover,     *)
(* but for the one row its lock holder has inserted and not yet appended:  *)
(* the copy never runs ahead of the file ("free money") nor behind it.     *)
MirrorExact ==
    \A p \in Procs : up[p] =>
        disk = IF op[p].stage = "persisted" THEN Post(mem[p], op[p]) ELSE mem[p]

(* DebitAccount's guarantee, across crashes and failed writes: no account  *)
(* has ever spent more than it was issued, so Reconcile finds no anomaly.  *)
NoOverdraft == \A u \in Users : ~Anomaly(disk[u])

(* ClaimStartupGrantOnce: at most one startup grant per user is ever on    *)
(* record, also across the restarts that used to forget who had claimed.   *)
GrantAtMostOnce == \A u \in Users : disk[u].grants <= 1

(* "Callers can treat a nil error as durably recorded": every row whose    *)
(* writer was told so is in the file, whatever crashed since.              *)
AckedIsDurable ==
    \A u \in Users :
        /\ acked[u].grant   <= disk[u].grant
        /\ acked[u].earned  <= disk[u].earned
        /\ acked[u].debited <= disk[u].debited
        /\ acked[u].grants  <= disk[u].grants

(* The treasury handler credits first and audits second: a crash or a      *)
(* failed INSERT between the two may lose an audit row, but the audit log  *)
(* never shows a treasury credit that did not happen.                      *)
AuditNeverInvents == diskActions <= adminRows

(* The four books of the ledger agree, whatever fails or crashes between    *)
(* them: memory with the file, the file with what callers were told, the   *)
(* audit log with the treasury's credits.                                  *)
BooksAgree == MirrorExact /\ AckedIsDurable /\ AuditNeverInvents

(* Grant credit is spent first, and stays grant credit when it comes late: *)
(* a step moves an account's balance by what it wrote and nothing more;    *)
(* one that lowers the earned balance leaves no grant balance; and one     *)
(* that raises it beyond what was earned is a grant that arrives after     *)
(* debits of earned credit, and repays those.                              *)
GrantSpentFirst ==
    [][\A u \in Users :
          LET before == balanceFromTotals(disk[u])
              after  == balanceFromTotals(disk'[u])
          IN  /\ after.total + Credits(disk[u]) + disk'[u].debited
                    = before.total + Credits(disk'[u]) + disk[u].debited
              /\ after.earnedBalance < before.earnedBalance => after.grantBalance = 0
              /\ after.earnedBalance + disk[u].earned > before.earnedBalance + disk'[u].earned
                    => /\ disk'[u].grant > disk[u].grant
                       /\ before.grantBalance = 0
                       /\ after.earnedBalance <= disk'[u].earned]_vars

(* The file, seen through all crashes and failures, is a credit book.      *)
Book == INSTANCE CreditBook WITH book <- disk
ImplementsCreditBook == Book!Spec
=============================================================================
