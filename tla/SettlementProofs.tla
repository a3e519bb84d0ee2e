-------------------------- MODULE SettlementProofs --------------------------
(***************************************************************************)
(* Proofs about what settlement keeps in common, for any values of the     *)
(* constants.  PgLedger, one database under several coordinators: what the *)
(* row lock, the additive upsert and the primary key of                    *)
(* startup_grant_claims are enough for.  Federation, the witnessing of a   *)
(* pod's credits by another: the signed history is dense, and what the     *)
(* witness holds of the issuer is the truth.                               *)
(***************************************************************************)
EXTENDS PgLedger, Federation, FiniteSetTheorems, WellFoundedInduction, TLAPS

-----------------------------------------------------------------------------
(* PgLedger.                                                               *)

Typed ==
    /\ log \in [Users -> Totals]
    /\ bal \in [Users -> BalanceRow]
    /\ hasRow \subseteq Users
    /\ claims \subseteq Users
    /\ rowLock \in [Users -> Sessions \cup {NoSession}]
    /\ claimLock \in [Users -> Sessions \cup {NoSession}]
    /\ tx \in [Sessions -> Txs]
    /\ commits \in Nat

(* What an open transaction may rely on until it ends: a writer has the    *)
(* row, a grant has the claim, and what a debit read still covers it (a    *)
(* debit without a row to lock is one of nothing).                         *)
TxInv(s) ==
    tx[s] # NoTx =>
        /\ tx[s].stage = "written" => rowLock[tx[s].user] = s
        /\ tx[s].kind = "grant" /\ tx[s].stage \in {"checked", "written"} =>
               claimLock[tx[s].user] = s /\ tx[s].user \notin claims
        /\ tx[s].kind = "debit" /\ tx[s].stage \in {"checked", "written"} =>
               /\ Affords(bal[tx[s].user], tx[s].amount)
               /\ tx[s].amount = 0 \/ rowLock[tx[s].user] = s

(* The tables, as committed.                                               *)
Tables == BalancesMatchLog /\ PgGrantAtMostOnce /\ PgNoOverdraft

PgInv == Typed /\ Tables /\ \A s \in Sessions : TxInv(s)

Record == [kind : Kinds, user : Users, amount : Amounts, stage : Stages]

(* A transaction that is open is a record with its fields.                 *)
LEMMA OpenFields ==
    ASSUME Typed, NEW s \in Sessions, tx[s] # NoTx
    PROVE  /\ tx[s] \in Record
           /\ tx[s].kind \in Kinds /\ tx[s].user \in Users /\ tx[s].stage \in Stages
           /\ tx[s].amount \in Amounts /\ tx[s].amount \in Nat
BY PgConstants DEF Typed, Txs, Record

(* Moving an open transaction to another stage.                            *)
LEMMA Staged ==
    ASSUME Typed, NEW s \in Sessions, tx[s] # NoTx, NEW stage \in Stages,
           tx' = [tx EXCEPT ![s].stage = stage]
    PROVE  /\ tx' \in [Sessions -> Txs]
           /\ tx'[s] # NoTx /\ tx'[s].stage = stage /\ tx'[s].kind = tx[s].kind
           /\ tx'[s].user = tx[s].user /\ tx'[s].amount = tx[s].amount
           /\ \A t \in Sessions : t # s => tx'[t] = tx[t]
<1>1. tx[s] \in Record
  BY OpenFields
<1>2. [tx[s] EXCEPT !.stage = stage] \in Record
  BY <1>1 DEF Record
<1>3. \A r \in Record : r # NoTx
  BY DEF Record, NoTx, Stages
<1>4. tx'[s] = [tx[s] EXCEPT !.stage = stage] /\ \A t \in Sessions : t # s => tx'[t] = tx[t]
  BY DEF Typed
<1>5. tx' \in [Sessions -> Txs]
  BY <1>2 DEF Typed, Txs, Record
<1>6. tx'[s] # NoTx
  BY <1>2, <1>3, <1>4
<1> QED
  BY <1>1, <1>4, <1>5, <1>6 DEF Record

(* Postgres' side of an ending: the locks of the session go, those of      *)
(* others stay.                                                            *)
LEMMA Ended ==
    ASSUME Typed, NEW s \in Sessions, EndTx(s)
    PROVE  /\ tx' \in [Sessions -> Txs] /\ tx'[s] = NoTx
           /\ rowLock' \in [Users -> Sessions \cup {NoSession}]
           /\ claimLock' \in [Users -> Sessions \cup {NoSession}]
           /\ \A t \in Sessions : t # s =>
                 /\ tx'[t] = tx[t]
                 /\ \A u \in Users : (rowLock[u] = t => rowLock'[u] = t)
                                       /\ (claimLock[u] = t => claimLock'[u] = t)
BY DEF Typed, EndTx, Txs

(* Empty tables agree with empty logs.                                     *)
LEMMA PgInvStarts == Init => PgInv
<1> SUFFICES ASSUME Init PROVE PgInv
  OBVIOUS
<1>1. Typed
  BY DEF Init, Typed, Totals, NoTotals, BalanceRow, NoBalance, Txs
<1>2. Tables
  BY DEF Init, Tables, BalancesMatchLog, PgGrantAtMostOnce, PgNoOverdraft, NoTotals, NoBalance,
         AsRow, Anomaly, Credits
<1>3. \A s \in Sessions : TxInv(s)
  BY DEF Init, TxInv
<1> QED
  BY <1>1, <1>2, <1>3 DEF PgInv

(* While the tables stay, a session that steps need only keep its own part *)
(* and the locks of the others.                                            *)
LEMMA SessionSteps ==
    ASSUME PgInv, NEW s \in Sessions, UNCHANGED dbVars, Typed', TxInv(s)',
           \A t \in Sessions : t # s =>
               /\ tx'[t] = tx[t]
               /\ \A u \in Users : (rowLock[u] = t => rowLock'[u] = t)
                                     /\ (claimLock[u] = t => claimLock'[u] = t)
    PROVE  PgInv'
<1>1. Tables'
  BY DEF PgInv, dbVars, Tables, BalancesMatchLog, PgGrantAtMostOnce, PgNoOverdraft
<1>2. ASSUME NEW t \in Sessions, t # s PROVE TxInv(t)'
  <2>1. SUFFICES ASSUME tx[t] # NoTx PROVE TxInv(t)'
    BY <1>2 DEF TxInv
  <2>2. tx'[t] = tx[t] /\ tx[t].user \in Users
    BY <1>2, <2>1, OpenFields DEF PgInv
  <2> QED
    BY <1>2, <2>1, <2>2 DEF PgInv, TxInv, dbVars
<1> QED
  BY <1>1, <1>2 DEF PgInv

(* A transaction begins without a lock and without a claim on anything.    *)
LEMMA BeginKeeps ==
    ASSUME PgInv, NEW s \in Sessions, NEW kind \in Kinds, NEW u \in Users,
           NEW amount \in Amounts, BeginTx(s, kind, u, amount)
    PROVE  PgInv'
<1> DEFINE r == [kind |-> kind, user |-> u, amount |-> amount, stage |-> "begun"]
<1>1. r \in Record /\ r \in Txs
  BY DEF Record, Txs, Stages
<1>2. tx' = [tx EXCEPT ![s] = r] /\ UNCHANGED <<dbVars, rowLock, claimLock, commits>>
  BY DEF BeginTx, dbVars
<1>3. Typed'
  BY <1>1, <1>2 DEF PgInv, Typed, dbVars
<1>4. tx'[s].stage = "begun" /\ \A t \in Sessions : t # s => tx'[t] = tx[t]
  BY <1>2 DEF PgInv, Typed
<1>5. TxInv(s)'
  BY <1>4 DEF TxInv
<1> QED
  BY <1>2, <1>3, <1>4, <1>5, SessionSteps

(* A rollback writes nothing and gives up its locks.                       *)
LEMMA RollBackKeeps ==
    ASSUME PgInv, NEW s \in Sessions, EndTx(s), UNCHANGED <<dbVars, commits>>
    PROVE  PgInv'
<1>1. Typed'
  BY Ended DEF PgInv, Typed, dbVars
<1>2. TxInv(s)'
  BY Ended DEF PgInv, TxInv
<1> QED
  BY <1>1, <1>2, Ended, SessionSteps DEF PgInv

(* The claim: nobody else holds one of the user, and the user has none.    *)
LEMMA InsertClaimKeeps == ASSUME PgInv, NEW s \in Sessions, InsertClaim(s) PROVE PgInv'
<1>1. /\ tx[s] # NoTx /\ tx[s].stage = "begun" /\ tx[s].kind = "grant"
      /\ claimLock[tx[s].user] = NoSession /\ UNCHANGED <<dbVars, commits>>
  BY DEF InsertClaim, Open, dbVars
<1>2. CASE EndTx(s)
  BY <1>1, <1>2, RollBackKeeps
<1>3. CASE /\ tx[s].user \notin claims
           /\ claimLock' = [claimLock EXCEPT ![tx[s].user] = s]
           /\ tx' = [tx EXCEPT ![s].stage = "checked"]
           /\ UNCHANGED rowLock
  <2>1. Typed
    BY DEF PgInv
  <2>2. /\ tx' \in [Sessions -> Txs]
        /\ tx'[s] # NoTx /\ tx'[s].stage = "checked" /\ tx'[s].kind = "grant"
        /\ tx'[s].user = tx[s].user
        /\ \A t \in Sessions : t # s => tx'[t] = tx[t]
    BY <1>1, <1>3, <2>1, Staged DEF Stages
  <2>3. tx[s].user \in Users
    BY <1>1, <2>1, OpenFields
  <2>4. Typed'
    BY <1>1, <1>3, <2>1, <2>2, <2>3 DEF Typed, dbVars
  <2>5. claimLock'[tx[s].user] = s
        /\ \A u \in Users : u # tx[s].user => claimLock'[u] = claimLock[u]
    BY <1>3, <2>1, <2>3 DEF Typed
  <2>6. TxInv(s)'
    BY <1>1, <1>3, <2>2, <2>5 DEF TxInv, dbVars
  <2> QED
    BY <1>1, <1>3, <2>2, <2>4, <2>5, <2>6, PgConstants, SessionSteps
<1> QED
  BY <1>1, <1>2, <1>3 DEF InsertClaim

(* A debit that found no row found no credit, so it is one of nothing.     *)
LEMMA SelectKeeps == ASSUME PgInv, NEW s \in Sessions, SelectForUpdate(s) PROVE PgInv'
<1> DEFINE u == tx[s].user
<1>1. /\ tx[s] # NoTx /\ tx[s].stage = "begun" /\ tx[s].kind = "debit"
      /\ u \in hasRow => rowLock[u] = NoSession
      /\ UNCHANGED <<dbVars, commits>>
  BY DEF SelectForUpdate, Open, dbVars
<1>2. CASE EndTx(s)
  BY <1>1, <1>2, RollBackKeeps
<1>3. CASE /\ Affords(bal[u], tx[s].amount)
           /\ tx' = [tx EXCEPT ![s].stage = "checked"]
           /\ rowLock' = IF u \in hasRow THEN [rowLock EXCEPT ![u] = s] ELSE rowLock
           /\ UNCHANGED claimLock
  <2>1. Typed /\ Tables
    BY DEF PgInv
  <2>2. /\ tx' \in [Sessions -> Txs]
        /\ tx'[s] # NoTx /\ tx'[s].stage = "checked" /\ tx'[s].kind = "debit"
        /\ tx'[s].user = u /\ tx'[s].amount = tx[s].amount
        /\ \A t \in Sessions : t # s => tx'[t] = tx[t]
    BY <1>1, <1>3, <2>1, Staged DEF Stages
  <2>3. u \in Users /\ tx[s].amount \in Nat
    BY <1>1, <2>1, OpenFields
  <2>4. Typed'
    BY <1>1, <1>3, <2>1, <2>2, <2>3 DEF Typed, dbVars
  <2>5. u \notin hasRow => tx[s].amount = 0
    <3>1. SUFFICES ASSUME u \notin hasRow PROVE tx[s].amount = 0
      OBVIOUS
    <3>2. bal[u] = AsRow(NoTotals)
      BY <2>1, <2>3, <3>1 DEF Tables, BalancesMatchLog
    <3>3. bal[u].debited = 0 /\ Credits(bal[u]) = 0
      BY <3>2 DEF AsRow, NoTotals, Credits
    <3> QED
      BY <1>3, <2>3, <3>3 DEF Affords
  <2>6. u \in hasRow => rowLock'[u] = s
    BY <1>3, <2>1, <2>3 DEF Typed
  <2>7. TxInv(s)'
    BY <1>1, <1>3, <2>2, <2>5, <2>6 DEF TxInv, dbVars
  <2>8. \A t \in Sessions, v \in Users : t # s /\ rowLock[v] = t => rowLock'[v] = t
    BY <1>1, <1>3, <2>1, <2>3, PgConstants DEF Typed
  <2> QED
    BY <1>1, <1>3, <2>2, <2>4, <2>7, <2>8, SessionSteps
<1> QED
  BY <1>1, <1>2, <1>3 DEF SelectForUpdate

(* The statement that writes takes the row's lock first.                   *)
LEMMA WriteKeeps == ASSUME PgInv, NEW s \in Sessions, Write(s) PROVE PgInv'
<1> DEFINE u == tx[s].user
<1>1. /\ tx[s] # NoTx /\ rowLock[u] \in {NoSession, s}
      /\ \/ tx[s].stage = "begun" /\ tx[s].kind = "earn"
         \/ tx[s].stage = "checked" /\ tx[s].kind \in {"grant", "debit"}
      /\ rowLock' = [rowLock EXCEPT ![u] = s]
      /\ tx' = [tx EXCEPT ![s].stage = "written"]
      /\ UNCHANGED <<dbVars, claimLock, commits>>
  BY DEF Write, Open, dbVars
<1>2. Typed
  BY DEF PgInv
<1>3. /\ tx' \in [Sessions -> Txs]
      /\ tx'[s] # NoTx /\ tx'[s].stage = "written" /\ tx'[s].kind = tx[s].kind
      /\ tx'[s].user = u /\ tx'[s].amount = tx[s].amount
      /\ \A t \in Sessions : t # s => tx'[t] = tx[t]
  BY <1>1, <1>2, Staged DEF Stages
<1>4. u \in Users
  BY <1>1, <1>2, OpenFields
<1>5. Typed' /\ rowLock'[u] = s
  BY <1>1, <1>2, <1>3, <1>4 DEF Typed, dbVars
<1>6. TxInv(s)'
  BY <1>1, <1>3, <1>5 DEF TxInv, PgInv, dbVars
<1>7. \A t \in Sessions, v \in Users : t # s /\ rowLock[v] = t => rowLock'[v] = t
  BY <1>1, <1>2, <1>4, PgConstants DEF Typed
<1> QED
  BY <1>1, <1>3, <1>5, <1>6, <1>7, SessionSteps
-----------------------------------------------------------------------------
(* The arithmetic of a commit: row and log move together, a debit that is  *)
(* covered overdraws nothing, and a debit of nothing is always covered.    *)
LEMMA PostType ==
    ASSUME NEW t \in Totals, NEW b \in BalanceRow, NEW k \in Kinds, NEW a \in Nat
    PROVE  Posted(t, k, a) \in Totals /\ Upserted(b, k, a) \in BalanceRow
BY DEF Posted, Upserted, Totals, BalanceRow

(* The upsert of a row and the posting of a log entry commute.             *)
LEMMA RowFollowsLog ==
    ASSUME NEW t \in Totals, NEW k \in Kinds, NEW a \in Nat
    PROVE  Upserted(AsRow(t), k, a) = AsRow(Posted(t, k, a))
BY DEF Upserted, AsRow, Posted, Totals, Kinds

(* The row passes the debit's test exactly if the log does.                *)
LEMMA SameTest ==
    ASSUME NEW t \in Totals, NEW a \in Nat
    PROVE  Affords(AsRow(t), a) <=> Affords(t, a)
BY DEF AsRow, Affords, Credits, Totals

(* What was checked makes a posted log sound.                              *)
LEMMA PostedSound ==
    ASSUME NEW t \in Totals, NEW k \in Kinds, NEW a \in Nat, ~Anomaly(t),
           k = "debit" => Affords(t, a)
    PROVE  /\ ~Anomaly(Posted(t, k, a)) /\ Affords(Posted(t, k, a), 0)
           /\ Posted(t, k, a).grants = IF k = "grant" THEN t.grants + 1 ELSE t.grants
BY DEF Anomaly, Posted, Affords, Credits, Totals, Kinds

(* A commit moves one user's books; nobody else was about to rely on them: *)
(* the session held the row, and for a grant the claim.                    *)
LEMMA CommitKeeps == ASSUME PgInv, NEW s \in Sessions, Commit(s) PROVE PgInv'
<1>0. Typed /\ Tables /\ TxInv(s)
  BY DEF PgInv
<1>1. tx[s] # NoTx /\ tx[s].stage = "written"
  BY DEF Commit, Open
<1>2. PICK u \in Users, k \in Kinds, a \in Nat :
        u = tx[s].user /\ k = tx[s].kind /\ a = tx[s].amount
  BY <1>0, <1>1, OpenFields
<1>3. /\ log' = [log EXCEPT ![u] = Posted(log[u], k, a)]
      /\ bal' = [bal EXCEPT ![u] = Upserted(bal[u], k, a)]
      /\ hasRow' = hasRow \cup {u}
      /\ claims' = IF k = "grant" THEN claims \cup {u} ELSE claims
      /\ commits' = commits + 1 /\ EndTx(s)
  BY <1>2 DEF Commit
<1>4. /\ log[u] \in Totals /\ bal[u] = AsRow(log[u]) /\ ~Anomaly(log[u])
      /\ log[u].grants = IF u \in claims THEN 1 ELSE 0
  BY <1>0 DEF Typed, Tables, BalancesMatchLog, PgNoOverdraft, PgGrantAtMostOnce
<1>5. /\ rowLock[u] = s
      /\ k = "grant" => claimLock[u] = s /\ u \notin claims
      /\ k = "debit" => Affords(log[u], a)
  BY <1>0, <1>1, <1>2, <1>4, SameTest DEF TxInv
<1>6. Posted(log[u], k, a) \in Totals /\ Upserted(bal[u], k, a) \in BalanceRow
  BY <1>0, PostType DEF Typed
<1>7. Typed'
  BY <1>0, <1>3, <1>6, Ended DEF Typed
<1>8. log'[u] = Posted(log[u], k, a) /\ bal'[u] = AsRow(log'[u])
  BY <1>0, <1>3, <1>4, RowFollowsLog DEF Typed
<1>9. \A v \in Users : v # u => log'[v] = log[v] /\ bal'[v] = bal[v]
  BY <1>0, <1>3 DEF Typed
<1>10. /\ ~Anomaly(log'[u]) /\ Affords(log'[u], 0)
       /\ log'[u].grants = IF k = "grant" THEN log[u].grants + 1 ELSE log[u].grants
  BY <1>4, <1>5, <1>8, PostedSound
<1>11. Tables'
  <2>1. BalancesMatchLog'
    BY <1>0, <1>3, <1>8, <1>9 DEF Tables, BalancesMatchLog
  <2>2. PgNoOverdraft'
    BY <1>0, <1>9, <1>10 DEF Tables, PgNoOverdraft
  <2>3. log'[u].grants = IF u \in claims' THEN 1 ELSE 0
    BY <1>3, <1>4, <1>5, <1>10
  <2>4. \A v \in Users : v # u => (v \in claims' <=> v \in claims)
    BY <1>3
  <2>5. PgGrantAtMostOnce'
    BY <1>0, <1>9, <2>3, <2>4 DEF Tables, PgGrantAtMostOnce
  <2> QED
    BY <2>1, <2>2, <2>5 DEF Tables
<1>12. TxInv(s)'
  BY <1>0, <1>3, Ended DEF TxInv
<1>13. ASSUME NEW t \in Sessions, t # s PROVE TxInv(t)'
  <2>1. SUFFICES ASSUME tx[t] # NoTx PROVE TxInv(t)'
    BY <1>0, <1>3, <1>13, Ended DEF TxInv
  <2>2. PICK v \in Users, b \in Nat : v = tx[t].user /\ b = tx[t].amount
    BY <1>0, <2>1, OpenFields
  <2>3. /\ tx'[t] = tx[t]
        /\ rowLock[v] = t => rowLock'[v] = t
        /\ claimLock[v] = t => claimLock'[v] = t
    BY <1>0, <1>3, <1>13, Ended
  <2>4. TxInv(t)
    BY DEF PgInv
  <2>5. tx[t].stage = "written" => rowLock'[v] = t
    BY <2>1, <2>2, <2>3, <2>4 DEF TxInv
  <2>6. tx[t].kind = "grant" /\ tx[t].stage \in {"checked", "written"} =>
          claimLock'[v] = t /\ v \notin claims'
    <3>1. SUFFICES ASSUME tx[t].kind = "grant", tx[t].stage \in {"checked", "written"}
                   PROVE  claimLock'[v] = t /\ v \notin claims'
      OBVIOUS
    <3>2. claimLock[v] = t /\ v \notin claims
      BY <2>1, <2>2, <2>4, <3>1 DEF TxInv
    <3>3. k = "grant" => v # u
      BY <1>5, <1>13, <3>2
    <3> QED
      BY <1>3, <2>3, <3>2, <3>3
  <2>7. tx[t].kind = "debit" /\ tx[t].stage \in {"checked", "written"} =>
          Affords(bal'[v], b) /\ (b = 0 \/ rowLock'[v] = t)
    <3>1. SUFFICES ASSUME tx[t].kind = "debit", tx[t].stage \in {"checked", "written"}
                   PROVE  Affords(bal'[v], b) /\ (b = 0 \/ rowLock'[v] = t)
      OBVIOUS
    <3>2. Affords(bal[v], b) /\ (b = 0 \/ rowLock[v] = t)
      BY <2>1, <2>2, <2>4, <3>1 DEF TxInv
    <3>3. CASE v # u
      BY <1>9, <2>3, <3>2, <3>3
    <3>4. CASE v = u
      <4>1. b = 0
        BY <1>5, <1>13, <3>2, <3>4
      <4>2. log'[u] \in Totals
        BY <1>6, <1>8
      <4> QED
        BY <1>8, <1>10, <3>4, <4>1, <4>2, SameTest
    <3> QED
      BY <3>3, <3>4
  <2> QED
    BY <2>2, <2>3, <2>5, <2>6, <2>7 DEF TxInv
<1> QED
  BY <1>7, <1>11, <1>12, <1>13 DEF PgInv

(* Every statement keeps the invariant.                                    *)
LEMMA PgInvStays == ASSUME PgInv, [Next]_vars PROVE PgInv'
<1>1. ASSUME NEW s \in Sessions, RollBack(s) PROVE PgInv'
  BY <1>1, RollBackKeeps DEF RollBack, dbVars
<1>2. ASSUME NEW s \in Sessions,
             (\E kind \in Kinds, u \in Users, amount \in Amounts : BeginTx(s, kind, u, amount))
               \/ InsertClaim(s) \/ SelectForUpdate(s) \/ Write(s) \/ Commit(s)
      PROVE  PgInv'
  BY <1>2, BeginKeeps, InsertClaimKeeps, SelectKeeps, WriteKeeps, CommitKeeps
<1>3. CASE ReconcileCredits \/ ReconcileDebits \/ UNCHANGED vars
  <2>1. UNCHANGED <<log, bal, hasRow, claims, rowLock, claimLock, tx, commits>>
    BY <1>3 DEF ReconcileCredits, ReconcileDebits, vars
  <2> QED
    BY <2>1 DEF PgInv, Typed, Tables, TxInv, BalancesMatchLog, PgGrantAtMostOnce, PgNoOverdraft
<1> QED
  BY <1>1, <1>2, <1>3 DEF Next

(* So it holds throughout.                                                 *)
LEMMA PgInvAlways == Spec => []PgInv
BY PgInvStarts, PgInvStays, PTL DEF Spec

(* account_balances and startup_grant_claims never drift from the logs     *)
(* they summarise, for any number of coordinators on the database.         *)
THEOREM TablesNeverDrift == Spec => []TablesAgree
<1>1. PgInv => TablesAgree
  BY DEF PgInv, Tables, TablesAgree
<1> QED
  BY <1>1, PgInvAlways, PTL

(* Concurrent debits of any coordinators never overdraw an account.        *)
THEOREM PgNeverOverdrawn == Spec => []PgNoOverdraft
<1>1. PgInv => PgNoOverdraft
  BY DEF PgInv, Tables
<1> QED
  BY <1>1, PgInvAlways, PTL

(* The committed log, through all interleavings of transactions, is a      *)
(* credit book: a commit is one row, and everything else a stutter.        *)
THEOREM PgImplementsCreditBook == Spec => ImplementsCreditBook
<1>1. Init => Book!Init
  BY DEF Init, Book!Init, NoTotals, Book!NoTotals
<1>2. PgInv /\ [Next]_vars => [Book!Next]_log
  <2> SUFFICES ASSUME PgInv, [Next]_vars, log' # log PROVE Book!Next
    OBVIOUS
  <2>1. PICK s \in Sessions : Commit(s)
    BY DEF Next, vars, BeginTx, InsertClaim, SelectForUpdate, Write, RollBack,
           ReconcileCredits, ReconcileDebits
  <2>2. Typed /\ Tables /\ TxInv(s) /\ tx[s] # NoTx /\ tx[s].stage = "written"
    BY <2>1 DEF PgInv, Commit, Open
  <2>3. PICK u \in Users, k \in Kinds, a \in Amounts :
          u = tx[s].user /\ k = tx[s].kind /\ a = tx[s].amount
    BY <2>2, OpenFields
  <2>4. log' = [log EXCEPT ![u] = Posted(log[u], k, a)]
    BY <2>1, <2>3 DEF Commit
  <2>5. Book!Row(u, k, a)
    BY <2>4 DEF Book!Row, Posted, Book!Posted
  <2>6. CASE k = "earn"
    BY <2>5, <2>6 DEF Book!Next, Book!Credit
  <2>7. CASE k = "grant"
    <3>1. log[u].grants = 0
      BY <2>2, <2>3, <2>7 DEF TxInv, Tables, PgGrantAtMostOnce
    <3> QED
      BY <2>5, <2>7, <3>1 DEF Book!Next, Book!ClaimGrant
  <2>8. CASE k = "debit"
    <3>1. a \in Nat /\ log[u] \in Totals /\ bal[u] = AsRow(log[u])
      BY <2>2, PgConstants DEF Typed, Tables, BalancesMatchLog
    <3>2. Affords(log[u], a)
      BY <2>2, <2>3, <2>8, <3>1, SameTest DEF TxInv
    <3> QED
      BY <2>5, <2>8, <3>2 DEF Book!Next, Book!Debit, Book!Affords, Affords, Book!Credits, Credits
  <2> QED
    BY <2>6, <2>7, <2>8 DEF Kinds
<1> QED
  BY <1>1, <1>2, PgInvAlways, PTL DEF Spec, ImplementsCreditBook, Book!Spec

-----------------------------------------------------------------------------
(* The reconciler's reading, of any two moments.                           *)
RecTyped == rec \in [stage : {"idle", "half"}, credits : [Users -> Nat], anomalies : SUBSET Users]

(* A reading is of sums of natural numbers; reporting one starts anew.     *)
LEMMA RecTypedStays == ASSUME PgInv, RecTyped, [Next]_vars PROVE RecTyped'
<1>1. NoReading \in [stage : {"idle", "half"}, credits : [Users -> Nat], anomalies : SUBSET Users]
  BY DEF NoReading
<1>2. CASE ReconcileCredits
  <2>1. \A u \in Users : Credits(log[u]) \in Nat
    BY DEF PgInv, Typed, Totals, Credits
  <2>2. [u \in Users |-> Credits(log[u])] \in [Users -> Nat]
    BY <2>1
  <2> QED
    BY <1>2, <2>2 DEF ReconcileCredits, RecTyped
<1>3. CASE ReconcileDebits
  <2> DEFINE A == {u \in Users : log[u].debited > rec.credits[u]}
  <2>1. rec' = [NoReading EXCEPT !.anomalies = A] /\ A \in SUBSET Users
    BY <1>3 DEF ReconcileDebits
  <2> HIDE DEF A
  <2> QED
    BY <1>1, <2>1 DEF RecTyped
<1>4. CASE \E s \in Sessions : \/ \E kind \in Kinds, u \in Users, amount \in Amounts :
                                    BeginTx(s, kind, u, amount)
                               \/ InsertClaim(s) \/ SelectForUpdate(s) \/ Write(s)
                               \/ Commit(s) \/ RollBack(s)
  <2>1. rec' = rec
    BY <1>4 DEF BeginTx, InsertClaim, SelectForUpdate, Write, Commit, RollBack
  <2> QED
    BY <2>1 DEF RecTyped
<1>5. CASE UNCHANGED vars
  BY <1>5 DEF vars, RecTyped
<1> QED
  BY <1>2, <1>3, <1>4, <1>5 DEF Next

(* Logs, rows, locks, transactions and the reconciler's reading keep their *)
(* types for any users, sessions and amounts.                              *)
THEOREM PgTypeCorrect == Spec => []TypeOK
<1>1. Init => RecTyped
  BY DEF Init, NoReading, RecTyped
<1>2. PgInv /\ RecTyped => TypeOK
  BY DEF PgInv, Typed, RecTyped, TypeOK
<1> QED
  BY <1>1, <1>2, RecTypedStays, PgInvAlways, PTL DEF Spec

-----------------------------------------------------------------------------
(* Federation.                                                             *)

(* A set of numbers has a least one.                                       *)
LEMMA HasMin ==
    ASSUME NEW S \in SUBSET Nat, S # {}
    PROVE  \E x \in S : \A y \in S : x <= y
<1> DEFINE R == OpToRel(<, Nat)
<1>1. IsWellFoundedOn(R, Nat)
  BY NatLessThanWellFounded
<1>2. \E x \in S : \A y \in S : ~(<<y, x>> \in R)
  <2> HIDE DEF R
  <2> QED
    BY <1>1, WFMin
<1>3. R = {ss \in Nat \X Nat : ss[1] < ss[2]}
  BY DEF OpToRel
<1>4. \A x, y \in S : ~(<<y, x>> \in R) => x <= y
  <2> HIDE DEF R
  <2>1. ASSUME NEW x \in S, NEW y \in S, y < x
        PROVE  <<y, x>> \in R
    BY <1>3, <2>1
  <2> QED
    BY <2>1
<1> HIDE DEF R
<1> QED
  BY <1>2, <1>4

(* A bounded one has a greatest, which Max chooses.                        *)
LEMMA MaxOfBounded ==
    ASSUME NEW n \in Nat, NEW S \in SUBSET (0 .. n), S # {}
    PROVE  Max(S) \in S /\ \A y \in S : Max(S) >= y
<1> DEFINE T == {n - x : x \in S}
<1>1. T \in SUBSET Nat /\ T # {}
  <2>1. \A x \in S : n - x \in Nat
    OBVIOUS
  <2>2. PICK x \in S : TRUE
    OBVIOUS
  <2>3. n - x \in T
    OBVIOUS
  <2> QED
    BY <2>1, <2>3
<1>2. PICK t \in T : \A y \in T : t <= y
  BY <1>1, HasMin
<1>3. PICK x \in S : t = n - x
  OBVIOUS
<1>4. \A y \in S : x >= y
  <2>1. ASSUME NEW y \in S PROVE x >= y
    <3>1. n - y \in T
      OBVIOUS
    <3>2. n - x <= n - y
      BY <1>2, <1>3, <3>1
    <3> QED
      BY <3>2
  <2> QED
    BY <2>1
<1> QED
  BY <1>4 DEF Max

(* The greatest of the numbers up to n is n.                               *)
LEMMA MaxOfPrefix ==
    ASSUME NEW n \in Nat
    PROVE  Max((1 .. n) \cup {0}) = n
<1> DEFINE S == (1 .. n) \cup {0}
<1>1. S \in SUBSET (0 .. n) /\ n \in S
  OBVIOUS
<1>2. Max(S) \in S /\ \A y \in S : Max(S) >= y
  BY <1>1, MaxOfBounded
<1> QED
  BY <1>1, <1>2

-----------------------------------------------------------------------------
Signed == {r[2] : r \in selfDisk}

(* The table of own events: one row for each number below nextSeq and each *)
(* signed credit, whose callback is over.                                  *)
History ==
    /\ \A s \in 1 .. (nextSeq - 1) : \E r \in selfDisk : r[1] = s
    /\ \A r \in selfDisk : r[1] \in 1 .. (nextSeq - 1) /\ pc[r[2]] = "done"
    /\ \A r, s \in selfDisk : r[1] = s[1] \/ r[2] = s[2] => r = s
    /\ IsFiniteSet(selfDisk) /\ Cardinality(selfDisk) = nextSeq - 1
    /\ IsFiniteSet(Signed) /\ Cardinality(Signed) = nextSeq - 1

Backed(e) == e.key = "own" => <<e.seq, e.credit>> \in selfDisk

(* Wherever an event under the issuer's own key is, it comes from the      *)
(* table; the witness stores each number once, under one key.              *)
Copies ==
    /\ \A e \in selfEvents : e.key = "own" /\ Backed(e)
    /\ \A s \in 1 .. (nextSeq - 1) : \E e \in selfEvents : e.seq = s
    /\ \A q \in Pollers : \A e \in pull[q].batch : Backed(e)
    /\ \A e \in witnessed : Backed(e) /\ e.intact /\ e.key = pinned
    /\ \A e, f \in witnessed : e.seq = f.seq => e = f
    /\ forked => pinned = "other"

Held(s) == s \in skipped \/ \E e \in witnessed : e.seq = s
Coming(q, s) == \E e \in pull[q].batch : e.key = "own" /\ e.seq = s

(* The number that a callback read, and what became of it: the next one or *)
(* one that is taken, and taken for sure once the callback has ended well. *)
Numbers ==
    /\ \A c \in PodCredits : pc[c] = "signed" => held[c] \in 1 .. nextSeq
    /\ (faults = 0 /\ restarts = 0) =>
         \A c \in PodCredits : pc[c] = "done" => held[c] \in 1 .. (nextSeq - 1)

(* As long as no other key is pinned: below every own event that the       *)
(* witness holds or is about to store, nothing is missing, for it is held  *)
(* or was skipped itself, or comes earlier in the same batch.              *)
Complete ==
    /\ \A e \in witnessed : \A s \in 1 .. (e.seq - 1) : Held(s)
    /\ \A q \in Pollers : pull[q].stage = "asked" => \A s \in 1 .. pull[q].since : Held(s)
    /\ \A q \in Pollers : \A e \in pull[q].batch :
           e.key = "own" => \A s \in 1 .. (e.seq - 1) : Held(s) \/ Coming(q, s)

FedInv == FdTypeOK /\ History /\ Numbers /\ Copies /\ (pinned # "other" => Complete)

-----------------------------------------------------------------------------
(* Seqs is an interval.                                                    *)
LEMMA CreditCount == Cardinality(PodCredits) \in Nat
BY FederationConstants, FS_CardinalityType

(* The watermark is a number that is held, or 0, and none is above it.     *)
LEMMA Watermark ==
    ASSUME FdTypeOK
    PROVE  /\ WitnessedHighWatermark \in Nat
           /\ WitnessedHighWatermark = 0 \/ \E e \in witnessed : e.seq = WitnessedHighWatermark
           /\ \A e \in witnessed : e.seq <= WitnessedHighWatermark
<1> DEFINE S == {e.seq : e \in witnessed} \cup {0}
<1>1. S \in SUBSET (0 .. Cardinality(PodCredits)) /\ S # {}
  BY CreditCount DEF FdTypeOK, Events, Seqs
<1>2. Max(S) \in S /\ \A y \in S : Max(S) >= y
  BY <1>1, CreditCount, MaxOfBounded
<1>3. WitnessedHighWatermark = Max(S)
  BY DEF WitnessedHighWatermark
<1> HIDE DEF S
<1>4. WitnessedHighWatermark \in S /\ \A y \in S : WitnessedHighWatermark >= y
  BY <1>2, <1>3
<1> QED
  BY <1>1, <1>4, CreditCount DEF S

(* The event that is stored next is the batch's lowest.                    *)
LEMMA LowestIsNext ==
    ASSUME FdTypeOK, NEW q \in Pollers, Storing(q)
    PROVE  NextOf(q) \in pull[q].batch /\ \A f \in pull[q].batch : NextOf(q).seq <= f.seq
<1> DEFINE B == pull[q].batch
           S == {e.seq : e \in B}
<1>1. B \in SUBSET Events /\ B # {}
  BY DEF FdTypeOK, Storing
<1>2. S \in SUBSET Nat /\ S # {}
  BY <1>1, CreditCount DEF Events, Seqs
<1>3. PICK m \in S : \A y \in S : m <= y
  BY <1>2, HasMin
<1>4. \E e \in B : \A f \in B : e.seq <= f.seq
  BY <1>3
<1> QED
  BY <1>4 DEF NextOf
-----------------------------------------------------------------------------
(* At the start there is no event anywhere.                                *)
LEMMA FedInvStarts == FdInit => FedInv
<1> SUFFICES ASSUME FdInit PROVE FedInv
  OBVIOUS
<1>1. Signed = {} /\ 1 .. (nextSeq - 1) = {}
  BY DEF FdInit, Signed
<1>2. FdTypeOK
  <2>1. pull \in [Pollers -> [stage : {"idle", "asked", "storing"}, since : Nat,
                             batch : SUBSET Events]]
    BY DEF FdInit, NoPull
  <2>2. pc \in [PodCredits -> {"none", "credited", "signed", "done"}] /\ held \in [PodCredits -> Nat]
    BY DEF FdInit
  <2>3. nextSeq \in Nat \ {0} /\ restarts \in Nat /\ faults \in Nat
    BY DEF FdInit
  <2> QED
    BY <2>1, <2>2, <2>3 DEF FdInit, FdTypeOK
<1>3. History
  BY <1>1, FS_EmptySet DEF FdInit, History
<1>4. Numbers
  BY DEF FdInit, Numbers
<1> QED
  BY <1>1, <1>2, <1>3, <1>4 DEF FdInit, FedInv, Copies, Complete, NoPull, Held

(* A callback's steps before it appends, or without it appending.          *)
LEMMA CallbackMoves ==
    ASSUME FedInv, NEW c \in PodCredits, pc[c] # "done",
           NEW to \in {"credited", "signed", "done"}, pc' = [pc EXCEPT ![c] = to],
           held' \in [PodCredits -> Nat], \A d \in PodCredits : d # c => held'[d] = held[d],
           to = "signed" => held'[c] = nextSeq,
           to = "done" /\ faults' = 0 => pc[c] = "signed" /\ held'[c] = held[c] /\ held[c] # nextSeq,
           faults' \in Nat, faults' = 0 => faults = 0,
           UNCHANGED <<selfDisk, selfEvents, nextSeq, restarts, witnessVars>>
    PROVE  FedInv'
<1>1. FdTypeOK'
  BY DEF FedInv, FdTypeOK, witnessVars
<1>2. History'
  <2>1. \A r \in selfDisk : r[2] \in PodCredits /\ pc'[r[2]] = "done"
    BY DEF FedInv, History, FdTypeOK
  <2>2. Signed' = Signed
    BY DEF Signed
  <2> QED
    BY <2>1, <2>2 DEF FedInv, History
<1>3. Copies'
  BY DEF FedInv, Copies, Backed, witnessVars
<1>4. pinned' # "other" => Complete'
  BY DEF FedInv, Complete, Held, Coming, witnessVars
<1>5. Numbers'
  <2>1. nextSeq \in Nat \ {0} /\ pc'[c] = to /\ \A d \in PodCredits : d # c => pc'[d] = pc[d]
    BY DEF FedInv, FdTypeOK
  <2>2. ASSUME NEW d \in PodCredits, pc'[d] = "signed" PROVE held'[d] \in 1 .. nextSeq
    BY <2>1, <2>2 DEF FedInv, Numbers
  <2>3. ASSUME faults' = 0, restarts = 0, NEW d \in PodCredits, pc'[d] = "done"
        PROVE  held'[d] \in 1 .. (nextSeq - 1)
    BY <2>1, <2>3 DEF FedInv, Numbers
  <2> QED
    BY <2>2, <2>3 DEF Numbers
<1> QED
  BY <1>1, <1>2, <1>3, <1>4, <1>5 DEF FedInv

(* Appending: the number is the next one and the credit a new one.         *)
LEMMA AppendKeeps ==
    ASSUME FedInv, NEW c \in PodCredits, AppendSelfEvent(c)
    PROVE  FedInv'
<1> DEFINE row == <<nextSeq, c>>
           event == [seq |-> nextSeq, credit |-> c, key |-> "own", intact |-> TRUE]
<1>1. /\ pc[c] = "signed" /\ held[c] = nextSeq /\ pc' = [pc EXCEPT ![c] = "done"]
      /\ selfDisk' = selfDisk \cup {row} /\ selfEvents' = selfEvents \cup {event}
      /\ nextSeq' = nextSeq + 1
      /\ UNCHANGED <<held, restarts, pinned, witnessed, pull, forked, skipped, faults>>
  BY DEF AppendSelfEvent, witnessVars
<1>2. nextSeq \in Nat \ {0} /\ nextSeq' - 1 = nextSeq
  BY <1>1 DEF FedInv, FdTypeOK
<1>3. \A r \in selfDisk : r = <<r[1], r[2]>> /\ r[2] \in PodCredits /\ r[2] # c /\ r[1] # nextSeq
  BY <1>1, <1>2 DEF FedInv, FdTypeOK, History
<1>4. row \notin selfDisk /\ c \notin Signed
  BY <1>3 DEF Signed
<1>5. Signed' = Signed \cup {c} /\ Signed \cup {c} \in SUBSET PodCredits
  <2>1. row[2] = c
    OBVIOUS
  <2>2. Signed' = {r[2] : r \in selfDisk \cup {row}}
    BY <1>1 DEF Signed
  <2> HIDE DEF row
  <2>3. Signed' = Signed \cup {c}
    BY <2>1, <2>2 DEF Signed
  <2>4. Signed \in SUBSET PodCredits
    BY <1>3 DEF Signed
  <2> QED
    BY <2>3, <2>4
<1>6. /\ IsFiniteSet(selfDisk') /\ Cardinality(selfDisk') = nextSeq
      /\ IsFiniteSet(Signed') /\ Cardinality(Signed') = nextSeq
  <2>1. /\ IsFiniteSet(selfDisk) /\ Cardinality(selfDisk) = nextSeq - 1
        /\ IsFiniteSet(Signed) /\ Cardinality(Signed) = nextSeq - 1
    BY DEF FedInv, History
  <2>2. selfDisk' = selfDisk \cup {row} /\ Signed' = Signed \cup {c}
    BY <1>1, <1>5
  <2> HIDE DEF row
  <2> QED
    BY <1>2, <1>4, <2>1, <2>2, FS_AddElement
<1>7. nextSeq \in Seqs
  BY <1>2, <1>5, <1>6, CreditCount, FederationConstants, FS_Subset DEF Seqs
<1>8. FdTypeOK'
  <2>1. event \in Events
    BY <1>7 DEF Events
  <2>2. row \in Seqs \X PodCredits
    BY <1>7
  <2>3. nextSeq' \in Nat \ {0}
    BY <1>1, <1>2
  <2> HIDE DEF event, row
  <2> QED
    BY <1>1, <2>1, <2>2, <2>3 DEF FedInv, FdTypeOK
<1>9. History'
  <2>1. \A s \in 1 .. nextSeq : \E r \in selfDisk' : r[1] = s
    <3>1. ASSUME NEW s \in 1 .. nextSeq PROVE \E r \in selfDisk' : r[1] = s
      <4>1. CASE s = nextSeq
        <5>1. row \in selfDisk' /\ row[1] = nextSeq
          BY <1>1
        <5> QED
          BY <4>1, <5>1
      <4>2. CASE s # nextSeq
        <5>1. s \in 1 .. (nextSeq - 1)
          BY <1>2, <4>2
        <5> QED
          BY <1>1, <5>1 DEF FedInv, History
      <4> QED
        BY <4>1, <4>2
    <3> QED
      BY <3>1
  <2>2. \A r \in selfDisk' : r[1] \in 1 .. nextSeq /\ pc'[r[2]] = "done"
    BY <1>1, <1>2, <1>3 DEF FedInv, History, FdTypeOK
  <2>3. \A r, s \in selfDisk' : r[1] = s[1] \/ r[2] = s[2] => r = s
    BY <1>1, <1>3 DEF FedInv, History
  <2> QED
    BY <1>2, <1>6, <2>1, <2>2, <2>3 DEF History
<1>10. Copies'
  <2>1. \A s \in 1 .. nextSeq : \E e \in selfEvents' : e.seq = s
    <3>1. ASSUME NEW s \in 1 .. nextSeq PROVE \E e \in selfEvents' : e.seq = s
      <4>1. CASE s = nextSeq
        <5>1. event \in selfEvents' /\ event.seq = nextSeq
          BY <1>1
        <5> QED
          BY <4>1, <5>1
      <4>2. CASE s # nextSeq
        <5>1. s \in 1 .. (nextSeq - 1)
          BY <1>2, <4>2
        <5> QED
          BY <1>1, <5>1 DEF FedInv, Copies
      <4> QED
        BY <4>1, <4>2
    <3> QED
      BY <3>1
  <2> QED
    BY <1>1, <1>2, <2>1 DEF FedInv, Copies, Backed
<1>11. pinned' # "other" => Complete'
  BY <1>1 DEF FedInv, Complete, Held, Coming
<1>12. Numbers'
  <2>1. pc'[c] = "done" /\ \A d \in PodCredits : d # c => pc'[d] = pc[d]
    BY <1>1 DEF FedInv, FdTypeOK
  <2>2. ASSUME NEW d \in PodCredits, pc'[d] = "signed" PROVE held'[d] \in 1 .. nextSeq'
    BY <1>1, <1>2, <2>1, <2>2 DEF FedInv, Numbers
  <2>3. ASSUME faults = 0, restarts = 0, NEW d \in PodCredits, pc'[d] = "done"
        PROVE  held'[d] \in 1 .. nextSeq
    BY <1>1, <1>2, <2>1, <2>3 DEF FedInv, Numbers
  <2> QED
    BY <1>1, <1>2, <2>2, <2>3 DEF Numbers
<1> QED
  BY <1>8, <1>9, <1>10, <1>11, <1>12 DEF FedInv

(* A restart goes on where the table ends.                                 *)
LEMMA RestartKeeps == ASSUME FedInv, Restart PROVE FedInv'
<1>1. nextSeq \in Nat \ {0}
  BY DEF FedInv, FdTypeOK
<1>2. {r[1] : r \in selfDisk} = 1 .. (nextSeq - 1)
  BY DEF FedInv, History
<1>3. Max({r[1] : r \in selfDisk} \cup {0}) = nextSeq - 1
  BY <1>1, <1>2, MaxOfPrefix
<1> DEFINE reloaded == {[seq |-> r[1], credit |-> r[2], key |-> "own", intact |-> FALSE] :
                           r \in selfDisk}
<1>4. /\ restarts' = restarts + 1
      /\ pc' = [c \in PodCredits |-> IF pc[c] \in {"credited", "signed"} THEN "done" ELSE pc[c]]
      /\ selfEvents' = reloaded
      /\ nextSeq' = nextSeq
      /\ UNCHANGED <<held, selfDisk, pinned, witnessed, pull, forked, skipped, faults>>
  BY <1>1, <1>3 DEF Restart, Reload, witnessVars
<1>5. \A r \in selfDisk : r[1] \in Seqs /\ r[2] \in PodCredits /\ r = <<r[1], r[2]>>
  BY DEF FedInv, FdTypeOK
<1>6. FdTypeOK'
  <2>1. reloaded \subseteq Events
    <3>1. ASSUME NEW r \in selfDisk
          PROVE  [seq |-> r[1], credit |-> r[2], key |-> "own", intact |-> FALSE] \in Events
      BY <1>5 DEF Events
    <3> QED
      BY <3>1
  <2>2. pc' \in [PodCredits -> {"none", "credited", "signed", "done"}]
    BY <1>4 DEF FedInv, FdTypeOK
  <2> HIDE DEF reloaded
  <2> QED
    BY <1>4, <2>1, <2>2 DEF FedInv, FdTypeOK
<1>7. History'
  <2>1. Signed' = Signed
    BY <1>4 DEF Signed
  <2>2. \A r \in selfDisk : pc'[r[2]] = "done"
    BY <1>4, <1>5 DEF FedInv, History
  <2> QED
    BY <1>4, <2>1, <2>2 DEF FedInv, History
<1>8. Copies'
  <2>1. ASSUME NEW s \in 1 .. (nextSeq - 1) PROVE \E e \in selfEvents' : e.seq = s
    <3>1. PICK r \in selfDisk : r[1] = s
      BY DEF FedInv, History
    <3>2. [seq |-> r[1], credit |-> r[2], key |-> "own", intact |-> FALSE] \in selfEvents'
      BY <1>4
    <3> QED
      BY <3>1, <3>2
  <2> QED
    BY <1>4, <1>5, <2>1 DEF FedInv, Copies, Backed
<1>9. pinned' # "other" => Complete'
  BY <1>4 DEF FedInv, Complete, Held, Coming
<1>10. Numbers'
  <2>1. restarts' # 0
    BY <1>4 DEF FedInv, FdTypeOK
  <2>2. \A c \in PodCredits : pc'[c] # "signed"
    BY <1>4
  <2> QED
    BY <2>1, <2>2 DEF Numbers
<1> QED
  BY <1>6, <1>7, <1>8, <1>9, <1>10 DEF FedInv

-----------------------------------------------------------------------------
Pulls == [stage : {"idle", "asked", "storing"}, since : Nat, batch : SUBSET Events]

(* A pull moves on; the witness stores nothing.                            *)
LEMMA PullMoves ==
    ASSUME FedInv, NEW q \in Pollers, NEW p \in Pulls, pull' = [pull EXCEPT ![q] = p],
           UNCHANGED <<issuerVars, pinned, witnessed, forked, skipped, faults>>,
           \A e \in p.batch : Backed(e),
           pinned # "other" =>
               /\ p.stage = "asked" => \A s \in 1 .. p.since : Held(s)
               /\ \A e \in p.batch : e.key = "own" =>
                      \A s \in 1 .. (e.seq - 1) :
                          Held(s) \/ \E f \in p.batch : f.key = "own" /\ f.seq = s
    PROVE  FedInv'
<1> USE DEF issuerVars
<1>1. FdTypeOK' /\ pull'[q] = p /\ \A o \in Pollers : o # q => pull'[o] = pull[o]
  BY DEF FedInv, FdTypeOK, Pulls
<1>2. History'
  BY DEF FedInv, History, Signed
<1>3. Copies'
  BY <1>1 DEF FedInv, Copies, Backed
<1>4. pinned' # "other" => Complete'
  <2> SUFFICES ASSUME pinned # "other" PROVE Complete'
    OBVIOUS
  <2>1. Complete
    BY DEF FedInv
  <2>2. \A s : Held(s)' <=> Held(s)
    BY DEF Held
  <2>3. \A o \in Pollers : pull'[o].stage = "asked" => \A s \in 1 .. pull'[o].since : Held(s)
    BY <1>1, <2>1 DEF Complete
  <2>4. ASSUME NEW o \in Pollers, NEW e \in pull'[o].batch, e.key = "own"
        PROVE  \A s \in 1 .. (e.seq - 1) : Held(s) \/ Coming(o, s)'
    <3>1. CASE o = q
      BY <1>1, <2>4, <3>1 DEF Coming
    <3>2. CASE o # q
      BY <1>1, <2>1, <2>4, <3>2 DEF Complete, Coming
    <3> QED
      BY <3>1, <3>2
  <2> QED
    BY <2>1, <2>2, <2>3, <2>4 DEF Complete
<1>5. Numbers'
  BY DEF FedInv, Numbers
<1> QED
  BY <1>1, <1>2, <1>3, <1>4, <1>5 DEF FedInv

(* Asking, being answered by either pod or by none, and the end of a pull. *)
LEMMA FetchKeeps ==
    ASSUME FedInv, NEW q \in Pollers,
           PollStart(q) \/ FetchEventsSince(q) \/ FetchFromOther(q) \/ FetchFails(q) \/ PollEnd(q)
    PROVE  FedInv'
<1>0. NoPull \in Pulls
  BY DEF NoPull, Pulls
<1>1. CASE PollStart(q)
  <2> DEFINE p == [stage |-> "asked", since |-> WitnessedHighWatermark, batch |-> {}]
  <2>1. p \in Pulls /\ pull' = [pull EXCEPT ![q] = p]
    BY <1>1, Watermark DEF FedInv, PollStart, Pulls
  <2>2. pinned # "other" => \A s \in 1 .. p.since : Held(s)
    <3> SUFFICES ASSUME pinned # "other", NEW s \in 1 .. WitnessedHighWatermark PROVE Held(s)
      OBVIOUS
    <3>1. PICK e \in witnessed : e.seq = WitnessedHighWatermark
      BY Watermark DEF FedInv
    <3>0. WitnessedHighWatermark \in Nat
      BY Watermark DEF FedInv
    <3>2. CASE s = WitnessedHighWatermark
      BY <3>1, <3>2 DEF Held
    <3>3. CASE s # WitnessedHighWatermark
      <4>1. s \in 1 .. (WitnessedHighWatermark - 1)
        BY <3>0, <3>3
      <4> QED
        BY <3>1, <4>1 DEF FedInv, Complete
    <3> QED
      BY <3>2, <3>3
  <2> HIDE DEF p
  <2>3. p.batch = {}
    BY DEF p
  <2> QED
    BY <1>1, <2>1, <2>2, <2>3, PullMoves DEF PollStart
<1>2. CASE FetchEventsSince(q)
  <2> DEFINE B == {e \in selfEvents : e.seq > pull[q].since}
             p == [stage |-> "storing", since |-> 0, batch |-> B]
  <2>1. p \in Pulls /\ pull' = [pull EXCEPT ![q] = p]
    BY <1>2 DEF FedInv, FdTypeOK, FetchEventsSince, Pulls
  <2>2. \A e \in B : Backed(e)
    BY DEF FedInv, Copies
  <2>3. ASSUME pinned # "other", NEW e \in B
        PROVE  \A s \in 1 .. (e.seq - 1) : Held(s) \/ \E f \in B : f.key = "own" /\ f.seq = s
    <3>1. Complete /\ pull[q].stage = "asked" /\ pull[q].since \in Nat
      BY <1>2, <2>3 DEF FedInv, FdTypeOK, FetchEventsSince
    <3>2. e.seq \in 1 .. (nextSeq - 1)
      <4>1. <<e.seq, e.credit>> \in selfDisk
        BY DEF FedInv, Copies, Backed
      <4> QED
        BY <4>1 DEF FedInv, History
    <3>3. ASSUME NEW s \in 1 .. (e.seq - 1), ~Held(s)
          PROVE  \E f \in B : f.key = "own" /\ f.seq = s
      <4>1. s > pull[q].since
        BY <3>1, <3>3 DEF Complete
      <4>2. s \in 1 .. (nextSeq - 1)
        BY <3>2 DEF FedInv, FdTypeOK
      <4> QED
        BY <4>1, <4>2 DEF FedInv, Copies
    <3> QED
      BY <3>3
  <2> HIDE DEF B
  <2>4. p.batch = B /\ p.stage # "asked"
    OBVIOUS
  <2> HIDE DEF p
  <2> QED
    BY <1>2, <2>1, <2>2, <2>3, <2>4, PullMoves DEF FetchEventsSince
<1>3. CASE FetchFromOther(q)
  <2>1. PICK c \in PodCredits :
          pull' = [pull EXCEPT ![q] = [stage |-> "storing", since |-> 0, batch |->
              {[seq |-> pull[q].since + 1, credit |-> c, key |-> "other", intact |-> TRUE]}]]
    BY <1>3 DEF FetchFromOther
  <2> DEFINE e == [seq |-> pull[q].since + 1, credit |-> c, key |-> "other", intact |-> TRUE]
             p == [stage |-> "storing", since |-> 0, batch |-> {e}]
  <2>2. p \in Pulls /\ pull' = [pull EXCEPT ![q] = p]
    <3>1. e \in Events
      BY <1>3 DEF FetchFromOther, Events
    <3> HIDE DEF e
    <3>2. p \in Pulls
      BY <3>1 DEF Pulls
    <3> QED
      BY <2>1, <3>2 DEF e
  <2>3. p.stage # "asked" /\ \A f \in p.batch : f.key # "own"
    OBVIOUS
  <2> HIDE DEF p
  <2> QED
    BY <1>3, <2>2, <2>3, PullMoves DEF FetchFromOther, Backed
<1>4. CASE FetchFails(q)
  BY <1>0, <1>4, PullMoves DEF FetchFails, NoPull
<1>5. CASE PollEnd(q)
  BY <1>0, <1>5, PullMoves DEF PollEnd, NoPull
<1> QED
  BY <1>1, <1>2, <1>3, <1>4, <1>5
-----------------------------------------------------------------------------
(* StoreWitnessedEvent, whatever comes of it: the key that is pinned stays *)
(* pinned; an event is stored under the pinned key, in a free place; and   *)
(* when nothing has gone wrong, an own event ends up held.                 *)
LEMMA StoreMoves ==
    ASSUME FedInv, NEW q \in Pollers, NEW e, e = NextOf(q), Storing(q), Taken(q),
           UNCHANGED issuerVars, faults' \in Nat, faults' = 0 => faults = 0,
           pinned' = pinned \/ (pinned = "none" /\ pinned' = e.key),
           \/ witnessed' = witnessed
           \/ /\ witnessed' = witnessed \cup {e}
              /\ e.intact /\ pinned' = e.key /\ SameSeq(e) = {},
           forked' \in BOOLEAN, forked' => pinned' = "other",
           skipped' = skipped \/ Skipped(e),
           e.key = "own" => Held(e.seq)'
    PROVE  FedInv'
<1> USE DEF issuerVars
<1>1. /\ e \in pull[q].batch /\ e \in Events
      /\ \A f \in pull[q].batch : e.seq <= f.seq
  BY LowestIsNext DEF FedInv, FdTypeOK
<1>2. /\ pull' = [pull EXCEPT ![q].batch = pull[q].batch \ {e}]
      /\ pull'[q].batch = pull[q].batch \ {e} /\ pull'[q].stage = pull[q].stage
      /\ pull'[q].since = pull[q].since
      /\ \A o \in Pollers : o # q => pull'[o] = pull[o]
  BY DEF FedInv, FdTypeOK, Taken
<1>3. pull' \in [Pollers -> Pulls]
  BY <1>2 DEF FedInv, FdTypeOK, Pulls
<1>4. pinned' \in {"none", "own", "other"} /\ witnessed' \subseteq Events
  BY <1>1 DEF FedInv, FdTypeOK, Events
<1>5. FdTypeOK'
  <2>1. skipped' \subseteq Seqs /\ skipped \subseteq skipped'
    BY <1>1 DEF FedInv, FdTypeOK, Skipped, Events
  <2> QED
    BY <1>3, <1>4, <2>1 DEF FedInv, FdTypeOK, Pulls
<1>6. History'
  BY DEF FedInv, History, Signed
<1>7. Copies'
  <2>1. Backed(e)
    BY <1>1 DEF FedInv, Copies
  <2>2. \A f \in witnessed : f.key = pinned /\ f.key # "none"
    BY DEF FedInv, FdTypeOK, Copies, Events
  <2>3. \A f \in witnessed' : Backed(f) /\ f.intact /\ f.key = pinned'
    BY <2>1, <2>2 DEF FedInv, Copies
  <2>4. \A f, g \in witnessed' : f.seq = g.seq => f = g
    BY DEF FedInv, Copies, SameSeq
  <2>5. \A o \in Pollers : \A f \in pull'[o].batch : Backed(f)
    BY <1>2 DEF FedInv, Copies
  <2> QED
    BY <2>3, <2>4, <2>5 DEF FedInv, Copies, Backed
<1>8. pinned' # "other" => Complete'
  <2> SUFFICES ASSUME pinned' # "other" PROVE Complete'
    OBVIOUS
  <2>1. Complete
    BY <1>1 DEF FedInv
  <2>2. \A s : Held(s) => Held(s)'
    BY DEF Held, Skipped
  <2>3. \A f \in pull[q].batch : \A s \in 1 .. (f.seq - 1) :
           f.key = "own" => Held(s)' \/ \E g \in pull'[q].batch : g.key = "own" /\ g.seq = s
    BY <1>2, <2>1, <2>2 DEF Complete, Coming
  <2>4. ASSUME NEW f \in witnessed', NEW s \in 1 .. (f.seq - 1) PROVE Held(s)'
    <3>1. CASE f \in witnessed
      BY <2>1, <2>2, <3>1 DEF Complete
    <3>2. CASE f \notin witnessed
      <4>1. f = e /\ e.key = "own"
        BY <1>1, <3>2 DEF Events
      <4>2. Held(s) \/ Coming(q, s)
        BY <1>1, <2>1, <2>4, <4>1 DEF Complete
      <4>3. ~Coming(q, s)
        <5>1. s < e.seq
          BY <1>1, <2>4, <4>1, CreditCount DEF Events, Seqs
        <5>2. \A g \in pull[q].batch : g.seq \in Nat
          BY CreditCount DEF FedInv, FdTypeOK, Events, Seqs
        <5>3. e.seq \in Nat /\ s \in Nat
          BY <1>1, CreditCount DEF Events, Seqs
        <5> QED
          BY <1>1, <5>1, <5>2, <5>3 DEF Coming
      <4> QED
        BY <2>2, <4>2, <4>3
    <3> QED
      BY <3>1, <3>2
  <2>5. ASSUME NEW o \in Pollers, pull'[o].stage = "asked", NEW s \in 1 .. pull'[o].since
        PROVE  Held(s)'
    <3>1. pull[o].stage = "asked" /\ s \in 1 .. pull[o].since
      BY <1>2, <2>5
    <3> QED
      BY <2>1, <2>2, <3>1 DEF Complete
  <2>6. ASSUME NEW o \in Pollers, NEW f \in pull'[o].batch, f.key = "own"
        PROVE  \A s \in 1 .. (f.seq - 1) : Held(s)' \/ Coming(o, s)'
    <3>1. f \in pull[o].batch
      BY <1>2, <2>6
    <3>2. CASE o = q
      BY <2>1, <2>3, <2>6, <3>1, <3>2 DEF Complete, Coming
    <3>3. CASE o # q
      <4>1. \A s : Coming(o, s) => Coming(o, s)'
        BY <1>2, <3>3 DEF Coming
      <4> QED
        BY <2>1, <2>2, <2>6, <3>1, <4>1 DEF Complete
    <3> QED
      BY <3>2, <3>3
  <2> QED
    BY <2>1, <2>4, <2>5, <2>6 DEF Complete
<1>9. Numbers'
  BY DEF FedInv, Numbers
<1> QED
  BY <1>5, <1>6, <1>7, <1>8, <1>9 DEF FedInv

(* The four outcomes of storing an event.                                  *)
LEMMA StoreKeeps ==
    ASSUME FedInv, NEW q \in Pollers,
           StoreNew(q) \/ StoreKnown(q) \/ StoreRejects(q) \/ StoreFails(q)
    PROVE  FedInv'
<1>0. PICK e : e = NextOf(q)
  OBVIOUS
<1>1. Storing(q) /\ Taken(q) /\ UNCHANGED issuerVars
  BY DEF StoreNew, StoreKnown, StoreRejects, StoreFails
<1>2. /\ faults \in Nat /\ forked \in BOOLEAN /\ (forked => pinned = "other")
      /\ e \in pull[q].batch /\ e \in Events
  BY <1>0, <1>1, LowestIsNext DEF FedInv, FdTypeOK, Copies
<1>3. CASE StoreNew(q)
  <2>1. /\ e.intact /\ pinned \in {"none", e.key} /\ pinned' = e.key /\ SameSeq(e) = {}
        /\ witnessed' = witnessed \cup {e} /\ UNCHANGED <<forked, skipped, faults>>
    BY <1>0, <1>3 DEF StoreNew
  <2>2. Held(e.seq)'
    BY <2>1 DEF Held
  <2>3. forked' => pinned' = "other"
    BY <1>2, <2>1
  <2> QED
    BY <1>0, <1>1, <1>2, <2>1, <2>2, <2>3, StoreMoves
<1>4. CASE StoreKnown(q)
  <2>1. /\ e.intact /\ pinned = e.key /\ SameSeq(e) # {} /\ pinned' = pinned
        /\ forked' = (forked \/ e \notin witnessed)
        /\ UNCHANGED <<witnessed, skipped, faults>>
    BY <1>0, <1>4 DEF StoreKnown
  <2>2. PICK f \in witnessed : f.seq = e.seq
    BY <2>1 DEF SameSeq
  <2>3. e.key # "other" => f = e
    <3> SUFFICES ASSUME e.key # "other" PROVE f = e
      OBVIOUS
    <3>1. e.key = "own" /\ f.key = "own" /\ f.intact /\ f \in Events
      BY <1>2, <2>1 DEF FedInv, FdTypeOK, Copies, Events
    <3>2. <<e.seq, e.credit>> \in selfDisk /\ <<f.seq, f.credit>> \in selfDisk
      BY <1>2, <3>1 DEF FedInv, Copies, Backed
    <3>3. <<e.seq, e.credit>> = <<f.seq, f.credit>>
      BY <2>2, <3>2 DEF FedInv, History
    <3>4. e.intact = TRUE /\ f.intact = TRUE
      BY <1>2, <2>1, <3>1 DEF Events
    <3> QED
      BY <1>2, <3>1, <3>3, <3>4 DEF Events
  <2>4. forked' => pinned' = "other"
    BY <1>2, <2>1, <2>2, <2>3
  <2>5. Held(e.seq)'
    BY <2>1, <2>2 DEF Held
  <2> QED
    BY <1>0, <1>1, <1>2, <2>1, <2>4, <2>5, StoreMoves
<1>5. CASE StoreRejects(q)
  <2>1. Skipped(e) /\ UNCHANGED <<pinned, witnessed, forked, faults>>
    BY <1>0, <1>5 DEF StoreRejects
  <2>2. e.key = "own" => Held(e.seq)'
    BY <2>1 DEF Skipped, Held
  <2> QED
    BY <1>0, <1>1, <1>2, <2>1, <2>2, StoreMoves
<1>6. CASE StoreFails(q)
  <2>1. /\ faults' = faults + 1 /\ pinned \in {"none", e.key} /\ pinned' \in {pinned, e.key}
        /\ Skipped(e) /\ UNCHANGED <<witnessed, forked>>
    BY <1>0, <1>6 DEF StoreFails
  <2>2. faults' \in Nat /\ faults' # 0
    BY <1>2, <2>1
  <2>3. forked' => pinned' = "other"
    BY <1>2, <2>1
  <2>4. e.key = "own" => Held(e.seq)'
    BY <2>1 DEF Skipped, Held
  <2> QED
    BY <1>0, <1>1, <1>2, <2>1, <2>2, <2>3, <2>4, StoreMoves
<1> QED
  BY <1>3, <1>4, <1>5, <1>6

(* Every step of issuer and witness keeps the invariant.                   *)
LEMMA FedInvStays == ASSUME FedInv, [FdNext]_fdVars PROVE FedInv'
<1> USE DEF fdVars, issuerVars, witnessVars
<1>1. CASE UNCHANGED fdVars
  BY <1>1 DEF FedInv, FdTypeOK, History, Numbers, Signed, Copies, Backed, Complete, Held, Coming
<1>2. ASSUME NEW c \in PodCredits,
             WriteCredit(c) \/ NextSequence(c) \/ AppendRefused(c) \/ AppendFails(c)
      PROVE  FedInv'
  <2>1. held \in [PodCredits -> Nat] /\ nextSeq \in Nat /\ faults \in Nat
    BY DEF FedInv, FdTypeOK
  <2>2. CASE WriteCredit(c)
    BY <2>1, <2>2, CallbackMoves DEF WriteCredit
  <2>3. CASE NextSequence(c)
    BY <2>1, <2>3, CallbackMoves DEF NextSequence
  <2>4. CASE AppendRefused(c)
    BY <2>1, <2>4, CallbackMoves DEF AppendRefused
  <2>5. CASE AppendFails(c)
    <3>1. faults' \in Nat /\ faults' # 0
      BY <2>1, <2>5 DEF AppendFails
    <3> QED
      BY <2>1, <2>5, <3>1, CallbackMoves DEF AppendFails
  <2> QED
    BY <1>2, <2>2, <2>3, <2>4, <2>5
<1> QED
  BY <1>1, <1>2, AppendKeeps, RestartKeeps, FetchKeeps, StoreKeeps DEF FdNext

(* So it holds throughout.                                                 *)
LEMMA FedInvAlways == FdSpec => []FedInv
BY FedInvStarts, FedInvStays, PTL DEF FdSpec

(* Issuer and witness stay well typed; among other things, no callback     *)
(* takes a sequence number beyond the number of credits.                   *)
THEOREM FederationTypeCorrect == FdSpec => []FdTypeOK
BY FedInvAlways, PTL DEF FedInv

(* The signed history has no hole and no number signed twice, for any      *)
(* number of racing callbacks, failing INSERTs and restarts; and without   *)
(* the last two a credit loses its event only to one that took its number. *)
THEOREM HistoryStaysDense == FdSpec => []HistoryIsDense
<1>1. FedInv => HistoryIsDense
  <2> SUFFICES ASSUME FedInv PROVE HistoryIsDense
    OBVIOUS
  <2>1. {r[1] : r \in selfDisk} = 1 .. (nextSeq - 1) /\ Cardinality(selfDisk) = nextSeq - 1
    BY DEF FedInv, History
  <2>2. ASSUME faults = 0, restarts = 0, NEW c \in PodCredits, pc[c] = "done"
        PROVE  \E r \in selfDisk : r[1] = held[c]
    <3>1. held[c] \in 1 .. (nextSeq - 1)
      BY <2>2 DEF FedInv, Numbers
    <3> QED
      BY <3>1 DEF FedInv, History
  <2> QED
    BY <2>1, <2>2 DEF HistoryIsDense
<1> QED
  BY <1>1, FedInvAlways, PTL

(* What the witness holds is the truth, for any number of pulls that       *)
(* overlap and writes that fail: no false accusation, nothing counted that *)
(* was not issued, and no gap but the events that were skipped themselves. *)
THEOREM WitnessIsTruthful == FdSpec => []WitnessTellsTruth
<1>1. FedInv => NoFalseFork
  BY DEF FedInv, Copies, NoFalseFork
<1>2. FedInv => WitnessedIsBacked
  <2> SUFFICES ASSUME FedInv PROVE WitnessedIsBacked
    OBVIOUS
  <2>1. ASSUME pinned = "own", NEW e \in witnessed
        PROVE  <<e.seq, e.credit>> \in selfDisk /\ pc[e.credit] = "done"
    <3>1. <<e.seq, e.credit>> \in selfDisk
      BY <2>1 DEF FedInv, Copies, Backed
    <3> QED
      BY <3>1 DEF FedInv, History
  <2>2. ASSUME pinned = "own", NEW e \in witnessed, NEW f \in witnessed, e.credit = f.credit
        PROVE  e = f
    <3>1. <<e.seq, e.credit>> = <<f.seq, f.credit>>
      BY <2>1, <2>2 DEF FedInv, History
    <3> QED
      BY <3>1 DEF FedInv, Copies
  <2> QED
    BY <2>1, <2>2 DEF FedInv, Copies, WitnessedIsBacked
<1>3. FedInv => NoSelfInflictedGap
  <2> SUFFICES ASSUME FedInv, pinned = "own", NEW s \in 1 .. WitnessedHighWatermark
               PROVE  s \in {e.seq : e \in witnessed} \cup skipped
    BY DEF NoSelfInflictedGap
  <2>1. Complete /\ WitnessedHighWatermark \in Nat
    BY Watermark DEF FedInv
  <2>2. PICK e \in witnessed : e.seq = WitnessedHighWatermark
    BY <2>1, Watermark DEF FedInv
  <2>3. CASE s = WitnessedHighWatermark
    BY <2>2, <2>3
  <2>4. CASE s # WitnessedHighWatermark
    <3>1. s \in 1 .. (e.seq - 1)
      BY <2>1, <2>2, <2>4
    <3> QED
      BY <2>1, <3>1 DEF Complete, Held
  <2> QED
    BY <2>3, <2>4
<1> QED
  BY <1>1, <1>2, <1>3, FedInvAlways, PTL DEF WitnessTellsTruth
=============================================================================
