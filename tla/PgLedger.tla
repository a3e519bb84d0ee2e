------------------------------ MODULE PgLedger ------------------------------
(***************************************************************************)
(* The Postgres backend of settlement.Ledger, shared by any number of      *)
(* coordinator processes.  There is no in-memory copy and no mutex: each   *)
(* call is one READ COMMITTED transaction of a session (a goroutine of     *)
(* some coordinator), and what keeps the books right is the row lock of    *)
(* SELECT ... FOR UPDATE, the additive upsert of account_balances and the  *)
(* primary key of startup_grant_claims.                                    *)
(*                                                                         *)
(* Postgres itself is external; the part of it the code relies on is: a    *)
(* transaction's writes become visible to others together, at its commit;  *)
(* a written row (also a not yet visible inserted one) stays locked        *)
(* against other writers until then; a blocked statement, once it          *)
(* proceeds, sees what has been committed meanwhile.                       *)
(***************************************************************************)
EXTENDS CreditTotals

CONSTANTS
    Users,
    Sessions,     \* goroutines of the coordinators, one transaction each
    Amounts,
    MaxCommits,   \* bound: transactions that write
    NoSession

ASSUME PgConstants ==
    /\ Amounts \subseteq Nat
    /\ MaxCommits \in Nat
    /\ NoSession \notin Sessions

VARIABLES
    log,         \* log[u]: committed sums over credit_entries and ledger_debits
    bal,         \* bal[u]: committed totals of u's account_balances row
    hasRow,      \* users with a committed account_balances row
    claims,      \* users with a committed startup_grant_claims row
    rowLock,     \* rowLock[u]: the session holding u's account_balances row
    claimLock,   \* claimLock[u]: the session with an uncommitted claim of u
    tx,          \* tx[s]: the transaction of session s
    commits,     \* transactions committed so far
    rec          \* the reconciler: the credit sums it read, what it reported

vars == <<log, bal, hasRow, claims, rowLock, claimLock, tx, commits, rec>>
dbVars == <<log, bal, hasRow, claims>>

Kinds == {"earn", "grant", "debit"}
Stages == {"begun", "checked", "written"}

BalanceRow == [grant : Nat, earned : Nat, debited : Nat]
NoBalance == [grant |-> 0, earned |-> 0, debited |-> 0]

(* The log's sums as an account_balances row would hold them.              *)
AsRow(t) == [grant |-> t.grant, earned |-> t.earned, debited |-> t.debited]

(* Mutant: ON CONFLICT DO UPDATE sets the totals to EXCLUDED.              *)
UpsertOverwrites(b, kind, amount) ==
    [grant   |-> IF kind = "grant" THEN amount ELSE b.grant,
     earned  |-> IF kind = "earn"  THEN b.earned + amount ELSE b.earned,
     debited |-> IF kind = "debit" THEN amount ELSE b.debited]

(* Mutant: the debit's upsert books its amount with the sign of a balance. *)
UpsertSubtracts(b, kind, amount) ==
    [grant   |-> IF kind = "grant" THEN b.grant + amount ELSE b.grant,
     earned  |-> IF kind = "earn"  THEN b.earned + amount ELSE b.earned,
     debited |-> IF kind = "debit" THEN b.debited - amount ELSE b.debited]

(* upsertBalanceTotalsTx and the debit's upsert: the same additive update. *)
Upserted(b, kind, amount) ==
    [grant   |-> IF kind = "grant" THEN b.grant + amount ELSE b.grant,
     earned  |-> IF kind = "earn"  THEN b.earned + amount ELSE b.earned,
     debited |-> IF kind = "debit" THEN b.debited + amount ELSE b.debited]

NoTx == [stage |-> "none"]

Txs == [kind : Kinds, user : Users, amount : Amounts, stage : Stages] \cup {NoTx}

Open(s, stage, kinds) == tx[s] # NoTx /\ tx[s].stage = stage /\ tx[s].kind \in kinds

-----------------------------------------------------------------------------
BeginTx(s, kind, u, amount) ==
    /\ tx[s] = NoTx
    /\ commits < MaxCommits
    /\ tx' = [tx EXCEPT ![s] = [kind |-> kind, user |-> u, amount |-> amount,
                                stage |-> "begun"]]
    /\ UNCHANGED <<log, bal, hasRow, claims, rowLock, claimLock, commits, rec>>

(* tx.Rollback, deferred in every call: an early return, a failed          *)
(* statement, or the death of the coordinator.  All of it is undone.       *)
EndTxKeepingLocks(s) ==
    /\ tx' = [tx EXCEPT ![s] = NoTx]
    /\ UNCHANGED <<rowLock, claimLock>>

EndTx(s) ==
    /\ tx' = [tx EXCEPT ![s] = NoTx]
    /\ rowLock' = [u \in Users |-> IF rowLock[u] = s THEN NoSession ELSE rowLock[u]]
    /\ claimLock' = [u \in Users |-> IF claimLock[u] = s THEN NoSession ELSE claimLock[u]]

RollBack(s) ==
    /\ tx[s] # NoTx
    /\ EndTx(s)
    /\ UNCHANGED <<log, bal, hasRow, claims, commits, rec>>

(* claimStartupGrantOncePG: INSERT ... ON CONFLICT DO NOTHING.  Another    *)
(* session's uncommitted claim of the same user blocks it; a committed one *)
(* makes it affect no row, and the call returns claimed = false.           *)
InsertClaim(s) ==
    /\ Open(s, "begun", {"grant"})
    /\ LET u == tx[s].user IN
         /\ claimLock[u] = NoSession
         /\ \/ /\ u \in claims
               /\ EndTx(s)
            \/ /\ u \notin claims
               /\ claimLock' = [claimLock EXCEPT ![u] = s]
               /\ tx' = [tx EXCEPT ![s].stage = "checked"]
               /\ UNCHANGED rowLock
    /\ UNCHANGED <<log, bal, hasRow, claims, commits, rec>>

(* debitAccountPG: SELECT ... FOR UPDATE and the check.  Without a row     *)
(* there is nothing to lock and the totals are zero.                       *)
SelectWithoutLock(s) ==
    /\ Open(s, "begun", {"debit"})
    /\ LET u == tx[s].user IN
         \/ /\ Affords(bal[u], tx[s].amount)
            /\ tx' = [tx EXCEPT ![s].stage = "checked"]
            /\ UNCHANGED <<rowLock, claimLock>>
         \/ /\ ~Affords(bal[u], tx[s].amount)
            /\ EndTx(s)
    /\ UNCHANGED <<log, bal, hasRow, claims, commits, rec>>

SelectForUpdate(s) ==
    /\ Open(s, "begun", {"debit"})
    /\ LET u == tx[s].user IN
         /\ u \in hasRow => rowLock[u] = NoSession
         /\ \/ /\ Affords(bal[u], tx[s].amount)
               /\ tx' = [tx EXCEPT ![s].stage = "checked"]
               /\ rowLock' = IF u \in hasRow THEN [rowLock EXCEPT ![u] = s] ELSE rowLock
               /\ UNCHANGED claimLock
            \/ /\ ~Affords(bal[u], tx[s].amount)
               /\ EndTx(s)
    /\ UNCHANGED <<log, bal, hasRow, claims, commits, rec>>

(* The INSERT of the log row and the upsert of account_balances, which     *)
(* waits for the row's lock and keeps it to the end of the transaction.    *)
Write(s) ==
    /\ Open(s, "begun", {"earn"}) \/ Open(s, "checked", {"grant", "debit"})
    /\ rowLock[tx[s].user] \in {NoSession, s}
    /\ rowLock' = [rowLock EXCEPT ![tx[s].user] = s]
    /\ tx' = [tx EXCEPT ![s].stage = "written"]
    /\ UNCHANGED <<log, bal, hasRow, claims, claimLock, commits, rec>>

(* tx.Commit.  (When its reply is lost the call reports a failure although *)
(* the rows are there; the database cannot tell, so that is this action.)  *)
Commit(s) ==
    /\ Open(s, "written", Kinds)
    /\ LET u == tx[s].user
           k == tx[s].kind
           a == tx[s].amount
       IN  /\ log' = [log EXCEPT ![u] = Posted(@, k, a)]
           /\ bal' = [bal EXCEPT ![u] = Upserted(@, k, a)]
           /\ hasRow' = hasRow \cup {u}
           /\ claims' = IF k = "grant" THEN claims \cup {u} ELSE claims
    /\ commits' = commits + 1
    /\ EndTx(s)
    /\ UNCHANGED rec

-----------------------------------------------------------------------------
(* reconcilePG: one query for the credits and, with no transaction around  *)
(* them, another for the debits.                                           *)
NoReading == [stage |-> "idle", credits |-> [u \in Users |-> 0], anomalies |-> {}]

ReconcileCredits ==
    /\ rec.stage = "idle"
    /\ rec' = [stage |-> "half", credits |-> [u \in Users |-> Credits(log[u])],
               anomalies |-> {}]
    /\ UNCHANGED <<log, bal, hasRow, claims, rowLock, claimLock, tx, commits>>

ReconcileDebits ==
    /\ rec.stage = "half"
    /\ rec' = [NoReading EXCEPT !.anomalies =
                  {u \in Users : log[u].debited > rec.credits[u]}]
    /\ UNCHANGED <<log, bal, hasRow, claims, rowLock, claimLock, tx, commits>>

-----------------------------------------------------------------------------
Init ==
    /\ log = [u \in Users |-> NoTotals]
    /\ bal = [u \in Users |-> NoBalance]
    /\ hasRow = {}
    /\ claims = {}
    /\ rowLock = [u \in Users |-> NoSession]
    /\ claimLock = [u \in Users |-> NoSession]
    /\ tx = [s \in Sessions |-> NoTx]
    /\ commits = 0
    /\ rec = NoReading

Statement(s) == InsertClaim(s) \/ SelectForUpdate(s) \/ Write(s) \/ Commit(s)

Next ==
    \/ \E s \in Sessions :
          \/ \E kind \in Kinds, u \in Users, amount \in Amounts :
                BeginTx(s, kind, u, amount)
          \/ InsertClaim(s)
          \/ SelectForUpdate(s)
          \/ Write(s)
          \/ Commit(s)
          \/ RollBack(s)
    \/ ReconcileCredits
    \/ ReconcileDebits

(* A session whose statement can run again and again gets to run it:       *)
(* Postgres queues lock waiters first come, first served.                  *)
Spec == Init /\ [][Next]_vars /\ \A s \in Sessions : SF_vars(Statement(s))

-----------------------------------------------------------------------------
(* Type correctness of the database and the open transactions.             *)
TypeOK ==
    /\ log \in [Users -> Totals]
    /\ bal \in [Users -> BalanceRow]
    /\ hasRow \subseteq Users
    /\ claims \subseteq Users
    /\ rowLock \in [Users -> Sessions \cup {NoSession}]
    /\ claimLock \in [Users -> Sessions \cup {NoSession}]
    /\ tx \in [Sessions -> Txs]
    /\ commits \in Nat
    /\ rec.credits \in [Users -> Nat] /\ rec.anomalies \subseteq Users

(* account_balances, which every decision reads, never drifts from the     *)
(* logs it summarises, whatever transactions of other coordinators commit  *)
(* between a read and a write of it.                                       *)
BalancesMatchLog ==
    \A u \in Users : bal[u] = AsRow(log[u]) /\ (u \notin hasRow => log[u] = NoTotals)

(* Two coordinators debiting one account at once never overdraw it.        *)
PgNoOverdraft == \A u \in Users : ~Anomaly(log[u])

(* Two coordinators racing for one user's startup grant issue one grant,   *)
(* and the claims table says exactly who has had one.                      *)
PgGrantAtMostOnce ==
    \A u \in Users : log[u].grants = IF u \in claims THEN 1 ELSE 0

(* The tables agree: balances and claims with the logs they summarise.     *)
TablesAgree == BalancesMatchLog /\ PgGrantAtMostOnce

(* Every transaction ends: no two of them wait for each other's locks.     *)
TransactionsEnd == \A s \in Sessions : (tx[s] # NoTx) ~> (tx[s] = NoTx)

(* The committed log, through all interleavings, is a credit book.         *)
Book == INSTANCE CreditBook WITH book <- log
ImplementsCreditBook == Book!Spec

(* reconcile.go says of a report that it "reflects a consistent snapshot": *)
(* an anomaly is reported only of an account that is overdrawn.            *)
ReconcileIsASnapshot == \A u \in rec.anomalies : Anomaly(log[u])
=============================================================================
