---------------------------- MODULE CreditTotals ----------------------------
(***************************************************************************)
(* The arithmetic every ledger backend of internal/settlement shares.      *)
(*                                                                         *)
(* The code keeps two append-only logs (credit entries, debits) and        *)
(* derives everything it decides from their per-user sums.  A Totals       *)
(* record is those sums for one user, in whole units of the smallest       *)
(* charge (pricing rounds every amount to 1/10000 credit, so the code's    *)
(* float64 amounts are multiples of that unit):                            *)
(*   grant    sum of startup_grant entries                                 *)
(*   earned   sum of earned and admin_adjustment entries                   *)
(*   debited  sum of debits                                                *)
(*   grants   how many startup_grant entries there are (a grant may be of  *)
(*            amount 0 once the pod's capacity has decayed it)             *)
(***************************************************************************)
EXTENDS Naturals

Totals == [grant : Nat, earned : Nat, debited : Nat, grants : Nat]

NoTotals == [grant |-> 0, earned |-> 0, debited |-> 0, grants |-> 0]

(* The kinds of row that change a user's sums.                             *)
RowKinds == {"grant", "earn", "admin", "debit"}

(* grantEarnedDeltas and the debit branch: what one row adds to the sums.  *)
Posted(t, kind, amount) ==
    [grant   |-> IF kind = "grant" THEN t.grant + amount ELSE t.grant,
     earned  |-> IF kind \in {"earn", "admin"} THEN t.earned + amount ELSE t.earned,
     debited |-> IF kind = "debit" THEN t.debited + amount ELSE t.debited,
     grants  |-> IF kind = "grant" THEN t.grants + 1 ELSE t.grants]

Credits(t) == t.grant + t.earned

(* `amount > grantTotal+earnedTotal-totalDebited` negated, kept in Nat.    *)
Affords(t, amount) == t.debited + amount <= Credits(t)

Least(a, b) == IF a <= b THEN a ELSE b

(* max(0.0, a - b)                                                         *)
Excess(a, b) == IF a > b THEN a - b ELSE 0

(* balanceFromTotals: grant credit is spent before earned credit.          *)
EarnedFirst(t) ==
    LET earnedBal == Excess(t.earned, t.debited)
        grantBal  == Excess(t.grant, Excess(t.debited, t.earned))
    IN  [grantBalance  |-> grantBal,
         earnedBalance |-> earnedBal,
         total         |-> grantBal + earnedBal]

balanceFromTotals(t) ==
    LET grantBal  == Excess(t.grant, Least(t.debited, t.grant))
        earnedBal == Excess(t.earned, Excess(t.debited, t.grant))
    IN  [grantBalance  |-> grantBal,
         earnedBalance |-> earnedBal,
         total         |-> grantBal + earnedBal]

(* Reconcile's test for one user (an Overdraft, or an OrphanDebit when the *)
(* user has no credit at all).                                             *)
Anomaly(t) == t.debited > Credits(t)
=============================================================================
