----------------------------- MODULE CreditBook -----------------------------
(***************************************************************************)
(* What the credit ledger promises its callers, whatever the backend: a    *)
(* book of per-user sums that changes by one whole row at a time, where a  *)
(* startup grant is written only for a user who has none and a debit only  *)
(* when the credit on the book at that instant covers it.  Nothing else    *)
(* ever happens to the book: no row is lost, split, duplicated or undone.  *)
(***************************************************************************)
EXTENDS CreditTotals

CONSTANTS Users, Amounts

VARIABLE book

Row(u, kind, amount) ==
    book' = [book EXCEPT ![u] = Posted(@, kind, amount)]

Credit(u, amount) == \E kind \in {"earn", "admin"} : Row(u, kind, amount)

ClaimGrant(u, amount) ==
    /\ book[u].grants = 0
    /\ Row(u, "grant", amount)

Debit(u, amount) ==
    /\ Affords(book[u], amount)
    /\ Row(u, "debit", amount)

Init == book = [u \in Users |-> NoTotals]

Next == \E u \in Users, amount \in Amounts :
           \/ Credit(u, amount)
           \/ ClaimGrant(u, amount)
           \/ Debit(u, amount)

Spec == Init /\ [][Next]_book
=============================================================================
