----------------------------- MODULE MCBilling -----------------------------
(* Billing for TLC: requests and job ids are interchangeable.              *)
EXTENDS Billing, TLC

RequestsAndJobs == Permutations(Requests) \cup Permutations(Jobs)
=============================================================================
