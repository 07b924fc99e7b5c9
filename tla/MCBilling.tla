------------------------------ MODULE MCBilling ------------------------------
(* A small instance of Billing: one plan above the free tier. *)
EXTENDS Billing, TLC

TwoUnits == [p \in Plans |-> 2]

BillingSymmetry == Permutations(Calls) \cup Permutations(Holds)
=============================================================================
