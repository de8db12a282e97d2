---------------------------- MODULE MCSettlement ----------------------------
(* Small instances of Settlement.                                          *)
EXTENDS Settlement, TLC

Interchangeable == Permutations(Payments)

\* Constraint: an error or a restart, not both.
OneFault == fails + crashes <= 1

\* Every payment owes the same amount to the same merchant.
OneMerchant == [p \in Payments |-> "m"]
NetOne == [p \in Payments |-> 1]

\* The smallest amount verifyPayment lets through leaves the merchant nothing.
NetZero == [p \in Payments |-> 0]
=============================================================================
