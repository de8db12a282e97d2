------------------------------ MODULE MCIntake ------------------------------
(* Small instances of Intake.                                              *)
EXTENDS Intake, TLC

CONSTANTS m, mm, o

\* m and mm spell one address.
MCAddress == (m :> "a") @@ (mm :> "a") @@ (o :> "b")

Interchangeable == Permutations(Requests) \cup Permutations({m, mm})
=============================================================================
