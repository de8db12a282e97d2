\* Every environment, with an endpoint whose calls all succeed and with one whose
\* calls may fail.
SPECIFICATION Spec
INVARIANTS GateButDatabase DoctorStricterInFour UpIsSettleable
CHECK_DEADLOCK FALSE
