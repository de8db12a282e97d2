\* Every amount and requirement up to 60, at the highest fee rate.
CONSTANTS GasFee = 7  FeeBps = 500  Cap = 50  MaxAmount = 60
SPECIFICATION Spec
INVARIANTS FeeRate Monotone NothingOnlyAtOneUnit
CHECK_DEADLOCK FALSE
