\* Two callers, a node whose pending count trails by one, two errors and a
\* restart, with fairness for the callers.
CONSTANTS
  t1 = t1  t2 = t2  c1 = c1  c2 = c2
  Tasks = {t1, t2}
  Calls = {c1, c2}
  Fees = {1}
  NoCall = NoCall
  NoTx = NoTx
  PendingLag = 1
  MaxFail = 2
  MaxCrash = 1
  MaxTxs = 2
SPECIFICATION FairSpec
INVARIANTS NoGap WalletInv
PROPERTIES FreshNonce EverySubmissionEnds
CHECK_DEADLOCK FALSE
