\* One payment, an error, a restart and transfers that may revert, with fairness.
CONSTANTS
  p = p
  Payments = {p}
  Merchant <- OneMerchant
  Net <- NetOne
  Fees = {1}
  NoTx = NoTx
  NoCall = NoCall
  PendingLag = 0
  MaxFail = 1
  MaxCrash = 1
  MaxTxs = 8
  Refunds = {}
  PayMayRevert = TRUE
SPECIFICATION FairSpec
PROPERTIES EventuallyPaid IncomingResolves
CHECK_DEADLOCK FALSE
