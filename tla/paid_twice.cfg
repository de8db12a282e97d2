\* One payment, nothing fails.
CONSTANTS
  p = p
  Payments = {p}
  Merchant <- OneMerchant
  Net <- NetOne
  Fees = {1}
  NoTx = NoTx
  NoCall = NoCall
  PendingLag = 0
  MaxFail = 0
  MaxCrash = 0
  MaxTxs = 8
  Refunds = {}
  PayMayRevert = FALSE
SPECIFICATION Spec
INVARIANT NeverPaidTwice
CHECK_DEADLOCK FALSE
