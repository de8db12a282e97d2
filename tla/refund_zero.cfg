\* One payment that leaves its merchant nothing, two refund requests, an error
\* and a restart.
CONSTANTS
  p = p
  Payments = {p}
  Merchant <- OneMerchant
  Net <- NetZero
  Fees = {1}
  NoTx = NoTx
  NoCall = NoCall
  PendingLag = 0
  MaxFail = 1
  MaxCrash = 1
  MaxTxs = 8
  Refunds = {1, 2}
  PayMayRevert = TRUE
SPECIFICATION Spec
INVARIANTS RefundBacked RefundedTwiceOnlyRushed
CHECK_DEADLOCK FALSE
