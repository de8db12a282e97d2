\* Two payments to one merchant, and an error or a restart.
CONSTANTS
  p = p  q = q
  Payments = {p, q}
  Merchant <- OneMerchant
  Net <- NetOne
  Fees = {1}
  NoTx = NoTx
  NoCall = NoCall
  PendingLag = 0
  MaxFail = 1
  MaxCrash = 1
  MaxTxs = 4
  Refunds = {}
  PayMayRevert = FALSE
SYMMETRY Interchangeable
CONSTRAINT OneFault
SPECIFICATION Spec
INVARIANTS OverpaidOnlyByOverlap AnswersBacked UnderpaidOnlyByFault
CHECK_DEADLOCK FALSE
