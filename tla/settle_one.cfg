\* One payment, two errors, two restarts, two gas quotes, and transfers that may
\* revert.
CONSTANTS
  p = p
  Payments = {p}
  Merchant <- OneMerchant
  Net <- NetOne
  Fees = {1, 2}
  NoTx = NoTx
  NoCall = NoCall
  PendingLag = 0
  MaxFail = 2
  MaxCrash = 2
  MaxTxs = 8
  Refunds = {1}
  PayMayRevert = TRUE
SPECIFICATION Spec
INVARIANTS SettleInv PulledBeforePay IntentBeforeBroadcast FailedNeverPaid
PROPERTIES TerminalIsFinal AbandonedMovesNothing WalletSpec EscrowSpec
CHECK_DEADLOCK FALSE
