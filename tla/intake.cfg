\* Two concurrent requests for one nonce, two merchants, one of them spelled in two
\* ways; of the two amounts one is over the cap; a clock of two ticks, a requirement
\* lasting one.
CONSTANTS
  r1 = r1
  r2 = r2
  m = m
  mm = mm
  o = o
  n1 = n1
  Requests = {r1, r2}
  Nonces = {n1}
  Amounts = {2, 3}
  Merchants = {m, mm, o}
  Address <- MCAddress
  NoMerchant = NoMerchant
  NoBody = NoBody
  GasFee = 1
  Cap = 2
  RequireIssued = TRUE
  Window = 1
  MaxTime = 2
  MaxChanges = 2
SPECIFICATION Spec
SYMMETRY Interchangeable
INVARIANTS OneClaim ClaimIsGenuine PaymentWasQuoted PrunedOnlyDead TurnedAwayIfSwitched
CHECK_DEADLOCK FALSE
