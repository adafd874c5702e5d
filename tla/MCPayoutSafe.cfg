SPECIFICATION Spec
CONSTANTS
  Earnings = {e1, e2}
  Records = {r1, r2}
  Transfers = {t1, t2}
  Handlers = {h1, h2}
  NoRecord = NoRecord
  NoTransfer = NoTransfer
  MaxRetries = 1
SYMMETRY Interchangeable
INVARIANT TypeOK
INVARIANT AmountMatchesClaims
INVARIANT PaidIsConfirmed
INVARIANT PaidEarningsFollow
CHECK_DEADLOCK FALSE
