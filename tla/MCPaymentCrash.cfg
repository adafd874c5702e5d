SPECIFICATION CrashSpec
CONSTANTS
  Orders = {o1, o2, o3}
  Handlers = {h1, h2}
  NoOrder = NoOrder
  FeeRate = "part"
SYMMETRY Interchangeable
INVARIANT TypeOK
INVARIANT CapturedOnce
INVARIANT DeliveredOnlyIfPaid
INVARIANT UnlockedEarningsOnHold
INVARIANT EarningsMatchLedger
INVARIANT CancelRefundsOnce
PROPERTY ClaimWindowFixed
CHECK_DEADLOCK FALSE
