SPECIFICATION Spec
CONSTANTS
  Last = 3
  Refunds = {r1, r2, r3}
  Handlers = {h1, h2}
  NoRefund = NoRefund
  Half = 3
  Kept = 1
SYMMETRY Interchangeable
INVARIANT TypeOK
INVARIANT OneCallPerRefund
INVARIANT ProcessedIsBooked
INVARIANT RefundIsMatched
INVARIANT ReversedByARefund
CHECK_DEADLOCK FALSE
