SPECIFICATION Spec
CONSTANTS
  Buyers = {b1, b2}
  Orders = {o1, o2}
  Refunds = {r1, r2}
  Handlers = {h1, h2}
  Null = Null
  StrikeThreshold = 3
  MaxStrikes = 3
SYMMETRY Interchangeable
INVARIANT TypeOK
INVARIANT PaidIsUnlocked
INVARIANT PaidBackOnce
CHECK_DEADLOCK FALSE
