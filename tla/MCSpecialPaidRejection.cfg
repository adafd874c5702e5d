SPECIFICATION Spec
CONSTANTS
  Sellers = {s1, s2}
  Orders = {o1}
  Refunds = {r1}
  Handlers = {h1, h2}
  Sweep = Sweep
  Null = Null
  MaxAssigns = 2
INVARIANT PaidRejectionIsRefunded
CHECK_DEADLOCK FALSE
