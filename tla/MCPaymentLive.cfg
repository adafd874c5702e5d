SPECIFICATION FairSpec
CONSTANTS
  Orders = {o1, o2}
  Handlers = {h1, h2}
  NoOrder = NoOrder
  FeeRate = "none"
INVARIANT PaidIsAccounted
PROPERTY KeepsPromise
PROPERTY FulfilsPromise
CHECK_DEADLOCK FALSE
