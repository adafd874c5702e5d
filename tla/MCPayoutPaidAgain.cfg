SPECIFICATION Spec
CONSTANTS
  Earnings = {e1}
  Records = {r1}
  Transfers = {t1, t2}
  Handlers = {h1, h2}
  NoRecord = NoRecord
  NoTransfer = NoTransfer
  MaxRetries = 3
PROPERTY PaidOnlyReverses
CHECK_DEADLOCK FALSE
