SPECIFICATION Spec
CONSTANTS
  Payments = {p1, p2}
  Returns = {r1, r2}
  Tokens = {t1, t2, t3}
  Handlers = {h1, h2}
  Budgets = {20, 25}
  Cpm = 10000
  Nil = Nil
SYMMETRY Interchangeable
INVARIANT TypeOK
INVARIANT BudgetIsKept
INVARIANT LiveIsPaid
INVARIANT RefundedIsReturned
CHECK_DEADLOCK FALSE
