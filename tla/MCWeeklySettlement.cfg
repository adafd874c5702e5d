SPECIFICATION FairSpec
CONSTANTS
  Purchases = {p1}
  Payouts = {q1}
  Sellers = {s1}
  Instances = {i1, i2}
  Null = Null
  Amounts = {250, 500}
  MinSettlement = 500
  MaxLate = 1
  MaxStops = 1
  MaxOverlaps = 1
INVARIANT TypeOK
INVARIANT SettledIsPaid
INVARIANT PaidOnce
PROPERTY OwedIsPaid
