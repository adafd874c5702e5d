SPECIFICATION FairSpec
CONSTANTS
  Earnings = {e1}
  Claims = {c1}
  Sessions = {s1, s2}
  NoClaim = NoClaim
PROPERTY HoldEnds
CHECK_DEADLOCK FALSE
