SPECIFICATION Spec
CONSTANTS
  Earnings = {e1, e2}
  Claims = {c1, c2}
  Sessions = {s1, s2}
  NoClaim = NoClaim
SYMMETRY Interchangeable
INVARIANT TypeOK
INVARIANT ClaimEndsHold
INVARIANT RefundOncePerClaim
INVARIANT AcceptedIsUndisputed
CHECK_DEADLOCK FALSE
