SPECIFICATION LimiterSpec
CONSTANTS
  r1 = r1  r2 = r2  r3 = r3  r4 = r4  d1 = d1  d2 = d2
  Call = {r1, r2, r3, r4}
  Draw = {d1, d2}
  Limit = 2
  Window = 3
  MaxRetries = 1
  MaxDelay = 1
  MaxTime = 5
SYMMETRY Symmetry
INVARIANTS LimiterTypeOK WindowLimit RefusedForReason
CHECK_DEADLOCK FALSE
