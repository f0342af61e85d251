SPECIFICATION Spec
CONSTANTS
  r1 = r1  r2 = r2  s1 = s1  s2 = s2 
  NoKey = NoKey
  SessionId = {s1, s2}
  Req = {r1, r2}
  MaxSessions = 1
  Ttl = 2
  MaxLifetime = 2
  MaxTime = 3
  MaxPassword = 2
  MayFail = TRUE
SYMMETRY Symmetry
INVARIANTS TypeOK WithinLifetime LiveSessionsKnown SessionsFollowPassword
CHECK_DEADLOCK FALSE
