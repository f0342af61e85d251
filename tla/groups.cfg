SPECIFICATION HistorySpec
CONSTANTS
  r1 = r1  r2 = r2  u1 = u1  u2 = u2
  m1 = m1  m2 = m2  m3 = m3  i1 = i1  i2 = i2
  User = {u1, u2}
  MemberId = {m1, m2, m3}
  InviteId = {i1, i2}
  Req = {r1, r2}
  JobStarted = TRUE
SYMMETRY Symmetry
INVARIANTS NothingLeft NoEscalation OwnerAgreesAlone OneWayInAlone
PROPERTIES AnswerIsFinalAlone
CHECK_DEADLOCK FALSE
