SPECIFICATION Spec
CONSTANTS
  r1 = r1  r2 = r2  t1 = t1  t2 = t2  p1 = p1  p2 = p2
  NoRow = NoRow  Unset = Unset
  Req = {r1, r2}
  TokenId = {t1, t2}
  Password = {p1, p2}
  MayFail = TRUE
SYMMETRY Symmetry
INVARIANTS TypeOK NotLockedOut StatusFollowsProof PasswordKept
PROPERTIES SettingsKept
CHECK_DEADLOCK FALSE
