SPECIFICATION Spec
CONSTANTS
  r1 = r1  r2 = r2  l1 = l1  p1 = p1
  Null = Null  NoPassword = NoPassword
  LinkId = {l1}
  Req = {r1, r2}
  Password = {p1}
  MaxLimit = 2
  MaxAccess = 2
  MaxTime = 1
  MayFail = TRUE
SYMMETRY Symmetry
VIEW View
INVARIANTS TypeOK BooksAgree SettingsKept
PROPERTIES ClosedForGood LimitHolds
CHECK_DEADLOCK FALSE
