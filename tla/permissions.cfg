SPECIFICATION Spec
CONSTANTS
  r1 = r1  r2 = r2  o = o  u = u  g1 = g1  f0 = f0  f1 = f1
  Root = Root  Unborn = Unborn
  User = {o, u}
  Group = {g1}
  FolderId = {f0, f1}
  Home = f0
  HomeOwner = o
  Req = {r1, r2}
  MaxGrants = 2
SYMMETRY Symmetry
INVARIANTS TypeOK ResolversAgree ContentManagerFromOwner
PROPERTIES RankRespected
CHECK_DEADLOCK FALSE
