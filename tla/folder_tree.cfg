SPECIFICATION Spec
CONSTANTS
  home = home  d1 = d1  d2 = d2  c1 = c1  c2 = c2
  Root = Root  Unborn = Unborn  Gone = Gone  Trash = Trash  Lost = Lost
  FolderId = {home, d1, d2}
  Home = home
  docs = docs  work = work
  Name = {docs, work}
  File = {"report"}
  Cmd = {c1, c2}
  MaxFolderDepth = 2
  MaxMoves = 2
SYMMETRY Symmetry
CONSTRAINT MovedAlone
INVARIANTS TypeOK  NamesUnique FilesKept
CHECK_DEADLOCK FALSE
