SPECIFICATION Spec
CONSTANTS
  c1 = c1  c2 = c2   f1 = f1  f2 = f2  a1 = a1  a2 = a2
  FileId = {f1, f2}
  ArchiveId = {a1, a2}
  Folder = {"home", "work"}
  Name = {"report", "notes"}
  Personal = "home"
  Cmd = {c1}
  ChunkSize = 1
  JobStarted = TRUE
  MayFail = TRUE
SYMMETRY Symmetry
INVARIANTS ContentFollowsFile
PROPERTIES IsTrash
CHECK_DEADLOCK FALSE
