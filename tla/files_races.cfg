SPECIFICATION FairSpec
CONSTANTS
  c1 = c1  c2 = c2   f1 = f1  f2 = f2  a1 = a1  a2 = a2
  FileId = {f1}
  ArchiveId = {a1, a2}
  Folder = {"home", "work"}
  Name = {"report"}
  Personal = "home"
  Cmd = {c1, c2}
  ChunkSize = 1
  JobStarted = TRUE
  MayFail = FALSE
INVARIANTS NoFileLost OrphanHasCleaner
PROPERTIES PurgedObjectGoes
CHECK_DEADLOCK FALSE
