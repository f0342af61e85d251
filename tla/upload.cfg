SPECIFICATION FairHistory
CONSTANTS
  r1 = r1  r2 = r2  f1 = f1
  FileId = {f1}
  Slot = {"report"}
  Plan <- AllPlans
  Req = {r1, r2}
  AtLeastOnce = TRUE
  MayCrash = TRUE
INVARIANTS ActivationIsAtomic PartsFollowCounter ActiveHasAll
PROPERTIES IsAtomicUpload UploadEnds
CHECK_DEADLOCK FALSE
