SPECIFICATION FairSpec
CONSTANTS
  Files = {f1}
  Reqs = {r1, r2}
  Ops = {"upload", "delete", "backup", "restore"}
  Supervisor = "always"
  CanFail = TRUE
  CanCrash = TRUE
  None = None
  Torn = Torn
INVARIANTS
  TypeOK
PROPERTIES
  NothingForgotten
  ArchivedContent
  StrandedOnlyByFailure
  Restarted
