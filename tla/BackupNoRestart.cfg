SPECIFICATION FairSpec
CONSTANTS
  Files = {f1}
  Reqs = {r1}
  Ops = {"upload", "backup", "restore"}
  Supervisor = "onFailure"
  CanFail = FALSE
  CanCrash = FALSE
  None = None
  Torn = Torn
CHECK_DEADLOCK FALSE
PROPERTY Restarted
