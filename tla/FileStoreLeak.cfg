SPECIFICATION Spec
CONSTANTS
  Files = {f1}
  Folders = {g1}
  Names = {a}
  Reqs = {r1, r2, r3}
  Ops = {"upload", "emptyTrash", "createFolder", "deleteFolder"}
  MaxDepth = 1
  CanCrash = FALSE
  Ignored = {}
  None = None
INVARIANT NothingLeftBehind
