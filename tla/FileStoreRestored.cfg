SPECIFICATION Spec
CONSTANTS
  Files = {f1}
  Folders = {}
  Names = {a}
  Reqs = {r1}
  Ops = {"upload", "delete", "restore"}
  MaxDepth = 1
  CanCrash = FALSE
  Ignored = {}
  None = None
INVARIANT LiveHasContent
