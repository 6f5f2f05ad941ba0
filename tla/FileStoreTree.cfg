SPECIFICATION Spec
CONSTANTS
  Files = {f1}
  Folders = {g1, g2}
  Names = {a, b}
  Reqs = {r1, r2}
  Ops = {"upload", "createFolder", "patchFolder", "patchFile"}
  MaxDepth = 2
  CanCrash = FALSE
  Ignored = {"check"}
  None = None
SYMMETRY Symmetry
PROPERTY ContentsFollowMove
