SPECIFICATION Spec
CONSTANTS
  Files = {f1, f2, f3}
  Folders = {g1}
  Names = {a}
  Reqs = {r1, r2}
  Ops = {"upload", "delete", "emptyTrash", "createFolder", "deleteFolder"}
  MaxDepth = 2
  CanCrash = TRUE
  Ignored = {"scan", "remove"}
  None = None
SYMMETRY Symmetry
INVARIANTS
  LiveHasContent
  TwinsBounded
PROPERTIES
  CatalogSpec
  LeaksExplained
