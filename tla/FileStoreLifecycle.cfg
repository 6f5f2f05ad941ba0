SPECIFICATION FairSpec
CONSTANTS
  Files = {f1, f2}
  Folders = {}
  Names = {a}
  Reqs = {r1, r2, r3}
  Ops = {"upload", "patchFile", "delete", "restore", "emptyTrash"}
  MaxDepth = 1
  CanCrash = FALSE
  Ignored = {"check", "scan"}
  None = None
INVARIANTS
  TypeOK
  ContentAccounted
PROPERTIES
  CatalogSpec
  Reclaimed
