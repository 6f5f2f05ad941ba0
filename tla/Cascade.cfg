SPECIFICATION CascadeSpec
CONSTANTS
  b = b
  c = c
  d = d
  e = e
  Slash = slash
  Wild = wild
  None = None
  Letters <- MCLetters
  Wide = {e}
  Twins <- MCTwins
  Names <- MCNames
  Files = {f1}
  Folders = {g1, g2}
  MaxLen = 5
INVARIANTS
  PathsWellFormed
PROPERTIES
  CascadeExact
  DeletionExact
SYMMETRY FolderSymmetry
CHECK_DEADLOCK FALSE
