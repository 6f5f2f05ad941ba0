SPECIFICATION FairSpec
CONSTANTS
  Files = {f1}
  Folders = {g1}
  Links = {s1}
  Reqs = {r1, r2}
  Hours <- MCHours
  Limits <- MCLimits
  MaxHours = 1
  Horizon = 2
  ViewCap = 1
  None = None
INVARIANTS
  TypeOK
  OverrunBounded
  NoDanglingLink
PROPERTIES
  ClosedStaysClosed
  RevokedFallsSilent
