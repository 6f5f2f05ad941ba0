SPECIFICATION FairSpec
CONSTANTS
  Images = {i1}
  Sizes = {s1}
  Reqs = {r1, r2, r3}
  Mutexes = {m1, m2, m3, m4}
  Inodes = {n1, n2, n3, n4, n5}
  None = None
INVARIANTS
  TypeOK
  StumpsAreBeingWritten
  NoLitter
  WaitersWaitForWork
PROPERTIES
  Answered
