SPECIFICATION AccessSpec
CONSTANTS
  Clients = {home}
  Reqs = {t1, t2, s1}
  Tabs = {t1, t2}
  Home = home
  Limit = 2
  Window = 3
  Lag = 1
  Expiry = 2
  FixedSecret = FALSE
  MaxStarts = 1
  MaxTime = 24
  None = None
INVARIANTS
  AccessTypeOK
  WindowBounded
PROPERTIES
  RefusedForAWindow
  ForgottenWithReason
SYMMETRY TabSymmetry
VIEW Shifted
CHECK_DEADLOCK FALSE
