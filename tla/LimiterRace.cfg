SPECIFICATION Spec
CONSTANTS
  Callers = {c1, c2}
  Sweeper = Sweeper
  Admin = Admin
  IPs = {i1, i2, i3}
  None = None
  Limits <- OneDeviceOnly
  NodeLimits = {0}
  Window = 1
  TTL = 1
  Serial = FALSE
  MaxTime = 2
  MaxMaps = 4
  MaxCalls = 4
  MaxUpdates = 0
  MaxSweeps = 0
SYMMETRY Symmetric
INVARIANTS
  OvershootBounded
CHECK_DEADLOCK FALSE
