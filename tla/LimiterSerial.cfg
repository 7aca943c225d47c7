SPECIFICATION Spec
CONSTANTS
  Callers = {c1}
  Sweeper = Sweeper
  Admin = Admin
  IPs = {i1, i2}
  None = None
  Limits <- OneDevice
  NodeLimits = {0, 1}
  Window = 1
  TTL = 1
  Serial = TRUE
  MaxTime = 2
  MaxMaps = 3
  MaxCalls = 3
  MaxUpdates = 2
  MaxSweeps = 1
SYMMETRY Symmetric
INVARIANTS
  TypeOK
  LimitsAsApplied
  BucketFollows
  OnlineKept
PROPERTIES
  KnownDeviceAdmitted
  DeviceLimit
CHECK_DEADLOCK FALSE
