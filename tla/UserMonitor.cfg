SPECIFICATION Spec
CONSTANTS
  Users = {u1}
  Vers = {v1, v2}
  Tags = {t1, t2}
  Conns = {c1, c2}
  AutoLimit = AutoLimit
  None = None
  DisableUploadTraffic = FALSE
  Fast = 0
  WarnTimes = 1
  LimitDuration = 0
  InactiveTTL = 0
  MaxBytes = 2
  MaxUpdates = 1
  MaxFaults = 1
SYMMETRY Symmetric
INVARIANTS
  TypeOK
  NeverBilledTwice
  Accounted
  MeteredOnce
  
PROPERTIES
  LimitedIfFast
CHECK_DEADLOCK FALSE
