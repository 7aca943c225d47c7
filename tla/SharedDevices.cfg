SPECIFICATION Spec
CONSTANTS
  Nodes = {n1, n2}
  IPs = {a, b, c}
  a = a
  b = b
  c = c
  Setups <- SomeSetups
  None = None
  Gone = Gone
  MaxLimit = 3
  MaxPushes = 2
  MaxFaults = 1
INVARIANTS
  TypeOK
  GlobalMapBounded
  RefusedOnlyIfOver
SYMMETRY Symmetric

  
  
CHECK_DEADLOCK FALSE
