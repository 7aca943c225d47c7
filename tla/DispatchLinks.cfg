SPECIFICATION Spec
CONSTANTS
  Conns = {c1, c2}
  Users = {u1, u2}
  Tags = {t1, t2}
  Dests = {d1, d2}
  RuleIds = {r1}
  d1 = d1
  d2 = d2
  r1 = r1
  Local = Local
  RuleLists <- OneList
  Clients = {"each"}
  ConfigDefault = FALSE
  NoUser = NoUser
  None = None
  MaxChunks = 2
  MaxDetours = 0
  MaxReloads = 1
  MaxUpdates = 0
  MaxFaults = 1
INVARIANTS
  PayloadInOrder
  
PROPERTIES
  HitReported
CHECK_DEADLOCK FALSE
