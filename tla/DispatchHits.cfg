SPECIFICATION Spec
CONSTANTS
  Conns = {c1, c2, c3}
  Users = {u1, u2}
  Tags = {t1}
  Dests = {d1, d2}
  RuleIds = {r1}
  d1 = d1
  d2 = d2
  r1 = r1
  Local = Local
  RuleLists <- Lists
  Clients = {"batch", "each"}
  ConfigDefault = FALSE
  NoUser = NoUser
  None = None
  MaxChunks = 0
  MaxDetours = 1
  MaxReloads = 0
  MaxUpdates = 1
  MaxFaults = 1
INVARIANTS
  TypeOK
  NoHitForgotten
PROPERTIES
  RulesEnforced
SYMMETRY Symmetric
CHECK_DEADLOCK FALSE
