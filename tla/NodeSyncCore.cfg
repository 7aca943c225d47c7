SPECIFICATION Spec
CONSTANTS
  Tags = {"vless", "plugin", "zero"}
  PluginTags = {"plugin"}
  ZeroTags = {"zero"}
  Shapes = {"tcp", "ws"}
  Speeds = {0, 1}
  Ids = {"u1", "u2"}
  Vers = {"v1", "v2"}
  Rules = {"r"}
  None = None
  PanelNodes <- NodesOrZero
  PanelUsers <- ListsOrNone
  Kinds = {"v2board", "v2raysocks", "sspanel", "bunpanel", "gov2panel", "plain"}
  Faults = {"node", "users", "rules", "build", "listen", "adduser"}
  MaxChanges = 2
  MaxFaults = 2
  MaxCrashes = 1
INVARIANTS
  TypeOK
  NoStrayHandler
  InboundHasShape
  Settled
  LimitedUnlessAdding
PROPERTIES
  KeptUsersStay
  NoNeedlessReload
  ImplementsService
CHECK_DEADLOCK FALSE
