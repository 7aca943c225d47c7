SPECIFICATION Spec
CONSTANTS
  Tags = {"vless", "plugin", "zero"}
  PluginTags = {"plugin"}
  ZeroTags = {"zero"}
  Shapes = {"tcp", "ws"}
  Speeds = {0, 1}
  Ids = {"u1", "u2"}
  Vers = {"v1", "v2"}
  Rules = {"r"}
  None = None
  PanelNodes <- Nodes
  PanelUsers <- Lists
  Kinds = {"sspanel"}
  Faults = {}
  MaxChanges = 1
  MaxFaults = 0
  MaxCrashes = 0
INVARIANTS
  RulesFollowTag
