SPECIFICATION Spec
CONSTANTS
  Tags = {"vless", "plugin", "zero"}
  PluginTags = {"plugin"}
  ZeroTags = {"zero"}
  Shapes = {"tcp", "ws"}
  Speeds = {0, 1}
  Ids = {"u1", "u2"}
  Vers = {"v1", "v2"}
  Rules = {"r"}
  None = None
  PanelNodes <- Nodes
  PanelUsers <- Lists
  Kinds = {"v2board"}
  Faults = {"users"}
  MaxChanges = 1
  MaxFaults = 1
  MaxCrashes = 0
INVARIANTS
  EtagIsApplied
