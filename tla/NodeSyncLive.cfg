SPECIFICATION FairSpec
CONSTANTS
  Tags = {"vless", "plugin", "zero"}
  PluginTags = {"plugin"}
  ZeroTags = {"zero"}
  Shapes = {"tcp", "ws"}
  Speeds = {0, 1}
  Ids = {"u1", "u2"}
  Vers = {"v1", "v2"}
  Rules = {"r"}
  None = None
  PanelNodes <- Nodes
  PanelUsers <- Lists
  Kinds = {"v2board", "v2raysocks", "bunpanel", "gov2panel", "plain"}
  Faults = {"node"}
  MaxChanges = 2
  MaxFaults = 1
  MaxCrashes = 1
INVARIANTS
  EtagIsApplied
PROPERTIES
  Converges
