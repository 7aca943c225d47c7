SPECIFICATION Spec
CONSTANTS
  Nodes = {n1, n2}
  Emails = {e1, e2}
  Life = 2
  Margin = 1
  None = None
  Torn = Torn
  MaxFaults = 1
  MaxCrashes = 1
  MaxEdits = 1
INVARIANTS
  TypeOK
  PairMatches
  Unexpired
  ConfigApplied
PROPERTIES
  ComesUp
