SPECIFICATION MCSpec
CONSTANTS
  Tasks = {c1, c2}
  Calls <- MCPairs
  MaxVersion = 2
  Mutable = FALSE
  Rogue = {}
  Relayed = TRUE
  RequireSig = TRUE
  RejectRollback = TRUE
  MaxRetries = 1
  MetaPeriod = 1
  Horizon = 1
  None = None
INVARIANTS
  PointerNeverGoesBack
  ReturnsVerified
PROPERTIES
  EveryFetchEnds
SYMMETRY MCSymmetry
CHECK_DEADLOCK FALSE
