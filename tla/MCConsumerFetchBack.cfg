SPECIFICATION Spec
CONSTANTS
  Tasks = {c1, c2}
  Calls <- MCSearches
  MaxVersion = 2
  Mutable = FALSE
  Rogue = {}
  Relayed = FALSE
  RequireSig = TRUE
  RejectRollback = TRUE
  MaxRetries = 0
  MetaPeriod = 1
  Horizon = 2
  None = None
INVARIANTS
  LatestNeverGoesBack
SYMMETRY MCSymmetry
CHECK_DEADLOCK FALSE
