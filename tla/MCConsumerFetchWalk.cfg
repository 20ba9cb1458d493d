SPECIFICATION Spec
CONSTANTS
  Tasks = {c1, c2}
  Calls <- MCSearchedWalk
  MaxVersion = 2
  Mutable = FALSE
  Rogue = {}
  Relayed = FALSE
  RequireSig = TRUE
  RejectRollback = TRUE
  MaxRetries = 0
  MetaPeriod = 1
  Horizon = 0
  None = None
INVARIANT
  WalkSkipsNothing
SYMMETRY MCSymmetry
CHECK_DEADLOCK FALSE
