SPECIFICATION Spec
CONSTANTS
  Peers = {p}
  LinkIds = {1, 2}
  MaxFace = 3
  Slots = {s1, s2}
  Incoming = FALSE
  Preempts = FALSE
  None = None
INVARIANT
  NoBlackHole
CHECK_DEADLOCK FALSE
