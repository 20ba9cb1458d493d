SPECIFICATION FairSpec
CONSTANTS
  Peers = {p}
  LinkIds = {1, 2, 3, 4}
  MaxFace = 5
  Slots = {s1, s2}
  Incoming = TRUE
  Preempts = FALSE
  None = None
INVARIANTS
  RoutesLeadToPeer
  OnlySupersededOutlives
  AttachedIsLinked
PROPERTY
  RouteRecovers
CHECK_DEADLOCK FALSE
