SPECIFICATION FairSpec
CONSTANTS
  Components <- MCComponents
  Names <- MCNames
  Streams <- MCNames
  Posts <- MCEditions
  Clients = {"c1"}
  Faces = {1, 2, 3}
  Owner <- MCOwnerOnly
  Wants <- MCAlone
  Unstable = {1, 2}
  FromNow = {TRUE, FALSE}
  Window = 9
  RejectRollback = TRUE
  Prunes = TRUE
  MaxAge = 1
  Horizon = 1
  None = None
INVARIANTS
  MissedIsHeld
  ResubscribeDeliversMissed
  EditionsNeverGoBack
PROPERTIES
  MissedArrives
CHECK_DEADLOCK FALSE
