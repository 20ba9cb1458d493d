SPECIFICATION Spec
CONSTANTS
  Components <- MCComponents
  Names <- MCNames
  Streams <- MCNames
  Posts <- MCPost
  Clients = {"c1", "c2"}
  Faces = {1, 2, 3, 4}
  Owner <- MCOwner
  Wants <- MCShared
  Unstable = {1, 3}
  FromNow = {TRUE}
  Window = 9
  RejectRollback = TRUE
  Prunes = FALSE
  MaxAge = 9
  Horizon = 0
  None = None
INVARIANTS
  ResubscribeDeliversMissed
CHECK_DEADLOCK FALSE
