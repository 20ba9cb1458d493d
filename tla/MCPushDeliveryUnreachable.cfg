SPECIFICATION Spec
CONSTANTS
  Components <- MCComponents
  Names <- MCNames
  Streams <- MCNames
  Posts <- MCPost
  Clients = {"c1"}
  Faces = {1, 2}
  Owner <- MCOwnerOne
  Wants <- MCAlone
  Unstable = {1}
  FromNow = {TRUE}
  Window = 9
  RejectRollback = TRUE
  Prunes = FALSE
  MaxAge = 9
  Horizon = 0
  None = None
PROPERTIES
  UnreachableIsQueued
CHECK_DEADLOCK FALSE
