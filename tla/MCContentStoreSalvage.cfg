SPECIFICATION Spec
CONSTANTS
  Components <- MCComponents
  Names <- MCNames
  Editions <- MCOne
  Ttl <- MCTtl
  Reserved <- MCNothing
  MaxEntries = 2
  Damages = {"rows"}
  OldLayout = FALSE
  Horizon = 0
  LastRowid = 3
  None = None
INVARIANT InvalidatedStaysGone
CHECK_DEADLOCK FALSE
