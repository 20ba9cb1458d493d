SPECIFICATION Spec
CONSTANTS
  Components <- MCComponents
  Names <- MCNames
  Editions <- MCMixed
  Ttl <- MCTtl
  Reserved <- MCReserved
  MaxEntries = 2
  Damages = {"index"}
  OldLayout = FALSE
  Horizon = 1
  LastRowid = 3
  None = None
INVARIANTS
  IndexExact
  PrefixReadsComplete
  InvalidatedStaysGone
PROPERTIES
  InsertEvictsOldest
  ImplementsContract
CHECK_DEADLOCK FALSE
