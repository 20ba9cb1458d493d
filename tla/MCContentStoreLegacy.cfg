SPECIFICATION Spec
CONSTANTS
  Components <- MCComponents
  Names <- MCNames
  Editions <- MCOne
  Ttl <- MCTtl
  Reserved <- MCNothing
  MaxEntries = 2
  Damages = {"index"}
  OldLayout = TRUE
  Horizon = 0
  LastRowid = 3
  None = None
PROPERTY SalvageKeepsRows
CHECK_DEADLOCK FALSE
