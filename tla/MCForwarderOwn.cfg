SPECIFICATION Spec
CONSTANTS
  Components <- MCComponents
  Names <- MCNames
  Faces = {f1}
  Costs = {1}
  InFaces = {"app"}
  Nonces = {1, 2, 3}
  Seqs <- MCSeqs
  Tasks = {t1, t2}
  Requests <- MCFloors
  Contents <- MCContents
  Pushed <- MCNone
  Stray <- MCNone
  Routes <- MCRoutes
  Unstable = {}
  Perishable <- MCNone
  Cancellable = {}
  Sweeps = TRUE
  Swr = FALSE
  PitMax = 2
  NonceMax = 9
  NonceTtl = 9
  BackoffBase = 1
  MaxBackoff = 4
  LastStart = 1
  Horizon = 3
  None = None
PROPERTY RemovesOwnEntry
CHECK_DEADLOCK FALSE
