SPECIFICATION Spec
CONSTANTS
  Components <- MCComponents
  Names <- MCNames
  Faces = {f1}
  Costs = {1}
  InFaces = {"app"}
  Nonces = {1, 2, 3}
  Seqs <- MCSeqs
  Tasks = {t1, t2}
  Requests <- MCKinds
  Contents <- MCOne
  Pushed <- MCNone
  Stray <- MCNone
  Routes <- MCRoutes
  Unstable = {}
  Perishable <- MCNone
  Cancellable = {}
  Sweeps = TRUE
  Swr = FALSE
  PitMax = 2
  NonceMax = 9
  NonceTtl = 9
  BackoffBase = 1
  MaxBackoff = 4
  LastStart = 1
  Horizon = 3
  None = None
INVARIANT AggregatedAnswerFits
CHECK_DEADLOCK FALSE
