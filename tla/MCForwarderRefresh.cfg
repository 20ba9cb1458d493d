SPECIFICATION FairSpec
CONSTANTS
  Components <- MCComponents
  Names <- MCNames
  Faces = {f1}
  Costs = {1}
  InFaces = {"app"}
  Nonces = {1, 2}
  Seqs = {1}
  Tasks = {t1, t2}
  Requests <- MCSame
  Contents <- MCOne
  Pushed <- MCOne
  Stray <- MCNone
  Routes <- MCRoutes
  Unstable = {}
  Perishable <- MCNames
  Cancellable = {t1}
  Sweeps = TRUE
  Swr = TRUE
  PitMax = 2
  NonceMax = 9
  NonceTtl = 9
  BackoffBase = 1
  MaxBackoff = 4
  LastStart = 1
  Horizon = 3
  None = None
PROPERTIES
  EveryInterestReturns
  ExpiredReclaimed
CHECK_DEADLOCK FALSE
