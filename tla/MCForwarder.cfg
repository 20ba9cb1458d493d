SPECIFICATION Spec
CONSTANTS
  Components <- MCComponents
  Names <- MCNames
  Faces = {f1, f2}
  Costs = {1}
  InFaces = {"app"}
  Nonces = {1, 2, 3}
  Seqs <- MCSeqs
  Tasks = {t1, t2}
  Requests <- MCMixed
  Contents <- MCAll
  Pushed <- MCNone
  Stray <- MCStray
  Routes <- MCRoutes
  Unstable = {f1}
  Perishable <- MCNone
  Cancellable = {}
  Sweeps = TRUE
  Swr = FALSE
  PitMax = 1
  NonceMax = 2
  NonceTtl = 9
  BackoffBase = 1
  MaxBackoff = 4
  LastStart = 1
  Horizon = 3
  None = None
INVARIANTS
  EntryHasOwner
  AnswersUnderName
PROPERTIES
  WaitersStayFindable
  OnlySolicitedCached
  CacheHonoursInterest
SYMMETRY MCSymmetry
CHECK_DEADLOCK FALSE
