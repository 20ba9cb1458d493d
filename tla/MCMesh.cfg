SPECIFICATION Spec
CONSTANTS
  Base = 64  U32 = 2  U64 = 3
  NonceBytes = 1  AddrBytes = 1  HashBytes = 2  SignatureBytes = 2
  MaxComponents = 3  DefaultHopLimit = 16
  None = None  Refused = Refused
  Samples <- MCSamples
  Servers = {"p", "b", "c"}
  Clients = {"x", "y"}
  App = "app"
  Producer = "p"
  Names <- MCNames
  Nonces <- MCNonces
  Purges <- MCPurges
  Meshes <- MCMeshes
  Hasty = FALSE
  Window = 2
  Hops = 3
  Horizon = 2
INVARIANTS
  WireFaithful
  NeighbourHoldsNothingRevoked
CHECK_DEADLOCK FALSE
PROPERTIES
  EveryVerifierHears
  FloodEnds
  InterestsDieOut
