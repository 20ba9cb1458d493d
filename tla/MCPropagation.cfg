SPECIFICATION FairSpec
CONSTANTS
  Nodes = {"a", "b", "c", "d"}
  Links <- MCMesh
  Posts <- MCAround
  Peered <- MCMeshPeers
  Handshakes <- MCGreetings
  WantsSync = {TRUE, FALSE}
  MaxLost = 1
PROPERTIES
  ReachesAll
  SyncsEnd
  ForwardingEnds
CHECK_DEADLOCK FALSE
