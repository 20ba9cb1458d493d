SPECIFICATION FairSpec
CONSTANTS
  Nodes = {"a", "b", "c"}
  Links <- MCRing
  Posts <- MCOne
  Peered <- MCRingPeers
  Handshakes <- MCNone
  WantsSync = {TRUE}
  MaxLost = 0
PROPERTIES
  ForwardingEnds
CHECK_DEADLOCK FALSE
