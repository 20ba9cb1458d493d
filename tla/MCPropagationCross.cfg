SPECIFICATION Spec
CONSTANTS
  Nodes = {"a", "b"}
  Links <- MCPair
  Posts <- MCOne
  Peered <- MCStrangers
  Handshakes <- MCPair
  WantsSync = {FALSE}
  MaxLost = 0
INVARIANTS
  PeersSubscribe
CHECK_DEADLOCK FALSE
