SPECIFICATION Spec
CONSTANTS
  Names <- MCNames
  Prefixes <- MCPrefixes
  Consumers = {"x", "y"}
  Readers = {"x"}
  Configs <- MCConfigs
  Ttls = {0, 1}
  MaxIssued = 2
  MaxFiles = 2
  MaxBoots = 1
  Horizon = 3
  None = None
INVARIANTS
  OnlyGrantedRead
  HoldersRead
CHECK_DEADLOCK FALSE
