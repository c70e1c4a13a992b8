SPECIFICATION Spec
CONSTANTS
  a = a
  b = b
  Paths <- MCPaths
  AskedKinds <- AllKinds
  MaxText = 2
  MaxId = 4
  MaxPending = 2
  MaxServers = 2
INVARIANTS
  SlotsMatchRequests
PROPERTIES
  CurrentVersionIsCurrentText
SYMMETRY TwoPaths
CHECK_DEADLOCK FALSE
