SPECIFICATION Spec
CONSTANTS
  Files = {"f"}
  Modes <- MCModes
  Kinds <- UserAsks
  MaxWork <- MCMaxWork
  MaxFaults = 1
INVARIANTS
  GutterMatchesStatus
  RequestsAccounted
PROPERTIES
  StatusCatchesUp
  RequestsSettled
CHECK_DEADLOCK FALSE
