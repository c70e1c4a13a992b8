SPECIFICATION WorkingSpec
CONSTANTS
  Inherited <- BothPipes
  MaxPipe = 1
  MaxWrites = 2
  MaxOutput = 3
INVARIANTS
  NothingLeftBehind
  TailIsComplete
PROPERTIES
  CallsReturn
CHECK_DEADLOCK FALSE
