SPECIFICATION Spec
CONSTANTS
  Methods <- MCMethods
  MaxId = 3
  MaxNotes = 1
  MaxServerRequests = 2
INVARIANTS
  HandshakeFirst
  RequestsInOrder
  NothingAfterShutdown
PROPERTIES
  EveryRequestAnswered
  RequestTableKept
CHECK_DEADLOCK FALSE
