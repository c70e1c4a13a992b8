SPECIFICATION Spec
CONSTANTS
  Extensions <- Both
  Commands <- Names
  OwnerOf <- Owners
  Capabilities <- Scopes
  Covered <- Covers
  Declared <- Declares
  Calls <- Made
  Policy = "prompt"
  Budget = 2
  PipeSize = 2
  MaxInvoked = 2
  MaxRequests = 1
  Chatty <- Nobody
INVARIANTS
  EachRequestHeldOnce
PROPERTIES
  UsesHaveLeave
CHECK_DEADLOCK FALSE
