SPECIFICATION FairSpec
CONSTANTS
  Extensions <- One
  Commands <- OneName
  OwnerOf <- Owners
  Capabilities <- Scopes
  Covered <- Covers
  Declared <- Declares
  Calls <- Made
  Policy = "prompt"
  Budget = 2
  PipeSize = 1
  MaxInvoked = 1
  MaxRequests = 2
  Chatty <- One
PROPERTIES
  CommandsAreSettled
  PollReturns
CHECK_DEADLOCK FALSE
