SPECIFICATION FairSpec
CONSTANTS
  Names <- MCNames
  Paths <- MCPaths
  Tabs = {1, 2}
  Starts <- MCStarts
  RefreshLimit = 1
  MaxClock = 4
  OthersUntil = 3
PROPERTIES
  NothingOverwritten
  TabsFollowFiles
  NoGhostRows
  TreeCatchesUp
CHECK_DEADLOCK FALSE
