SPECIFICATION Spec
CONSTANTS
  a = a
  b = b
  s = s
  t = t
  NoFile = NoFile
  Tab <- TwoTabs
  File <- TwoFiles
  MaxClock = 4
PROPERTIES
  GitKeepsUnsavedWork
CHECK_DEADLOCK FALSE
