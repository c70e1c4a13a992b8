SPECIFICATION Spec
CONSTANTS
  a = a
  b = b
  s = s
  t = t
  NoFile = NoFile
  Tab <- TwoTabs
  File <- TwoFiles
  MaxClock = 4
INVARIANTS
  CleanIsWatched
PROPERTIES
  NoLostWrite
  RefusalsAreForeign
  UnsavedWorkKept
  FilesOpenOnce
SYMMETRY Symmetric
CHECK_DEADLOCK FALSE
