SPECIFICATION Spec
CONSTANTS
  a = a
  b = b
  Docs <- TwoDocs
  MaxEntries = 2
  MaxTexts = 4
  MaxGroups = 2
INVARIANTS
  HistoriesFit
  StopsAreKept
PROPERTIES
  TimelineKept
  SharedMovesTogether
SYMMETRY Symmetry
