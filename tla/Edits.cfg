SPECIFICATION Spec
CONSTANTS
  Characters <- MCCharacters
  Texts <- MCTexts
  Insertions <- MCInsertions
  Batches <- MCBatches
  TabSize = 2
  Page = 2
  MaxLength = 3
  MaxEdits = 2
  MaxSyncChanges = 3
INVARIANTS
  JournalReplays
  CursorsApart
PROPERTIES
  InverseRestores
  CaretsFollow
  TakenBack
