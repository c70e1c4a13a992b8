SPECIFICATION Spec
CONSTANTS
  a = a
  b = b
  t1 = t1
  t2 = t2
  t3 = t3
  rust = rust
  toml = toml
  Lost = Lost
  Paths <- MCPaths
  Texts <- MCTexts
  Languages <- MCLanguages
  SyncKinds = {"incremental", "full", "none"}
  MaxJournal = 1
  MaxVersion = 3
  MaxChannel = 1
INVARIANTS
  NeverGarbage
  ServerHoldsWhatWasSent
  KeysAreSent
  RequestsAboutServerText
SYMMETRY Symmetric
CHECK_DEADLOCK FALSE
