SPECIFICATION PartSpec
CONSTANTS
  Entries = {1}
  Clients = {c1}
  Schedulers = {s1, s2}
  MaxTime = 2
  Overrides = TRUE
  Editors = {e1, e2}
  Contents = {a, b}
  MaxEdits = 3
INVARIANTS
  ContentTypesOK
  
  HistoryMatches
PROPERTY DueIsPublished
CHECK_DEADLOCK FALSE
