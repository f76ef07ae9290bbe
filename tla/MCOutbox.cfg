SPECIFICATION PartSpec
CONSTANTS
  Processes = {p1, p2}
  Entries = {1, 2}
  Handlers = {h1, h2}
  SyncHandlers = {}
  MaxRetries = 2
  MaxFaults = 1
  Names = {a, b, c}
  MaxSteps = 4
INVARIANTS
  CrossServiceTypesOK
  SettledRightly
  FailureIsCompensated
PROPERTY Resolved
CHECK_DEADLOCK FALSE
