SPECIFICATION PartSpec
CONSTANTS
  Processes = {p1}
  Entries = {1}
  Handlers = {h1, h2}
  SyncHandlers = {h2}
  MaxRetries = 2
  MaxFaults = 1
  Names = {a}
  MaxSteps = 1
INVARIANT AtLeastOnce
CHECK_DEADLOCK FALSE
