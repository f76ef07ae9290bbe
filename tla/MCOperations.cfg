SPECIFICATION PartSpec
CONSTANTS
  Requests = {q1, q2, q3}
  Timeout = 2
  latency = latency
  errors = errors
  Rules = {latency, errors}
  Debounce <- DebounceDef
  Cooldown = 2
  Checkers = {c1, c2}
  MaxAge = 1
  Horizon = 4
  Runners = {r1, r2}
  Versions = {1, 2, 3}
  Reversible = {1, 2}
  Nodes = {m1, m2, m3, m4}
  MaxImports = 4
INVARIANTS
  OperationsTypesOK
  
  FiredWasAlerted
  EarlierInEffect
  ReportsComponents
PROPERTY ShutdownEnds
CHECK_DEADLOCK FALSE
