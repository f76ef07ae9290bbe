SPECIFICATION ClientFairSpec
CONSTANTS
  Calls = {c1, c2, c3}
  FailureThreshold = 2
  ResetTimeout = 2
  HalfOpenMax = 2
  MaxAttempts = 3
INVARIANTS
  ClientTypeOK
  ProbesBounded
  HalfOpenAwaitsProbe
  OpenLoadBounded
PROPERTIES
  OpenForWholeTimeout
  RecoversUnanswered
CHECK_DEADLOCK FALSE
