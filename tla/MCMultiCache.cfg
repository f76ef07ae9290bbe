SPECIFICATION PartSpec
CONSTANTS
  p1 = p1
  p2 = p2
  c1 = c1
  c2 = c2
  c3 = c3
  r1 = r1
  r2 = r2
  w1 = w1
  w2 = w2
  Processes = {p1, p2}
  Callers = {c1, c2, c3}
  ProcessOf <- TwoAndOne
  Operations <- MixedOperations
  Large = {1}
  MaxVersion = 1
  Services = {p1, p2}
  Readers = {r1, r2}
  Writers = {w1, w2}
  ServiceOf <- ReadAndWrite
  CacheTTL = 1
  DefaultTTL = 1
  MaxWrites = 2
INVARIANTS
  CacheTypesOK
  OneFactoryPerMiss
  UnracedIsFresh
  CopiesExpire
PROPERTY GetOrSetReturns
CHECK_DEADLOCK FALSE
