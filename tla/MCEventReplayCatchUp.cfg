SPECIFICATION ReplaySpec
CONSTANTS
  Writers = {w1, w2}
  Streams = {s1, s2}
  MaxBatch = 1
  MaxSeq = 2
INVARIANT CatchUpMissesNothing
CHECK_DEADLOCK FALSE
