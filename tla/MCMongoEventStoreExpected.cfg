SPECIFICATION Spec
CONSTANTS
  Writers = {w1, w2}
  Streams = {s1}
  MaxBatch = 1
  MaxSeq = 3
INVARIANT AppendHonoursExpectedVersion
CHECK_DEADLOCK FALSE
