SPECIFICATION ReplaySpec
CONSTANTS
  Writers = {w1, w2}
  Streams = {s1, s2}
  MaxBatch = 2
  MaxSeq = 3
INVARIANTS
  ReplayTypeOK
  DenseVersions
  PositionOrder
  AcknowledgedStays
  HandledInVersionOrder
PROPERTY ImplementsStreamLog
SYMMETRY Symmetry
CHECK_DEADLOCK FALSE
