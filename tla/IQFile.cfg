SPECIFICATION FairSpec
CONSTANTS
  ChunkSize = 3
  Chunks = 3
  FrameSizes <- MCFrameSizes
INVARIANTS
  SamplesInOrder
  FramesWhole
PROPERTY
  ReadEnds
CHECK_DEADLOCK FALSE
