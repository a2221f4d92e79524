SPECIFICATION FairSpec
CONSTANTS
  ChunkSize = 3
  Chunks = 3
  FrameSizes <- MCFrameSizes
INVARIANT
  OnlyWrittenSamples
CHECK_DEADLOCK FALSE
