SPECIFICATION FairSpec
CONSTANTS
  ChunkSizes <- MCChunkSizes
  MaxChunks = 4
  Options <- MCOptions
INVARIANTS
  ReadsInBounds
  FramesAligned
  LabelsRight
PROPERTY
  ToolEnds
CHECK_DEADLOCK FALSE
