CONSTANTS
  BuffCount = 3
  MaxFrames = 7
  Requests <- MCRequests
SPECIFICATION FairPoolSpec
INVARIANTS
  OneHolder
  NoneLost
  TokenBalance
  FileInOrder
  FramesAccounted
PROPERTIES
  FullReturns
  CollectionEnds
  ImplementsQueue
