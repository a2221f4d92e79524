CONSTANTS
  BuffCount = 2
  MaxFrames = 3
  MaxPending = 2
  Faults = TRUE
  Requests <- MCRequests
  HwVersions <- MCHwVersions
SPECIFICATION FairSpec
INVARIANTS
  RadioTypeOK
  DeviceNeverAhead
  CountingOnlyWhileCollecting
PROPERTIES
  AnswersTruthful
  ImplementsPool
  CollectNotified
CHECK_DEADLOCK FALSE
