CONSTANTS
  BuffCount = 2
  MaxFrames = 3
  MaxPending = 1
  Faults = FALSE
  Requests <- MCPositiveRequests
  HwVersions <- MCHwVersions
SPECIFICATION Spec
PROPERTY
  StoppedStaysClosed
CHECK_DEADLOCK FALSE
