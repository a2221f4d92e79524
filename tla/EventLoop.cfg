SPECIFICATION FairSpec
CONSTANTS
  NFd = 5
  MaxShells = 2
INVARIANTS
  TypeOK
  ListMatchesTasks
  OneDevicePerFd
  ActionsReadable
PROPERTIES
  InputServed
  QuitEnds
CHECK_DEADLOCK FALSE
