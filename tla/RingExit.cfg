SPECIFICATION FairExitSpec
CONSTANTS
  NServer = 3
  MaxCommands = 2
  MaxAnswers = 2
  Disconnects = TRUE
  ForkFaults = TRUE
  Crashes = TRUE
  Commands <- MCCommands
INVARIANTS
  ExitTypeOK
  OneReaderOneWriter
  DeliveredWhileWhole
  RepeatsBounded
PROPERTIES
  QuitEndsAll
  LastEndsFirst
  SurvivorsDrain
CHECK_DEADLOCK FALSE
