SPECIFICATION FairSpec
CONSTANTS
  NServer = 2
  MaxCommands = 2
  Disconnects = FALSE
  Commands <- MCCommands
INVARIANT ReachesAll
CHECK_DEADLOCK FALSE
