SPECIFICATION FairShellSpec
CONSTANTS
  NServer = 2
  MaxCommands = 2
  Disconnects = FALSE
  Processes <- MCProcesses
  Commands <- MCCommands
INVARIANTS
  PromptsMatchAnswers
  PipeLoad
  DeliveredUnlessMerged
PROPERTIES
  PromptReturns
CHECK_DEADLOCK FALSE
