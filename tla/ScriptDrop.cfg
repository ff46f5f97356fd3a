SPECIFICATION FairSpec
CONSTANTS
  MaxCommands = 2
  MaxLogs = 1
  MaxLoads = 1
PROPERTIES DropCompletes
CHECK_DEADLOCK FALSE
