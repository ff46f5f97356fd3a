SPECIFICATION FairSpec
CONSTANTS
  MaxCommands = 3
  MaxLogs = 2
  MaxLoads = 3
INVARIANTS EventsMeetTheirScripts
PROPERTIES HostCallsAnswered BackgroundResolveReturns
CHECK_DEADLOCK FALSE
