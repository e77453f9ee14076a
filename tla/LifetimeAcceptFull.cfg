SPECIFICATION FairSpec
CHECK_DEADLOCK FALSE
CONSTANTS
  MaxFds = 6
  MaxId = 5
  MaxWaiting = 1
  Backlog = 2
  Kills = FALSE
  IoFails = FALSE
  AllocFails = FALSE
  SysLimit = FALSE
  Signals = {}
  Anytime = FALSE
PROPERTY HandlerReturns
