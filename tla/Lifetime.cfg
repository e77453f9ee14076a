SPECIFICATION FairSpec
CHECK_DEADLOCK FALSE
CONSTANTS
  MaxFds = 7
  MaxId = 5
  MaxWaiting = 1
  Backlog = 2
  Kills = TRUE
  IoFails = TRUE
  AllocFails = TRUE
  SysLimit = TRUE
  Signals = {"SIGINT", "SIGTERM"}
  Anytime = TRUE
INVARIANTS
  TypeOK
  FileAhead
  DescriptorsOwned
  RegistrationsLive
  ClosesAllKnown
PROPERTIES
  IdsUnique
  ReturnsWithRoom
