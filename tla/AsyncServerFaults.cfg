SPECIFICATION FairSpec
CHECK_DEADLOCK FALSE
CONSTANTS
  MaxApps = 5
  MaxPending = 2
  Backlog = 2
  MaxSend = 1
  MaxEvents = 2
  ChanCap = 1
  Timeout = 1
  AllocFails = TRUE
  OversizeAnswers = TRUE
  Closers = {"client", "worker"}
INVARIANTS
  IInv
  AliveCommCounts
PROPERTIES
  ClientReleased
