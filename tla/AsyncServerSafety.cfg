SPECIFICATION FairSpec
CHECK_DEADLOCK FALSE
CONSTANTS
  MaxApps = 7
  MaxPending = 1
  Backlog = 1
  MaxSend = 2
  MaxEvents = 2
  ChanCap = 1
  Timeout <- NoTimeout
  AllocFails = FALSE
  OversizeAnswers = FALSE
  Closers = {"client", "worker"}
CONSTRAINT OneClient
INVARIANTS
  NoDanglingReference
  SendsOnlyAnswers
  DuplexWorkers
  NoLostWakeup
  DispatchedOnce
  ConnInv
PROPERTIES
  RequestDispatched
