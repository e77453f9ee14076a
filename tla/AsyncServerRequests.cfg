SPECIFICATION Spec
CHECK_DEADLOCK FALSE
CONSTANTS
  MaxApps = 6
  MaxPending = 1
  Backlog = 1
  MaxSend = 2
  MaxEvents = 6
  ChanCap = 1
  Timeout <- NoTimeout
  AllocFails = FALSE
  OversizeAnswers = FALSE
  Closers = {"client"}
CONSTRAINT TwoClients
INVARIANTS
  NoRequestLost
  ConnInv
PROPERTIES
  RefinesDispatcher
