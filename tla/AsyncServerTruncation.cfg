SPECIFICATION Spec
CHECK_DEADLOCK FALSE
CONSTANTS
  MaxApps = 5
  MaxPending = 1
  Backlog = 1
  MaxSend = 1
  MaxEvents = 6
  ChanCap = 1
  Timeout <- NoTimeout
  AllocFails = FALSE
  OversizeAnswers = FALSE
  Closers = {}
INVARIANTS
  NeverTruncated
