SPECIFICATION Spec
CHECK_DEADLOCK FALSE
CONSTANTS
  Base = 4
  ServerCap = 16
  WorkerCap = 16
  WireCap = 12
  Requests <- SmallThenLarge
  AnswerSizes = {2}
  PartialSends = TRUE
INVARIANTS
  FramesIntact
