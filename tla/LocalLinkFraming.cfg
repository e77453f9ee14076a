SPECIFICATION FairSpec
CHECK_DEADLOCK FALSE
CONSTANTS
  Base = 4
  ServerCap = 16
  WorkerCap = 16
  WireCap = 12
  Requests <- SmallThenLarge
  AnswerSizes = {2, 13, 14}
  PartialSends = FALSE
INVARIANTS
  TypeOK
  FramesIntact
  BufferMatchesParser
  StaysOpen
PROPERTIES
  AllAnswered
  RefinesChannel
