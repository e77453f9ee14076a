SPECIFICATION Spec
CHECK_DEADLOCK FALSE
CONSTANTS
  Streams <- RequestStreams
  MinBuf = 8
  MaxBuf = 32
  MaxLength = 255
INVARIANTS
  TypeOK
  WholeRequest
  NotHeldBack
  BodyCounted
  CutsInvisible
  MethodAgrees
  GoodNotRefused
