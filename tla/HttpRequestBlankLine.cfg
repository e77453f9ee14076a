SPECIFICATION Spec
CHECK_DEADLOCK FALSE
CONSTANTS
  Streams <- BlankLineFirst
  MinBuf = 8
  MaxBuf = 32
  MaxLength = 255
INVARIANTS
  WholeRequest
