SPECIFICATION Spec
CONSTANTS
  NULL = NULL
  Wants = {1, 3}
  Sizes = {1, 3}
  RbufLen = 2
  RecordLen = 2
  WireRoom = 2
  MaxByte = 4
INVARIANT ReadByteHears
