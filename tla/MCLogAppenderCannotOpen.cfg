SPECIFICATION Spec
CONSTANTS
  Threads = {t1}
  Kinds = {"rolling"}
  BufferSizes = {2}
  MaxTime = 1
  MaxSent = 1
  MaxFailures = 3
INVARIANTS ItemsConsumed
CHECK_DEADLOCK FALSE
