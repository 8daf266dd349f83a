SPECIFICATION Spec
CONSTANTS
  Threads = {t1, t2}
  Kinds = {"console", "file", "rolling"}
  BufferSizes = {2}
  MaxTime = 2
  MaxSent = 4
  MaxFailures = 1
INVARIANTS TypeOK NothingLost FilesOfOnePeriod InOrder
PROPERTIES BufferedIsWritten DestroyDrains
CHECK_DEADLOCK FALSE
