SPECIFICATION Safety
CONSTANTS
  Threads = {t1, t2}
  Nobody = Nobody
  MaxDepth = 2
  InitCap = 1
  AllocMayFail = TRUE
INVARIANT NoReaderWriterDeadlock
