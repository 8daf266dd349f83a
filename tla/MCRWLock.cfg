SPECIFICATION Spec
CONSTANTS
  Threads = {t1, t2, t3}
  Nobody = Nobody
  MaxDepth = 2
  InitCap = 1
  AllocMayFail = FALSE
INVARIANTS MutualExclusion HolderExact NoReaderWriterDeadlock
PROPERTY CallsReturn
