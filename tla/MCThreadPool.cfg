SPECIFICATION Spec
CONSTANTS
  Clients = {c1, c2}
  Jobs = {j1, j2}
  FixedSizes = {1, 2}
  MaxWorkers = 3
  NoJob = NoJob
INVARIANTS
  Books NoUseAfterFree
PROPERTIES WaitMeansDone EveryJobRuns CallsReturn
CHECK_DEADLOCK FALSE
