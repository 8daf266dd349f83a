SPECIFICATION Spec
CONSTANTS
  Clients = {c1}
  Workers = {w1, w2}
  Tasks = {k1, k2}
  Nothing = Nothing
  SlowProcs = TRUE
  QuietPurge = TRUE
INVARIANTS
  MemorySafe NoLeak SilentAfterCancel OnePlace
PROPERTY CallsReturn
CHECK_DEADLOCK FALSE
