SPECIFICATION Safety
CONSTANTS
  Clients = {c1}
  Workers = {w1}
  Tasks = {k1}
  Nothing = Nothing
  SlowProcs = FALSE
  QuietPurge = FALSE
INVARIANT NoLeak
CHECK_DEADLOCK FALSE
