SPECIFICATION Spec
CONSTANTS
  Threads = {t1, t2, t3}
  Nobody = Nobody
INVARIANTS MutexOwned TestHolds NoLostWakeup
PROPERTY ImplementsEvent
