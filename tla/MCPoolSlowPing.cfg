SPECIFICATION Safety
CONSTANTS
  Clients = {c1}
  Ping = Ping
  Resources = {r1, r2}
  InitCnts = {1}
  MaxCnt = 1
  OwnTimer = FALSE
  SlowPing = TRUE
INVARIANT NoUseAfterFree
CHECK_DEADLOCK FALSE
