SPECIFICATION Spec
CONSTANTS
  Clients = {c1, c2}
  Ping = Ping
  Resources = {r1, r2}
  InitCnts = {0, 2}
  MaxCnt = 1
  OwnTimer = TRUE
  SlowPing = TRUE
INVARIANTS
  OneOwner CountsExact NoUseAfterFree
PROPERTY CheckOutReturns
CHECK_DEADLOCK FALSE
