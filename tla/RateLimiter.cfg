SPECIFICATION Spec
CONSTANTS
  w1 = w1  w2 = w2
  Workers = {w1, w2}
  Skew <- OneAhead
  Requests <- SignIns
  Admin = {"status", "reset", "block", "unblock", "delete"}
  Points = 2
  Duration = 4
  BlockDuration = 2
  MaxDelay = 1
  MaxSkew = 1
  MaxClock = 6
  MaxCalls = 4
  MaxFaults = 1
  None = None
CHECK_DEADLOCK FALSE
INVARIANTS WindowBound RefusalEarned BlockStands
