\* The clock stops when the session has expired: the client is not told.
SPECIFICATION ClockSpec
CONSTANTS
  Timeouts <- MCTimeouts
  MinInterval = 5
  MaxInterval = 15
  DefaultInterval = 15
  ServerDefault = 30
  MaxSetups = 2
  MaxLost = 1
INVARIANTS SessionKept
CHECK_DEADLOCK FALSE
