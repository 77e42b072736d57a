SPECIFICATION Spec
CONSTANTS
  MaxRequests = 3
  MaxFrames = 1
  MaxPackets = 1
  hasCredentials = TRUE
\* Once the bounds are reached nothing more need happen.
CHECK_DEADLOCK FALSE
INVARIANT NeverMisframed
