SPECIFICATION Spec
CONSTANTS
  MaxRequests = 4
  MaxFrames = 2
  MaxPackets = 3
  hasCredentials = TRUE
\* Once the bounds are reached nothing more need happen.
CHECK_DEADLOCK FALSE
INVARIANTS OwnAnswers Truthful FramesAccountedFor PacketsInOrder MisframedNeedsCause
