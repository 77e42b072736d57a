\* The calls are bounded: a run ends when they are used up.
SPECIFICATION Spec
CONSTANTS
  Tracks = 2
  MaxCalls = 4
  MaxRotations = 1
  MaxLosses = 1
INVARIANTS RefusedHasCause ChannelsApart ResumesHaveCause
CHECK_DEADLOCK FALSE
