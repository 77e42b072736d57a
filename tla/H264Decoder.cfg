SPECIFICATION Spec
CONSTANTS
  M = 16
  LossLimit = 2
  MaxCopies = 1
  Streams <- MCStreams
INVARIANTS OneStream UsedOnce CorruptionIsMarked FramesIntact KeyFramesCarryParameters
PROPERTY LossEventsAreGaps
