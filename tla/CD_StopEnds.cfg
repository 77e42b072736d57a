SPECIFICATION FairSpec
CONSTANTS
  QueueCap = 1
  MetaCap = 2
  StdinCap = 1
  StdoutCap = 1
  StderrCap = 3
  MaxFrames = 3
  FfmpegMayDie = FALSE
\* After Stop, a failed start or a panic nothing more happens.
CHECK_DEADLOCK FALSE
PROPERTY StopEnds
