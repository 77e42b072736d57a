SPECIFICATION FairSpec
CONSTANTS
  QueueCap = 1
  MetaCap = 2
  StdinCap = 1
  StdoutCap = 1
  StderrCap = 1
  MaxFrames = 3
  FfmpegMayDie = TRUE
INVARIANTS EveryFrameAccountedFor NamedRightUntilDisturbed PanicOnlyInShutdown
PROPERTIES InOrder FrameGetsThrough
\* After Stop, a failed start or a panic nothing more happens.
CHECK_DEADLOCK FALSE
