SPECIFICATION FairSpec
CONSTANTS
  MaxRetries = 2
  MaxStarts = 1
  MaxDials = 2
\* After Close or a panic nothing more need happen.
CHECK_DEADLOCK FALSE
PROPERTY CloseEndsGoroutines
