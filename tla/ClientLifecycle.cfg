SPECIFICATION Spec
CONSTANTS
  MaxRetries = 2
  MaxStarts = 2
  MaxDials = 3
\* After Close or a panic nothing more need happen.
CHECK_DEADLOCK FALSE
INVARIANTS OneSocket RunningIsTrue PanicNeedsReconnect LeakNeedsReconnect
