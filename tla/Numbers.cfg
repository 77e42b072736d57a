\* A question leads nowhere, except round the circle.
SPECIFICATION Spec
CONSTANTS
  M = 16
  T = 16
  Word = 1024
  DefaultRetries = 3
  DefaultInitial = 1
  DefaultMaxDelay = 300
INVARIANTS OneCircle MapsExactly BackoffBounded WireRoundTrip ConfigPriority SdpSections
CHECK_DEADLOCK FALSE
