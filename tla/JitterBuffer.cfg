SPECIFICATION FairSpec
CONSTANTS
  M = 16
  maxSize = 3
  FirstSeq = 14
  MaxSent = 4
  MaxCopies = 1
INVARIANTS CapacityKept Conservation SkipsAreCounted InOrderWithoutLoss GapsAreMissing
PROPERTY Drains
