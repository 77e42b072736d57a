\* The calls are bounded: a run ends when they are used up.
SPECIFICATION Spec
CONSTANTS
  T = 6
  Setters = {main, reconnect}
  Ticks <- MCTicks
  MaxEvents = 4
SYMMETRY SettersSym
INVARIANTS OrphansHaveCause PairsWhole 
CHECK_DEADLOCK FALSE
