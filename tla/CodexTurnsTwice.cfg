CONSTANTS
  MaxMessages = 2
  MaxInterrupts = 0
  MaxAsks = 0
  MaxFailures = 1
  MaxTroubles = 1
  MaxEnds = 0
SPECIFICATION Spec
INVARIANT NeverTwice
CHECK_DEADLOCK FALSE
