CONSTANTS
  MaxMessages = 2
  MaxInterrupts = 1
  MaxAsks = 1
  MaxFailures = 1
  MaxTroubles = 1
  MaxEnds = 1
SPECIFICATION FairSpec
PROPERTIES
  Settles
  WindsDown
CHECK_DEADLOCK FALSE
