CONSTANTS
  MAX_SSE_FAILURES = 2
  MaxPrompts = 2
  MaxCommands = 0
  MaxInterrupts = 0
  MaxTroubles = 1
  MaxDrops = 1
  MaxEnds = 0
SPECIFICATION FairSpec
PROPERTY DropSurvived
CHECK_DEADLOCK FALSE
