CONSTANTS
  MAX_SSE_FAILURES = 2
  MaxPrompts = 2
  MaxCommands = 1
  MaxInterrupts = 1
  MaxTroubles = 2
  MaxDrops = 2
  MaxEnds = 1
SPECIFICATION FairSpec
INVARIANTS
  TypeOK
  OwnResults
PROPERTIES
  NeverResurrected
  Settles
  DeadStreamReported
CHECK_DEADLOCK FALSE
