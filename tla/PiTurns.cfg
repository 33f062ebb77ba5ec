CONSTANTS
  MaxCalls = 2
  MaxClients = 3
  MaxStarts = 2
  MaxBreaks = 2
  MaxPrompts = 2
  MaxInterrupts = 1
  MaxTroubles = 2
  MaxEnds = 1
SPECIFICATION FairSpec
INVARIANTS
  TypeOK
  NoOrphan
PROPERTIES
  Settles
  MessagesRun
CHECK_DEADLOCK FALSE
