CONSTANTS
  MaxMessages = 2
  MaxInterrupts = 1
  MaxAsks = 0
  MaxFailures = 1
  MaxTroubles = 2
  MaxEnds = 3
SPECIFICATION Spec
INVARIANTS
  TypeOK
  CancelledNeverLive
  OneResult
  IdleNotOverLive
CHECK_DEADLOCK FALSE
