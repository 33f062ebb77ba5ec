CONSTANTS
  i1 = i1
  i2 = i2
  Callers = {i1, i2}
  Refusable = {i1}
  MaxMessages = 2
  MaxTasks = 1
  Edits = {2}
SPECIFICATION FairSpec
INVARIANTS
  TypeOK
  DrainIsOwned
  OneResultPerTurn
  EditsReported
PROPERTIES
  SettlesUninterrupted
  BackgroundZeroTold
CHECK_DEADLOCK FALSE
