CONSTANTS
  ann = ann
  bob = bob
  platform = platform
  m1 = m1
  m2 = m2
  Members = {ann}
  Platform = platform
  NoOne = NoOne
  Messages = {m2}
  Author <- MCAuthor
  Setups <- ThenOpen
  NoSetup = NoSetup
  Seeding = {TRUE, FALSE}
  MaxSelfTurns = 1
  MaxTurns = 3
SPECIFICATION FairSpec
PROPERTIES
  HeldIsReleased
  EndingEnds
CHECK_DEADLOCK FALSE
