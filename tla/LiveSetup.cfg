CONSTANTS
  ann = ann
  bob = bob
  platform = platform
  m1 = m1
  m2 = m2
  Members = {ann, bob}
  Platform = platform
  NoOne = NoOne
  Messages = {m1, m2}
  Author <- MCAuthor
  Setups <- ThenPrivate
  NoSetup = NoSetup
  Seeding = {TRUE, FALSE}
  MaxSelfTurns = 0
  MaxTurns = 2
SPECIFICATION Spec
INVARIANTS
  TypeOK
  OneHarness
  NeverOnOldSetup
  OnlyItsMember
  TakenOnce
  HeardInOrder
  OwnerAnswers
PROPERTY OutcomeStands
CHECK_DEADLOCK FALSE
