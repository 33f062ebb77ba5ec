CONSTANTS
  c1 = c1
  c2 = c2
  MaxRefusals = 2
  Clients = {c1}
  MaxSessions = 2
  MaxLapses = 1
  MaxTroubles = 2
SPECIFICATION Spec
INVARIANTS
  TypeOK
  BrokerServes
  OwnToken
PROPERTY HandsGood
CHECK_DEADLOCK FALSE
