CONSTANTS
  c1 = c1
  c2 = c2
  MaxRefusals = 2
  Clients = {}
  MaxSessions = 2
  MaxLapses = 1
  MaxTroubles = 2
SPECIFICATION FairSpec
PROPERTIES
  GiveUpPersists
  EventuallyDelivered
CHECK_DEADLOCK FALSE
