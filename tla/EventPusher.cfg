CONSTANTS
  d1 = d1
  d2 = d2
  MaxQueue = 2
  MaxBatch = 3
  MaxBatchBytes = 5
  MinBatchBytes = 1
  MaxRenewalRefusals = 2
  MaxPayload = 3
  StubSize = 1
  BodyCap = 2
  Payloads <- MCPayloads
  Drainers = {d1}
  MaxSeq = 3
  MaxFaults = 1
  MaxLate = 1
SPECIFICATION FairSpec
INVARIANT TypeOK
PROPERTIES
  ImplementsLog
  DurableDelivered
CHECK_DEADLOCK FALSE
