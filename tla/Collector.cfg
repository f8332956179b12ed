SPECIFICATION MCSpec
CONSTANTS
  None = None
  r1 = r1
  Replicas = {r1, r2}
  Capacity = 1
  SegmentLines = 2
  MaxRequests = 3
  MaxFailures = 1
  MaxFaults = 1
  MaxConnections = 2
INVARIANTS
  CollectorTypeOK
  ForksAreMisreads
  DropsReported
  DeliveredIsStored
  RecordsAccounted
PROPERTIES
  ImplementsLog
  Settled
CHECK_DEADLOCK FALSE
