SPECIFICATION Spec
CONSTANTS
  None = None
  Clients = {c1, c2}
  Handlers = {h1, h2, h3}
  MaxConnections = 2
  Rate = 1
  Capacity = 2
  Penalty = 2
  MaxEntries = 1
  PurgeAge = 2
  MaxTime = 4
INVARIANTS
  TypeOK
  RateBound
  WithinLimit
PROPERTIES
  LazyIsEager
  CapacityReturns
