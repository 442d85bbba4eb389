CONSTANTS
  w1 = w1
  w2 = w2
  w3 = w3
  Sockets <- Three
  MaxConnections = 0
  MaxNumSeqs = 2
  IdleTimeout = 1
  MaxDuration = 3
  WatchdogTick = 1
  Second = 1
SYMMETRY Symmetric
SPECIFICATION Spec
INVARIANTS TypeOK SlotsOwned DurationBound QuietBound
PROPERTY PoolSpec
