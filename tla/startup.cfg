CONSTANTS
  p1 = p1
  p2 = p2
  big = big
  small = small
  None = None
  Torn = Torn
  Procs <- TwoProcs
  Shards <- TwoShards
  ShardBytes <- Sizes
  Hosts <- SomeHosts
  Delays <- SomeDelays
  MaxFaults = 2
  KvBudgetPercent = 90
  MaxNumSeqsCap = 20
SPECIFICATION FairSpec
INVARIANTS TypeOK EngineHasDelay BrickedOnlyIfCut KvFits LimitMatchesEngine
PROPERTY ComesUp
