CONSTANTS
  r1 = r1
  r2 = r2
  Requests <- OneRequest
  KeepAlive = KeepAlive
  NoRequest = NoRequest
  EOS = EOS
  Kinds = {"start", "append", "final", "disconnect", "end", "update"}
  OneAtATime = TRUE
  InboundMax = 2
  BacklogMax = 3
  SegmentTarget = 3
  OverlapTarget = 2
  InternalRoll = TRUE
  LossyWaitFor = TRUE
  GenMayFail = FALSE
  MaxAppends = 5
SPECIFICATION FairSpec
CHECK_DEADLOCK FALSE
INVARIANT SuppressOnlyWhileRolling
PROPERTY FinalAnswered
PROPERTY BusyClears
PROPERTY TeardownEnds
