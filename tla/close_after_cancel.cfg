CONSTANTS
  r1 = r1
  r2 = r2
  Requests <- OneRequest
  KeepAlive = KeepAlive
  NoRequest = NoRequest
  EOS = EOS
  Kinds = {"start", "append", "final", "cancel", "disconnect"}
  OneAtATime = TRUE
  InboundMax = 2
  BacklogMax = 2
  SegmentTarget = 2
  OverlapTarget = 1
  InternalRoll = FALSE
  LossyWaitFor = FALSE
  GenMayFail = FALSE
  MaxAppends = 2
SPECIFICATION FairSpec
CHECK_DEADLOCK FALSE
PROPERTY HandlerReturns
