CONSTANTS
  r1 = r1
  r2 = r2
  Requests <- TwoRequests
  KeepAlive = KeepAlive
  NoRequest = NoRequest
  EOS = EOS
  Kinds = {"start", "append", "final"}
  OneAtATime = TRUE
  InboundMax = 2
  BacklogMax = 2
  SegmentTarget = 2
  OverlapTarget = 1
  InternalRoll = TRUE
  LossyWaitFor = TRUE
  GenMayFail = FALSE
  MaxAppends = 2
SPECIFICATION Spec
CHECK_DEADLOCK FALSE
INVARIANT OpenUtteranceIsFed
