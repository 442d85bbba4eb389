CONSTANTS
  r1 = r1
  r2 = r2
  Requests <- TwoRequests
  KeepAlive = KeepAlive
  NoRequest = NoRequest
  EOS = EOS
  Kinds = {"start", "append", "final", "cancel", "ping", "disconnect"}
  OneAtATime = FALSE
  InboundMax = 1
  BacklogMax = 1
  SegmentTarget = 2
  OverlapTarget = 1
  InternalRoll = TRUE
  LossyWaitFor = TRUE
  GenMayFail = TRUE
  MaxAppends = 2
SPECIFICATION Spec
CHECK_DEADLOCK FALSE
INVARIANT TypeOK
INVARIANT IdsAgree
INVARIANT NoLostWakeup
PROPERTY UtteranceSpec
