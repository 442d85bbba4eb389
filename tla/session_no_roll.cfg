CONSTANTS
  r1 = r1
  r2 = r2
  Requests <- TwoRequests
  KeepAlive = KeepAlive
  NoRequest = NoRequest
  EOS = EOS
  Kinds = {"start", "append", "final", "cancel", "ping", "end", "disconnect", "update"}
  OneAtATime = FALSE
  InboundMax = 2
  BacklogMax = 2
  SegmentTarget = 2
  OverlapTarget = 1
  InternalRoll = FALSE
  LossyWaitFor = TRUE
  GenMayFail = FALSE
  MaxAppends = 3
SPECIFICATION Spec
CHECK_DEADLOCK FALSE
INVARIANT TokensScoped
INVARIANT QueueIsCurrent
INVARIANT SentinelIsLast
PROPERTY DoneIsForFinal
INVARIANT BufferedAudioIsCurrent
