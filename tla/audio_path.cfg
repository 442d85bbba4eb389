CONSTANTS
  MaxBacklog = 3
  Puts <- VllmPuts
  SegmentTarget = 3
  OverlapTarget = 2
  MaxChunk = 2
  MaxItems = 5
SPECIFICATION Spec
INVARIANTS TypeOK BuffersCounted NeverOverCounts OverlapIsNewest SegmentBound
PROPERTY EndSurvives
