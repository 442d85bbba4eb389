CONSTANTS
  MaxBacklog = 3
  Puts <- VllmPuts
  SegmentTarget = 3
  OverlapTarget = 2
  MaxChunk = 2
  MaxItems = 4
SPECIFICATION Spec
INVARIANT BacklogBounded
