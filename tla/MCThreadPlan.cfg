SPECIFICATION Spec
CONSTANTS
  MaxThreads = 5
  MaxBuffer = 6
  MaxTotal = 14
  MaxOffset = 1
  SizeMod = 64
INVARIANTS
  TypeOK
  PlanIsSpans
  RangesInOrder
  RangesNonEmpty
CHECK_DEADLOCK FALSE
