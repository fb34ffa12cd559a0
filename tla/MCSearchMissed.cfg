SPECIFICATION Spec
CONSTANTS
  Requests <- TwoThreads
  MaxThreads = 3
INVARIANTS
  RangeSearched
