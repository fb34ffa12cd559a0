SPECIFICATION ListsSpec
CONSTANTS
  MaxLen = 4
  MaxNodes = 2
INVARIANTS
  ListsTypeOK
  ListsEnd
  ReduceAgrees
  ReverseOrder
  MemorySafe
  MemoryAgrees
  NodesAdded
CHECK_DEADLOCK FALSE
