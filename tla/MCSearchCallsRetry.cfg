SPECIFICATION Spec
CONSTANTS
  Plans <- Retry
  MaxCalls = 3
  MaxThreads = 2
INVARIANTS
  LimitOfEach
