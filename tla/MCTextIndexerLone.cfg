SPECIFICATION Spec
CONSTANTS
  Requests <- FaultlessRequests
  MaxThreads = 3
INVARIANTS
  CountMatchesList
