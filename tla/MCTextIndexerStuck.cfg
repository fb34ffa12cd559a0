SPECIFICATION FairSpec
CONSTANTS
  Requests <- WorkerRequests
  MaxThreads = 3
PROPERTIES
  Returns
