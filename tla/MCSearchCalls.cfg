SPECIFICATION FairSpec
CONSTANTS
  Plans <- MCPlans
  MaxCalls = 3
  MaxThreads = 3
INVARIANTS
  TypeOK
  MutexOwned
  LimitUnlessOverlap
  QuietAfterSuccess
PROPERTIES
  AllReturn
