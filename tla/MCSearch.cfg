SPECIFICATION FairSpec
CONSTANTS
  Requests <- MCRequests
  MaxThreads = 3
INVARIANTS
  TypeOK
  LimitRespected
  CallbackExclusive
  DeliveredOnce
  QuietAtReturn
  MatchesDelivered
PROPERTIES
  Returns
