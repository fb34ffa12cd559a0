SPECIFICATION FairSpec
CONSTANTS
  Requests <- LiveRequests
  MaxThreads = 3
PROPERTIES
  Indexed
  ReturnsUnlessLost
