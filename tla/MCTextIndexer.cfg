SPECIFICATION Spec
CONSTANTS
  Requests <- MCRequests
  MaxThreads = 3
INVARIANTS
  TypeOK
  SlotsFilled
  JoinedBeforeFree
  ConcurrencyBounded
  ProgressReported
  EntriesDescend
  LinesCounted
  IndexExact
PROPERTIES
  ProgressForward
  ImplementsLineIndex
