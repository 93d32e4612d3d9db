SPECIFICATION FairSpec
CONSTANTS
  MaxBytes = 2
CHECK_DEADLOCK FALSE
INVARIANTS
  EndMeansComplete
PROPERTIES
  ImplementsDuplexStream
  WorkerEndsWithBackend
