SPECIFICATION FairSpec
CONSTANTS
  MaxBytes = 1
CHECK_DEADLOCK FALSE
PROPERTIES
  ShutdownClosesUpstream
