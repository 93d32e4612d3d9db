SPECIFICATION FairSpec
CONSTANTS
  Process = {p, q}
  Nobody = Nobody
  Foreign = Foreign
  Slow = {q}
  Contested = {"http"}
  Service = {"db"}
  Configs <- MCConfigs
  MinLeaseTTL = 3
  MaxLeaseTTL = 3600
  MaxStarts = 2
CHECK_DEADLOCK FALSE
INVARIANTS
  ServingIsReachable
  ShutdownClosesFrontends
PROPERTIES
  StartupOwnsItsEndpoints
  AssignmentsAreKept
  RefusalIsJustified
  ShutdownEnds
