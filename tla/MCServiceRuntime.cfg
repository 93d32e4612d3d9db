SPECIFICATION FairSpec
CONSTANTS
  Conn = {1, 2}
  Capacity = 1
  MaxVersion = 2
CHECK_DEADLOCK FALSE
INVARIANTS
  SlotsBelongToConnections
  DrainedMeansIdle
  NoConnectionSurvivesShutdown
  NewConnectionsUseNewBackend
PROPERTIES
  ConnectionIsDecided
