SPECIFICATION FairSpec
CONSTANTS
  Container = {"c1", "c2"}
  Creations <- MCCreationsScaled
  AllowNonLoopback = FALSE
  Process = {}
  NoBackend = NoBackend
  ReconcileAttempts = 2
  PublishRetries = 1
  MaxStarts = 1
  MaxFaults = 2
PROPERTIES
  StatusRecovers
