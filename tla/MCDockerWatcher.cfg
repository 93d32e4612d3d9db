SPECIFICATION FairSpec
CONSTANTS
  Container = {"c1", "c2"}
  Creations <- MCCreations
  AllowNonLoopback = FALSE
  Process = {"p"}
  NoBackend = NoBackend
  ReconcileAttempts = 2
  PublishRetries = 1
  MaxStarts = 2
  MaxFaults = 1
INVARIANTS
  TypeOK
  PublicationIsTracked
  OnlyLoopbackIsPublished
PROPERTIES
  PresentContainerIsKept
  RunningContainerIsServed
  StoppedContainerIsForgotten
