SPECIFICATION ClientsFairSpec
CONSTANTS
  Name = {"db"}
  Port = {15001}
  Label = {""}
  NoLabel = ""
  OwnerKey = {}
  NoKey = NoKey
  RegistrationID = {1, 2, 3, 4, 5}
  Container = {}
  NoContainer = "none"
  Backend = {"b1"}
  NoBackend = "nil"
  LeaseTTL = 2
  MinLeaseTTL = 1
  MaxLeaseTTL = 2
  Second = 1
  DurationLimit = 8
  Requests <- MCRequests
  Client = {"p", "q"}
  Request <- MCRequest
  NoID = 0
  MaxFaults = 1
CONSTRAINT IDsInOrder
CHECK_DEADLOCK FALSE
INVARIANTS
  CloseEndsPublication
PROPERTIES
  ImplementsDaemon
  LiveProducersAreServed
  StoppedProducersAreForgotten
