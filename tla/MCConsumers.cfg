SPECIFICATION ConsumersFairSpec
CONSTANTS
  Name = {"api", "web"}
  Port = {15001, 15002}
  Label = {"", "a"}
  NoLabel = ""
  OwnerKey <- MCOwnerKey
  NoKey = NoKey
  RegistrationID = {"r1", "r2"}
  Container = {"c1", "c2"}
  NoContainer = "none"
  Backend = {"b1", "b2", "b3"}
  NoBackend = "nil"
  LeaseTTL = 1
  MinLeaseTTL = 1
  MaxLeaseTTL = 1
  Second = 1
  DurationLimit = 8
  Requests <- MCRequests
  Request = {"x"}
  HostHeader <- MCHostHeader
  Command = {"c"}
  CommandLines <- MCCommandLines
CONSTRAINTS
  IDsInOrder
  OneConsumer
INVARIANTS
  RequestReachesItsService
  PrintedEndpointIsServed
  FrontendIsListening
  UnsharedHostnameIsServed
  LeaseHolderIsPublished
  ReadyServiceIsCovered
PROPERTIES
  RegisteredHostIsFound
  IdentityIsStable
  ResolveEnds
  PublicationEndsForCause

