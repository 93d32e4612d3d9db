SPECIFICATION Spec
CONSTANTS
  Name = {"api", "web"}
  Port = {15001}
  Label = {"", "a"}
  NoLabel = ""
  OwnerKey <- MCOwnerKey
  NoKey = NoKey
  RegistrationID = {r1, r2}
  Container = {"c1"}
  NoContainer = "none"
  Backend = {"b1"}
  NoBackend = "nil"
  LeaseTTL = 1
  MinLeaseTTL = 1
  MaxLeaseTTL = 1
  Second = 1
  DurationLimit = 8
  Requests <- MCRequestsTwoHosts
INVARIANTS
  HostnameServesItsOwner
