SPECIFICATION Spec
CONSTANTS
  Process = {p, q}
  Nobody = Nobody
  Foreign = Foreign
  Slow = {}
  Contested = {}
  Service = {}
  Configs <- MCConfigs
  MinLeaseTTL = 3
  MaxLeaseTTL = 3600
  MaxStarts = 3
CHECK_DEADLOCK FALSE
PROPERTIES
  LiveSocketIsKept
