SPECIFICATION Spec
CONSTANTS
  Command <- FilterOnly
  Aggregated <- AggregatedScripts
  ViaFcgi <- FcgiScripts
  Argument <- ScriptArguments
  Faults = {}
  IdModulus = 65536
  MaxEvents = 3
  MaxRequests = 3
INVARIANTS
  NoEventLost
CHECK_DEADLOCK FALSE
