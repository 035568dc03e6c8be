SPECIFICATION Spec
CONSTANTS
  Command <- FilterNewipNtpd
  Aggregated <- AggregatedScripts
  ViaFcgi <- FcgiScripts
  Argument <- ScriptArguments
  Faults = {"calloc", "vfork", "socket", "connect", "write", "recv", "refuse", "break", "crash"}
  IdModulus = 65536
  MaxEvents = 3
  MaxRequests = 3
INVARIANTS
  AggregationOrder
  HoldOffsExpire
  NeverRunsMoreThanAsked
  ScanAgreesWithLoop
PROPERTIES
  EventsAreLostFiveWays
  AnswersFreeTheirOwnEntry
CHECK_DEADLOCK FALSE
