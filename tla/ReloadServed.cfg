SPECIFICATION FairSpec
CONSTANTS
  Command <- NtpdAndNewip
  Aggregated <- AggregatedScripts
  ViaFcgi <- FcgiScripts
  Argument <- ScriptArguments
  Faults = {}
  IdModulus = 65536
  MaxEvents = 4
  MaxRequests = 5
INVARIANTS
  NoEventLost
  ParkedEntriesAwaitAnswer
PROPERTIES
  EventsAreHandedOver
  ImplementsService
CHECK_DEADLOCK FALSE
