SPECIFICATION Spec
CONSTANTS
  Host <- Hosts
  Service <- Services
  MaxAttempts = 3
  Releases = TRUE
  Ageing = TRUE
  Faults = {"calloc"}
  MaxLines = 5
INVARIANTS
  FailuresLockOut
PROPERTIES
  FoundRecordIsKept
CHECK_DEADLOCK FALSE
