SPECIFICATION Spec
CONSTANTS
  Host <- Hosts
  TableName <- Tables
  Address = {a1, a2, a3}
  NoAddress = NoAddress
  FirstConfig <- Apart
  Configs <- BobMoves
  Static = {a3}
  Repeats = 2
  RefModulus = 65536
  Faults = {}
  MaxReloads = 1
  MaxPasses = 5
  MaxFailures = 0
INVARIANTS
  AnswersAreInTable
  NothingLeftBehind
PROPERTIES
  SharedAddressSurvives
  UnsharedAddressRunsOut
CHECK_DEADLOCK FALSE
