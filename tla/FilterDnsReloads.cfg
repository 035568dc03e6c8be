SPECIFICATION FairSpec
CONSTANTS
  Host <- Hosts
  TableName <- Tables
  Address = {a1}
  NoAddress = NoAddress
  FirstConfig <- SharedWork
  Configs <- AnyChange
  Static = {}
  Repeats = 1
  RefModulus = 65536
  Faults = {"add", "delete", "resolve", "create"}
  MaxReloads = 2
  MaxPasses = 2
  MaxFailures = 1
INVARIANTS
  FreedThreadsAreUnlisted
  ListMatchesConfig
PROPERTIES
  AwaitedReloadTakesEffect
  RemovedHostsEnd
CHECK_DEADLOCK FALSE
