SPECIFICATION Spec
CONSTANTS
  MaxChanges = 3
  MaxRewrites = 2
  MaxBase = 2
  MaxStarts = 2
INVARIANTS HostsWhole ShownUnlessMissed DnsKnows
PROPERTIES ReportedIsShown
CHECK_DEADLOCK FALSE
