SPECIFICATION Spec
CONSTANTS
  Lines <- ShortLines
  NULL = NULL
INVARIANTS
  OnlyLeavesAccepted
  ArgumentIsPassed
CHECK_DEADLOCK FALSE
