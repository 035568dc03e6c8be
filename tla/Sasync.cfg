SPECIFICATION Spec
CONSTANTS
  Node = {a, b}
  Sa = {s1}
  FlushMode = "startup"
  CarpState = {"SLAVE", "MASTER", "FAIL"}
  Slot = {1, 2}
  MaxOps = 1
  Troubles = {"flip"}
  MaxTroubles = 1
INVARIANTS OnlyMastersData SlaveFollows
SYMMETRY Gateways
CHECK_DEADLOCK FALSE
