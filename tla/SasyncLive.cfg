SPECIFICATION LiveSpec
CONSTANTS
  Node = {a, b}
  Sa = {}
  FlushMode = "never"
  CarpState = {"SLAVE", "MASTER"}
  Slot = {1, 2}
  MaxOps = 0
  Troubles = {"flip", "refusal", "break", "death"}
  MaxTroubles = 1
INVARIANT RolesKnown
PROPERTIES MessagesDieOut PeersReconnect
CHECK_DEADLOCK FALSE
