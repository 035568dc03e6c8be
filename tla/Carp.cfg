SPECIFICATION Spec
CONSTANTS
  a = a
  b = b
  Host = {a, b}
  Vhid = {wan, lan}
  Skew <- Skews
  Preempt = TRUE
  CARP_SENDAD_MAX_ERRORS = 2
  CARP_SENDAD_MIN_SUCCESS = 2
  Overlap = {}
  Troubles = {"link", "failed", "loss", "alias", "admin", "nobuf", "destroy"}
  MaxTroubles = 1
INVARIANTS DemotionIsCounted UpTakesPart RouteIffMaster
PROPERTIES Settles
