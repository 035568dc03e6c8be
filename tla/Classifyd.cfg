SPECIFICATION Spec
CONSTANTS
  Flow = {f1, f2}
  Other = other
  QMax = 2
  StackSize = 5
  Expire = 1
  MaxPackets = 4
INVARIANTS PacketsKeepOrder PopsFindMemory NoPacketIsForgotten SilentFlowsGo HangupsStayFlagged
SYMMETRY Flows
CHECK_DEADLOCK FALSE
