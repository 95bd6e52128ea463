SPECIFICATION Spec
CONSTANTS
  ClientIds = {1}
  ServerVersions = {37, 69, 70}
  PushKinds = {"data", "verified", "unknown"}
  LoopCalls = {"connect", "disconnect", "request"}
  SlotCalls = {}
  Faults = FALSE
  MaxConnections = 2
  MaxCalls = 4
  MaxPushes = 1
INVARIANT ReturnsConnected
CHECK_DEADLOCK FALSE
