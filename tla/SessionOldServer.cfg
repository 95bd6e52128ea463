SPECIFICATION Spec
CONSTANTS
  ClientIds = {1}
  ServerVersions = {37, 69, 70}
  PushKinds = {"data", "verified", "unknown"}
  LoopCalls = {"connect", "request"}
  SlotCalls = {"request"}
  Faults = FALSE
  MaxConnections = 2
  MaxCalls = 4
  MaxPushes = 1
PROPERTY RequestsOnlyAtVersion38
CHECK_DEADLOCK FALSE
