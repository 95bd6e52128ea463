SPECIFICATION FairSpec
CONSTANTS
  ClientIds = {1}
  ServerVersions = {37, 69, 70}
  PushKinds = {"data", "verified", "unknown"}
  LoopCalls = {"connect", "disconnect", "request"}
  SlotCalls = {"disconnect", "request"}
  Faults = TRUE
  MaxConnections = 2
  MaxCalls = 4
  MaxPushes = 1
PROPERTIES
  ConnectReturnsEventually
  WaitsOnlyOnDownSocket
CHECK_DEADLOCK FALSE
