SPECIFICATION Spec
CONSTANTS
  ClientIds = {1, 2}
  ServerVersions = {37, 69, 70}
  PushKinds = {"data", "verified", "unknown"}
  LoopCalls = {"connect", "disconnect", "request"}
  SlotCalls = {"connect", "disconnect", "request"}
  Faults = TRUE
  MaxConnections = 2
  MaxCalls = 4
  MaxPushes = 1
INVARIANT TypeOK
INVARIANT RetainedOnlyWhileDown
INVARIANT WireOrder
INVARIANT NoStaleFrames
INVARIANT NoInvalidId
INVARIANT GreetingFirst
INVARIANT ResetHolds
PROPERTY NestedWaitIsForever
PROPERTY LockOpensAfterIdentity
CHECK_DEADLOCK FALSE
