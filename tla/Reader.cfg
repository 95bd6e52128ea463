SPECIFICATION FairSpec
CONSTANTS
  Modes <- MCModes
  MaxDelivered = 6
  FirstWord = 900
INVARIANTS
  TypeOK
  InOrderUntilSplit
  EveryMessageFromTheStart
PROPERTIES
  NothingDroppedUntilSplit
  ImplementsChannel
  EverythingDelivered
CHECK_DEADLOCK FALSE
