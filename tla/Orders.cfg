SPECIFICATION Spec
CONSTANTS
  FirstWord = 100000000
  IntMax = 8388607
  Digits = 6
  Loads <- MCLoads
INVARIANTS
  TypeOK
  NewOrdersGetNewIds
  OrderComesBack
  ModifyDoesNotDrift
CHECK_DEADLOCK FALSE
