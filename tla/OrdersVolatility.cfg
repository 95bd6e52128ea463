SPECIFICATION Spec
CONSTANTS
  FirstWord = 100000000
  IntMax = 8388607
  Digits = 6
  Loads <- MCLoads
INVARIANT VolatilityTypeAsDocumented
CHECK_DEADLOCK FALSE
