SPECIFICATION Spec
CONSTANTS
  Modes <- MCModes
  MaxDelivered = 6
  FirstWord = 900
PROPERTY NoParsingPastTheEnd
CHECK_DEADLOCK FALSE
