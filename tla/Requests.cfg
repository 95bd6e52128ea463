SPECIFICATION Spec
CONSTANTS
  Versions <- AllVersions
  Inputs <- UpToThree
INVARIANTS
  TypeOK
  CheckedArgumentsTravel
  CurrentServersLoseNothing
  RefusedForCause
  ShowsBeforeItShifts
