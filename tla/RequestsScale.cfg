SPECIFICATION Spec
CONSTANTS
  Versions <- AllVersions
  Inputs <- UpToOne
INVARIANT NumComponentsIsEmpty
