SPECIFICATION Spec
CONSTANTS
  RxRetries = 2
  Ops <- MCOps
  ChipModes <- MCAnyModes
  ModeWrites <- MCModeWrites
INVARIANTS
  TypeOK
  OwnAnswer
  AfterCancellation
PROPERTIES
  ActiveMeansAwake
  AbstractSpec
