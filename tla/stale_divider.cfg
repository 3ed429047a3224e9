SPECIFICATION Spec
CONSTANTS
  RxRetries = 1
  Ops <- MCOps
  ChipModes <- MCChipModes
  ModeWrites <- MCModeWrites
INVARIANT WaitsLongEnough
