SPECIFICATION BusySpec
CONSTANTS
  RxRetries = 1
  Ops <- MCOps
  ChipModes <- MCChipModes
  ModeWrites = {}
INVARIANT WaitsLongEnough
PROPERTIES
  Returns
  Recovers
