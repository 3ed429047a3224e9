SPECIFICATION Spec
CONSTANTS
  Positions <- MCPositions
  Default608 <- MCDefault608
  Files <- MCFiles
  ChipBytes <- MCChipBytes
  Addresses <- MCAddresses
INVARIANTS
  TypeOK
  Preserved
  InstalledAsMeant
  FieldsAsCommented
