SPECIFICATION Spec
CONSTANTS
  Slots <- MCSlots
  Offsets <- MCOffsets
  Lengths <- MCLengths
  Blocks <- MCBlocks
  WordOffsets <- MCWordOffsets
INVARIANTS
  TypeOK
  RightBytes
  Fills
