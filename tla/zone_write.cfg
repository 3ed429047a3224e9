SPECIFICATION FairSpec
CONSTANTS
  Slots <- MCSlots
  Offsets <- MCOffsets
  Lengths <- MCLengths
INVARIANTS
  TypeOK
  RightPlace
  PrefixStored
  AllOrError
PROPERTY Ends
