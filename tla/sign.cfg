SPECIFICATION Spec
CONSTANTS
  Slots <- MCSlots
  Messages <- MCMessages
  NoMessage = NoMessage
  MaxKeys = 2
INVARIANTS
  TypeOK
  SignsOwnMessage
  VerifiedIsValid
  ToolAgrees
