SPECIFICATION Spec
CONSTANTS
  Requests <- MCRequests
  Fills <- MCFills
  Statuses <- MCStatuses
  Bursts <- MCBursts
  Sizes <- MCSizes
INVARIANTS
  TypeOK
  HeardAsAsked
  AnswerWhole
  DamageDetected
CHECK_DEADLOCK FALSE
