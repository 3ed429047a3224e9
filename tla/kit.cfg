SPECIFICATION FairSpec
CONSTANTS
  RxRetries = 1
  Ops <- MCOps
  Packets <- MCPackets
  Reports <- MCReports
  Boards <- MCBoards
  Configs <- MCConfigs
  MaxFaults = 3
  MaxQueue = 6
INVARIANTS
  TypeOK
  FirstMatch
  InStep
  AnswerQueued
PROPERTY Returns
