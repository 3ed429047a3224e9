SPECIFICATION Spec
CONSTANTS
  RxRetries = 1
  Ops <- MCOps
  Packets <- MCPackets
  Reports <- MCReports
  Boards <- MCOneBoard
  Configs <- MCDefaultConfig
  MaxFaults = 1
  MaxQueue = 6
INVARIANT OwnAnswer
