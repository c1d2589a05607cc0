SPECIFICATION FairSpec
CONSTANTS
  MSGSIZE = 2
  SockBuf = 2
  MaxSize = 6
  INT_MAX = 2
INVARIANTS
  TransferTypeOK
  CompleteMeansAll
  KilledByGrowthOnly
PROPERTIES
  CopyIsFifo
  ReturnsUnlessCut
CHECK_DEADLOCK FALSE
