SPECIFICATION NetFairSpec
CONSTANTS
  Paths       <- NetPaths
  FileSize    <- NetFiles
  Directories <- NoDirs
  Asks        <- NetAsks
  Frames      <- NetFrames
  Clients     = {c1}
  c1 = c1
  MAXCLIENTS  = 1
  SockBuf     = 1
  BacklogMax  = 1
  MaxFds      = 2
  MaxThreads  = 1
  NoFd        = NoFd
  Empty       = Empty
  NoRequest   = NoRequest
  NoFrame     = NoFrame
  InBuf       = 3
  PieceSize   = 10000
PROPERTIES
  ClientsAsAssumed
  ClientsEndWithServer
  TransferEnds
  RequestEnds
CHECK_DEADLOCK FALSE
