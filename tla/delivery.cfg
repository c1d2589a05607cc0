SPECIFICATION ReadersSpec
CONSTANTS
  Paths       <- TcpPaths
  FileSize    <- NoFiles
  Directories <- NoDirs
  Asks        <- TcpAsks
  Frames      <- OneFrame
  Clients     = {c1, c2}
  c1 = c1
  c2 = c2
  MAXCLIENTS  = 2
  SockBuf     = 1
  BacklogMax  = 1
  MaxFds      = 2
  MaxThreads  = 2
  NoFd        = NoFd
  Empty       = Empty
  NoRequest   = NoRequest
  NoFrame     = NoFrame
INVARIANTS
  Inv
  RegisteredOnce
  PrefixFilled
PROPERTIES
  SlotsNeverFreed
  ServerIsService
  DeliveryEnds
  FrameReachesClients
CHECK_DEADLOCK FALSE
