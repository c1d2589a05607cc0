SPECIFICATION NetSpec
CONSTANTS
  Paths       <- NetPaths
  FileSize    <- NetFiles
  Directories <- NoDirs
  Asks        <- TwoAsks
  Frames      <- NetFrames
  Clients     = {c1,c2}
  c1 = c1
  c2 = c2
  MAXCLIENTS  = 1
  SockBuf     = 1
  BacklogMax  = 1
  MaxFds      = 3
  MaxThreads  = 2
  NoFd        = NoFd
  Empty       = Empty
  NoRequest   = NoRequest
  NoFrame     = NoFrame
  InBuf       = 2
  PieceSize   = 10000
SYMMETRY Symmetry
INVARIANTS
  ClientTypeOK
  TransferExact
  FramesWhole
CHECK_DEADLOCK FALSE
