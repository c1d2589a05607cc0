SPECIFICATION NetSpec
CONSTANTS
  Paths       <- NetPaths
  FileSize    <- NetFiles
  Directories <- NoDirs
  Asks        <- SniffAsks
  Frames      <- WholeFrames
  Clients     = {c1}
  c1 = c1
  MAXCLIENTS  = 1
  SockBuf     = 2
  BacklogMax  = 1
  MaxFds      = 2
  MaxThreads  = 1
  NoFd        = NoFd
  Empty       = Empty
  NoRequest   = NoRequest
  NoFrame     = NoFrame
  InBuf       = 4
  PieceSize   = 200
INVARIANT BuffersAreFrames
CHECK_DEADLOCK FALSE
