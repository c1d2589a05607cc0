SPECIFICATION Spec
CONSTANTS
  Paths       <- TcpPaths
  FileSize    <- NoFiles
  Directories <- NoDirs
  Asks        <- TcpAsks
  Frames      <- NoFrames
  Clients     = {c1, c2}
  c1 = c1
  c2 = c2
  MAXCLIENTS  = 2
  SockBuf     = 1
  BacklogMax  = 2
  MaxFds      = 2
  MaxThreads  = 2
  NoFd        = NoFd
  Empty       = Empty
  NoRequest   = NoRequest
  NoFrame     = NoFrame
INVARIANT RegistrationKept
CHECK_DEADLOCK FALSE
