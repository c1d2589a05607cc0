SPECIFICATION Spec
CONSTANTS
  Paths       <- AllPaths
  FileSize    <- AllFiles
  Directories <- Dirs
  Asks        <- AllAsks
  Frames      <- TwoFrames
  Clients     = {c1, c2}
  c1 = c1
  c2 = c2
  MAXCLIENTS  = 1
  SockBuf     = 2
  BacklogMax  = 2
  MaxFds      = 2
  MaxThreads  = 2
  NoFd        = NoFd
  Empty       = Empty
  NoRequest   = NoRequest
  NoFrame     = NoFrame
SYMMETRY Symmetry
INVARIANTS
  TypeOK
  ServedOnce
  OneWriter
  StreamFramed
PROPERTIES
  RefusedOnlyWhenFull
CHECK_DEADLOCK FALSE
