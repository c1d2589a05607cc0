SPECIFICATION LiveSpec
CONSTANTS
  Clients    = {c1, c2}
  Main       = Main
  Init1      = Init1
  NoFd       = NoFd
  Versions   <- Both
  Files      <- OneRead
  Directories <- OneDir
  Paths      <- TwoPaths
  MaxFds     = 2
  SockBuf    = 1
  BacklogMax = 2
PROPERTIES
  RepliesEnd
CHECK_DEADLOCK FALSE
