SPECIFICATION Spec
CONSTANTS
  Clients    = {c1, c2}
  Main       = Main
  Init1      = Init1
  NoFd       = NoFd
  Versions   <- Both
  Files      <- TwoReads
  Directories <- OneDir
  Paths      <- AllPaths
  MaxFds     = 2
  SockBuf    = 1
  BacklogMax = 2
INVARIANTS
  FtpTypeOK
  WaitReturns
  NoLeak
  ChildAccepts
  FileInOrder
SYMMETRY Symmetry
CHECK_DEADLOCK FALSE
