SPECIFICATION FairSpec
CONSTANTS
  Callers    <- AllCallers
  Captures   <- SomeCaptures
  NumPackets <- Counts
  line_width = 2
INVARIANTS
  AnalysisTypeOK
  PayloadCovered
  WordsCaught
  CountsExact
  SharesAreShares
PROPERTIES
  AnalysisEnds
CHECK_DEADLOCK FALSE
