SPECIFICATION FairSpec
CONSTANTS
  Files <- Samples
  BufSize = 2
  Pages = {1}
  Capacity = 3
  MaxErrConn = 2
  MaxErrRecv = 2
  MaxCalls = 3
  MaxFaults = 2
  MaxTimeouts = 0
  MaxPos = 6
INVARIANTS
  StreamExact
  BuffersOutliveUse
  NothingStarves
PROPERTIES
  DownloadEnds
