SPECIFICATION FairSpec
CONSTANTS
  MaxConns = 2
  ISS = 3
  IRS = 7
  StreamLen = 3
  MaxSegment = 2
  BufSize = 2
  Chunk = 2
  PageCap = 2
  WireOut = 1
  WireIn = 2
INVARIANTS ReceivedIsPrefix PeerAgrees
PROPERTIES RequestArrives
