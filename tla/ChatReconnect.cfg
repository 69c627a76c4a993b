SPECIFICATION FairSpec
CONSTANTS
  a1 = a1  a2 = a2  b1 = b1  d1 = d1  w1 = w1  A = A  B = B
  Desktop = Desktop  NoPeer = NoPeer
  Conn = {a1, a2}
  Worker = {}
  Peer = {A, B, Desktop}
  PeerOf <- MCPeerOf
  Watermarks <- Resuming
  PageSize = 1
  MaxCommands = 1
  MaxFaults = 1
  SystemMessages = FALSE
INVARIANTS SinglePeerConnection ReplayMeetsLive
PROPERTIES RoomSpec DeadLeaves BroadcastReturns
