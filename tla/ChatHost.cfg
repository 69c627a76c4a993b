SPECIFICATION Spec
CONSTRAINT HostOrUpload
CONSTANTS
  a1 = a1  a2 = a2  b1 = b1  d1 = d1  w1 = w1  A = A  B = B
  Desktop = Desktop  NoPeer = NoPeer
  Conn = {a1, d1}
  Worker = {w1}
  Peer = {A, B, Desktop}
  PeerOf <- MCPeerOf
  Watermarks <- Resuming
  PageSize = 2
  MaxCommands = 3
  MaxFaults = 1
  SystemMessages = TRUE
INVARIANTS KickCloses RecallReaches UploadHidden
CHECK_DEADLOCK FALSE
