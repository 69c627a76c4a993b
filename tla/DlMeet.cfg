SPECIFICATION FairSpec
CONSTANTS
  d1 = d1  d2 = d2  u1 = u1  u2 = u2  c1 = c1
  NoOne = NoOne
  Get = {d1, d2}
  Post = {u1, u2}
  Command = {}
  Commands = {}
  Chunks = 1
  MaxJobs = 2
INVARIANTS OneBody RendezvousLive
PROPERTY SenderReleased
