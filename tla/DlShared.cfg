SPECIFICATION Spec
CONSTANTS
  d1 = d1  d2 = d2  u1 = u1  u2 = u2  c1 = c1
  NoOne = NoOne
  Get = {d1, d2}
  Post = {}
  Command = {c1}
  Commands = {"cancel", "start"}
  Chunks = 2
  MaxJobs = 3
INVARIANTS JobSettles CancelStops
SYMMETRY Symmetry
