SPECIFICATION ThrottleSpec
CONSTANTS
  s1 = s1
  s2 = s2
  s3 = s3
  f = f
  Streams <- Three
  Files <- File
  Floor = 1
  DegradedCap = 3
  PaidCap = 20
  MinCapacity = 10
  globalLimit = 10
  Measures <- Rates
SYMMETRY Alike
INVARIANTS DegradedCapped SharedFairly
