----------------------------- MODULE MCThrottle -----------------------------
EXTENDS Throttle, TLC

CONSTANTS s1, s2, s3, f

Three == {s1, s2, s3}
File == {f}
Rates == {1, 7, 25}
Alike == Permutations(Streams)
=============================================================================
