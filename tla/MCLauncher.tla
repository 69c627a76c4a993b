----------------------------- MODULE MCLauncher -----------------------------
EXTENDS Launcher, TLC

CONSTANTS l1, a1, a2, a3

One == {l1}
Three == {a1, a2, a3}
Foreign == {1}
Usual == {"spawn", "disk"}
Alike == Permutations(Agents)
=============================================================================
