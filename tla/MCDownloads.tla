---------------------------- MODULE MCDownloads ----------------------------
(* Instances of Downloads for TLC. *)
EXTENDS Downloads, TLC
CONSTANTS d1, d2, u1, u2, c1

(* The two requests may trade places. *)
Symmetry == Permutations(Get)
=============================================================================
