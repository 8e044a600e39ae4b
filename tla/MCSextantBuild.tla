--------------------------- MODULE MCSextantBuild ---------------------------
(* SextantBuild for TLC: the cap is 4 in units of 2, so the users' limits  *)
(* 3 (below the cap) and 5 (above it, not a whole unit) both occur.        *)
EXTENDS SextantBuild, TLC

Symmetry == Permutations(Connections)
=============================================================================
