------------------------- MODULE MCSextantLifecycle -------------------------
(* SextantLifecycle for TLC: two builds, and from elsewhere one tree with  *)
(* an identity of its own and one pre-UUID tree.                           *)
EXTENDS SextantLifecycle

CONSTANT Stray   \* the UUID of a tree built elsewhere

MCForeign == {[uuid |-> Stray, rows |-> 1], [uuid |-> NoUuid, rows |-> 2]}
=============================================================================
