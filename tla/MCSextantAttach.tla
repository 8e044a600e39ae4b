-------------------------- MODULE MCSextantAttach --------------------------
(* SextantAttach for TLC: threads race on one cold entry over a file that  *)
(* may be the entry's tree, another tree, a pre-UUID tree, an unreadable   *)
(* tree or missing.                                                        *)
EXTENDS SextantAttach
=============================================================================
