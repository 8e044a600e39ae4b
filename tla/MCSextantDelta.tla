--------------------------- MODULE MCSextantDelta ---------------------------
(* SextantDelta for TLC: batches of two rows, so that a window of one row, *)
(* of a full batch and of more than a batch all occur.                     *)
EXTENDS SextantDelta
=============================================================================
