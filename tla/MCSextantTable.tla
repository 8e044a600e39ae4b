--------------------------- MODULE MCSextantTable ---------------------------
(* SextantTable for TLC: transactions and paths are interchangeable.       *)
EXTENDS SextantTable, TLC

Symmetry == Permutations(Txns) \cup Permutations(Paths)
=============================================================================
