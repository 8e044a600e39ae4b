---------------------------- MODULE MCSextantTopN ----------------------------
(***************************************************************************)
(* SextantTopN for TLC, for every column type or for strings alone: every  *)
(* filter of one atom or two on a table of one row and a query that fits,  *)
(* and every query and small table with next to no filter.                 *)
(***************************************************************************)
EXTENDS SextantTopN

(* "", "1", "a", "ab", "b"; strtod reads a number off "1" alone.  Binary32 *)
(* and double cannot tell 0 and 1 apart.                                   *)
MCStrings == {<<>>, <<49>>, <<97>>, <<97, 98>>, <<98>>}
MCElements == {<<97>>, <<98>>}
MCStrToD(s) == IF s = <<49>> THEN 1 ELSE 0
MCRound(x) == IF x = 1 THEN 0 ELSE x

(* The inner products grow with the distance, so that the two metrics      *)
(* disagree on every pair of rows.                                         *)
MCScore(expr, i) == IF expr = "other" THEN MaxRows - i ELSE i

Filters(type) == {{a} : a \in Atoms(type)} \cup {{a, b} : a, b \in Atoms(type)}

Fitting == [expr |-> "array_distance", order |-> "ASC", nulls |-> "LAST", limit |-> 1, offset |-> 0]

FilterInit ==
    /\ index \in {i \in Indexes : i.metric = "l2" /\ (i.type = "set" => i.nullable)}
    /\ rows \in {<<r>> : r \in {s \in Row(index.type) : s.vector}}
    /\ filter \in Filters(index.type)
    /\ query = Fitting

QueryInit ==
    /\ index \in {i \in Indexes : i.type \in {"int", "double"}}
    /\ rows \in BoundedSeq([cell : {0, 1}, part : {"tree"}, vector : BOOLEAN], MaxRows)
    /\ filter \in {{}, {[op |-> "EQ", args |-> {1}]}}
    /\ query \in Queries

MCInit ==
    /\ FilterInit \/ QueryInit
    /\ plan = "none" /\ preds = {} /\ refilter = FALSE /\ k = 0
    /\ found = {} /\ answer = <<>>

MCSpec == MCInit /\ [][Next]_vars
=============================================================================
