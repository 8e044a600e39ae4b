----------------------------- MODULE SextantTopN -----------------------------
(***************************************************************************)
(* One query  WHERE filter ORDER BY expression LIMIT limit OFFSET offset   *)
(* over a table with one index: TryRewriteTopN takes it over or leaves it  *)
(* alone; a scan that took it over finds the nearest rows its predicates   *)
(* pass, the exact filter is put back above it if they are not exact, and  *)
(* the TopN stays on top.                                                  *)
(*                                                                         *)
(* A row has a score by each expression, no two the same.  The search is   *)
(* exact here (SextantDelta has the approximate one, and the merge of      *)
(* appended rows).                                                         *)
(*                                                                         *)
(* External: DuckDB's TopN and its filters, and what plan a query becomes: *)
(* "other" is any expression or plan the rewrite does not know.            *)
(***************************************************************************)
EXTENDS SextantPredicates, FiniteSets

CONSTANTS MaxRows,          \* bound: rows of the table
          Limits, Offsets,  \* of the queries
          OverfetchFactor,  \* 4 and 64 in the code
          OverfetchExtra,
          Score(_, _)       \* what an expression of the query's vector says of a row

Expressions == {"array_distance", "array_inner_product", "other"}

ASSUME TopNAssumption ==
    /\ MaxRows \in Nat /\ Limits \subseteq Nat /\ Offsets \subseteq Nat
    /\ OverfetchFactor \in Nat \ {0} /\ OverfetchExtra \in Nat
    /\ \A e \in Expressions : \A i, j \in 1 .. MaxRows :
           Score(e, i) \in Int /\ (Score(e, i) = Score(e, j) => i = j)

VARIABLES index,    \* [type, nullable] of the filter column in its tree, and its metric
          rows,     \* <<[cell, part, vector]>>: value, in the tree or appended, not NULL
          filter,   \* pushed down on the column
          query,    \* the rest of the query
          plan,     \* none, sql (the exact path), scan, found, answered
          preds,    \* engine predicates of the scan
          refilter, \* the exact filter is put back above the scan
          k,        \* what the scan asks for; 0 unless the query was rewritten
          found,    \* what it returns
          answer

given == <<index, rows, filter, query>>
vars  == <<given, plan, preds, refilter, k, found, answer>>

Indexes == [type : Types, nullable : BOOLEAN, metric : {"l2", "ip"}]

Row(type) == [cell : Cells(type), part : {"tree", "delta"}, vector : BOOLEAN]

Queries == [expr : Expressions,
            order : {"ASC", "DESC"}, nulls : {"FIRST", "LAST"},
            limit : Limits, offset : Offsets]

TypeOK ==
    /\ index \in Indexes
    /\ \A i \in DOMAIN rows : rows[i] \in Row(index.type)
    /\ filter \subseteq Atoms(index.type)
    /\ query \in Queries
    /\ plan \in {"none", "sql", "scan", "found", "answered"}
    /\ \A p \in preds : p.op # "OTHER" /\ (p \in filter \/ p.op = "PREFIX")
    /\ refilter \in BOOLEAN
    /\ k \in Nat
    /\ found \subseteq DOMAIN rows /\ Cardinality(found) <= k
    /\ Range(answer) \subseteq DOMAIN rows /\ Len(answer) <= query.limit

Init ==
    /\ index \in Indexes
    /\ index.type = "set" => index.nullable     \* they came together
    /\ rows \in BoundedSeq(Row(index.type), MaxRows)
    /\ filter \in SUBSET Atoms(index.type)
    /\ query \in Queries
    /\ plan = "none" /\ preds = {} /\ refilter = FALSE /\ k = 0
    /\ found = {} /\ answer = <<>>

-----------------------------------------------------------------------------
(* The reference: the rows that satisfy the filter, in the query's order.  *)
Holds(i) == SqlHolds(index.type, filter, rows[i].cell)

Lower(expr, i, j) == Score(expr, i) < Score(expr, j)
Sooner(i, j) ==
    IF rows[i].vector /\ rows[j].vector
    THEN IF query.order = "ASC" THEN Lower(query.expr, i, j) ELSE Lower(query.expr, j, i)
    ELSE IF rows[i].vector = rows[j].vector THEN i < j
         ELSE rows[i].vector = (query.nulls = "LAST")

(* Of the rows S, limit ones from the offset on, each in its place.        *)
TopN(S) ==
    LET Place(i) == Cardinality({j \in S : Sooner(j, i)})
        end      == query.offset + query.limit
        size     == (IF end < Cardinality(S) THEN end ELSE Cardinality(S)) - query.offset
    IN [n \in 1 .. size |-> CHOOSE i \in S : Place(i) = query.offset + n - 1]

SqlAnswer == TopN({i \in DOMAIN rows : Holds(i)})

-----------------------------------------------------------------------------
(* TryRewriteTopN.                                                         *)
OrderMatches ==
    query.order = IF query.expr = "array_inner_product" THEN "DESC" ELSE "ASC"

PlanFitsWithOffset == query.limit # 0 /\ query.nulls = "LAST" /\ OrderMatches
PlanFits == query.limit # 0 /\ query.offset = 0 /\ query.nulls = "LAST" /\ OrderMatches

MetricFits == (index.metric = "ip") = (query.expr = "array_inner_product")
MatchesDistance == query.expr # "other"

Rewrites == PlanFits /\ MetricFits /\ Translatable(index.type, filter) /\ MatchesDistance

LeavePlan ==
    /\ plan = "none" /\ ~Rewrites
    /\ plan' = "sql"
    /\ UNCHANGED <<given, preds, refilter, k, found, answer>>

(* Without filters nothing is put back and nothing overfetched.            *)
RewriteTopN ==
    LET inexact == ~PredsExact(index.type, index.nullable) IN
    /\ plan = "none" /\ Rewrites
    /\ plan' = "scan"
    /\ preds' = Translation(index.type, filter)
    /\ refilter' = (filter # {} /\ inexact)
    /\ k' = IF preds' # {} /\ inexact THEN query.limit * OverfetchFactor + OverfetchExtra
                                      ELSE query.limit
    /\ UNCHANGED <<given, found, answer>>

-----------------------------------------------------------------------------
Passes(i) ==
    \A p \in preds :
        IF rows[i].part = "tree"
        THEN EvalTreePredicate(index.type, index.nullable, p, rows[i].cell)
        ELSE EvalDeltaPredicate(index.type, p, rows[i].cell)

(* Rows without a vector are neither in the tree nor among its candidates. *)
WithVector == {i \in DOMAIN rows : rows[i].vector}

Nearer(i, j) == IF index.metric = "ip" THEN Lower("array_inner_product", j, i)
                                       ELSE Lower("array_distance", i, j)

Scan ==
    /\ plan = "scan"
    /\ plan' = "found"
    /\ LET passing == {i \in WithVector : Passes(i)} IN
       found' = {i \in passing : Cardinality({j \in passing : Nearer(j, i)}) < k}
    /\ UNCHANGED <<given, preds, refilter, k, answer>>

AnswerQuery ==
    /\ plan \in {"sql", "found"}
    /\ plan' = "answered"
    /\ answer' = IF plan = "sql" THEN SqlAnswer
                 ELSE TopN({i \in found : refilter => Holds(i)})
    /\ UNCHANGED <<given, preds, refilter, k, found>>

Next == LeavePlan \/ RewriteTopN \/ Scan \/ AnswerQuery

Spec == Init /\ [][Next]_vars

-----------------------------------------------------------------------------
(* Where the predicates are known not to be SQL: list_has_all(NULL, []),   *)
(* more than a NULL test on strings of appended rows, and BIGINTs that     *)
(* double cannot represent.                                                *)
Rounds(c) == AsDouble(c) # c
Divergent(i) ==
    IF rows[i].cell = Null THEN \E a \in filter : Vacuous(a)
    ELSE \/ /\ index.type = "string" /\ rows[i].part = "delta"
            /\ \E a \in filter : a.op \notin {"IS_NULL", "IS_NOT_NULL"}
         \/ /\ index.type = "bigint"
            /\ \/ rows[i].part = "delta" /\ Rounds(rows[i].cell)
               \/ \E a \in filter : \E c \in a.args : Rounds(c)

(* A row that a filtered top-k returns satisfies the WHERE clause, on      *)
(* nullable and on legacy trees, in the tree and among the appended rows.  *)
NoWrongRow == \A i \in Range(answer) : Divergent(i) \/ Holds(i)

(* On a nullable tree no row that satisfies it is lost but to nearer ones, *)
(* unless the column is DOUBLE, where the engine compares binary32.        *)
NoRowLost ==
    plan = "found" /\ index.nullable /\ index.type # "double" =>
        \A i \in WithVector :
            Divergent(i) \/ ~Holds(i) \/ i \in found \/ Cardinality(found) = k

(* A query that was taken over is answered as if it had not been, if the   *)
(* predicates lose no row that satisfies the filter, what they let pass    *)
(* beyond it fits in what is overfetched for any limit, and rows without a *)
(* vector do not come into it: the checks on metric, direction, offset and NULL order suffice.*)
WrongRows == {i \in WithVector : Passes(i) /\ ~Holds(i)}

RewriteKeepsAnswer ==
    /\ plan = "answered" /\ k # 0
    /\ \A i \in WithVector : Holds(i) => Passes(i)
    /\ IF refilter THEN Cardinality(WrongRows) <= OverfetchExtra ELSE WrongRows = {}
    /\ \/ \A i \in DOMAIN rows : Holds(i) => i \in WithVector
       \/ Cardinality({i \in WithVector : Holds(i)}) >= query.limit
    => answer = SqlAnswer

(* SEXTANT.md and the comment on EvalDeltaPredicate: predicates apply to   *)
(* appended rows too, with exact SQL semantics.  The code does not keep it *)
(* for strings.                                                            *)
DeltaPredicatesExact ==
    plan = "found" =>
        \A i \in WithVector :
            rows[i].part = "delta" =>
                IF i \in found THEN Holds(i) ELSE Holds(i) => Cardinality(found) = k
=============================================================================
