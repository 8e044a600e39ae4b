-------------------------- MODULE SextantPredicates --------------------------
(***************************************************************************)
(* What a WHERE clause on a filter column becomes when the rewrite takes   *)
(* the query over, and what is then evaluated.  A filter is a set of       *)
(* conjoined atoms; the engine evaluates its predicates on rows of the     *)
(* tree, EvalDeltaPredicate on appended ones, SQL on both (the reference). *)
(* SextantTopN runs queries with them.                                     *)
(*                                                                         *)
(* Strings are sequences of bytes, numbers stand in their order for the    *)
(* values of all numeric types, lists are sets of strings.                 *)
(*                                                                         *)
(* External: DuckDB's filter pushdown, and the engine's evaluation of a    *)
(* predicate on the value the tree stores.                                 *)
(***************************************************************************)
EXTENDS Integers, SequencesExt

CONSTANTS Types,       \* column types looked at
          Null,
          Numbers,     \* values, and constants of filters
          Strings,
          Elements,    \* of lists
          AsFloat(_),  \* a number rounded to binary32, as trees store DOUBLE
          AsDouble(_), \* a BIGINT that goes through double
          StrToD(_)    \* what strtod reads off a string

AllTypes == {"int", "bigint", "double", "bool", "string", "set"}

Scalars(type) == CASE type = "string" -> Strings
                   [] type = "bool" -> {0, 1}
                   [] type \in {"int", "bigint", "double"} -> Numbers
                   [] type = "set" -> SUBSET Elements
Cells(type) == Scalars(type) \cup {Null}

(* VARCHAR is UTF-8, in which no byte is 255.                              *)
ASSUME PredicateAssumption ==
    /\ Types \subseteq AllTypes
    /\ Numbers \subseteq Int /\ \A x \in Numbers : AsFloat(x) \in Int /\ AsDouble(x) \in Int
    /\ Strings \subseteq Seq(0 .. 254) /\ \A s \in Strings : StrToD(s) \in Int
    /\ Null \notin Int /\ Null \notin Strings \cup {<<>>} /\ \A l \in SUBSET Elements : Null # l

Compared == {"EQ", "NEQ", "LT", "LE", "GT", "GE"}
SetOps   == {"CONTAINS", "CONTAINS_ANY", "CONTAINS_ALL"}

(* The atoms DuckDB pushes down on a column: an operator and constants.    *)
Atoms(type) ==
    {[op |-> o, args |-> {}] : o \in {"IS_NULL", "IS_NOT_NULL", "OTHER"}} \cup
    IF type = "set"
    THEN {[op |-> "CONTAINS", args |-> {s}] : s \in Elements} \cup
         {[op |-> o, args |-> l] : o \in {"CONTAINS_ANY", "CONTAINS_ALL"}, l \in SUBSET Elements}
    ELSE {[op |-> o, args |-> {c}] : o \in Compared, c \in Scalars(type)} \cup
         {[op |-> o, args |-> l] : o \in {"IN", "NOT_IN"}, l \in SUBSET Scalars(type) \ {{}}}

-----------------------------------------------------------------------------
(* The one constant of a comparison, a prefix or a membership test.        *)
Only(args) == CHOOSE c \in args : TRUE
Arg(p) == Only(p.args)

(* Strings are ordered by their bytes, and before what they are a prefix of.*)
Less(s, t) ==
    \/ IsStrictPrefix(s, t)
    \/ \E n \in DOMAIN s \cap DOMAIN t :
           /\ s[n] < t[n]
           /\ \A i \in 1 .. n - 1 : s[i] = t[i]

Precedes(type, x, y) == IF type = "string" THEN Less(x, y) ELSE x < y

Compare(type, op, x, y) ==
    CASE op = "EQ" -> x = y [] op = "NEQ" -> x # y
      [] op = "LT" -> Precedes(type, x, y) [] op = "LE" -> ~Precedes(type, y, x)
      [] op = "GT" -> Precedes(type, y, x) [] op = "GE" -> ~Precedes(type, x, y)

MemberTest(op, args, list) ==
    CASE op = "CONTAINS" -> Only(args) \in list
      [] op = "CONTAINS_ANY" -> args \cap list # {}
      [] op = "CONTAINS_ALL" -> args \subseteq list

(* What an operator says of a value compared as one of the type.           *)
Evaluate(type, op, args, value) ==
    IF op = "IS_NULL" THEN value = Null
    ELSE /\ value # Null
         /\ CASE op = "IS_NOT_NULL" -> TRUE
              [] op \in SetOps -> MemberTest(op, args, value)
              [] op \in Compared -> Compare(type, op, value, Only(args))
              [] op = "IN" -> value \in args
              [] op = "NOT_IN" -> value \notin args

(* The reference: SQL, where a comparison with NULL holds of no row.       *)
SqlHolds(type, filter, cell) ==
    \A a \in filter : a.op # "OTHER" => Evaluate(type, a.op, a.args, cell)

-----------------------------------------------------------------------------
(* TryTranslateOneFilter: which atoms have an engine predicate.            *)
AtomTranslatable(type, a) ==
    CASE a.op \in {"IS_NULL", "IS_NOT_NULL"} -> TRUE
      [] a.op = "OTHER" -> FALSE
      [] a.op \in SetOps -> a.op # "CONTAINS_ANY" \/ a.args # {}
      [] a.op \in Compared -> a.op \in {"EQ", "NEQ"} \/ type \in {"int", "bigint", "double"}
      [] a.op \in {"IN", "NOT_IN"} -> TRUE

(* list_has_all(column, []) filters nothing.                               *)
Vacuous(a) == a.op = "CONTAINS_ALL" /\ a.args = {}

(* `column LIKE 'p%'` arrives as the range from p to p with its last byte  *)
(* incremented.                                                            *)
LastByteIncremented(s) == [s EXCEPT ![Len(s)] = (@ + 1) % 256]

PrefixRange(type, filter) ==
    /\ type = "string"
    /\ \E ge, lt \in filter :
         /\ filter = {ge, lt} /\ ge.op = "GE" /\ lt.op = "LT"
         /\ Arg(ge) # <<>> /\ Arg(lt) = LastByteIncremented(Arg(ge))

TranslatableInPart(type, filter) ==
    PrefixRange(type, filter) \/ \E a \in filter : AtomTranslatable(type, a)

Translatable(type, filter) ==
    PrefixRange(type, filter) \/ \A a \in filter : AtomTranslatable(type, a)

Translation(type, filter) ==
    IF PrefixRange(type, filter)
    THEN {[op |-> "PREFIX", args |-> a.args] : a \in {b \in filter : b.op = "GE"}}
    ELSE {a \in filter : ~Vacuous(a)}

(* Predicates are exact unless the tree stores stand-ins for NULLs or      *)
(* binary32 for DOUBLE.                                                    *)
ExactIfNullable(type, nullable) == nullable
PredsExact(type, nullable) == nullable /\ type # "double"

-----------------------------------------------------------------------------
(* The engine on a row of the tree: a legacy column stores 0 or the empty  *)
(* string for NULL, a DOUBLE column binary32, and comparands of BIGINT     *)
(* columns come as doubles.                                                *)
Stored(type, nullable, cell) ==
    IF cell = Null THEN IF nullable THEN Null ELSE IF type = "string" THEN <<>> ELSE 0
    ELSE IF type = "double" THEN AsFloat(cell) ELSE cell

EngineComparand(type, c) ==
    CASE type = "double" -> AsFloat(c) [] type = "bigint" -> AsDouble(c) [] OTHER -> c

EvalTreePredicate(type, nullable, p, cell) ==
    IF p.op = "PREFIX"
    THEN cell # Null /\ IsPrefix(Arg(p), cell)
    ELSE Evaluate(type, p.op, {EngineComparand(type, c) : c \in p.args},
                  Stored(type, nullable, cell))

(* EvalDeltaPredicate on an appended row: the column's value as a double,  *)
(* 0.0 for a string.  A comparison reads `value`, which a string predicate *)
(* leaves at 0.0, and IN parses its entries with strtod.  Its branch for   *)
(* strings is reached by PREFIX only, and lets every row pass.             *)
DeltaNumeric(type, cell) ==
    CASE type = "string" -> 0 [] type = "bigint" -> AsDouble(cell) [] OTHER -> cell
DeltaComparand(type, op, c) ==
    CASE type = "string" -> IF op \in Compared THEN 0 ELSE StrToD(c)
      [] type = "bigint" -> AsDouble(c)
      [] OTHER -> c

DeltaComparands(type, p) == {DeltaComparand(type, p.op, c) : c \in p.args}
EvaluateDelta(type, p, cell) ==
    Evaluate("double", p.op, DeltaComparands(type, p), DeltaNumeric(type, cell))

EvalDeltaNullFails(type, p, cell) ==
    cell # Null /\ (p.op = "PREFIX" \/ EvaluateDelta(type, p, cell))

EvalDeltaPredicate(type, p, cell) ==
    IF cell = Null THEN p.op = "IS_NULL"
    ELSE p.op = "PREFIX" \/ EvaluateDelta(type, p, cell)
=============================================================================
