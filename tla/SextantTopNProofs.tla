-------------------------- MODULE SextantTopNProofs --------------------------
(***************************************************************************)
(* Proofs about SextantTopN, for any table, any filter, LIMIT and OFFSET   *)
(* and any overfetch: predicates that count as exact let pass what SQL     *)
(* does, and a query that was taken over is answered as if it had not      *)
(* been.                                                                   *)
(***************************************************************************)
EXTENDS SextantTopN, SextantLemmas

-----------------------------------------------------------------------------
(* The invariant says of each variable what the steps so far made of it.   *)
Inexact == ~PredsExact(index.type, index.nullable)
Passing == {i \in WithVector : Passes(i)}
Closest == {i \in Passing : Cardinality({j \in Passing : Nearer(j, i)}) < k}
Kept    == {i \in found : refilter => Holds(i)}

GivenInv ==
    /\ index \in Indexes /\ (index.type = "set" => index.nullable)
    /\ rows \in Seq(Row(index.type)) /\ Len(rows) <= MaxRows
    /\ filter \subseteq Atoms(index.type)
    /\ query \in Queries

(* k is 0 until the query is taken over, and never after.                  *)
RewriteInv ==
    /\ plan \in {"none", "sql", "scan", "found", "answered"}
    /\ plan \in {"none", "sql"} => k = 0
    /\ plan \in {"scan", "found"} => k # 0
    /\ k = 0 => preds = {} /\ refilter = FALSE
    /\ k # 0 => /\ Rewrites
                /\ preds = Translation(index.type, filter)
                /\ refilter = (filter # {} /\ Inexact)
                /\ k = IF preds # {} /\ Inexact
                       THEN query.limit * OverfetchFactor + OverfetchExtra
                       ELSE query.limit
    /\ found = IF k # 0 /\ plan # "scan" THEN Closest ELSE {}
    /\ answer = IF plan # "answered" THEN <<>> ELSE IF k = 0 THEN SqlAnswer ELSE TopN(Kept)

TopNInv == GivenInv /\ RewriteInv

(* What is given stays as it is, and so does what depends on it alone.     *)
LEMMA GivenStays ==
    ASSUME UNCHANGED given
    PROVE  /\ GivenInv' <=> GivenInv
           /\ (Rewrites <=> Rewrites') /\ (Inexact' <=> Inexact) /\ WithVector' = WithVector
           /\ SqlAnswer' = SqlAnswer
           /\ \A S : TopN(S)' = TopN(S)
           /\ \A i : (Holds(i)' <=> Holds(i)) /\ \A j : Nearer(i, j)' <=> Nearer(i, j)
<1>1. index' = index /\ rows' = rows /\ filter' = filter /\ query' = query
    BY DEF given
<1>2. GivenInv' <=> GivenInv
    BY <1>1 DEF GivenInv
<1>3. (Rewrites <=> Rewrites') /\ (Inexact' <=> Inexact) /\ WithVector' = WithVector
    BY <1>1 DEF Rewrites, PlanFits, OrderMatches, MetricFits, MatchesDistance, Inexact, WithVector
<1>4. \A i : (Holds(i)' <=> Holds(i)) /\ \A j : Nearer(i, j)' <=> Nearer(i, j)
    BY <1>1 DEF Holds, Nearer, Lower
<1>5. \A S : TopN(S)' = TopN(S)
    BY <1>1 DEF TopN, Sooner, Lower
<1>6. SqlAnswer' = SqlAnswer
    BY <1>1 DEF SqlAnswer, TopN, Sooner, Lower, Holds
<1> QED
    BY <1>2, <1>3, <1>4, <1>5, <1>6

(* What a query asks for is at least its LIMIT.                            *)
LEMMA Overfetched ==
    ASSUME NEW n \in Nat
    PROVE  n * OverfetchFactor + OverfetchExtra \in Nat
           /\ n + OverfetchExtra <= n * OverfetchFactor + OverfetchExtra
<1>1. OverfetchFactor \in Nat \ {0} /\ OverfetchExtra \in Nat
    BY TopNAssumption
<1>2. OverfetchFactor - 1 \in Nat /\ OverfetchFactor = (OverfetchFactor - 1) + 1
    BY <1>1
<1>3. \A m \in Nat : n * m \in Nat /\ n * (m + 1) = n * m + n
    OBVIOUS
<1>4. n * (OverfetchFactor - 1) \in Nat
      /\ n * OverfetchFactor = n * (OverfetchFactor - 1) + n
    BY <1>2, <1>3
<1> QED
    BY <1>1, <1>4

(* The numbers and the filter of the query.                                *)
LEMMA GivenFacts ==
    ASSUME GivenInv
    PROVE  /\ query.limit \in Nat /\ query.offset \in Nat
           /\ MaxRows \in Nat /\ Len(rows) \in Nat /\ DOMAIN rows = 1 .. Len(rows)
           /\ \A i \in DOMAIN rows : /\ rows[i].vector \in BOOLEAN
                                     /\ rows[i].part \in {"tree", "delta"}
                                     /\ rows[i].cell \in Cells(index.type)
           /\ index.type \in AllTypes /\ index.nullable \in BOOLEAN
           /\ index.metric \in {"l2", "ip"}
           /\ query.expr \in Expressions
           /\ query.order \in {"ASC", "DESC"} /\ query.nulls \in {"FIRST", "LAST"}
<1>1. /\ query.limit \in Limits /\ query.offset \in Offsets
      /\ query.expr \in Expressions
      /\ query.order \in {"ASC", "DESC"} /\ query.nulls \in {"FIRST", "LAST"}
    BY DEF GivenInv, Queries
<1>2. query.limit \in Nat /\ query.offset \in Nat /\ MaxRows \in Nat
    BY <1>1, TopNAssumption
<1>3. index.type \in Types /\ index.nullable \in BOOLEAN /\ index.metric \in {"l2", "ip"}
    BY DEF GivenInv, Indexes
<1>4. index.type \in AllTypes
    BY <1>3, PredicateAssumption
<1>5. rows \in Seq(Row(index.type))
    BY DEF GivenInv
<1>6. Len(rows) \in Nat /\ DOMAIN rows = 1 .. Len(rows)
    BY <1>5
<1>7. ASSUME NEW i \in DOMAIN rows
      PROVE  /\ rows[i].vector \in BOOLEAN /\ rows[i].part \in {"tree", "delta"}
             /\ rows[i].cell \in Cells(index.type)
    <2>1. rows[i] \in Row(index.type)
        BY <1>5
    <2> QED
        BY <2>1 DEF Row
<1> QED
    BY <1>1, <1>2, <1>3, <1>4, <1>6, <1>7

(* The invariant holds at first.                                           *)
LEMMA TopNInit == Init => TopNInv
<1> SUFFICES ASSUME Init PROVE TopNInv
    OBVIOUS
<1>1. rows \in Seq(Row(index.type)) /\ Len(rows) <= MaxRows
    BY TopNAssumption, BoundedSeqFacts DEF Init
<1> QED
    BY <1>1 DEF Init, TopNInv, GivenInv, RewriteInv

(* Every step keeps it.                                                    *)
LEMMA TopNStep == TopNInv /\ [Next]_vars => TopNInv'
<1> SUFFICES ASSUME TopNInv, [Next]_vars PROVE TopNInv'
    OBVIOUS
<1>1. UNCHANGED given
    BY DEF Next, LeavePlan, RewriteTopN, Scan, AnswerQuery, vars
<1>2. GivenInv /\ GivenInv' /\ RewriteInv
    BY <1>1, GivenStays DEF TopNInv
<1>3. /\ Rewrites' <=> Rewrites
      /\ Inexact' <=> Inexact
      /\ WithVector' = WithVector /\ SqlAnswer' = SqlAnswer
      /\ index' = index /\ filter' = filter /\ query' = query /\ rows' = rows
    BY <1>1, GivenStays DEF given
<1>4. ASSUME preds' = preds, k' = k PROVE Closest' = Closest
    <2>1. \A i : Passes(i)' <=> Passes(i)
        BY <1>3, <1>4 DEF Passes
    <2>2. Passing' = Passing
        BY <1>3, <2>1 DEF Passing
    <2> QED
        BY <1>3, <1>4, <2>2 DEF Closest, Nearer, Lower
<1>5. CASE LeavePlan
    BY <1>2, <1>3, <1>5 DEF LeavePlan, RewriteInv, TopNInv
<1>6. CASE RewriteTopN
    <2> DEFINE more == query.limit * OverfetchFactor + OverfetchExtra
    <2>1. /\ plan = "none" /\ plan' = "scan" /\ Rewrites
          /\ preds' = Translation(index.type, filter)
          /\ refilter' = (filter # {} /\ Inexact)
          /\ k' = IF preds' # {} /\ Inexact THEN more ELSE query.limit
          /\ found' = found /\ answer' = answer
        BY <1>6 DEF RewriteTopN, Inexact
    <2>2. query.limit \in Nat /\ query.limit # 0 /\ OverfetchExtra \in Nat
        BY <1>2, <2>1, GivenFacts, TopNAssumption DEF Rewrites, PlanFits
    <2>3. more \in Nat /\ query.limit + OverfetchExtra <= more
        BY <2>2, Overfetched
    <2> HIDE DEF more
    <2>4. k' # 0
        BY <2>1, <2>2, <2>3
    <2>5. found' = {} /\ answer' = <<>>
        BY <1>2, <2>1 DEF RewriteInv
    <2>6. RewriteInv'
        BY <1>3, <2>1, <2>4, <2>5 DEF RewriteInv, more
    <2> QED
        BY <1>2, <2>6 DEF TopNInv
<1>7. CASE Scan
    <2>1. /\ plan = "scan" /\ plan' = "found" /\ found' = Closest
          /\ UNCHANGED <<preds, refilter, k, answer>>
        BY <1>7 DEF Scan, Closest, Passing
    <2> QED
        BY <1>2, <1>3, <1>4, <2>1 DEF RewriteInv, TopNInv
<1>8. CASE AnswerQuery
    <2>1. /\ plan \in {"sql", "found"} /\ plan' = "answered"
          /\ answer' = IF plan = "sql" THEN SqlAnswer ELSE TopN(Kept)
          /\ UNCHANGED <<preds, refilter, k, found>>
        BY <1>8 DEF AnswerQuery, Kept
    <2>2. Kept' = Kept
        BY <1>1, <2>1, GivenStays DEF Kept
    <2>3. TopN(Kept)' = TopN(Kept)
        BY <1>3, <2>2 DEF TopN, Sooner, Lower
    <2>4. answer' = IF k' = 0 THEN SqlAnswer' ELSE TopN(Kept)'
        BY <1>2, <1>3, <2>1, <2>3 DEF RewriteInv
    <2> QED
        BY <1>2, <1>3, <1>4, <2>1, <2>4 DEF RewriteInv, TopNInv
<1>9. CASE UNCHANGED vars
    <2>1. UNCHANGED <<plan, preds, refilter, k, found, answer>>
        BY <1>9 DEF vars
    <2>2. Kept' = Kept
        BY <1>1, <2>1, GivenStays DEF Kept
    <2>3. TopN(Kept)' = TopN(Kept)
        BY <1>3, <2>2 DEF TopN, Sooner, Lower
    <2> QED
        BY <1>2, <1>3, <1>4, <2>1, <2>3 DEF RewriteInv, TopNInv
<1> QED
    BY <1>5, <1>6, <1>7, <1>8, <1>9 DEF Next

(* So it holds of every reachable state.                                   *)
LEMMA TopNReachable == Spec => []TopNInv
BY TopNInit, TopNStep, PTL DEF Spec

-----------------------------------------------------------------------------
(* The two orders of the rows: SQL's, and the engine's.                    *)
Positions == DOMAIN rows
SoonerR   == {p \in Positions \X Positions : Sooner(p[1], p[2])}
NearerR   == {p \in Positions \X Positions : Nearer(p[1], p[2])}

(* SQL's order is total on the rows, with or without a vector.             *)
LEMMA SoonerTotal ==
    ASSUME GivenInv, NEW S \in SUBSET Positions
    PROVE  /\ IsFiniteSet(S) /\ TotalOn(SoonerR, S)
           /\ \A m \in S : {j \in S : Sooner(j, m)} = BelowIn(m, S, SoonerR)
<1>1. /\ Len(rows) \in Nat /\ Positions = 1 .. Len(rows) /\ MaxRows \in Nat
      /\ \A i \in Positions : rows[i].vector \in BOOLEAN
    BY GivenFacts DEF Positions
<1>2. IsFiniteSet(S)
    BY <1>1, PositionsSize, FS_Subset
<1>3. \A i, j \in Positions : <<i, j>> \in SoonerR <=> Sooner(i, j)
    BY DEF SoonerR
<1>4. query.expr \in Expressions /\ Positions \subseteq 1 .. MaxRows
    BY <1>1, GivenFacts DEF GivenInv
<1>5. \A i, j \in Positions : /\ i \in Nat /\ Score(query.expr, i) \in Int
                              /\ Score(query.expr, i) = Score(query.expr, j) => i = j
    BY <1>1, <1>4, TopNAssumption
<1>6. \A i \in S : ~Sooner(i, i)
    BY <1>1, <1>5 DEF Sooner, Lower
<1>7. \A i, j \in S : i # j => Sooner(i, j) \/ Sooner(j, i)
    BY <1>1, <1>5 DEF Sooner, Lower
<1>8. \A h, i, j \in S : Sooner(h, i) /\ Sooner(i, j) => Sooner(h, j)
    BY <1>1, <1>5 DEF Sooner, Lower
<1>9. TotalOn(SoonerR, S)
    BY <1>2, <1>3, <1>6, <1>7, <1>8 DEF TotalOn
<1>10. \A m \in S : {j \in S : Sooner(j, m)} = BelowIn(m, S, SoonerR)
    BY <1>3 DEF BelowIn
<1> QED
    BY <1>2, <1>9, <1>10

(* So is the engine's, by distance.                                        *)
LEMMA NearerTotal ==
    ASSUME GivenInv, NEW S \in SUBSET Positions
    PROVE  /\ IsFiniteSet(S) /\ TotalOn(NearerR, S)
           /\ \A m \in S : {j \in S : Nearer(j, m)} = BelowIn(m, S, NearerR)
<1>1. Len(rows) \in Nat /\ Positions = 1 .. Len(rows)
    BY GivenFacts DEF Positions
<1>2. IsFiniteSet(S)
    BY <1>1, PositionsSize, FS_Subset
<1>3. \A i, j \in Positions : <<i, j>> \in NearerR <=> Nearer(i, j)
    BY DEF NearerR
<1>4. \A e \in Expressions : \A i, j \in S :
          Score(e, i) \in Int /\ (Score(e, i) = Score(e, j) => i = j)
    <2>1. S \subseteq 1 .. MaxRows
        BY <1>1, GivenFacts DEF GivenInv
    <2> QED
        BY <2>1, TopNAssumption
<1>5. TotalOn(NearerR, S)
    BY <1>2, <1>3, <1>4 DEF TotalOn, Nearer, Lower, Expressions
<1>6. \A m \in S : {j \in S : Nearer(j, m)} = BelowIn(m, S, NearerR)
    BY <1>3 DEF BelowIn
<1> QED
    BY <1>2, <1>5, <1>6

(* A query that is taken over orders rows that have a vector as the engine *)
(* does: its metric and its direction are the tree's.                      *)
LEMMA OrdersAgree ==
    ASSUME GivenInv, Rewrites
    PROVE  \A S \in SUBSET WithVector : \A m \in S :
              BelowIn(m, S, SoonerR) = BelowIn(m, S, NearerR)
<1>1. \A i, j \in WithVector : Sooner(i, j) <=> Nearer(i, j)
    BY GivenFacts DEF WithVector, Sooner, Nearer, Rewrites, PlanFits, OrderMatches, MetricFits,
       MatchesDistance, Expressions
<1>2. WithVector \subseteq Positions
    BY DEF WithVector, Positions
<1>3. \A i, j \in WithVector : <<i, j>> \in SoonerR <=> <<i, j>> \in NearerR
    BY <1>1, <1>2 DEF SoonerR, NearerR
<1> QED
    BY <1>3 DEF BelowIn

(* How many rows a TopN gives of a set.                                    *)
Size(S) ==
    (IF query.offset + query.limit < Cardinality(S) THEN query.offset + query.limit
                                                    ELSE Cardinality(S)) - query.offset

(* A TopN gives rows of the set, each in its place, at most LIMIT.         *)
LEMMA TopNFacts ==
    ASSUME GivenInv, NEW S \in SUBSET Positions
    PROVE  /\ DOMAIN TopN(S) = 1 .. Size(S)
           /\ \A n \in 1 .. Size(S) : /\ TopN(S)[n] \in S
                                      /\ RankIn(TopN(S)[n], S, SoonerR) = query.offset + n - 1
                                      /\ TopN(S)[n] = CHOOSE i \in S : RankIn(i, S, SoonerR)
                                                                       = query.offset + n - 1
           /\ TopN(S) \in Seq(S) /\ Len(TopN(S)) <= query.limit
<1>1. /\ query.limit \in Nat /\ query.offset \in Nat
      /\ TotalOn(SoonerR, S) /\ Cardinality(S) \in Nat
    BY GivenFacts, SoonerTotal, FS_CardinalityType
<1>2. Size(S) \in Int /\ Size(S) <= query.limit
    BY <1>1 DEF Size
<1>3. \A i \in S : Cardinality({j \in S : Sooner(j, i)}) = RankIn(i, S, SoonerR)
    BY SoonerTotal DEF RankIn
<1>4. TopN(S) = [n \in 1 .. Size(S) |->
                    CHOOSE i \in S : Cardinality({j \in S : Sooner(j, i)}) = query.offset + n - 1]
    BY DEF TopN, Size
<1>5. ASSUME NEW n \in 1 .. Size(S)
      PROVE  /\ TopN(S)[n] \in S
             /\ RankIn(TopN(S)[n], S, SoonerR) = query.offset + n - 1
             /\ TopN(S)[n] = CHOOSE i \in S : RankIn(i, S, SoonerR) = query.offset + n - 1
    <2>1. query.offset + n - 1 \in 0 .. Cardinality(S) - 1
        BY <1>1, <1>2 DEF Size
    <2>2. \E i \in S : RankIn(i, S, SoonerR) = query.offset + n - 1
        BY <1>1, <2>1, Ranks
    <2>3. TopN(S)[n] = CHOOSE i \in S :
                          Cardinality({j \in S : Sooner(j, i)}) = query.offset + n - 1
        BY <1>4
    <2>4. (CHOOSE i \in S : Cardinality({j \in S : Sooner(j, i)}) = query.offset + n - 1)
            = CHOOSE i \in S : RankIn(i, S, SoonerR) = query.offset + n - 1
        BY <1>3
    <2> QED
        BY <2>2, <2>3, <2>4
<1>6. DOMAIN TopN(S) = 1 .. Size(S)
    BY <1>4
<1>7. TopN(S) \in Seq(S) /\ Len(TopN(S)) <= query.limit
    <2>1. TopN(S) \in [1 .. Size(S) -> S]
        BY <1>4, <1>5
    <2>2. CASE Size(S) \in Nat
        BY <1>2, <2>1, <2>2, SeqOfFunction
    <2>3. CASE Size(S) \notin Nat
        <3>1. 1 .. Size(S) = 1 .. 0
            BY <1>2, <2>3
        <3>2. TopN(S) \in [1 .. 0 -> S]
            BY <2>1, <3>1
        <3> QED
            BY <1>1, <3>2, SeqOfFunction
    <2> QED
        BY <2>2, <2>3
<1> QED
    BY <1>5, <1>6, <1>7

(* Without an OFFSET, what holds the first LIMIT rows of a set gives the   *)
(* same answer.                                                            *)
LEMMA SameTopN ==
    ASSUME GivenInv, query.offset = 0,
           NEW S \in SUBSET Positions, NEW T \in SUBSET S,
           FirstOf(query.limit, S, SoonerR) \subseteq T
    PROVE  TopN(T) = TopN(S)
<1>1. /\ query.limit \in Nat /\ T \in SUBSET Positions
      /\ TotalOn(SoonerR, S) /\ TotalOn(SoonerR, T)
      /\ Cardinality(S) \in Nat /\ Cardinality(T) \in Nat /\ Cardinality(T) <= Cardinality(S)
    BY GivenFacts, SoonerTotal, RankInPart
<1>2. /\ \A m \in T : RankIn(m, S, SoonerR) < query.limit =>
                        RankIn(m, T, SoonerR) = RankIn(m, S, SoonerR)
      /\ Cardinality(S) >= query.limit => Cardinality(T) >= query.limit
      /\ Cardinality(S) <= query.limit => T = S
    BY <1>1, FirstOnesDecide
<1>3. Size(T) = Size(S) /\ Size(S) \in Int /\ Size(S) <= query.limit
    BY <1>1, <1>2 DEF Size
<1>4. /\ DOMAIN TopN(S) = 1 .. Size(S) /\ DOMAIN TopN(T) = 1 .. Size(S)
      /\ TopN(S) \in Seq(S) /\ TopN(T) \in Seq(T)
    BY <1>1, <1>3, TopNFacts
<1>5. ASSUME NEW n \in 1 .. Size(S) PROVE TopN(T)[n] = TopN(S)[n]
    <2> DEFINE a == TopN(S)[n]
               b == TopN(T)[n]
    <2>1. a \in S /\ RankIn(a, S, SoonerR) = n - 1
        BY TopNFacts
    <2>2. b \in T /\ RankIn(b, T, SoonerR) = n - 1
        BY <1>1, <1>3, TopNFacts
    <2> HIDE DEF a, b
    <2>3. a \in T /\ RankIn(a, T, SoonerR) = n - 1
        BY <1>1, <1>2, <1>3, <2>1 DEF FirstOf
    <2>4. a = b
        BY <1>1, <2>2, <2>3, Ranks
    <2> QED
        BY <2>4 DEF a, b
<1>6. /\ TopN(S) = [n \in 1 .. Size(S) |-> TopN(S)[n]]
      /\ TopN(T) = [n \in 1 .. Size(S) |-> TopN(T)[n]]
    <2>1. \A U : \A f \in Seq(U) : f = [n \in DOMAIN f |-> f[n]]
        OBVIOUS
    <2> QED
        BY <1>4, <2>1
<1> QED
    BY <1>5, <1>6

-----------------------------------------------------------------------------
(* Predicates and the filter they stand for.                               *)

(* What DuckDB pushes down on a column.                                    *)
LEMMA AtomFacts ==
    ASSUME NEW type, NEW a \in Atoms(type)
    PROVE  /\ a.op # "PREFIX"
           /\ a.op = "CONTAINS_ALL" => type = "set"
           /\ a.op \in Compared => \E c \in Scalars(type) : a.args = {c}
<1>1. CASE a \in {[op |-> o, args |-> {}] : o \in {"IS_NULL", "IS_NOT_NULL", "OTHER"}}
    BY <1>1 DEF Compared
<1>2. CASE /\ type = "set"
           /\ a \in {[op |-> "CONTAINS", args |-> {s}] : s \in Elements} \cup
                    {[op |-> o, args |-> l] :
                        o \in {"CONTAINS_ANY", "CONTAINS_ALL"}, l \in SUBSET Elements}
    BY <1>2 DEF Compared
<1>3. CASE a \in {[op |-> o, args |-> {c}] : o \in Compared, c \in Scalars(type)}
    BY <1>3 DEF Compared
<1>4. CASE a \in {[op |-> o, args |-> l] :
                     o \in {"IN", "NOT_IN"}, l \in SUBSET Scalars(type) \ {{}}}
    BY <1>4 DEF Compared
<1> QED
    BY <1>1, <1>2, <1>3, <1>4 DEF Atoms

(* A sequence is a function on its positions.                              *)
LEMMA SeqFunction ==
    ASSUME NEW S, NEW T, S \subseteq T, NEW t \in Seq(S)
    PROVE  /\ Len(t) \in Nat /\ t \in [1 .. Len(t) -> T] /\ t \in Seq(T)
           /\ \A i \in 1 .. Len(t) : t[i] \in S
           /\ t # <<>> => Len(t) >= 1
<1>1. Len(t) \in Nat /\ t \in [1 .. Len(t) -> S] /\ (Len(t) = 0 => t = <<>>)
    OBVIOUS
<1>2. t \in [1 .. Len(t) -> T]
    BY <1>1
<1> QED
    BY <1>1, <1>2, SeqOfFunction

(* A prefix, byte by byte.                                                 *)
LEMMA PrefixBytes ==
    ASSUME NEW S, NEW s \in Seq(S), NEW t \in Seq(S)
    PROVE  IsPrefix(s, t) <=> Len(s) <= Len(t) /\ \A i \in 1 .. Len(s) : s[i] = t[i]
<1> SUFFICES ASSUME Len(s) <= Len(t)
             PROVE  SubSeq(s, 1, Len(s)) = SubSeq(t, 1, Len(s))
                      <=> \A i \in 1 .. Len(s) : s[i] = t[i]
    BY DEF IsPrefix
<1> DEFINE u == SubSeq(t, 1, Len(s))
<1>1. Len(s) \in Nat /\ Len(t) \in Nat
    OBVIOUS
<1>2. /\ u \in Seq(S) /\ Len(u) = Len(s)
      /\ \A i \in 1 .. Len(s) : u[i] = t[i]
    BY <1>1
<1>3. SubSeq(s, 1, Len(s)) = s
    BY <1>1
<1> HIDE DEF u
<1>4. s = u <=> \A i \in 1 .. Len(s) : s[i] = u[i]
    BY <1>2
<1> QED
    BY <1>2, <1>3, <1>4 DEF u

(* A byte that is not 255 is incremented without a carry.                  *)
LEMMA ByteIncrement == ASSUME NEW m \in 0 .. 254 PROVE (m + 1) % 256 = m + 1
OBVIOUS

(* The comment on the translation of LIKE: the range from p to p with its  *)
(* last byte incremented is bytewise equivalent to a prefix test, for any  *)
(* p that is not empty and does not end in byte 255.                       *)
THEOREM LikeRangeIsPrefix ==
    ASSUME NEW p \in Seq(0 .. 254), p # <<>>, NEW s \in Seq(0 .. 254)
    PROVE  ~Less(s, p) /\ Less(s, LastByteIncremented(p)) <=> IsPrefix(p, s)
<1> DEFINE n == Len(p)
           q == LastByteIncremented(p)
<1>1. /\ n \in Nat /\ n >= 1 /\ Len(s) \in Nat
      /\ p \in Seq(Int) /\ s \in Seq(Int)
      /\ \A i \in 1 .. n : p[i] \in Int
      /\ \A i \in 1 .. Len(s) : s[i] \in Int
      /\ p[n] \in 0 .. 254
    <2> DEFINE Byte == 0 .. 254
    <2>1. Byte \subseteq Int /\ p \in Seq(Byte) /\ s \in Seq(Byte)
        OBVIOUS
    <2> HIDE DEF Byte
    <2>2. /\ Len(p) \in Nat /\ Len(p) >= 1 /\ p \in Seq(Int)
          /\ \A i \in 1 .. Len(p) : p[i] \in Byte
        BY <2>1, SeqFunction
    <2>3. Len(s) \in Nat /\ s \in Seq(Int) /\ \A i \in 1 .. Len(s) : s[i] \in Byte
        BY <2>1, SeqFunction
    <2>4. Len(p) \in 1 .. Len(p)
        BY <2>2
    <2> QED
        BY <2>1, <2>2, <2>3, <2>4 DEF Byte
<1>2. (p[n] + 1) % 256 = p[n] + 1 /\ p[n] + 1 \in Int
    <2>1. \A m \in 0 .. 254 : (m + 1) % 256 = m + 1
        BY ByteIncrement
    <2>2. PICK b \in 0 .. 254 : b = p[n]
        BY <1>1
    <2>3. (b + 1) % 256 = b + 1
        BY <2>1
    <2> QED
        BY <2>2, <2>3
<1>3. /\ q \in Seq(Int) /\ Len(q) = n /\ q[n] = p[n] + 1
      /\ \A i \in 1 .. n - 1 : q[i] = p[i]
    <2>1. q = [p EXCEPT ![n] = p[n] + 1]
        BY <1>2 DEF LastByteIncremented
    <2>2. p \in [1 .. n -> Int]
        BY <1>1, SeqFunction
    <2> HIDE DEF q, n
    <2>3. /\ q \in [1 .. n -> Int] /\ q[n] = p[n] + 1
          /\ \A i \in 1 .. n - 1 : q[i] = p[i]
        BY <1>1, <1>2, <2>1, <2>2
    <2> QED
        BY <1>1, <2>3, SeqOfFunction
<1> HIDE DEF q, n
<1>5. ASSUME NEW t \in Seq(Int)
      PROVE  Less(s, t) <=>
               \/ Len(s) < Len(t) /\ \A i \in 1 .. Len(s) : s[i] = t[i]
               \/ \E m \in 1 .. Len(s) : /\ m <= Len(t) /\ s[m] < t[m]
                                         /\ \A i \in 1 .. m - 1 : s[i] = t[i]
    <2>1. IsPrefix(s, t) <=> Len(s) <= Len(t) /\ \A i \in 1 .. Len(s) : s[i] = t[i]
        BY <1>1, PrefixBytes DEF n
    <2>2. Len(s) = Len(t) /\ (\A i \in 1 .. Len(s) : s[i] = t[i]) => s = t
        <3>1. s \in [1 .. Len(s) -> Int] /\ t \in [1 .. Len(t) -> Int]
            BY <1>1, SeqFunction
        <3> QED
            BY <3>1
    <2>3. IsStrictPrefix(s, t) <=> Len(s) < Len(t) /\ \A i \in 1 .. Len(s) : s[i] = t[i]
        BY <1>1, <2>1, <2>2 DEF IsStrictPrefix
    <2>4. DOMAIN s \cap DOMAIN t = {m \in 1 .. Len(s) : m <= Len(t)}
        BY <1>1
    <2> QED
        BY <2>3, <2>4 DEF Less
<1>6. IsPrefix(p, s) <=> n <= Len(s) /\ \A i \in 1 .. n : p[i] = s[i]
    BY <1>1, PrefixBytes DEF n
<1>7. ASSUME IsPrefix(p, s) PROVE ~Less(s, p) /\ Less(s, q)
    <2>1. ~Less(s, p)
        <3>1. Less(s, p) <=>
                \/ Len(s) < n /\ \A i \in 1 .. Len(s) : s[i] = p[i]
                \/ \E m \in 1 .. Len(s) : /\ m <= n /\ s[m] < p[m]
                                          /\ \A i \in 1 .. m - 1 : s[i] = p[i]
            BY <1>1, <1>5 DEF n
        <3>2. \A m \in 1 .. Len(s) : m <= n => s[m] = p[m] /\ s[m] \in Int
            BY <1>1, <1>6, <1>7
        <3> QED
            BY <1>1, <1>6, <1>7, <3>1, <3>2
    <2>2. s[n] < q[n] /\ n \in 1 .. Len(s) /\ \A i \in 1 .. n - 1 : s[i] = q[i]
        <3>1. n \in 1 .. Len(s) /\ s[n] = p[n] /\ \A i \in 1 .. n - 1 : s[i] = p[i]
            BY <1>1, <1>6, <1>7
        <3> QED
            BY <1>1, <1>2, <1>3, <3>1
    <2> QED
        BY <1>1, <1>3, <1>5, <2>1, <2>2
<1>8. ASSUME ~Less(s, p), Less(s, q) PROVE IsPrefix(p, s)
    <2>1. CASE Len(s) < n /\ \A i \in 1 .. Len(s) : s[i] = q[i]
        <3>1. \A i \in 1 .. Len(s) : s[i] = p[i]
            BY <1>1, <1>3, <2>1
        <3> QED
            BY <1>1, <1>5, <1>8, <2>1, <3>1 DEF n
    <2>2. ASSUME NEW m \in 1 .. Len(s), m <= n, s[m] < q[m],
                 \A i \in 1 .. m - 1 : s[i] = q[i]
          PROVE  IsPrefix(p, s)
        <3>1. \A i \in 1 .. m - 1 : s[i] = p[i]
            BY <1>1, <1>3, <2>2
        <3>2. ~(s[m] < p[m])
            BY <1>1, <1>5, <1>8, <2>2, <3>1 DEF n
        <3>3. m = n
            BY <1>1, <1>3, <2>2, <3>2
        <3>4. s[n] = p[n]
            <4>1. n \in 1 .. Len(s) /\ s[n] < p[n] + 1 /\ ~(s[n] < p[n])
                BY <1>1, <1>3, <2>2, <3>2, <3>3
            <4>2. s[n] \in Int /\ p[n] \in Int
                BY <1>2, <1>1, <4>1
            <4> QED
                BY <4>1, <4>2
        <3> QED
            BY <1>1, <1>6, <3>1, <3>3, <3>4
    <2> QED
        BY <1>3, <1>5, <1>8, <2>1, <2>2
<1> QED
    BY <1>7, <1>8 DEF q

(* LIKE 'p%' arrives as one range; what it becomes is one predicate.       *)
LEMMA PrefixFacts ==
    ASSUME GivenInv, PrefixRange(index.type, filter)
    PROVE  /\ index.type = "string"
           /\ \E p \in Strings : \E ge, lt \in filter :
                 /\ p # <<>> /\ p \in Seq(0 .. 254)
                 /\ filter = {ge, lt} /\ ge.op = "GE" /\ ge.args = {p}
                 /\ lt.op = "LT" /\ lt.args = {LastByteIncremented(p)}
                 /\ Translation(index.type, filter) = {[op |-> "PREFIX", args |-> {p}]}
<1>1. PICK ge \in filter, lt \in filter :
        /\ filter = {ge, lt} /\ ge.op = "GE" /\ lt.op = "LT"
        /\ Arg(ge) # <<>> /\ Arg(lt) = LastByteIncremented(Arg(ge))
    BY DEF PrefixRange
<1>2. index.type = "string" /\ filter \subseteq Atoms("string")
    BY DEF PrefixRange, GivenInv
<1>3. PICK c \in Strings, d \in Strings : ge.args = {c} /\ lt.args = {d}
    <2>1. "GE" \in Compared /\ "LT" \in Compared /\ Scalars("string") = Strings
        BY DEF Compared, Scalars
    <2> QED
        BY <1>1, <1>2, <2>1, AtomFacts
<1>4. Arg(ge) = c /\ Arg(lt) = d
    BY <1>3 DEF Arg, Only
<1>5. c # <<>> /\ c \in Seq(0 .. 254) /\ d = LastByteIncremented(c)
    BY <1>1, <1>4, PredicateAssumption
<1>6. {b \in filter : b.op = "GE"} = {ge}
    BY <1>1
<1>7. Translation(index.type, filter) = {[op |-> "PREFIX", args |-> a.args] : a \in {ge}}
    BY <1>6 DEF Translation
<1>8. Translation(index.type, filter) = {[op |-> "PREFIX", args |-> {c}]}
    BY <1>3, <1>7
<1> QED
    BY <1>1, <1>2, <1>3, <1>5, <1>8

(* An operator the engine does not have is never translated.               *)
LEMMA TranslatableAtoms ==
    \A type, a : AtomTranslatable(type, a) => a.op # "OTHER"
<1> SUFFICES ASSUME NEW type, NEW a, AtomTranslatable(type, a), a.op = "OTHER" PROVE FALSE
    OBVIOUS
<1>1. a.op \notin SetOps /\ a.op \notin Compared
    BY DEF SetOps, Compared
<1> QED
    BY <1>1 DEF AtomTranslatable

(* The predicate of LIKE 'p%' lets pass what the range does.               *)
LEMMA PrefixExact ==
    ASSUME GivenInv, preds = Translation(index.type, filter), index.nullable,
           PrefixRange(index.type, filter), NEW i \in DOMAIN rows, ~Divergent(i)
    PROVE  Passes(i) <=> Holds(i)
<1> DEFINE type == index.type
           cell == rows[i].cell
<1>1. PICK s \in Strings : \E ge, lt \in filter :
        /\ s # <<>> /\ s \in Seq(0 .. 254)
        /\ filter = {ge, lt} /\ ge.op = "GE" /\ ge.args = {s}
        /\ lt.op = "LT" /\ lt.args = {LastByteIncremented(s)}
        /\ Translation(type, filter) = {[op |-> "PREFIX", args |-> {s}]}
    BY PrefixFacts
<1> DEFINE t == LastByteIncremented(s)
           p == [op |-> "PREFIX", args |-> {s}]
<1>2. PICK ge \in filter, lt \in filter :
        /\ filter = {ge, lt} /\ ge.op = "GE" /\ ge.args = {s}
        /\ lt.op = "LT" /\ lt.args = {t}
    BY <1>1
<1>3. /\ type = "string" /\ preds = {p} /\ s # <<>> /\ s \in Seq(0 .. 254)
      /\ cell \in Strings \cup {Null} /\ rows[i].part \in {"tree", "delta"}
    BY <1>1, PrefixFacts, GivenFacts DEF Cells, Scalars
<1>4. p.op = "PREFIX" /\ Arg(p) = s
    BY DEF Arg, Only
<1> HIDE DEF p, t
<1>5. Holds(i) <=> Evaluate("string", "GE", {s}, cell) /\ Evaluate("string", "LT", {t}, cell)
    BY <1>2, <1>3 DEF Holds, SqlHolds
<1>6. Passes(i) <=> IF rows[i].part = "tree"
                    THEN EvalTreePredicate("string", index.nullable, p, cell)
                    ELSE EvalDeltaPredicate("string", p, cell)
    BY <1>3 DEF Passes
<1>7. CASE cell = Null
    BY <1>4, <1>5, <1>6, <1>7 DEF EvalTreePredicate, EvalDeltaPredicate, Evaluate
<1>8. CASE cell # Null
    <2>1. rows[i].part = "tree" /\ cell \in Seq(0 .. 254)
        BY <1>2, <1>3, <1>8, PredicateAssumption DEF Divergent
    <2>2. Passes(i) <=> IsPrefix(s, cell)
        BY <1>4, <1>6, <1>8, <2>1 DEF EvalTreePredicate
    <2>3. Only({s}) = s /\ Only({t}) = t
        BY DEF Only
    <2>4. Evaluate("string", "GE", {s}, cell) <=> ~Less(cell, s)
        BY <1>8, <2>3 DEF Evaluate, Compare, Precedes, Compared, SetOps
    <2>5. Evaluate("string", "LT", {t}, cell) <=> Less(cell, t)
        BY <1>8, <2>3 DEF Evaluate, Compare, Precedes, Compared, SetOps
    <2> QED
        BY <1>3, <1>5, <2>1, <2>2, <2>4, <2>5, LikeRangeIsPrefix DEF t
<1> QED
    BY <1>7, <1>8

(* On a nullable tree that does not round, the predicate of an atom says   *)
(* of a row of the tree what SQL says.                                     *)
LEMMA TreeAtomExact ==
    ASSUME NEW type \in AllTypes \ {"double"}, NEW a, a.op # "PREFIX", NEW cell,
           type = "bigint" /\ cell # Null => \A c \in a.args : AsDouble(c) = c,
           a.op # "OTHER"
    PROVE  EvalTreePredicate(type, TRUE, a, cell) <=> Evaluate(type, a.op, a.args, cell)
<1> DEFINE args == {EngineComparand(type, c) : c \in a.args}
<1>1. Stored(type, TRUE, cell) = cell
    BY DEF Stored
<1>2. EvalTreePredicate(type, TRUE, a, cell) <=> Evaluate(type, a.op, args, cell)
    BY <1>1 DEF EvalTreePredicate
<1>3. CASE cell = Null
    BY <1>2, <1>3 DEF Evaluate
<1>4. CASE cell # Null
    <2>1. \A c \in a.args : EngineComparand(type, c) = c
        BY <1>4 DEF EngineComparand
    <2>2. args = a.args
        BY <2>1
    <2> QED
        BY <1>2, <2>2
<1> QED
    BY <1>3, <1>4

(* And EvalDeltaPredicate of an appended one, but for strings.             *)
LEMMA DeltaAtomExact ==
    ASSUME NEW type \in AllTypes, NEW a, a.op # "PREFIX", a.op # "OTHER", NEW cell,
           type = "bigint" /\ cell # Null => \A c \in a.args \cup {cell} : AsDouble(c) = c,
           type = "string" /\ cell # Null => a.op \in {"IS_NULL", "IS_NOT_NULL"}
    PROVE  EvalDeltaPredicate(type, a, cell) <=> Evaluate(type, a.op, a.args, cell)
<1>1. CASE cell = Null
    BY <1>1 DEF EvalDeltaPredicate, Evaluate
<1>2. CASE cell # Null /\ type # "string"
    <2>1. \A c \in a.args : DeltaComparand(type, a.op, c) = c
        BY <1>2 DEF DeltaComparand
    <2>2. DeltaComparands(type, a) = a.args
        BY <2>1 DEF DeltaComparands
    <2>3. DeltaNumeric(type, cell) = cell
        BY <1>2 DEF DeltaNumeric
    <2>4. Evaluate("double", a.op, a.args, cell) <=> Evaluate(type, a.op, a.args, cell)
        BY <1>2 DEF Evaluate, Compare, Precedes
    <2> QED
        BY <1>2, <2>2, <2>3, <2>4 DEF EvalDeltaPredicate, EvaluateDelta
<1>3. CASE cell # Null /\ type = "string"
    <2>1. Null # 0 /\ DeltaNumeric(type, cell) = 0
        BY <1>3, PredicateAssumption DEF DeltaNumeric
    <2>2. /\ Evaluate("double", a.op, DeltaComparands(type, a), 0) <=> a.op = "IS_NOT_NULL"
          /\ Evaluate(type, a.op, a.args, cell) <=> a.op = "IS_NOT_NULL"
        BY <1>3, <2>1 DEF Evaluate, SetOps, Compared
    <2> QED
        BY <1>3, <2>1, <2>2 DEF EvalDeltaPredicate, EvaluateDelta
<1> QED
    BY <1>1, <1>2, <1>3

(* Predicates that count as exact let pass what SQL does, row by row.      *)
LEMMA PredicatesExact ==
    ASSUME GivenInv, Rewrites, preds = Translation(index.type, filter), ~Inexact,
           NEW i \in DOMAIN rows, ~Divergent(i)
    PROVE  Passes(i) <=> Holds(i)
<1> DEFINE type == index.type
           cell == rows[i].cell
<1>1. /\ index.nullable = TRUE /\ type \in AllTypes \ {"double"}
      /\ cell \in Cells(type) /\ rows[i].part \in {"tree", "delta"}
      /\ filter \subseteq Atoms(type)
    BY GivenFacts DEF Inexact, PredsExact, GivenInv
<1>2. CASE PrefixRange(type, filter)
    BY <1>1, <1>2, PrefixExact
<1>3. CASE ~PrefixRange(type, filter)
    <2>1. preds = {a \in filter : ~Vacuous(a)}
        BY <1>3 DEF Translation
    <2>2. ASSUME NEW a \in filter
          PROVE  /\ a.op # "PREFIX" /\ a.op # "OTHER"
                 /\ EvalTreePredicate(type, TRUE, a, cell) <=> Evaluate(type, a.op, a.args, cell)
                 /\ rows[i].part = "delta" =>
                      (EvalDeltaPredicate(type, a, cell) <=> Evaluate(type, a.op, a.args, cell))
        <3>1. a.op # "PREFIX" /\ a.op # "OTHER"
            BY <1>1, <1>3, AtomFacts, TranslatableAtoms DEF Rewrites, Translatable
        <3>2. type = "bigint" /\ cell # Null =>
                /\ \A c \in a.args : AsDouble(c) = c
                /\ rows[i].part = "delta" => AsDouble(cell) = cell
            BY DEF Divergent, Rounds
        <3>3. type = "string" /\ rows[i].part = "delta" /\ cell # Null =>
                a.op \in {"IS_NULL", "IS_NOT_NULL"}
            BY DEF Divergent
        <3> QED
            BY <1>1, <3>1, <3>2, <3>3, TreeAtomExact, DeltaAtomExact
    <2>3. ASSUME NEW a \in filter, Vacuous(a) PROVE Evaluate(type, a.op, a.args, cell)
        <3>1. a.op = "CONTAINS_ALL" /\ a.args = {} /\ cell # Null
            BY <2>3 DEF Vacuous, Divergent
        <3> QED
            BY <3>1 DEF Evaluate, MemberTest, SetOps, Compared
    <2>4. Holds(i) <=> \A a \in filter : Evaluate(type, a.op, a.args, cell)
        BY <2>2 DEF Holds, SqlHolds
    <2>5. Passes(i) <=> \A a \in preds :
                          IF rows[i].part = "tree"
                          THEN EvalTreePredicate(type, index.nullable, a, cell)
                          ELSE EvalDeltaPredicate(type, a, cell)
        BY DEF Passes
    <2> QED
        BY <1>1, <2>1, <2>2, <2>3, <2>4, <2>5
<1> QED
    BY <1>2, <1>3

(* A filter that is put back above the scan has left it predicates.        *)
LEMMA PutBackFilters ==
    ASSUME GivenInv, Rewrites, filter # {}, Inexact
    PROVE  Translation(index.type, filter) # {}
<1>1. CASE PrefixRange(index.type, filter)
    BY <1>1, PrefixFacts
<1>2. CASE ~PrefixRange(index.type, filter)
    <2>1. PICK a \in filter : TRUE
        OBVIOUS
    <2>2. index.type # "set" /\ a \in Atoms(index.type)
        BY DEF GivenInv, Inexact, PredsExact
    <2>3. ~Vacuous(a)
        BY <2>2, AtomFacts DEF Vacuous
    <2> QED
        BY <1>2, <2>3 DEF Translation
<1> QED
    BY <1>1, <1>2

-----------------------------------------------------------------------------
(* Types.                                                                  *)

(* What a query asks for is a number.                                      *)
LEMMA AskedFor ==
    ASSUME TopNInv
    PROVE  k \in Nat /\ refilter \in BOOLEAN
<1>1. query.limit \in Nat
    BY GivenFacts DEF TopNInv
<1>2. query.limit * OverfetchFactor + OverfetchExtra \in Nat
    BY <1>1, Overfetched
<1>3. k = 0 \/ k = query.limit \/ k = query.limit * OverfetchFactor + OverfetchExtra
    BY DEF TopNInv, RewriteInv
<1>4. refilter \in BOOLEAN
    BY DEF TopNInv, RewriteInv
<1> QED
    BY <1>1, <1>2, <1>3, <1>4

(* A scan returns the k nearest rows that pass, or all of them.            *)
LEMMA ClosestFacts ==
    ASSUME TopNInv
    PROVE  /\ Passing \in SUBSET Positions /\ Closest = FirstOf(k, Passing, NearerR)
           /\ Closest \subseteq Passing
           /\ Cardinality(Closest) \in Nat /\ Cardinality(Closest) <= k
           /\ Cardinality(Passing) \in Nat
           /\ Cardinality(Passing) >= k => Cardinality(Closest) = k
           /\ Cardinality(Passing) <= k => Closest = Passing
<1>1. k \in Nat /\ GivenInv
    BY AskedFor DEF TopNInv
<1>2. Passing \in SUBSET Positions
    BY DEF Passing, WithVector, Positions
<1>3. TotalOn(NearerR, Passing) /\ IsFiniteSet(Passing)
    BY <1>1, <1>2, NearerTotal
<1>4. \A m \in Passing : {j \in Passing : Nearer(j, m)} = BelowIn(m, Passing, NearerR)
    BY <1>1, <1>2, NearerTotal
<1>5. Closest = FirstOf(k, Passing, NearerR)
    BY <1>4 DEF Closest, FirstOf, RankIn
<1> QED
    BY <1>1, <1>2, <1>3, <1>5, FirstSize, FS_CardinalityType

(* A TopN answers with rows of its input.                                  *)
LEMMA AnswerRows ==
    ASSUME GivenInv, NEW S \in SUBSET Positions
    PROVE  Range(TopN(S)) \subseteq S
BY TopNFacts DEF Range

(* The sets of rows that are answered from.                                *)
LEMMA AnswerSets ==
    ASSUME TopNInv
    PROVE  /\ Kept \in SUBSET Positions /\ {i \in DOMAIN rows : Holds(i)} \in SUBSET Positions
           /\ found \in SUBSET Positions /\ Kept \subseteq found
           /\ answer = <<>> \/ answer = TopN({i \in DOMAIN rows : Holds(i)})
              \/ (k # 0 /\ found = Closest /\ answer = TopN(Kept))
<1>1. found = {} \/ (k # 0 /\ found = Closest)
    BY DEF TopNInv, RewriteInv
<1>2. found \in SUBSET Positions /\ Kept \subseteq found
    BY <1>1, ClosestFacts DEF Kept
<1>3. /\ plan \in {"none", "sql"} => k = 0
      /\ answer = IF plan # "answered" THEN <<>> ELSE IF k = 0 THEN SqlAnswer ELSE TopN(Kept)
      /\ found = IF k # 0 /\ plan # "scan" THEN Closest ELSE {}
    BY DEF TopNInv, RewriteInv
<1>4. SqlAnswer = TopN({i \in DOMAIN rows : Holds(i)})
    BY DEF SqlAnswer
<1> QED
    BY <1>2, <1>3, <1>4 DEF Positions

(* The predicates of a scan are its filter's, or the one of LIKE 'p%'.     *)
LEMMA ScanPredicates ==
    ASSUME TopNInv, NEW p \in preds
    PROVE  p.op # "OTHER" /\ (p \in filter \/ p.op = "PREFIX")
<1>1. GivenInv /\ Rewrites /\ preds = Translation(index.type, filter)
    BY DEF TopNInv, RewriteInv
<1>2. CASE PrefixRange(index.type, filter)
    BY <1>1, <1>2, PrefixFacts
<1>3. CASE ~PrefixRange(index.type, filter)
    BY <1>1, <1>3, TranslatableAtoms DEF Rewrites, Translatable, Translation
<1> QED
    BY <1>2, <1>3

(* A scan's predicates are ones the engine has, it finds no more rows than *)
(* it asks for, and no query is answered with more than its LIMIT.         *)
LEMMA TopNTypes == TopNInv => TypeOK
<1> SUFFICES ASSUME TopNInv PROVE TypeOK
    OBVIOUS
<1>1. /\ index \in Indexes /\ filter \subseteq Atoms(index.type) /\ query \in Queries
      /\ plan \in {"none", "sql", "scan", "found", "answered"}
    BY DEF TopNInv, GivenInv, RewriteInv
<1>2. \A i \in DOMAIN rows : rows[i] \in Row(index.type)
    BY DEF TopNInv, GivenInv
<1>3. found \subseteq DOMAIN rows /\ Cardinality(found) <= k
    <2>1. found = Closest \/ found = {}
        BY DEF TopNInv, RewriteInv
    <2>2. Cardinality({}) = 0 /\ k \in Nat
        BY FS_EmptySet, AskedFor
    <2> QED
        BY <2>1, <2>2, ClosestFacts DEF Positions
<1>4. Range(answer) \subseteq DOMAIN rows /\ Len(answer) <= query.limit
    <2>1. CASE answer = <<>>
        BY <2>1, GivenFacts DEF Range, TopNInv
    <2>2. ASSUME NEW S \in SUBSET Positions, answer = TopN(S)
          PROVE  Range(answer) \subseteq DOMAIN rows /\ Len(answer) <= query.limit
        BY <2>2, AnswerRows, TopNFacts DEF TopNInv, Positions
    <2> QED
        BY <2>1, <2>2, AnswerSets
<1> QED
    BY <1>1, <1>2, <1>3, <1>4, AskedFor, ScanPredicates DEF TypeOK

(* TypeOK of SextantTopN: predicates the engine has, no more rows found    *)
(* than asked for, no more answered than the LIMIT.                        *)
THEOREM TopNTypeCorrect == Spec => []TypeOK
BY TopNReachable, TopNTypes, PTL

-----------------------------------------------------------------------------
(* Filters.                                                                *)

(* Whatever is kept of what a scan found satisfies the filter.             *)
LEMMA KeptHold ==
    ASSUME TopNInv, k # 0, found = Closest, NEW i \in Kept
    PROVE  Divergent(i) \/ Holds(i)
<1>1. /\ GivenInv /\ Rewrites /\ preds = Translation(index.type, filter)
      /\ refilter = (filter # {} /\ Inexact)
    BY DEF TopNInv, RewriteInv
<1>2. i \in Passing /\ i \in DOMAIN rows /\ Passes(i) /\ (refilter => Holds(i))
    BY ClosestFacts DEF Kept, Passing, WithVector
<1>3. CASE refilter
    BY <1>2, <1>3
<1>4. CASE filter = {}
    BY <1>4 DEF Holds, SqlHolds
<1>5. CASE ~Inexact
    BY <1>1, <1>2, <1>5, PredicatesExact
<1> QED
    BY <1>1, <1>3, <1>4, <1>5

(* NoWrongRow of SextantTopN: where the predicates are not known to differ *)
(* from SQL, every answered row satisfies the WHERE clause.                *)
THEOREM FilteredAnswersSatisfy == Spec => []NoWrongRow
<1>1. ASSUME TopNInv PROVE NoWrongRow
    <2> DEFINE A == {i \in DOMAIN rows : Holds(i)}
    <2> SUFFICES ASSUME NEW i \in Range(answer) PROVE Divergent(i) \/ Holds(i)
        BY DEF NoWrongRow
    <2>1. GivenInv /\ A \in SUBSET Positions /\ Kept \in SUBSET Positions
        BY <1>1, AnswerSets DEF TopNInv
    <2>2. CASE answer = <<>>
        BY <2>2 DEF Range
    <2>3. CASE answer = TopN(A)
        BY <2>1, <2>3, AnswerRows
    <2>4. CASE k # 0 /\ found = Closest /\ answer = TopN(Kept)
        BY <1>1, <2>1, <2>4, AnswerRows, KeptHold
    <2> QED
        BY <1>1, <2>2, <2>3, <2>4, AnswerSets
<1> QED
    BY <1>1, TopNReachable, PTL

(* On a nullable tree that does not round, the predicates let pass what    *)
(* satisfies the filter.                                                   *)
LEMMA HoldingPass ==
    ASSUME TopNInv, k # 0, index.nullable, index.type # "double",
           NEW i \in WithVector, ~Divergent(i), Holds(i)
    PROVE  i \in Passing
<1>1. /\ GivenInv /\ Rewrites /\ preds = Translation(index.type, filter)
      /\ ~Inexact /\ i \in DOMAIN rows
    BY DEF TopNInv, RewriteInv, Inexact, PredsExact, WithVector
<1> QED
    BY <1>1, PredicatesExact DEF Passing

(* NoRowLost of SextantTopN: such a tree's scan leaves out a row that      *)
(* satisfies the filter only when it has found as many rows as it asked for. *)
THEOREM NearRowsSurvive == Spec => []NoRowLost
<1>1. ASSUME TopNInv PROVE NoRowLost
    <2> SUFFICES ASSUME plan = "found", index.nullable, index.type # "double",
                        NEW i \in WithVector, ~Divergent(i), Holds(i), i \notin found
                 PROVE  Cardinality(found) = k
        BY DEF NoRowLost
    <2>1. k # 0 /\ found = Closest
        BY <1>1 DEF TopNInv, RewriteInv
    <2>2. i \in Passing /\ i \notin Closest
        BY <1>1, <2>1, HoldingPass
    <2>3. k \in Nat /\ ~(Cardinality(Passing) <= k)
        BY <1>1, <2>2, AskedFor, ClosestFacts
    <2> QED
        BY <1>1, <2>1, <2>3, ClosestFacts
<1> QED
    BY <1>1, TopNReachable, PTL

-----------------------------------------------------------------------------
(* The answer.                                                             *)
Holding  == {i \in Positions : Holds(i)}
Findable == {i \in WithVector : Holds(i)}

(* What the scan asks for leaves room for the wrong rows it is sized for.  *)
LEMMA RoomForWrongRows ==
    ASSUME TopNInv, k # 0
    PROVE  /\ k \in Nat /\ query.limit \in Nat /\ OverfetchExtra \in Nat
           /\ query.limit <= k
           /\ refilter => query.limit + OverfetchExtra <= k
<1> DEFINE more == query.limit * OverfetchFactor + OverfetchExtra
<1>1. /\ GivenInv /\ Rewrites /\ preds = Translation(index.type, filter)
      /\ refilter = (filter # {} /\ Inexact)
      /\ k = IF preds # {} /\ Inexact THEN more ELSE query.limit
    BY DEF TopNInv, RewriteInv
<1>2. query.limit \in Nat /\ OverfetchExtra \in Nat
    BY <1>1, GivenFacts, TopNAssumption
<1>3. more \in Nat /\ query.limit + OverfetchExtra <= more
    BY <1>2, Overfetched
<1> HIDE DEF more
<1>4. refilter => k = more
    BY <1>1, PutBackFilters
<1> QED
    BY <1>1, <1>2, <1>3, <1>4

(* The first LIMIT rows that satisfy the filter are found, if the wrong    *)
(* rows among them are as many as there is room for.                       *)
LEMMA FirstRowsFound ==
    ASSUME TopNInv, k # 0, found = Closest,
           \A i \in WithVector : Holds(i) => Passes(i),
           IF refilter THEN Cardinality(WrongRows) <= OverfetchExtra ELSE WrongRows = {}
    PROVE  /\ Kept \subseteq Findable
           /\ FirstOf(query.limit, Findable, NearerR) \subseteq Kept
<1>1. /\ k \in Nat /\ query.limit \in Nat /\ OverfetchExtra \in Nat
      /\ query.limit <= k /\ (refilter => query.limit + OverfetchExtra <= k)
    BY RoomForWrongRows
<1>2. Kept \subseteq Findable
    <2> SUFFICES ASSUME NEW i \in Kept PROVE i \in Findable
        OBVIOUS
    <2>1. i \in WithVector /\ Passes(i) /\ (refilter => Holds(i))
        BY ClosestFacts DEF Kept, Passing
    <2> QED
        BY <2>1 DEF Findable, WrongRows
<1>3. ASSUME NEW m \in Findable, RankIn(m, Findable, NearerR) < query.limit
      PROVE  m \in Kept
    <2> DEFINE B == BelowIn(m, Findable, NearerR)
    <2>1. m \in Passing /\ Holds(m)
        BY DEF Findable, Passing
    <2>2. IsFiniteSet(Passing) /\ WrongRows \in SUBSET Passing
        BY ClosestFacts, NearerTotal DEF WrongRows, Passing, TopNInv
    <2>3. /\ BelowIn(m, Passing, NearerR) \subseteq B \cup WrongRows
          /\ B \subseteq Passing
        BY DEF BelowIn, Passing, Findable, WrongRows
    <2> HIDE DEF B
    <2>4. IsFiniteSet(B) /\ IsFiniteSet(WrongRows) /\ IsFiniteSet(B \cap WrongRows)
        BY <2>2, <2>3, FS_Subset
    <2>5. /\ Cardinality(B) \in Nat /\ Cardinality(WrongRows) \in Nat
          /\ Cardinality(B \cap WrongRows) \in Nat
        BY <2>4, FS_CardinalityType
    <2>6. /\ IsFiniteSet(B \cup WrongRows)
          /\ Cardinality(B \cup WrongRows)
               = Cardinality(B) + Cardinality(WrongRows) - Cardinality(B \cap WrongRows)
        BY <2>4, FS_Union
    <2>7. /\ IsFiniteSet(BelowIn(m, Passing, NearerR))
          /\ Cardinality(BelowIn(m, Passing, NearerR)) <= Cardinality(B \cup WrongRows)
        BY <2>3, <2>6, FS_Subset
    <2>8. /\ RankIn(m, Passing, NearerR) \in Nat
          /\ RankIn(m, Passing, NearerR) <= Cardinality(B) + Cardinality(WrongRows)
        BY <2>5, <2>6, <2>7, FS_CardinalityType DEF RankIn
    <2>9. Cardinality(B) < query.limit
        BY <1>3 DEF RankIn, B
    <2>10. Cardinality(B) + Cardinality(WrongRows) < k
        <3>1. CASE refilter
            BY <1>1, <2>5, <2>9, <3>1
        <3>2. CASE ~refilter
            BY <1>1, <2>5, <2>9, <3>2, FS_EmptySet
        <3> QED
            BY <3>1, <3>2
    <2>11. RankIn(m, Passing, NearerR) < k
        BY <1>1, <2>5, <2>8, <2>10
    <2> QED
        BY <2>1, <2>11, ClosestFacts DEF FirstOf, Kept
<1> QED
    BY <1>2, <1>3 DEF FirstOf

(* Rows without a vector come last: with LIMIT rows that have one, the     *)
(* answer is not theirs.                                                   *)
LEMMA VectorsComeFirst ==
    ASSUME GivenInv, query.offset = 0, query.nulls = "LAST",
           \/ \A i \in DOMAIN rows : Holds(i) => i \in WithVector
           \/ Cardinality(Findable) >= query.limit
    PROVE  TopN(Findable) = TopN(Holding)
<1>1. /\ Findable \in SUBSET Holding /\ Holding \in SUBSET Positions
      /\ query.limit \in Nat
    BY GivenFacts DEF Findable, Holding, WithVector, Positions
<1>2. CASE \A i \in DOMAIN rows : Holds(i) => i \in WithVector
    <2>1. Findable = Holding
        BY <1>1, <1>2 DEF Findable, Holding, Positions
    <2> QED
        BY <2>1
<1>3. CASE Cardinality(Findable) >= query.limit
    <2>1. ASSUME NEW m \in Holding, RankIn(m, Holding, SoonerR) < query.limit
          PROVE  m \in Findable
        <3>1. SUFFICES ASSUME m \notin Findable PROVE FALSE
            OBVIOUS
        <3>2. rows[m].vector = FALSE
            BY <1>1, <3>1, GivenFacts DEF Findable, Holding, WithVector, Positions
        <3>3. \A h \in Findable : h \in Positions /\ rows[h].vector = TRUE
            BY GivenFacts DEF Findable, WithVector, Positions
        <3>4. \A h \in Findable : Sooner(h, m)
            BY <3>2, <3>3 DEF Sooner
        <3>5. Findable \subseteq BelowIn(m, Holding, SoonerR)
            BY <1>1, <3>4 DEF BelowIn, SoonerR
        <3>6. IsFiniteSet(Holding) /\ BelowIn(m, Holding, SoonerR) \in SUBSET Holding
            BY <1>1, SoonerTotal DEF BelowIn
        <3>7. IsFiniteSet(BelowIn(m, Holding, SoonerR))
            BY <3>6, FS_Subset
        <3>8. /\ Cardinality(Findable) <= RankIn(m, Holding, SoonerR)
              /\ Cardinality(Findable) \in Nat /\ RankIn(m, Holding, SoonerR) \in Nat
            BY <3>5, <3>7, FS_Subset, FS_CardinalityType DEF RankIn
        <3> QED
            BY <1>1, <1>3, <2>1, <3>8
    <2>2. FirstOf(query.limit, Holding, SoonerR) \subseteq Findable
        BY <2>1 DEF FirstOf
    <2> QED
        BY <1>1, <2>2, SameTopN
<1> QED
    BY <1>2, <1>3

(* RewriteKeepsAnswer of SextantTopN: a query that was taken over is       *)
(* answered as the exact path answers it, if the predicates lose no row    *)
(* that satisfies the filter, what they let pass beyond it fits in what is *)
(* overfetched, and rows without a vector do not come into it.             *)
THEOREM RewriteIsInvisible == Spec => []RewriteKeepsAnswer
<1>1. ASSUME TopNInv PROVE RewriteKeepsAnswer
    <2> SUFFICES ASSUME /\ plan = "answered" /\ k # 0
                        /\ \A i \in WithVector : Holds(i) => Passes(i)
                        /\ IF refilter THEN Cardinality(WrongRows) <= OverfetchExtra
                           ELSE WrongRows = {}
                        /\ \/ \A i \in DOMAIN rows : Holds(i) => i \in WithVector
                           \/ Cardinality(Findable) >= query.limit
                 PROVE  answer = SqlAnswer
        BY DEF RewriteKeepsAnswer, Findable
    <2>1. /\ GivenInv /\ Rewrites /\ found = Closest /\ answer = TopN(Kept)
          /\ query.offset = 0 /\ query.nulls = "LAST"
        BY <1>1 DEF TopNInv, RewriteInv, Rewrites, PlanFits
    <2>2. Kept \in SUBSET Findable /\ FirstOf(query.limit, Findable, NearerR) \subseteq Kept
        BY <1>1, <2>1, FirstRowsFound
    <2>3. Findable \in SUBSET WithVector /\ Findable \in SUBSET Positions
        BY DEF Findable, WithVector, Positions
    <2>4. \A m \in Findable : BelowIn(m, Findable, SoonerR) = BelowIn(m, Findable, NearerR)
        BY <2>1, <2>3, OrdersAgree
    <2>5. FirstOf(query.limit, Findable, SoonerR) \subseteq Kept
        BY <2>2, <2>4 DEF FirstOf, RankIn
    <2>6. TopN(Kept) = TopN(Findable)
        BY <2>1, <2>2, <2>3, <2>5, SameTopN
    <2>7. TopN(Findable) = TopN(Holding)
        BY <2>1, VectorsComeFirst
    <2>8. SqlAnswer = TopN(Holding)
        BY DEF SqlAnswer, Holding, Positions
    <2> QED
        BY <2>1, <2>6, <2>7, <2>8
<1> QED
    BY <1>1, TopNReachable, PTL
=============================================================================
