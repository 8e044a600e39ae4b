------------------------- MODULE SextantDeltaProofs -------------------------
(***************************************************************************)
(* Proofs about SextantDelta, for any rows and distances, any number of    *)
(* rows appended meanwhile, any LIMIT and any size of the batches: a merge *)
(* gives the best of the engine's rows and of all appended rows, answers   *)
(* reach the output as SextantBatch has it, and a statement gets on.       *)
(***************************************************************************)
EXTENDS SextantDelta, SextantBatchProofs, SextantLemmas

USE BatchAssumption, DeltaAssumption

-----------------------------------------------------------------------------
(* The best of a set, by an order that is total on it.                     *)
Ordered(S) ==
    /\ IsFiniteSet(S)
    /\ \A a \in S : ~Before(a, a)
    /\ \A a, b \in S : a # b => Before(a, b) \/ Before(b, a)
    /\ \A a, b, c \in S : Before(a, b) /\ Before(b, c) => Before(a, c)

Earlier(m, S) == {o \in S : Before(o, m)}
Standing(m, S) == Cardinality(Earlier(m, S))

(* Each element of the set has a standing of its own, from 0 on.           *)
LEMMA Standings ==
    ASSUME NEW S, Ordered(S)
    PROVE  /\ Cardinality(S) \in Nat
           /\ \A m \in S : Standing(m, S) \in 0 .. Cardinality(S) - 1
           /\ \A a, b \in S : Before(a, b) => Standing(a, S) < Standing(b, S)
           /\ \A a, b \in S : Standing(a, S) = Standing(b, S) => a = b
           /\ \A n \in 0 .. Cardinality(S) - 1 : \E m \in S : Standing(m, S) = n
<1> DEFINE R == {p \in S \X S : Before(p[1], p[2])}
<1>1. TotalOn(R, S) /\ \A a, b \in S : <<a, b>> \in R <=> Before(a, b)
    BY DEF TotalOn, Ordered
<1>2. \A m \in S : Earlier(m, S) = BelowIn(m, S, R)
    BY DEF Earlier, BelowIn
<1> HIDE DEF R
<1>3. \A m \in S : Standing(m, S) = RankIn(m, S, R)
    BY <1>2 DEF Standing, RankIn
<1>4. /\ Cardinality(S) \in Nat
      /\ \A m \in S : RankIn(m, S, R) \in 0 .. Cardinality(S) - 1
      /\ \A a, b \in S : <<a, b>> \in R => RankIn(a, S, R) < RankIn(b, S, R)
      /\ \A a, b \in S : RankIn(a, S, R) = RankIn(b, S, R) => a = b
      /\ \A n \in 0 .. Cardinality(S) - 1 : \E m \in S : RankIn(m, S, R) = n
    BY <1>1, Ranks
<1>5. ASSUME NEW a \in S, NEW b \in S, Before(a, b)
      PROVE  Standing(a, S) < Standing(b, S)
    <2>1. RankIn(a, S, R) < RankIn(b, S, R)
        BY <1>1, <1>4, <1>5
    <2> QED
        BY <1>3, <2>1
<1> QED
    BY <1>3, <1>4, <1>5

(* A part of an ordered set is ordered.                                    *)
LEMMA OrderedPart ==
    ASSUME NEW S, Ordered(S), NEW T \in SUBSET S
    PROVE  Ordered(T)
BY FS_Subset DEF Ordered

(* The best n of a set are n of it, or all of it if it has no more.        *)
LEMMA BestSize ==
    ASSUME NEW S, Ordered(S), NEW n \in Nat
    PROVE  /\ Best(n, S) \subseteq S /\ IsFiniteSet(Best(n, S))
           /\ Cardinality(Best(n, S)) \in Nat /\ Cardinality(Best(n, S)) <= n
           /\ Cardinality(S) >= n => Cardinality(Best(n, S)) = n
           /\ Cardinality(S) <= n => Best(n, S) = S
<1> DEFINE R == {p \in S \X S : Before(p[1], p[2])}
<1>1. TotalOn(R, S)
    BY DEF TotalOn, Ordered
<1>2. \A m \in S : {o \in S : Before(o, m)} = BelowIn(m, S, R)
    BY DEF BelowIn
<1> HIDE DEF R
<1>3. Best(n, S) = FirstOf(n, S, R)
    BY <1>2 DEF Best, FirstOf, RankIn
<1> QED
    BY <1>1, <1>3, FirstSize

(* What is not among the best n of two sets' union but among those of one  *)
(* of them and of the other's best n: nothing.  The other may be cut first.*)
LEMMA BestMerges ==
    ASSUME NEW A, NEW B, Ordered(A \cup B), NEW n \in Nat
    PROVE  Best(n, A \cup Best(n, B)) = Best(n, A \cup B)
<1> DEFINE U == A \cup B
           C == Best(n, B)
           V == A \cup C
<1>1. Ordered(B)
    BY OrderedPart
<1>2. C \subseteq B /\ V \subseteq U /\ C = {m \in B : Standing(m, B) < n}
    BY DEF Best, Standing, Earlier
<1>3. Ordered(V)
    BY <1>2, OrderedPart
<1>4. /\ Best(n, U) = {m \in U : Standing(m, U) < n}
      /\ Best(n, V) = {m \in V : Standing(m, V) < n}
    BY DEF Best, Standing, Earlier
<1>5. ASSUME NEW S \in SUBSET U, NEW T \in SUBSET S, NEW m
      PROVE  /\ IsFiniteSet(Earlier(m, S)) /\ Standing(m, S) \in Nat /\ Standing(m, T) \in Nat
             /\ Standing(m, T) <= Standing(m, S)
    <2>1. Earlier(m, S) \in SUBSET U /\ Earlier(m, T) \in SUBSET Earlier(m, S)
        BY DEF Earlier
    <2>2. IsFiniteSet(U)
        BY DEF Ordered
    <2>3. IsFiniteSet(Earlier(m, S)) /\ IsFiniteSet(Earlier(m, T))
        BY <2>1, <2>2, FS_Subset
    <2> QED
        BY <2>1, <2>3, FS_Subset, FS_CardinalityType DEF Standing
<1> HIDE DEF C
<1>6. ASSUME NEW m \in U, Standing(m, U) < n
      PROVE  m \in V /\ Standing(m, V) < n
    <2>1. Standing(m, B) <= Standing(m, U) /\ Standing(m, V) <= Standing(m, U)
          /\ Standing(m, B) \in Nat /\ Standing(m, V) \in Nat /\ Standing(m, U) \in Nat
        BY <1>2, <1>5
    <2> QED
        BY <1>2, <1>6, <2>1
<1>7. ASSUME NEW m \in V, Standing(m, V) < n
      PROVE  Standing(m, U) < n
    <2>1. CASE \A b \in B : Before(b, m) => b \in C
        <3>1. Earlier(m, U) = Earlier(m, V)
            BY <1>2, <2>1 DEF Earlier
        <3> QED
            BY <1>7, <3>1 DEF Standing
    <2>2. ASSUME NEW b \in B, Before(b, m), b \notin C PROVE FALSE
        <3>1. Standing(b, B) >= n /\ Standing(b, B) \in 0 .. Cardinality(B) - 1
              /\ Cardinality(B) \in Nat
            BY <1>1, <1>2, <2>2, Standings
        <3>2. \A c \in C : Before(c, b)
            <4> SUFFICES ASSUME NEW c \in C, ~Before(c, b) PROVE FALSE
                OBVIOUS
            <4>1. c \in B /\ Standing(c, B) < n /\ Standing(c, B) \in Nat
                BY <1>1, <1>2, Standings
            <4>2. Before(b, c)
                BY <1>1, <2>2, <4>1 DEF Ordered
            <4>3. Standing(b, B) < Standing(c, B)
                BY <1>1, <4>1, <4>2, Standings
            <4> QED
                BY <3>1, <4>1, <4>3
        <3>3. C \in SUBSET Earlier(m, V)
            BY <1>2, <2>2, <3>2 DEF Ordered, Earlier
        <3>4. Cardinality(C) = n
            BY <1>1, <3>1, BestSize DEF C
        <3>5. IsFiniteSet(Earlier(m, V)) /\ Standing(m, V) \in Nat
            BY <1>2, <1>5
        <3>6. n <= Standing(m, V)
            BY <3>3, <3>4, <3>5, FS_Subset DEF Standing
        <3> QED
            BY <1>7, <3>5, <3>6
    <2> QED
        BY <2>1, <2>2
<1> QED
    BY <1>2, <1>4, <1>6, <1>7 DEF C

-----------------------------------------------------------------------------
(* Candidates and answers.                                                 *)
Candidates == Nat \X Nat
Tags       == {"tree", "delta"}
Returned   == Nat \X Nat \X Tags

(* Candidates are ordered by distance, then row id.                        *)
LEMMA CandidateOrder ==
    ASSUME NEW a \in Candidates, NEW b \in Candidates
    PROVE  Before(a, b) <=> a[1] < b[1] \/ (a[1] = b[1] /\ a[2] < b[2])
<1>1. Len(a) = 2
    BY DEF Candidates
<1> QED
    BY <1>1 DEF Before

(* Answers too; of two for one row, the tree's comes first.                *)
LEMMA ReturnedOrder ==
    ASSUME NEW a \in Returned, NEW b \in Returned
    PROVE  Before(a, b) <=> \/ a[1] < b[1]
                            \/ a[1] = b[1] /\ a[2] < b[2]
                            \/ a[1] = b[1] /\ a[2] = b[2] /\ a[3] = "tree" /\ b[3] = "delta"
<1>1. Len(a) = 3
    BY DEF Returned
<1> QED
    BY <1>1 DEF Before

(* So a finite set of candidates has a best.                               *)
LEMMA CandidatesOrdered ==
    ASSUME NEW S \in SUBSET Candidates, IsFiniteSet(S)
    PROVE  Ordered(S)
<1>1. \A a \in S : a \in Candidates /\ a[1] \in Nat /\ a[2] \in Nat /\ a = <<a[1], a[2]>>
    BY DEF Candidates
<1>2. \A a, b \in S : Before(a, b) <=> a[1] < b[1] \/ (a[1] = b[1] /\ a[2] < b[2])
    BY <1>1, CandidateOrder
<1>3. \A a \in S : ~Before(a, a)
    BY <1>1, <1>2
<1>4. \A a, b \in S : a # b => a[1] # b[1] \/ a[2] # b[2]
    BY <1>1
<1>5. \A a, b \in S : a # b => Before(a, b) \/ Before(b, a)
    BY <1>1, <1>2, <1>4
<1>6. \A a, b, c \in S : Before(a, b) /\ Before(b, c) => Before(a, c)
    BY <1>1, <1>2
<1> QED
    BY <1>3, <1>5, <1>6 DEF Ordered

(* So has a finite set of answers.                                         *)
LEMMA ReturnedOrdered ==
    ASSUME NEW S \in SUBSET Returned, IsFiniteSet(S)
    PROVE  Ordered(S)
<1>1. \A a \in S : /\ a \in Returned /\ a[1] \in Nat /\ a[2] \in Nat
                   /\ a[3] = "tree" \/ a[3] = "delta"
                   /\ a = <<a[1], a[2], a[3]>>
    BY DEF Returned, Tags
<1>2. \A a, b \in S :
        Before(a, b) <=> \/ a[1] < b[1]
                         \/ a[1] = b[1] /\ a[2] < b[2]
                         \/ a[1] = b[1] /\ a[2] = b[2] /\ a[3] = "tree" /\ b[3] = "delta"
    BY <1>1, ReturnedOrder
<1>3. \A a \in S : ~Before(a, a)
    BY <1>1, <1>2
<1>4. \A a, b \in S : a # b => a[1] # b[1] \/ a[2] # b[2] \/ a[3] # b[3]
    BY <1>1
<1>5. \A a, b \in S : a # b => Before(a, b) \/ Before(b, a)
    BY <1>1, <1>2, <1>4
<1>6. \A a, b, c \in S : Before(a, b) /\ Before(b, c) => Before(a, c)
    BY <1>1, <1>2
<1> QED
    BY <1>3, <1>5, <1>6 DEF Ordered

(* A set of answers, one per row at most, without the sources.             *)
Untagged(S) == {<<a[1], a[2]>> : a \in S}

(* The sources do not matter to which are best.                            *)
LEMMA BestUntagged ==
    ASSUME NEW S \in SUBSET Returned, IsFiniteSet(S), \A a, b \in S : a[2] = b[2] => a = b,
           NEW n \in Nat
    PROVE  Untagged(Best(n, S)) = Best(n, Untagged(S))
<1> DEFINE T    == Untagged(S)
           P(a) == <<a[1], a[2]>>
<1>1. \A a \in S : P(a) \in T /\ P(a) \in Candidates
    BY DEF Untagged, Returned, Candidates
<1>2. \A a, b \in S : P(a) = P(b) => a = b
    OBVIOUS
<1>3. \A a, b \in S : Before(a, b) <=> Before(P(a), P(b))
    <2> SUFFICES ASSUME NEW a \in S, NEW b \in S PROVE Before(a, b) <=> Before(P(a), P(b))
        OBVIOUS
    <2>1. Before(P(a), P(b)) <=> a[1] < b[1] \/ (a[1] = b[1] /\ a[2] < b[2])
        BY <1>1, CandidateOrder
    <2>2. a[2] = b[2] => a[3] = b[3]
        OBVIOUS
    <2>3. Before(a, b) <=> a[1] < b[1] \/ (a[1] = b[1] /\ a[2] < b[2])
        BY <2>2, ReturnedOrder
    <2> QED
        BY <2>1, <2>3
<1>4. ASSUME NEW m \in S PROVE Standing(P(m), T) = Standing(m, S)
    <2> DEFINE f == [a \in Earlier(m, S) |-> P(a)]
    <2>1. IsFiniteSet(Earlier(m, S))
        BY FS_Subset DEF Earlier
    <2>2. \A a \in Earlier(m, S) : P(a) \in Earlier(P(m), T)
        BY <1>1, <1>3 DEF Earlier
    <2>3. \A c \in Earlier(P(m), T) : \E a \in Earlier(m, S) : P(a) = c
        BY <1>3 DEF Earlier, Untagged
    <2>4. \A a, b \in Earlier(m, S) : P(a) = P(b) => a = b
        BY <1>2 DEF Earlier
    <2> HIDE DEF P
    <2>5. f \in Bijection(Earlier(m, S), Earlier(P(m), T))
        BY <2>2, <2>3, <2>4 DEF Bijection, Injection, IsInjective, Surjection
    <2>6. ExistsBijection(Earlier(m, S), Earlier(P(m), T))
        BY <2>5 DEF ExistsBijection
    <2> QED
        BY <2>1, <2>6, FS_Bijection DEF Standing
<1>5. /\ Best(n, T) = {c \in T : Standing(c, T) < n}
      /\ Best(n, S) = {a \in S : Standing(a, S) < n}
    BY DEF Best, Standing, Earlier
<1>6. T = {P(a) : a \in S} /\ Untagged(Best(n, S)) = {P(a) : a \in Best(n, S)}
    BY DEF Untagged
<1> HIDE DEF P, T
<1> QED
    BY <1>4, <1>5, <1>6 DEF T

-----------------------------------------------------------------------------
(* The invariant.                                                          *)

(* The types of the table and the query, without those of the batch.       *)
QueryTypeOK ==
    /\ rows \in Seq(Cells \cup {Deleted}) /\ Len(rows) <= MaxRows
    /\ committed \in 0 .. Len(rows)
    /\ built \in BOOLEAN /\ delta_scan \in BOOLEAN
    /\ tree \in Seq(Distances) /\ NBuild <= Early /\ NBuild <= Len(rows)
    /\ at \in {"idle", "ready", "searched", "scan", "done", "packed"}
    /\ snap \in 0 .. committed
    /\ k \in Ks
    /\ found \in Seq(0 .. NBuild - 1) /\ Len(found) <= k /\ Len(found) <= NBuild
    /\ total \in 0 .. Len(rows)
    /\ start \in 0 .. MaxRows + BatchSize
    /\ cand \subseteq Distances \X RowIds /\ IsFiniteSet(cand)
    /\ \A c \in cand : NBuild <= c[2] /\ c[2] < total
    /\ answer \subseteq (Distances \cup {Far}) \X RowIds \X Tags
    /\ IsFiniteSet(answer) /\ Cardinality(answer) <= k

(* What a query has to show for itself where it is; a transaction that has *)
(* not begun, or has ended, has no statement.                              *)
StageInv ==
    /\ ~built => at = "idle" /\ Len(rows) <= Early /\ tree = <<>>
    /\ at = "idle" => n_per_query = <<>>
    /\ at \in {"idle", "ready", "packed"} => found = <<>>
    /\ at \notin {"scan", "done"} => total = 0 /\ start = 0 /\ cand = {}
    /\ at # "done" => answer = {}
    /\ at = "scan" => snap <= total /\ NBuild < total /\ NBuild <= start

(* The engine's rows are told apart by their ids.                          *)
FoundInv == \A i, j \in DOMAIN found : i # j => found[i] # found[j]

(* Without delta_scan, nothing has a vector but what the build streamed.   *)
StreamInv ==
    built /\ ~delta_scan =>
        NBuild = Cardinality({i \in DOMAIN rows : HasVector(rows[i])})

(* While the table is as the transaction saw it, the candidates are the    *)
(* rows of the batches so far that have a vector.                          *)
Quiet   == Gapless /\ total <= snap /\ Len(rows) = snap
Scanned == {i \in NBuild .. total - 1 : i < start /\ HasVector(rows[i + 1])}
ScanInv ==
    at = "scan" /\ Quiet => cand = {<<rows[id + 1], id>> : id \in Scanned}

DeltaInv == /\ QueryTypeOK
            /\ StageInv
            /\ FoundInv
            /\ StreamInv
            /\ ScanInv
            /\ MergedExactly

(* The bounds are numbers.                                                 *)
LEMMA Bounds ==
    /\ MaxRows \in Nat /\ Early \in Nat /\ Late \in Nat /\ MaxRows = Early + Late
    /\ RowIds = 0 .. Early + Late - 1 /\ RowIds \subseteq Nat
    /\ BatchSize \in Nat /\ BatchSize > 0 /\ MaxAnswers \in Nat
    /\ \A n \in Ks : n \in Nat /\ n > 0 /\ n <= MaxAnswers
    /\ Distances \subseteq Nat /\ Far \in Nat
BY DEF MaxRows, RowIds

(* If every position is kept, each has its own place.                      *)
LEMMA PlaceOfAll ==
    ASSUME NEW n \in Nat, NEW i \in 1 .. n
    PROVE  Place(i, 1 .. n) = i
<1>1. {j \in 1 .. n : j <= i} = 1 .. i /\ i \in Nat
    OBVIOUS
<1>2. Cardinality(1 .. i) = i
    BY <1>1, PositionsSize
<1> QED
    BY <1>1, <1>2 DEF Place

(* A chunk has a value for every id.                                       *)
LEMMA FetchedFacts ==
    ASSUME NEW n \in Nat, NEW ids, DOMAIN ids = 1 .. n, NEW chunk \in Fetched(ids)
    PROVE  DOMAIN chunk = 1 .. n /\ \A i \in 1 .. n : chunk[i] \in Cells
<1>1. chunk \in [1 .. n -> Cells]
    BY DEF Fetched
<1> QED
    BY <1>1

-----------------------------------------------------------------------------
(* The steps of the table.                                                 *)

(* The initial states.                                                     *)
LEMMA DeltaInit == Init => DeltaInv
<1> SUFFICES ASSUME Init PROVE DeltaInv
    OBVIOUS
<1>1. rows \in Seq(Cells \cup {Deleted}) /\ Len(rows) <= Early /\ Len(rows) \in Nat
    BY BoundedSeqFacts DEF Init
<1>2. Len(rows) <= MaxRows
    BY <1>1, Bounds
<1>3. k \in Nat /\ k > 0
    BY Bounds DEF Init
<1>4. QueryTypeOK
    <2>1. /\ tree \in Seq(Distances) /\ Len(tree) = 0
          /\ found \in Seq(0 .. Len(tree) - 1) /\ Len(found) = 0
        BY DEF Init
    <2>2. IsFiniteSet({}) /\ Cardinality({}) = 0
        BY FS_EmptySet
    <2>3. start \in 0 .. MaxRows + BatchSize
        BY Bounds DEF Init
    <2>4. committed \in 0 .. Len(rows) /\ snap \in 0 .. committed /\ total \in 0 .. Len(rows)
        BY <1>1 DEF Init
    <2>5. /\ Len(tree) <= Early /\ Len(tree) <= Len(rows) /\ Len(found) <= k
          /\ Len(found) <= Len(tree)
        BY <1>1, <1>3, <2>1, Bounds
    <2>6. /\ built = FALSE /\ delta_scan = FALSE /\ at = "idle" /\ k \in Ks
          /\ cand = {} /\ answer = {}
        BY DEF Init
    <2> QED
        BY <1>1, <1>2, <1>3, <2>1, <2>2, <2>3, <2>4, <2>5, <2>6 DEF QueryTypeOK, NBuild
<1>5. StageInv /\ FoundInv /\ StreamInv /\ ScanInv /\ MergedExactly
    BY <1>1 DEF Init, BatchInit, StageInv, FoundInv, StreamInv, ScanInv, MergedExactly
<1> QED
    BY <1>4, <1>5 DEF DeltaInv

(* The build streams the rows with a vector: no more than there are.       *)
LEMMA BuildKeeps ==
    ASSUME DeltaInv, Build
    PROVE  DeltaInv'
<1> DEFINE streamed == {i \in DOMAIN rows : HasVector(rows[i])}
           size     == Cardinality(streamed)
<1>1. /\ ~built /\ built' = TRUE /\ delta_scan' \in BOOLEAN
      /\ tree' \in [1 .. size -> Distances]
      /\ rows' = rows /\ committed' = committed /\ UNCHANGED <<at, snap, query, batch>>
    BY DEF Build, reader
<1>2. /\ QueryTypeOK /\ at = "idle" /\ Len(rows) <= Early
      /\ found = <<>> /\ total = 0 /\ start = 0 /\ cand = {} /\ answer = {}
    BY <1>1 DEF DeltaInv, StageInv
<1>3. rows \in Seq(Cells \cup {Deleted}) /\ Len(rows) \in Nat /\ DOMAIN rows = 1 .. Len(rows)
    BY <1>2 DEF QueryTypeOK
<1>4. IsFiniteSet(streamed) /\ size \in Nat /\ size <= Len(rows)
    BY <1>3, PositionsSize, FS_Subset, FS_CardinalityType
<1> HIDE DEF streamed, size
<1>5. tree' \in Seq(Distances) /\ Len(tree') = size
    BY <1>1, <1>4
<1>6. QueryTypeOK'
    <2>1. /\ Len(tree') <= Early /\ Len(tree') <= Len(rows)
          /\ found' = <<>> /\ Len(found') = 0 /\ found' \in Seq(0 .. Len(tree') - 1)
          /\ 0 <= Len(tree') /\ cand' = {}
        BY <1>1, <1>2, <1>3, <1>4, <1>5, Bounds DEF query
    <2> QED
        BY <1>1, <1>2, <1>5, <2>1 DEF QueryTypeOK, NBuild, query
<1>7. StageInv'
    BY <1>1, <1>2 DEF DeltaInv, StageInv, query, batch
<1>8. FoundInv'
    BY <1>1, <1>2 DEF FoundInv, query
<1>9. StreamInv'
    BY <1>1, <1>5 DEF StreamInv, NBuild, size, streamed, HasVector
<1>10. ScanInv' /\ MergedExactly'
    BY <1>1, <1>2 DEF ScanInv, MergedExactly
<1> QED
    BY <1>6, <1>7, <1>8, <1>9, <1>10 DEF DeltaInv

(* A row that is appended is newer than what any transaction saw.          *)
LEMMA AppendRowKeeps ==
    ASSUME DeltaInv, NEW row \in Cells, AppendRow(row)
    PROVE  DeltaInv'
<1>1. /\ built /\ delta_scan /\ Len(rows) < MaxRows /\ rows' = Append(rows, row)
      /\ UNCHANGED <<committed, built, delta_scan, tree, at, snap, query, batch>>
    BY DEF AppendRow, reader
<1>2. /\ QueryTypeOK /\ rows \in Seq(Cells \cup {Deleted}) /\ Len(rows) \in Nat
      /\ committed \in 0 .. Len(rows) /\ snap \in 0 .. committed
    BY DEF DeltaInv, QueryTypeOK
<1>3. rows' \in Seq(Cells \cup {Deleted}) /\ Len(rows') = Len(rows) + 1
    BY <1>1, <1>2
<1>4. QueryTypeOK'
    <2>1. /\ Len(rows') <= MaxRows /\ committed' \in 0 .. Len(rows')
          /\ total' \in 0 .. Len(rows') /\ Len(tree') <= Len(rows')
        BY <1>1, <1>2, <1>3, Bounds DEF QueryTypeOK, query, NBuild
    <2> QED
        BY <1>1, <1>2, <1>3, <2>1 DEF QueryTypeOK, query, NBuild
<1>5. StageInv' /\ FoundInv' /\ StreamInv'
    BY <1>1 DEF DeltaInv, StageInv, FoundInv, StreamInv, query, batch, NBuild
<1>6. Len(rows') # snap'
    BY <1>1, <1>2, <1>3
<1>7. ScanInv' /\ MergedExactly'
    BY <1>6 DEF ScanInv, Quiet, MergedExactly
<1> QED
    BY <1>4, <1>5, <1>7 DEF DeltaInv

(* What the query has to show for itself does not depend on how many rows  *)
(* are committed, nor on what is packed.                                   *)
LEMMA SameQuery ==
    ASSUME DeltaInv, UNCHANGED <<rows, tree, snap, query>>, at' # "scan" \/ at = "scan",
           at' # "done" \/ at = "done"
    PROVE  ScanInv' /\ MergedExactly'
<1>1. /\ rows' = rows /\ tree' = tree /\ snap' = snap /\ k' = k /\ found' = found
      /\ total' = total /\ start' = start /\ cand' = cand /\ answer' = answer
    BY DEF query
<1>2. NBuild' = NBuild
    BY <1>1 DEF NBuild
<1>3. Gapless' <=> Gapless
    BY <1>1 DEF Gapless
<1>4. Scanned' = Scanned /\ DeltaRows' = DeltaRows
    BY <1>1, <1>2 DEF Scanned, DeltaRows
<1>5. TreeRows' = TreeRows /\ Pairs' = Pairs
    BY <1>1 DEF TreeRows, Pairs
<1>6. ScanInv'
    BY <1>1, <1>3, <1>4 DEF DeltaInv, ScanInv, Quiet
<1>7. MergedExactly'
    BY <1>1, <1>3, <1>4, <1>5 DEF DeltaInv, MergedExactly
<1> QED
    BY <1>6, <1>7

(* A commit makes rows visible to transactions that begin later.           *)
LEMMA CommitKeeps ==
    ASSUME DeltaInv, Commit
    PROVE  DeltaInv'
<1>1. /\ committed < Len(rows) /\ committed' = Len(rows)
      /\ UNCHANGED <<rows, built, delta_scan, tree, at, snap, query, batch>>
    BY DEF Commit, reader
<1>2. QueryTypeOK /\ Len(rows) \in Nat /\ committed \in 0 .. Len(rows) /\ snap \in 0 .. committed
    BY DEF DeltaInv, QueryTypeOK
<1>3. committed' \in 0 .. Len(rows) /\ snap \in 0 .. committed'
    BY <1>1, <1>2
<1>4. QueryTypeOK'
    BY <1>1, <1>2, <1>3 DEF QueryTypeOK, query, NBuild
<1>5. StageInv' /\ FoundInv' /\ StreamInv'
    BY <1>1 DEF DeltaInv, StageInv, FoundInv, StreamInv, query, batch, NBuild
<1>6. ScanInv' /\ MergedExactly'
    BY <1>1, SameQuery DEF query
<1> QED
    BY <1>4, <1>5, <1>6 DEF DeltaInv

-----------------------------------------------------------------------------
(* The steps of the reader.                                                *)

(* A transaction begins with what is committed.                            *)
LEMMA ReaderBeginKeeps ==
    ASSUME DeltaInv, Begin
    PROVE  DeltaInv'
<1>1. /\ at = "idle" /\ built /\ at' = "ready" /\ snap' = committed
      /\ UNCHANGED <<rows, committed, built, delta_scan, tree, k, found, total, start, cand,
                     answer>>
    BY DEF Begin, table, query
<1>2. QueryTypeOK /\ Len(rows) \in Nat /\ committed \in 0 .. Len(rows)
    BY DEF DeltaInv, QueryTypeOK
<1>3. QueryTypeOK'
    BY <1>1, <1>2 DEF QueryTypeOK, NBuild
<1>4. StageInv' /\ FoundInv' /\ StreamInv'
    BY <1>1 DEF DeltaInv, StageInv, FoundInv, StreamInv, NBuild
<1>5. ScanInv' /\ MergedExactly'
    BY <1>1 DEF ScanInv, MergedExactly
<1> QED
    BY <1>3, <1>4, <1>5 DEF DeltaInv

(* The engine's rows are rows of the tree, no two of them the same.        *)
LEMMA SearchKeeps ==
    ASSUME DeltaInv, Search
    PROVE  DeltaInv'
<1> DEFINE size == IF k' < NBuild THEN k' ELSE NBuild
<1>1. /\ at = "ready" /\ at' = "searched" /\ k' \in Ks
      /\ found' \in [1 .. size -> 0 .. NBuild - 1]
      /\ \A i, j \in DOMAIN found' : i < j => EngineOrder(found'[i], found'[j])
      /\ UNCHANGED <<rows, committed, built, delta_scan, tree, snap, total, start, cand, answer>>
    BY DEF Search, table, DeltaInv, QueryTypeOK
<1>2. QueryTypeOK /\ NBuild \in Nat /\ k' \in Nat /\ tree \in Seq(Distances)
    BY <1>1, Bounds DEF DeltaInv, QueryTypeOK, NBuild
<1>3. size \in Nat /\ size <= k' /\ size <= NBuild
    BY <1>2
<1> HIDE DEF size
<1>4. /\ found' \in Seq(0 .. NBuild - 1) /\ Len(found') = size
      /\ DOMAIN found' = 1 .. size
    <2>1. found' \in [1 .. size -> 0 .. NBuild - 1]
        BY <1>1
    <2> QED
        BY <1>3, <2>1, SeqOfFunction
<1>5. answer = {} /\ cand = {}
    BY <1>1 DEF DeltaInv, StageInv
<1>6. QueryTypeOK'
    <2>1. IsFiniteSet(answer') /\ Cardinality(answer') <= k'
        BY <1>1, <1>2, <1>5, FS_EmptySet
    <2> QED
        BY <1>1, <1>2, <1>3, <1>4, <2>1 DEF QueryTypeOK, NBuild
<1>7. StageInv' /\ StreamInv'
    BY <1>1 DEF DeltaInv, StageInv, StreamInv, NBuild
<1>8. FoundInv'
    <2> SUFFICES ASSUME NEW i \in 1 .. size, NEW j \in 1 .. size, i < j
                 PROVE  found'[i] # found'[j]
        BY <1>3, <1>4 DEF FoundInv
    <2>1. EngineOrder(found'[i], found'[j]) /\ found'[i] \in 0 .. NBuild - 1
        BY <1>1, <1>4
    <2>2. tree[found'[i] + 1] \in Nat
        <3>1. found'[i] + 1 \in 1 .. Len(tree)
            BY <1>2, <2>1 DEF NBuild
        <3>2. tree[found'[i] + 1] \in Distances
            BY <1>2, <3>1
        <3> QED
            BY <3>2, Bounds
    <2> QED
        BY <2>1, <2>2 DEF EngineOrder
<1>9. ScanInv' /\ MergedExactly'
    BY <1>1 DEF ScanInv, MergedExactly
<1> QED
    BY <1>6, <1>7, <1>8, <1>9 DEF DeltaInv

(* The engine's rows as candidates: no more than the LIMIT.                *)
LEMMA TreeRowsFacts ==
    ASSUME DeltaInv
    PROVE  /\ TreeRows \subseteq Candidates /\ IsFiniteSet(TreeRows)
           /\ Cardinality(TreeRows) \in Nat /\ Cardinality(TreeRows) <= k
           /\ \A a \in TreeRows : a[2] < NBuild
           /\ {Tagged(id) : id \in Range(found)} \subseteq
                 (Distances \cup {Far}) \X RowIds \X Tags
           /\ IsFiniteSet({Tagged(id) : id \in Range(found)})
           /\ Cardinality({Tagged(id) : id \in Range(found)}) <= k
<1> DEFINE n == Len(found)
           f == [i \in 1 .. n |-> <<tree[found[i] + 1], found[i]>>]
           g == [i \in 1 .. n |-> Tagged(found[i])]
           T == {Tagged(id) : id \in Range(found)}
<1>1. /\ n \in Nat /\ DOMAIN found = 1 .. n /\ n <= k /\ k \in Nat
      /\ tree \in Seq(Distances) /\ NBuild \in Nat /\ NBuild <= Early
      /\ \A i \in 1 .. n : found[i] \in 0 .. NBuild - 1
    BY Bounds DEF DeltaInv, QueryTypeOK, NBuild
<1>2. Range(found) = {found[i] : i \in 1 .. n}
    BY <1>1 DEF Range
<1>3. \A id \in Range(found) : /\ id \in 0 .. NBuild - 1 /\ id \in RowIds /\ id \in Nat
                               /\ tree[id + 1] \in Distances
    <2> SUFFICES ASSUME NEW id \in 0 .. NBuild - 1
                 PROVE  id \in RowIds /\ id \in Nat /\ tree[id + 1] \in Distances
        BY <1>1, <1>2
    <2>1. id + 1 \in 1 .. Len(tree) /\ id \in 0 .. Early + Late - 1
        BY <1>1, Bounds DEF NBuild
    <2> QED
        BY <1>1, <2>1, Bounds
<1>4. TreeRows = {f[i] : i \in 1 .. n} /\ T = {g[i] : i \in 1 .. n}
    BY <1>2 DEF TreeRows
<1>5. TreeRows \subseteq Candidates /\ \A a \in TreeRows : a[2] < NBuild
    <2> SUFFICES ASSUME NEW id \in Range(found)
                 PROVE  <<tree[id + 1], id>> \in Candidates /\ id < NBuild
        BY DEF TreeRows
    <2>1. id \in 0 .. NBuild - 1 /\ id \in Nat /\ tree[id + 1] \in Distances
        BY <1>3
    <2>2. tree[id + 1] \in Nat
        BY <2>1, Bounds
    <2> QED
        BY <1>1, <2>1, <2>2 DEF Candidates
<1>6. T \subseteq (Distances \cup {Far}) \X RowIds \X Tags
    BY <1>3 DEF Tagged, Tags
<1>7. IsFiniteSet(1 .. n) /\ Cardinality(1 .. n) = n
    BY <1>1, PositionsSize
<1>8. DOMAIN f = 1 .. n /\ DOMAIN g = 1 .. n
    OBVIOUS
<1> HIDE DEF f, g, T
<1>9. IsFiniteSet(TreeRows) /\ Cardinality(TreeRows) \in Nat /\ Cardinality(TreeRows) <= n
    BY <1>4, <1>7, <1>8, ImageSize
<1>10. IsFiniteSet(T) /\ Cardinality(T) \in Nat /\ Cardinality(T) <= n
    BY <1>4, <1>7, <1>8, ImageSize
<1>11. Cardinality(TreeRows) <= k /\ Cardinality(T) <= k
    BY <1>1, <1>9, <1>10
<1> QED
    BY <1>5, <1>6, <1>9, <1>10, <1>11 DEF T

(* The rows past the tree's count without gaps, delta_scan or not.         *)
LEMMA NoLaterVectors ==
    ASSUME DeltaInv, built, Gapless, ~delta_scan \/ Len(rows) <= NBuild
    PROVE  DeltaRows = {}
<1>1. /\ rows \in Seq(Cells \cup {Deleted}) /\ Len(rows) \in Nat /\ tree \in Seq(Distances)
      /\ NBuild \in Nat /\ NBuild <= Len(rows) /\ committed \in 0 .. Len(rows)
      /\ snap \in 0 .. committed
    BY DEF DeltaInv, QueryTypeOK, NBuild
<1>2. SUFFICES ASSUME NEW id \in NBuild .. snap - 1, HasVector(rows[id + 1]) PROVE FALSE
    BY DEF DeltaRows
<1>3. id + 1 \in 1 .. Len(rows) /\ id + 1 > NBuild
    BY <1>1
<1>4. CASE Len(rows) <= NBuild
    BY <1>1, <1>3, <1>4
<1>5. CASE ~delta_scan
    <2> DEFINE streamed == {i \in DOMAIN rows : HasVector(rows[i])}
    <2>1. Cardinality(streamed) = NBuild
        BY <1>5 DEF DeltaInv, StreamInv
    <2>2. IsFiniteSet(streamed)
        BY <1>1, PositionsSize, FS_Subset
    <2>3. \A i \in 1 .. NBuild : i \in DOMAIN rows /\ rows[i] = tree[i] /\ tree[i] \in Distances
        BY <1>1 DEF Gapless, NBuild
    <2>4. 1 .. NBuild \in SUBSET streamed
        BY <2>3 DEF HasVector
    <2> HIDE DEF streamed
    <2>5. streamed = 1 .. NBuild
        BY <1>1, <2>1, <2>2, <2>4, FS_Subset, PositionsSize
    <2>6. id + 1 \in streamed
        BY <1>1, <1>2, <1>3 DEF streamed
    <2> QED
        BY <1>1, <1>3, <2>5, <2>6
<1> QED
    BY <1>4, <1>5

(* The engine's rows are the answer if there is nothing past them.         *)
LEMMA ServeTreeOnlyKeeps ==
    ASSUME DeltaInv, ServeTreeOnly
    PROVE  DeltaInv'
<1>1. /\ at = "searched" /\ at' = "done" /\ (~delta_scan \/ Len(rows) <= NBuild)
      /\ answer' = {Tagged(id) : id \in Range(found)}
      /\ UNCHANGED <<rows, committed, built, delta_scan, tree, snap, k, found, total, start, cand>>
    BY DEF ServeTreeOnly, table
<1>2. built /\ QueryTypeOK
    BY <1>1 DEF DeltaInv, StageInv
<1>3. QueryTypeOK'
    BY <1>1, <1>2, TreeRowsFacts DEF QueryTypeOK, NBuild
<1>4. StageInv' /\ FoundInv' /\ StreamInv' /\ ScanInv'
    BY <1>1, <1>2 DEF DeltaInv, StageInv, FoundInv, StreamInv, ScanInv, NBuild
<1>5. MergedExactly'
    <2>1. /\ Gapless' <=> Gapless
          /\ DeltaRows' = DeltaRows /\ TreeRows' = TreeRows
        BY <1>1 DEF Gapless, DeltaRows, TreeRows, NBuild
    <2>2. Pairs' = TreeRows
        <3>1. \A id : <<Tagged(id)[1], Tagged(id)[2]>> = <<tree[id + 1], id>>
            BY DEF Tagged
        <3>2. Pairs' = {<<Tagged(id)[1], Tagged(id)[2]>> : id \in Range(found)}
            BY <1>1, Zenon DEF Pairs
        <3> QED
            BY <3>1, <3>2 DEF TreeRows
    <2>3. SUFFICES ASSUME Gapless PROVE TreeRows = Best(k, TreeRows \cup DeltaRows)
        BY <1>1, <2>1, <2>2 DEF MergedExactly
    <2>4. DeltaRows = {}
        BY <1>1, <1>2, <2>3, NoLaterVectors
    <2>5. k \in Nat
        BY <1>2, Bounds DEF QueryTypeOK
    <2> QED
        BY <2>4, <2>5, TreeRowsFacts, CandidatesOrdered, BestSize
<1> QED
    BY <1>3, <1>4, <1>5 DEF DeltaInv

(* The window begins where the tree ends.                                  *)
LEMMA BeginMergeKeeps ==
    ASSUME DeltaInv, BeginMerge
    PROVE  DeltaInv'
<1>1. /\ at = "searched" /\ at' = "scan" /\ delta_scan /\ Len(rows) > NBuild
      /\ total' = Len(rows) /\ start' = NBuild
      /\ UNCHANGED <<rows, committed, built, delta_scan, tree, snap, k, found, cand, answer>>
    BY DEF BeginMerge, table
<1>2. /\ QueryTypeOK /\ cand = {} /\ built /\ answer = {}
      /\ NBuild \in Nat /\ Len(rows) \in Nat /\ committed \in 0 .. Len(rows)
      /\ snap \in 0 .. committed /\ NBuild <= Early
    BY <1>1 DEF DeltaInv, StageInv, QueryTypeOK, NBuild
<1>3. QueryTypeOK'
    <2>1. total' \in 0 .. Len(rows) /\ start' \in 0 .. MaxRows + BatchSize
        BY <1>1, <1>2, Bounds
    <2> QED
        BY <1>1, <1>2, <2>1 DEF QueryTypeOK, NBuild
<1>4. StageInv'
    <2>1. snap <= total' /\ NBuild < total' /\ NBuild <= start'
        BY <1>1, <1>2
    <2> QED
        BY <1>1, <1>2, <2>1 DEF DeltaInv, StageInv, NBuild
<1>5. FoundInv' /\ StreamInv' /\ MergedExactly'
    BY <1>1 DEF DeltaInv, FoundInv, StreamInv, MergedExactly, NBuild
<1>6. ScanInv'
    <2>1. NBuild' = NBuild
        BY <1>1 DEF NBuild
    <2>2. \A i \in NBuild .. total' - 1 : ~(i < start')
        BY <1>1, <1>2
    <2>3. Scanned' = {}
        BY <2>1, <2>2 DEF Scanned
    <2> QED
        BY <1>1, <1>2, <2>3 DEF ScanInv
<1> QED
    BY <1>3, <1>4, <1>5, <1>6 DEF DeltaInv

(* A batch of the window adds its rows that have a vector.                 *)
LEMMA FetchBatchKeeps ==
    ASSUME DeltaInv, FetchBatch
    PROVE  DeltaInv'
<1> DEFINE size == BatchEnd - start
           ids  == [i \in 1 .. size |-> start + i - 1]
<1>1. /\ at = "scan" /\ start < total /\ start' = start + BatchSize
      /\ UNCHANGED <<rows, committed, built, delta_scan, tree, at, snap, k, found, total, answer>>
    BY DEF FetchBatch, table
<1>2. PICK chunk \in Fetched(ids) :
        cand' = cand \cup {<<chunk[i], start + i - 1>> :
                             i \in {j \in DOMAIN chunk : chunk[j] # Null}}
    BY DEF FetchBatch
<1>3. /\ QueryTypeOK /\ built /\ NBuild \in Nat /\ NBuild <= start /\ start \in Nat
      /\ Len(rows) \in Nat /\ total \in 0 .. Len(rows) /\ Len(rows) <= MaxRows /\ snap <= total
      /\ rows \in Seq(Cells \cup {Deleted}) /\ snap \in Nat
    BY <1>1 DEF DeltaInv, StageInv, QueryTypeOK, NBuild
<1>4. /\ size \in Nat /\ start + size = BatchEnd
      /\ BatchEnd = IF start + BatchSize < total THEN start + BatchSize ELSE total
    BY <1>1, <1>3, Bounds DEF BatchEnd
<1>5. \A i \in 1 .. size : /\ start + i - 1 \in RowIds
                           /\ NBuild <= start + i - 1 /\ start + i - 1 < total
    BY <1>3, <1>4, Bounds
<1>6. DOMAIN ids = 1 .. size /\ \A i \in 1 .. size : ids[i] = start + i - 1
    OBVIOUS
<1> HIDE DEF size, ids
<1>7. DOMAIN chunk = 1 .. size /\ \A i \in 1 .. size : chunk[i] \in Cells
    BY <1>4, <1>6, FetchedFacts
<1> DEFINE valid == {j \in 1 .. size : chunk[j] # Null}
           f     == [i \in valid |-> <<chunk[i], start + i - 1>>]
           new   == {<<chunk[i], start + i - 1>> : i \in valid}
<1>8. cand' = cand \cup new
    BY <1>2, <1>7
<1>9. IsFiniteSet(new)
    <2>1. IsFiniteSet(valid)
        BY <1>4, PositionsSize, FS_Subset
    <2>2. DOMAIN f = valid /\ new = {f[i] : i \in valid}
        OBVIOUS
    <2> HIDE DEF f, new, valid
    <2> QED
        BY <2>1, <2>2, ImageSize
<1>10. new \subseteq Distances \X RowIds /\ \A c \in new : NBuild <= c[2] /\ c[2] < total
    <2>1. \A i \in valid : chunk[i] \in Distances
        BY <1>7 DEF Cells
    <2> QED
        BY <1>5, <2>1
<1> HIDE DEF new, valid, f
<1>11. QueryTypeOK'
    <2>1. start' \in 0 .. MaxRows + BatchSize
        BY <1>1, <1>3, Bounds
    <2>2. cand' \subseteq Distances \X RowIds /\ IsFiniteSet(cand')
        BY <1>3, <1>8, <1>9, <1>10, FS_Union DEF QueryTypeOK
    <2>3. \A c \in cand' : NBuild <= c[2] /\ c[2] < total
        BY <1>3, <1>8, <1>10 DEF QueryTypeOK
    <2> QED
        BY <1>1, <1>3, <2>1, <2>2, <2>3 DEF QueryTypeOK, NBuild
<1>12. StageInv'
    <2>1. NBuild <= start'
        BY <1>1, <1>3, Bounds
    <2> QED
        BY <1>1, <1>3, <2>1 DEF DeltaInv, StageInv, NBuild
<1>13. FoundInv' /\ StreamInv' /\ MergedExactly'
    BY <1>1 DEF DeltaInv, FoundInv, StreamInv, MergedExactly, NBuild
<1>14. ScanInv'
    <2>1. NBuild' = NBuild /\ Quiet' = Quiet
        BY <1>1 DEF NBuild, Quiet, Gapless
    <2>2. Scanned' = {i \in NBuild .. total - 1 : i < start + BatchSize /\ HasVector(rows[i + 1])}
        BY <1>1, <2>1 DEF Scanned, HasVector
    <2>3. SUFFICES ASSUME Quiet
                   PROVE  cand' = {<<rows[id + 1], id>> : id \in Scanned'}
        BY <1>1, <2>1 DEF ScanInv
    <2>4. cand = {<<rows[id + 1], id>> : id \in Scanned}
        BY <1>1, <2>3 DEF DeltaInv, ScanInv
    <2>5. ASSUME NEW id \in 0 .. total - 1
          PROVE  Visible(id) /\ (rows[id + 1] # Null <=> HasVector(rows[id + 1]))
        <3>1. id + 1 \in 1 .. Len(rows) /\ id < snap
            BY <1>3, <2>3 DEF Quiet
        <3>2. rows[id + 1] # Deleted
            BY <2>3, <3>1 DEF Quiet, Gapless, Contains
        <3>3. rows[id + 1] \in Distances \cup {Null}
            BY <1>3, <3>1, <3>2 DEF Cells
        <3> QED
            BY <3>1, <3>2, <3>3, Bounds DEF Visible, HasVector
    <2>6. \A i \in 1 .. size : chunk[i] = rows[start + i]
        <3>1. \A i \in 1 .. size : Visible(ids[i])
            BY <1>3, <1>5, <1>6, <2>5
        <3>2. \A i \in 1 .. size : ids[i] + 1 = start + i
            BY <1>3, <1>4, <1>6
        <3>3. \A i \in 1 .. size : chunk[i] = rows[ids[i] + 1]
            <4>1. size \in Nat /\ DOMAIN ids = 1 .. size
                BY <1>4, <1>6
            <4>2. /\ chunk \in [1 .. size -> Cells]
                  /\ \A i \in Seen(ids) : chunk[Place(i, Seen(ids))] = rows[ids[i] + 1]
                BY <4>1 DEF Fetched
            <4>3. Seen(ids) = 1 .. size
                BY <3>1, <4>1 DEF Seen
            <4> QED
                BY <4>1, <4>2, <4>3, PlaceOfAll
        <3> QED
            BY <3>2, <3>3
    <2> DEFINE window == {id \in start .. start + size - 1 : HasVector(rows[id + 1])}
    <2>7. new = {<<rows[id + 1], id>> : id \in window}
        <3>1. ASSUME NEW i \in valid
              PROVE  \E id \in window : <<chunk[i], start + i - 1>> = <<rows[id + 1], id>>
            <4>1. i \in 1 .. size /\ start + i - 1 \in start .. start + size - 1
                  /\ start + i - 1 \in 0 .. total - 1 /\ (start + i - 1) + 1 = start + i
                BY <1>3, <1>4, <1>5 DEF valid
            <4>2. chunk[i] = rows[start + i] /\ chunk[i] # Null
                BY <2>6, <4>1 DEF valid
            <4> QED
                BY <2>5, <4>1, <4>2
        <3>2. ASSUME NEW id \in window
              PROVE  \E i \in valid : <<chunk[i], start + i - 1>> = <<rows[id + 1], id>>
            <4> DEFINE i == id - start + 1
            <4>1. i \in 1 .. size /\ start + i - 1 = id /\ id \in 0 .. total - 1
                  /\ start + i = id + 1
                BY <1>3, <1>4, <1>5
            <4>2. chunk[i] = rows[id + 1] /\ chunk[i] # Null
                BY <2>5, <2>6, <4>1
            <4> QED
                BY <4>1, <4>2 DEF valid
        <3> QED
            BY <3>1, <3>2 DEF new
    <2>8. Scanned' = Scanned \cup window
        <3>1. \A id : id \in NBuild .. total - 1 /\ id < start + BatchSize <=>
                       (id \in NBuild .. total - 1 /\ id < start) \/ id \in start .. start + size - 1
            BY <1>1, <1>3, <1>4, Bounds
        <3> QED
            BY <2>2, <3>1 DEF Scanned
    <2> HIDE DEF window
    <2> QED
        BY <1>8, <2>4, <2>7, <2>8
<1> QED
    BY <1>11, <1>12, <1>13, <1>14 DEF DeltaInv

(* The answers of a merge: the engine's rows as they are rescored, and the *)
(* best candidates.                                                        *)
LEMMA MergeKeeps ==
    ASSUME DeltaInv, Merge
    PROVE  DeltaInv'
<1> DEFINE n == Len(found)
<1>1. /\ at = "scan" /\ start >= total /\ at' = "done"
      /\ UNCHANGED <<rows, committed, built, delta_scan, tree, snap, k, found, total, start, cand>>
    BY DEF Merge, table
<1>2. PICK dists \in Rescored :
        answer' = Best(k, {<<dists[i], found[i], "tree">> : i \in DOMAIN found}
                            \cup {<<c[1], c[2], "delta">> : c \in Best(k, cand)})
    BY DEF Merge
<1>3. PICK chunk \in Fetched(found) :
        dists = [i \in DOMAIN found |-> IF chunk[i] = Null THEN Far ELSE chunk[i]]
    BY <1>2 DEF Rescored
<1>4. /\ QueryTypeOK /\ built /\ NBuild \in Nat /\ NBuild <= Early
      /\ snap <= total /\ NBuild < total /\ Len(rows) \in Nat /\ NBuild <= Len(rows)
      /\ rows \in Seq(Cells \cup {Deleted}) /\ snap \in Nat /\ k \in Nat
      /\ n \in Nat /\ DOMAIN found = 1 .. n /\ total \in 0 .. Len(rows) /\ start \in Nat
      /\ \A i \in 1 .. n : found[i] \in 0 .. NBuild - 1
    BY <1>1, Bounds DEF DeltaInv, StageInv, QueryTypeOK, NBuild
<1>5. \A i \in 1 .. n : found[i] \in RowIds
    BY <1>4, Bounds
<1>6. \A i \in 1 .. n : chunk[i] \in Cells
    BY <1>4, FetchedFacts
<1>7. \A i \in 1 .. n : dists[i] \in Distances \cup {Far}
    BY <1>3, <1>4, <1>6 DEF Cells
<1>8. Ordered(cand) /\ IsFiniteSet(cand) /\ cand \subseteq Candidates /\ cand \subseteq Distances \X RowIds
    <2>1. IsFiniteSet(cand) /\ cand \subseteq Distances \X RowIds
        BY <1>4 DEF QueryTypeOK
    <2>2. cand \subseteq Candidates
        BY <2>1, Bounds DEF Candidates
    <2> QED
        BY <2>1, <2>2, CandidatesOrdered
<1> DEFINE B  == Best(k, cand)
           f  == [i \in 1 .. n |-> <<dists[i], found[i], "tree">>]
           g  == [c \in B |-> <<c[1], c[2], "delta">>]
           T  == {<<dists[i], found[i], "tree">> : i \in 1 .. n}
           D  == {<<c[1], c[2], "delta">> : c \in B}
<1>9. answer' = Best(k, T \cup D)
    BY <1>2, <1>4
<1>10. B \subseteq cand /\ IsFiniteSet(B)
    BY <1>4, <1>8, BestSize
<1>11. IsFiniteSet(T) /\ IsFiniteSet(D)
    <2>1. IsFiniteSet(1 .. n)
        BY <1>4, PositionsSize
    <2>2. DOMAIN f = 1 .. n /\ T = {f[i] : i \in 1 .. n} /\ DOMAIN g = B /\ D = {g[c] : c \in B}
        OBVIOUS
    <2> HIDE DEF f, g, T, D, B
    <2> QED
        BY <1>10, <2>1, <2>2, ImageSize
<1>12. T \cup D \subseteq (Distances \cup {Far}) \X RowIds \X Tags
    <2>1. T \subseteq (Distances \cup {Far}) \X RowIds \X Tags
        BY <1>5, <1>7 DEF Tags
    <2>2. \A c \in B : c[1] \in Distances /\ c[2] \in RowIds
        BY <1>8, <1>10
    <2> HIDE DEF B
    <2>3. D \subseteq (Distances \cup {Far}) \X RowIds \X Tags
        BY <2>2 DEF Tags
    <2> QED
        BY <2>1, <2>3
<1>13. /\ Ordered(T \cup D) /\ IsFiniteSet(T \cup D) /\ T \cup D \subseteq Returned
    <2> HIDE DEF T, D
    <2>1. IsFiniteSet(T \cup D)
        BY <1>11, FS_Union
    <2>2. T \cup D \subseteq Returned
        BY <1>12, Bounds DEF Returned
    <2> QED
        BY <2>1, <2>2, ReturnedOrdered
<1>14. /\ answer' \subseteq T \cup D /\ IsFiniteSet(answer') /\ Cardinality(answer') <= k
    <2> HIDE DEF T, D
    <2> QED
        BY <1>4, <1>9, <1>13, BestSize
<1>15. QueryTypeOK'
    <2> HIDE DEF T, D
    <2>1. answer' \subseteq (Distances \cup {Far}) \X RowIds \X Tags
        BY <1>12, <1>14
    <2> QED
        BY <1>1, <1>4, <1>14, <2>1 DEF QueryTypeOK, NBuild
<1>16. StageInv' /\ FoundInv' /\ StreamInv' /\ ScanInv'
    BY <1>1, <1>4 DEF DeltaInv, StageInv, FoundInv, StreamInv, ScanInv, NBuild
<1>17. MergedExactly'
    <2>1. /\ Gapless' <=> Gapless
          /\ DeltaRows' = DeltaRows /\ TreeRows' = TreeRows
        BY <1>1 DEF Gapless, DeltaRows, TreeRows, NBuild
    <2>2. SUFFICES ASSUME Gapless, total <= snap, Len(rows) = snap
                   PROVE  Pairs' = Best(k, TreeRows \cup DeltaRows)
        BY <1>1, <2>1 DEF MergedExactly
    <2>3. total = snap
        BY <1>4, <2>2
    <2>4. cand = DeltaRows
        <3>1. cand = {<<rows[id + 1], id>> : id \in Scanned}
            BY <1>1, <2>2 DEF DeltaInv, ScanInv, Quiet
        <3>2. \A i \in NBuild .. total - 1 : i < start
            BY <1>1, <1>4
        <3>3. Scanned = {i \in NBuild .. snap - 1 : HasVector(rows[i + 1])}
            BY <2>3, <3>2 DEF Scanned
        <3> QED
            BY <3>1, <3>3 DEF DeltaRows
    <2>5. \A i \in 1 .. n : dists[i] = tree[found[i] + 1]
        <3>1. ASSUME NEW i \in 1 .. n
              PROVE  Visible(found[i]) /\ rows[found[i] + 1] = tree[found[i] + 1]
                     /\ tree[found[i] + 1] \in Distances
            <4>1. found[i] + 1 \in 1 .. Len(tree) /\ found[i] + 1 \in 1 .. Len(rows) /\ found[i] < snap
                BY <1>4, <2>2 DEF NBuild
            <4>2. rows[found[i] + 1] = tree[found[i] + 1] /\ tree[found[i] + 1] \in Distances
                BY <1>4, <2>2, <4>1 DEF Gapless, QueryTypeOK
            <4>3. rows[found[i] + 1] # Deleted
                BY <2>2, <4>1 DEF Gapless, Contains
            <4> QED
                BY <4>1, <4>2, <4>3 DEF Visible
        <3>0. n \in Nat /\ DOMAIN found = 1 .. n /\ \A i \in 1 .. n : Visible(found[i])
            BY <1>4, <3>1
        <3>2. \A i \in 1 .. n : chunk[i] = rows[found[i] + 1]
            <4> HIDE DEF n
            <4>1. /\ chunk \in [1 .. n -> Cells]
                  /\ \A i \in Seen(found) : chunk[Place(i, Seen(found))] = rows[found[i] + 1]
                BY <3>0 DEF Fetched
            <4>2. Seen(found) = 1 .. n
                BY <3>0 DEF Seen
            <4> QED
                BY <3>0, <4>1, <4>2, PlaceOfAll
        <3>3. \A i \in 1 .. n : chunk[i] = tree[found[i] + 1] /\ chunk[i] # Null
            BY <3>1, <3>2, Bounds
        <3> QED
            BY <1>3, <1>4, <3>3
    <2>6. Untagged(T) = TreeRows
        <3>1. Range(found) = {found[i] : i \in 1 .. n}
            BY <1>4 DEF Range
        <3>2. Untagged(T) = {<<dists[i], found[i]>> : i \in 1 .. n}
            <4>1. ASSUME NEW a \in T PROVE <<a[1], a[2]>> \in {<<dists[i], found[i]>> : i \in 1 .. n}
                OBVIOUS
            <4>2. ASSUME NEW i \in 1 .. n PROVE \E a \in T : <<a[1], a[2]>> = <<dists[i], found[i]>>
                <5>1. <<dists[i], found[i], "tree">> \in T
                    OBVIOUS
                <5> HIDE DEF T
                <5> QED
                    BY <5>1
            <4> HIDE DEF T
            <4> QED
                BY <4>1, <4>2 DEF Untagged
        <3> HIDE DEF T
        <3>3. TreeRows = {<<tree[found[i] + 1], found[i]>> : i \in 1 .. n}
            BY <3>1 DEF TreeRows
        <3> QED
            BY <2>5, <3>2, <3>3
    <2>7. Untagged(D) = B
        <3>1. \A c \in B : c = <<c[1], c[2]>>
            BY <1>8, <1>10
        <3> HIDE DEF B
        <3>2. \A a \in D : <<a[1], a[2]>> \in B
            BY <3>1
        <3>3. ASSUME NEW c \in B PROVE \E a \in D : <<a[1], a[2]>> = c
            <4>1. <<c[1], c[2], "delta">> \in D
                OBVIOUS
            <4> HIDE DEF D
            <4> QED
                BY <3>1, <4>1
        <3> HIDE DEF D
        <3> QED
            BY <3>2, <3>3 DEF Untagged
    <2>8. Untagged(T \cup D) = Untagged(T) \cup Untagged(D)
        <3> HIDE DEF T, D
        <3> QED
            BY DEF Untagged
    <2>9. \A a, b \in T \cup D : a[2] = b[2] => a = b
        <3>0. \A i, j \in 1 .. n : found[i] = found[j] => i = j
            BY <1>4 DEF DeltaInv, FoundInv
        <3>1. \A a, b \in T : a[2] = b[2] => a = b
            BY <3>0
        <3>2. \A a \in T : a[2] < NBuild /\ a[2] \in Nat
            BY <1>4
        <3>3. \A c, d \in B : c[2] = d[2] => c = d
            <4> HIDE DEF B
            <4> QED
                BY <1>10, <2>4 DEF DeltaRows
        <3>4. \A c \in B : c[2] >= NBuild /\ c[2] \in Nat
            BY <1>4, <1>8, <1>10, Bounds DEF QueryTypeOK
        <3> HIDE DEF B
        <3>5. \A a, b \in D : a[2] = b[2] => a = b
            BY <3>3
        <3>6. \A a \in D : a[2] >= NBuild /\ a[2] \in Nat
            BY <3>4
        <3> HIDE DEF T, D
        <3> QED
            BY <1>4, <3>1, <3>2, <3>5, <3>6
    <2> HIDE DEF T, D, B
    <2>10. Pairs' = Untagged(answer')
        BY DEF Pairs, Untagged
    <2>11. Untagged(answer') = Best(k, TreeRows \cup B)
        BY <1>4, <1>9, <1>13, <2>6, <2>7, <2>8, <2>9, BestUntagged
    <2>12. Ordered(TreeRows \cup DeltaRows)
        <3>1. /\ TreeRows \cup DeltaRows \in SUBSET Candidates
              /\ IsFiniteSet(TreeRows \cup DeltaRows)
            BY <1>8, <2>4, TreeRowsFacts, FS_Union
        <3> QED
            BY <3>1, CandidatesOrdered
    <2>13. Best(k, TreeRows \cup B) = Best(k, TreeRows \cup DeltaRows)
        BY <1>4, <2>4, <2>12, BestMerges DEF B
    <2> QED
        BY <2>10, <2>11, <2>13
<1> QED
    BY <1>15, <1>16, <1>17 DEF DeltaInv

(* What is packed is no longer the query's.                                *)
LEMMA PackAnswerKeeps ==
    ASSUME DeltaInv, PackAnswer
    PROVE  DeltaInv'
<1>1. /\ at = "done" /\ at' \in {"ready", "packed"}
      /\ found' = <<>> /\ total' = 0 /\ start' = 0 /\ cand' = {} /\ answer' = {}
      /\ UNCHANGED <<rows, committed, built, delta_scan, tree, snap, k>>
    BY DEF PackAnswer, table
<1>2. QueryTypeOK /\ built /\ k \in Nat /\ NBuild \in Nat
    BY <1>1, Bounds DEF DeltaInv, StageInv, QueryTypeOK, NBuild
<1>3. /\ IsFiniteSet({}) /\ Cardinality({}) = 0
      /\ Len(<<>>) = 0 /\ <<>> \in Seq(0 .. NBuild - 1)
    BY FS_EmptySet
<1>4. 0 \in 0 .. MaxRows + BatchSize /\ 0 \in 0 .. Len(rows)
    BY <1>2, Bounds DEF QueryTypeOK
<1>5. QueryTypeOK'
    BY <1>1, <1>2, <1>3, <1>4 DEF QueryTypeOK, NBuild
<1>6. StageInv' /\ FoundInv' /\ StreamInv' /\ ScanInv' /\ MergedExactly'
    BY <1>1, <1>2 DEF DeltaInv, StageInv, FoundInv, StreamInv, ScanInv, MergedExactly, NBuild
<1> QED
    BY <1>5, <1>6 DEF DeltaInv

(* Handing out concerns the batch only.                                    *)
LEMMA HandOutKeeps ==
    ASSUME DeltaInv, HandOut
    PROVE  DeltaInv'
<1>1. /\ at = "packed"
      /\ UNCHANGED <<rows, committed, built, delta_scan, tree, at, snap, k, found, total, start,
                     cand, answer>>
    BY DEF HandOut, table, query
<1>2. QueryTypeOK'
    BY <1>1 DEF DeltaInv, QueryTypeOK, NBuild
<1>3. StageInv' /\ FoundInv' /\ StreamInv' /\ ScanInv' /\ MergedExactly'
    BY <1>1 DEF DeltaInv, StageInv, FoundInv, StreamInv, ScanInv, MergedExactly, NBuild
<1> QED
    BY <1>2, <1>3 DEF DeltaInv

(* A new statement, or none, starts from nothing.                          *)
LEMMA ReaderFinishKeeps ==
    ASSUME DeltaInv, Finish
    PROVE  DeltaInv'
<1>1. /\ at = "packed" /\ at' \in {"ready", "idle"} /\ snap' \in {snap, 0}
      /\ at' = "idle" => n_per_query' = <<>>
      /\ UNCHANGED <<rows, committed, built, delta_scan, tree, k, found, total, start, cand,
                     answer>>
    BY DEF Finish, NewBatch, table, query
<1>2. QueryTypeOK /\ built /\ snap' \in 0 .. committed
    BY <1>1 DEF DeltaInv, StageInv, QueryTypeOK
<1>3. QueryTypeOK'
    BY <1>1, <1>2 DEF QueryTypeOK, NBuild
<1>4. StageInv' /\ FoundInv' /\ StreamInv' /\ ScanInv' /\ MergedExactly'
    BY <1>1, <1>2 DEF DeltaInv, StageInv, FoundInv, StreamInv, ScanInv, MergedExactly, NBuild
<1> QED
    BY <1>3, <1>4 DEF DeltaInv

-----------------------------------------------------------------------------
(* What holds of every behaviour.                                          *)

(* Every step keeps the invariant.                                         *)
LEMMA DeltaInvariance == DeltaInv /\ [Next]_vars => DeltaInv'
<1> SUFFICES ASSUME DeltaInv, [Next]_vars PROVE DeltaInv'
    OBVIOUS
<1>1. CASE Build
    BY <1>1, BuildKeeps
<1>2. ASSUME NEW row \in Cells, AppendRow(row) PROVE DeltaInv'
    BY <1>2, AppendRowKeeps
<1>3. CASE Commit
    BY <1>3, CommitKeeps
<1>4. CASE Begin
    BY <1>4, ReaderBeginKeeps
<1>5. CASE Search
    BY <1>5, SearchKeeps
<1>6. CASE ServeTreeOnly
    BY <1>6, ServeTreeOnlyKeeps
<1>7. CASE BeginMerge
    BY <1>7, BeginMergeKeeps
<1>8. CASE FetchBatch
    BY <1>8, FetchBatchKeeps
<1>9. CASE Merge
    BY <1>9, MergeKeeps
<1>10. CASE PackAnswer
    BY <1>10, PackAnswerKeeps
<1>11. CASE HandOut
    BY <1>11, HandOutKeeps
<1>12. CASE Finish
    BY <1>12, ReaderFinishKeeps
<1>13. CASE UNCHANGED vars
    <2>1. UNCHANGED <<rows, committed, built, delta_scan, tree, at, snap, query, batch>>
        BY <1>13 DEF vars, table, reader
    <2>2. QueryTypeOK' /\ StageInv' /\ FoundInv' /\ StreamInv'
        BY <2>1 DEF DeltaInv, QueryTypeOK, StageInv, FoundInv, StreamInv, query, batch, NBuild
    <2>3. ScanInv' /\ MergedExactly'
        BY <2>1, SameQuery
    <2> QED
        BY <2>2, <2>3 DEF DeltaInv
<1> QED
    BY <1>1, <1>2, <1>3, <1>4, <1>5, <1>6, <1>7, <1>8, <1>9, <1>10, <1>11, <1>12, <1>13 DEF Next

(* So it holds of every reachable state.                                   *)
LEMMA DeltaReachable == Spec => []DeltaInv
BY DeltaInit, DeltaInvariance, PTL DEF Spec

(* Answers reach the output as SextantBatch has it: a step that ends a     *)
(* query packs at most k results, a step that hands rows out is a step of  *)
(* the batch, and the batch is new only when all is out or none is in.     *)
THEOREM BatchImplemented == Spec => ImplementsBatch
<1>1. Init => BatchInit
    BY DEF Init
<1>2. DeltaInv /\ [Next]_vars => [BatchNext]_batch
    <2> SUFFICES ASSUME DeltaInv, [Next]_vars, ~UNCHANGED batch PROVE BatchNext
        OBVIOUS
    <2>1. Begin \/ PackAnswer \/ HandOut \/ Finish
        BY DEF Next, Build, AppendRow, Commit, Search, ServeTreeOnly, BeginMerge, FetchBatch,
               Merge, reader, vars
    <2>2. CASE Begin
        <3>1. n_per_query = <<>>
            BY <2>2 DEF Begin, DeltaInv, StageInv
        <3>2. \E n \in 1 .. MaxQueries : NewBatch(n)
            BY <2>2 DEF Begin
        <3> QED
            BY <3>1, <3>2 DEF BatchNext
    <2>3. CASE PackAnswer
        <3>1. Pack(Cardinality(answer))
            BY <2>3 DEF PackAnswer
        <3>2. IsFiniteSet(answer) /\ Cardinality(answer) <= k /\ k \in Ks
            BY DEF DeltaInv, QueryTypeOK
        <3>3. Cardinality(answer) \in Nat
            BY <3>2, FS_CardinalityType
        <3>4. Cardinality(answer) \in 0 .. MaxAnswers
            BY <3>2, <3>3, Bounds
        <3> QED
            BY <3>1, <3>4 DEF BatchNext
    <2>4. CASE HandOut
        BY <2>4 DEF HandOut, BatchNext
    <2>5. CASE Finish
        <3>1. HandedOut /\ \E n \in 1 .. MaxQueries : NewBatch(n)
            BY <2>5 DEF Finish
        <3> QED
            BY <3>1 DEF BatchNext
    <2> QED
        BY <2>1, <2>2, <2>3, <2>4, <2>5
<1> QED
    BY <1>1, <1>2, DeltaReachable, PTL DEF Spec, ImplementsBatch, BatchSpec

(* The batch of a statement keeps its types, because it is one.            *)
LEMMA BatchReachable == Spec => []BatchTypeOK
BY BatchImplemented, BatchTypeCorrect, PTL DEF ImplementsBatch

(* Results come out in order, none twice and none left out, each under the *)
(* number of the query it answers, whatever is appended meanwhile.         *)
THEOREM DeltaRowsNumbered == Spec => []BatchNumbered
BY BatchImplemented, RowsNumbered, PTL DEF ImplementsBatch

(* Every variable of the table, the query and the batch keeps its type and *)
(* its bound: no more rows than the engine was asked for or has, and no    *)
(* candidate outside the window.                                           *)
THEOREM DeltaTypeCorrect == Spec => []TypeOK
<1>1. DeltaInv /\ BatchTypeOK => TypeOK
    <2> SUFFICES ASSUME DeltaInv, BatchTypeOK PROVE TypeOK
        OBVIOUS
    <2>1. QueryTypeOK /\ NBuild \in Nat /\ MaxRows \in Nat /\ Early \in Nat
        BY Bounds DEF DeltaInv, QueryTypeOK, NBuild
    <2>2. rows \in BoundedSeq(Cells \cup {Deleted}, MaxRows)
        BY <2>1, BoundedSeqFacts DEF QueryTypeOK
    <2>3. tree \in BoundedSeq(Distances, Early)
        BY <2>1, BoundedSeqFacts DEF QueryTypeOK, NBuild
    <2>4. 0 .. NBuild - 1 \subseteq RowIds
        BY <2>1, Bounds DEF QueryTypeOK
    <2>5. found \in Seq(RowIds) /\ Len(found) <= NBuild
        BY <2>1, <2>4 DEF QueryTypeOK
    <2>6. found \in BoundedSeq(RowIds, Len(tree))
        BY <2>1, <2>5, BoundedSeqFacts DEF NBuild
    <2> QED
        BY <2>1, <2>2, <2>3, <2>6 DEF QueryTypeOK, TypeOK, Tags
<1> QED
    BY <1>1, DeltaReachable, BatchReachable, PTL

(* A merge gives the k best of the engine's rows and of all appended rows  *)
(* the transaction sees, if the build left no gaps and no append is newer  *)
(* than the transaction.                                                   *)
THEOREM MergesAreExact == Spec => []MergedExactly
<1>1. DeltaInv => MergedExactly
    BY DEF DeltaInv
<1> QED
    BY <1>1, DeltaReachable, PTL

-----------------------------------------------------------------------------
(* A statement gets on.                                                    *)

(* What the bound on a statement's steps counts, wherever its query is.    *)
LEMMA StepsCounted ==
    ASSUME DeltaInv, BatchTypeOK
    PROVE  /\ Len(row_ids) - offset \in Nat /\ QueriesLeft \in Nat
           /\ QuerySteps \in Nat /\ QuerySteps = MaxRows + MaxAnswers + 4
           /\ (QueriesLeft - 1) * QuerySteps \in Int
           /\ QueriesLeft * QuerySteps = (QueriesLeft - 1) * QuerySteps + QuerySteps
           /\ RowsLeft \in 0 .. MaxRows
<1>1. /\ row_ids \in Seq(Results) /\ offset \in 0 .. Len(row_ids)
      /\ n_queries \in Nat /\ Len(n_per_query) \in Nat /\ Len(n_per_query) <= n_queries
    BY DEF BatchTypeOK
<1>2. Len(row_ids) - offset \in Nat /\ QueriesLeft \in Nat
    BY <1>1 DEF QueriesLeft
<1>3. QuerySteps \in Nat /\ QuerySteps = MaxRows + MaxAnswers + 4
    BY Bounds DEF QuerySteps
<1>4. \A m, n \in Int : (m - 1) * n \in Int /\ m * n = (m - 1) * n + n
    OBVIOUS
<1>5. RowsLeft \in 0 .. MaxRows
    <2>1. total \in Nat /\ start \in Nat /\ total <= MaxRows
        BY Bounds DEF DeltaInv, QueryTypeOK
    <2> QED
        BY <2>1, Bounds DEF RowsLeft
<1> QED
    BY <1>2, <1>3, <1>4, <1>5

(* Each step of a statement brings its end nearer, also a batch of rows    *)
(* none of which its transaction sees; nothing that others do puts it off. *)
THEOREM StatementsGetOn == Spec => StatementAdvances
<1>1. ASSUME DeltaInv, BatchTypeOK, Next, at # "idle", ~Finish
      PROVE  \/ table' = table /\ StepsLeft' < StepsLeft
             \/ table' # table /\ StepsLeft' = StepsLeft
    <2> DEFINE left  == Len(row_ids) - offset
               later == (QueriesLeft - 1) * QuerySteps
    <2>1. /\ left \in Nat /\ QueriesLeft \in Nat /\ later \in Int
          /\ QuerySteps = MaxRows + MaxAnswers + 4
          /\ QueriesLeft * QuerySteps = later + QuerySteps
          /\ RowsLeft \in 0 .. MaxRows /\ MaxRows \in Nat /\ MaxAnswers \in Nat
        BY <1>1, StepsCounted, Bounds
    <2>2. /\ at = "ready" => StepsLeft = left + later + QuerySteps
          /\ at = "searched" => StepsLeft = left + later + QuerySteps - 1
          /\ at = "scan" => StepsLeft = left + later + MaxAnswers + 2 + RowsLeft
          /\ at = "done" => StepsLeft = left + later + MaxAnswers + 1
          /\ at = "packed" => StepsLeft = left
        <3> DEFINE all == QueriesLeft * QuerySteps
        <3>1. /\ at = "ready" => StepsLeft = left + all
              /\ at = "searched" => StepsLeft = left + (all - 1)
              /\ at = "scan" => StepsLeft = left + (later + MaxAnswers + 2 + RowsLeft)
              /\ at = "done" => StepsLeft = left + (later + MaxAnswers + 1)
              /\ at = "packed" => StepsLeft = left + 0
            BY DEF StepsLeft
        <3>2. all = later + QuerySteps
            BY <2>1
        <3> HIDE DEF left, later, all
        <3> QED
            BY <2>1, <3>1, <3>2
    <2>3. ASSUME UNCHANGED batch
          PROVE  /\ at' = "searched" => StepsLeft' = left + later + QuerySteps - 1
                 /\ at' = "scan" => StepsLeft' = left + (later + MaxAnswers + 2 + RowsLeft')
                 /\ at' = "done" => StepsLeft' = left + later + MaxAnswers + 1
        <3> DEFINE all == QueriesLeft * QuerySteps
        <3>1. QueriesLeft' = QueriesLeft /\ row_ids' = row_ids /\ offset' = offset
            BY <2>3 DEF batch, QueriesLeft
        <3>2. QuerySteps' = QuerySteps
            BY DEF QuerySteps, MaxRows
        <3>3. /\ at' = "searched" => StepsLeft' = left + (all - 1)
              /\ at' = "scan" => StepsLeft' = left + (later + MaxAnswers + 2 + RowsLeft')
              /\ at' = "done" => StepsLeft' = left + (later + MaxAnswers + 1)
            BY <3>1, <3>2 DEF StepsLeft
        <3>4. all = later + QuerySteps
            BY <2>1
        <3> HIDE DEF left, later, all
        <3> QED
            BY <2>1, <3>3, <3>4
    <2> HIDE DEF left, later
    <2>4. ASSUME UNCHANGED reader PROVE StepsLeft' = StepsLeft
        BY <2>4 DEF reader, query, batch, StepsLeft, QueriesLeft, QuerySteps, RowsLeft
    <2>5. Len(rows) \in Nat /\ rows \in Seq(Cells \cup {Deleted}) /\ Len(rows) <= MaxRows
        BY <1>1, <2>1 DEF DeltaInv, QueryTypeOK
    <2>6. CASE Build
        BY <1>1, <2>6 DEF Build, DeltaInv, StageInv
    <2>7. ASSUME NEW row \in Cells, AppendRow(row)
          PROVE  table' # table /\ StepsLeft' = StepsLeft
        <3>1. UNCHANGED reader /\ Len(rows') = Len(rows) + 1
            BY <2>5, <2>7 DEF AppendRow
        <3> QED
            BY <2>4, <2>5, <3>1 DEF table
    <2>8. CASE Commit
        <3>1. UNCHANGED reader /\ committed' # committed
            BY <1>1, <2>5, <2>8 DEF Commit, DeltaInv, QueryTypeOK
        <3> QED
            BY <2>4, <3>1 DEF table
    <2>9. CASE Search
        <3>1. at = "ready" /\ at' = "searched" /\ table' = table /\ UNCHANGED batch
            BY <2>9 DEF Search
        <3> QED
            BY <2>1, <2>2, <2>3, <3>1
    <2>10. CASE ServeTreeOnly
        <3>1. at = "searched" /\ at' = "done" /\ table' = table /\ UNCHANGED batch
            BY <2>10 DEF ServeTreeOnly
        <3> QED
            BY <2>1, <2>2, <2>3, <3>1
    <2>11. CASE BeginMerge
        <3>1. /\ at = "searched" /\ at' = "scan" /\ table' = table /\ UNCHANGED batch
              /\ total' = Len(rows) /\ start' = NBuild /\ NBuild \in Nat
            BY <1>1, <2>11 DEF BeginMerge, DeltaInv, QueryTypeOK, NBuild
        <3>2. PICK m \in 0 .. MaxRows : RowsLeft' = m
            BY <2>1, <2>5, <3>1 DEF RowsLeft
        <3>3. /\ StepsLeft = left + later + QuerySteps - 1
              /\ StepsLeft' = left + (later + MaxAnswers + 2 + m)
            BY <2>2, <2>3, <3>1, <3>2
        <3> QED
            BY <2>1, <3>1, <3>3
    <2>12. CASE FetchBatch
        <3>1. /\ at = "scan" /\ at' = "scan" /\ table' = table /\ UNCHANGED batch
              /\ start < total /\ start' = start + BatchSize /\ total' = total
              /\ start \in Nat /\ total \in Nat /\ BatchSize \in Nat /\ BatchSize > 0
            BY <1>1, <2>5, <2>12, Bounds DEF FetchBatch, DeltaInv, QueryTypeOK
        <3>0. RowsLeft' < RowsLeft /\ RowsLeft' \in Nat
            BY <3>1 DEF RowsLeft
        <3>2. PICK m \in Nat : RowsLeft' = m /\ m < RowsLeft
            BY <3>0
        <3>3. /\ StepsLeft = left + later + MaxAnswers + 2 + RowsLeft
              /\ StepsLeft' = left + (later + MaxAnswers + 2 + m)
            BY <2>2, <2>3, <3>1, <3>2
        <3>4. m < RowsLeft /\ table' = table
            BY <3>1, <3>2
        <3> QED
            BY <2>1, <3>3, <3>4
    <2>13. CASE Merge
        <3>1. at = "scan" /\ at' = "done" /\ table' = table /\ UNCHANGED batch
            BY <2>13 DEF Merge
        <3> QED
            BY <2>1, <2>2, <2>3, <3>1
    <2>14. CASE PackAnswer
        <3> DEFINE n == Cardinality(answer)
        <3>1. /\ at = "done" /\ table' = table /\ Pack(n)
              /\ at' = IF Len(n_per_query) + 1 < n_queries THEN "ready" ELSE "packed"
            BY <2>14 DEF PackAnswer
        <3>2. n \in 0 .. MaxAnswers
            <4>1. IsFiniteSet(answer) /\ n <= k /\ k \in Ks
                BY <1>1 DEF DeltaInv, QueryTypeOK
            <4> QED
                BY <4>1, FS_CardinalityType, Bounds
        <3> HIDE DEF n
        <3>3. /\ row_ids \in Seq(Results) /\ n_per_query \in Seq(Nat)
              /\ n_queries \in Nat /\ offset \in Nat /\ Len(n_per_query) < n_queries
              /\ Len(n_per_query) \in Nat
            BY <1>1, <3>1 DEF BatchTypeOK, Pack, AllPacked
        <3>4. /\ row_ids' = row_ids \o [i \in 1 .. n |-> <<Len(n_per_query) + 1, i>>]
              /\ n_per_query' = Append(n_per_query, Len(row_ids) + n)
              /\ n_queries' = n_queries /\ offset' = offset
            BY <3>1 DEF Pack
        <3>5. Len(row_ids') = Len(row_ids) + n
            BY <3>2, <3>3, <3>4
        <3>6. Len(n_per_query') = Len(n_per_query) + 1
            BY <3>2, <3>3, <3>4
        <3>7. Len(row_ids') - offset' = left + n
            BY <3>2, <3>3, <3>4, <3>5 DEF left
        <3>8. QueriesLeft' = QueriesLeft - 1 /\ QueriesLeft = n_queries - Len(n_per_query)
            BY <3>3, <3>4, <3>6 DEF QueriesLeft
        <3>9. CASE Len(n_per_query) + 1 < n_queries
            <4>1. at' = "ready" /\ QuerySteps' = QuerySteps
                BY <3>1, <3>9 DEF QuerySteps, MaxRows
            <4>2. StepsLeft' = left + n + later
                BY <3>7, <3>8, <4>1 DEF StepsLeft, later
            <4> QED
                BY <2>1, <2>2, <3>1, <3>2, <4>2
        <3>10. CASE ~(Len(n_per_query) + 1 < n_queries)
            <4>1. at' = "packed"
                BY <3>1, <3>10
            <4>2. StepsLeft' = left + n
                BY <2>1, <3>2, <3>7, <4>1 DEF StepsLeft
            <4>3. QueriesLeft - 1 = 0
                BY <3>3, <3>8, <3>10
            <4>4. later = 0
                BY <2>1, <4>3 DEF later
            <4> QED
                BY <2>1, <2>2, <3>1, <3>2, <4>2, <4>4
        <3> QED
            BY <3>9, <3>10
    <2>15. CASE HandOut
        <3>1. /\ at = "packed" /\ at' = "packed" /\ table' = table
              /\ offset # Len(row_ids) /\ offset' = offset + ChunkCount /\ row_ids' = row_ids
              /\ row_ids \in Seq(Results) /\ offset \in 0 .. Len(row_ids)
            BY <1>1, <2>15 DEF HandOut, Emit, HandedOut, BatchTypeOK
        <3>2. ChunkCount \in Nat /\ ChunkCount >= 1
            BY <3>1, Bounds DEF ChunkCount
        <3>3. StepsLeft' = Len(row_ids) - (offset + ChunkCount)
            BY <3>1, <3>2 DEF StepsLeft
        <3> QED
            BY <2>2, <3>1, <3>2, <3>3 DEF left
    <2> QED
        BY <1>1, <2>6, <2>7, <2>8, <2>9, <2>10, <2>11, <2>12, <2>13, <2>14, <2>15
        DEF Next, Begin
<1>2. DeltaInv /\ BatchTypeOK /\ [Next]_vars =>
        [at # "idle" /\ ~Finish =>
            \/ table' = table /\ StepsLeft' < StepsLeft
            \/ table' # table /\ StepsLeft' = StepsLeft]_vars
    BY <1>1
<1> QED
    BY <1>2, DeltaReachable, BatchReachable, PTL DEF Spec, StatementAdvances
=============================================================================
