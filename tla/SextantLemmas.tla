---------------------------- MODULE SextantLemmas ----------------------------
(***************************************************************************)
(* Facts about the operators of the community modules, and about sets of   *)
(* rows told apart by a number, that the proofs of several modules need.   *)
(***************************************************************************)
EXTENDS Integers, Sequences, FiniteSets, FiniteSetsExt, SequencesExt,
        FiniteSetTheorems, SequenceTheorems, TLAPS

(* A set of numbers that is not empty has a least element, which Min is.   *)
LEMMA MinFacts ==
    ASSUME NEW S \in SUBSET Nat, S # {}
    PROVE  Min(S) \in S /\ \A y \in S : Min(S) <= y
<1> DEFINE T == {0 .. x - 1 : x \in S}
<1>1. T \subseteq FiniteSubsetsOf(Nat) /\ T # {}
    <2>1. \A x \in S : 0 .. x - 1 \in SUBSET Nat /\ IsFiniteSet(0 .. x - 1)
        BY FS_Interval
    <2> QED
        BY <2>1 DEF FiniteSubsetsOf
<1>2. PICK X \in T : \A Y \in T : <<Y, X>> \notin StrictSubsetOrdering(Nat)
    BY <1>1, FS_StrictSubsetOrderingWellFounded, WFMin
<1>3. PICK x \in S : X = 0 .. x - 1
    OBVIOUS
<1>4. ASSUME NEW y \in S PROVE x <= y
    <2>1. SUFFICES ASSUME y < x PROVE FALSE
        OBVIOUS
    <2>2. 0 .. y - 1 \subseteq 0 .. x - 1 /\ y \in 0 .. x - 1 /\ y \notin 0 .. y - 1
        BY <2>1
    <2>3. 0 .. y - 1 \in T /\ 0 .. y - 1 \in SUBSET Nat /\ 0 .. x - 1 \in SUBSET Nat
        OBVIOUS
    <2> QED
        BY <1>2, <1>3, <2>2, <2>3 DEF StrictSubsetOrdering
<1> QED
    BY <1>4 DEF Min

(* Rows told apart by a number below n are finite, and at most n.          *)
LEMMA NumberedSize ==
    ASSUME NEW n \in Nat, NEW S,
           \A r \in S : r[1] \in 0 .. n - 1,
           \A r, s \in S : r[1] = s[1] => r = s
    PROVE  IsFiniteSet(S) /\ Cardinality(S) <= n
<1> DEFINE f == [r \in S |-> r[1]]
<1>1. f \in Injection(S, 0 .. n - 1)
    BY DEF Injection, IsInjective
<1>2. IsFiniteSet(0 .. n - 1) /\ Cardinality(0 .. n - 1) = n
    BY FS_Interval
<1> QED
    BY <1>1, <1>2, FS_Injection

(* Removing an element from a sequence moves those behind it up.           *)
LEMMA RemoveAtFacts ==
    ASSUME NEW T, NEW s \in Seq(T), NEW i \in 1 .. Len(s)
    PROVE  /\ RemoveAt(s, i) \in Seq(T)
           /\ Len(RemoveAt(s, i)) = Len(s) - 1
           /\ \A j \in 1 .. Len(s) - 1 :
                RemoveAt(s, i)[j] = IF j < i THEN s[j] ELSE s[j + 1]
<1> DEFINE a == SubSeq(s, 1, i - 1)
           b == SubSeq(s, i + 1, Len(s))
<1>1. a \in Seq(T) /\ Len(a) = i - 1 /\ \A j \in 1 .. i - 1 : a[j] = s[j]
    OBVIOUS
<1>2. b \in Seq(T) /\ Len(b) = Len(s) - i /\ \A j \in 1 .. Len(s) - i : b[j] = s[i + j]
    OBVIOUS
<1>3. RemoveAt(s, i) = a \o b
    BY DEF RemoveAt
<1> HIDE DEF a, b
<1>4. /\ a \o b \in Seq(T) /\ Len(a \o b) = Len(a) + Len(b)
      /\ \A j \in 1 .. Len(a) + Len(b) :
           (a \o b)[j] = IF j <= Len(a) THEN a[j] ELSE b[j - Len(a)]
    BY <1>1, <1>2, ConcatProperties
<1>5. ASSUME NEW j \in 1 .. Len(s) - 1
      PROVE  (a \o b)[j] = IF j < i THEN s[j] ELSE s[j + 1]
    <2>1. CASE j < i
        <3>1. j \in 1 .. i - 1 /\ j <= Len(a)
            BY <1>1, <2>1
        <3> QED
            BY <1>1, <1>2, <1>4, <2>1, <3>1
    <2>2. CASE ~ (j < i)
        <3>1. j - Len(a) \in 1 .. Len(s) - i /\ ~ (j <= Len(a)) /\ i + (j - Len(a)) = j + 1
            BY <1>1, <2>2
        <3>2. b[j - Len(a)] = s[j + 1]
            BY <1>2, <3>1
        <3>3. (a \o b)[j] = b[j - Len(a)]
            BY <1>1, <1>2, <1>4, <3>1
        <3> QED
            BY <2>2, <3>2, <3>3
    <2> QED
        BY <2>1, <2>2
<1> QED
    BY <1>1, <1>2, <1>3, <1>4, <1>5

(* The sequences over S of at most n elements.                             *)
LEMMA BoundedSeqFacts ==
    ASSUME NEW S, NEW n \in Nat, NEW s
    PROVE  s \in BoundedSeq(S, n) <=> s \in Seq(S) /\ Len(s) <= n
<1>1. ASSUME s \in BoundedSeq(S, n) PROVE s \in Seq(S) /\ Len(s) <= n
    <2>1. PICK m \in 0 .. n : s \in [1 .. m -> S]
        BY <1>1 DEF BoundedSeq, SeqOf
    <2> QED
        BY <2>1
<1>2. ASSUME s \in Seq(S), Len(s) <= n PROVE s \in BoundedSeq(S, n)
    <2>1. Len(s) \in 0 .. n /\ s \in [1 .. Len(s) -> S]
        BY <1>2
    <2> QED
        BY <2>1 DEF BoundedSeq, SeqOf
<1> QED
    BY <1>1, <1>2

(* What a function gives of a finite set is finite, and not more.          *)
LEMMA ImageSize ==
    ASSUME NEW S, IsFiniteSet(S), NEW f, DOMAIN f = S,
           NEW T, T = {f[x] : x \in S}
    PROVE  IsFiniteSet(T) /\ Cardinality(T) \in Nat /\ Cardinality(T) <= Cardinality(S)
<1> DEFINE g == [x \in S |-> f[x]]
<1>1. g \in Surjection(S, T)
    BY DEF Surjection
<1> QED
    BY <1>1, FS_Surjection, FS_CardinalityType

(* A function on 1 .. n is a sequence.                                     *)
LEMMA SeqOfFunction ==
    ASSUME NEW S, NEW n \in Nat, NEW s \in [1 .. n -> S]
    PROVE  s \in Seq(S) /\ Len(s) = n /\ DOMAIN s = 1 .. n
OBVIOUS

(* The positions of a sequence.                                            *)
LEMMA PositionsSize ==
    ASSUME NEW n \in Nat
    PROVE  IsFiniteSet(1 .. n) /\ Cardinality(1 .. n) = n
<1>1. 1 \in Int /\ n \in Int
    OBVIOUS
<1> QED
    BY <1>1, FS_Interval

-----------------------------------------------------------------------------
(* A finite set in an order, given as the pairs it holds of.               *)
TotalOn(R, S) ==
    /\ IsFiniteSet(S)
    /\ \A a \in S : <<a, a>> \notin R
    /\ \A a, b \in S : a # b => <<a, b>> \in R \/ <<b, a>> \in R
    /\ \A a, b, c \in S : <<a, b>> \in R /\ <<b, c>> \in R => <<a, c>> \in R

BelowIn(m, S, R)   == {o \in S : <<o, m>> \in R}
RankIn(m, S, R)    == Cardinality(BelowIn(m, S, R))
FirstOf(n, S, R)   == {m \in S : RankIn(m, S, R) < n}

(* Each element of the set has a rank of its own, from 0 on.               *)
LEMMA Ranks ==
    ASSUME NEW S, NEW R, TotalOn(R, S)
    PROVE  /\ Cardinality(S) \in Nat
           /\ \A m \in S : RankIn(m, S, R) \in 0 .. Cardinality(S) - 1
           /\ \A a, b \in S : <<a, b>> \in R => RankIn(a, S, R) < RankIn(b, S, R)
           /\ \A a, b \in S : RankIn(a, S, R) = RankIn(b, S, R) => a = b
           /\ \A n \in 0 .. Cardinality(S) - 1 : \E m \in S : RankIn(m, S, R) = n
<1> DEFINE size == Cardinality(S)
           r    == [m \in S |-> RankIn(m, S, R)]
<1>1. IsFiniteSet(S) /\ size \in Nat
    BY FS_CardinalityType DEF TotalOn
<1>2. ASSUME NEW T \in SUBSET S, NEW m \in S, m \notin T
      PROVE  Cardinality(T) \in Nat /\ Cardinality(T) < size
    <2>1. IsFiniteSet(T) /\ Cardinality(T) <= size /\ (size = Cardinality(T) => S = T)
        BY <1>1, FS_Subset
    <2>2. Cardinality(T) \in Nat
        BY <2>1, FS_CardinalityType
    <2> QED
        BY <1>1, <1>2, <2>1, <2>2
<1>3. ASSUME NEW m \in S PROVE RankIn(m, S, R) \in 0 .. size - 1
    <2>1. BelowIn(m, S, R) \in SUBSET S /\ m \notin BelowIn(m, S, R)
        BY DEF BelowIn, TotalOn
    <2>2. Cardinality(BelowIn(m, S, R)) \in Nat /\ Cardinality(BelowIn(m, S, R)) < size
        BY <1>2, <2>1
    <2> QED
        BY <1>1, <2>2 DEF RankIn
<1>4. ASSUME NEW a \in S, NEW b \in S, <<a, b>> \in R PROVE RankIn(a, S, R) < RankIn(b, S, R)
    <2>1. /\ BelowIn(a, S, R) \subseteq BelowIn(b, S, R)
          /\ a \in BelowIn(b, S, R) /\ a \notin BelowIn(a, S, R)
        BY <1>4 DEF BelowIn, TotalOn
    <2>2. IsFiniteSet(BelowIn(b, S, R))
        BY <1>1, FS_Subset DEF BelowIn
    <2>3. /\ Cardinality(BelowIn(a, S, R)) <= Cardinality(BelowIn(b, S, R))
          /\ Cardinality(BelowIn(b, S, R)) # Cardinality(BelowIn(a, S, R))
        BY <2>1, <2>2, FS_Subset
    <2> QED
        BY <1>3, <2>3 DEF RankIn
<1>5. ASSUME NEW a \in S, NEW b \in S, RankIn(a, S, R) = RankIn(b, S, R) PROVE a = b
    <2>1. a # b => <<a, b>> \in R \/ <<b, a>> \in R
        BY DEF TotalOn
    <2>2. RankIn(a, S, R) \in Nat /\ RankIn(b, S, R) \in Nat
        BY <1>1, <1>3
    <2>3. /\ <<a, b>> \in R => RankIn(a, S, R) < RankIn(b, S, R)
          /\ <<b, a>> \in R => RankIn(b, S, R) < RankIn(a, S, R)
        BY <1>4
    <2> QED
        BY <1>5, <2>1, <2>2, <2>3
<1>6. ASSUME NEW n \in 0 .. size - 1 PROVE \E m \in S : RankIn(m, S, R) = n
    <2>1. r \in Injection(S, 0 .. size - 1)
        BY <1>3, <1>5 DEF Injection, IsInjective
    <2>2. IsFiniteSet(0 .. size - 1) /\ Cardinality(0 .. size - 1) = size
        <3>1. 0 \in Int /\ size - 1 \in Int
            BY <1>1
        <3> QED
            BY <1>1, <3>1, FS_Interval
    <2>3. r \in Surjection(S, 0 .. size - 1)
        BY <2>1, <2>2, FS_Injection
    <2> QED
        BY <2>3 DEF Surjection
<1> QED
    BY <1>1, <1>3, <1>4, <1>5, <1>6

(* The first n are n, or all if there are no more.                         *)
LEMMA FirstSize ==
    ASSUME NEW S, NEW R, TotalOn(R, S), NEW n \in Nat
    PROVE  /\ FirstOf(n, S, R) \subseteq S /\ IsFiniteSet(FirstOf(n, S, R))
           /\ Cardinality(FirstOf(n, S, R)) \in Nat /\ Cardinality(FirstOf(n, S, R)) <= n
           /\ Cardinality(S) >= n => Cardinality(FirstOf(n, S, R)) = n
           /\ Cardinality(S) <= n => FirstOf(n, S, R) = S
<1> DEFINE B == FirstOf(n, S, R)
           r == [m \in B |-> RankIn(m, S, R)]
<1>1. B = {m \in S : RankIn(m, S, R) < n}
    BY DEF FirstOf
<1>2. IsFiniteSet(S) /\ B \subseteq S /\ IsFiniteSet(B)
    BY <1>1, FS_Subset DEF TotalOn
<1>3. Cardinality(B) \in Nat /\ Cardinality(S) \in Nat
    BY <1>2, FS_CardinalityType
<1>4. r \in Injection(B, 0 .. n - 1)
    <2>1. \A m \in B : r[m] \in 0 .. n - 1
        BY <1>1, Ranks
    <2>2. \A a, b \in B : r[a] = r[b] => a = b
        BY <1>1, Ranks
    <2> QED
        BY <2>1, <2>2 DEF Injection, IsInjective
<1>5. IsFiniteSet(0 .. n - 1) /\ Cardinality(0 .. n - 1) = n
    <2>1. 0 \in Int /\ n - 1 \in Int
        OBVIOUS
    <2> QED
        BY <2>1, FS_Interval
<1>6. /\ Cardinality(B) <= n
      /\ r \in Surjection(B, 0 .. n - 1) => Cardinality(B) = n
    BY <1>4, <1>5, FS_Injection
<1>7. ASSUME Cardinality(S) >= n PROVE Cardinality(B) = n
    <2>1. ASSUME NEW i \in 0 .. n - 1 PROVE \E m \in B : r[m] = i
        <3>1. i \in 0 .. Cardinality(S) - 1
            BY <1>3, <1>7
        <3>2. PICK m \in S : RankIn(m, S, R) = i
            BY <3>1, Ranks
        <3> QED
            BY <1>1, <3>2
    <2>2. r \in Surjection(B, 0 .. n - 1)
        BY <1>4, <2>1 DEF Surjection, Injection
    <2> QED
        BY <1>6, <2>2
<1>8. ASSUME Cardinality(S) <= n PROVE B = S
    BY <1>1, <1>3, <1>8, Ranks
<1> QED
    BY <1>2, <1>3, <1>6, <1>7, <1>8

(* A part of an ordered set is ordered; an element ranks no higher in it.  *)
LEMMA RankInPart ==
    ASSUME NEW S, NEW R, TotalOn(R, S), NEW T \in SUBSET S
    PROVE  /\ TotalOn(R, T)
           /\ Cardinality(T) \in Nat /\ Cardinality(S) \in Nat
           /\ Cardinality(T) <= Cardinality(S)
           /\ \A m : /\ RankIn(m, T, R) \in Nat /\ RankIn(m, S, R) \in Nat
                     /\ RankIn(m, T, R) <= RankIn(m, S, R)
<1>1. IsFiniteSet(S) /\ IsFiniteSet(T)
    BY FS_Subset DEF TotalOn
<1>2. TotalOn(R, T)
    BY <1>1 DEF TotalOn
<1>3. ASSUME NEW m
      PROVE  /\ RankIn(m, T, R) \in Nat /\ RankIn(m, S, R) \in Nat
             /\ RankIn(m, T, R) <= RankIn(m, S, R)
    <2>1. BelowIn(m, S, R) \in SUBSET S /\ BelowIn(m, T, R) \in SUBSET BelowIn(m, S, R)
        BY DEF BelowIn
    <2>2. IsFiniteSet(BelowIn(m, S, R)) /\ IsFiniteSet(BelowIn(m, T, R))
        BY <1>1, <2>1, FS_Subset
    <2> QED
        BY <2>1, <2>2, FS_Subset, FS_CardinalityType DEF RankIn
<1> QED
    BY <1>1, <1>2, <1>3, FS_Subset, FS_CardinalityType

(* A part that holds the first n ranks them as the whole does, and has no  *)
(* other first n.                                                          *)
LEMMA FirstOnesDecide ==
    ASSUME NEW S, NEW R, TotalOn(R, S), NEW T \in SUBSET S, NEW n \in Nat,
           FirstOf(n, S, R) \subseteq T
    PROVE  /\ \A m \in T : RankIn(m, T, R) < n <=> RankIn(m, S, R) < n
           /\ \A m \in T : RankIn(m, S, R) < n => RankIn(m, T, R) = RankIn(m, S, R)
           /\ FirstOf(n, T, R) = FirstOf(n, S, R)
           /\ Cardinality(S) >= n => Cardinality(T) >= n
           /\ Cardinality(S) <= n => T = S
<1> DEFINE F == FirstOf(n, S, R)
<1>1. F = {m \in S : RankIn(m, S, R) < n}
    BY DEF FirstOf
<1>2. /\ TotalOn(R, T) /\ IsFiniteSet(S) /\ IsFiniteSet(T)
      /\ Cardinality(S) \in Nat /\ Cardinality(T) \in Nat
      /\ \A m : /\ RankIn(m, T, R) \in Nat /\ RankIn(m, S, R) \in Nat
                /\ RankIn(m, T, R) <= RankIn(m, S, R)
    BY RankInPart DEF TotalOn
<1>3. ASSUME NEW m \in T, RankIn(m, S, R) < n PROVE RankIn(m, T, R) = RankIn(m, S, R)
    <2>1. ASSUME NEW o \in S, <<o, m>> \in R PROVE o \in T
        <3>1. RankIn(o, S, R) < RankIn(m, S, R)
            BY <2>1, Ranks
        <3>2. RankIn(o, S, R) < n
            BY <1>2, <1>3, <3>1
        <3> QED
            BY <1>1, <3>2
    <2>2. BelowIn(m, T, R) = BelowIn(m, S, R)
        BY <2>1 DEF BelowIn
    <2> QED
        BY <2>2 DEF RankIn
<1>4. ASSUME NEW m \in T, RankIn(m, S, R) >= n PROVE RankIn(m, T, R) >= n
    <2>1. \A o \in F : <<o, m>> \in R
        <3> SUFFICES ASSUME NEW o \in F, <<o, m>> \notin R PROVE FALSE
            OBVIOUS
        <3>1. o \in S /\ RankIn(o, S, R) < n /\ m \in S
            BY <1>1
        <3>2. o # m
            BY <1>2, <1>4, <3>1
        <3>3. <<m, o>> \in R
            BY <3>1, <3>2 DEF TotalOn
        <3>4. RankIn(m, S, R) < RankIn(o, S, R)
            BY <3>1, <3>3, Ranks
        <3> QED
            BY <1>2, <1>4, <3>1, <3>4
    <2> HIDE DEF F
    <2>2. F \in SUBSET BelowIn(m, T, R) /\ BelowIn(m, T, R) \in SUBSET T
        BY <2>1 DEF BelowIn, F
    <2>3. IsFiniteSet(BelowIn(m, T, R))
        BY <1>2, <2>2, FS_Subset
    <2>4. Cardinality(F) <= RankIn(m, T, R)
        BY <2>2, <2>3, FS_Subset DEF RankIn
    <2>5. RankIn(m, S, R) < Cardinality(S)
        BY <1>2, Ranks
    <2>6. Cardinality(F) = n
        BY <1>2, <1>4, <2>5, FirstSize DEF F
    <2> QED
        BY <2>4, <2>6
<1>5. \A m \in T : RankIn(m, T, R) < n <=> RankIn(m, S, R) < n
    BY <1>2, <1>3, <1>4
<1>6. FirstOf(n, T, R) = F
    BY <1>1, <1>5 DEF FirstOf
<1>7. ASSUME Cardinality(S) >= n PROVE Cardinality(T) >= n
    <2>1. Cardinality(F) = n
        BY <1>7, FirstSize
    <2> QED
        BY <1>2, <2>1, FS_Subset
<1>8. ASSUME Cardinality(S) <= n PROVE T = S
    BY <1>8, FirstSize
<1> QED
    BY <1>3, <1>5, <1>6, <1>7, <1>8
=============================================================================
