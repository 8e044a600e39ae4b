------------------------- MODULE SextantTableProofs -------------------------
(***************************************************************************)
(* Proofs about SextantTable, for any number of transactions, paths, rows  *)
(* and builds: no index rots, or answers from another's tree or with other *)
(* rows than the table's, but for what its history excuses; no commit      *)
(* fails on an index the fence has seen; and SextantIndex::Delete is       *)
(* reached only through a build that was raced or masked.                  *)
(***************************************************************************)
EXTENDS SextantTable, SextantLemmas

USE TableAssumption

(* A build that has its number.                                            *)
Numbered(t) == build[t].stage \in {"finished", "attached"}

(* The number is its own: what bears it is the tree it built.              *)
Known(ix) ==
    /\ ix.built.uuid \in 1 .. builds
    /\ \A p \in Paths : file[p].uuid = ix.built.uuid => file[p] = ix.built

(* An index has the identity of its build, and is attached to that tree or *)
(* to none.                                                                *)
Identified(ix) ==
    \/ ix.past \cap {"overwritten", "forgotten"} # {}
    \/ /\ ix.tree_uuid = ix.built.uuid
       /\ ix.blob.tree_uuid = ix.built.uuid
       /\ ix.handle \in {NoTree, ix.built}

ListInv == \A i \in DOMAIN indexes : Known(indexes[i]) /\ Identified(indexes[i])

(* A build adopts its own tree, unless another wrote over it.              *)
Adopting(t) ==
    LET ix == build[t].index IN
    /\ ix.bound
    /\ build[t].stage # "attached" => ix.tree_uuid = 0 /\ ix.handle = NoTree
    /\ Numbered(t) => Known(ix)
    /\ build[t].stage = "finished" =>
         "overwritten" \in ix.past \/ file[ix.path] \in {NoTree, ix.built}
    /\ build[t].stage = "attached" =>
         "overwritten" \in ix.past \/ (ix.tree_uuid = ix.built.uuid /\ ix.handle = ix.built)
BuildInv == \A t \in Txns : build[t] # NoBuild => Adopting(t)

(* No write was planned under a number yet to come, or one that is not in  *)
(* the list yet; and no two indexes have one number.                       *)
NumberInv ==
    /\ \A t \in Txns : txn[t].planned \subseteq 1 .. builds
    /\ \A t \in Txns : Numbered(t) =>
         /\ \A i \in DOMAIN indexes : indexes[i].built.uuid # build[t].index.built.uuid
         /\ \A o \in Txns \ {t} :
               Numbered(o) => build[o].index.built.uuid # build[t].index.built.uuid
         /\ \A o \in Txns : build[t].index.built.uuid \notin txn[o].planned

(* While a row is being deleted or updated, or a deleted one still awaits  *)
(* its cleanup, no index is there but those whose builds met it.           *)
Excused(ix) ==
    /\ PendingChange => "raced" \in ix.past
    /\ dead # {} => ix.past \cap {"raced", "masked"} # {}
RacedInv ==
    /\ \A i \in DOMAIN indexes : Excused(indexes[i])
    /\ \A t \in Txns : Unlisted(t) => Excused(build[t].index)

(* An INSERT under way has passed the fence of every index but the later.  *)
InsertInv ==
    \A t \in Txns : txn[t].op = "INSERT" =>
        \A i \in DOMAIN indexes :
            indexes[i].delta_scan \/ indexes[i].built.uuid \notin txn[t].planned

(* The row a transaction deletes or updates stays in the table until it    *)
(* ends, and is its alone.                                                 *)
RowInv ==
    \A t \in Txns :
        /\ txn[t].open \/ txn[t] = Idle
        /\ txn[t].op \in {"DELETE", "UPDATE"} <=> txn[t].row # NoRow
        /\ txn[t].row # NoRow =>
             /\ txn[t].row \in table
             /\ \A o \in Txns \ {t} : txn[o].row # txn[t].row

(* What an index streamed is in the table, and what came later has row ids *)
(* from its count on.                                                      *)
Streamed(t) == IF build[t].stage = "pushed" THEN build[t].pushed ELSE build[t].index.built.rows
Covers(ix, rows) ==
    "raced" \notin ix.past =>
        /\ rows \subseteq table
        /\ ix.delta_scan \/ "overtaken" \in ix.past \/ rows = table
        /\ \A r \in table \ rows : r[1] >= Cardinality(rows)
CoverInv ==
    /\ \A i \in DOMAIN indexes : Covers(indexes[i], indexes[i].built.rows)
    /\ \A t \in Txns : Unlisted(t) => Covers(build[t].index, Streamed(t))

(* Without an INSERT, what the plan counted is still there at most.        *)
PlanInv ==
    \A t \in Txns :
        build[t].stage = "planned" /\ "masked" \notin build[t].index.past =>
            PlanCount <= build[t].n_rows

IInv == /\ TypeOK
        /\ ListInv
        /\ BuildInv
        /\ NumberInv
        /\ RacedInv
        /\ InsertInv
        /\ RowInv
        /\ CoverInv
        /\ PlanInv
        /\ AnswersFromOwnTree
        /\ AnswersFromSnapshot

-----------------------------------------------------------------------------
(* Facts about rows, trees, indexes and builds.                            *)

(* There are finitely many rows, and NoRow is none of them.                *)
LEMMA RowFacts ==
    /\ \A S \in SUBSET Rows : IsFiniteSet(S) /\ Cardinality(S) \in Nat
    /\ NoRow \notin Rows
    /\ \A r \in Rows : r[1] \in Nat /\ r = <<r[1], r[2]>>
<1>1. IsFiniteSet(0 .. MaxRows - 1) /\ IsFiniteSet({0, 1})
    <2>1. {0, 1} = 0 .. 1
        OBVIOUS
    <2>2. IsFiniteSet(0 .. 1)
        <3>1. 0 \in Int /\ 1 \in Int
            OBVIOUS
        <3> QED
            BY <3>1, FS_Interval
    <2>3. MaxRows - 1 \in Int
        OBVIOUS
    <2>4. IsFiniteSet(0 .. MaxRows - 1)
        BY <2>3, FS_Interval
    <2> QED
        BY <2>1, <2>2, <2>4
<1>2. IsFiniteSet(Rows)
    BY <1>1, FS_Product DEF Rows
<1>3. NoRow \notin Rows
    BY DEF NoRow, Rows
<1>4. \A r \in Rows : r[1] \in Nat /\ r = <<r[1], r[2]>>
    BY DEF Rows
<1> QED
    BY <1>2, <1>3, <1>4, FS_Subset, FS_CardinalityType

(* The table has no more rows than it has had row ids.                     *)
LEMMA TableSize == TypeOK => Cardinality(table) <= total
<1> SUFFICES ASSUME TypeOK PROVE Cardinality(table) <= total
    OBVIOUS
<1>1. total \in Nat /\ \A r \in table : r[1] \in Nat /\ r[1] < total
    BY RowFacts DEF TypeOK
<1>2. \A r \in table : r[1] \in 0 .. total - 1
    BY <1>1
<1>3. \A r, s \in table : r[1] = s[1] => r = s
    BY DEF TypeOK
<1> QED
    BY <1>1, <1>2, <1>3, NumberedSize

(* The counts of the plan scan.                                            *)
LEMMA CountFacts ==
    TypeOK => /\ IsFiniteSet(table) /\ Cardinality(table) \in Nat
              /\ IsFiniteSet(dead) /\ Cardinality(dead) \in Nat
              /\ PlanCount \in Nat
BY RowFacts DEF TypeOK, PlanCount

(* The file at a path.                                                     *)
LEMMA FileFacts ==
    ASSUME TypeOK, NEW p \in Paths
    PROVE  /\ file[p] \in Tree \cup {NoTree} /\ file[p].uuid \in Uuid
           /\ file[p].uuid <= builds /\ builds \in Nat
           /\ file[p] # NoTree <=> file[p].uuid # 0
<1>1. file[p] \in Tree \cup {NoTree} /\ file[p].uuid <= builds /\ builds \in Nat
    BY DEF TypeOK
<1>2. CASE file[p] \in Tree
    BY <1>1, <1>2 DEF Tree, NoTree, Uuid
<1>3. CASE file[p] = NoTree
    BY <1>1, <1>3 DEF NoTree, Uuid
<1> QED
    BY <1>1, <1>2, <1>3

(* An index of the list.                                                   *)
LEMMA IndexFacts ==
    ASSUME TypeOK, NEW i \in DOMAIN indexes
    PROVE  /\ DOMAIN indexes = 1 .. Len(indexes) /\ Len(indexes) \in Nat
           /\ indexes[i] \in Index
           /\ indexes[i].handle # NoTree => indexes[i].bound
BY DEF TypeOK

(* A build under way.                                                      *)
LEMMA BuildFacts ==
    ASSUME TypeOK, NEW t \in Txns
    PROVE  /\ build[t] \in Build \cup {NoBuild}
           /\ build[t] # NoBuild <=> build[t] \in Build
           /\ build[t] # NoBuild <=> build[t].stage # "none"
           /\ build[t] # NoBuild => /\ build[t].index \in Index
                                    /\ build[t].stage \in {"planned", "pushed", "finished", "attached"}
BY DEF TypeOK, Build, NoBuild

(* Binding and attaching change nothing else of an index.                  *)
Kin(ix, new) ==
    /\ new.built = ix.built /\ new.delta_scan = ix.delta_scan
    /\ \A mark \in {"raced", "masked", "overtaken"} : mark \in new.past <=> mark \in ix.past

(* An attach takes the recorded tree, so that the index answers from it.   *)
LEMMA AttachFacts ==
    ASSUME TypeOK, NEW ix \in Index, NEW new, new = AttachAndVerify(ix)
    PROVE  /\ new \in Index /\ Kin(ix, new) /\ new.past = ix.past /\ new.bound = ix.bound
           /\ new.path = ix.path /\ new.n_build = ix.n_build /\ new.blob = ix.blob
           /\ Known(ix) /\ Identified(ix) => Identified(new)
           /\ new.handle # ix.handle =>
                new.handle = file[ix.path] /\ new.tree_uuid = file[ix.path].uuid
<1>1. CASE ix.handle # NoTree \/ ~CanAttach(ix)
    BY <1>1 DEF AttachAndVerify, Kin
<1>2. CASE ~(ix.handle # NoTree \/ ~CanAttach(ix))
    <2> DEFINE tree == file[ix.path]
    <2>1. new = [ix EXCEPT !.handle = tree, !.tree_uuid = tree.uuid]
        BY <1>2 DEF AttachAndVerify
    <2>2. /\ ix.path \in Paths /\ tree \in Tree \cup {NoTree} /\ tree.uuid \in Uuid
          /\ tree.uuid # 0 /\ ix.tree_uuid \in {0, tree.uuid}
        <3>1. ix.path \in Paths
            BY DEF Index
        <3> QED
            BY <1>2, <3>1, FileFacts DEF CanAttach
    <2> HIDE DEF tree
    <2>3. /\ new \in Index /\ new.handle = tree /\ new.tree_uuid = tree.uuid
          /\ new.built = ix.built /\ new.delta_scan = ix.delta_scan /\ new.past = ix.past
          /\ new.bound = ix.bound /\ new.path = ix.path /\ new.n_build = ix.n_build
          /\ new.blob = ix.blob
        BY <2>1, <2>2 DEF Index
    <2>4. Known(ix) /\ Identified(ix) => Identified(new)
        <3>1. SUFFICES ASSUME Known(ix), ix.tree_uuid = ix.built.uuid, ix.blob.tree_uuid = ix.built.uuid
                       PROVE  tree = ix.built /\ tree.uuid = ix.built.uuid
            BY <2>3 DEF Identified
        <3>2. ix.built.uuid # 0
            BY <3>1 DEF Known, TypeOK
        <3>3. tree.uuid = ix.built.uuid
            BY <2>2, <3>1, <3>2
        <3> QED
            BY <2>2, <3>1, <3>3 DEF Known, tree
    <2> QED
        BY <2>3, <2>4 DEF Kin, tree
<1> QED
    BY <1>1, <1>2

-----------------------------------------------------------------------------
(* A list of indexes that differs from the table's in what is bound and    *)
(* attached, each index to its own tree or to none.                        *)
Rebound(list) ==
    /\ list \in Seq(Index) /\ Len(list) = Len(indexes) /\ DOMAIN list = DOMAIN indexes
    /\ \A i \in DOMAIN indexes :
         /\ Kin(indexes[i], list[i])
         /\ Identified(list[i])
         /\ list[i].handle # NoTree => list[i].bound

(* What the types say of the list.                                         *)
ListTypes ==
    /\ indexes \in Seq(Index)
    /\ \A i, j \in DOMAIN indexes : i # j => indexes[i].built.uuid # indexes[j].built.uuid
    /\ \A i \in DOMAIN indexes :
          /\ indexes[i].built.uuid \in 1 .. builds
          /\ indexes[i].handle # NoTree => indexes[i].bound

(* Files are only removed, or written with a new number.                   *)
FilesKept ==
    /\ builds' \in Nat /\ builds <= builds'
    /\ \A p \in Paths : file'[p] \in {file[p], NoTree} \/ file'[p].uuid = builds + 1

(* A function on the positions of the list is a list.                      *)
LEMMA ListOfFunction ==
    ASSUME TypeOK, NEW f, f = [i \in DOMAIN indexes |-> f[i]],
           \A i \in DOMAIN indexes : f[i] \in Index
    PROVE  f \in Seq(Index) /\ Len(f) = Len(indexes) /\ DOMAIN f = DOMAIN indexes
<1>1. DOMAIN indexes = 1 .. Len(indexes) /\ Len(indexes) \in Nat
    BY DEF TypeOK
<1>2. f \in [1 .. Len(indexes) -> Index]
    BY <1>1
<1> QED
    BY <1>1, <1>2, SeqOfFunction

(* Binding one index.                                                      *)
LEMMA BindOne ==
    ASSUME TypeOK, ListInv, NEW i \in DOMAIN indexes
    PROVE  /\ Bind(indexes[i]) \in Index /\ Kin(indexes[i], Bind(indexes[i]))
           /\ Known(Bind(indexes[i])) /\ Identified(Bind(indexes[i])) /\ Bind(indexes[i]).bound
<1> DEFINE ix == indexes[i]
<1>1. ix \in Index /\ Known(ix) /\ Identified(ix)
    BY IndexFacts DEF ListInv
<1> HIDE DEF ix
<1>2. CASE ix.bound
    BY <1>1, <1>2 DEF Bind, Kin, ix
<1>3. CASE ~ix.bound
    <2> DEFINE new == AttachAndVerify(ix)
    <2>1. new \in Index /\ Kin(ix, new) /\ Identified(new)
        BY <1>1, AttachFacts
    <2>2. Bind(ix) = [new EXCEPT !.bound = TRUE]
        BY <1>3 DEF Bind
    <2> HIDE DEF new
    <2>3. /\ Bind(ix) \in Index /\ Kin(ix, Bind(ix)) /\ Identified(Bind(ix)) /\ Bind(ix).bound
        BY <2>1, <2>2 DEF Index, Kin, Identified
    <2>4. Known(Bind(ix))
        BY <1>1, <2>3 DEF Known, Kin
    <2> QED
        BY <2>3, <2>4 DEF ix
<1> QED
    BY <1>2, <1>3

(* So is the list once it is bound.                                        *)
LEMMA BindIndexesRebinds == TypeOK /\ ListInv => Rebound(BindIndexes)
<1> SUFFICES ASSUME TypeOK, ListInv PROVE Rebound(BindIndexes)
    OBVIOUS
<1>1. \A i \in DOMAIN indexes : BindIndexes[i] = Bind(indexes[i])
    BY DEF BindIndexes
<1>2. \A i \in DOMAIN indexes : BindIndexes[i] \in Index
    BY <1>1, BindOne
<1>3. BindIndexes = [i \in DOMAIN indexes |-> BindIndexes[i]]
    BY DEF BindIndexes
<1>4. BindIndexes \in Seq(Index) /\ Len(BindIndexes) = Len(indexes) /\ DOMAIN BindIndexes = DOMAIN indexes
    BY <1>2, <1>3, ListOfFunction
<1> QED
    BY <1>1, <1>4, BindOne DEF Rebound

(* The list itself is one.                                                 *)
LEMMA SameRebinds == TypeOK /\ ListInv => Rebound(indexes)
BY DEF TypeOK, ListInv, Rebound, Kin

(* What is known of a number stays so.                                     *)
LEMMA KnownKept ==
    ASSUME TypeOK, NEW ix, Known(ix), FilesKept
    PROVE  Known(ix)'
<1>1. ix.built.uuid \in 1 .. builds /\ builds \in Nat
    BY DEF Known, TypeOK
<1>2. ix.built.uuid \in 1 .. builds'
    BY <1>1 DEF FilesKept
<1>3. ASSUME NEW p \in Paths, file'[p].uuid = ix.built.uuid PROVE file'[p] = ix.built
    <2>1. CASE file'[p] = file[p]
        BY <1>3, <2>1 DEF Known
    <2>2. CASE file'[p] = NoTree
        BY <1>1, <1>3, <2>2 DEF NoTree
    <2>3. CASE file'[p].uuid = builds + 1
        BY <1>1, <1>3, <2>3
    <2> QED
        BY <2>1, <2>2, <2>3 DEF FilesKept
<1> QED
    BY <1>2, <1>3 DEF Known

(* A rebound list keeps the types, and what is known of each index.        *)
LEMMA ReboundTypes ==
    ASSUME TypeOK, ListInv, Rebound(indexes'), FilesKept
    PROVE  ListTypes' /\ ListInv' /\ DOMAIN indexes' = DOMAIN indexes
<1>1. DOMAIN indexes' = DOMAIN indexes
    BY DEF Rebound
<1>2. \A i \in DOMAIN indexes : indexes'[i].built = indexes[i].built
    BY DEF Rebound, Kin
<1>3. \A i \in DOMAIN indexes : Known(indexes[i])'
    <2> SUFFICES ASSUME NEW i \in DOMAIN indexes PROVE Known(indexes[i])'
        OBVIOUS
    <2> DEFINE ix == indexes[i]
    <2>1. Known(ix) /\ indexes'[i].built = ix.built
        BY <1>2 DEF ListInv
    <2> HIDE DEF ix
    <2>2. \A x : Known(x) => (x.built.uuid \in 1 .. builds'
                 /\ \A p \in Paths : file'[p].uuid = x.built.uuid => file'[p] = x.built)
        BY KnownKept DEF Known
    <2> QED
        BY <2>1, <2>2 DEF Known
<1>4. ListInv'
    BY <1>1, <1>3 DEF Rebound, ListInv
<1>5. ListTypes'
    BY <1>1, <1>2, <1>3 DEF Rebound, ListTypes, Known, TypeOK
<1> QED
    BY <1>1, <1>4, <1>5

(* And covers the same rows.                                               *)
LEMMA KinFacts ==
    ASSUME NEW ix, NEW new, Kin(ix, new)
    PROVE  /\ Excused(ix) => Excused(new)
           /\ \A rows : Covers(ix, rows) => Covers(new, rows)
           /\ new.built = ix.built /\ new.delta_scan = ix.delta_scan
BY DEF Kin, Excused, Covers

-----------------------------------------------------------------------------
(* A build that goes on, with a mark more perhaps, or is over.             *)
Aged(t) ==
    \/ build'[t] \in {build[t], NoBuild}
    \/ build[t] # NoBuild /\ \E mark \in Past : build'[t] = Marked(t, mark)

(* What stays of a build that goes on.                                     *)
SameBuild(t) ==
    LET ix == build[t].index new == build'[t].index IN
    /\ build[t] # NoBuild /\ build'[t] \in Build
    /\ build'[t].stage = build[t].stage /\ build'[t].n_rows = build[t].n_rows
    /\ build'[t].pushed = build[t].pushed
    /\ new = [ix EXCEPT !.past = new.past]
    /\ new.built = ix.built /\ new.path = ix.path /\ new.delta_scan = ix.delta_scan
    /\ new.tree_uuid = ix.tree_uuid /\ new.bound = ix.bound /\ new.handle = ix.handle
    /\ ix.past \subseteq new.past

LEMMA MarkFacts ==
    ASSUME TypeOK, NEW t \in Txns, build[t] # NoBuild, NEW mark \in Past, NEW b, b = Marked(t, mark)
    PROVE  /\ b \in Build /\ b.stage = build[t].stage /\ b.n_rows = build[t].n_rows
           /\ b.pushed = build[t].pushed
           /\ b.index = [build[t].index EXCEPT !.past = @ \cup {mark}]
           /\ b.index.past = build[t].index.past \cup {mark} /\ b.index \in Index
<1> DEFINE ix  == build[t].index
           new == [ix EXCEPT !.past = @ \cup {mark}]
<1>1. build[t] \in Build /\ ix \in Index
    BY BuildFacts
<1>2. b = [build[t] EXCEPT !.index = new]
    BY DEF Marked
<1>3. new \in Index /\ new.past = ix.past \cup {mark}
    BY <1>1 DEF Index
<1> HIDE DEF new
<1>4. /\ b \in Build /\ b.stage = build[t].stage /\ b.n_rows = build[t].n_rows
      /\ b.pushed = build[t].pushed /\ b.index = new
    BY <1>1, <1>2, <1>3 DEF Build
<1> QED
    BY <1>3, <1>4 DEF new

LEMMA MarkIsSet ==
    ASSUME TypeOK, NEW t \in Txns, build[t] # NoBuild, NEW mark
    PROVE  /\ mark \in Marked(t, mark).index.past
           /\ Marked(t, mark).stage = build[t].stage /\ Marked(t, mark) # NoBuild
<1> DEFINE ix  == build[t].index
           new == [ix EXCEPT !.past = @ \cup {mark}]
<1>1. build[t] \in Build /\ ix \in Index
    BY BuildFacts
<1>2. Marked(t, mark) = [build[t] EXCEPT !.index = new]
    BY DEF Marked
<1>3. mark \in new.past
    BY <1>1 DEF Index
<1> HIDE DEF new
<1>4. /\ Marked(t, mark).index = new /\ Marked(t, mark).stage = build[t].stage
      /\ build[t].stage # "none"
    BY <1>1, <1>2 DEF Build
<1> QED
    BY <1>3, <1>4 DEF NoBuild

LEMMA AgedFacts ==
    ASSUME TypeOK, NEW t \in Txns, Aged(t)
    PROVE  build'[t] = NoBuild \/ SameBuild(t)
<1>1. CASE build'[t] = build[t] /\ build[t] # NoBuild
    <2>1. build[t] \in Build /\ build[t].index \in Index
        BY <1>1, BuildFacts
    <2>2. build[t].index = [build[t].index EXCEPT !.past = build[t].index.past]
        BY <2>1 DEF Index
    <2> QED
        BY <1>1, <2>1, <2>2 DEF SameBuild
<1>2. ASSUME build[t] # NoBuild, NEW mark \in Past, build'[t] = Marked(t, mark)
      PROVE  SameBuild(t)
    <2>1. /\ build'[t] \in Build /\ build'[t].stage = build[t].stage
          /\ build'[t].n_rows = build[t].n_rows /\ build'[t].pushed = build[t].pushed
          /\ build'[t].index = [build[t].index EXCEPT !.past = @ \cup {mark}]
          /\ build'[t].index.past = build[t].index.past \cup {mark}
        BY <1>2, MarkFacts
    <2>2. build[t].index \in Index
        BY <1>2, BuildFacts
    <2> DEFINE ix == build[t].index  new == build'[t].index
    <2>3. new = [ix EXCEPT !.past = ix.past \cup {mark}] /\ new.past = ix.past \cup {mark} /\ ix \in Index
        BY <2>1, <2>2
    <2> HIDE DEF ix, new
    <2>4. /\ new = [ix EXCEPT !.past = new.past]
          /\ new.built = ix.built /\ new.path = ix.path /\ new.delta_scan = ix.delta_scan
          /\ new.tree_uuid = ix.tree_uuid /\ new.bound = ix.bound /\ new.handle = ix.handle
          /\ ix.past \subseteq new.past
        BY <2>3 DEF Index
    <2> QED
        BY <1>2, <2>1, <2>4 DEF SameBuild, ix, new
<1> QED
    BY <1>1, <1>2 DEF Aged

(* What a mark leaves of the parts of the invariant.                       *)
LEMMA SameBuildFacts ==
    ASSUME TypeOK, NEW t \in Txns, SameBuild(t)
    PROVE  /\ build'[t] # NoBuild /\ build'[t].stage # "none"
           /\ Streamed(t)' = Streamed(t)
           /\ Unlisted(t)' <=> Unlisted(t)
           /\ Numbered(t)' <=> Numbered(t)
           /\ Excused(build[t].index) => Excused(build'[t].index)
           /\ \A rows : Covers(build[t].index, rows) => Covers(build'[t].index, rows)
           /\ Known(build[t].index) => Known(build'[t].index)
BY BuildFacts DEF SameBuild, Streamed, Unlisted, Numbered, Excused, Covers, Known, Build, NoBuild

(* Types of the builds.                                                    *)
BuildTypes ==
    /\ build \in [Txns -> Build \cup {NoBuild}]
    /\ \A t \in Txns : build[t] # NoBuild <=> txn[t].op = "CREATE"

(* A build that goes on is a transaction's as before.                      *)
LEMMA AgedTypes ==
    ASSUME TypeOK, DOMAIN build' = Txns, build' = [t \in Txns |-> build'[t]],
           \A t \in Txns : Aged(t) /\ (txn'[t].op = "CREATE" <=> build'[t] # NoBuild)
    PROVE  BuildTypes'
BY AgedFacts DEF BuildTypes, SameBuild

(* Builds that go on adopt what they would have.                           *)
LEMMA AgedAdopts ==
    ASSUME TypeOK, BuildInv, FilesKept, NEW t \in Txns, Aged(t), build'[t] # NoBuild,
           \/ build[t].stage # "finished" \/ "overwritten" \in build'[t].index.past
           \/ file'[build[t].index.path] \in {file[build[t].index.path], NoTree}
    PROVE  Adopting(t)'
<1> DEFINE ix == build[t].index  new == build'[t].index
<1>1. SameBuild(t) /\ Adopting(t) /\ build[t] # NoBuild
    BY AgedFacts DEF BuildInv, SameBuild
<1>2. /\ build'[t].stage = build[t].stage
      /\ new.built = ix.built /\ new.path = ix.path
      /\ new.tree_uuid = ix.tree_uuid /\ new.bound = ix.bound /\ new.handle = ix.handle
      /\ ix.past \subseteq new.past
    BY <1>1 DEF SameBuild
<1>3. Known(ix) => (new.built.uuid \in 1 .. builds'
                 /\ \A p \in Paths : file'[p].uuid = new.built.uuid => file'[p] = new.built)
    <2>1. \A x : Known(x) => (x.built.uuid \in 1 .. builds'
                 /\ \A p \in Paths : file'[p].uuid = x.built.uuid => file'[p] = x.built)
        BY KnownKept DEF Known
    <2> QED
        BY <1>2, <2>1
<1> HIDE DEF ix, new
<1> QED
    BY <1>1, <1>2, <1>3 DEF Adopting, Numbered, Known, ix, new

LEMMA AgedBuilds ==
    ASSUME TypeOK, BuildInv, FilesKept, \A t \in Txns : Aged(t),
           \A p \in Paths : file'[p] \in {file[p], NoTree}
    PROVE  BuildInv'
<1> SUFFICES ASSUME NEW t \in Txns, build'[t] # NoBuild PROVE Adopting(t)'
    BY DEF BuildInv
<1>1. build[t] # NoBuild
    BY AgedFacts DEF SameBuild
<1>2. build[t].index.path \in Paths
    BY <1>1, BuildFacts DEF Index
<1> QED
    BY <1>2, AgedAdopts

(* A build that has its number has had it.                                 *)
LEMMA AgedNumbered ==
    ASSUME TypeOK, NEW t \in Txns, Aged(t), Numbered(t)'
    PROVE  Numbered(t) /\ build'[t].index.built = build[t].index.built
<1>1. build'[t] # NoBuild
    BY DEF Numbered, NoBuild
<1>2. SameBuild(t)
    BY <1>1, AgedFacts
<1> QED
    BY <1>2 DEF SameBuild, Numbered

(* The numbers stay apart when none is new and none enters the list.       *)
LEMMA AgedNumbers ==
    ASSUME TypeOK, NumberInv, Rebound(indexes'), \A t \in Txns : Aged(t), UNCHANGED builds,
           \A t \in Txns : txn'[t].planned \in {txn[t].planned, {}}
    PROVE  NumberInv'
<1>1. DOMAIN indexes' = DOMAIN indexes /\ \A i \in DOMAIN indexes : indexes'[i].built = indexes[i].built
    BY DEF Rebound, Kin
<1>2. \A t \in Txns : Numbered(t)' => Numbered(t) /\ build'[t].index.built = build[t].index.built
    BY AgedNumbered
<1> QED
    BY <1>1, <1>2 DEF NumberInv

(* The indexes stay excused while what excused them is pending.            *)
LEMMA AgedRaced ==
    ASSUME TypeOK, RacedInv, Rebound(indexes'), \A t \in Txns : Aged(t),
           PendingChange' => PendingChange, dead' # {} => PendingChange \/ dead # {}
    PROVE  RacedInv'
<1>1. \A x : Excused(x) => /\ PendingChange' => "raced" \in x.past
                           /\ dead' # {} => x.past \cap {"raced", "masked"} # {}
    BY DEF Excused
<1>2. \A i \in DOMAIN indexes : Excused(indexes'[i])
    BY KinFacts DEF RacedInv, Rebound
<1>3. \A t \in Txns : Unlisted(t)' => Excused(build'[t].index)
    <2> SUFFICES ASSUME NEW t \in Txns, Unlisted(t)' PROVE Excused(build'[t].index)
        OBVIOUS
    <2>1. build'[t] # NoBuild
        BY DEF Unlisted, NoBuild
    <2>2. SameBuild(t)
        BY <2>1, AgedFacts
    <2> QED
        BY <2>2, SameBuildFacts DEF RacedInv
<1>4. DOMAIN indexes' = DOMAIN indexes
    BY DEF Rebound
<1> QED
    BY <1>1, <1>2, <1>3, <1>4 DEF RacedInv, Excused

(* And cover the same rows of the same table.                              *)
LEMMA AgedCovers ==
    ASSUME TypeOK, CoverInv, Rebound(indexes'), \A t \in Txns : Aged(t), UNCHANGED table
    PROVE  CoverInv'
<1>1. \A x, rows : Covers(x, rows) => 
           ("raced" \notin x.past =>
              /\ rows \subseteq table'
              /\ x.delta_scan \/ "overtaken" \in x.past \/ rows = table'
              /\ \A r \in table' \ rows : r[1] >= Cardinality(rows))
    BY DEF Covers
<1>2. \A i \in DOMAIN indexes : Covers(indexes'[i], indexes'[i].built.rows)
    BY KinFacts DEF CoverInv, Rebound
<1>3. \A t \in Txns : Unlisted(t)' => Covers(build'[t].index, Streamed(t)')
    <2> SUFFICES ASSUME NEW t \in Txns, Unlisted(t)' PROVE Covers(build'[t].index, Streamed(t)')
        OBVIOUS
    <2>1. build'[t] # NoBuild
        BY DEF Unlisted, NoBuild
    <2>2. SameBuild(t)
        BY <2>1, AgedFacts
    <2> QED
        BY <2>2, SameBuildFacts DEF CoverInv
<1>4. DOMAIN indexes' = DOMAIN indexes
    BY DEF Rebound
<1> QED
    BY <1>1, <1>2, <1>3, <1>4 DEF CoverInv, Covers

(* What the plans counted is still there at most, if no more came.         *)
LEMMA AgedPlans ==
    ASSUME TypeOK, PlanInv, \A t \in Txns : Aged(t), PlanCount' \in Nat, PlanCount' <= PlanCount
    PROVE  PlanInv'
<1> SUFFICES ASSUME NEW t \in Txns, build'[t].stage = "planned", "masked" \notin build'[t].index.past
             PROVE  PlanCount' <= build'[t].n_rows
    BY DEF PlanInv
<1>1. build'[t] # NoBuild
    BY DEF NoBuild
<1>2. SameBuild(t)
    BY <1>1, AgedFacts
<1>3. build[t].n_rows \in Nat /\ PlanCount \in Nat
    BY <1>2, BuildFacts, CountFacts DEF SameBuild, Build
<1>4. PlanCount <= build[t].n_rows
    BY <1>2 DEF SameBuild, PlanInv
<1> QED
    BY <1>2, <1>3, <1>4 DEF SameBuild

(* A build that nothing happened to.                                       *)
LEMMA SameAges == build' = build => \A t \in Txns : Aged(t)
BY DEF Aged

(* The builds that a DELETE or UPDATE, or an INSERT, met.                  *)
LEMMA MarkedAge ==
    ASSUME TypeOK, build' \in {RacedBuilds, OvertakenBuilds}
    PROVE  /\ \A t \in Txns : Aged(t)
           /\ \A t \in Txns : build'[t] # NoBuild <=> build[t] # NoBuild
           /\ build' = [t \in Txns |-> build'[t]]
<1>1. build' = [t \in Txns |-> build'[t]]
    BY DEF RacedBuilds, OvertakenBuilds
<1> SUFFICES ASSUME NEW t \in Txns PROVE Aged(t) /\ (build'[t] # NoBuild <=> build[t] # NoBuild)
    BY <1>1
<1>2. build'[t] = build[t] \/ \E mark \in Past : build[t] # NoBuild /\ build'[t] = Marked(t, mark)
    BY BuildFacts DEF RacedBuilds, OvertakenBuilds, Unlisted, Past
<1>3. ASSUME NEW mark \in Past, build[t] # NoBuild, build'[t] = Marked(t, mark)
      PROVE  build'[t] # NoBuild
    <2>1. build'[t].stage = build[t].stage
        BY <1>3, MarkFacts
    <2>2. build[t].stage # "none"
        BY <1>3, BuildFacts
    <2> QED
        BY <2>1, <2>2 DEF NoBuild
<1> QED
    BY <1>2, <1>3 DEF Aged

-----------------------------------------------------------------------------
(* Transactions.                                                           *)

(* A step that answers nothing keeps what is known of answers.             *)
LEMMA SilentKeeps ==
    ASSUME last' = Silent
    PROVE  last' \in Answer /\ AnswersFromOwnTree' /\ AnswersFromSnapshot'
BY DEF Silent, Answer, AnswersFromOwnTree, AnswersFromSnapshot

(* An idle transaction is one, and no write is under way in it.            *)
LEMMA IdleFacts ==
    /\ Idle \in Transaction
    /\ Idle.op = "none" /\ Idle.row = NoRow /\ Idle.planned = {}
BY DEF Idle, Transaction, NoRow

(* Nor in one that starts.                                                 *)
LEMMA StartFacts ==
    ASSUME TypeOK, NEW t \in Txns, NEW op \in {"none", "CREATE"}, txn' = Start(t, op)
    PROVE  /\ txn' \in [Txns -> Transaction]
           /\ txn'[t].op = op /\ txn'[t].row = NoRow /\ txn'[t].planned = {} /\ txn'[t].open
           /\ \A o \in Txns \ {t} : txn'[o] = txn[o]
<1> DEFINE begun == [Idle EXCEPT !.open = TRUE, !.snap = table, !.op = op]
<1>1. txn' = [txn EXCEPT ![t] = begun]
    BY DEF Start
<1>2. begun \in Transaction /\ begun.op = op /\ begun.row = NoRow /\ begun.planned = {} /\ begun.open
    BY DEF Idle, TypeOK, Transaction, NoRow
<1> HIDE DEF begun
<1> QED
    BY <1>1, <1>2 DEF TypeOK

(* The parts that a step disturbs only by what it does to transactions.    *)
LEMMA TxnKeeps ==
    ASSUME IInv, Rebound(indexes'), UNCHANGED table,
           \A t \in Txns : \/ txn'[t] \in {txn[t], Idle}
                           \/ /\ txn'[t].op \in {"none", "CREATE"} /\ txn'[t].open
                              /\ txn'[t].row = NoRow /\ txn'[t].planned = {}
    PROVE  InsertInv' /\ RowInv' /\ (PendingChange' => PendingChange)
<1>0. Idle.op = "none" /\ Idle.row = NoRow /\ Idle.planned = {}
    BY IdleFacts
<1>1. InsertInv'
    <2>1. DOMAIN indexes' = DOMAIN indexes
          /\ \A i \in DOMAIN indexes : /\ indexes'[i].built = indexes[i].built
                                       /\ indexes'[i].delta_scan = indexes[i].delta_scan
        BY DEF Rebound, Kin
    <2> QED
        BY <1>0, <2>1 DEF IInv, InsertInv
<1>2. PendingChange' => PendingChange
    BY <1>0 DEF PendingChange
<1>3. RowInv'
    BY <1>0 DEF IInv, RowInv
<1> QED
    BY <1>1, <1>2, <1>3

(* The end of a transaction: it is idle again, and the database is invalid *)
(* only if deleted rows were cleaned up under an index.                    *)
LEMMA EndFacts ==
    ASSUME TypeOK, NEW t \in Txns, NEW deleted, End(t, deleted)
    PROVE  /\ txn' \in [Txns -> Transaction] /\ txn'[t] = Idle
           /\ \A o \in Txns \ {t} : txn'[o] = txn[o]
           /\ \A o \in Txns : txn'[o] \in {txn[o], Idle}
           /\ dead' \subseteq deleted /\ fatal' \in BOOLEAN
           /\ fatal' => deleted # {} /\ indexes' # <<>>
           /\ last' = Silent
BY IdleFacts DEF TypeOK, End

(* Types of the rows, and of what a step may leave alone.                  *)
RowTypes ==
    /\ table \subseteq Rows
    /\ \A r, s \in table : r[1] = s[1] => r = s
    /\ total \in 0 .. MaxRows
    /\ \A r \in table \cup dead : r[1] < total
    /\ dead \subseteq Rows
FileTypes ==
    /\ builds \in 0 .. MaxBuilds
    /\ file \in [Paths -> Tree \cup {NoTree}]
    /\ \A p \in Paths : file[p].uuid <= builds

LEMMA Types ==
    /\ TypeOK <=> /\ RowTypes /\ FileTypes /\ ListTypes /\ BuildTypes
                  /\ txn \in [Txns -> Transaction] /\ fatal \in BOOLEAN /\ last \in Answer
    /\ (TypeOK <=> /\ RowTypes /\ FileTypes /\ ListTypes /\ BuildTypes
                   /\ txn \in [Txns -> Transaction] /\ fatal \in BOOLEAN /\ last \in Answer)'
<1>1. TypeOK <=> /\ RowTypes /\ FileTypes /\ ListTypes /\ BuildTypes
                 /\ txn \in [Txns -> Transaction] /\ fatal \in BOOLEAN /\ last \in Answer
    BY DEF TypeOK, RowTypes, FileTypes, ListTypes, BuildTypes
<1> QED
    BY <1>1, PTL

(* A step that only binds indexes, and leaves rows, files and the numbers  *)
(* alone.                                                                  *)
LEMMA QuietKeeps ==
    ASSUME IInv, Rebound(indexes'), UNCHANGED <<table, total, builds>>, dead' \subseteq dead,
           file' \in [Paths -> Tree \cup {NoTree}], \A p \in Paths : file'[p] \in {file[p], NoTree},
           txn' \in [Txns -> Transaction], fatal' \in BOOLEAN,
           build' = [t \in Txns |-> build'[t]],
           \A t \in Txns : Aged(t),
           \A t \in Txns : txn'[t].op = "CREATE" <=> build'[t] # NoBuild,
           \A t \in Txns : \/ txn'[t] \in {txn[t], Idle}
                           \/ /\ txn'[t].op \in {"none", "CREATE"} /\ txn'[t].open
                              /\ txn'[t].row = NoRow /\ txn'[t].planned = {},
           last' \in Answer, AnswersFromOwnTree', AnswersFromSnapshot'
    PROVE  IInv'
<1>1. TypeOK /\ ListInv /\ BuildInv /\ NumberInv /\ RacedInv /\ InsertInv /\ RowInv /\ CoverInv /\ PlanInv
    BY DEF IInv
<1>2. FilesKept
    BY <1>1 DEF FilesKept, TypeOK
<1>3. ListTypes' /\ ListInv'
    BY <1>1, <1>2, ReboundTypes
<1>4. BuildTypes'
    BY <1>1, AgedTypes
<1>5. RowTypes'
    BY <1>1 DEF RowTypes, TypeOK
<1>6. FileTypes'
    <2>1. builds' = builds /\ builds \in 0 .. MaxBuilds
        BY <1>1 DEF TypeOK
    <2>2. \A p \in Paths : file'[p].uuid <= builds'
        <3> SUFFICES ASSUME NEW p \in Paths PROVE file'[p].uuid <= builds
            BY <2>1
        <3>1. file[p].uuid <= builds /\ NoTree.uuid <= builds
            BY <2>1, <1>1 DEF TypeOK, NoTree
        <3> QED
            BY <3>1
    <2> QED
        BY <2>1, <2>2 DEF FileTypes
<1>7. TypeOK'
    BY <1>3, <1>4, <1>5, <1>6, Types
<1>8. BuildInv'
    BY <1>1, <1>2, AgedBuilds
<1>9. NumberInv'
    BY <1>1, IdleFacts, AgedNumbers
<1>10. InsertInv' /\ RowInv' /\ (PendingChange' => PendingChange)
    BY TxnKeeps
<1>11. RacedInv'
    BY <1>1, <1>10, AgedRaced
<1>12. CoverInv'
    BY <1>1, AgedCovers
<1>13. PlanInv'
    <2>1. Cardinality(dead') <= Cardinality(dead) /\ Cardinality(dead') \in Nat
        BY <1>1, CountFacts, FS_Subset, FS_CardinalityType
    <2>2. PlanCount' \in Nat /\ PlanCount' <= PlanCount
        BY <1>1, <2>1, CountFacts DEF PlanCount
    <2> QED
        BY <1>1, <2>2, AgedPlans
<1> QED
    BY <1>3, <1>7, <1>8, <1>9, <1>10, <1>11, <1>12, <1>13 DEF IInv

(* The initial states: no index and no transaction.                        *)
LEMMA InitHolds == Init => IInv
<1> SUFFICES ASSUME Init PROVE IInv
    OBVIOUS
<1>1. /\ table = {<<0, 0>>} /\ <<0, 0>> \in Rows /\ total = 1 /\ dead = {} /\ builds = 0
      /\ indexes = <<>> /\ DOMAIN indexes = {} /\ indexes \in Seq(Index)
    BY DEF Init, Rows
<1>2. Silent \in Answer
    BY DEF Silent, Answer
<1>3. file \in [Paths -> Tree \cup {NoTree}] /\ \A p \in Paths : file[p].uuid = 0
    BY DEF Init, NoTree
<1>4. txn \in [Txns -> Transaction] /\ \A t \in Txns : txn[t] = Idle
    BY IdleFacts DEF Init
<1>5. build \in [Txns -> Build \cup {NoBuild}] /\ \A t \in Txns : build[t] = NoBuild
    BY DEF Init
<1>6. TypeOK
    <2>1. RowTypes
        BY <1>1 DEF RowTypes
    <2>2. FileTypes
        BY <1>1, <1>3 DEF FileTypes
    <2>3. ListTypes
        BY <1>1 DEF ListTypes
    <2>4. BuildTypes
        BY <1>4, <1>5, IdleFacts DEF BuildTypes
    <2> QED
        BY <1>2, <1>4, <2>1, <2>2, <2>3, <2>4, Types DEF Init
<1>7. \A t \in Txns : ~Numbered(t) /\ ~Unlisted(t) /\ build[t].stage # "planned"
    BY <1>5 DEF Numbered, Unlisted, NoBuild
<1>8. ListInv /\ BuildInv /\ NumberInv /\ RacedInv /\ InsertInv /\ RowInv /\ CoverInv /\ PlanInv
    BY <1>1, <1>4, <1>5, <1>7, IdleFacts
       DEF ListInv, BuildInv, NumberInv, RacedInv, InsertInv, RowInv, CoverInv, PlanInv
<1>9. AnswersFromOwnTree /\ AnswersFromSnapshot
    BY DEF Init, AnswersFromOwnTree, AnswersFromSnapshot, Silent
<1> QED
    BY <1>6, <1>8, <1>9 DEF IInv

(* A transaction that begins has written nothing.                          *)
LEMMA BeginKeeps ==
    ASSUME IInv, NEW t \in Txns, Begin(t)
    PROVE  IInv'
<1>0. TypeOK /\ ListInv /\ ~txn[t].open
    BY DEF IInv, Begin
<1>1. /\ txn' = Start(t, "none") /\ last' = Silent
      /\ UNCHANGED <<table, total, dead, builds, file, indexes, build, fatal>>
    BY DEF Begin, stores
<1>2. /\ txn' \in [Txns -> Transaction]
      /\ txn'[t].op = "none" /\ txn'[t].row = NoRow /\ txn'[t].planned = {} /\ txn'[t].open
      /\ \A o \in Txns \ {t} : txn'[o] = txn[o]
    BY <1>0, <1>1, StartFacts
<1>3. /\ build' = [p \in Txns |-> build'[p]]
      /\ \A p \in Txns : Aged(p) /\ (txn'[p].op = "CREATE" <=> build'[p] # NoBuild)
    <2>1. txn[t].op # "CREATE"
        BY <1>0, IdleFacts DEF IInv, RowInv
    <2> QED
        BY <1>0, <1>1, <1>2, <2>1, SameAges DEF TypeOK
<1>4. Rebound(indexes')
    BY <1>0, <1>1, SameRebinds DEF Rebound
<1>5. file' \in [Paths -> Tree \cup {NoTree}] /\ fatal' \in BOOLEAN
    BY <1>0, <1>1 DEF TypeOK
<1> QED
    BY <1>1, <1>2, <1>3, <1>4, <1>5, SilentKeeps, QuietKeeps

(* A write that passes the fence: with indexes on the table it is an       *)
(* INSERT, and they all have delta_scan.                                   *)
LEMMA WriteKeeps ==
    ASSUME IInv, NEW t \in Txns, NEW op \in Ops, NEW row \in Rows \cup {NoRow},
           Write(t, op, row)
    PROVE  IInv'
<1> DEFINE numbers == {indexes[i].built.uuid : i \in DOMAIN indexes}
           writing == [txn[t] EXCEPT !.op = op, !.row = row, !.planned = numbers]
<1>0. /\ TypeOK /\ ListInv /\ BuildInv /\ NumberInv /\ RacedInv /\ InsertInv /\ RowInv
      /\ CoverInv /\ PlanInv /\ txn[t] \in Transaction
    BY DEF IInv, TypeOK
<1>1. /\ indexes' = BindIndexes /\ last' = Silent /\ txn' = [txn EXCEPT ![t] = writing]
      /\ UNCHANGED <<table, total, dead, builds, file, fatal>>
      /\ build' = IF op = "INSERT" THEN build ELSE RacedBuilds
    BY DEF Write, stores
<1>2. numbers \subseteq 1 .. builds /\ numbers \subseteq 1 .. MaxBuilds
    BY <1>0 DEF TypeOK
<1> HIDE DEF numbers
<1>3. /\ writing \in Transaction /\ writing.op = op /\ writing.row = row
      /\ writing.planned = numbers /\ writing.open = txn[t].open
    BY <1>0, <1>2 DEF Transaction
<1> HIDE DEF writing
<1>4. /\ txn' \in [Txns -> Transaction] /\ txn'[t] = writing
      /\ \A o \in Txns \ {t} : txn'[o] = txn[o]
    BY <1>0, <1>1, <1>3 DEF TypeOK
<1>5. /\ txn[t].op = "none" /\ txn[t].open
      /\ op = "INSERT" => row = NoRow
      /\ op # "INSERT" => row \in table /\ \A o \in Txns : txn[o].row # row
      /\ op # "INSERT" => indexes = <<>>
      /\ \A i \in DOMAIN indexes : indexes[i].delta_scan
    BY <1>0 DEF Write, Fenced, TableAllowsAppend, TableHasSextantIndex, TypeOK
<1>6. /\ Rebound(indexes') /\ DOMAIN indexes' = DOMAIN indexes
      /\ \A i \in DOMAIN indexes : /\ indexes'[i].built = indexes[i].built
                                   /\ indexes'[i].delta_scan = indexes[i].delta_scan
    BY <1>0, <1>1, BindIndexesRebinds DEF Rebound, Kin
<1>7. FilesKept
    BY <1>0, <1>1 DEF FilesKept, TypeOK
<1>8. ListTypes' /\ ListInv'
    BY <1>0, <1>6, <1>7, ReboundTypes
<1>9. /\ \A p \in Txns : Aged(p) /\ (build'[p] # NoBuild <=> build[p] # NoBuild)
      /\ build' = [p \in Txns |-> build'[p]]
    BY <1>0, <1>1, SameAges, MarkedAge DEF TypeOK
<1>10. TypeOK'
    <2>1. BuildTypes'
        <3>1. \A p \in Txns : txn'[p].op = "CREATE" <=> txn[p].op = "CREATE"
            BY <1>3, <1>4, <1>5 DEF Ops
        <3>2. \A p \in Txns : txn'[p].op = "CREATE" <=> build'[p] # NoBuild
            BY <1>0, <1>9, <3>1 DEF TypeOK
        <3> QED
            BY <1>0, <1>9, <3>2, AgedTypes
    <2>2. RowTypes' /\ FileTypes' /\ fatal' \in BOOLEAN
        BY <1>0, <1>1 DEF TypeOK, RowTypes, FileTypes
    <2> QED
        BY <1>1, <1>4, <1>8, <2>1, <2>2, SilentKeeps, Types
<1>11. BuildInv' /\ CoverInv' /\ PlanInv'
    <2>1. PlanCount' = PlanCount /\ PlanCount \in Nat
        BY <1>0, <1>1, CountFacts DEF PlanCount
    <2>2. \A p \in Paths : file'[p] \in {file[p], NoTree}
        BY <1>1
    <2> QED
        BY <1>0, <1>1, <1>6, <1>7, <1>9, <2>1, <2>2, AgedBuilds, AgedCovers, AgedPlans
<1>12. NumberInv'
    <2>1. \A p \in Txns :
              Numbered(p)' => Numbered(p) /\ build'[p].index.built = build[p].index.built
        BY <1>0, <1>9, AgedNumbered
    <2>2. \A p \in Txns : txn'[p].planned \in {txn[p].planned, numbers}
        BY <1>3, <1>4
    <2>3. \A p \in Txns : Numbered(p) => build[p].index.built.uuid \notin numbers
        BY <1>0 DEF NumberInv, numbers
    <2>4. ASSUME NEW p \in Txns PROVE txn'[p].planned \subseteq 1 .. builds'
        BY <1>0, <1>1, <1>2, <2>2 DEF NumberInv
    <2>5. ASSUME NEW p \in Txns, Numbered(p)'
          PROVE  LET uuid == build'[p].index.built.uuid IN
                 /\ \A i \in DOMAIN indexes' : indexes'[i].built.uuid # uuid
                 /\ \A o \in Txns \ {p} : Numbered(o)' => build'[o].index.built.uuid # uuid
                 /\ \A o \in Txns : uuid \notin txn'[o].planned
        <3>1. Numbered(p) /\ build'[p].index.built = build[p].index.built
            BY <2>1, <2>5
        <3>2. \A i \in DOMAIN indexes' : indexes'[i].built.uuid # build[p].index.built.uuid
            BY <1>0, <1>6, <3>1 DEF NumberInv
        <3>3. \A o \in Txns \ {p} :
                  Numbered(o)' => build'[o].index.built.uuid # build[p].index.built.uuid
            BY <1>0, <2>1, <3>1 DEF NumberInv
        <3>4. \A o \in Txns : build[p].index.built.uuid \notin txn'[o].planned
            BY <1>0, <2>2, <2>3, <3>1 DEF NumberInv
        <3> QED
            BY <3>1, <3>2, <3>3, <3>4
    <2> QED
        BY <2>4, <2>5 DEF NumberInv
<1>13. RacedInv'
    <2>1. CASE op = "INSERT"
        <3>1. PendingChange' => PendingChange
            BY <1>3, <1>4, <2>1 DEF PendingChange
        <3> QED
            BY <1>0, <1>1, <1>6, <1>9, <3>1, AgedRaced
    <2>2. CASE op # "INSERT"
        <3>1. DOMAIN indexes' = {}
            BY <1>5, <1>6, <2>2
        <3>2. ASSUME NEW p \in Txns, Unlisted(p)' PROVE "raced" \in build'[p].index.past
            <4>1. build[p] # NoBuild /\ Unlisted(p)
                <5>1. build'[p] # NoBuild
                    BY <3>2 DEF Unlisted, NoBuild
                <5> QED
                    BY <1>0, <1>9, <3>2, <5>1, AgedFacts, SameBuildFacts DEF SameBuild
            <4>2. build'[p] = Marked(p, "raced")
                BY <1>1, <2>2, <4>1 DEF RacedBuilds
            <4> QED
                BY <1>0, <4>1, <4>2, MarkIsSet
        <3> QED
            BY <3>1, <3>2 DEF RacedInv, Excused
    <2> QED
        BY <2>1, <2>2
<1>14. InsertInv'
    <2> SUFFICES ASSUME NEW p \in Txns, txn'[p].op = "INSERT", NEW i \in DOMAIN indexes
                 PROVE  indexes[i].delta_scan \/ indexes[i].built.uuid \notin txn'[p].planned
        BY <1>6 DEF InsertInv
    <2>1. CASE p = t
        BY <1>5
    <2>2. CASE p # t
        BY <1>0, <1>4, <2>2 DEF InsertInv
    <2> QED
        BY <2>1, <2>2
<1>15. RowInv'
    <2>1. op \in {"DELETE", "UPDATE"} <=> row # NoRow
        BY <1>0, <1>5, RowFacts DEF Ops, TypeOK
    <2>2. row # NoRow => row \in table /\ \A o \in Txns : txn[o].row # row
        BY <1>5
    <2> SUFFICES ASSUME NEW p \in Txns
                 PROVE  /\ txn'[p].open \/ txn'[p] = Idle
                        /\ txn'[p].op \in {"DELETE", "UPDATE"} <=> txn'[p].row # NoRow
                        /\ txn'[p].row # NoRow =>
                             /\ txn'[p].row \in table
                             /\ \A o \in Txns \ {p} : txn'[o].row # txn'[p].row
        BY <1>1 DEF RowInv
    <2>3. CASE p = t
        BY <1>3, <1>4, <1>5, <2>1, <2>2, <2>3
    <2>4. CASE p # t
        BY <1>0, <1>3, <1>4, <2>1, <2>2, <2>4 DEF RowInv
    <2> QED
        BY <2>3, <2>4
<1> QED
    BY <1>1, <1>8, <1>10, <1>11, <1>12, <1>13, <1>14, <1>15, SilentKeeps DEF IInv

-----------------------------------------------------------------------------
(* The ends of transactions.                                               *)

(* The end of a transaction that leaves the table as it is.                *)
LEMMA LeavingKeeps ==
    ASSUME IInv, NEW t \in Txns, End(t, dead), Rebound(indexes'),
           UNCHANGED <<table, total, builds, file>>,
           build' = [build EXCEPT ![t] = NoBuild]
    PROVE  IInv'
<1>0. TypeOK
    BY DEF IInv
<1>1. /\ txn' \in [Txns -> Transaction] /\ txn'[t] = Idle
      /\ \A o \in Txns \ {t} : txn'[o] = txn[o]
      /\ dead' \subseteq dead /\ fatal' \in BOOLEAN /\ last' = Silent
    BY <1>0, EndFacts
<1>2. /\ build' = [p \in Txns |-> build'[p]]
      /\ \A p \in Txns : Aged(p) /\ (txn'[p].op = "CREATE" <=> build'[p] # NoBuild)
    BY <1>0, <1>1, IdleFacts DEF TypeOK, Aged
<1>3. file' \in [Paths -> Tree \cup {NoTree}]
    BY <1>0 DEF TypeOK
<1> QED
    BY <1>1, <1>2, <1>3, SilentKeeps, QuietKeeps

(* One that built nothing.                                                 *)
LEMMA NothingBuilt ==
    ASSUME IInv, NEW t \in Txns, txn[t].op # "CREATE"
    PROVE  build = [build EXCEPT ![t] = NoBuild]
BY DEF IInv, TypeOK

(* A veto rolls back.                                                      *)
LEMMA CommitVetoedKeeps ==
    ASSUME IInv, NEW t \in Txns, CommitVetoed(t)
    PROVE  IInv'
<1>1. TypeOK /\ ListInv /\ indexes' = BindIndexes
    BY DEF IInv, CommitVetoed
<1>2. Rebound(indexes')
    BY <1>1, BindIndexesRebinds DEF Rebound
<1> QED
    BY <1>2, NothingBuilt, LeavingKeeps DEF CommitVetoed

(* So does the end of a transaction that only read.                        *)
LEMMA FinishKeeps ==
    ASSUME IInv, NEW t \in Txns, Finish(t)
    PROVE  IInv'
<1>1. TypeOK /\ ListInv /\ indexes' = indexes
    BY DEF IInv, Finish
<1>2. Rebound(indexes')
    BY <1>1, SameRebinds DEF Rebound
<1> QED
    BY <1>2, NothingBuilt, LeavingKeeps DEF Finish

(* And of a CREATE INDEX that fails.                                       *)
LEMMA FailBuildKeeps ==
    ASSUME IInv, NEW t \in Txns, FailBuild(t)
    PROVE  IInv'
<1>1. TypeOK /\ ListInv /\ indexes' = indexes
    BY DEF IInv, FailBuild
<1>2. Rebound(indexes')
    BY <1>1, SameRebinds DEF Rebound
<1> QED
    BY <1>2, LeavingKeeps DEF FailBuild

(* What follows for the rest from the end of one that changes the table.   *)
LEMMA ChangedKeeps ==
    ASSUME IInv, NEW t \in Txns, NEW deleted, End(t, deleted), Rebound(indexes'),
           txn[t].op # "CREATE", UNCHANGED <<builds, file>>,
           build' \in {build, RacedBuilds, OvertakenBuilds}, RowTypes'
    PROVE  /\ TypeOK' /\ ListInv' /\ BuildInv' /\ NumberInv' /\ InsertInv'
           /\ \A p \in Txns : Aged(p)
           /\ (PendingChange' => PendingChange)
           /\ AnswersFromOwnTree' /\ AnswersFromSnapshot'
<1>0. TypeOK /\ ListInv /\ BuildInv /\ NumberInv /\ InsertInv
    BY DEF IInv
<1>1. /\ txn' \in [Txns -> Transaction] /\ txn'[t] = Idle
      /\ \A o \in Txns \ {t} : txn'[o] = txn[o]
      /\ fatal' \in BOOLEAN /\ last' = Silent
    BY <1>0, EndFacts
<1>2. FilesKept /\ \A p \in Paths : file'[p] \in {file[p], NoTree}
    BY <1>0 DEF FilesKept, TypeOK
<1>3. /\ build' = [p \in Txns |-> build'[p]]
      /\ \A p \in Txns : Aged(p) /\ (build'[p] # NoBuild <=> build[p] # NoBuild)
    BY <1>0, SameAges, MarkedAge DEF TypeOK
<1>4. \A p \in Txns : txn'[p].op = "CREATE" <=> build'[p] # NoBuild
    BY <1>0, <1>1, <1>3, IdleFacts DEF TypeOK
<1>5. ListTypes' /\ ListInv'
    BY <1>0, <1>2, ReboundTypes
<1>6. BuildTypes'
    BY <1>0, <1>3, <1>4, AgedTypes
<1>7. FileTypes'
    BY <1>0 DEF TypeOK, FileTypes
<1>8. TypeOK'
    BY <1>1, <1>5, <1>6, <1>7, SilentKeeps, Types
<1>9. BuildInv'
    BY <1>0, <1>2, <1>3, AgedBuilds
<1>10. NumberInv'
    <2>1. \A p \in Txns : txn'[p].planned \in {txn[p].planned, {}}
        BY <1>1, IdleFacts
    <2> QED
        BY <1>0, <1>3, <2>1, AgedNumbers
<1>11. InsertInv'
    <2>1. DOMAIN indexes' = DOMAIN indexes
          /\ \A i \in DOMAIN indexes : /\ indexes'[i].built = indexes[i].built
                                       /\ indexes'[i].delta_scan = indexes[i].delta_scan
        BY DEF Rebound, Kin
    <2> QED
        BY <1>0, <1>1, <2>1, IdleFacts DEF InsertInv
<1>12. PendingChange' => PendingChange
    BY <1>1, IdleFacts DEF PendingChange
<1> QED
    BY <1>1, <1>3, <1>5, <1>8, <1>9, <1>10, <1>11, <1>12, SilentKeeps

(* A row that is inserted has a new row id, so the trees have not got it;  *)
(* the indexes it is appended to have delta_scan, and the builds that do   *)
(* not see it are overtaken.                                               *)
LEMMA CommitInsertKeeps ==
    ASSUME IInv, NEW t \in Txns, CommitInsert(t)
    PROVE  IInv'
<1>0. /\ TypeOK /\ ListInv /\ RacedInv /\ RowInv /\ CoverInv
      /\ total \in Nat /\ table \subseteq Rows
    BY DEF IInv, TypeOK
<1>1. /\ table' = table \cup {<<total, 0>>} /\ total' = total + 1 /\ total < MaxRows
      /\ indexes' = BindIndexes /\ build' = OvertakenBuilds /\ End(t, dead)
      /\ txn[t].op = "INSERT" /\ UNCHANGED <<builds, file>>
      /\ \A i \in DOMAIN indexes : indexes[i].delta_scan
    BY DEF CommitInsert, Appends
<1>2. Rebound(indexes') /\ DOMAIN indexes' = DOMAIN indexes
    BY <1>0, <1>1, BindIndexesRebinds DEF Rebound
<1>3. /\ dead' \subseteq dead /\ txn'[t] = Idle /\ \A o \in Txns \ {t} : txn'[o] = txn[o]
    BY <1>0, <1>1, EndFacts
<1>4. RowTypes'
    <2>1. <<total, 0>> \in Rows
        BY <1>0, <1>1 DEF Rows
    <2>2. \A r \in table \cup dead : r[1] \in Nat /\ r[1] < total
        BY <1>0, RowFacts DEF TypeOK
    <2>3. table' \subseteq Rows /\ dead' \subseteq Rows /\ total' \in 0 .. MaxRows
        BY <1>0, <1>1, <1>3, <2>1 DEF TypeOK
    <2>4. \A r, s \in table' : r[1] = s[1] => r = s
        BY <1>0, <1>1, <2>2 DEF TypeOK
    <2>5. \A r \in table' \cup dead' : r[1] < total'
        BY <1>0, <1>1, <1>3, <2>2
    <2> QED
        BY <2>3, <2>4, <2>5 DEF RowTypes
<1>5. /\ TypeOK' /\ ListInv' /\ BuildInv' /\ NumberInv' /\ InsertInv'
      /\ \A p \in Txns : Aged(p)
      /\ (PendingChange' => PendingChange)
      /\ AnswersFromOwnTree' /\ AnswersFromSnapshot'
    BY <1>1, <1>2, <1>4, ChangedKeeps
<1>6. RacedInv'
    BY <1>0, <1>2, <1>3, <1>5, AgedRaced
<1>7. RowInv'
    BY <1>0, <1>1, <1>3, IdleFacts DEF RowInv
<1>8. CoverInv'
    <2>1. ASSUME NEW ix, NEW rows, Covers(ix, rows), "raced" \notin ix.past,
                 ix.delta_scan \/ "overtaken" \in ix.past
          PROVE  rows \subseteq table' /\ \A r \in table' \ rows : r[1] >= Cardinality(rows)
        <3>1. rows \subseteq table /\ \A s \in table \ rows : s[1] >= Cardinality(rows)
            BY <2>1 DEF Covers
        <3>2. IsFiniteSet(table) /\ Cardinality(table) \in Nat /\ Cardinality(table) <= total
            BY <1>0, RowFacts, TableSize
        <3>3. Cardinality(rows) <= Cardinality(table) /\ Cardinality(rows) \in Nat
            BY <1>0, <3>1, <3>2, RowFacts, FS_Subset
        <3> QED
            BY <1>0, <1>1, <3>1, <3>2, <3>3
    <2>2. ASSUME NEW i \in DOMAIN indexes', "raced" \notin indexes'[i].past
          PROVE  LET rows == indexes'[i].built.rows IN
                 /\ rows \subseteq table' /\ indexes'[i].delta_scan
                 /\ \A r \in table' \ rows : r[1] >= Cardinality(rows)
        <3>1. Kin(indexes[i], indexes'[i]) /\ indexes[i].delta_scan
            BY <1>1, <1>2, <2>2 DEF Rebound
        <3>2. Covers(indexes'[i], indexes'[i].built.rows) /\ indexes'[i].delta_scan
            BY <1>0, <1>2, <2>2, <3>1, KinFacts DEF CoverInv
        <3> QED
            BY <2>1, <2>2, <3>2
    <2>3. ASSUME NEW p \in Txns, Unlisted(p)', "raced" \notin build'[p].index.past
          PROVE  LET rows == Streamed(p)' ix == build'[p].index IN
                 /\ rows \subseteq table' /\ (ix.delta_scan \/ "overtaken" \in ix.past)
                 /\ \A r \in table' \ rows : r[1] >= Cardinality(rows)
        <3> DEFINE ix == build'[p].index  rows == Streamed(p)'
        <3>1. build'[p] # NoBuild
            BY <2>3 DEF Unlisted, NoBuild
        <3>2. SameBuild(p)
            BY <1>0, <1>5, <3>1, AgedFacts
        <3>3. Unlisted(p) /\ Covers(ix, rows)
            BY <1>0, <2>3, <3>2, SameBuildFacts DEF CoverInv
        <3>4. ix.delta_scan \/ "overtaken" \in ix.past
            <4>1. CASE build[p].index.delta_scan
                BY <3>2, <4>1 DEF SameBuild
            <4>2. CASE ~build[p].index.delta_scan
                <5>1. build'[p] = Marked(p, "overtaken") /\ build[p] # NoBuild
                    BY <1>1, <3>2, <3>3, <4>2 DEF OvertakenBuilds, Unlisted, SameBuild
                <5> QED
                    BY <1>0, <5>1, MarkIsSet
            <4> QED
                BY <4>1, <4>2
        <3> HIDE DEF ix, rows
        <3>5. rows \subseteq table' /\ \A r \in table' \ rows : r[1] >= Cardinality(rows)
            BY <2>1, <2>3, <3>3, <3>4 DEF ix
        <3> QED
            BY <3>4, <3>5 DEF ix, rows
    <2> QED
        BY <2>2, <2>3 DEF CoverInv, Covers
<1>9. PlanInv'
    <2> SUFFICES ASSUME NEW p \in Txns, build'[p].stage = "planned"
                 PROVE  "masked" \in build'[p].index.past
        BY DEF PlanInv
    <2>1. build'[p] # NoBuild
        BY DEF NoBuild
    <2>2. build[p] # NoBuild /\ build[p].stage = "planned"
        BY <1>0, <1>5, <2>1, AgedFacts DEF SameBuild
    <2>3. build'[p] = Marked(p, "masked")
        BY <1>1, <2>2 DEF OvertakenBuilds
    <2> QED
        BY <1>0, <2>2, <2>3, MarkIsSet
<1> QED
    BY <1>5, <1>6, <1>7, <1>8, <1>9 DEF IInv

(* A transaction that deletes or updates a row has raced every index and   *)
(* build: what it does to the table concerns no other.                     *)
LEMMA ChangingKeeps ==
    ASSUME IInv, NEW t \in Txns, txn[t].op \in {"DELETE", "UPDATE"},
           NEW deleted, End(t, deleted), UNCHANGED <<total, indexes, builds, file, build>>,
           deleted \subseteq dead \cup {txn[t].row},
           table \ {txn[t].row} \subseteq table', table' \subseteq Rows,
           \A r, s \in table' : r[1] = s[1] => r = s,
           \A r \in table' : r[1] < total,
           PlanCount' \in Nat, PlanCount' <= PlanCount
    PROVE  IInv'
<1>0. TypeOK /\ ListInv /\ RacedInv /\ RowInv /\ PlanInv
    BY DEF IInv
<1>1. Rebound(indexes')
    BY <1>0, SameRebinds DEF Rebound
<1>2. /\ dead' \subseteq deleted /\ txn'[t] = Idle /\ \A o \in Txns \ {t} : txn'[o] = txn[o]
    BY <1>0, EndFacts
<1>3. PendingChange
    BY DEF PendingChange
<1>4. /\ txn[t].row \in table
      /\ \A o \in Txns \ {t} : txn[o].row # NoRow =>
            /\ txn[o].row \in table /\ txn[o].row # txn[t].row
            /\ \A p \in Txns \ {o} : txn[p].row # txn[o].row
    BY <1>0 DEF RowInv
<1>5. RowTypes'
    <2>1. dead' \subseteq dead \cup table
        BY <1>2, <1>4
    <2> QED
        BY <1>0, <2>1 DEF TypeOK, RowTypes
<1>6. /\ TypeOK' /\ ListInv' /\ BuildInv' /\ NumberInv' /\ InsertInv'
      /\ \A p \in Txns : Aged(p)
      /\ (PendingChange' => PendingChange)
      /\ AnswersFromOwnTree' /\ AnswersFromSnapshot'
    BY <1>1, <1>5, ChangedKeeps
<1>7. RacedInv'
    BY <1>0, <1>1, <1>3, <1>6, AgedRaced
<1>8. CoverInv'
    <2>1. \A i \in DOMAIN indexes : "raced" \in indexes[i].past
        BY <1>0, <1>3 DEF RacedInv, Excused
    <2>2. \A p \in Txns : Unlisted(p)' => "raced" \in build'[p].index.past
        BY <1>0, <1>3 DEF RacedInv, Excused, Unlisted
    <2> QED
        BY <2>1, <2>2 DEF CoverInv, Covers
<1>9. RowInv'
    BY <1>0, <1>2, <1>4, IdleFacts DEF RowInv
<1>10. PlanInv'
    BY <1>0, <1>6, AgedPlans
<1> QED
    BY <1>6, <1>7, <1>8, <1>9, <1>10 DEF IInv

(* A DELETE.                                                               *)
LEMMA CommitDeleteKeeps ==
    ASSUME IInv, NEW t \in Txns, CommitDelete(t)
    PROVE  IInv'
<1> DEFINE row == txn[t].row
<1>0. TypeOK /\ row \in table
    BY DEF IInv, RowInv, CommitDelete
<1>1. /\ txn[t].op \in {"DELETE", "UPDATE"} /\ End(t, dead \cup {row})
      /\ table' = table \ {row} /\ UNCHANGED <<total, indexes, builds, file, build>>
    BY DEF CommitDelete
<1>2. /\ table' \subseteq Rows
      /\ \A r, s \in table' : r[1] = s[1] => r = s
      /\ \A r \in table' : r[1] < total
    BY <1>0, <1>1 DEF TypeOK
<1>3. PlanCount' \in Nat /\ PlanCount' <= PlanCount
    <2>1. dead' \subseteq dead \cup {row}
        BY <1>0, <1>1, EndFacts
    <2>2. /\ IsFiniteSet(table) /\ Cardinality(table) \in Nat
          /\ IsFiniteSet(dead) /\ Cardinality(dead) \in Nat
        BY <1>0, CountFacts
    <2>3. Cardinality(table') = Cardinality(table) - 1 /\ Cardinality(table') \in Nat
        BY <1>0, <1>1, <2>2, FS_RemoveElement, FS_CardinalityType
    <2>4. ASSUME NEW r
          PROVE  /\ IsFiniteSet(dead \cup {r}) /\ Cardinality(dead \cup {r}) \in Nat
                 /\ Cardinality(dead \cup {r}) <= Cardinality(dead) + 1
        <3>1. /\ IsFiniteSet(dead \cup {r})
              /\ Cardinality(dead \cup {r}) = IF r \in dead THEN Cardinality(dead) ELSE Cardinality(dead) + 1
            BY <2>2, FS_AddElement
        <3> QED
            BY <2>2, <3>1
    <2> HIDE DEF row
    <2> DEFINE more == dead \cup {row}
    <2>5. IsFiniteSet(more) /\ Cardinality(more) \in Nat /\ Cardinality(more) <= Cardinality(dead) + 1
        BY <2>4
    <2>6. dead' \in SUBSET more
        BY <2>1
    <2> HIDE DEF more
    <2>7. Cardinality(dead') <= Cardinality(more) /\ Cardinality(dead') \in Nat
        BY <2>5, <2>6, FS_Subset, FS_CardinalityType
    <2> QED
        BY <2>2, <2>3, <2>5, <2>7 DEF PlanCount
<1> QED
    BY <1>1, <1>2, <1>3, ChangingKeeps

(* An UPDATE, which keeps the row id.                                      *)
LEMMA CommitUpdateKeeps ==
    ASSUME IInv, NEW t \in Txns, CommitUpdate(t)
    PROVE  IInv'
<1> DEFINE row     == txn[t].row
           updated == <<row[1], 1>>
<1>1. /\ txn[t].op \in {"DELETE", "UPDATE"} /\ End(t, dead)
      /\ table' = (table \ {row}) \cup {updated}
      /\ UNCHANGED <<total, indexes, builds, file, build>>
    BY DEF CommitUpdate
<1>2. TypeOK /\ row \in table /\ row \in Rows
    BY <1>1 DEF IInv, RowInv, TypeOK
<1>3. updated \in Rows /\ updated[1] = row[1]
    BY <1>2 DEF Rows
<1> HIDE DEF updated, row
<1>4. /\ table' \subseteq Rows
      /\ \A r, s \in table' : r[1] = s[1] => r = s
      /\ \A r \in table' : r[1] < total
    BY <1>1, <1>2, <1>3 DEF TypeOK
<1>5. PlanCount' \in Nat /\ PlanCount' <= PlanCount
    <2>1. dead' \subseteq dead
        BY <1>1, <1>2, EndFacts
    <2>2. /\ IsFiniteSet(table) /\ Cardinality(table) \in Nat
          /\ IsFiniteSet(dead) /\ Cardinality(dead) \in Nat
        BY <1>2, CountFacts
    <2> DEFINE rest == table \ {row}
    <2>3. /\ IsFiniteSet(rest) /\ Cardinality(rest) = Cardinality(table) - 1
        BY <1>2, <2>2, FS_RemoveElement
    <2>4. Cardinality(rest) \in Nat
        BY <2>3, FS_CardinalityType
    <2>5. table' = rest \cup {updated}
        BY <1>1
    <2> HIDE DEF rest
    <2>6. Cardinality(table') \in Nat /\ Cardinality(table') <= Cardinality(rest) + 1
        BY <2>3, <2>4, <2>5, FS_AddElement
    <2>7. Cardinality(dead') <= Cardinality(dead) /\ Cardinality(dead') \in Nat
        BY <2>1, <2>2, FS_Subset, FS_CardinalityType
    <2> QED
        BY <2>2, <2>3, <2>4, <2>6, <2>7 DEF PlanCount
<1> QED
    BY <1>1, <1>4, <1>5, ChangingKeeps DEF row

-----------------------------------------------------------------------------
(* CREATE INDEX.                                                           *)

(* A plan scan counts the deleted rows that await their cleanup too.       *)
LEMMA PlanScanKeeps ==
    ASSUME IInv, NEW t \in Txns, NEW path \in Paths, NEW delta_scan \in BOOLEAN,
           PlanScan(t, path, delta_scan)
    PROVE  IInv'
<1> DEFINE ix  == NewIndex(path, delta_scan)
           new == [stage |-> "planned", n_rows |-> PlanCount, pushed |-> {}, index |-> ix]
<1>0. /\ TypeOK /\ ListInv /\ BuildInv /\ NumberInv /\ RacedInv /\ InsertInv /\ RowInv
      /\ CoverInv /\ PlanInv
    BY DEF IInv
<1>1. /\ txn' = Start(t, "CREATE") /\ last' = Silent /\ build' = [build EXCEPT ![t] = new]
      /\ UNCHANGED <<table, total, dead, builds, file, indexes, fatal>> /\ ~txn[t].open
    BY DEF PlanScan, stores
<1>2. /\ ix \in Index /\ ix.bound /\ ix.tree_uuid = 0 /\ ix.handle = NoTree
    BY DEF NewIndex, Index, NoTree, Uuid
<1>3. PlanCount \in Nat /\ PlanCount' = PlanCount
    BY <1>0, <1>1, CountFacts DEF PlanCount
<1> HIDE DEF ix
<1>4. /\ new \in Build /\ new.stage = "planned" /\ new.n_rows = PlanCount /\ new.index = ix
      /\ new # NoBuild
    BY <1>2, <1>3 DEF Build, NoBuild
<1> HIDE DEF new
<1>5. /\ build' \in [Txns -> Build \cup {NoBuild}] /\ build'[t] = new
      /\ \A o \in Txns \ {t} : build'[o] = build[o]
    BY <1>0, <1>1, <1>4 DEF TypeOK
<1>6. /\ txn' \in [Txns -> Transaction]
      /\ txn'[t].op = "CREATE" /\ txn'[t].row = NoRow /\ txn'[t].planned = {} /\ txn'[t].open
      /\ \A o \in Txns \ {t} : txn'[o] = txn[o]
    BY <1>0, <1>1, StartFacts
<1>7. TypeOK'
    <2>1. BuildTypes'
        BY <1>0, <1>4, <1>5, <1>6 DEF BuildTypes, TypeOK
    <2>2. RowTypes' /\ FileTypes' /\ ListTypes' /\ fatal' \in BOOLEAN
        BY <1>0, <1>1 DEF TypeOK, RowTypes, FileTypes, ListTypes
    <2> QED
        BY <1>1, <1>6, <2>1, <2>2, SilentKeeps, Types
<1>8. Rebound(indexes')
    BY <1>0, <1>1, SameRebinds DEF Rebound
<1>9. InsertInv' /\ RowInv' /\ (PendingChange' => PendingChange)
    BY <1>1, <1>6, <1>8, TxnKeeps
<1>10. ListInv'
    BY <1>0, <1>1 DEF ListInv, Known
<1>11. BuildInv'
    <2>1. Adopting(t)'
        BY <1>2, <1>4, <1>5 DEF Adopting, Numbered
    <2>2. ASSUME NEW o \in Txns \ {t}, build'[o] # NoBuild PROVE Adopting(o)'
        BY <1>0, <1>1, <1>5, <2>2 DEF BuildInv, Adopting, Numbered, Known
    <2> QED
        BY <2>1, <2>2 DEF BuildInv
<1>12. ~Numbered(t)' /\ ~Unlisted(t)'
    BY <1>4, <1>5 DEF Numbered, Unlisted
<1>13. NumberInv'
    <2>1. \A o \in Txns : Numbered(o)' => o # t /\ Numbered(o) /\ build'[o] = build[o]
        BY <1>5, <1>12 DEF Numbered
    <2>2. \A o \in Txns : txn'[o].planned \in {txn[o].planned, {}}
        BY <1>6
    <2> QED
        BY <1>0, <1>1, <2>1, <2>2 DEF NumberInv
<1>14. \A o \in Txns : Unlisted(o)' => o # t /\ Unlisted(o) /\ build'[o] = build[o] /\ Streamed(o)' = Streamed(o)
    BY <1>5, <1>12 DEF Unlisted, Streamed
<1>15. RacedInv'
    BY <1>0, <1>1, <1>9, <1>14 DEF RacedInv, Excused
<1>16. CoverInv'
    BY <1>0, <1>1, <1>14 DEF CoverInv, Covers
<1>17. PlanInv'
    BY <1>0, <1>3, <1>4, <1>5 DEF PlanInv
<1> QED
    BY <1>1, <1>7, <1>9, <1>10, <1>11, <1>13, <1>15, <1>16, <1>17, SilentKeeps DEF IInv

(* A build goes from one stage to the next, while the rest stands still.   *)
LEMMA StageKeeps ==
    ASSUME IInv, NEW t \in Txns, build[t] # NoBuild, NEW new \in Build,
           build' = [build EXCEPT ![t] = new], new.stage # "planned", last' = Silent,
           UNCHANGED <<table, total, dead, builds, file, indexes, txn, fatal>>,
           Adopting(t)', Excused(new.index),
           Covers(new.index, IF new.stage = "pushed" THEN new.pushed ELSE new.index.built.rows),
           new.stage # "pushed" => Numbered(t) /\ new.index.built = build[t].index.built
    PROVE  IInv'
<1>0. /\ TypeOK /\ ListInv /\ BuildInv /\ NumberInv /\ RacedInv /\ InsertInv /\ RowInv
      /\ CoverInv /\ PlanInv
    BY DEF IInv
<1>1. /\ build' \in [Txns -> Build \cup {NoBuild}] /\ build'[t] = new
      /\ \A o \in Txns \ {t} : build'[o] = build[o]
    BY <1>0 DEF TypeOK
<1>2. new # NoBuild
    BY DEF Build, NoBuild
<1>3. TypeOK'
    <2>1. BuildTypes'
        BY <1>0, <1>1, <1>2 DEF BuildTypes, TypeOK
    <2>2. RowTypes' /\ FileTypes' /\ ListTypes' /\ fatal' \in BOOLEAN /\ txn' \in [Txns -> Transaction]
        BY <1>0 DEF TypeOK, RowTypes, FileTypes, ListTypes
    <2> QED
        BY <2>1, <2>2, SilentKeeps, Types
<1>4. ListInv'
    BY <1>0 DEF ListInv, Known
<1>5. BuildInv'
    <2>1. ASSUME NEW o \in Txns \ {t}, build'[o] # NoBuild PROVE Adopting(o)'
        BY <1>0, <1>1, <2>1 DEF BuildInv, Adopting, Numbered, Known
    <2> QED
        BY <2>1 DEF BuildInv
<1>6. NumberInv'
    <2>1. \A o \in Txns : Numbered(o)' => Numbered(o) /\ build'[o].index.built = build[o].index.built
        BY <1>1 DEF Numbered
    <2> QED
        BY <1>0, <2>1 DEF NumberInv
<1>7. /\ InsertInv' /\ RowInv' /\ (PendingChange' <=> PendingChange)
    BY <1>0 DEF InsertInv, RowInv, PendingChange
<1>8. \A o \in Txns \ {t} : (Unlisted(o)' <=> Unlisted(o)) /\ Streamed(o)' = Streamed(o)
    BY <1>1 DEF Unlisted, Streamed
<1>9. RacedInv'
    <2>1. \A o \in Txns : Unlisted(o)' => Excused(build'[o].index)
        BY <1>0, <1>1, <1>8 DEF RacedInv
    <2> QED
        BY <1>0, <1>7, <2>1 DEF RacedInv, Excused
<1>10. CoverInv'
    <2>1. \A o \in Txns : Unlisted(o)' => Covers(build'[o].index, Streamed(o)')
        BY <1>0, <1>1, <1>8 DEF CoverInv, Streamed
    <2> QED
        BY <1>0, <2>1 DEF CoverInv, Covers
<1>11. PlanInv'
    BY <1>0, <1>1 DEF PlanInv, PlanCount
<1> QED
    BY <1>3, <1>4, <1>5, <1>6, <1>7, <1>9, <1>10, <1>11, SilentKeeps DEF IInv

(* The scans agree on deleted rows that await their cleanup only if an     *)
(* INSERT between them masks them.                                         *)
LEMMA AgreeingCounts ==
    ASSUME IInv, NEW t \in Txns, build[t].stage = "planned", CountsAgree(t)
    PROVE  dead = {} \/ "masked" \in build[t].index.past
<1> SUFFICES ASSUME "masked" \notin build[t].index.past PROVE dead = {}
    OBVIOUS
<1>1. /\ IsFiniteSet(dead) /\ Cardinality(dead) \in Nat /\ Cardinality(table) \in Nat
    BY CountFacts DEF IInv
<1>2. PlanCount <= Cardinality(table)
    BY DEF IInv, PlanInv, CountsAgree
<1>3. Cardinality(dead) = 0
    BY <1>1, <1>2 DEF PlanCount
<1> QED
    BY <1>1, <1>3, FS_EmptySet

(* What is streamed is the table as it is.                                 *)
LEMMA PushRowsKeeps ==
    ASSUME IInv, NEW t \in Txns, PushRows(t)
    PROVE  IInv'
<1> DEFINE ix   == build[t].index
           past == (IF PendingChange THEN {"raced"} ELSE {}) \cup (IF dead = {} THEN {} ELSE ix.past)
           new  == [build[t] EXCEPT !.stage = "pushed", !.pushed = table, !.index.past = past]
<1>0. TypeOK /\ BuildInv /\ build[t].stage = "planned" /\ table \subseteq Rows
    BY DEF IInv, TypeOK, PushRows
<1>1. /\ build' = [build EXCEPT ![t] = new] /\ last' = Silent
      /\ UNCHANGED <<table, total, dead, builds, file, indexes, txn, fatal>>
    BY DEF PushRows, stores
<1>2. build[t] # NoBuild /\ build[t] \in Build /\ ix \in Index /\ Adopting(t)
    BY <1>0, BuildFacts DEF NoBuild, BuildInv
<1>3. past \subseteq Past
    BY <1>2 DEF Past, Index
<1>4. dead = {} \/ "masked" \in ix.past
    BY AgreeingCounts DEF PushRows
<1>5. (PendingChange => "raced" \in past) /\ (dead # {} => past \cap {"raced", "masked"} # {})
    BY <1>4
<1> HIDE DEF past
<1> DEFINE jx == [ix EXCEPT !.past = past]
<1>6. /\ jx \in Index /\ jx.past = past /\ jx.bound = ix.bound /\ jx.tree_uuid = ix.tree_uuid
      /\ jx.handle = ix.handle
    BY <1>2, <1>3 DEF Index
<1>7. new = [build[t] EXCEPT !.stage = "pushed", !.pushed = table, !.index = jx]
    OBVIOUS
<1> HIDE DEF jx, new, ix
<1>8. new \in Build /\ new.stage = "pushed" /\ new.pushed = table /\ new.index = jx
    BY <1>0, <1>2, <1>6, <1>7 DEF Build
<1>9. build'[t] = new
    BY <1>0, <1>1 DEF TypeOK
<1>10. Adopting(t)'
    BY <1>0, <1>2, <1>6, <1>8, <1>9 DEF Adopting, Numbered, ix
<1>11. Excused(new.index)
    BY <1>5, <1>6, <1>8 DEF Excused
<1>12. Covers(new.index, table)
    BY DEF Covers
<1> QED
    BY <1>1, <1>2, <1>8, <1>10, <1>11, <1>12, StageKeeps

(* The tree has a new number, and what was at its path is marked.          *)
LEMMA FinishBuildKeeps ==
    ASSUME IInv, NEW t \in Txns, FinishBuild(t)
    PROVE  IInv'
<1> DEFINE path == build[t].index.path
           tree == [uuid |-> builds + 1, rows |-> build[t].pushed]
           n    == Cardinality(build[t].pushed)
           ix   == [build[t].index EXCEPT !.built = tree, !.n_build = n]
           new  == [build[t] EXCEPT !.stage = "finished", !.pushed = {}, !.index = ix]
<1>0. /\ TypeOK /\ ListInv /\ BuildInv /\ NumberInv /\ RacedInv /\ InsertInv /\ RowInv
      /\ CoverInv /\ PlanInv
    BY DEF IInv
<1>1. /\ builds' = builds + 1 /\ builds < MaxBuilds /\ last' = Silent
      /\ file' = [file EXCEPT ![path] = tree] /\ build[t].stage = "pushed"
      /\ UNCHANGED <<table, total, dead, indexes, txn, fatal>>
    BY DEF FinishBuild, stores
<1>2. /\ build' = [o \in Txns |->
                    IF o = t THEN new
                    ELSE IF build[o].stage = "finished" /\ build[o].index.path = path
                    THEN Marked(o, "overwritten")
                    ELSE build[o]]
    BY DEF FinishBuild
<1>3. /\ build[t] # NoBuild /\ build[t] \in Build /\ build[t].index \in Index /\ Adopting(t)
      /\ path \in Paths /\ build[t].pushed \in SUBSET Rows /\ n \in Nat /\ builds \in Nat
    <2>1. build[t] # NoBuild
        BY <1>1 DEF NoBuild
    <2>2. build[t] \in Build /\ build[t].index \in Index /\ Adopting(t)
        BY <1>0, <2>1, BuildFacts DEF BuildInv
    <2>3. path \in Paths /\ build[t].pushed \in SUBSET Rows
        BY <2>2 DEF Build, Index
    <2>4. n \in Nat /\ builds \in Nat
        BY <1>0, <2>3, RowFacts DEF TypeOK
    <2> QED
        BY <2>1, <2>2, <2>3, <2>4
<1>4. tree \in Tree /\ tree.uuid = builds + 1 /\ tree.rows = build[t].pushed
    BY <1>1, <1>3 DEF Tree
<1> HIDE DEF tree, n
<1>5. /\ ix \in Index /\ ix.built = tree /\ ix.past = build[t].index.past /\ ix.path = path
      /\ ix.bound = build[t].index.bound /\ ix.tree_uuid = build[t].index.tree_uuid
      /\ ix.handle = build[t].index.handle /\ ix.delta_scan = build[t].index.delta_scan
    BY <1>3, <1>4 DEF Index
<1> HIDE DEF ix, path
<1>6. new \in Build /\ new.stage = "finished" /\ new.index = ix /\ new # NoBuild
    BY <1>3, <1>5 DEF Build, NoBuild
<1> HIDE DEF new
<1>7. build'[t] = new /\ \A o \in Txns \ {t} : Aged(o)
    <2>1. build'[t] = new
        BY <1>2
    <2>2. ASSUME NEW o \in Txns \ {t} PROVE Aged(o)
        <3>1. "overwritten" \in Past
            BY DEF Past
        <3>2. build[o].stage = "finished" => build[o] # NoBuild
            BY DEF NoBuild
        <3>3. build'[o] = build[o] \/ (build[o].stage = "finished" /\ build'[o] = Marked(o, "overwritten"))
            BY <1>2
        <3> QED
            BY <3>1, <3>2, <3>3 DEF Aged
    <2> QED
        BY <2>1, <2>2
<1>8. ASSUME NEW o \in Txns \ {t}
      PROVE  build[o] # NoBuild <=> build'[o] # NoBuild
    <2>1. CASE build'[o] = build[o]
        BY <2>1
    <2>2. CASE build'[o] # build[o]
        <3>1. build[o] # NoBuild /\ build'[o] = Marked(o, "overwritten")
            BY <1>2, <2>2 DEF NoBuild
        <3> QED
            BY <1>0, <3>1, MarkIsSet
    <2> QED
        BY <2>1, <2>2
<1>9. \A o \in Txns \ {t} : build'[o] # NoBuild => SameBuild(o)
    BY <1>0, <1>7, AgedFacts
<1>10. /\ file'[path] = tree /\ \A p \in Paths \ {path} : file'[p] = file[p]
       /\ file' \in [Paths -> Tree \cup {NoTree}] /\ FilesKept
    <2>1. /\ file'[path] = tree /\ \A p \in Paths \ {path} : file'[p] = file[p]
          /\ file' \in [Paths -> Tree \cup {NoTree}]
        BY <1>0, <1>1, <1>3, <1>4 DEF TypeOK, path
    <2>2. FilesKept
        BY <1>1, <1>3, <1>4, <2>1 DEF FilesKept
    <2> QED
        BY <2>1, <2>2
<1>11. Rebound(indexes')
    BY <1>0, <1>1, SameRebinds DEF Rebound
<1>12. ListTypes' /\ ListInv'
    BY <1>0, <1>10, <1>11, ReboundTypes
<1>13. TypeOK'
    <2>1. BuildTypes'
        <3>1. \A o \in Txns : build'[o] # NoBuild <=> txn'[o].op = "CREATE"
            BY <1>0, <1>1, <1>3, <1>6, <1>7, <1>8 DEF TypeOK
        <3>2. \A o \in Txns : build'[o] \in Build \cup {NoBuild}
            BY <1>6, <1>7, <1>9 DEF SameBuild
        <3>3. build' = [o \in Txns |-> build'[o]]
            BY <1>2
        <3> QED
            BY <3>1, <3>2, <3>3 DEF BuildTypes
    <2>2. FileTypes'
        <3>1. builds' \in 0 .. MaxBuilds
            BY <1>0, <1>1, <1>3
        <3>2. ASSUME NEW p \in Paths PROVE file'[p].uuid <= builds'
            <4>1. CASE p = path
                BY <1>1, <1>3, <1>4, <1>10, <4>1
            <4>2. CASE p # path
                <5>1. file[p].uuid <= builds /\ file[p].uuid \in Nat
                    BY <1>0, FileFacts DEF Uuid
                <5> QED
                    BY <1>1, <1>3, <1>10, <4>2, <5>1
            <4> QED
                BY <4>1, <4>2
        <3> QED
            BY <1>10, <3>1, <3>2 DEF FileTypes
    <2>3. RowTypes' /\ fatal' \in BOOLEAN /\ txn' \in [Txns -> Transaction]
        BY <1>0, <1>1 DEF TypeOK, RowTypes
    <2> QED
        BY <1>1, <1>12, <2>1, <2>2, <2>3, SilentKeeps, Types
<1>14. BuildInv'
    <2>1. Adopting(t)'
        <3>1. Known(build[t].index)'
            <4>1. ASSUME NEW p \in Paths, file'[p].uuid = builds + 1 PROVE file'[p] = tree
                <5>1. file[p].uuid <= builds /\ file[p].uuid \in Uuid
                    BY <1>0, FileFacts
                <5>2. file[p].uuid # builds + 1
                    BY <1>3, <5>1 DEF Uuid
                <5> QED
                    BY <1>10, <4>1, <5>2
            <4> QED
                BY <1>1, <1>3, <1>4, <1>5, <1>6, <1>7, <4>1 DEF Known
        <3>2. Adopting(t) /\ build[t].stage = "pushed"
            BY <1>1, <1>3
        <3> QED
            BY <1>5, <1>6, <1>7, <1>10, <3>1, <3>2 DEF Adopting, Numbered
    <2>2. ASSUME NEW o \in Txns \ {t}, build'[o] # NoBuild PROVE Adopting(o)'
        <3>1. SameBuild(o) /\ build[o] # NoBuild /\ build[o].index.path \in Paths
            <4>1. SameBuild(o) /\ build[o] # NoBuild
                BY <1>9, <2>2 DEF SameBuild
            <4> QED
                BY <1>0, <4>1, BuildFacts DEF Index
        <3>2. CASE build[o].stage = "finished" /\ build[o].index.path = path
            <4>1. "overwritten" \in build'[o].index.past
                BY <1>0, <1>2, <3>1, <3>2, MarkIsSet
            <4> QED
                BY <1>0, <1>7, <1>10, <2>2, <4>1, AgedAdopts
        <3>3. CASE ~(build[o].stage = "finished" /\ build[o].index.path = path)
            <4>1. build[o].stage # "finished" \/ file'[build[o].index.path] = file[build[o].index.path]
                BY <1>10, <3>1, <3>3
            <4> QED
                BY <1>0, <1>7, <1>10, <2>2, <4>1, AgedAdopts
        <3> QED
            BY <3>2, <3>3
    <2> QED
        BY <2>1, <2>2 DEF BuildInv
<1>15. NumberInv'
    <2>1. ASSUME NEW o \in Txns \ {t}, Numbered(o)'
          PROVE  /\ Numbered(o) /\ build'[o].index.built = build[o].index.built
                 /\ build[o].index.built.uuid \in 1 .. builds
        <3>1. Numbered(o) /\ build'[o].index.built = build[o].index.built
            BY <1>0, <1>7, <2>1, AgedNumbered
        <3>2. build[o] # NoBuild
            BY <3>1 DEF Numbered, NoBuild
        <3> QED
            BY <1>0, <3>1, <3>2 DEF BuildInv, Adopting, Known
    <2>2. build'[t].index.built.uuid = builds + 1
        BY <1>4, <1>5, <1>6, <1>7
    <2>3. \A i \in DOMAIN indexes : indexes[i].built.uuid \in 1 .. builds
        BY <1>0 DEF TypeOK
    <2>4. ASSUME NEW o \in Txns PROVE txn'[o].planned \subseteq 1 .. builds'
        <3>1. txn'[o].planned \subseteq 1 .. builds
            BY <1>0, <1>1 DEF NumberInv
        <3> QED
            BY <1>1, <1>3, <3>1
    <2>5. \A k \in 1 .. builds : k # builds + 1
        BY <1>3
    <2>6. ASSUME NEW p \in Txns, Numbered(p)'
          PROVE  LET uuid == build'[p].index.built.uuid IN
                 /\ \A i \in DOMAIN indexes' : indexes'[i].built.uuid # uuid
                 /\ \A o \in Txns \ {p} : Numbered(o)' => build'[o].index.built.uuid # uuid
                 /\ \A o \in Txns : uuid \notin txn'[o].planned
        <3>1. CASE p = t
            BY <1>0, <1>1, <2>1, <2>2, <2>3, <2>5, <3>1 DEF NumberInv
        <3>2. CASE p # t
            BY <1>0, <1>1, <2>1, <2>2, <2>5, <2>6, <3>2 DEF NumberInv
        <3> QED
            BY <3>1, <3>2
    <2> QED
        BY <2>4, <2>6 DEF NumberInv
<1>16. InsertInv' /\ RowInv' /\ (PendingChange' <=> PendingChange)
    BY <1>0, <1>1 DEF InsertInv, RowInv, PendingChange
<1>17. ASSUME NEW o \in Txns, Unlisted(o)'
       PROVE  /\ Unlisted(o) /\ Excused(build'[o].index)
              /\ Covers(build'[o].index, Streamed(o)')
    <2>1. CASE o = t
        <3>1. Unlisted(t) /\ Streamed(t) = build[t].pushed /\ Streamed(t)' = build[t].pushed
            BY <1>1, <1>4, <1>5, <1>6, <1>7 DEF Unlisted, Streamed
        <3>2. Excused(build[t].index) /\ Covers(build[t].index, build[t].pushed)
            BY <1>0, <3>1 DEF RacedInv, CoverInv
        <3>3. Excused(ix) /\ Covers(ix, build[t].pushed)
            BY <1>5, <3>2 DEF Excused, Covers
        <3> QED
            BY <1>6, <1>7, <2>1, <3>1, <3>3
    <2>2. CASE o # t
        <3>1. build'[o] # NoBuild
            BY <1>17 DEF Unlisted, NoBuild
        <3> QED
            BY <1>0, <1>9, <1>17, <2>2, <3>1, SameBuildFacts DEF RacedInv, CoverInv
    <2> QED
        BY <2>1, <2>2
<1>18. RacedInv'
    BY <1>0, <1>1, <1>16, <1>17 DEF RacedInv, Excused
<1>19. CoverInv'
    BY <1>0, <1>1, <1>17 DEF CoverInv, Covers
<1>20. PlanInv'
    <2> SUFFICES ASSUME NEW o \in Txns, build'[o].stage = "planned", "masked" \notin build'[o].index.past
                 PROVE  PlanCount <= build'[o].n_rows
        BY <1>1 DEF PlanInv, PlanCount
    <2>1. o # t /\ build'[o] # NoBuild
        BY <1>6, <1>7 DEF NoBuild
    <2>2. SameBuild(o)
        BY <1>9, <2>1
    <2> QED
        BY <1>0, <2>2 DEF SameBuild, PlanInv
<1> QED
    BY <1>1, <1>12, <1>13, <1>14, <1>15, <1>16, <1>18, <1>19, <1>20, SilentKeeps DEF IInv

(* The build adopts what is at its path.                                   *)
LEMMA AttachTreeKeeps ==
    ASSUME IInv, NEW t \in Txns, AttachTree(t)
    PROVE  IInv'
<1> DEFINE old == build[t].index
           ix  == AttachAndVerify(old)
           new == [build[t] EXCEPT !.stage = "attached", !.index = ix]
<1>0. TypeOK /\ BuildInv /\ RacedInv /\ CoverInv /\ build[t].stage = "finished"
    BY DEF IInv, AttachTree
<1>1. /\ build' = [build EXCEPT ![t] = new] /\ last' = Silent /\ ix.handle # NoTree
      /\ UNCHANGED <<table, total, dead, builds, file, indexes, txn, fatal>>
    BY DEF AttachTree, stores
<1>2. build[t] # NoBuild /\ build[t] \in Build /\ old \in Index /\ Adopting(t)
    BY <1>0, BuildFacts DEF NoBuild, BuildInv
<1>3. /\ ix \in Index /\ Kin(old, ix) /\ ix.past = old.past /\ ix.bound = old.bound
      /\ ix.path = old.path
      /\ ix.handle # old.handle => ix.handle = file[old.path] /\ ix.tree_uuid = file[old.path].uuid
    BY <1>0, <1>2, AttachFacts
<1> HIDE DEF ix, old
<1>4. new \in Build /\ new.stage = "attached" /\ new.index = ix
    BY <1>2, <1>3 DEF Build
<1> HIDE DEF new
<1>5. build'[t] = new
    BY <1>0, <1>1 DEF TypeOK
<1>6. /\ old.bound /\ old.handle = NoTree /\ Known(old)
      /\ "overwritten" \in old.past \/ file[old.path] \in {NoTree, old.built}
    BY <1>0, <1>2 DEF Adopting, Numbered, old
<1>7. ix.handle = file[old.path] /\ ix.tree_uuid = file[old.path].uuid
    BY <1>1, <1>3, <1>6
<1>8. Adopting(t)'
    <2>1. "overwritten" \in ix.past \/ (ix.tree_uuid = ix.built.uuid /\ ix.handle = ix.built)
        BY <1>1, <1>3, <1>6, <1>7 DEF Kin
    <2>2. Known(build[t].index)'
        BY <1>1, <1>3, <1>4, <1>5, <1>6 DEF Known, Kin
    <2> QED
        BY <1>3, <1>4, <1>5, <1>6, <2>1, <2>2 DEF Adopting, Numbered
<1>9. Excused(ix) /\ Covers(ix, ix.built.rows)
    <2>1. Unlisted(t) /\ Streamed(t) = old.built.rows
        BY <1>0 DEF Unlisted, Streamed, old
    <2>2. Excused(old) /\ Covers(old, old.built.rows)
        BY <1>0, <2>1 DEF RacedInv, CoverInv, old
    <2> QED
        BY <1>3, <2>2, KinFacts
<1>10. Numbered(t) /\ ix.built = old.built
    BY <1>0, <1>3 DEF Numbered, Kin
<1> QED
    BY <1>1, <1>2, <1>4, <1>8, <1>9, <1>10, StageKeeps DEF old

(* The index enters the list with the identity it adopted.                 *)
LEMMA AddIndexKeeps ==
    ASSUME IInv, NEW t \in Txns, AddIndex(t)
    PROVE  IInv'
<1> DEFINE n   == Len(indexes)
           old == build[t].index
           new == PersistToDisk(old)
<1>0. /\ TypeOK /\ ListInv /\ BuildInv /\ NumberInv /\ RacedInv /\ InsertInv /\ RowInv
      /\ CoverInv /\ PlanInv /\ n \in Nat /\ DOMAIN indexes = 1 .. n /\ indexes \in Seq(Index)
    BY DEF IInv, TypeOK
<1>1. /\ build[t].stage = "attached" /\ indexes' = Append(indexes, new)
      /\ build' = [build EXCEPT ![t] = NoBuild] /\ End(t, dead)
      /\ UNCHANGED <<table, total, builds, file>>
    BY DEF AddIndex
<1>2. build[t] # NoBuild /\ old \in Index /\ Adopting(t) /\ Numbered(t) /\ Unlisted(t)
    BY <1>0, <1>1, BuildFacts DEF NoBuild, BuildInv, Numbered, Unlisted
<1>3. /\ new \in Index /\ Kin(old, new) /\ Identified(new) /\ new.bound /\ Known(new)
    <2> HIDE DEF old
    <2> DEFINE blob == [tree_uuid |-> old.tree_uuid, n_build |-> old.n_build]
    <2>1. blob \in [tree_uuid : Uuid, n_build : Nat] /\ blob.tree_uuid = old.tree_uuid
        BY <1>2 DEF Index
    <2>2. new = [old EXCEPT !.blob = blob]
        BY DEF PersistToDisk
    <2> HIDE DEF blob
    <2>3. /\ new \in Index /\ Kin(old, new) /\ new.past = old.past /\ new.bound = old.bound
          /\ new.tree_uuid = old.tree_uuid /\ new.handle = old.handle /\ new.built = old.built
          /\ new.blob = blob
        BY <1>2, <2>1, <2>2 DEF Index, Kin
    <2>4. /\ old.bound /\ Known(old)
          /\ "overwritten" \in old.past \/ (old.tree_uuid = old.built.uuid /\ old.handle = old.built)
        BY <1>1, <1>2 DEF Adopting, old
    <2> QED
        BY <2>1, <2>3, <2>4 DEF Identified, Known
<1> HIDE DEF new, old
<1>4. /\ indexes' \in Seq(Index) /\ Len(indexes') = n + 1 /\ DOMAIN indexes' = 1 .. n + 1
      /\ indexes'[n + 1] = new /\ \A i \in 1 .. n : indexes'[i] = indexes[i]
    BY <1>0, <1>1, <1>3
<1>5. /\ txn' \in [Txns -> Transaction] /\ txn'[t] = Idle
      /\ \A o \in Txns \ {t} : txn'[o] = txn[o]
      /\ dead' \subseteq dead /\ fatal' \in BOOLEAN /\ last' = Silent
    BY <1>0, <1>1, EndFacts
<1>6. /\ build' \in [Txns -> Build \cup {NoBuild}] /\ build'[t] = NoBuild
      /\ \A o \in Txns \ {t} : build'[o] = build[o]
    BY <1>0, <1>1 DEF TypeOK
<1>7. \A i \in 1 .. n : indexes[i].built.uuid # new.built.uuid
    BY <1>0, <1>2, <1>3 DEF NumberInv, Kin, old
<1>8. TypeOK'
    <2>1. ListTypes'
        <3>1. ASSUME NEW i \in 1 .. n + 1, NEW j \in 1 .. n + 1, i # j
              PROVE  indexes'[i].built.uuid # indexes'[j].built.uuid
            <4>1. CASE i = n + 1
                BY <1>0, <1>4, <1>7, <3>1, <4>1
            <4>2. CASE j = n + 1
                BY <1>0, <1>4, <1>7, <3>1, <4>2
            <4>3. CASE i \in 1 .. n /\ j \in 1 .. n
                <5>1. indexes[i].built.uuid # indexes[j].built.uuid
                    BY <1>0, <3>1, <4>3 DEF TypeOK
                <5> QED
                    BY <1>4, <4>3, <5>1
            <4> QED
                BY <1>0, <4>1, <4>2, <4>3
        <3>2. ASSUME NEW i \in 1 .. n + 1
              PROVE  /\ indexes'[i].built.uuid \in 1 .. builds
                     /\ indexes'[i].handle # NoTree => indexes'[i].bound
            <4>1. CASE i = n + 1
                BY <1>3, <1>4, <4>1 DEF Known
            <4>2. CASE i \in 1 .. n
                BY <1>0, <1>4, <4>2 DEF TypeOK
            <4> QED
                BY <1>0, <4>1, <4>2
        <3> QED
            BY <1>1, <1>4, <3>1, <3>2 DEF ListTypes
    <2>2. BuildTypes'
        BY <1>0, <1>5, <1>6, IdleFacts DEF BuildTypes, TypeOK
    <2>3. RowTypes' /\ FileTypes'
        BY <1>0, <1>1, <1>5 DEF TypeOK, RowTypes, FileTypes
    <2> QED
        BY <1>5, <2>1, <2>2, <2>3, SilentKeeps, Types
<1>9. ListInv'
    <2>1. \A i \in DOMAIN indexes' : Known(indexes'[i]) /\ Identified(indexes'[i])
        BY <1>0, <1>3, <1>4 DEF ListInv
    <2> QED
        BY <1>1, <2>1 DEF ListInv, Known
<1>10. BuildInv'
    BY <1>0, <1>1, <1>6 DEF BuildInv, Adopting, Numbered, Known
<1>11. \A o \in Txns : Numbered(o)' => o # t /\ Numbered(o) /\ build'[o] = build[o]
    BY <1>6 DEF Numbered, NoBuild
<1>12. NumberInv'
    <2>1. \A o \in Txns : txn'[o].planned \in {txn[o].planned, {}}
        BY <1>5, IdleFacts
    <2>2. ASSUME NEW o \in Txns, Numbered(o)', NEW i \in DOMAIN indexes'
          PROVE  indexes'[i].built.uuid # build[o].index.built.uuid
        <3>1. CASE i = n + 1
            BY <1>0, <1>2, <1>3, <1>4, <1>11, <2>2, <3>1 DEF NumberInv, Kin, old
        <3>2. CASE i \in 1 .. n
            BY <1>0, <1>4, <1>11, <2>2, <3>2 DEF NumberInv
        <3> QED
            BY <1>0, <1>4, <3>1, <3>2
    <2> QED
        BY <1>0, <1>1, <1>11, <2>1, <2>2 DEF NumberInv
<1>13. InsertInv'
    <2> SUFFICES ASSUME NEW o \in Txns, txn'[o].op = "INSERT", NEW i \in DOMAIN indexes'
                 PROVE  indexes'[i].delta_scan \/ indexes'[i].built.uuid \notin txn'[o].planned
        BY DEF InsertInv
    <2>1. o # t /\ txn'[o] = txn[o]
        BY <1>5, IdleFacts
    <2>2. CASE i = n + 1
        BY <1>0, <1>2, <1>3, <1>4, <2>1, <2>2 DEF NumberInv, Kin, old
    <2>3. CASE i \in 1 .. n
        BY <1>0, <1>4, <2>1, <2>3 DEF InsertInv
    <2> QED
        BY <1>0, <1>4, <2>2, <2>3
<1>14. RowInv' /\ (PendingChange' => PendingChange)
    BY <1>0, <1>1, <1>5, IdleFacts DEF RowInv, PendingChange
<1>15. ASSUME NEW o \in Txns, Unlisted(o)'
       PROVE  /\ Unlisted(o) /\ build'[o] = build[o] /\ Streamed(o)' = Streamed(o)
    BY <1>6, <1>15 DEF Unlisted, Streamed, NoBuild
<1>16. Excused(old) /\ Covers(old, old.built.rows)
    <2>1. Streamed(t) = old.built.rows
        BY <1>1 DEF Streamed, old
    <2> QED
        BY <1>0, <1>2, <2>1 DEF RacedInv, CoverInv, old
<1>17. Excused(new) /\ Covers(new, new.built.rows)
    BY <1>3, <1>16, KinFacts
<1>18. RacedInv'
    <2>1. \A i \in DOMAIN indexes' : Excused(indexes'[i])
        BY <1>0, <1>4, <1>17 DEF RacedInv
    <2> QED
        BY <1>0, <1>5, <1>14, <1>15, <2>1 DEF RacedInv, Excused
<1>19. CoverInv'
    <2>1. \A i \in DOMAIN indexes' : Covers(indexes'[i], indexes'[i].built.rows)
        BY <1>0, <1>4, <1>17 DEF CoverInv
    <2> QED
        BY <1>0, <1>1, <1>15, <2>1 DEF CoverInv, Covers
<1>20. PlanInv'
    <2>1. PlanCount' \in Nat /\ PlanCount' <= PlanCount
        <3>1. Cardinality(dead') <= Cardinality(dead) /\ Cardinality(dead') \in Nat
            BY <1>0, <1>5, CountFacts, FS_Subset, FS_CardinalityType
        <3> QED
            BY <1>0, <1>1, <3>1, CountFacts DEF PlanCount
    <2>2. \A o \in Txns : Aged(o)
        BY <1>6 DEF Aged
    <2> QED
        BY <1>0, <2>1, <2>2, AgedPlans
<1> QED
    BY <1>5, <1>8, <1>9, <1>10, <1>12, <1>13, <1>14, <1>18, <1>19, <1>20, SilentKeeps DEF IInv

-----------------------------------------------------------------------------
(* DROP and restarts.                                                      *)

(* The indexes that stay are those that were there.                        *)
LEMMA DropIndexKeeps ==
    ASSUME IInv, NEW k \in DOMAIN indexes, DropIndex(k)
    PROVE  IInv'
<1> DEFINE n     == Len(indexes)
           of(j) == IF j < k THEN j ELSE j + 1
<1>0. /\ TypeOK /\ ListInv /\ BuildInv /\ NumberInv /\ RacedInv /\ InsertInv /\ RowInv
      /\ CoverInv /\ PlanInv /\ n \in Nat /\ DOMAIN indexes = 1 .. n /\ k \in 1 .. n
    BY DEF IInv, TypeOK
<1>1. /\ indexes' = RemoveAt(BindIndexes, k) /\ last' = Silent
      /\ UNCHANGED <<table, total, dead, builds, txn, build, fatal>>
      /\ file' = [file EXCEPT ![indexes[k].path] = NoTree] \/ file' = file
    BY DEF DropIndex, stores
<1>2. Rebound(BindIndexes)
    BY <1>0, BindIndexesRebinds
<1>3. /\ indexes' \in Seq(Index) /\ Len(indexes') = n - 1
      /\ \A j \in 1 .. n - 1 : indexes'[j] = BindIndexes[of(j)]
    <2>1. BindIndexes \in Seq(Index) /\ Len(BindIndexes) = n
        BY <1>2 DEF Rebound
    <2> QED
        BY <1>0, <1>1, <2>1, RemoveAtFacts
<1>4. DOMAIN indexes' = 1 .. n - 1 /\ \A j \in 1 .. n - 1 : of(j) \in 1 .. n
    BY <1>0, <1>3
<1>5. \A i, j \in 1 .. n - 1 : i # j => of(i) # of(j)
    BY <1>0
<1> HIDE DEF of
<1>6. \A j \in DOMAIN indexes' :
         /\ of(j) \in DOMAIN indexes /\ Kin(indexes[of(j)], indexes'[j])
         /\ Identified(indexes'[j]) /\ (indexes'[j].handle # NoTree => indexes'[j].bound)
    BY <1>0, <1>2, <1>3, <1>4 DEF Rebound
<1>7. \A j \in DOMAIN indexes' : /\ indexes'[j].built = indexes[of(j)].built
                                 /\ indexes'[j].delta_scan = indexes[of(j)].delta_scan
    BY <1>6 DEF Kin
<1>8. /\ file' \in [Paths -> Tree \cup {NoTree}]
      /\ \A p \in Paths : file'[p] \in {file[p], NoTree}
    BY <1>0, <1>1 DEF TypeOK
<1>9. FilesKept
    BY <1>0, <1>1, <1>8 DEF FilesKept, TypeOK
<1>10. TypeOK'
    <2>1. ListTypes'
        <3>1. ASSUME NEW i \in DOMAIN indexes', NEW j \in DOMAIN indexes', i # j
              PROVE  indexes'[i].built.uuid # indexes'[j].built.uuid
            <4>1. of(i) # of(j)
                BY <1>4, <1>5, <3>1
            <4> QED
                BY <1>0, <1>6, <1>7, <4>1 DEF TypeOK
        <3>2. \A i \in DOMAIN indexes' : indexes'[i].built.uuid \in 1 .. builds'
            BY <1>0, <1>1, <1>6, <1>7 DEF TypeOK
        <3> QED
            BY <1>3, <1>6, <3>1, <3>2 DEF ListTypes
    <2>2. FileTypes'
        <3>1. builds' = builds /\ builds \in 0 .. MaxBuilds
            BY <1>0, <1>1 DEF TypeOK
        <3>2. \A p \in Paths : file'[p].uuid <= builds'
            BY <1>0, <1>8, <3>1 DEF TypeOK, NoTree
        <3> QED
            BY <1>8, <3>1, <3>2 DEF FileTypes
    <2>3. RowTypes' /\ BuildTypes' /\ fatal' \in BOOLEAN /\ txn' \in [Txns -> Transaction]
        BY <1>0, <1>1 DEF TypeOK, RowTypes, BuildTypes
    <2> QED
        BY <1>1, <2>1, <2>2, <2>3, SilentKeeps, Types
<1>11. ListInv'
    <2>1. \A x : Known(x) => (x.built.uuid \in 1 .. builds'
                 /\ \A p \in Paths : file'[p].uuid = x.built.uuid => file'[p] = x.built)
        BY <1>0, <1>9, KnownKept DEF Known
    <2>2. \A j \in DOMAIN indexes' : Known(indexes'[j])
        BY <1>0, <1>6, <1>7 DEF ListInv, Known
    <2> QED
        BY <1>6, <2>1, <2>2 DEF ListInv, Known
<1>12. \A t \in Txns : Aged(t)
    BY <1>1, SameAges
<1>13. BuildInv'
    BY <1>0, <1>8, <1>9, <1>12, AgedBuilds
<1>14. NumberInv' /\ InsertInv' /\ RowInv'
    BY <1>0, <1>1, <1>6, <1>7 DEF NumberInv, InsertInv, RowInv, Numbered
<1>15. RacedInv'
    <2>1. \A j \in DOMAIN indexes' : Excused(indexes'[j])
        BY <1>0, <1>6, KinFacts DEF RacedInv
    <2> QED
        BY <1>0, <1>1, <2>1 DEF RacedInv, Excused, PendingChange, Unlisted
<1>16. CoverInv'
    <2>1. \A j \in DOMAIN indexes' : Covers(indexes'[j], indexes'[j].built.rows)
        BY <1>0, <1>6, KinFacts DEF CoverInv
    <2> QED
        BY <1>0, <1>1, <2>1 DEF CoverInv, Covers, Unlisted, Streamed
<1>17. PlanInv'
    BY <1>0, <1>1 DEF PlanInv, PlanCount
<1> QED
    BY <1>1, <1>10, <1>11, <1>13, <1>14, <1>15, <1>16, <1>17, SilentKeeps DEF IInv

(* After a restart nothing is bound, and no transaction is open.           *)
LEMMA UnboundFacts ==
    ASSUME TypeOK, NEW ix \in Index, Identified(ix), NEW new \in {FromBlob(ix), FromOptions(ix)}
    PROVE  new \in Index /\ Kin(ix, new) /\ Identified(new) /\ new.handle = NoTree
<1>1. CASE new = FromBlob(ix)
    <2>1. ix.blob.tree_uuid \in Uuid /\ ix.blob.n_build \in Nat
        BY DEF Index
    <2>2. /\ new \in Index /\ new.built = ix.built /\ new.delta_scan = ix.delta_scan
          /\ new.past = ix.past /\ new.handle = NoTree /\ new.blob = ix.blob
          /\ new.tree_uuid = ix.blob.tree_uuid
        BY <1>1, <2>1 DEF FromBlob, Index
    <2> QED
        BY <2>2 DEF Kin, Identified
<1>2. CASE new = FromOptions(ix)
    <2>1. 0 \in Uuid /\ "forgotten" \in Past /\ ix.past \cup {"forgotten"} \subseteq Past
        BY DEF Uuid, Past, Index
    <2>2. /\ new \in Index /\ new.built = ix.built /\ new.delta_scan = ix.delta_scan
          /\ new.past = ix.past \cup {"forgotten"} /\ new.handle = NoTree
        BY <1>2, <2>1 DEF FromOptions, Index
    <2> QED
        BY <2>2 DEF Kin, Identified
<1> QED
    BY <1>1, <1>2

LEMMA RestartKeeps ==
    ASSUME IInv, Restart
    PROVE  IInv'
<1>0. TypeOK /\ ListInv
    BY DEF IInv
<1>1. /\ txn' = [t \in Txns |-> Idle] /\ build' = [t \in Txns |-> NoBuild] /\ dead' = {}
      /\ fatal' = FALSE /\ last' = Silent /\ UNCHANGED <<table, total, builds, file>>
    BY DEF Restart
<1>2. PICK bare \in SUBSET DOMAIN indexes :
          indexes' = [i \in DOMAIN indexes |-> IF i \in bare THEN FromOptions(indexes[i])
                                                            ELSE FromBlob(indexes[i])]
    BY DEF Restart
<1>3. \A i \in DOMAIN indexes : indexes'[i] \in {FromBlob(indexes[i]), FromOptions(indexes[i])}
    BY <1>2
<1>4. \A i \in DOMAIN indexes :
         /\ indexes'[i] \in Index /\ Kin(indexes[i], indexes'[i]) /\ Identified(indexes'[i])
         /\ indexes'[i].handle = NoTree
    BY <1>0, <1>3, IndexFacts, UnboundFacts DEF ListInv
<1>5. indexes' = [i \in DOMAIN indexes |-> indexes'[i]]
    BY <1>2
<1>6. indexes' \in Seq(Index) /\ Len(indexes') = Len(indexes) /\ DOMAIN indexes' = DOMAIN indexes
    BY <1>0, <1>4, <1>5, ListOfFunction
<1>7. Rebound(indexes')
    BY <1>4, <1>6 DEF Rebound
<1>8. /\ txn' \in [Txns -> Transaction] /\ \A t \in Txns : txn'[t] = Idle
      /\ \A t \in Txns : Aged(t) /\ (txn'[t].op = "CREATE" <=> build'[t] # NoBuild)
      /\ build' = [t \in Txns |-> build'[t]]
    BY <1>1, IdleFacts DEF Aged
<1>9. file' \in [Paths -> Tree \cup {NoTree}]
    BY <1>0, <1>1 DEF TypeOK
<1> QED
    BY <1>1, <1>7, <1>8, <1>9, SilentKeeps, QuietKeeps

-----------------------------------------------------------------------------
(* Queries.                                                                *)

(* An index that is attached to its own tree, without gaps in it and       *)
(* neither raced nor overtaken, serves the whole table by its row ids.     *)
LEMMA ServedIsTable ==
    ASSUME IInv, NEW i \in DOMAIN indexes, NEW ix, Kin(indexes[i], ix),
           ix.handle = ix.built, Gapless(ix.built.rows),
           ix.past \cap {"raced", "overtaken"} = {},
           ix.delta_scan => Cardinality(ix.handle.rows) = ix.n_build
    PROVE  Served(ix) = {<<r[1], r>> : r \in table}
<1> DEFINE tree == ix.built.rows
           later == {r \in table : r[1] >= ix.n_build}
<1>1. Covers(ix, tree)
    BY KinFacts DEF IInv, CoverInv
<1>2. /\ tree \subseteq table /\ (ix.delta_scan \/ tree = table)
      /\ \A r \in table \ tree : r[1] >= Cardinality(tree)
    BY <1>1 DEF Covers
<1>3. Served(ix) = {<<Place(r, tree), r>> : r \in tree} \cup
        (IF ix.delta_scan THEN {<<r[1], r>> : r \in later} ELSE {})
    BY DEF Served
<1>4. \A r \in tree : Place(r, tree) = r[1]
    BY DEF Gapless
<1>5. ix.delta_scan => \A r \in table \ tree : r \in later
    BY <1>2
<1> HIDE DEF tree, later
<1>6. {<<Place(r, tree), r>> : r \in tree} = {<<r[1], r>> : r \in tree}
    BY <1>4
<1>7. later \subseteq table
    BY DEF later
<1>8. CASE ix.delta_scan
    <2>1. Served(ix) = {<<r[1], r>> : r \in tree} \cup {<<r[1], r>> : r \in later}
        BY <1>3, <1>6, <1>8
    <2>2. table = tree \cup later
        BY <1>2, <1>5, <1>7, <1>8
    <2> QED
        BY <2>1, <2>2
<1>9. CASE ~ix.delta_scan
    <2>1. Served(ix) = {<<r[1], r>> : r \in tree}
        BY <1>3, <1>6, <1>9
    <2> QED
        BY <1>2, <1>9, <2>1
<1> QED
    BY <1>8, <1>9

(* So its answer is right.                                                 *)
LEMMA AnsweredKeeps ==
    ASSUME IInv, Rebound(indexes'), UNCHANGED <<table, txn>>,
           NEW i \in DOMAIN indexes, last' = Answered(indexes'[i], i)
    PROVE  last' \in Answer /\ AnswersFromOwnTree' /\ AnswersFromSnapshot'
<1> DEFINE ix     == indexes'[i]
           served == Served(ix)
<1>0. TypeOK
    BY DEF IInv
<1>1. /\ ix \in Index /\ Kin(indexes[i], ix) /\ Identified(ix)
      /\ i \in DOMAIN indexes' /\ i \in Nat
    BY <1>0, IndexFacts DEF Rebound
<1>2. CASE last' = Silent
    BY <1>2, SilentKeeps
<1>3. CASE last' # Silent
    <2>1. /\ ix.handle # NoTree
          /\ ix.delta_scan => Cardinality(ix.handle.rows) = ix.n_build
          /\ last' = [op |-> "index", by |-> i, rows |-> served]
        BY <1>3 DEF Answered
    <2>2. ix.handle \in Tree
        BY <1>1, <2>1 DEF Index
    <2>3. served \subseteq Nat \X Rows
        <3> DEFINE tree == ix.handle.rows
        <3>1. tree \in SUBSET Rows
            BY <2>2 DEF Tree
        <3>2. \A r \in tree : Place(r, tree) \in Nat
            <4>1. \A r \in tree : {s \in tree : s[1] < r[1]} \in SUBSET Rows
                BY <3>1
            <4> QED
                BY <4>1, RowFacts DEF Place
        <3>3. \A r \in table : r \in Rows /\ r[1] \in Nat
            BY <1>0, RowFacts DEF TypeOK
        <3>4. served \subseteq {<<Place(r, tree), r>> : r \in tree} \cup {<<r[1], r>> : r \in table}
            BY DEF Served
        <3> QED
            BY <3>1, <3>2, <3>3, <3>4
    <2>4. last'.op = "index" /\ last'.by = i /\ last'.rows = served
        BY <2>1
    <2>5. last' \in Answer
        BY <1>1, <2>1, <2>3 DEF Answer
    <2>6. AnswersFromOwnTree'
        BY <1>1, <2>1, <2>4 DEF AnswersFromOwnTree, Identified
    <2>7. \/ ix.handle # ix.built \/ ~Gapless(ix.built.rows)
          \/ ix.past \cap {"raced", "overtaken"} # {}
          \/ served = {<<r[1], r>> : r \in table}
        BY <1>1, <2>1, ServedIsTable
    <2> HIDE DEF served
    <2>8. AnswersFromSnapshot'
        BY <2>4, <2>7 DEF AnswersFromSnapshot
    <2> QED
        BY <2>5, <2>6, <2>8
<1> QED
    BY <1>2, <1>3

(* A query changes nothing but what is bound, attached and answered.       *)
LEMMA QueryKeeps ==
    ASSUME IInv, Query
    PROVE  IInv'
<1>0. TypeOK /\ ListInv
    BY DEF IInv
<1>1. UNCHANGED <<table, total, dead, builds, file, txn, build, fatal>>
    BY DEF Query, stores
<1>2. /\ Rebound(BindIndexes) /\ BindIndexes \in Seq(Index) /\ DOMAIN BindIndexes = DOMAIN indexes
      /\ Len(BindIndexes) = Len(indexes)
    BY <1>0, BindIndexesRebinds DEF Rebound
<1>3. ASSUME Rebound(indexes'), last' = Silent \/ \E i \in DOMAIN indexes : last' = Answered(indexes'[i], i)
      PROVE  IInv'
    <2>1. last' \in Answer /\ AnswersFromOwnTree' /\ AnswersFromSnapshot'
        BY <1>1, <1>3, SilentKeeps, AnsweredKeeps
    <2>2. /\ file' \in [Paths -> Tree \cup {NoTree}] /\ fatal' \in BOOLEAN
          /\ txn' \in [Txns -> Transaction] /\ build' = [t \in Txns |-> build'[t]]
          /\ \A t \in Txns : Aged(t) /\ (txn'[t].op = "CREATE" <=> build'[t] # NoBuild)
        BY <1>0, <1>1, SameAges DEF TypeOK
    <2> QED
        BY <1>1, <1>3, <2>1, <2>2, QuietKeeps
<1>4. CASE TryRewriteTopN
    <2>1. indexes' = BindIndexes
        BY <1>4 DEF TryRewriteTopN
    <2>2. last' = Silent \/ \E i \in DOMAIN indexes : last' = Answered(indexes'[i], i)
        BY <1>2, <1>4, <2>1 DEF TryRewriteTopN
    <2>3. Rebound(indexes')
        BY <1>2, <2>1 DEF Rebound
    <2> QED
        BY <1>3, <2>2, <2>3
<1>5. ASSUME NEW i \in DOMAIN indexes, SextantQuery(i) PROVE IInv'
    <2> DEFINE old == BindIndexes[i]
               ix  == AttachAndVerify(old)
    <2>1. indexes' = [BindIndexes EXCEPT ![i] = ix] /\ last' = Answered(ix, i)
        BY <1>5 DEF SextantQuery
    <2>2. old \in Index /\ Kin(indexes[i], old) /\ Known(old) /\ Identified(old) /\ old.bound
        BY <1>0, BindOne DEF BindIndexes
    <2> HIDE DEF old
    <2>3. ix \in Index /\ Kin(old, ix) /\ Identified(ix) /\ ix.bound
        BY <1>0, <2>2, AttachFacts
    <2> HIDE DEF ix
    <2>4. Kin(indexes[i], ix)
        BY <2>2, <2>3 DEF Kin
    <2>5. /\ indexes' \in Seq(Index) /\ Len(indexes') = Len(indexes) /\ DOMAIN indexes' = DOMAIN indexes
          /\ indexes'[i] = ix /\ \A j \in DOMAIN indexes \ {i} : indexes'[j] = BindIndexes[j]
        BY <1>2, <2>1, <2>3
    <2>6. Rebound(indexes')
        BY <1>2, <2>3, <2>4, <2>5 DEF Rebound
    <2> QED
        BY <1>3, <2>1, <2>5, <2>6
<1> QED
    BY <1>4, <1>5 DEF Query

-----------------------------------------------------------------------------
(* The invariant, and what follows from it.                                *)

(* Every step keeps it.                                                    *)
LEMMA Invariance == IInv /\ [Next]_vars => IInv'
<1> SUFFICES ASSUME IInv, [Next]_vars PROVE IInv'
    OBVIOUS
<1>1. CASE UNCHANGED vars
    <2>1. UNCHANGED <<table, total, dead, builds, file, indexes, txn, build, fatal, last>>
        BY <1>1 DEF vars, stores
    <2>2. TypeOK' /\ AnswersFromOwnTree' /\ AnswersFromSnapshot'
        BY <2>1 DEF IInv, TypeOK, AnswersFromOwnTree, AnswersFromSnapshot
    <2>3. ListInv' /\ BuildInv' /\ NumberInv' /\ RowInv' /\ InsertInv'
        BY <2>1 DEF IInv, ListInv, BuildInv, NumberInv, RowInv, InsertInv, Adopting, Numbered, Known
    <2>4. RacedInv' /\ CoverInv' /\ PlanInv'
        BY <2>1 DEF IInv, RacedInv, CoverInv, PlanInv, Excused, Covers, Unlisted, Streamed,
                    PlanCount, PendingChange
    <2> QED
        BY <2>2, <2>3, <2>4 DEF IInv
<1>2. CASE Next
    BY <1>2, BeginKeeps, WriteKeeps, CommitInsertKeeps, CommitVetoedKeeps, CommitDeleteKeeps,
       CommitUpdateKeeps, FinishKeeps, PlanScanKeeps, PushRowsKeeps, FinishBuildKeeps,
       AttachTreeKeeps, AddIndexKeeps, FailBuildKeeps, DropIndexKeeps, RestartKeeps, QueryKeeps
       DEF Next
<1> QED
    BY <1>1, <1>2

(* The invariant holds in every reachable state.                           *)
LEMMA Reachable == Spec => []IInv
BY InitHolds, Invariance, PTL DEF Spec

(* The types.                                                              *)
THEOREM TableTypeCorrect == Spec => []TypeOK
<1>1. IInv => TypeOK
    BY DEF IInv
<1> QED
    BY <1>1, Reachable, PTL

(* No index rots: unless a DELETE or UPDATE raced its build, the rows its  *)
(* build streamed are in the table as they were, and the table has others  *)
(* only under delta_scan or if an INSERT overtook the build.               *)
THEOREM NoIndexRots == Spec => []IndexesCoverTable
<1>1. IInv => IndexesCoverTable
    BY DEF IInv, CoverInv, Covers, IndexesCoverTable
<1> QED
    BY <1>1, Reachable, PTL

(* An index answers from the tree of its own build, whatever other indexes *)
(* did to the file at its path and across restarts, unless one wrote over  *)
(* it before it was attached or a replay had no blob.                      *)
THEOREM OwnTreeAnswers == Spec => []AnswersFromOwnTree
<1>1. IInv => AnswersFromOwnTree
    BY DEF IInv
<1> QED
    BY <1>1, Reachable, PTL

(* A transaction that wrote nothing and sees the table as it is gets the   *)
(* whole of it, each row by its row id, from every index on its own tree   *)
(* that has no gaps and was neither raced nor, without delta_scan,         *)
(* overtaken.                                                              *)
THEOREM SnapshotAnswers == Spec => []AnswersFromSnapshot
<1>1. IInv => AnswersFromSnapshot
    BY DEF IInv
<1> QED
    BY <1>1, Reachable, PTL

(* The fence is in time: an INSERT's commit fails only on an index created *)
(* after it was planned.                                                   *)
THEOREM FenceIsInTime == Spec => FenceSparesCommits
<1> DEFINE Spares ==
        \A t \in Txns : CommitVetoed(t) =>
            \E i \in DOMAIN indexes :
                ~indexes[i].delta_scan /\ indexes[i].built.uuid \notin txn[t].planned
<1>1. IInv => Spares
    BY DEF IInv, InsertInv, CommitVetoed, Appends
<1>2. IInv /\ [Next]_vars => [Spares]_vars
    BY <1>1
<1> QED
    BY <1>2, Reachable, PTL DEF FenceSparesCommits, Spec

(* SextantIndex::Delete is reached only through an index whose build was   *)
(* raced by a DELETE or UPDATE, or masked by an INSERT.                    *)
THEOREM DeleteUnlessRaced == Spec => DeleteOnlyIfRaced
<1> DEFINE Met(ix)     == ix.past \cap {"raced", "masked"} # {}
           OnlyIfRaced == fatal' => fatal \/ \E i \in DOMAIN indexes' : Met(indexes'[i])
<1>1. ASSUME IInv, NEW t \in Txns, NEW deleted, End(t, deleted),
             DOMAIN indexes' = 1 .. Len(indexes'), indexes' \in Seq(Index),
             deleted # {} => \A i \in DOMAIN indexes' : Met(indexes'[i])
      PROVE  OnlyIfRaced
    <2>1. fatal' => deleted # {} /\ indexes' # <<>>
        BY <1>1, EndFacts DEF IInv
    <2>2. indexes' # <<>> => 1 \in DOMAIN indexes'
        BY <1>1
    <2> QED
        BY <1>1, <2>1, <2>2
<1>2. ASSUME IInv, NEW t \in Txns, NEW deleted, End(t, deleted), Rebound(indexes'),
             deleted # {} => PendingChange \/ dead # {}
      PROVE  OnlyIfRaced
    <2>1. DOMAIN indexes' = 1 .. Len(indexes') /\ indexes' \in Seq(Index)
        BY <1>2 DEF Rebound
    <2>2. deleted # {} => \A i \in DOMAIN indexes' : Met(indexes'[i])
        BY <1>2 DEF IInv, RacedInv, Excused, Rebound, Kin
    <2> QED
        BY <1>1, <1>2, <2>1, <2>2
<1>3. ASSUME IInv, NEW t \in Txns, CommitDelete(t) PROVE OnlyIfRaced
    <2>1. PendingChange
        BY <1>3 DEF CommitDelete, PendingChange
    <2>2. Rebound(indexes')
        BY <1>3, SameRebinds DEF CommitDelete, IInv, Rebound
    <2> QED
        BY <1>2, <1>3, <2>1, <2>2 DEF CommitDelete
<1>4. ASSUME IInv, NEW t \in Txns,
             \/ CommitInsert(t) \/ CommitVetoed(t) \/ CommitUpdate(t) \/ Finish(t) \/ FailBuild(t)
      PROVE  OnlyIfRaced
    <2>1. End(t, dead) /\ (indexes' = BindIndexes \/ indexes' = indexes)
        BY <1>4 DEF CommitInsert, CommitVetoed, CommitUpdate, Finish, FailBuild
    <2>2. Rebound(indexes')
        BY <1>4, <2>1, SameRebinds, BindIndexesRebinds DEF IInv, Rebound
    <2> QED
        BY <1>2, <1>4, <2>1, <2>2
<1>5. ASSUME IInv, NEW t \in Txns, AddIndex(t) PROVE OnlyIfRaced
    <2> DEFINE new == PersistToDisk(build[t].index)
    <2>1. IInv'
        BY <1>5, AddIndexKeeps
    <2>2. DOMAIN indexes' = 1 .. Len(indexes') /\ indexes' \in Seq(Index)
        BY <2>1 DEF IInv, TypeOK
    <2>3. dead # {} => Met(new)
        <3>1. build[t] # NoBuild /\ build[t].index \in Index /\ Excused(build[t].index)
            BY <1>5, BuildFacts DEF AddIndex, IInv, NoBuild, RacedInv, Unlisted
        <3>2. new.past = build[t].index.past
            BY <3>1 DEF PersistToDisk, Index
        <3> QED
            BY <3>1, <3>2 DEF Excused
    <2>4. ASSUME dead # {}, NEW i \in DOMAIN indexes' PROVE Met(indexes'[i])
        <3>1. indexes \in Seq(Index) /\ \A j \in DOMAIN indexes : Met(indexes[j])
            BY <1>5, <2>4 DEF IInv, TypeOK, RacedInv, Excused
        <3> HIDE DEF new, Met
        <3>2. indexes' = Append(indexes, new)
            BY <1>5 DEF AddIndex, new
        <3> QED
            BY <2>3, <2>4, <3>1, <3>2
    <2>5. End(t, dead)
        BY <1>5 DEF AddIndex
    <2> QED
        BY <1>1, <1>5, <2>2, <2>4, <2>5
<1>6. ASSUME Next,
             ~ \E t \in Txns : \/ CommitDelete(t) \/ CommitInsert(t) \/ CommitVetoed(t)
                               \/ CommitUpdate(t) \/ Finish(t) \/ FailBuild(t) \/ AddIndex(t)
      PROVE  fatal' => fatal
    <2>1. ASSUME NEW t \in Txns, Begin(t) \/ PushRows(t) \/ FinishBuild(t) \/ AttachTree(t)
          PROVE  fatal' = fatal
        BY <2>1 DEF Begin, PushRows, FinishBuild, AttachTree
    <2>2. ASSUME NEW t \in Txns, NEW op \in Ops, NEW row \in Rows \cup {NoRow}, Write(t, op, row)
          PROVE  fatal' = fatal
        BY <2>2 DEF Write
    <2>3. ASSUME NEW t \in Txns, NEW path \in Paths, NEW delta_scan \in BOOLEAN,
                 PlanScan(t, path, delta_scan)
          PROVE  fatal' = fatal
        BY <2>3 DEF PlanScan
    <2>4. ASSUME NEW i \in DOMAIN indexes, DropIndex(i) PROVE fatal' = fatal
        BY <2>4 DEF DropIndex
    <2>5. (Query => fatal' = fatal) /\ (Restart => fatal' = FALSE)
        BY DEF Query, Restart
    <2> QED
        BY <1>6, <2>1, <2>2, <2>3, <2>4, <2>5 DEF Next
<1>7. IInv /\ [Next]_vars => [OnlyIfRaced]_vars
    BY <1>3, <1>4, <1>5, <1>6
<1> QED
    BY <1>7, Reachable, PTL DEF DeleteOnlyIfRaced, Spec
=============================================================================
