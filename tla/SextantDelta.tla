---------------------------- MODULE SextantDelta ----------------------------
(***************************************************************************)
(* Delta serving: a top-k query on an index WITH (delta_scan) takes the    *)
(* engine's rows, scans the rows past n_build by itself (MergeDeltaRows)   *)
(* and merges the two, while other connections append and commit.  A       *)
(* statement has one query, or several (sextant_query_batch) whose answers *)
(* SextantBatch packs and hands out.  They are for one vector, so a row's  *)
(* vector is its exact distance.  Predicates are in SextantPredicates.     *)
(*                                                                         *)
(* External: GetTotalRows counts every row of the table, deleted ones and  *)
(* ones still being committed included.  Fetch hands over the rows the     *)
(* transaction sees, one after the other, and leaves the rest of its chunk *)
(* as it was.  The engine returns rows of the tree, best first, by their   *)
(* position in the build's stream.                                         *)
(***************************************************************************)
EXTENDS SextantBatch, FiniteSets, SequencesExt

CONSTANTS Distances,  \* exact distances, below Far
          Far,        \* std::numeric_limits<float>::max()
          Null,       \* a row whose vector is NULL
          Deleted,    \* a row deleted before the build
          Ks,         \* the LIMITs of queries
          Early,      \* bound: rows before the build
          Late        \* bound: rows appended after it

ASSUME DeltaAssumption ==
    /\ Distances \subseteq Nat /\ Far \in Nat /\ \A d \in Distances : d < Far
    /\ Null \notin Nat /\ Deleted \notin Nat
    /\ Ks \subseteq 1 .. MaxAnswers
    /\ Early \in Nat /\ Late \in Nat

VARIABLES rows,       \* the table by row id (row id i is position i + 1)
          committed,  \* how many of them are committed
          built,      \* CREATE INDEX is done
          delta_scan, \* its option
          tree,       \* the vectors of the tree by engine row id
          at,         \* where the reader's query is
          snap,       \* rows committed when its transaction began
          k,          \* its LIMIT
          found,      \* the engine's row ids, best first
          total,      \* GetTotalRows when the merge began
          start,      \* first row id of the next batch
          cand,       \* delta candidates, <<distance, row id>>
          answer      \* what it returns, <<distance, row id, source>>

table  == <<rows, committed, built, delta_scan, tree>>
query  == <<k, found, total, start, cand, answer>>
reader == <<at, snap, query, batch>>
vars   == <<table, reader>>

Cells   == Distances \cup {Null}
NBuild  == Len(tree)
RowIds  == 0 .. Early + Late - 1
MaxRows == Early + Late

TypeOK ==
    /\ rows \in BoundedSeq(Cells \cup {Deleted}, MaxRows)
    /\ committed \in 0 .. Len(rows)
    /\ built \in BOOLEAN /\ delta_scan \in BOOLEAN
    /\ tree \in BoundedSeq(Distances, Early)
    /\ at \in {"idle", "ready", "searched", "scan", "done", "packed"}
    /\ snap \in 0 .. committed
    /\ k \in Ks
    /\ found \in BoundedSeq(RowIds, Len(tree))
    /\ total \in 0 .. Len(rows)
    /\ start \in 0 .. MaxRows + BatchSize
    /\ cand \subseteq (Distances \X RowIds)
    /\ \A c \in cand : NBuild <= c[2] /\ c[2] < total
    /\ answer \subseteq ((Distances \cup {Far}) \X RowIds \X {"tree", "delta"})
    /\ Cardinality(answer) <= k
    /\ BatchTypeOK

Init ==
    /\ rows \in BoundedSeq(Cells \cup {Deleted}, Early)
    /\ committed = Len(rows)
    /\ built = FALSE /\ delta_scan = FALSE
    /\ tree = <<>>
    /\ at = "idle" /\ snap = 0 /\ k \in Ks
    /\ found = <<>> /\ total = 0 /\ start = 0 /\ cand = {} /\ answer = {}
    /\ BatchInit

-----------------------------------------------------------------------------
(* CREATE INDEX: the scan streams the vectors that are not NULL, in row    *)
(* order; their count becomes n_build.  What is at position i is the       *)
(* Place(i, kept)-th of those kept.                                        *)
Place(i, kept) == Cardinality({j \in kept : j <= i})

HasVector(row) == row \in Distances

Build ==
    LET streamed == {i \in DOMAIN rows : HasVector(rows[i])} IN
    /\ ~built
    /\ built' = TRUE
    /\ delta_scan' \in BOOLEAN
    /\ tree' \in {t \in [1 .. Cardinality(streamed) -> Distances] :
                    \A i \in streamed : t[Place(i, streamed)] = rows[i]}
    /\ UNCHANGED <<rows, committed, reader>>

(* INSERT, fenced unless the index serves deltas: the row enters the table *)
(* while its transaction commits, and is visible once that is done.        *)
AppendRow(row) ==
    /\ built /\ delta_scan
    /\ Len(rows) < MaxRows
    /\ rows' = Append(rows, row)
    /\ UNCHANGED <<committed, built, delta_scan, tree, reader>>

Commit ==
    /\ committed < Len(rows)
    /\ committed' = Len(rows)
    /\ UNCHANGED <<rows, built, delta_scan, tree, reader>>

-----------------------------------------------------------------------------
(* The reader's transaction, of one statement or of several.               *)
Begin ==
    /\ at = "idle" /\ built
    /\ at' = "ready"
    /\ snap' = committed
    /\ \E n \in 1 .. MaxQueries : NewBatch(n)
    /\ UNCHANGED <<table, query>>

(* sextant_search: approximate, so any k rows of the tree.  A batch has    *)
(* one k.  (It searches for all its queries first; the tree stays as it    *)
(* is, so they may as well be searched one by one.)                        *)
EngineOrder(i, j) == tree[i + 1] < tree[j + 1] \/ (tree[i + 1] = tree[j + 1] /\ i < j)

Search ==
    /\ at = "ready"
    /\ k' \in IF n_per_query = <<>> THEN Ks ELSE {k}
    /\ found' \in {ids \in [1 .. (IF k' < NBuild THEN k' ELSE NBuild) -> 0 .. NBuild - 1] :
                     \A i, j \in DOMAIN ids : i < j => EngineOrder(ids[i], ids[j])}
    /\ at' = "searched"
    /\ UNCHANGED <<table, snap, total, start, cand, answer, batch>>

Tagged(id) == <<tree[id + 1], id, "tree">>

(* Without delta_scan, or with nothing past n_build, the engine's rows and *)
(* distances are the answer.                                               *)
ServeTreeOnly ==
    /\ at = "searched"
    /\ ~delta_scan \/ Len(rows) <= NBuild
    /\ answer' = {Tagged(id) : id \in Range(found)}
    /\ at' = "done"
    /\ UNCHANGED <<table, snap, k, found, total, start, cand, batch>>

(* With rows past n_build the merge reads the window's end, outside the    *)
(* snapshot.  (The code also leaves here if a predicate's column has       *)
(* vanished; a query of this module has no predicate.)                     *)
BeginMergeLate ==
    /\ at = "searched"
    /\ delta_scan
    /\ Len(rows) > NBuild
    /\ total' = Len(rows)
    /\ start' = NBuild + 1
    /\ at' = "scan"
    /\ UNCHANGED <<table, snap, k, found, cand, answer, batch>>

BeginMerge ==
    /\ at = "searched"
    /\ delta_scan
    /\ Len(rows) > NBuild
    /\ total' = Len(rows)
    /\ start' = NBuild
    /\ at' = "scan"
    /\ UNCHANGED <<table, snap, k, found, cand, answer, batch>>

-----------------------------------------------------------------------------
(* DataTable::Fetch: the rows of ids the transaction sees, then leftovers. *)
Visible(id) == id < snap /\ rows[id + 1] # Deleted

Seen(ids) == {i \in DOMAIN ids : Visible(ids[i])}

Fetched(ids) ==
    {chunk \in [DOMAIN ids -> Cells] :
        \A i \in Seen(ids) : chunk[Place(i, Seen(ids))] = rows[ids[i] + 1]}

(* One batch of the window: every row with a vector is a candidate, under  *)
(* the row id of its place in the batch.                                   *)
BatchEndUnclipped == start + BatchSize
BatchEnd == IF start + BatchSize < total THEN start + BatchSize ELSE total

FetchBatchByRows ==
    /\ at = "scan"
    /\ start < total
    /\ LET ids == [i \in 1 .. BatchEnd - start |-> start + i - 1] IN
       \E chunk \in Fetched(ids) :
         /\ cand' = cand \cup {<<chunk[i], start + i - 1>> :
                                 i \in {j \in DOMAIN chunk : chunk[j] # Null}}
         /\ start' = start + Cardinality(Seen(ids))
    /\ UNCHANGED <<table, at, snap, k, found, total, answer, batch>>

FetchBatch ==
    /\ at = "scan"
    /\ start < total
    /\ \E chunk \in Fetched([i \in 1 .. BatchEnd - start |-> start + i - 1]) :
         cand' = cand \cup {<<chunk[i], start + i - 1>> :
                              i \in {j \in DOMAIN chunk : chunk[j] # Null}}
    /\ start' = start + BatchSize
    /\ UNCHANGED <<table, at, snap, k, found, total, answer, batch>>

(* The best n by distance, then row id.                                    *)
Before(a, b) ==
    \/ a[1] < b[1]
    \/ a[1] = b[1] /\ a[2] < b[2]
    \/ a[1] = b[1] /\ a[2] = b[2] /\ Len(a) = 3 /\ a[3] = "tree" /\ b[3] = "delta"
BestUncut(n, S) == S
Best(n, S) == {m \in S : Cardinality({o \in S : Before(o, m)}) < n}

(* The engine's distances are not comparable with exact ones, so they are  *)
(* recomputed from the table; then the two lists are merged.               *)
Rescored ==
    {[i \in DOMAIN found |-> IF chunk[i] = Null THEN Far ELSE chunk[i]] : chunk \in Fetched(found)}

Merge ==
    /\ at = "scan"
    /\ start >= total
    /\ \E dists \in Rescored :
         answer' = Best(k, {<<dists[i], found[i], "tree">> : i \in DOMAIN found}
                             \cup {<<c[1], c[2], "delta">> : c \in Best(k, cand)})
    /\ at' = "done"
    /\ UNCHANGED <<table, snap, k, found, total, start, cand, batch>>

(* The answer is packed; the next query of the batch follows, or the       *)
(* results are handed out.                                                 *)
PackAnswer ==
    /\ at = "done"
    /\ Pack(Cardinality(answer))
    /\ at' = IF Len(n_per_query) + 1 < n_queries THEN "ready" ELSE "packed"
    /\ found' = <<>> /\ total' = 0 /\ start' = 0 /\ cand' = {} /\ answer' = {}
    /\ UNCHANGED <<table, snap, k>>

HandOut ==
    /\ at = "packed"
    /\ Emit
    /\ UNCHANGED <<table, at, snap, query>>

(* The statement ends; its transaction goes on, or ends with it.           *)
Finish ==
    /\ at = "packed" /\ HandedOut
    /\ \/ at' = "ready" /\ UNCHANGED snap /\ \E n \in 1 .. MaxQueries : NewBatch(n)
       \/ at' = "idle" /\ snap' = 0 /\ NewBatch(1)
    /\ UNCHANGED <<table, query>>

Next ==
    \/ Build \/ (\E row \in Cells : AppendRow(row)) \/ Commit
    \/ Begin \/ Search \/ ServeTreeOnly \/ BeginMerge \/ FetchBatch \/ Merge
    \/ PackAnswer \/ HandOut \/ Finish

Spec == Init /\ [][Next]_vars

-----------------------------------------------------------------------------
(* No row was deleted before the build, or had no vector before one that   *)
(* had one.                                                                *)
Gapless == (\A i \in DOMAIN tree : rows[i] = tree[i]) /\ ~Contains(rows, Deleted)

DeltaRows == {<<rows[id + 1], id>> : id \in {i \in NBuild .. snap - 1 : HasVector(rows[i + 1])}}
TreeRows  == {<<tree[id + 1], id>> : id \in Range(found)}
Pairs     == {<<a[1], a[2]>> : a \in answer}

(* Appended rows are merged exactly: if the build left no gaps in the row  *)
(* ids and no append is in flight or newer than the transaction, the       *)
(* answer is the k best of the engine's rows and of all appended rows the  *)
(* transaction sees -- whatever the batches, the NULL vectors among the    *)
(* appended rows and the rows the engine found.                            *)
MergedExactly ==
    at = "done" /\ Gapless /\ total <= snap /\ Len(rows) = snap =>
        Pairs = Best(k, TreeRows \cup DeltaRows)

(* Answers reach the output as SextantBatch has it: one per query and at   *)
(* most k long, all packed before the first row comes out, all out before  *)
(* the next statement -- which makes what is proved of it true here.       *)
ImplementsBatch == BatchSpec

(* A bound on the steps a statement has left.                              *)
RowsLeft    == IF start < total THEN total - start ELSE 0
QuerySteps  == MaxRows + MaxAnswers + 4
QueriesLeft == n_queries - Len(n_per_query)
StepsLeft ==
    Len(row_ids) - offset +
   (CASE at = "ready"    -> QueriesLeft * QuerySteps
      [] at = "searched" -> QueriesLeft * QuerySteps - 1
      [] at = "scan"     -> (QueriesLeft - 1) * QuerySteps + MaxAnswers + 2 + RowsLeft
      [] at = "done"     -> (QueriesLeft - 1) * QuerySteps + MaxAnswers + 1
      [] OTHER           -> 0)

(* A statement ends, whatever is appended meanwhile: each step of it       *)
(* brings the end nearer, also a batch of rows none of which the           *)
(* transaction sees, and nothing that others do puts it off.               *)
StatementAdvances ==
    [][at # "idle" /\ ~Finish =>
          \/ table' = table /\ StepsLeft' < StepsLeft
          \/ table' # table /\ StepsLeft' = StepsLeft]_vars

(* sextant_concurrency.test: answers under concurrent inserts hold no      *)
(* wrong row -- none that is newer than their transaction.  The code does  *)
(* not keep it: the window ends at the table's total, not where the        *)
(* transaction's ends, so a row appended since becomes a candidate.        *)
AnswersInSnapshot == at = "done" => \A a \in answer : a[2] < snap

(* The comment on SextantIndexScanFunction: engine row ids are DuckDB row  *)
(* ids.  The code does not keep it when rows without a vector, or deleted  *)
(* ones, came before others in the build.                                  *)
EngineRowIdsAreRowIds ==
    at = "done" => \A id \in Range(found) : rows[id + 1] = tree[id + 1]
=============================================================================
