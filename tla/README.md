# Verification of the sextant DuckDB extension

The extension adds an index type to DuckDB whose data is a *tree* in a sidecar
file, written and searched by an engine behind a C interface. DuckDB's own
storage holds only a small metadata blob. What can go wrong lies between three
parties that do not share a transaction: DuckDB, the file system, and the
engine's handle, used by many threads. This directory models that part in
TLA+, checks it with TLC on small instances, and proves with TLAPS, for instances of any size, the safety properties
and refinements that the runs check.

## The system

| Component | Source (under `src/`) | State | Operations |
|---|---|---|---|
| Engine handle of an index | `src/sextant_index.cpp` 168-247, `sextant_index.hpp` | `engine_handle` (atomic), `attach_mutex`, `tree_uuid` | `AttachAndVerify`, `CloseHandle`, destructor; unlocked reads by the scans |
| Lifecycle and persistence | `src/sextant_index.cpp` 128-166, 905-1023, 1060-1087 | blob, `serialized_this_generation`, `sidecar_unusable`, `sidecar_error`, `n_build`, `delta_scan` | construct, `create_instance`, `SerializeToDisk`, `SerializeToWAL`, `LoadFromStorage`, `ResetStorage` |
| Build | `src/sextant_index.cpp` 117-120, 294-867 | `g_memory_limit_restore`, DuckDB's `memory_limit`, builder, row counts | `BuildBind`, `BuildGlobalInit`, `BuildSink`, `BuildCombine`, `BuildFinalize` |
| Delta serving | `src/sextant_index_scan.cpp` 172-390 | none of its own; reads table and index | `MergeDeltaRows` |
| Filter translation | `src/sextant_optimize_topk.cpp` 100-567, `sextant_index_scan.cpp` 27-99 | the plan | `TryTranslate...`, `EvalDeltaPredicate` |
| Top-k rewrite | `src/sextant_optimize_topk.cpp` 41-98, 569-725 | the plan | `TryRewriteTopN` |
| Table functions | `src/sextant_scan.cpp` | the results of one statement, packed, and how far they are handed out | `sextant_query`, `sextant_query_batch` |
| Immutability fence | `src/sextant_optimizer.cpp` | none | `EnforceImmutable`, `BindIndexesBeforeDropIndex` |
| Settings, registration | `src/sextant_extension.cpp` | session settings | read at attach and at search |

Interactions. The optimizer reads the handle without a lock and, if it takes
the query over, leaves a scan whose `InitGlobal` reads the handle again,
attaches if it is null, searches, and merges appended rows. `sextant_query`
does the same without the optimizer. The first statement that binds a table's
indexes constructs the entry (`create_instance`) and attaches it. CREATE INDEX
runs two scans of the table, one by DuckDB's index plan (which only counts) and
one on a connection of its own (which feeds the engine), and attaches at the end.
Checkpoints and commits serialize the blob; `ResetStorage` is called both by a
checkpoint that rebuilds the indexes and by a committed DROP.

What is hard here: the race of lazy attaches; teardown beside searches; files
swapped under an index that lives across crashes and restarts; a flag that
decides between "keep" and "delete" from what happened earlier; a process-wide
string shared by all builds without a lock; two scans that must agree; a
delta window computed outside the snapshot; two evaluations of the same
predicate (engine and extension) beside SQL's own; and a fence that looks when
a write is planned, while indexes come and go until it commits. `PROJECT.json` lists each
hazard at its line with the property that would catch it.

## The modules

| Module | What it is | MC module, configs |
|---|---|---|
| `AttachOnce` | abstract: what an entry promises about the tree it serves | checked as a property of `SextantAttach` |
| `SextantAttach` | one entry, its handle and mutex, query threads, DROP and close | `MCSextantAttach`: `Attach`, `AttachDrop` |
| `SextantAttachProofs` | theorems about `SextantAttach` | TLAPS |
| `SextantLemmas` | theorems about library operators, finite orders and ranks that several proofs use | TLAPS |
| `DurableIdentity` | abstract: what an index promises about its tree's identity from CREATE to DROP | checked as a property of `SextantLifecycle` |
| `SextantLifecycle` | blob, sidecar and instance across statements, checkpoints, crashes, restarts | `MCSextantLifecycle`: `Lifecycle`, `LifecycleDrop`, `LifecycleReverify` |
| `SextantLifecycleProofs` | theorems about `SextantLifecycle` | TLAPS |
| `SextantBuild` | concurrent CREATE INDEX statements and the memory clamp | `MCSextantBuild`: `Build` |
| `SextantBuildProofs` | theorems about `SextantBuild` | TLAPS |
| `SextantTable` | several indexes, transactions, the fence and the rewrite's choice | `MCSextantTable`: `Table` |
| `SextantTableProofs` | theorems about `SextantTable` | TLAPS |
| `SextantBatch` | packing and numbering of the answers of a batch | checked as part of `SextantDelta` |
| `SextantBatchProofs` | theorems about `SextantBatch` | TLAPS |
| `SextantDelta` | `MergeDeltaRows` beside appending transactions; extends `SextantBatch` | `MCSextantDelta`: `Delta`, `DeltaSnapshot`, `DeltaRowIds` |
| `SextantDeltaProofs` | theorems about `SextantDelta`, on top of those about `SextantBatch` | TLAPS |
| `SextantPredicates` | operators: translation and evaluation of WHERE clauses | used by `SextantTopN` |
| `SextantTopN` | one filtered ORDER BY ... LIMIT query, rewritten or not | `MCSextantTopN`: `Predicates`, `PredicatesDelta` |
| `SextantTopNProofs` | theorems about `SextantTopN` | TLAPS |

Each module has at most one type invariant. Definitions named like another one with
a suffix (`LockWithoutWaiting`, `CountsIgnored`, ...) are deliberately wrong
variants that stand before the right one. They are used by no specification;
`PROJECT.json` ("mutants") names for every property of a passing run the
variant that breaks it.

### SextantAttach

`AttachAndVerify` is cut where other threads can see it: taking the lock
(`Lock`), the early return (`AlreadyAttached`), opening (`OpenSidecar`,
`OpenFails`), and the identity check that publishes or closes (`Publish`,
`Reject`). `InitGlobal` of all three scan functions is `ReadHandle`, the attach, `RereadHandle`,
`Search`. A statement arrives through the optimizer (`TryRewriteTopN`) or
`sextant_query`/`_batch` (`QueryBind`). `CreateInstance` and `BuildFinalize` attach while nobody
else has the entry and are one step each. A committed DROP is
`CommitDrop` then `RemoveSidecar`, or `CommitDropSerialized` if the flag was
set. `Destroy` is the destructor. A handle is a number, the tree it was opened on and
its cache budget. `ReplaceSidecar` changes the file at any moment.

### SextantLifecycle

Statements run one at a time, because their interleavings are elsewhere, with one exception: a checkpoint serializes
(`Checkpoint`) and rebuilds the indexes (`RebuildIndexes`) in two steps, and queries, writes, swapped files and crashes come in
between, where the flag could be wrong. CREATE and DROP are two steps each, so
that a crash falls between them. (That the table changes between the two of a CREATE is `SextantTable`'s.) `stored` is the durable entry, in the WAL or in blocks. `Restart` brings
the entry back unbound, from its blob or, when replayed from the WAL without
valid storage, from its options alone (`FromOptions`); the history variable
`forgotten` records the latter. `BoundIndex` is what `BindIndexes` makes of
it: `CreateInstance` attaches and, if the attach throws (`AttachThrows`), catches and marks the sidecar unusable. What the constructor
itself throws (no path, a blob without its magic) is left out: no entry this code has written causes it. `ResetStorage` is the code's
branch on the flag. `TouchFile` deletes the file or replaces it by a
foreign tree or an older copy.

`AnswersCoverTable` compares the rows of the tree in service and the delta window with the rows of the table. Under `delta_scan` it holds of
every answer, whichever tree it came from, since the code compares the counts. Without it nothing does when a query runs, and the property
needs the tree to be the index's own: a tree from before UUIDs, or a replay from the options, is excepted there.
`RightFileIsServed` is what a failed load leaves behind: `sextant_query` answers again once the right file is back.

The module implements `DurableIdentity`, which knows no files, handles, statements or log, only what the catalog records, whether a
checkpoint put it there, what the running entry goes by, and what is in service. A CREATE is its `Create`; a query, write
or binding its `Serve` or nothing; a checkpoint its `Record`, which may attach first; a crash or restart its `Lose`; the commit of a DROP its `Drop`.
While the process is down the entry goes by what is stored (`EntryIdentity`).

### SextantBuild

A program counter per connection follows `BuildBind` and `BuildFinalize`. Every access to `g_memory_limit_restore` and every SQL statement
issued (run the pending restore, clear it, read, clamp, save, undo, clear) is a step, since no lock makes any two of them one. A restore
is the limit it sets, or `Unset` for `RESET`. `RoundUp` is the conversion to MiB. Any error exit is `Fail`, which undoes nothing, as in the code.

### SextantTable

A table's rows have an id and a version (an update in place keeps the id). A transaction has a snapshot and at most one
write, which passes the fence when it is planned (`Write`) and reaches the indexes when it commits (`CommitInsert`,
`CommitVetoed`, `CommitDelete`, `CommitUpdate`) or, for deleted rows, when the last transaction that sees them ends
(`End`, where `Delete` of the index throws).

A CREATE INDEX is a transaction whose steps others come between: the plan's scan (`PlanScan`), the finalize scan with the comparison of the
two (`PushRows`), the file (`FinishBuild`), the attach with its row count (`AttachTree`), and the entry in the list (`AddIndex`); it may fail at
each (`FailBuild`). Two may overlap, also on one path. Writes that commit before `AddIndex` meet neither the fence nor
`Append` of the new index. Trees are numbered by the builds. An index attaches to the file at its path if it is the tree it recorded, or adopts
what is there if it recorded none (`AttachAndVerify`): a build does, and so does an index replayed from its options alone. `Restart` brings
each index back from its blob or from its options. All trees here are built by the table's own CREATE INDEX and the blobs are those of its commit: prebuilt trees, trees without
a UUID and checkpoints are `SextantLifecycle`'s. `DropIndex` deletes the file or not, since the flag that decides is `SextantLifecycle`'s.

`Served` is what an answer may hold: the engine numbers the rows it was streamed, and its numbers are taken for row ids (`Place`), which they are only if the
stream had no gaps (`Gapless`). `TryRewriteTopN` is the loop over the list: which indexes have another metric or column, and whether the filter translates
for one, is left open, so that the first to fit is any index with none unusable before it, or none.
`SextantQuery` names its index and attaches again.

The history of an index (`past`) says what its properties except: a DELETE or UPDATE was pending at or after its finalize scan (`raced`), an INSERT committed
between its two scans (`masked`, if deleted rows still awaited their cleanup then) or after the second and before its entry (`overtaken`, if it has no `delta_scan`), another build wrote its file
before it was attached (`overwritten`), or it was replayed from its options (`forgotten`). Each of them is reached in the run, and each names a hazard the code has
(see [Disagreements](#disagreements-without-a-run)).

### SextantBatch

The state of `sextant_query_batch` after its searches: packed results, their counts per query (kept as running totals), the
offset, and what has been put out. `Pack` is one round of the compaction loop, `Emit` one call of the table function, and `QueryAt` the
query the code's walk over the counts arrives at. `SextantDelta` runs it with real answers and implements the module's own `BatchSpec`.

### SextantDelta

Vectors are exact distances to the one query vector. `Build` streams the rows that have one. A query is
`Search` (any k rows of the tree: the engine is approximate), then either `ServeTreeOnly`, or `BeginMerge`, one
`FetchBatch` per batch, and `Merge`. What the build streams and what `Fetch` hands over are given by places: the element at position i
goes to `Place(i, kept)`, the number of those kept up to it. `Fetched` says what a chunk holds when some of the
requested rows are not visible. The check that the tree's count equals `n_build` is in
`SextantLifecycle` (`Answers`); here the two are equal by `Build`. The queries have no predicates, so the exit for a predicate whose column has
vanished (213-214) cannot be taken; predicates on appended rows are `SextantPredicates`'.

A statement has one query (`sextant_query`, the rewritten scan) or
several (`sextant_query_batch`): `PackAnswer` and `HandOut` are the steps of `SextantBatch` in it. They read from one transaction,
which may run several statements.

### SextantPredicates and SextantTopN

`Translatable`, `Translation` and `PredsExact` are the optimizer; `EvalTreePredicate` is the engine on what the tree stores;
`EvalDeltaPredicate` is the extension on appended rows; `SqlHolds` is the
reference. Strings are sequences of bytes, ordered bytewise (`Less`); lists are sets of strings. Numbers, strings, and
what binary32 (`AsFloat`, for DOUBLE), double (`AsDouble`, for BIGINT) and `strtod` (`StrToD`) make of them are constants, about which nothing
is assumed but their types and that no byte is 255 (VARCHAR is UTF-8). `MCSextantTopN` gives three numbers, of which both roundings confuse two, and five
strings: the empty one, a prefix pair, one past it, and one that parses as a number.

`SextantTopN` takes one query through `TryRewriteTopN` (`LeavePlan`, `RewriteTopN`), the scan, and what stays above it (`AnswerQuery`:
the filter, if it was put back, and the TopN). `PlanFits`, `MetricFits` and `MatchesDistance` are its checks; `SqlAnswer` is what
the untouched plan returns. `Score` says what each expression makes of a row, no two rows the same; in the runs rows are numbered by distance, and inner products are such that the metrics disagree everywhere.
The overfetch 4 k + 64 is k * `OverfetchFactor` + `OverfetchExtra`, scaled down to 1 and 1.
`TopN` gives every row its place, the number of rows that come before it. `Init` allows any table, filter and query; the runs start from the
two families of `MCInit` (see below).

## What the runs check

| Run | Result | Instance | What it shows |
|---|---|---|---|
| `attach` | holds | 2 threads, 2 statements each, 2 trees, budgets {7} | `AttachExactlyOnce`, `SearchUntilDrop`, `ReleasedAtTeardown`, `EveryStatementEnds`, `ImplementsAttachOnce` |
| `attach_drop` | violated | same | `SearchOnLiveHandle`: a DROP closes the handle under a search |
| `lifecycle` | holds | 2 builds, a foreign tree, a pre-UUID tree, 2 rows | `ServedTreeIsCreatedTree`, `AnswersCoverTable`, `CheckpointKeepsIdentity`, `RecordedIdentityIsFinal`, `RightFileIsServed`, `OnlyDropDeletes`, `ImplementsDurableIdentity` |
| `lifecycle_drop` | violated | same | `DropDeletesSidecar`: the flag of the CREATE's own serialization keeps the file |
| `lifecycle_reverify` | violated | same | `TopKReverifies`: the error cached at load outlives its cause |
| `build` | holds | 2 connections, 2 statements each, cap 4, unit 2, limits {3, 5}, 1 row | `IndexCoversPlan`, `AloneRestores`, `ClampNotForgotten` |
| `table` | holds | 2 transactions, 2 paths, 2 rows, 2 builds, at most 2 overlapping | `IndexesCoverTable`, `AnswersFromOwnTree`, `AnswersFromSnapshot`, `FenceSparesCommits`, `DeleteOnlyIfRaced` |
| `delta` | holds | 2 early and 2 late rows, 2 distances, k in {1, 2}, chunks of 2, 1 or 2 queries a statement | `MergedExactly`, `BatchNumbered`, `StatementAdvances`, `ImplementsBatch` |
| `delta_snapshot` | violated | same | `AnswersInSnapshot`: the window ends past the snapshot |
| `delta_rowids` | violated | same | `EngineRowIdsAreRowIds`: rows without vectors shift the ids |
| `predicates` | holds | all column types, one or two atoms on one row; all query shapes on up to 3 rows, limit 0 to 2, offset 0 or 1 | `NoWrongRow`, `NoRowLost`, `RewriteKeepsAnswer` |
| `predicates_delta` | violated | strings | `DeltaPredicatesExact`: string predicates on appended rows |

Every passing run also checks its module's `TypeOK`. The violated runs are
disagreements between the code and its own docs, comments or tests;
`PROJECT.json` quotes the line each one contradicts ("findings").

Why the bounds are enough:

- *attach*. Two threads are what a race on one lock needs; what a third would
  add is proved (below) for any number. Two statements let a thread meet the entry before and
  after the other's attach, failure, or the DROP. Two trees, the pre-UUID, the unreadable and the missing file are all the
  outcomes of the identity check.
- *lifecycle*. Two own trees (the index's and an earlier one's), one foreign
  and one pre-UUID are all the identity check can tell apart. Two rows let the counts of tree, entry and table differ
  pairwise, also within a checkpoint. Statements, restarts and file changes are not bounded.
- *build*. 3 is below the cap and 5 above it and not a whole unit, so all branches of the clamp and its rounding occur. Two statements per
  connection let one fail with its restore pending and another find it. One insert is enough to make the two scans disagree.
- *table*. Two transactions are one that has planned, or still sees, something and one that changes it; one of them, or both, may be a
  CREATE INDEX. Two builds give two indexes on one path or on two, one after the other or overlapping, with equal or different options; and an index built
  again after a DROP. Two rows are one of the build and one appended, deleted or updated, and a stream with a gap is one without the first. Restarts, drops and queries are not bounded.
- *delta*. Windows of one row and of a full batch, clipped and unclipped ends, full and partly visible chunks, NULLs on
  either side of the boundary and ties all occur within four rows; k is below, at and above the number of candidates. Two queries of up to two results fill, split and underfill chunks of two, with either answer empty.
- *predicates*. Exhaustive over the values given; the strings make every comparison come out both ways, equal, and by prefix; two atoms are what prefix ranges and BETWEEN push down. Query shapes are crossed with tables of up to three rows of the tree, with and without vectors, and a filter that binary32 gets wrong: the limit cuts, the offset skips, and the overfetch is used up or not.

Symmetry is used in `build` (connections) and `table` (transactions, paths), where no liveness is checked.
Deadlock is checked except in the two `predicates` runs, which end when the row
is decided. In the other runs the environment can always move.

### Fairness

`EveryStatementEnds` assumes weak fairness of each thread's own next step
(`WF_vars(Step(t))`): a running thread is scheduled, `sextant_open_index` and `sextant_search` return. Nobody is
assumed to start a statement, drop the index or touch the file. Weak fairness of
`Lock` suffices although a mutex need not be fair: each statement holds the mutex at most once, and statements are
bounded, so a waiting thread is not overtaken for ever. For unbounded streams of statements the lock is taken only
while the entry is unattached; with a sidecar that never opens a starving mutex could delay a thread, which the model does not claim to exclude.

That a statement of `SextantDelta` ends is stated without fairness: `StatementAdvances` says that each of its own
steps decreases a bound on the steps left, which no step of others increases. A scheduler that lets it run therefore lets it end. (The temporal formula itself takes TLC about
five minutes on this instance; this one costs next to nothing.)

### External assumptions

DuckDB and the engine are not in the repository. The models assume:

- The destructor of an entry runs only when no statement can reach it. A
  committed DROP runs `ResetStorage` without waiting for running searches (the extension itself does nothing to wait).
- CREATE INDEX calls `SerializeToWAL` at commit. A checkpoint serializes an index
  before it may rebuild it (`ResetStorage`), and lets no CREATE, DROP or other checkpoint in between. A replay finds the blob of the WAL or, failing that, the entry's options.
- `GetTotalRows` counts deleted rows and rows still being committed. `Fetch` returns the rows the transaction
  sees, compacted, and leaves the rest of the chunk as it was.
- Transactions see the rows committed when they began, and `GetTotalRows` leaves out rows that are local to a transaction.
  A row is written by one transaction at a time. Nothing keeps writers, or another CREATE INDEX, out while an index is built, and CREATE INDEX binds no
  other index. Its plan scan counts deleted rows that an open transaction still sees. Deleted rows are removed from
  the indexes when no open transaction sees them; an update in place removes nothing from them.
- The engine replaces the file at a path; a handle opened before keeps the tree it was opened on. A UUID names one tree (`UuidAssumption`).
- The engine numbers rows by their position in the build's stream, returns only rows of the tree, best
  first, and evaluates predicates with SQL's NULL semantics on nullable columns.
- DuckDB pushes down comparisons with constants, IN, NOT IN, IS [NOT] NULL, the list functions and the prefix range;
  what it pushes down partly it keeps above the scan as well.

## What is proved

Every invariant, action property and refinement of the passing runs is a theorem, for every value of the constants, but the one listed under
[Only model-checked](#only-model-checked). The runs show these properties on small instances and show that nothing in them is vacuous; the
proofs drop the bounds. Hypotheses are the assumptions named in the modules, which TLC evaluates: special values (`NoTree`, `Null`, `Unset`,
...) differ from the values they stand beside, a UUID names one tree, bounds, limits, distances and sizes are naturals, strings have no byte 255, and no two rows have the same score by an expression. `MaxRows` and the like are any naturals,
so they bound nothing but the state space of a run.

All proofs have one shape: an inductive invariant `IInv` (`DeltaInv` and `TopNInv` in the last two), one lemma per action or per conjunct that it is kept, and
theorems that follow from it. `SextantLemmas` holds what they share: least elements, removal from a sequence, bounded sequences, sizes of images,
and that the elements of a finite total order have the ranks from 0 on, that the first n are n, and that a part holding the first n of the whole ranks them alike.

### Attach (`SextantAttachProofs`)

For any set of threads, trees and budgets and any number of statements:

| Theorem | Statement |
|---|---|
| `TypeCorrect` | `Spec => []TypeOK` |
| `ExactlyOnce` | `Spec => []AttachExactlyOnce` |
| `SearchSafety` | `Spec => []SearchUntilDrop` |
| `TeardownReleases` | `Spec => []ReleasedAtTeardown` |
| `Refinement` | `Spec => ImplementsAttachOnce` |

None of the safety invariants is inductive. `AttachExactlyOnce` alone allows
a state in which two threads are inside the attach, or one verifies a handle
while another is published, and the next step would break it. The inductive
invariant says who may be where: only the holder of the mutex is inside (`MutexInv`);
while it verifies, nothing is published and its handle is the only one open
(`VerifyInv`); a published handle is the only one open, on a tree with an
identity (`PublishedInv`); otherwise nothing is open (`NoneOpenInv`); until a DROP a search
holds the published handle (`SearchInv`); before the entry exists and after it
is gone nobody runs (`QuietInv`). `InvNext` has one step per action. The types need `VerifyInv` too:
that the recorded identity is one follows only because what is being verified is a file that opened.
`Refinement` maps the published handle's tree to what is served and the teardown states to retired; every step serves, retires or stutters.

### Lifecycle (`SextantLifecycleProofs`)

For any trees, foreign files and number of rows, any number of statements, crashes and restarts:

| Theorem | Statement |
|---|---|
| `LifecycleTypeCorrect` | `Spec => []TypeOK` |
| `CreatedTreeIsServed` | `Spec => []ServedTreeIsCreatedTree` |
| `AnswersAreComplete` | `Spec => []AnswersCoverTable` |
| `IdentityIsDurable` | `Spec => []CheckpointKeepsIdentity` |
| `SidecarIsKept` | `Spec => OnlyDropDeletes` |
| `RightFileAnswers` | `Spec => RightFileIsServed` |
| `IdentityIsForLife` | `Spec => RecordedIdentityIsFinal` |
| `LifecycleRefinement` | `Spec => ImplementsDurableIdentity` |

The three invariants speak of the last outcome; why the next one is right lies in what is stored and attached. A handle is of a tree with the
instance's identity or of one that has none (`LinkedInv`); the identity in the blob is the created tree's, its
count is no more than the table's rows and the created tree's own unless forgotten, and without `delta_scan` the table has the rows of the CREATE (`StoredInv`); a running instance carries
that identity, count and options (`InstanceInv`); between the two steps of a CREATE it is attached to nothing (`CreatingInv`). What `BindIndexes`,
the constructor and a second attach make of an instance is one relation, `Keeps`, with a lemma each, so that a query, a checkpoint and a DROP that
bind first need it only once.

`AnswersAreComplete` goes from identities to rows: every tree that can be at the path was built here or is foreign, and among these a UUID names one (`KnownInv`,
`SameTree`), so that a tree with the created tree's identity has its rows. `SidecarIsKept` needs that a checkpoint which has yet to rebuild has set the flag and that nothing since has cleared it
(`RebuildInv`). `RightFileAnswers` needs all of it: with the created tree at the path the attach throws for no reason, and its count is the entry's.

The last two theorems of the table need another view of the same steps. `IdentitySteps` sorts every step into five kinds by what it does to the identities in storage and in
memory: it creates, checkpoints, uses, loses, or leaves no entry. What an attach may do to them is `Attached`. `FinalInv` (the running instance goes by the identity a
checkpoint has stored) is inductive over these kinds and gives `IdentityIsForLife`; each kind maps to an action of `DurableIdentity`.
`IdentityIsForLife` needs "checkpointed": the identity in a WAL entry can be lost, when it is replayed from its options (`forgotten`).

### Build (`SextantBuildProofs`)

For any connections, cap, unit, limits and rows:

| Theorem | Statement |
|---|---|
| `BuildTypeCorrect` | `Spec => []TypeOK` |
| `CommittedCoversPlan` | `Spec => []IndexCoversPlan` |
| `AloneStatementRestores` | `Spec => []AloneRestores` |
| `FailedClampIsPending` | `Spec => []ClampNotForgotten` |

`CountedInv` follows the counts through the statement: past the check what was pushed is what the plan saw, and past the attach the sidecar has it. For a
statement that runs alone `AloneInv` says at each of its steps where the limit it began with now is: in force, read, saved or pending, rounded
or not (`Holds`); `OnlyInv` keeps others away while it matters, and `RestoreInv` says that a clamp is only saved from above the cap, without which a
pending restore could itself be the clamp. `ClampInv` with `SoloInv` says the same for statements that never overlap: a clamp in force is about to be saved, or pending.

### Table (`SextantTableProofs`)

For any transactions, paths, rows, builds and indexes:

| Theorem | Statement |
|---|---|
| `TableTypeCorrect` | `Spec => []TypeOK` |
| `NoIndexRots` | `Spec => []IndexesCoverTable` |
| `OwnTreeAnswers` | `Spec => []AnswersFromOwnTree` |
| `SnapshotAnswers` | `Spec => []AnswersFromSnapshot` |
| `FenceIsInTime` | `Spec => FenceSparesCommits` |
| `DeleteUnlessRaced` | `Spec => DeleteOnlyIfRaced` |

The fence looks when a write is planned, and the invariants say what that is worth when it commits: while a DELETE or UPDATE is pending, or deleted rows
await their cleanup, every index in the list, and every build past its finalize scan, has met it (`RacedInv`); a pending INSERT knows every index without `delta_scan` to be younger
than its plan (`InsertInv`, with `NumberInv`: no number is planned with before its index is listed); two pending writes never name one row, and the row is in the table (`RowInv`).
`PlanInv` is why the scans must agree: unless an INSERT masks it, the table and what is dead hold no more rows than the plan counted, so that agreement
leaves no deleted row behind (`AgreeingCounts`). `CoverInv` follows the rows of a build from its scan through the file into the list: they are in the table, and what was appended since is numbered
from their count on, which is where the delta window starts.

`ListInv` says whose tree an index has: whatever bears the number of its build is the tree of its build (`Known`), and what it has recorded,
stored and attached is that number, unless it was overwritten or forgotten (`Identified`). `BuildInv` is the same for a build on its way there: until the attach
it has no identity and would adopt anything, so the file must be its own (`Adopting`).

The proof has two relations for what steps do besides their own business: binding or attaching turns the list into one that is `Rebound`, and a write or
another build leaves a build `Aged`, in the same stage with marks in its history. Each conjunct is kept under both. `QuietKeeps`, `LeavingKeeps`, `ChangedKeeps`, `ChangingKeeps` and
`StageKeeps` treat the actions alike that end a transaction, change rows, or move a build.

### Delta serving and batches (`SextantBatchProofs`, `SextantDeltaProofs`)

For any number of queries, results per query and chunk size; in `SextantDelta` also for any rows and distances, any LIMIT and any number of appends:

| Theorem | Statement |
|---|---|
| `BatchTypeCorrect` | `BatchSpec => []BatchTypeOK` |
| `RowsNumbered` | `BatchSpec => []BatchNumbered` |
| `DeltaTypeCorrect` | `Spec => []TypeOK` |
| `MergesAreExact` | `Spec => []MergedExactly` |
| `BatchImplemented` | `Spec => ImplementsBatch` |
| `DeltaRowsNumbered` | `Spec => []BatchNumbered` |
| `StatementsGetOn` | `Spec => StatementAdvances` |

`BatchNumbered` is not inductive: that a chunk is numbered rightly depends on counts and packed results belonging together. The invariant
adds that no running total exceeds the number of results (`TotalsInv`) and that every result lies before the total of its query and not before
that of an earlier one (`PlaceInv`); `QueryAtLies` concludes from it that the walk over the counts stops at the query of the result it
stands at. `BatchImplemented` shows step by step that `SextantDelta` implements `BatchSpec`, for which `DeltaInv` must say that no answer is longer than
its LIMIT; `DeltaRowsNumbered` is then `RowsNumbered` carried over.

`MergedExactly` speaks of the finished merge. The invariant follows the scan: if nothing newer than the transaction is about, the candidates are
exactly the rows with a vector below `start` (`ScanInv`), whatever the batches; the engine's rows differ from each other (`FoundInv`); no variable
of a query outlives it (`StageInv`); and without `delta_scan` nothing has a vector past the build (`StreamInv`), so that leaving the merge out is right.
`BestMerges` is the algebra of the merge: cutting the candidates to k before merging loses none of the k best. `StatementsGetOn` compares the two
sides of every step with the bound `StepsLeft`.

### Top-k rewrite and filters (`SextantTopNProofs`)

For tables of any size, any numbers, strings, roundings and scores, any filter and query, any LIMIT, OFFSET and overfetch:

| Theorem | Statement |
|---|---|
| `TopNTypeCorrect` | `Spec => []TypeOK` |
| `FilteredAnswersSatisfy` | `Spec => []NoWrongRow` |
| `NearRowsSurvive` | `Spec => []NoRowLost` |
| `RewriteIsInvisible` | `Spec => []RewriteKeepsAnswer` |
| `LikeRangeIsPrefix` | the range from `p` to `p` with its last byte incremented holds exactly the strings that begin with `p` |

A query takes at most three steps, so the invariant (`RewriteInv`) says what each variable is made of: the predicates are the translation, the found rows
the k nearest that pass (`Closest`), the answer a `TopN` of those kept. The work is in what follows. `PredicatesExact`: on a tree whose predicates count as exact, a row passes if and only if
SQL's filter holds of it, for the prefix range and for every other operator, on tree and appended rows. For the range it is `LikeRangeIsPrefix`, for any non-empty prefix. `FirstRowsFound`: if the wrong rows are at most the
overfetch, the first LIMIT rows that satisfy the filter are among the k nearest that pass. `OrdersAgree`: under the checks on metric and
direction SQL's order and the engine's are one on rows with a vector. `SameTopN`: without an OFFSET, a set that holds the first LIMIT rows of another has the same `TopN`.
`VectorsComeFirst`: with NULLs last, rows without a vector are in no answer that LIMIT others fill.

### Only model-checked

- `EveryStatementEnds` (`attach`): liveness under fairness is out of the prover's reach. The liveness of `SextantDelta` is proved as far as it is
  an action property (`StatementAdvances`).
- The properties of the six violated runs, which are false.

## Disagreements without a run

- *Writes pending when an index is built.* `docs/SEXTANT.md:228` says "DELETE and UPDATE on an indexed table always
  abort", and the comment in `Delete` (`sextant_index.cpp` 890-893) that it is unreachable. A DELETE planned before CREATE INDEX and
  committed after it reaches `Delete` when its rows are cleaned up, and the database stops with a FatalException; an UPDATE in
  place leaves a stale copy of filter values in the tree. The mark `raced` of `SextantTable` names the index concerned;
  the properties hold of every other one.
- *An INSERT between the scans.* `Delete` is reached in a second way. The comparison of the two scans (`sextant_index.cpp` 814) fails a build while deleted rows
  await their cleanup, since only the plan's scan counts them; an INSERT committed between the scans makes up for one, and the build goes
  through (`masked`).
- *An INSERT before the list entry.* `docs/SEXTANT.md:229` says that INSERT is rejected unless every index has `delta_scan`. One that commits after the finalize
  scan and before the index is in the list is seen by neither the fence nor `Append`, and an index without `delta_scan` never has its row (`overtaken`). In the code
  nothing prevents it; whether DuckDB's locks do is outside the repository, so no run states it as a violation.
- *Two builds on one path.* A build records no identity before its attach, so if another build writes to its path first, it adopts that tree
  (`overwritten`), and only a different row count would fail it. An index replayed from its options adopts whatever is at its path, on a shared path the tree of
  another index (`forgotten`). `docs/SEXTANT.md` forbids neither.
- *A transaction's own rows.* `docs/SEXTANT.md` 25 and 165 say that appended rows are merged. Rows the reading
  transaction has inserted itself and not committed are not (`sextant_index_scan.cpp` 182).
- *Unusable and untranslatable indexes.* `sextant_index.hpp` 130-132 says that only operations which use a broken index
  fail. A top-k query that a later index of the list could answer fails at an unusable one before it
  (`sextant_optimize_topk.cpp` 623-637); a filter that does not translate for one index ends the search for others (657-660).
- *Cache budgets.* `docs/SEXTANT.md:64` says that `sextant_leaf_cache_mb` binds at the first attach of each index. After a reopen that is the
  load path's attach, with budgets of 0 (`sextant_index.cpp` 1080), before any session has a say.
- *Rows without vectors.* SQL returns them last when fewer than k rows have a vector; a rewritten query does not.
- *Rescoring.* The comment at `sextant_index_scan.cpp` 343 takes k for at most 144; `sextant_query` accepts 100000, and one
  vector of 2048 rows holds them.
- *Identity at a checkpoint.* `PersistToDisk` (`sextant_index.cpp` 929) reads `tree_uuid` under another lock than the one that guards
  its adoption.
- A restore left pending by a failed CREATE INDEX is executed by the next build
  even if the user has SET `memory_limit` since (`sextant_index.cpp` 309-312).
- Overlapping CREATE INDEX statements can leave the clamp in force for good;
  `ClampNotForgotten` and `AloneRestores` therefore speak of statements that do not overlap.
- `list_has_all(tags, [])` lets rows with NULL lists pass; BIGINT filters compare as
  doubles. `Divergent` in `SextantTopN` excepts just that: the NULL lists under such a filter, the BIGINTs that double changes, and strings of
  appended rows under more than a NULL test (`predicates_delta`).

## Not modelled

- The engine's algorithms and DuckDB itself (external).
- Conversion of filter columns to the engine's buffers (memory layout), and the casts of query vectors.
- Search tuning, which scales recall and cost only; registration, build files, CI, scripts.
- The chain of blocks under the metadata blob: path, UUID and count fit in its first block of 256 KiB, so the code that grows
  it does not run. What the blob says is in `SextantLifecycle`.
- The engine's builder: `SextantBuild` has the exits on which nobody aborts it, but a property would list them again.
- A checkpoint beside the first attach (see above): a data race on a string, with any outcome.
- The descent of the optimizer into subplans, and plans it does not know.

## Plan

Modelled as far as the code allows: all components but those named above. Proved: all safety and action properties and refinements of the runs. What could come next:

1. An abstract specification for `SextantTopN` (a query is answered once, as SQL answers it), in the manner of `AttachOnce` and `DurableIdentity`, and the refinement proved.
2. What follows from two components together: the trees `SextantTable` numbers are attached by the protocol of `SextantAttach`, and
   the one entry of `SextantLifecycle` is attached by many threads.
