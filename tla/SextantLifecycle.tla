-------------------------- MODULE SextantLifecycle --------------------------
(***************************************************************************)
(* The life of one sextant index across statements, checkpoints, crashes   *)
(* and restarts.  Three stores must agree: DuckDB's storage, which holds   *)
(* the entry's metadata blob; the sidecar file at the entry's path; and    *)
(* the instance in memory, constructed when a statement first binds the    *)
(* table's indexes.  Anybody may replace, restore or delete the file.      *)
(* Statements run one at a time, but for those that come between the       *)
(* serialization of a checkpoint and its rebuild of the indexes; the       *)
(* interleavings inside an attach are the business of SextantAttach, those *)
(* of a build of SextantBuild and SextantTable.                            *)
(***************************************************************************)
EXTENDS Naturals, FiniteSets

CONSTANTS Trees,     \* UUIDs the engine gives to trees it builds
          NoUuid,    \* the empty UUID
          NoTree,    \* no file at the path; no handle
          NoEntry,   \* no index in DuckDB's storage
          Foreign,   \* trees that come from elsewhere
          MaxRows    \* bound: rows the table may reach

Tree == [uuid : Trees \cup {NoUuid}, rows : 0 .. MaxRows] \cup Foreign
Uuid == Trees \cup {NoUuid} \cup {f.uuid : f \in Foreign}

(* What DuckDB's storage holds for the index: the blob, and whether it is  *)
(* still only in the write-ahead log.                                      *)
Blob == [uuid : Uuid, n_build : 0 .. MaxRows, delta_scan : BOOLEAN,
         place : {"wal", "blocks"}]

ASSUME LifecycleAssumption ==
    /\ MaxRows \in Nat \ {0}
    /\ NoTree \notin Tree \cup Uuid
    /\ NoEntry \notin Blob \cup Uuid

(* A UUID names one tree: the engine draws each anew, and a foreign tree   *)
(* was not built here.  Trees from before UUIDs have the empty one.        *)
ASSUME UuidAssumption ==
    /\ NoUuid \notin Trees
    /\ \A f \in Foreign : f.uuid \notin Trees
    /\ \A f, g \in Foreign : f.uuid = g.uuid => f = g \/ f.uuid = NoUuid

(* The instance in memory.  An unbound one carries what it will be         *)
(* constructed from.                                                       *)
Instance == [bound : BOOLEAN, tree_uuid : Uuid, n_build : 0 .. MaxRows,
             delta_scan : BOOLEAN, handle : Tree \cup {NoTree},
             sidecar_unusable : BOOLEAN,
             serialized_this_generation : BOOLEAN]

(* What the last statement came to, for the properties.                    *)
Outcome == [op : {"none", "create", "checkpoint", "drop", "topk", "query", "write"},
            ok : BOOLEAN, tree : Tree \cup {NoTree}, n_build : 0 .. MaxRows,
            delta_scan : BOOLEAN]

VARIABLES sidecar,   \* the file at sidecar_path
          built,     \* every tree a build has written; backups may exist
          stored,    \* DuckDB's durable entry
          rows,      \* committed rows of the table
          up,        \* the process runs
          stage,     \* idle, or inside a CREATE, a DROP or a checkpoint
          inst,      \* the instance in memory
          last,      \* outcome of the last statement
          created,   \* history: the tree the index was created on
          forgotten  \* history: an entry was replayed without its blob

vars == <<sidecar, built, stored, rows, up, stage, inst, last, created, forgotten>>

NoInstance == [bound |-> FALSE, tree_uuid |-> NoUuid, n_build |-> 0,
               delta_scan |-> FALSE, handle |-> NoTree,
               sidecar_unusable |-> FALSE,
               serialized_this_generation |-> FALSE]

Report(op, ok, i) == [op |-> op, ok |-> ok, tree |-> i.handle,
                      n_build |-> i.n_build, delta_scan |-> i.delta_scan]
Nothing == Report("none", TRUE, NoInstance)

TypeOK ==
    /\ sidecar \in Tree \cup {NoTree}
    /\ built \subseteq Tree
    /\ stored \in Blob \cup {NoEntry}
    /\ rows \in 0 .. MaxRows
    /\ up \in BOOLEAN
    /\ stage \in {"idle", "creating", "dropping", "rebuilding"}
    /\ inst \in Instance
    /\ inst.bound => up /\ (stored # NoEntry \/ stage = "dropping")
    /\ last \in Outcome
    /\ created \in Tree \cup {NoTree}
    /\ forgotten \in BOOLEAN

Init ==
    /\ sidecar \in Foreign \cup {NoTree}
    /\ built = {}
    /\ stored = NoEntry
    /\ rows = 1
    /\ up = TRUE
    /\ stage = "idle"
    /\ inst = NoInstance
    /\ last = Nothing
    /\ created = NoTree
    /\ forgotten = FALSE

-----------------------------------------------------------------------------
(* Attaching an instance to the sidecar.                                   *)

CanAttachUnchecked(i) == sidecar # NoTree
CanAttach(i) ==
    /\ sidecar # NoTree
    /\ i.tree_uuid = NoUuid \/ sidecar.uuid \in {NoUuid, i.tree_uuid}

AttachOverwriting(i) ==
    IF i.handle # NoTree \/ sidecar = NoTree THEN i
    ELSE [i EXCEPT !.handle = sidecar, !.tree_uuid = sidecar.uuid]

AttachIfUsable(i) ==
    IF i.handle # NoTree \/ ~CanAttach(i) \/ i.sidecar_unusable THEN i
    ELSE [i EXCEPT !.handle = sidecar,
                   !.tree_uuid = IF @ = NoUuid THEN sidecar.uuid ELSE @]

(* It throws, and then leaves the instance as it was, when there is no     *)
(* handle and no tree to take.                                             *)
AttachThrows(i) == i.handle = NoTree /\ ~CanAttach(i)

AttachAndVerify(i) ==
    IF i.handle # NoTree \/ AttachThrows(i) THEN i
    ELSE [i EXCEPT !.handle = sidecar,
                   !.tree_uuid = IF @ = NoUuid THEN sidecar.uuid ELSE @]

(* create_instance: construct, attach, and catch what the attach throws.   *)
(* What the constructor itself throws (no path, a blob that is not one)    *)
(* no entry this code writes can cause.                                    *)
CreateInstance(i) ==
    IF AttachThrows(i)
    THEN [i EXCEPT !.bound = TRUE, !.sidecar_unusable = TRUE]
    ELSE [AttachAndVerify(i) EXCEPT !.bound = TRUE]

(* BindIndexes: the instance every statement on the table works with.      *)
BoundIndex == IF inst.bound THEN inst ELSE CreateInstance(inst)

(* Queries and writes also run while a checkpoint has yet to rebuild;      *)
(* DuckDB makes a CREATE, a DROP and another checkpoint wait.              *)
Ready == up /\ stage = "idle"
Open == up /\ stage \in {"idle", "rebuilding"}

-----------------------------------------------------------------------------
(* CREATE INDEX.  The build streams the table and writes the sidecar, over *)
(* whatever file is at the path; a prebuilt one is taken as it is.         *)
WriteSidecar(delta) ==
    /\ Ready
    /\ stored = NoEntry
    /\ \/ \E u \in Trees \ {b.uuid : b \in built} :
              LET tree == [uuid |-> u, rows |-> rows] IN
              /\ sidecar' = tree
              /\ built' = built \cup {tree}
       \/ UNCHANGED <<sidecar, built>>
    /\ stage' = "creating"
    /\ inst' = [NoInstance EXCEPT !.n_build = rows, !.delta_scan = delta]
    /\ last' = Nothing
    /\ UNCHANGED <<stored, rows, up, created, forgotten>>

(* The finalize step then attaches and compares the row counts, and the    *)
(* commit serializes the entry to the write-ahead log.                     *)
TreeUncounted(i) == TRUE
TreeCounts(i) == i.handle.rows = i.n_build

CommitCreate ==
    LET i == AttachAndVerify(inst) IN
    /\ up
    /\ stage = "creating"
    /\ i.handle # NoTree
    /\ TreeCounts(i)
    /\ stored' = [uuid |-> i.tree_uuid, n_build |-> i.n_build,
                  delta_scan |-> i.delta_scan, place |-> "wal"]
    /\ inst' = [i EXCEPT !.bound = TRUE, !.serialized_this_generation = TRUE]
    /\ created' = i.handle
    /\ forgotten' = FALSE
    /\ stage' = "idle"
    /\ last' = Report("create", TRUE, i)
    /\ UNCHANGED <<sidecar, built, rows, up>>

(* An invalid cache budget, a sidecar that does not open, or a row count   *)
(* that differs fails the statement.  A file the build wrote stays.        *)
FailCreate ==
    /\ up
    /\ stage = "creating"
    /\ inst' = NoInstance
    /\ stage' = "idle"
    /\ last' = Report("create", FALSE, NoInstance)
    /\ UNCHANGED <<sidecar, built, stored, rows, up, created, forgotten>>

-----------------------------------------------------------------------------
(* Serialization and teardown.                                             *)

(* What PersistToDisk writes.                                              *)
StaleBlob(i) == [stored EXCEPT !.place = "blocks"]
PersistToDisk(i) == [uuid |-> i.tree_uuid, n_build |-> i.n_build,
                     delta_scan |-> i.delta_scan, place |-> "blocks"]

(* ResetStorage tells a checkpoint's rebuild from a DROP by the flag that  *)
(* serializing the instance has set.                                       *)
SerializedWithoutFlag(i) == i
Serialized(i) == [i EXCEPT !.serialized_this_generation = TRUE]

ResetStorage(i) ==
    IF i.serialized_this_generation
    THEN /\ inst' = [i EXCEPT !.serialized_this_generation = FALSE]
         /\ sidecar' = sidecar
    ELSE /\ inst' = [i EXCEPT !.handle = NoTree]
         /\ sidecar' = NoTree

(* A checkpoint serializes the instance, and may be one that rebuilds.     *)
Checkpoint(rebuild) ==
    LET i == Serialized(BoundIndex) IN
    /\ Ready
    /\ stored # NoEntry
    /\ stored' = PersistToDisk(i)
    /\ inst' = i
    /\ stage' = IF rebuild THEN "rebuilding" ELSE "idle"
    /\ last' = Report("checkpoint", TRUE, i)
    /\ UNCHANGED <<sidecar, built, rows, up, created, forgotten>>

RebuildIndexes ==
    /\ up
    /\ stage = "rebuilding"
    /\ ResetStorage(inst)
    /\ stage' = "idle"
    /\ last' = Nothing
    /\ UNCHANGED <<built, stored, rows, up, created, forgotten>>

(* DROP INDEX binds the entry first, so that its ResetStorage runs when    *)
(* the drop has committed.                                                 *)
CommitDrop ==
    /\ Ready
    /\ stored # NoEntry
    /\ inst' = BoundIndex
    /\ stored' = NoEntry
    /\ stage' = "dropping"
    /\ last' = Nothing
    /\ UNCHANGED <<sidecar, built, rows, up, created, forgotten>>

FinishDropKeepingEntry ==
    /\ up
    /\ stage = "dropping"
    /\ sidecar' = IF inst.serialized_this_generation THEN sidecar ELSE NoTree
    /\ stage' = "idle"
    /\ created' = NoTree
    /\ last' = Report("drop", TRUE, NoInstance)
    /\ UNCHANGED <<inst, built, stored, rows, up, forgotten>>

FinishDrop ==
    /\ up
    /\ stage = "dropping"
    /\ sidecar' = IF inst.serialized_this_generation THEN sidecar ELSE NoTree
    /\ inst' = NoInstance
    /\ stage' = "idle"
    /\ created' = NoTree
    /\ last' = Report("drop", TRUE, NoInstance)
    /\ UNCHANGED <<built, stored, rows, up, forgotten>>

-----------------------------------------------------------------------------
(* Statements on the indexed table.                                        *)

(* A delta query refuses a tree whose row count is not the entry's.        *)
Answers(i) ==
    /\ i.handle # NoTree
    /\ i.delta_scan => i.handle.rows = i.n_build

(* The top-k rewrite takes a handle that is there, and fails with the      *)
(* error cached at load when there is none.                                *)
TopKQuery ==
    /\ Open
    /\ stored # NoEntry
    /\ inst' = BoundIndex
    /\ last' = Report("topk", Answers(BoundIndex), BoundIndex)
    /\ UNCHANGED <<sidecar, built, stored, rows, up, stage, created, forgotten>>

(* sextant_query attaches again when the handle is null.                   *)
SextantQuery ==
    LET i == AttachAndVerify(BoundIndex) IN
    /\ Open
    /\ stored # NoEntry
    /\ inst' = i
    /\ last' = Report("query", Answers(i), i)
    /\ UNCHANGED <<sidecar, built, stored, rows, up, stage, created, forgotten>>

(* The plan-time fence: with an index on the table INSERT runs only under  *)
(* delta_scan, DELETE (and UPDATE) never.                                  *)
InsertUnfenced == TRUE
InsertAllowed == stored = NoEntry \/ BoundIndex.delta_scan
DeleteAllowed == stored = NoEntry

Write(allowed, count) ==
    /\ Open
    /\ inst' = IF stored = NoEntry THEN inst ELSE BoundIndex
    /\ rows' = IF allowed THEN count ELSE rows
    /\ last' = Report("write", allowed, NoInstance)
    /\ UNCHANGED <<sidecar, built, stored, up, stage, created, forgotten>>

Insert == rows < MaxRows /\ Write(InsertAllowed, rows + 1)
Delete == rows > 0 /\ Write(DeleteAllowed, rows - 1)

-----------------------------------------------------------------------------
(* Crashes, restarts and the file system.                                  *)

Crash ==
    /\ up
    /\ up' = FALSE
    /\ inst' = NoInstance
    /\ stage' = "idle"
    /\ created' = IF stored = NoEntry THEN NoTree ELSE created
    /\ last' = Nothing
    /\ UNCHANGED <<sidecar, built, stored, rows, forgotten>>

(* The catalog comes back with the entry unbound.  From checkpointed       *)
(* storage it has its blob; replayed from the write-ahead log it has the   *)
(* blob serialized at commit or, without valid storage, only its options.  *)
FromBlob == [NoInstance EXCEPT !.tree_uuid = stored.uuid,
                               !.n_build = stored.n_build,
                               !.delta_scan = stored.delta_scan]
FromOptions == [NoInstance EXCEPT !.delta_scan = stored.delta_scan]

Restart ==
    /\ ~up
    /\ up' = TRUE
    /\ \/ stored = NoEntry /\ UNCHANGED <<inst, forgotten>>
       \/ stored # NoEntry /\ inst' = FromBlob /\ UNCHANGED forgotten
       \/ /\ stored # NoEntry
          /\ stored.place = "wal"
          /\ inst' = FromOptions
          /\ forgotten' = TRUE
    /\ last' = Nothing
    /\ UNCHANGED <<sidecar, built, stored, rows, stage, created>>

(* Somebody deletes the file, or puts a foreign tree or a copy of an       *)
(* earlier one in its place.                                               *)
TouchFile ==
    /\ sidecar' \in (built \cup Foreign \cup {NoTree}) \ {sidecar}
    /\ last' = Nothing
    /\ UNCHANGED <<built, stored, rows, up, stage, inst, created, forgotten>>

-----------------------------------------------------------------------------
Next ==
    \/ \E delta \in BOOLEAN : WriteSidecar(delta)
    \/ CommitCreate \/ FailCreate
    \/ (\E rebuild \in BOOLEAN : Checkpoint(rebuild)) \/ RebuildIndexes
    \/ CommitDrop \/ FinishDrop
    \/ TopKQuery \/ SextantQuery
    \/ Insert \/ Delete
    \/ Crash \/ Restart
    \/ TouchFile

Spec == Init /\ [][Next]_vars

-----------------------------------------------------------------------------
(* Only a DROP deletes the tree of an index that is in the catalog, or     *)
(* replaces it: no checkpoint, failed statement or restart does.  (What    *)
(* others do to the file is TouchFile's.)                                  *)
OnlyDropDeletes ==
    [][sidecar' # sidecar =>
           \/ TouchFile
           \/ stored = NoEntry]_vars

(* A query that answers, answers from the tree the index was created on    *)
(* (or one that has no UUID to tell): a swapped or stale sidecar is never  *)
(* served, across any number of checkpoints, crashes and restarts, unless  *)
(* a replay rebuilt the entry from its options alone.                      *)
ServedTreeIsCreatedTree ==
    last.op \in {"topk", "query"} /\ last.ok /\ ~forgotten =>
        last.tree.uuid = created.uuid \/ NoUuid \in {last.tree.uuid, created.uuid}

(* No row is lost between the tree and the delta window, or answered by    *)
(* both: what answers covers each row of the table once, with the tree     *)
(* that is in service and, under delta_scan, the window from n_build on.   *)
(* Without delta_scan nothing compares the counts when a query runs, and   *)
(* it takes that the tree is the one the index was created on: that it and *)
(* the entry have an identity to tell.                                     *)
Identified ==
    /\ ~forgotten
    /\ NoUuid \notin {last.tree.uuid, created.uuid}
TreeRows == 0 .. last.tree.rows - 1
WindowRows == IF last.delta_scan THEN last.n_build .. rows - 1 ELSE {}
AnswersCoverTable ==
    last.op \in {"topk", "query"} /\ last.ok /\ (last.delta_scan \/ Identified) =>
        /\ TreeRows \cap WindowRows = {}
        /\ TreeRows \cup WindowRows = 0 .. rows - 1

(* A checkpoint makes the identity durable: with a tree attached that has  *)
(* one, the blob carries the identity the instance verified against, so    *)
(* that the check at the next load is not inert.                           *)
CheckpointKeepsIdentity ==
    last.op = "checkpoint" /\ last.tree # NoTree =>
        /\ stored.uuid = inst.tree_uuid
        /\ last.tree.uuid # NoUuid => stored.uuid = last.tree.uuid

(* An identity that a checkpoint has stored stays the index's until it is  *)
(* dropped: no later attach of another file, no checkpoint, crash or       *)
(* restart exchanges it or takes it away.                                  *)
RecordedIdentityIsFinal ==
    [][stored # NoEntry /\ stored.place = "blocks" /\ stored.uuid # NoUuid =>
           stored' = NoEntry \/ stored'.uuid = stored.uuid]_vars

(* A load that failed is not for good: with the tree the index was created *)
(* on (back) at the path, sextant_query answers, whatever was there when   *)
(* the entry was constructed; unless another tree was attached by then, or *)
(* the entry has forgotten which is its own.                               *)
RightFileIsServed ==
    [][last'.op = "query" /\ ~last'.ok =>
           \/ sidecar # created
           \/ inst.handle \notin {NoTree, created}
           \/ forgotten]_vars

(* The documentation: DROP INDEX deletes the sidecar file.  The code does  *)
(* not when the instance was serialized earlier in the same session.       *)
DropDeletesSidecar == last.op = "drop" => sidecar = NoTree

(* The header: operations that use an index whose sidecar was unusable at  *)
(* load re-verify it.  The top-k rewrite does not: it repeats the error it *)
(* cached at load although the right tree is back.                         *)
TopKReverifies ==
    [][last'.op = "topk" /\ ~last'.ok =>
           ~Answers(AttachAndVerify(BoundIndex))]_vars

-----------------------------------------------------------------------------
(* The index keeps the promise of DurableIdentity.  While the process is   *)
(* down the entry goes by what is stored.                                  *)
EntryIdentity == IF up THEN inst.tree_uuid ELSE stored.uuid
HandleIdentity == IF inst.handle = NoTree THEN NoTree ELSE inst.handle.uuid

Durable == INSTANCE DurableIdentity WITH
               Uuids <- Uuid,
               NoIndex <- NoEntry,
               recorded <- IF stored = NoEntry THEN NoEntry ELSE stored.uuid,
               durable <- stored # NoEntry /\ stored.place = "blocks",
               identity <- IF stored = NoEntry THEN NoEntry ELSE EntryIdentity,
               serving <- IF stored = NoEntry THEN NoTree ELSE HandleIdentity

(* Whatever is checkpointed, crashes, restarts or is put at the path: the  *)
(* index serves only its tree, and a durable identity is for life.         *)
ImplementsDurableIdentity == Durable!Spec
=============================================================================
