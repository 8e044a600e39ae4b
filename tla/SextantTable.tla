---------------------------- MODULE SextantTable ----------------------------
(***************************************************************************)
(* A table with several sextant indexes and several transactions.  An      *)
(* index is never maintained: the immutability fence refuses writes when   *)
(* they are planned, and what Append and Delete of the index do when they  *)
(* commit is the last resort.  Meanwhile indexes are created, dropped and  *)
(* bound again after a restart, perhaps on one path, and a top-k query     *)
(* takes the first index of the list that fits.                            *)
(*                                                                         *)
(* Every tree here is built by a CREATE INDEX on the table; prebuilt ones, *)
(* and trees without a UUID, are SextantLifecycle's.                       *)
(*                                                                         *)
(* External: nothing keeps others from writing and committing while a      *)
(* CREATE INDEX runs, or from creating a second one.  Its plan scan counts *)
(* deleted rows that an open transaction may still see.  A committed       *)
(* DELETE reaches the indexes when the last such transaction ends; an      *)
(* INSERT does when it commits; an UPDATE in place never does.  The engine *)
(* replaces the file at its path, under whatever handle is open on the old *)
(* one.  GetTotalRows leaves out a transaction's own rows.  No checkpoint: *)
(* the entries' blobs are the ones of their CREATE, in the log.            *)
(***************************************************************************)
EXTENDS Naturals, Sequences, FiniteSets, SequencesExt

CONSTANTS Txns,
          Paths,      \* sidecar paths
          MaxRows,    \* bound: row ids
          MaxBuilds   \* bound: trees

ASSUME TableAssumption == MaxRows \in Nat \ {0} /\ MaxBuilds \in Nat

VARIABLES table,    \* committed rows, <<row id, version>>
          total,    \* GetTotalRows
          dead,     \* deleted rows that an open transaction may still see
          builds,   \* trees built; a tree's number is its UUID
          file,     \* the tree at each path
          indexes,  \* the table's list
          txn,
          build,    \* the CREATE INDEX a transaction runs
          fatal,    \* the database is invalidated
          last      \* what the last step answered

stores == <<table, total, dead>>
vars   == <<stores, builds, file, indexes, txn, build, fatal, last>>

Rows   == (0 .. MaxRows - 1) \X {0, 1}
NoRow  == <<MaxRows, 0>>
Ops    == {"INSERT", "DELETE", "UPDATE"}
Uuid   == 0 .. MaxBuilds   \* 0 is the empty one
Tree   == [uuid : 1 .. MaxBuilds, rows : SUBSET Rows]
NoTree == [uuid |-> 0, rows |-> {}]

(* History: what happened between the two scans of the index's build, or   *)
(* after them and before it was in the list, or later.                     *)
Past == {"masked",      \* between: an INSERT committed, and then deleted rows
                        \* still awaited their cleanup
         "raced",       \* after: a DELETE or UPDATE was pending
         "overtaken",   \* after: an INSERT committed, and it has no delta_scan
         "overwritten", \* after: another build wrote its file over the index's
         "forgotten"}   \* a replay had the index's options only

Index == [built : Tree \cup {NoTree},   \* history: the tree of its own build
          path : Paths, delta_scan : BOOLEAN, tree_uuid : Uuid, n_build : Nat,
          blob : [tree_uuid : Uuid, n_build : Nat],
          bound : BOOLEAN,
          handle : Tree \cup {NoTree},  \* what it is attached to; NoTree in a
                                        \* bound index means sidecar_unusable
          past : SUBSET Past]

NewIndex(path, delta_scan) ==
    [built |-> NoTree, path |-> path, delta_scan |-> delta_scan, tree_uuid |-> 0,
     n_build |-> 0, blob |-> [tree_uuid |-> 0, n_build |-> 0],
     bound |-> TRUE, handle |-> NoTree, past |-> {}]

Transaction == [open : BOOLEAN,
                snap : SUBSET Rows,                    \* what was committed when it began
                op : Ops \cup {"none", "CREATE"},      \* its write
                row : Rows \cup {NoRow},               \* the row it deletes or updates
                planned : SUBSET (1 .. MaxBuilds)]     \* history: the indexes its write met

Idle == [open |-> FALSE, snap |-> {}, op |-> "none", row |-> NoRow, planned |-> {}]

(* A CREATE INDEX: the rows its plan counted, those its own scan streamed. *)
Build == [stage : {"planned", "pushed", "finished", "attached"},
          n_rows : Nat, pushed : SUBSET Rows, index : Index]
NoBuild == [stage |-> "none"]

Answer == [op : {"none", "index"}, by : Nat, rows : SUBSET (Nat \X Rows)]
Silent == [op |-> "none", by |-> 0, rows |-> {}]

(* Types.  Builds have their own numbers, a row has one version, and only  *)
(* a bound index has a handle.                                             *)
TypeOK ==
    /\ table \subseteq Rows
    /\ \A r, s \in table : r[1] = s[1] => r = s
    /\ total \in 0 .. MaxRows
    /\ \A r \in table \cup dead : r[1] < total
    /\ dead \subseteq Rows
    /\ builds \in 0 .. MaxBuilds
    /\ file \in [Paths -> Tree \cup {NoTree}]
    /\ \A p \in Paths : file[p].uuid <= builds
    /\ indexes \in Seq(Index)
    /\ \A i, j \in DOMAIN indexes : i # j => indexes[i].built.uuid # indexes[j].built.uuid
    /\ \A i \in DOMAIN indexes :
          /\ indexes[i].built.uuid \in 1 .. builds
          /\ indexes[i].handle # NoTree => indexes[i].bound
    /\ txn \in [Txns -> Transaction]
    /\ build \in [Txns -> Build \cup {NoBuild}]
    /\ \A t \in Txns : build[t] # NoBuild <=> txn[t].op = "CREATE"
    /\ fatal \in BOOLEAN
    /\ last \in Answer

Init ==
    /\ table = {<<0, 0>>} /\ total = 1 /\ dead = {}
    /\ builds = 0
    /\ file = [p \in Paths |-> NoTree]
    /\ indexes = <<>>
    /\ txn = [t \in Txns |-> Idle]
    /\ build = [t \in Txns |-> NoBuild]
    /\ fatal = FALSE
    /\ last = Silent

-----------------------------------------------------------------------------
(* AttachAndVerify: the recorded tree, or any if none is recorded yet.     *)
CanAttachUnchecked(ix) == file[ix.path] # NoTree
CanAttach(ix) ==
    /\ file[ix.path] # NoTree
    /\ ix.tree_uuid \in {0, file[ix.path].uuid}

AttachAndVerify(ix) ==
    IF ix.handle # NoTree \/ ~CanAttach(ix) THEN ix
    ELSE [ix EXCEPT !.handle = file[ix.path], !.tree_uuid = file[ix.path].uuid]

(* BindIndexes: an unbound index is constructed and attaches if it can.    *)
BindUnmarked(ix) == IF ix.bound THEN ix ELSE AttachAndVerify(ix)
Bind(ix) == IF ix.bound THEN ix ELSE [AttachAndVerify(ix) EXCEPT !.bound = TRUE]
BindIndexes == [i \in DOMAIN indexes |-> Bind(indexes[i])]

-----------------------------------------------------------------------------
(* Transactions.                                                           *)
Start(t, op) == [txn EXCEPT ![t] = [Idle EXCEPT !.open = TRUE, !.snap = table, !.op = op]]

Begin(t) ==
    /\ ~fatal
    /\ ~txn[t].open
    /\ txn' = Start(t, "none")
    /\ last' = Silent
    /\ UNCHANGED <<stores, builds, file, indexes, build, fatal>>

(* The fence, once the indexes are bound.                                  *)
AnyAllowsAppend == \E i \in DOMAIN indexes : indexes[i].delta_scan
TableAllowsAppend ==
    indexes # <<>> /\ \A i \in DOMAIN indexes : indexes[i].delta_scan

TableHasSextantIndex == indexes # <<>>

Fenced(op) == ~(op = "INSERT" /\ TableAllowsAppend) /\ TableHasSextantIndex

(* History: what the scans of the builds under way did not see.            *)
Unlisted(t) == build[t].stage \in {"pushed", "finished", "attached"}
Marked(t, mark) == [build[t] EXCEPT !.index.past = @ \cup {mark}]
RacedBuilds == [t \in Txns |-> IF Unlisted(t) THEN Marked(t, "raced") ELSE build[t]]
OvertakenBuilds ==
    [t \in Txns |-> IF build[t].stage = "planned" THEN Marked(t, "masked")
                    ELSE IF Unlisted(t) /\ ~build[t].index.delta_scan
                    THEN Marked(t, "overtaken") ELSE build[t]]

(* A write that passes the fence is executed: it stays in its transaction. *)
(* A row is written by one transaction at a time, as it last saw it.       *)
Write(t, op, row) ==
    /\ ~fatal
    /\ txn[t].open /\ txn[t].op = "none"
    /\ IF op = "INSERT"
       THEN row = NoRow
       ELSE /\ row \in table \cap txn[t].snap
            /\ \A o \in Txns : txn[o].row # row
            /\ op = "UPDATE" => row = <<0, 0>>   \* bound: the first row, once
    /\ ~Fenced(op)
    /\ txn' = [txn EXCEPT ![t].op = op, ![t].row = row,
                          ![t].planned = {indexes[i].built.uuid : i \in DOMAIN indexes}]
    /\ build' = IF op = "INSERT" THEN build ELSE RacedBuilds
    /\ indexes' = BindIndexes
    /\ last' = Silent
    /\ UNCHANGED <<stores, builds, file, fatal>>

(* When a transaction ends, deleted rows nobody sees any more are removed  *)
(* from the indexes, and SextantIndex::Delete throws a FatalException.     *)
End(t, deleted) ==
    LET seen == {r \in deleted : \E o \in Txns \ {t} : txn[o].open /\ r \in txn[o].snap} IN
    /\ dead' = seen
    /\ fatal' = (seen # deleted /\ indexes' # <<>>)
    /\ txn' = [txn EXCEPT ![t] = Idle]
    /\ last' = Silent

(* SextantIndex::Append, at commit.                                        *)
AppendsUnchecked == TRUE
Appends == \A i \in DOMAIN indexes : indexes[i].delta_scan

CommitInsert(t) ==
    /\ ~fatal
    /\ txn[t].op = "INSERT"
    /\ Appends
    /\ total < MaxRows
    /\ table' = table \cup {<<total, 0>>}
    /\ total' = total + 1
    /\ indexes' = BindIndexes
    /\ build' = OvertakenBuilds
    /\ End(t, dead)
    /\ UNCHANGED <<builds, file>>

(* A veto fails the commit, which rolls back.                              *)
CommitVetoed(t) ==
    /\ ~fatal
    /\ txn[t].op = "INSERT"
    /\ ~Appends
    /\ indexes' = BindIndexes
    /\ End(t, dead)
    /\ UNCHANGED <<table, total, builds, file, build>>

CommitDelete(t) ==
    /\ ~fatal
    /\ txn[t].op = "DELETE"
    /\ table' = table \ {txn[t].row}
    /\ UNCHANGED <<total, builds, file, indexes, build>>
    /\ End(t, dead \cup {txn[t].row})

CommitUpdate(t) ==
    /\ ~fatal
    /\ txn[t].op = "UPDATE"
    /\ table' = (table \ {txn[t].row}) \cup {<<txn[t].row[1], 1>>}
    /\ UNCHANGED <<total, builds, file, indexes, build>>
    /\ End(t, dead)

(* It only read, or rolls back.                                            *)
Finish(t) ==
    /\ ~fatal
    /\ txn[t].open /\ txn[t].op # "CREATE"
    /\ UNCHANGED <<table, total, builds, file, indexes, build>>
    /\ End(t, dead)

-----------------------------------------------------------------------------
(* CREATE INDEX, a transaction of its own.  Its plan's scan only counts.   *)
PlanCount == Cardinality(table) + Cardinality(dead)

PlanScan(t, path, delta_scan) ==
    /\ ~fatal
    /\ ~txn[t].open
    /\ builds < MaxBuilds
    /\ txn' = Start(t, "CREATE")
    /\ build' = [build EXCEPT ![t] = [stage |-> "planned", n_rows |-> PlanCount, pushed |-> {},
                                      index |-> NewIndex(path, delta_scan)]]
    /\ last' = Silent
    /\ UNCHANGED <<stores, builds, file, indexes, fatal>>

(* The finalize step streams what a connection of its own sees; the two    *)
(* scans must agree.                                                       *)
CountsIgnored(t) == TRUE
CountsAgree(t) == build[t].n_rows = Cardinality(table)

PendingChange == \E t \in Txns : txn[t].op \in {"DELETE", "UPDATE"}

PushRows(t) ==
    /\ ~fatal
    /\ build[t].stage = "planned"
    /\ CountsAgree(t)
    /\ build' = [build EXCEPT ![t].stage = "pushed", ![t].pushed = table,
                             ![t].index.past = (IF PendingChange THEN {"raced"} ELSE {})
                                               \cup (IF dead = {} THEN {} ELSE @)]
    /\ last' = Silent
    /\ UNCHANGED <<stores, builds, file, indexes, txn, fatal>>

(* The engine writes the tree over whatever is at the path.                *)
FinishBuild(t) ==
    LET path == build[t].index.path
        tree == [uuid |-> builds + 1, rows |-> build[t].pushed]
    IN
    /\ ~fatal
    /\ build[t].stage = "pushed"
    /\ builds < MaxBuilds
    /\ builds' = builds + 1
    /\ file' = [file EXCEPT ![path] = tree]
    /\ build' = [o \in Txns |->
                    IF o = t
                    THEN [build[t] EXCEPT !.stage = "finished", !.pushed = {},
                             !.index.built = tree, !.index.n_build = Cardinality(build[t].pushed)]
                    ELSE IF build[o].stage = "finished" /\ build[o].index.path = path
                    THEN Marked(o, "overwritten")
                    ELSE build[o]]
    /\ last' = Silent
    /\ UNCHANGED <<stores, indexes, txn, fatal>>

(* Attach, and compare what is there with what was pushed.                 *)
AttachTree(t) ==
    LET ix == AttachAndVerify(build[t].index) IN
    /\ ~fatal
    /\ build[t].stage = "finished"
    /\ ix.handle # NoTree
    /\ Cardinality(ix.handle.rows) = ix.n_build
    /\ build' = [build EXCEPT ![t].stage = "attached", ![t].index = ix]
    /\ last' = Silent
    /\ UNCHANGED <<stores, builds, file, indexes, txn, fatal>>

(* What PersistToDisk writes to the log at the commit.                     *)
PersistToDisk(ix) ==
    [ix EXCEPT !.blob = [tree_uuid |-> ix.tree_uuid, n_build |-> ix.n_build]]

(* The index enters the table's list, and the statement commits.           *)
AddIndex(t) ==
    /\ ~fatal
    /\ build[t].stage = "attached"
    /\ indexes' = Append(indexes, PersistToDisk(build[t].index))
    /\ build' = [build EXCEPT ![t] = NoBuild]
    /\ End(t, dead)
    /\ UNCHANGED <<table, total, builds, file>>

(* Scans that disagree, a file that is gone, another count, an error of    *)
(* the engine: a file the build wrote stays.                               *)
FailBuild(t) ==
    /\ ~fatal
    /\ build[t] # NoBuild
    /\ build' = [build EXCEPT ![t] = NoBuild]
    /\ UNCHANGED <<table, total, builds, file, indexes>>
    /\ End(t, dead)

-----------------------------------------------------------------------------
(* DROP binds first.  The file goes or stays, as the flag of the last      *)
(* serialization has it.                                                   *)
DropIndex(i) ==
    /\ ~fatal
    /\ indexes' = RemoveAt(BindIndexes, i)
    /\ \/ file' = [file EXCEPT ![indexes[i].path] = NoTree]
       \/ UNCHANGED file
    /\ last' = Silent
    /\ UNCHANGED <<stores, builds, txn, build, fatal>>

(* Open transactions and builds are gone, with their views of deleted      *)
(* rows.  An index comes back from its blob or, if its CREATE is replayed  *)
(* from the log without valid storage, from its options.                   *)
FromBlob(ix) == [ix EXCEPT !.bound = FALSE, !.handle = NoTree,
                           !.tree_uuid = ix.blob.tree_uuid, !.n_build = ix.blob.n_build]
FromOptions(ix) == [ix EXCEPT !.bound = FALSE, !.handle = NoTree,
                              !.tree_uuid = 0, !.n_build = 0,
                              !.past = @ \cup {"forgotten"}]

Restart ==
    /\ \E bare \in SUBSET DOMAIN indexes :
          indexes' = [i \in DOMAIN indexes |-> IF i \in bare THEN FromOptions(indexes[i])
                                                            ELSE FromBlob(indexes[i])]
    /\ txn' = [t \in Txns |-> Idle]
    /\ build' = [t \in Txns |-> NoBuild]
    /\ dead' = {}
    /\ fatal' = FALSE
    /\ last' = Silent
    /\ UNCHANGED <<table, total, builds, file>>

-----------------------------------------------------------------------------
(* What an index may return: the id the engine gives a row, its place in   *)
(* the stream, is taken for a row id; under delta_scan the row ids from    *)
(* n_build on follow.  Each with the row it stands for.  (The order, k and *)
(* batches are SextantDelta's.)                                            *)
Place(r, tree) == Cardinality({s \in tree : s[1] < r[1]})
TreeOnly(ix) == {<<Place(r, ix.handle.rows), r>> : r \in ix.handle.rows}
Served(ix) ==
    {<<Place(r, ix.handle.rows), r>> : r \in ix.handle.rows} \cup
        (IF ix.delta_scan THEN {<<r[1], r>> : r \in {s \in table : s[1] >= ix.n_build}} ELSE {})

(* A delta query fails if the tree does not have n_build rows.             *)
Answered(ix, i) ==
    IF ix.handle = NoTree \/ (ix.delta_scan /\ Cardinality(ix.handle.rows) # ix.n_build)
    THEN Silent
    ELSE [op |-> "index", by |-> i, rows |-> Served(ix)]

(* The top-k rewrite.  The loop over the list passes over an index whose   *)
(* metric, column or dimension is not the query's.  It ends with an error  *)
(* at an unusable one, without a rewrite at one the filters do not         *)
(* translate for or after the last, and otherwise at the first that fits.  *)
TryRewriteTopN ==
    LET bound == BindIndexes IN
    /\ indexes' = bound
    /\ \/ last' = Silent
       \/ \E first \in DOMAIN bound :
             /\ \A i \in 1 .. first : bound[i].handle # NoTree
             /\ last' = Answered(bound[first], first)

(* sextant_query names its index and attaches again if it must.            *)
SextantQuery(i) ==
    LET ix == AttachAndVerify(BindIndexes[i]) IN
    /\ indexes' = [BindIndexes EXCEPT ![i] = ix]
    /\ last' = Answered(ix, i)

Query ==
    /\ ~fatal
    /\ \E t \in Txns : txn[t].open /\ txn[t].op # "CREATE"
    /\ \/ TryRewriteTopN
       \/ \E i \in DOMAIN indexes : SextantQuery(i)
    /\ UNCHANGED <<stores, builds, file, txn, build, fatal>>

Next ==
    \/ \E t \in Txns :
         \/ Begin(t) \/ CommitInsert(t) \/ CommitVetoed(t) \/ CommitDelete(t)
         \/ CommitUpdate(t) \/ Finish(t)
         \/ \E op \in Ops, row \in Rows \cup {NoRow} : Write(t, op, row)
         \/ \E path \in Paths, delta_scan \in BOOLEAN : PlanScan(t, path, delta_scan)
         \/ PushRows(t) \/ FinishBuild(t) \/ AttachTree(t) \/ AddIndex(t) \/ FailBuild(t)
    \/ \E i \in DOMAIN indexes : DropIndex(i)
    \/ Query
    \/ Restart

Spec == Init /\ [][Next]_vars

-----------------------------------------------------------------------------
(* No index rots: unless a DELETE or UPDATE was pending while it was       *)
(* built, the rows its build streamed are in the table as they were, and   *)
(* the table has others only under delta_scan or if an INSERT committed    *)
(* between the finalize scan and the list entry -- also when an INSERT was *)
(* planned before the index existed, and across drops and restarts.        *)
IndexesCoverTable ==
    \A i \in DOMAIN indexes :
        LET ix   == indexes[i]
            tree == ix.built.rows
        IN
        "raced" \notin ix.past =>
            /\ tree \subseteq table
            /\ ix.delta_scan \/ "overtaken" \in ix.past \/ tree = table

(* The fence is in time: the commit of an INSERT fails only on an index    *)
(* created after the statement was planned, never on one the fence saw.    *)
FenceSparesCommits ==
    [][\A t \in Txns : CommitVetoed(t) =>
          \E i \in DOMAIN indexes :
              ~indexes[i].delta_scan /\ indexes[i].built.uuid \notin txn[t].planned]_vars

(* SextantIndex::Delete is unreachable, the comment on it says; it is,     *)
(* unless an index was built under a pending DELETE or UPDATE, or an       *)
(* INSERT between its scans made up for deleted rows that still awaited    *)
(* their cleanup: without one, such rows fail the build.                   *)
DeleteOnlyIfRaced ==
    [][fatal' => fatal \/ \E i \in DOMAIN indexes' :
                              indexes'[i].past \cap {"raced", "masked"} # {}]_vars

(* An index answers from the tree of its own build, whatever other indexes *)
(* were built on its path or dropped from it, before or after a restart,   *)
(* unless another build wrote over it before it was attached, or a replay  *)
(* had no blob with its identity.                                          *)
AnswersFromOwnTree ==
    last.op = "index" =>
        LET ix == indexes[last.by] IN
        ix.handle = ix.built \/ ix.past \cap {"overwritten", "forgotten"} # {}

(* The engine numbers the rows it gets; they have these numbers for row    *)
(* ids only if no row before them is missing.                              *)
Gapless(tree) == \A r \in tree : Place(r, tree) = r[1]

(* A transaction without writes of its own that sees the table as it is    *)
(* gets it, each row by its row id, from any index that answers from its   *)
(* own tree, unless that has gaps, a DELETE or UPDATE raced its build, or  *)
(* it has no delta_scan and an INSERT overtook its build.                  *)
AnswersFromSnapshot ==
    last.op = "index" =>
        LET ix == indexes[last.by] IN
        \/ ix.handle # ix.built \/ ~Gapless(ix.built.rows)
        \/ ix.past \cap {"raced", "overtaken"} # {}
        \/ \A t \in Txns : txn[t].open /\ txn[t].op = "none" /\ txn[t].snap = table =>
               last.rows = {<<r[1], r>> : r \in txn[t].snap}

=============================================================================
