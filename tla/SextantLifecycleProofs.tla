----------------------- MODULE SextantLifecycleProofs -----------------------
(***************************************************************************)
(* Proofs about SextantLifecycle, for any trees, any foreign files and any *)
(* number of rows: across checkpoints, crashes, restarts and files swapped *)
(* under the entry, what is served is the tree the index was created on,   *)
(* what answers covers the table, a checkpoint stores the identity,        *)
(* nothing but a DROP deletes the sidecar of an index, and the right file  *)
(* at the path is served.  Then, from what each kind of step does to the   *)
(* identities, that a checkpointed one is for life, and that the whole     *)
(* implements DurableIdentity.                                             *)
(***************************************************************************)
EXTENDS SextantLifecycle, TLAPS

USE LifecycleAssumption, UuidAssumption

(* A handle is of a tree with the instance's identity, or with none.       *)
Linked(i) == i.handle # NoTree => i.handle.uuid \in {NoUuid, i.tree_uuid}

LinkedInv == Linked(inst)

(* An identity, of the blob or the instance, is the created tree's, unless *)
(* that had none or the entry was rebuilt from its options.                *)
IsCreated(uuid) == forgotten \/ created.uuid \in {NoUuid, uuid}

(* The trees there are: those built here, whose UUIDs tell them apart, and *)
(* those from elsewhere.                                                   *)
Available == built \cup Foreign
KnownInv ==
    /\ \A b \in built : b.uuid \in Trees
    /\ \A b, c \in built : b.uuid = c.uuid => b = c
    /\ {sidecar, inst.handle, created} \subseteq Available \cup {NoTree}

(* What the catalog's entry says, durably, of tree and table.              *)
StoredInv ==
    stored # NoEntry =>
        /\ stage \in {"idle", "rebuilding"}
        /\ created # NoTree
        /\ IsCreated(stored.uuid)
        /\ stored.n_build <= rows
        /\ ~forgotten => stored.n_build = created.rows
        /\ ~stored.delta_scan => rows = created.rows

(* What the instance constructed from the entry says of them.              *)
InstanceInv ==
    stored # NoEntry /\ up =>
        /\ IsCreated(inst.tree_uuid)
        /\ inst.n_build <= rows
        /\ ~forgotten => inst.n_build = created.rows
        /\ inst.delta_scan = stored.delta_scan

(* A checkpoint that has yet to rebuild has serialized the instance.       *)
RebuildInv ==
    stage = "rebuilding" =>
        up /\ stored # NoEntry /\ inst.bound /\ inst.serialized_this_generation

(* Between the build and the commit of a CREATE the table cannot change.   *)
CreatingInv ==
    stage = "creating" =>
        /\ up
        /\ inst.handle = NoTree
        /\ inst.tree_uuid = NoUuid
        /\ inst.n_build = rows

IInv == /\ TypeOK
        /\ LinkedInv
        /\ KnownInv
        /\ StoredInv
        /\ InstanceInv
        /\ RebuildInv
        /\ CreatingInv
        /\ ServedTreeIsCreatedTree
        /\ AnswersCoverTable
        /\ CheckpointKeepsIdentity

(* The parts that speak of the entry.                                      *)
EntryInv == /\ LinkedInv
            /\ KnownInv
            /\ StoredInv
            /\ InstanceInv
            /\ RebuildInv
            /\ CreatingInv

-----------------------------------------------------------------------------
(* What attaching and binding keep of an instance: all that it says of the *)
(* entry, an identity once it has one, and the link of its handle to it.   *)
Keeps(i, a) ==
    /\ a \in Instance
    /\ a.n_build = i.n_build
    /\ a.delta_scan = i.delta_scan
    /\ a.serialized_this_generation = i.serialized_this_generation
    /\ i.tree_uuid # NoUuid => a.tree_uuid = i.tree_uuid
    /\ Linked(i) => Linked(a)
    /\ a.handle \in {i.handle, sidecar}
    /\ i.bound => a.bound

(* A UUID that is not empty tells a tree from all others.                  *)
LEMMA SameTree ==
    ASSUME KnownInv, NEW t \in Available, NEW u \in Available,
           t.uuid = u.uuid, t.uuid # NoUuid
    PROVE  t = u
BY DEF KnownInv, Available

(* A tree's identity is one.                                               *)
LEMMA TreeUuid == \A t \in Tree : t.uuid \in Uuid
BY DEF Tree, Uuid

(* The instance a statement begins with when there is none.                *)
LEMMA NoInstanceType ==
    /\ NoInstance \in Instance
    /\ NoInstance.handle = NoTree /\ NoInstance.tree_uuid = NoUuid /\ ~NoInstance.bound
BY DEF NoInstance, Instance, Uuid

(* Attaching keeps the entry.                                              *)
LEMMA AttachKeeps ==
    ASSUME TypeOK, NEW i \in Instance
    PROVE  Keeps(i, AttachAndVerify(i)) /\ AttachAndVerify(i).bound = i.bound
<1>1. CASE i.handle # NoTree \/ ~CanAttach(i)
    BY <1>1 DEF AttachAndVerify, AttachThrows, Keeps
<1>2. CASE i.handle = NoTree /\ CanAttach(i)
    <2> DEFINE uuid == IF i.tree_uuid = NoUuid THEN sidecar.uuid ELSE i.tree_uuid
               a == [i EXCEPT !.handle = sidecar, !.tree_uuid = uuid]
    <2>1. sidecar \in Tree /\ sidecar.uuid \in Uuid
        BY <1>2, TreeUuid DEF TypeOK, CanAttach
    <2>2. AttachAndVerify(i) = a
        BY <1>2 DEF AttachAndVerify, AttachThrows
    <2>3. uuid \in Uuid /\ sidecar.uuid \in {NoUuid, uuid}
        BY <1>2, <2>1 DEF CanAttach, Instance
    <2>4. i.tree_uuid # NoUuid => uuid = i.tree_uuid
        OBVIOUS
    <2> HIDE DEF uuid
    <2>5. /\ a \in Instance /\ a.handle = sidecar /\ a.tree_uuid = uuid
          /\ a.n_build = i.n_build /\ a.delta_scan = i.delta_scan /\ a.bound = i.bound
          /\ a.serialized_this_generation = i.serialized_this_generation
        BY <2>1, <2>3 DEF Instance
    <2> HIDE DEF a
    <2> QED
        BY <2>2, <2>3, <2>4, <2>5 DEF Keeps, Linked
<1> QED
    BY <1>1, <1>2

(* So does constructing the instance at load, whether the attach threw or  *)
(* not.                                                                    *)
LEMMA CreateKeeps ==
    ASSUME TypeOK, NEW i \in Instance
    PROVE  Keeps(i, CreateInstance(i)) /\ CreateInstance(i).bound
<1>1. CASE AttachThrows(i)
    <2> DEFINE b == [i EXCEPT !.bound = TRUE, !.sidecar_unusable = TRUE]
    <2>1. /\ b \in Instance /\ b.handle = i.handle /\ b.tree_uuid = i.tree_uuid
          /\ b.n_build = i.n_build /\ b.delta_scan = i.delta_scan /\ b.bound
          /\ b.serialized_this_generation = i.serialized_this_generation
        BY DEF Instance
    <2>2. CreateInstance(i) = b
        BY <1>1 DEF CreateInstance
    <2> HIDE DEF b
    <2> QED
        BY <2>1, <2>2 DEF Keeps, Linked
<1>2. CASE ~AttachThrows(i)
    <2> DEFINE a == AttachAndVerify(i)
               b == [a EXCEPT !.bound = TRUE]
    <2>1. Keeps(i, a)
        BY AttachKeeps
    <2>2. CreateInstance(i) = b
        BY <1>2 DEF CreateInstance
    <2> HIDE DEF a
    <2>3. /\ b \in Instance /\ b.handle = a.handle /\ b.tree_uuid = a.tree_uuid
          /\ b.n_build = a.n_build /\ b.delta_scan = a.delta_scan /\ b.bound
          /\ b.serialized_this_generation = a.serialized_this_generation
        BY <2>1 DEF Keeps, Instance
    <2> HIDE DEF b
    <2> QED
        BY <2>1, <2>2, <2>3 DEF Keeps, Linked
<1> QED
    BY <1>1, <1>2

(* And binding, whether or not the instance was already constructed.       *)
LEMMA BoundKeeps ==
    ASSUME TypeOK
    PROVE  Keeps(inst, BoundIndex) /\ BoundIndex.bound
<1>1. inst \in Instance
    BY DEF TypeOK
<1> QED
    BY <1>1, CreateKeeps DEF BoundIndex, Keeps

(* A statement that attaches again after binding.                          *)
LEMMA AgainKeeps ==
    ASSUME TypeOK
    PROVE  Keeps(inst, AttachAndVerify(BoundIndex)) /\ AttachAndVerify(BoundIndex).bound
<1>1. Keeps(inst, BoundIndex) /\ BoundIndex.bound
    BY BoundKeeps
<1>2. Keeps(BoundIndex, AttachAndVerify(BoundIndex)) /\ AttachAndVerify(BoundIndex).bound
    BY <1>1, AttachKeeps DEF Keeps
<1> QED
    BY <1>1, <1>2 DEF Keeps

(* A report carries what the instance has.                                 *)
LEMMA ReportFacts ==
    ASSUME NEW i \in Instance, NEW ok \in BOOLEAN,
           NEW op \in {"none", "create", "checkpoint", "drop", "topk", "query", "write"}
    PROVE  /\ Report(op, ok, i) \in Outcome
           /\ Report(op, ok, i).op = op /\ Report(op, ok, i).ok = ok
           /\ Report(op, ok, i).tree = i.handle
           /\ Report(op, ok, i).n_build = i.n_build
           /\ Report(op, ok, i).delta_scan = i.delta_scan
BY DEF Report, Outcome, Instance

(* Nothing is such an outcome.                                             *)
LEMMA NothingFacts == Nothing \in Outcome /\ Nothing.op = "none"
BY NoInstanceType, ReportFacts DEF Nothing

-----------------------------------------------------------------------------
(* The steps.  Only queries and checkpoints have an outcome that the       *)
(* properties speak of.                                                    *)
AnsweredInv == ServedTreeIsCreatedTree /\ AnswersCoverTable /\ CheckpointKeepsIdentity

(* Other steps leave nothing to say.                                       *)
LEMMA QuietKeeps ==
    ASSUME last'.op \notin {"topk", "query", "checkpoint"}
    PROVE  AnsweredInv'
BY DEF AnsweredInv, ServedTreeIsCreatedTree, AnswersCoverTable, CheckpointKeepsIdentity

(* Working with what Keeps keeps is as good as working with the instance.  *)
LEMMA KeptEntry ==
    ASSUME IInv, NEW j, Keeps(inst, j), inst' = j, stage # "creating",
           UNCHANGED <<sidecar, built, stored, rows, up, stage, created, forgotten>>
    PROVE  EntryInv' /\ (stored # NoEntry /\ up => IsCreated(j.tree_uuid))
<1>1. LinkedInv' /\ KnownInv' /\ RebuildInv'
    BY DEF IInv, LinkedInv, Linked, KnownInv, Available, RebuildInv, Keeps
<1>2. StoredInv' /\ CreatingInv'
    BY DEF IInv, StoredInv, CreatingInv, IsCreated
<1>3. InstanceInv' /\ (stored # NoEntry /\ up => IsCreated(j.tree_uuid))
    BY DEF IInv, InstanceInv, Keeps, IsCreated
<1> QED
    BY <1>1, <1>2, <1>3 DEF EntryInv

(* There is no index at first.                                             *)
LEMMA InitHolds == Init => IInv
<1> SUFFICES ASSUME Init PROVE IInv
    OBVIOUS
<1>1. TypeOK
    <2>1. sidecar \in Tree \cup {NoTree} /\ rows \in 0 .. MaxRows
        BY DEF Init, Tree
    <2> QED
        BY <2>1, NoInstanceType, NothingFacts DEF Init, TypeOK
<1>2. EntryInv
    BY NoInstanceType DEF Init, EntryInv, LinkedInv, Linked, KnownInv, Available,
           StoredInv, InstanceInv, RebuildInv, CreatingInv
<1>3. ServedTreeIsCreatedTree /\ AnswersCoverTable /\ CheckpointKeepsIdentity
    BY NothingFacts
       DEF Init, ServedTreeIsCreatedTree, AnswersCoverTable, CheckpointKeepsIdentity
<1> QED
    BY <1>1, <1>2, <1>3 DEF IInv, EntryInv

(* A build writes a tree of all the table's rows.                          *)
LEMMA WriteSidecarKeeps ==
    ASSUME IInv, NEW delta \in BOOLEAN, WriteSidecar(delta)
    PROVE  IInv'
<1> DEFINE j == [NoInstance EXCEPT !.n_build = rows, !.delta_scan = delta]
<1>0. TypeOK /\ rows \in 0 .. MaxRows /\ KnownInv
    BY DEF IInv, TypeOK
<1>1. inst' = j
    BY DEF WriteSidecar
<1>2. /\ j \in Instance /\ ~j.bound /\ j.handle = NoTree /\ j.tree_uuid = NoUuid
      /\ j.n_build = rows
    BY <1>0 DEF NoInstance, Instance, Uuid
<1> HIDE DEF j
<1>3. /\ sidecar' \in Tree \cup {NoTree} /\ built' \subseteq Tree
      /\ \A b \in built' : b.uuid \in Trees
      /\ \A b, c \in built' : b.uuid = c.uuid => b = c
      /\ built \subseteq built' /\ sidecar' \in built' \cup {sidecar}
    <2>1. CASE UNCHANGED <<sidecar, built>>
        BY <1>0, <2>1 DEF TypeOK, KnownInv
    <2>2. CASE ~UNCHANGED <<sidecar, built>>
        <3>1. PICK u \in Trees \ {b.uuid : b \in built} :
                  /\ sidecar' = [uuid |-> u, rows |-> rows]
                  /\ built' = built \cup {[uuid |-> u, rows |-> rows]}
            BY <2>2 DEF WriteSidecar
        <3>2. [uuid |-> u, rows |-> rows] \in Tree /\ \A b \in built : b.uuid # u
            BY <1>0 DEF Tree
        <3> QED
            BY <1>0, <3>1, <3>2 DEF TypeOK, KnownInv
    <2> QED
        BY <2>1, <2>2
<1>4. /\ stored = NoEntry /\ up /\ stage' = "creating" /\ last' = Nothing
      /\ UNCHANGED <<stored, rows, up, created, forgotten>>
    BY DEF WriteSidecar, Ready
<1>5. TypeOK'
    BY <1>0, <1>1, <1>2, <1>3, <1>4, NothingFacts DEF TypeOK
<1>6. EntryInv'
    BY <1>0, <1>1, <1>2, <1>3, <1>4
       DEF EntryInv, LinkedInv, Linked, KnownInv, Available, StoredInv, InstanceInv, RebuildInv,
           CreatingInv
<1>7. AnsweredInv'
    BY <1>4, NothingFacts, QuietKeeps
<1> QED
    BY <1>5, <1>6, <1>7 DEF IInv, EntryInv, AnsweredInv

(* The commit of a CREATE stores the identity of the tree it attached.     *)
LEMMA CommitCreateKeeps ==
    ASSUME IInv, CommitCreate
    PROVE  IInv'
<1> DEFINE i == AttachAndVerify(inst)
           j == [i EXCEPT !.bound = TRUE, !.serialized_this_generation = TRUE]
           blob == [uuid |-> i.tree_uuid, n_build |-> i.n_build,
                    delta_scan |-> i.delta_scan, place |-> "wal"]
<1>0. /\ TypeOK /\ inst \in Instance /\ Linked(inst) /\ inst.n_build = rows /\ up
      /\ KnownInv
    BY DEF IInv, TypeOK, LinkedInv, CreatingInv, CommitCreate
<1>1. Keeps(inst, i)
    BY <1>0, AttachKeeps
<1>2. /\ i.handle # NoTree /\ i.handle.rows = i.n_build /\ stored' = blob /\ inst' = j
      /\ created' = i.handle /\ forgotten' = FALSE /\ stage' = "idle"
      /\ last' = Report("create", TRUE, i)
      /\ UNCHANGED <<sidecar, built, rows, up>>
    BY DEF CommitCreate, TreeCounts
<1> HIDE DEF i
<1>3. i \in Instance /\ i.n_build = rows /\ i.handle.uuid \in {NoUuid, i.tree_uuid}
    BY <1>0, <1>1, <1>2 DEF Keeps, Linked
<1>4. i.handle \in Tree /\ i.delta_scan \in BOOLEAN
    BY <1>2, <1>3 DEF Instance
<1>5. /\ j \in Instance /\ j.handle = i.handle /\ j.tree_uuid = i.tree_uuid
      /\ j.n_build = i.n_build /\ j.delta_scan = i.delta_scan
    BY <1>3 DEF Instance
<1>6. /\ blob \in Blob /\ blob.uuid = i.tree_uuid /\ blob.n_build = rows
      /\ blob.delta_scan = i.delta_scan
    BY <1>3 DEF Instance, Blob
<1> HIDE DEF j, blob
<1>7. last' \in Outcome /\ last'.op = "create"
    BY <1>2, <1>3, ReportFacts
<1>8. TypeOK'
    BY <1>0, <1>2, <1>4, <1>5, <1>6, <1>7 DEF TypeOK
<1>9. LinkedInv' /\ InstanceInv' /\ RebuildInv' /\ CreatingInv'
    BY <1>0, <1>2, <1>3, <1>5, <1>6
    DEF LinkedInv, Linked, InstanceInv, RebuildInv, CreatingInv, IsCreated, TypeOK
<1>10. StoredInv'
    BY <1>0, <1>2, <1>3, <1>4, <1>6 DEF StoredInv, IsCreated, TypeOK
<1>11. KnownInv'
    BY <1>0, <1>1, <1>2, <1>5 DEF KnownInv, Available, Keeps
<1>12. AnsweredInv'
    BY <1>7, QuietKeeps
<1> QED
    BY <1>8, <1>9, <1>10, <1>11, <1>12 DEF IInv, EntryInv, AnsweredInv

(* A CREATE INDEX that fails leaves no entry behind.                       *)
LEMMA FailCreateKeeps ==
    ASSUME IInv, FailCreate
    PROVE  IInv'
<1>1. /\ stage' = "idle" /\ inst' = NoInstance /\ last' = Report("create", FALSE, NoInstance)
      /\ stored = NoEntry
      /\ UNCHANGED <<sidecar, built, stored, rows, up, created, forgotten>>
    BY DEF FailCreate, IInv, StoredInv
<1>2. last' \in Outcome /\ last'.op = "create"
    BY <1>1, NoInstanceType, ReportFacts
<1>3. TypeOK'
    BY <1>1, <1>2, NoInstanceType DEF IInv, TypeOK
<1>4. EntryInv'
    BY <1>1, NoInstanceType DEF IInv, EntryInv, LinkedInv, Linked, KnownInv, Available,
           StoredInv, InstanceInv, RebuildInv, CreatingInv
<1> QED
    BY <1>2, <1>3, <1>4, QuietKeeps DEF IInv, EntryInv, AnsweredInv

(* A checkpoint stores what the instance has.                              *)
LEMMA CheckpointKeeps ==
    ASSUME IInv, NEW rebuild \in BOOLEAN, Checkpoint(rebuild)
    PROVE  IInv'
<1> DEFINE b == BoundIndex
           i == Serialized(b)
           blob == PersistToDisk(i)
<1>0. /\ TypeOK /\ stored # NoEntry /\ up /\ stage = "idle" /\ KnownInv
    BY DEF IInv, Checkpoint, Ready
<1>1. Keeps(inst, b) /\ b.bound /\ b \in Instance
    BY <1>0, BoundKeeps DEF Keeps
<1>2. /\ stored' = blob /\ inst' = i /\ stage' \in {"idle", "rebuilding"}
      /\ last' = Report("checkpoint", TRUE, i)
      /\ UNCHANGED <<sidecar, built, rows, up, created, forgotten>>
    BY DEF Checkpoint
<1> HIDE DEF b
<1>3. /\ i \in Instance /\ i.handle = b.handle /\ i.tree_uuid = b.tree_uuid
      /\ i.n_build = b.n_build /\ i.delta_scan = b.delta_scan /\ i.bound
      /\ i.serialized_this_generation
    BY <1>1 DEF Serialized, Instance
<1> HIDE DEF i
<1>4. /\ blob \in Blob /\ blob.uuid = b.tree_uuid /\ blob.n_build = b.n_build
      /\ blob.delta_scan = b.delta_scan
    BY <1>3 DEF PersistToDisk, Blob, Instance
<1> HIDE DEF blob
<1>5. last' \in Outcome /\ last'.op = "checkpoint" /\ last'.tree = b.handle
    BY <1>2, <1>3, ReportFacts
<1>6. TypeOK'
    BY <1>0, <1>2, <1>3, <1>4, <1>5 DEF TypeOK
<1>7. /\ Linked(b) /\ IsCreated(b.tree_uuid) /\ b.n_build <= rows
      /\ b.delta_scan = stored.delta_scan /\ created # NoTree
      /\ ~forgotten => b.n_build = created.rows
      /\ ~stored.delta_scan => rows = created.rows
    BY <1>0, <1>1 DEF IInv, LinkedInv, Keeps, InstanceInv, StoredInv, IsCreated
<1>8. LinkedInv' /\ InstanceInv' /\ RebuildInv' /\ CreatingInv'
    BY <1>0, <1>2, <1>3, <1>4, <1>6, <1>7
       DEF LinkedInv, Linked, InstanceInv, RebuildInv, CreatingInv, IsCreated, TypeOK
<1>9. StoredInv' /\ KnownInv'
    BY <1>0, <1>1, <1>2, <1>3, <1>4, <1>7 DEF StoredInv, IsCreated, KnownInv, Available, Keeps
<1>10. AnsweredInv'
    BY <1>2, <1>3, <1>4, <1>5, <1>7
       DEF AnsweredInv, ServedTreeIsCreatedTree, AnswersCoverTable,
           CheckpointKeepsIdentity, Linked
<1> QED
    BY <1>6, <1>8, <1>9, <1>10 DEF IInv, EntryInv, AnsweredInv

(* Its rebuild finds the instance serialized: ResetStorage leaves the tree *)
(* alone, and its handle.                                                  *)
LEMMA RebuildKeeps ==
    ASSUME IInv, RebuildIndexes
    PROVE  /\ IInv' /\ sidecar' = sidecar
           /\ inst'.handle = inst.handle /\ inst'.tree_uuid = inst.tree_uuid
<1> DEFINE r == [inst EXCEPT !.serialized_this_generation = FALSE]
<1>1. /\ TypeOK /\ up /\ stored # NoEntry /\ inst.bound /\ inst.serialized_this_generation
      /\ inst \in Instance
    BY DEF IInv, TypeOK, RebuildInv, RebuildIndexes
<1>2. /\ inst' = r /\ sidecar' = sidecar /\ stage' = "idle" /\ last' = Nothing
      /\ UNCHANGED <<built, stored, rows, up, created, forgotten>>
    BY <1>1 DEF RebuildIndexes, ResetStorage
<1>3. /\ r \in Instance /\ r.handle = inst.handle /\ r.tree_uuid = inst.tree_uuid
      /\ r.n_build = inst.n_build /\ r.delta_scan = inst.delta_scan /\ r.bound
    BY <1>1 DEF Instance
<1> HIDE DEF r
<1>4. TypeOK'
    BY <1>1, <1>2, <1>3, NothingFacts DEF TypeOK
<1>5. EntryInv'
    BY <1>1, <1>2, <1>3
       DEF IInv, EntryInv, LinkedInv, Linked, KnownInv, Available, StoredInv, InstanceInv,
           RebuildInv, CreatingInv, IsCreated
<1>6. AnsweredInv'
    BY <1>2, NothingFacts, QuietKeeps
<1> QED
    BY <1>2, <1>3, <1>4, <1>5, <1>6 DEF IInv, EntryInv, AnsweredInv

(* DROP INDEX takes the entry out of the catalog, then runs ResetStorage.  *)
LEMMA CommitDropKeeps ==
    ASSUME IInv, CommitDrop
    PROVE  IInv'
<1>1. /\ TypeOK /\ Keeps(inst, BoundIndex) /\ up /\ inst' = BoundIndex
      /\ stored' = NoEntry /\ stage' = "dropping" /\ last' = Nothing
      /\ UNCHANGED <<sidecar, built, rows, up, created, forgotten>>
    BY BoundKeeps DEF IInv, CommitDrop, Ready
<1>2. inst' \in Instance /\ LinkedInv'
    BY <1>1 DEF IInv, LinkedInv, Keeps, Linked
<1>3. TypeOK'
    BY <1>1, <1>2, NothingFacts DEF TypeOK
<1>4. StoredInv' /\ InstanceInv' /\ RebuildInv' /\ CreatingInv'
    BY <1>1 DEF StoredInv, InstanceInv, RebuildInv, CreatingInv
<1>5. KnownInv'
    BY <1>1 DEF IInv, KnownInv, Available, Keeps
<1> QED
    BY <1>1, <1>2, <1>3, <1>4, <1>5, NothingFacts, QuietKeeps DEF IInv, EntryInv, AnsweredInv

(* A DROP INDEX that commits leaves nothing to be served.                  *)
LEMMA FinishDropKeeps ==
    ASSUME IInv, FinishDrop
    PROVE  IInv' /\ stored = NoEntry
<1>1. /\ up /\ stored = NoEntry /\ sidecar' \in {sidecar, NoTree} /\ inst' = NoInstance
      /\ stage' = "idle" /\ created' = NoTree /\ last' = Report("drop", TRUE, NoInstance)
      /\ UNCHANGED <<built, stored, rows, up, forgotten>>
    BY DEF FinishDrop, IInv, StoredInv
<1>2. last' \in Outcome /\ last'.op = "drop"
    BY <1>1, NoInstanceType, ReportFacts
<1>3. TypeOK'
    BY <1>1, <1>2, NoInstanceType DEF IInv, TypeOK
<1>4. EntryInv'
    BY <1>1, NoInstanceType DEF IInv, EntryInv, LinkedInv, Linked, KnownInv, Available,
           StoredInv, InstanceInv, RebuildInv, CreatingInv
<1> QED
    BY <1>1, <1>2, <1>3, <1>4, QuietKeeps DEF IInv, EntryInv, AnsweredInv

(* A query answers with what it has bound: from the created tree, over all *)
(* of the table.                                                           *)
LEMMA QueryKeeps ==
    ASSUME IInv, NEW j, NEW op \in {"topk", "query"},
           Keeps(inst, j), j.bound, Open, stored # NoEntry,
           inst' = j, last' = Report(op, Answers(j), j),
           UNCHANGED <<sidecar, built, stored, rows, up, stage, created, forgotten>>
    PROVE  IInv'
<1>1. TypeOK /\ up /\ stage # "creating" /\ j \in Instance /\ Answers(j) \in BOOLEAN
    BY DEF IInv, Open, Keeps, Answers
<1>2. /\ last' \in Outcome /\ last'.op = op /\ last'.ok = Answers(j) /\ last'.tree = j.handle
      /\ last'.n_build = j.n_build /\ last'.delta_scan = j.delta_scan
    BY <1>1, ReportFacts
<1>3. EntryInv' /\ IsCreated(j.tree_uuid)
    BY <1>1, KeptEntry
<1>4. TypeOK'
    BY <1>1, <1>2 DEF TypeOK
<1>5. ServedTreeIsCreatedTree'
    <2>1. SUFFICES ASSUME Answers(j), ~forgotten
                   PROVE  \/ j.handle.uuid = created.uuid
                          \/ NoUuid \in {j.handle.uuid, created.uuid}
        BY <1>2 DEF ServedTreeIsCreatedTree
    <2>2. j.handle # NoTree
        BY <2>1 DEF Answers
    <2>3. j.handle.uuid \in {NoUuid, j.tree_uuid}
        BY <1>3, <2>2 DEF EntryInv, LinkedInv, Linked
    <2> QED
        BY <1>3, <2>1, <2>3 DEF IsCreated
<1>6. AnswersCoverTable'
    <2>1. SUFFICES ASSUME Answers(j), j.delta_scan \/ Identified'
                   PROVE  /\ TreeRows' \cap WindowRows' = {}
                          /\ TreeRows' \cup WindowRows' = 0 .. rows' - 1
        BY <1>2 DEF AnswersCoverTable
    <2>2. j.handle # NoTree /\ j.n_build \in Nat /\ rows \in Nat
        BY <1>1, <2>1 DEF Answers, Instance, TypeOK
    <2>3. CASE j.delta_scan
        <3>1. j.handle.rows = j.n_build /\ j.n_build <= rows
            BY <1>1, <1>3, <2>1, <2>3 DEF Answers, EntryInv, InstanceInv
        <3> QED
            BY <1>2, <2>2, <2>3, <3>1 DEF TreeRows, WindowRows
    <2>4. CASE ~j.delta_scan
        <3>1. ~forgotten /\ NoUuid \notin {j.handle.uuid, created.uuid}
            BY <1>2, <2>1, <2>4 DEF Identified
        <3>2. j.handle.uuid = created.uuid
            BY <1>2, <1>5, <2>1, <3>1 DEF ServedTreeIsCreatedTree
        <3>3. /\ j.handle \in Available /\ created \in Available /\ KnownInv
              /\ rows = created.rows
            BY <1>1, <1>3, <2>2, <2>4
               DEF IInv, EntryInv, KnownInv, Available, StoredInv, InstanceInv
        <3>4. j.handle = created
            BY <3>1, <3>2, <3>3, SameTree
        <3> QED
            BY <1>2, <2>2, <2>4, <3>3, <3>4 DEF TreeRows, WindowRows
    <2> QED
        BY <2>3, <2>4
<1>7. CheckpointKeepsIdentity'
    BY <1>2 DEF CheckpointKeepsIdentity
<1> QED
    BY <1>3, <1>4, <1>5, <1>6, <1>7 DEF IInv, EntryInv

(* A rewritten top-k query answers from the tree it has attached.          *)
LEMMA TopKQueryKeeps ==
    ASSUME IInv, TopKQuery
    PROVE  IInv'
<1>1. TypeOK
    BY DEF IInv
<1> QED
    BY <1>1, BoundKeeps, QueryKeeps DEF TopKQuery

(* So does sextant_query, which attaches again.                            *)
LEMMA SextantQueryKeeps ==
    ASSUME IInv, SextantQuery
    PROVE  IInv'
<1>1. TypeOK
    BY DEF IInv
<1> QED
    BY <1>1, AgainKeeps, QueryKeeps DEF SextantQuery

(* Writes of an indexed table only ever add rows, and only under           *)
(* delta_scan.                                                             *)
LEMMA WriteKeeps ==
    ASSUME IInv, NEW allowed \in BOOLEAN, NEW count \in 0 .. MaxRows,
           Write(allowed, count),
           allowed /\ stored # NoEntry => count >= rows /\ BoundIndex.delta_scan
    PROVE  IInv'
<1> DEFINE j == IF stored = NoEntry THEN inst ELSE BoundIndex
<1>1. /\ TypeOK /\ up /\ stage \in {"idle", "rebuilding"} /\ rows \in Nat /\ count \in Nat
      /\ inst \in Instance /\ inst' = j
      /\ rows' = IF allowed THEN count ELSE rows
      /\ last' = Report("write", allowed, NoInstance)
      /\ UNCHANGED <<sidecar, built, stored, up, stage, created, forgotten>>
    BY DEF IInv, TypeOK, Write, Open
<1>2. Keeps(inst, j) /\ (j.bound => stored # NoEntry \/ inst.bound)
    BY <1>1, BoundKeeps DEF Keeps
<1>3. last' \in Outcome /\ last'.op = "write"
    BY <1>1, NoInstanceType, ReportFacts
<1>4. stored # NoEntry => /\ Keeps(inst, BoundIndex)
                          /\ IsCreated(inst.tree_uuid) /\ inst.n_build <= rows
                          /\ (~forgotten => inst.n_build = created.rows)
                          /\ inst.delta_scan = stored.delta_scan
                          /\ BoundIndex.delta_scan = inst.delta_scan
    BY <1>1, BoundKeeps DEF IInv, InstanceInv, Keeps
<1> HIDE DEF j
<1>5. j \in Instance /\ Linked(j)
    BY <1>2 DEF Keeps, IInv, LinkedInv
<1>6. TypeOK'
    BY <1>1, <1>2, <1>3, <1>5 DEF TypeOK
<1>7. /\ rows' \in Nat
      /\ stored # NoEntry => rows' >= rows /\ (rows' # rows => stored.delta_scan)
    BY <1>1, <1>4
<1>8. LinkedInv' /\ KnownInv' /\ RebuildInv' /\ CreatingInv'
    BY <1>1, <1>2, <1>5
       DEF IInv, LinkedInv, Linked, KnownInv, Available, RebuildInv, CreatingInv, Keeps
<1>9. StoredInv'
    <2>1. stored # NoEntry => stored.n_build \in Nat
        BY <1>1 DEF TypeOK, Blob
    <2> QED
        BY <1>1, <1>7, <2>1 DEF IInv, StoredInv, IsCreated
<1>10. InstanceInv'
    <2>1. j.n_build \in Nat /\ j.n_build = inst.n_build /\ j.delta_scan = inst.delta_scan
        BY <1>2, <1>5 DEF Keeps, Instance
    <2>2. stored # NoEntry => IsCreated(j.tree_uuid)
        BY <1>2, <1>4 DEF Keeps, IsCreated
    <2> QED
        BY <1>1, <1>4, <1>7, <2>1, <2>2 DEF InstanceInv, IsCreated
<1> QED
    BY <1>3, <1>6, <1>8, <1>9, <1>10, QuietKeeps DEF IInv, EntryInv, AnsweredInv

(* A crash leaves what is durable.                                         *)
LEMMA CrashKeeps ==
    ASSUME IInv, Crash
    PROVE  IInv'
<1>1. /\ up' = FALSE /\ inst' = NoInstance /\ stage' = "idle" /\ last' = Nothing
      /\ created' = IF stored = NoEntry THEN NoTree ELSE created
      /\ UNCHANGED <<sidecar, built, stored, rows, forgotten>>
    BY DEF Crash
<1>2. TypeOK'
    BY <1>1, NoInstanceType, NothingFacts DEF IInv, TypeOK
<1>3. EntryInv'
    BY <1>1, NoInstanceType
       DEF IInv, EntryInv, LinkedInv, Linked, KnownInv, Available,
           StoredInv, InstanceInv, RebuildInv, CreatingInv, IsCreated
<1> QED
    BY <1>1, <1>2, <1>3, NothingFacts, QuietKeeps DEF IInv, EntryInv, AnsweredInv

(* A restart constructs the instance from the blob, or from the options    *)
(* alone and is then known to.                                             *)
LEMMA RestartKeeps ==
    ASSUME IInv, Restart
    PROVE  IInv'
<1>1. /\ up' = TRUE /\ last' = Nothing
      /\ UNCHANGED <<sidecar, built, stored, rows, stage, created>>
    BY DEF Restart
<1>2. CASE stored = NoEntry /\ UNCHANGED <<inst, forgotten>>
    <2>1. TypeOK'
        BY <1>1, <1>2, NothingFacts DEF IInv, TypeOK
    <2>2. EntryInv'
        BY <1>1, <1>2 DEF IInv, EntryInv, LinkedInv, Linked, KnownInv, Available,
           StoredInv, InstanceInv, RebuildInv, CreatingInv
    <2> QED
        BY <1>1, <2>1, <2>2, NothingFacts, QuietKeeps DEF IInv, EntryInv, AnsweredInv
<1>3. CASE stored # NoEntry /\ inst' \in {FromBlob, FromOptions}
               /\ ((inst' = FromBlob /\ UNCHANGED forgotten) \/ forgotten' = TRUE)
    <2>1. /\ stored \in Blob /\ stage \in {"idle", "rebuilding"} /\ rows \in Nat /\ ~up
        BY <1>3 DEF IInv, TypeOK, StoredInv, Restart
    <2>2. /\ FromBlob \in Instance /\ FromBlob.handle = NoTree /\ ~FromBlob.bound
          /\ FromBlob.tree_uuid = stored.uuid /\ FromBlob.n_build = stored.n_build
          /\ FromBlob.delta_scan = stored.delta_scan
        BY <2>1 DEF FromBlob, NoInstance, Instance, Blob
    <2>3. /\ FromOptions \in Instance /\ FromOptions.handle = NoTree /\ ~FromOptions.bound
          /\ FromOptions.n_build = 0 /\ FromOptions.delta_scan = stored.delta_scan
        BY <2>1, NoInstanceType DEF FromOptions, NoInstance, Instance, Blob
    <2>4. TypeOK'
        BY <1>1, <1>3, <2>2, <2>3, NothingFacts DEF IInv, TypeOK
    <2>5. LinkedInv' /\ KnownInv' /\ RebuildInv' /\ CreatingInv'
        BY <1>1, <1>3, <2>1, <2>2, <2>3
           DEF IInv, LinkedInv, Linked, KnownInv, Available, RebuildInv, CreatingInv
    <2>6. StoredInv'
        BY <1>1, <1>3 DEF IInv, StoredInv, IsCreated
    <2>7. InstanceInv'
        BY <1>1, <1>3, <2>1, <2>2, <2>3 DEF IInv, StoredInv, InstanceInv, IsCreated
    <2> QED
        BY <1>1, <2>4, <2>5, <2>6, <2>7, NothingFacts, QuietKeeps DEF IInv, EntryInv, AnsweredInv
<1> QED
    BY <1>2, <1>3 DEF Restart

(* What others do to the file is in nobody's memory.                       *)
LEMMA TouchFileKeeps ==
    ASSUME IInv, TouchFile
    PROVE  IInv'
<1>1. /\ sidecar' \in Tree \cup {NoTree} /\ sidecar' \in Available \cup {NoTree}
      /\ last' = Nothing
      /\ UNCHANGED <<built, stored, rows, up, stage, inst, created, forgotten>>
    BY DEF TouchFile, IInv, TypeOK, Tree, Available
<1>2. TypeOK'
    BY <1>1, NothingFacts DEF IInv, TypeOK
<1>3. EntryInv'
    BY <1>1 DEF IInv, EntryInv, LinkedInv, Linked, KnownInv, Available,
           StoredInv, InstanceInv, RebuildInv, CreatingInv, IsCreated
<1> QED
    BY <1>1, <1>2, <1>3, NothingFacts, QuietKeeps DEF IInv, EntryInv, AnsweredInv

-----------------------------------------------------------------------------
(* The invariant is one, and no step but TouchFile's takes the sidecar     *)
(* from under an entry.                                                    *)
LEMMA StepKeeps ==
    ASSUME IInv, Next
    PROVE  IInv' /\ (sidecar' # sidecar => TouchFile \/ stored = NoEntry)
<1>1. ASSUME NEW delta \in BOOLEAN, WriteSidecar(delta) PROVE IInv' /\ stored = NoEntry
    BY <1>1, WriteSidecarKeeps DEF WriteSidecar
<1>2. CASE CommitCreate
    BY <1>2, CommitCreateKeeps DEF CommitCreate
<1>3. CASE FailCreate
    BY <1>3, FailCreateKeeps DEF FailCreate
<1>4. ASSUME NEW rebuild \in BOOLEAN, Checkpoint(rebuild) PROVE IInv' /\ sidecar' = sidecar
    BY <1>4, CheckpointKeeps DEF Checkpoint
<1>5. CASE CommitDrop
    BY <1>5, CommitDropKeeps DEF CommitDrop
<1>6. CASE FinishDrop
    BY <1>6, FinishDropKeeps
<1>7. CASE TopKQuery
    BY <1>7, TopKQueryKeeps DEF TopKQuery
<1>8. CASE SextantQuery
    BY <1>8, SextantQueryKeeps DEF SextantQuery
<1>9. rows \in 0 .. MaxRows
    BY DEF IInv, TypeOK
<1>10. CASE Insert
    <2>1. /\ Write(InsertAllowed, rows + 1) /\ rows + 1 \in 0 .. MaxRows /\ rows + 1 >= rows
          /\ InsertAllowed \in BOOLEAN
          /\ InsertAllowed /\ stored # NoEntry => BoundIndex.delta_scan
        BY <1>9, <1>10, BoundKeeps DEF Insert, InsertAllowed, IInv, Keeps, Instance
    <2> QED
        BY <2>1, WriteKeeps DEF Write
<1>11. CASE Delete
    <2>1. /\ Write(DeleteAllowed, rows - 1) /\ rows - 1 \in 0 .. MaxRows
          /\ DeleteAllowed \in BOOLEAN /\ (DeleteAllowed => stored = NoEntry)
        BY <1>9, <1>11 DEF Delete, DeleteAllowed
    <2> QED
        BY <2>1, WriteKeeps DEF Write
<1>12. CASE Crash
    BY <1>12, CrashKeeps DEF Crash
<1>13. CASE Restart
    BY <1>13, RestartKeeps DEF Restart
<1>14. CASE TouchFile
    BY <1>14, TouchFileKeeps
<1>15. CASE RebuildIndexes
    BY <1>15, RebuildKeeps
<1> QED
    BY <1>1, <1>2, <1>3, <1>4, <1>5, <1>6, <1>7, <1>8, <1>10, <1>11, <1>12, <1>13, <1>14, <1>15
       DEF Next

(* The invariant holds of every reachable state.                           *)
LEMMA Invariance == Spec => []IInv
<1>1. IInv /\ UNCHANGED vars => IInv'
    BY DEF vars, IInv, TypeOK, LinkedInv, Linked, KnownInv, Available, StoredInv,
           InstanceInv, RebuildInv, CreatingInv, IsCreated,
           ServedTreeIsCreatedTree, AnswersCoverTable, Identified, TreeRows, WindowRows,
           CheckpointKeepsIdentity
<1>2. IInv /\ [Next]_vars => IInv'
    BY <1>1, StepKeeps
<1> QED
    BY <1>2, InitHolds, PTL DEF Spec

-----------------------------------------------------------------------------
(* The file, the entry and the instance keep their types, and an instance  *)
(* is constructed only of an entry that is there.                          *)
THEOREM LifecycleTypeCorrect == Spec => []TypeOK
BY Invariance, PTL DEF IInv

(* Whatever is put at the path, and across any checkpoints, crashes and    *)
(* restarts, a query is answered from the tree the index was created on    *)
(* unless one of the two has no identity or the entry lost its blob.       *)
THEOREM CreatedTreeIsServed == Spec => []ServedTreeIsCreatedTree
BY Invariance, PTL DEF IInv

(* The tree that answers and the delta window cover each row of the table  *)
(* once; without delta_scan the tree has all of them, if it and the entry  *)
(* have the identities that tell it is the one the index was created on.   *)
THEOREM AnswersAreComplete == Spec => []AnswersCoverTable
BY Invariance, PTL DEF IInv

(* A checkpoint stores the identity of the tree attached.                  *)
THEOREM IdentityIsDurable == Spec => []CheckpointKeepsIdentity
BY Invariance, PTL DEF IInv

(* No checkpoint, failed statement, query, write, crash or restart deletes *)
(* or replaces the sidecar of an index in the catalog.                     *)
THEOREM SidecarIsKept == Spec => OnlyDropDeletes
<1>1. IInv /\ [Next]_vars => [sidecar' # sidecar => TouchFile \/ stored = NoEntry]_vars
    BY StepKeeps DEF vars
<1> QED
    BY <1>1, Invariance, PTL DEF Spec, OnlyDropDeletes

(* A sextant_query fails only if the file at the path is not the tree the  *)
(* index was created on, another was attached before, or the entry lost    *)
(* its blob: the failure of an earlier load is not one of the reasons.     *)
THEOREM RightFileAnswers == Spec => RightFileIsServed
<1>1. ASSUME IInv, SextantQuery, ~last'.ok, sidecar = created,
             inst.handle \in {NoTree, created}, ~forgotten
      PROVE  FALSE
    <2> DEFINE b == BoundIndex
               i == AttachAndVerify(b)
    <2>1. Keeps(inst, b) /\ Keeps(inst, i) /\ b \in Instance
        BY <1>1, BoundKeeps, AgainKeeps DEF IInv, Keeps
    <2>2. /\ stored # NoEntry /\ up /\ created # NoTree
          /\ created.uuid \in {NoUuid, inst.tree_uuid}
          /\ inst.n_build = created.rows
        BY <1>1 DEF SextantQuery, Open, IInv, StoredInv, InstanceInv, IsCreated
    <2>3. ~Answers(i)
        BY <1>1 DEF SextantQuery, Report
    <2>4. CASE b.handle = NoTree
        <3>1. CanAttach(b)
            BY <1>1, <2>1, <2>2 DEF CanAttach, Keeps
        <3>2. i.handle = sidecar
            BY <2>1, <2>4, <3>1 DEF AttachAndVerify, AttachThrows, Instance
        <3> QED
            BY <1>1, <2>1, <2>2, <2>3, <3>2 DEF Answers, Keeps
    <2>5. CASE b.handle # NoTree
        <3>1. i = b /\ b.handle = created
            BY <1>1, <2>1, <2>5 DEF AttachAndVerify, Keeps
        <3> QED
            BY <2>1, <2>2, <2>3, <3>1 DEF Answers, Keeps
    <2> QED
        BY <2>4, <2>5
<1>2. ASSUME [Next]_vars, last'.op = "query", ~UNCHANGED vars PROVE SextantQuery
    <2>1. ASSUME last' = Nothing PROVE FALSE
        BY <1>2, <2>1, NothingFacts
    <2>2. ASSUME NEW ok, NEW i, NEW op \in {"create", "checkpoint", "drop", "topk", "write"},
                 last' = Report(op, ok, i)
          PROVE  FALSE
        BY <1>2, <2>2 DEF Report
    <2>3. ~(\E delta \in BOOLEAN : WriteSidecar(delta)) /\ ~CommitCreate /\ ~FailCreate
        BY <2>1, <2>2 DEF WriteSidecar, CommitCreate, FailCreate
    <2>4. ~(\E rebuild \in BOOLEAN : Checkpoint(rebuild)) /\ ~RebuildIndexes
        BY <2>1, <2>2 DEF Checkpoint, RebuildIndexes
    <2>5. ~CommitDrop /\ ~FinishDrop /\ ~TopKQuery /\ ~Insert /\ ~Delete
        BY <2>1, <2>2 DEF CommitDrop, FinishDrop, TopKQuery, Insert, Delete, Write
    <2>6. ~Crash /\ ~Restart /\ ~TouchFile
        BY <2>1 DEF Crash, Restart, TouchFile
    <2> QED
        BY <1>2, <2>3, <2>4, <2>5, <2>6 DEF Next
<1>3. IInv /\ [Next]_vars => [last'.op = "query" /\ ~last'.ok =>
                                 \/ sidecar # created
                                 \/ inst.handle \notin {NoTree, created}
                                 \/ forgotten]_vars
    BY <1>1, <1>2
<1> QED
    BY <1>3, Invariance, PTL DEF Spec, RightFileIsServed

-----------------------------------------------------------------------------
(* The identity.  In service from an attach is a tree the instance had no  *)
(* objection to, and the identity is the one it had or the tree's.         *)
Attached(i, a) ==
    \/ a.handle = i.handle /\ a.tree_uuid = i.tree_uuid
    \/ /\ i.handle = NoTree /\ a.handle \in Tree
       /\ \/ i.tree_uuid = NoUuid /\ a.tree_uuid = a.handle.uuid
          \/ a.handle.uuid \in {i.tree_uuid, NoUuid} /\ a.tree_uuid = i.tree_uuid

(* That is what AttachAndVerify does.                                      *)
LEMMA AttachAttaches ==
    ASSUME TypeOK, NEW i \in Instance
    PROVE  Attached(i, AttachAndVerify(i))
<1>1. CASE i.handle # NoTree \/ ~CanAttach(i)
    BY <1>1 DEF AttachAndVerify, AttachThrows, Attached
<1>2. CASE i.handle = NoTree /\ CanAttach(i)
    <2> DEFINE uuid == IF i.tree_uuid = NoUuid THEN sidecar.uuid ELSE i.tree_uuid
               a == [i EXCEPT !.handle = sidecar, !.tree_uuid = uuid]
    <2>1. sidecar \in Tree /\ AttachAndVerify(i) = a
        BY <1>2 DEF AttachAndVerify, AttachThrows, CanAttach, TypeOK
    <2>2. i.tree_uuid = NoUuid \/ sidecar.uuid \in {NoUuid, i.tree_uuid}
        BY <1>2 DEF CanAttach
    <2>3. a.handle = sidecar /\ a.tree_uuid = uuid
        BY DEF Instance
    <2> QED
        BY <1>2, <2>1, <2>2, <2>3 DEF Attached
<1> QED
    BY <1>1, <1>2

(* And binding an instance, or binding one and attaching again.            *)
LEMMA BoundAttaches ==
    ASSUME TypeOK
    PROVE  Attached(inst, BoundIndex) /\ Attached(inst, AttachAndVerify(BoundIndex))
<1> DEFINE a == AttachAndVerify(inst)
           b == BoundIndex
<1>1. inst \in Instance /\ b \in Instance
    BY BoundKeeps DEF TypeOK, Keeps
<1>2. Attached(inst, b)
    <2>1. CASE inst.bound
        BY <2>1 DEF BoundIndex, Attached
    <2>2. CASE ~inst.bound
        <3>1. a \in Instance /\ Attached(inst, a)
            BY <1>1, AttachKeeps, AttachAttaches DEF Keeps
        <3>2. b \in {[a EXCEPT !.bound = TRUE],
                      [a EXCEPT !.bound = TRUE, !.sidecar_unusable = TRUE]}
            BY <2>2 DEF BoundIndex, CreateInstance, AttachAndVerify
        <3> HIDE DEF a, b
        <3>3. b.handle = a.handle /\ b.tree_uuid = a.tree_uuid
            BY <3>1, <3>2 DEF Instance
        <3> QED
            BY <3>1, <3>3 DEF Attached
    <2> QED
        BY <2>1, <2>2
<1>3. Attached(b, AttachAndVerify(b))
    BY <1>1, AttachAttaches
<1>4. b.handle # NoTree => AttachAndVerify(b) = b
    BY DEF AttachAndVerify
<1> HIDE DEF b
<1>5. Attached(inst, AttachAndVerify(b))
    BY <1>2, <1>3, <1>4 DEF Attached
<1> QED
    BY <1>2, <1>5 DEF b

(* While the process runs the instance goes by the identity that a         *)
(* checkpoint has stored.                                                  *)
FinalInv ==
    up /\ stored # NoEntry /\ stored.place = "blocks" /\ stored.uuid # NoUuid =>
        inst.tree_uuid = stored.uuid

(* What a step does to the identities, in storage and in memory: a CREATE  *)
(* stores the identity of the tree it attached, a DROP removes the entry,  *)
(* a checkpoint stores what it binds, a crash or a restart goes back to    *)
(* what is stored or to the options, and all others leave storage alone.   *)
Creates == /\ stored = NoEntry /\ up /\ up' /\ stored' \in Blob /\ stored'.place = "wal"
           /\ inst'.handle \in Tree /\ inst'.tree_uuid = inst'.handle.uuid
           /\ stored'.uuid = inst'.tree_uuid
Checkpoints == /\ up /\ up' /\ stored # NoEntry /\ stored' \in Blob /\ stored'.place = "blocks"
               /\ stored'.uuid = inst'.tree_uuid /\ Attached(inst, inst')
Uses == /\ up /\ up' /\ stored # NoEntry /\ stored' = stored
        /\ Attached(inst, inst')
Loses == /\ stored # NoEntry /\ stored' = stored
         /\ ~up' \/ inst'.tree_uuid = stored.uuid
                 \/ (stored.place = "wal" /\ inst'.tree_uuid = NoUuid)
         /\ inst'.handle = NoTree

(* Every step is one of these, or there is no entry when it is done, or it *)
(* leaves everything here as it was.                                       *)
LEMMA IdentitySteps ==
    ASSUME IInv, [Next]_vars
    PROVE  \/ Creates \/ Checkpoints \/ Uses \/ Loses
           \/ stored' = NoEntry
           \/ UNCHANGED <<stored, up, inst>>
<1>0. TypeOK /\ inst \in Instance
    BY DEF IInv, TypeOK
<1>1. ASSUME NEW delta \in BOOLEAN, WriteSidecar(delta) PROVE stored' = NoEntry
    BY <1>1 DEF WriteSidecar
<1>2. CASE CommitCreate
    <2> DEFINE i == AttachAndVerify(inst)
               j == [i EXCEPT !.bound = TRUE, !.serialized_this_generation = TRUE]
               blob == [uuid |-> i.tree_uuid, n_build |-> i.n_build,
                        delta_scan |-> i.delta_scan, place |-> "wal"]
    <2>1. /\ inst.handle = NoTree /\ inst.tree_uuid = NoUuid /\ stored = NoEntry /\ up
          /\ i.handle # NoTree /\ stored' = blob /\ inst' = j /\ up' = up
        BY <1>2 DEF CommitCreate, IInv, CreatingInv, StoredInv
    <2>2. i \in Instance /\ Attached(inst, i)
        BY <1>0, AttachKeeps, AttachAttaches DEF Keeps
    <2> HIDE DEF i
    <2>3. i.handle \in Tree /\ i.tree_uuid = i.handle.uuid
        BY <2>1, <2>2 DEF Attached
    <2>4. j.handle = i.handle /\ j.tree_uuid = i.tree_uuid
        BY <2>2 DEF Instance
    <2>5. blob \in Blob /\ blob.uuid = i.tree_uuid /\ blob.place = "wal"
        BY <2>2 DEF Instance, Blob
    <2> HIDE DEF j, blob
    <2> QED
        BY <2>1, <2>3, <2>4, <2>5 DEF Creates
<1>3. CASE FailCreate
    BY <1>3 DEF FailCreate, IInv, StoredInv
<1>4. ASSUME NEW rebuild \in BOOLEAN, Checkpoint(rebuild) PROVE Checkpoints
    <2> DEFINE b == BoundIndex
               i == Serialized(b)
    <2>1. b \in Instance /\ Attached(inst, b)
        BY <1>0, BoundKeeps, BoundAttaches DEF Keeps
    <2>2. up /\ up' = up /\ stored # NoEntry /\ stored' = PersistToDisk(i) /\ inst' = i
        BY <1>4 DEF Checkpoint, Ready
    <2> HIDE DEF b
    <2>3. i \in Instance /\ i.handle = b.handle /\ i.tree_uuid = b.tree_uuid
        BY <2>1 DEF Serialized, Instance
    <2> HIDE DEF i
    <2>4. stored' \in Blob /\ stored'.uuid = b.tree_uuid /\ stored'.place = "blocks"
        BY <2>2, <2>3 DEF PersistToDisk, Blob, Instance
    <2> QED
        BY <2>1, <2>2, <2>3, <2>4 DEF Checkpoints, Attached
<1>5. CASE CommitDrop
    BY <1>5 DEF CommitDrop
<1>6. CASE FinishDrop
    BY <1>6, FinishDropKeeps DEF FinishDrop
<1>7. CASE TopKQuery
    BY <1>0, <1>7, BoundAttaches DEF TopKQuery, Open, Uses
<1>8. CASE SextantQuery
    BY <1>0, <1>8, BoundAttaches DEF SextantQuery, Open, Uses
<1>9. CASE Insert \/ Delete
    <2>1. /\ up /\ up' = up /\ stored' = stored
          /\ inst' = IF stored = NoEntry THEN inst ELSE BoundIndex
        BY <1>9 DEF Insert, Delete, Write, Open
    <2> QED
        BY <1>0, <2>1, BoundAttaches DEF Uses
<1>10. CASE Crash
    BY <1>10, NoInstanceType DEF Crash, Loses
<1>11. CASE Restart
    <2>1. /\ stored' = stored
          /\ \/ stored = NoEntry
             \/ stored # NoEntry /\ inst' = FromBlob
             \/ stored # NoEntry /\ stored.place = "wal" /\ inst' = FromOptions
        BY <1>11 DEF Restart
    <2>2. /\ FromBlob.handle = NoTree /\ FromBlob.tree_uuid = stored.uuid
          /\ FromOptions.handle = NoTree /\ FromOptions.tree_uuid = NoUuid
        BY DEF FromBlob, FromOptions, NoInstance
    <2> QED
        BY <2>1, <2>2 DEF Loses
<1>12. CASE TouchFile
    BY <1>12 DEF TouchFile
<1>13. CASE RebuildIndexes
    BY <1>13, RebuildKeeps DEF RebuildIndexes, IInv, RebuildInv, Uses, Attached
<1>14. CASE UNCHANGED vars
    BY <1>14 DEF vars
<1> QED
    BY <1>1, <1>2, <1>3, <1>4, <1>5, <1>6, <1>7, <1>8, <1>9, <1>10, <1>11, <1>12, <1>13, <1>14
       DEF Next

(* So the instance keeps to a checkpointed identity, and storage keeps it. *)
LEMMA IdentityKept ==
    ASSUME IInv, FinalInv, [Next]_vars
    PROVE  /\ FinalInv'
           /\ stored # NoEntry /\ stored.place = "blocks" /\ stored.uuid # NoUuid =>
                  stored' = NoEntry \/ stored'.uuid = stored.uuid
<1>1. CASE Creates
    BY <1>1 DEF Creates, FinalInv
<1>2. CASE Checkpoints
    BY <1>2 DEF Checkpoints, Attached, FinalInv
<1>3. CASE Uses
    BY <1>3 DEF Uses, Attached, FinalInv
<1>4. CASE Loses
    BY <1>4 DEF Loses, FinalInv
<1>5. CASE stored' = NoEntry \/ UNCHANGED <<stored, up, inst>>
    BY <1>5 DEF FinalInv
<1> QED
    BY <1>1, <1>2, <1>3, <1>4, <1>5, IdentitySteps

(* Both invariants hold of every reachable state.                          *)
LEMMA FinalInvariance == Spec => [](IInv /\ FinalInv)
<1>1. Init => FinalInv
    BY DEF Init, FinalInv
<1>2. IInv /\ FinalInv /\ [Next]_vars => FinalInv'
    BY IdentityKept
<1> QED
    BY <1>1, <1>2, Invariance, PTL DEF Spec

(* A checkpointed identity is for life: whatever file is put at the path,  *)
(* whatever crashes, checkpoints or restarts, until the index is dropped.  *)
THEOREM IdentityIsForLife == Spec => RecordedIdentityIsFinal
<1>1. IInv /\ FinalInv /\ [Next]_vars =>
          [stored # NoEntry /\ stored.place = "blocks" /\ stored.uuid # NoUuid =>
               stored' = NoEntry \/ stored'.uuid = stored.uuid]_vars
    BY IdentityKept
<1> QED
    BY <1>1, FinalInvariance, PTL DEF Spec, RecordedIdentityIsFinal

(* The life of an index implements DurableIdentity: it serves only a tree  *)
(* of its identity, and forgets that only if it is not yet checkpointed.   *)
THEOREM LifecycleRefinement == Spec => ImplementsDurableIdentity
<1>1. Init => Durable!Init
    BY DEF Init, Durable!Init
<1>2. IInv /\ [Next]_vars => [Durable!Next]_Durable!vars
    <2> SUFFICES ASSUME IInv, [Next]_vars PROVE [Durable!Next]_Durable!vars
        OBVIOUS
    <2>0. /\ \A b \in Blob : b # NoEntry /\ b.uuid \in Uuid /\ b.uuid # NoEntry
          /\ \A t \in Tree : t # NoTree /\ t.uuid \in Uuid
          /\ stored # NoEntry => stored \in Blob
          /\ inst.handle # NoTree => inst.handle \in Tree
        BY TreeUuid DEF Blob, IInv, TypeOK, Instance
    <2>1. ASSUME up, up', stored # NoEntry, stored' # NoEntry, Attached(inst, inst')
          PROVE  \/ inst'.handle = inst.handle /\ inst'.tree_uuid = inst.tree_uuid
                 \/ \E u \in Uuid : Durable!Attach(u)
        <3>1. SUFFICES ASSUME ~(inst'.handle = inst.handle /\ inst'.tree_uuid = inst.tree_uuid)
                       PROVE  Durable!Attach(inst'.handle.uuid) /\ inst'.handle \in Tree
            BY <2>0
        <3> QED
            BY <2>0, <2>1, <3>1 DEF Attached, Durable!Attach, EntryIdentity, HandleIdentity
    <2>2. CASE Creates
        <3>1. Durable!Create(inst'.tree_uuid) /\ inst'.tree_uuid \in Uuid
            BY <2>0, <2>2 DEF Creates, Durable!Create, EntryIdentity, HandleIdentity
        <3> QED
            BY <3>1 DEF Durable!Next
    <2>3. CASE Checkpoints
        <3>1. Durable!Record
            BY <2>0, <2>1, <2>3 DEF Checkpoints, Durable!Record, EntryIdentity, HandleIdentity
        <3> QED
            BY <3>1 DEF Durable!Next
    <2>4. CASE Uses
        <3>1. CASE inst'.handle = inst.handle /\ inst'.tree_uuid = inst.tree_uuid
            BY <2>4, <3>1 DEF Uses, Durable!vars, EntryIdentity, HandleIdentity
        <3>2. ASSUME NEW u \in Uuid, Durable!Attach(u) PROVE Durable!Serve(u)
            BY <2>0, <2>4, <3>2 DEF Uses, Durable!Serve
        <3> QED
            BY <2>1, <2>4, <3>1, <3>2 DEF Uses, Durable!Next
    <2>5. CASE Loses
        <3>1. Durable!Lose
            BY <2>0, <2>5 DEF Loses, Durable!Lose, EntryIdentity, HandleIdentity
        <3> QED
            BY <3>1 DEF Durable!Next
    <2>6. CASE stored' = NoEntry
        BY <2>6 DEF Durable!Drop, Durable!Next
    <2>7. CASE UNCHANGED <<stored, up, inst>>
        BY <2>7 DEF Durable!vars, EntryIdentity, HandleIdentity
    <2> QED
        BY <2>2, <2>3, <2>4, <2>5, <2>6, <2>7, IdentitySteps
<1> QED
    BY <1>1, <1>2, Invariance, PTL DEF Spec, Durable!Spec, ImplementsDurableIdentity
=============================================================================
