--------------------------- MODULE SextantAttach ---------------------------
(***************************************************************************)
(* One index entry (class SextantIndex) of one open database, the query    *)
(* threads that search it, and the DROP or database close that tears it    *)
(* down.  The entry owns one engine handle on its sidecar file; query      *)
(* threads read the atomic handle without a lock, attach it lazily under   *)
(* attach_mutex when it is null, and search on the handle they read.       *)
(* The file at the sidecar path belongs to the file system: anybody may    *)
(* replace or delete it at any moment.                                     *)
(***************************************************************************)
EXTENDS Naturals, FiniteSets

CONSTANTS Threads,        \* query threads
          Free,           \* the owner of attach_mutex when nobody holds it
          Trees,          \* UUIDs of trees
          NoUuid,         \* the empty UUID: a pre-UUID tree, an entry not yet attached
          Missing,        \* no file at the sidecar path, or none the engine can open
          Unreadable,     \* a file that opens but whose UUID cannot be read
          Budgets,        \* cache budgets a session may have set (0 is the default)
          MaxStatements   \* bound: statements one thread starts

Uuids == Trees \cup {NoUuid}
Files == Uuids \cup {Missing, Unreadable}

ASSUME AttachAssumption ==
    /\ Free \notin Threads
    /\ NoUuid \notin Trees
    /\ {Missing, Unreadable} \cap Uuids = {}
    /\ Missing # Unreadable
    /\ Budgets \subseteq Nat
    /\ MaxStatements \in Nat

(* An engine handle: its number, the tree it was opened on and the cache   *)
(* budget it was opened with.  Number 0 is the null pointer.               *)
Handle   == [id : Nat, tree : Files, budget : Nat]
NoHandle == [id |-> 0, tree |-> Missing, budget |-> 0]

VARIABLES sidecar,        \* the file at sidecar_path
          tree_uuid,      \* the identity the entry recorded
          engine_handle,  \* the published handle
          attach_mutex,   \* its holder
          live,           \* handles the engine holds open
          opened,         \* number of handles opened so far
          status,         \* unbound, bound, dropping, dropped, destroyed
          setting,        \* each session's sextant_leaf_cache_mb
          pc,             \* where each thread's statement is
          local,          \* the handle each thread's statement holds
          statements      \* statements each thread has started

vars == <<sidecar, tree_uuid, engine_handle, attach_mutex, live, opened,
          status, setting, pc, local, statements>>

Locations == {"idle", "init", "lock", "attach", "verify", "reread", "search"}

TypeOK ==
    /\ sidecar \in Files
    /\ tree_uuid \in Uuids
    /\ engine_handle \in Handle
    /\ attach_mutex \in Threads \cup {Free}
    /\ live \subseteq Handle
    /\ opened \in Nat
    /\ status \in {"unbound", "bound", "dropping", "dropped", "destroyed"}
    /\ setting \in [Threads -> Budgets]
    /\ pc \in [Threads -> Locations]
    /\ local \in [Threads -> Handle]
    /\ statements \in [Threads -> Nat]

Init ==
    /\ sidecar \in Files
    /\ tree_uuid \in Uuids
    /\ engine_handle = NoHandle
    /\ attach_mutex = Free
    /\ live = {}
    /\ opened = 0
    /\ status = "unbound"
    /\ setting \in [Threads -> Budgets]
    /\ pc = [t \in Threads |-> "idle"]
    /\ local = [t \in Threads |-> NoHandle]
    /\ statements = [t \in Threads |-> 0]

-----------------------------------------------------------------------------
(* The engine's side: opening the sidecar, and its identity.               *)

(* The handle sextant_open_index returns for a sidecar that opens.         *)
OpenedOn(budget) == [id |-> opened + 1, tree |-> sidecar, budget |-> budget]

(* The identity check: an entry without identity takes any tree whose UUID *)
(* can be read; one with an identity takes its own tree or one without.    *)
AcceptsAny(tree) == TRUE
AcceptsUnread(tree) == tree_uuid = NoUuid \/ tree \in {NoUuid, tree_uuid}
Accepts(tree) ==
    /\ tree # Unreadable
    /\ tree_uuid = NoUuid \/ tree \in {NoUuid, tree_uuid}

(* The identity the entry keeps after attaching that tree.                 *)
AdoptedUuid(tree) == IF tree_uuid = NoUuid THEN tree ELSE tree_uuid

-----------------------------------------------------------------------------
(* AttachAndVerify when nobody else has the entry yet.                     *)
AttachAlone(budget) ==
    IF sidecar = Missing
    THEN UNCHANGED <<opened, engine_handle, live, tree_uuid>>
    ELSE /\ opened' = opened + 1
         /\ IF Accepts(sidecar)
            THEN /\ engine_handle' = OpenedOn(budget)
                 /\ live' = live \cup {OpenedOn(budget)}
                 /\ tree_uuid' = AdoptedUuid(sidecar)
            ELSE UNCHANGED <<engine_handle, live, tree_uuid>>

(* The load path.  The first statement that binds the table's indexes      *)
(* constructs the entry and attaches it with no session at hand: default   *)
(* budgets.  A sidecar that does not open or is refused leaves the entry   *)
(* bound with a null handle.                                               *)
CreateInstance ==
    /\ status = "unbound"
    /\ status' = "bound"
    /\ AttachAlone(0)
    /\ UNCHANGED <<sidecar, attach_mutex, setting, pc, local, statements>>

(* CREATE INDEX: the finalize step of thread t's statement attaches a      *)
(* fresh entry with t's budgets.  If that fails the entry is discarded.    *)
BuildFinalize(t) ==
    /\ status = "unbound"
    /\ tree_uuid = NoUuid
    /\ status' = IF sidecar # Missing /\ Accepts(sidecar) THEN "bound" ELSE "destroyed"
    /\ AttachAlone(setting[t])
    /\ UNCHANGED <<sidecar, attach_mutex, setting, pc, local, statements>>

-----------------------------------------------------------------------------
(* A statement of thread t.                                                *)

Begin(t) ==
    /\ status = "bound"
    /\ pc[t] = "idle"
    /\ statements[t] < MaxStatements
    /\ statements' = [statements EXCEPT ![t] = @ + 1]
    /\ UNCHANGED <<sidecar, tree_uuid, engine_handle, attach_mutex, live,
                   opened, status, setting, local>>

(* The optimizer plans an index scan only over a handle it saw attached;   *)
(* otherwise the statement fails or runs through the exact path.           *)
TryRewriteTopN(t) ==
    /\ Begin(t)
    /\ pc' = [pc EXCEPT ![t] = IF engine_handle = NoHandle THEN "idle" ELSE "init"]

(* sextant_query and sextant_query_batch bind without looking at it.       *)
QueryBind(t) ==
    /\ Begin(t)
    /\ pc' = [pc EXCEPT ![t] = "init"]

(* InitGlobal reads the handle without the lock.                           *)
ReadHandle(t) ==
    /\ pc[t] = "init"
    /\ local' = [local EXCEPT ![t] = engine_handle]
    /\ pc' = [pc EXCEPT ![t] = IF engine_handle = NoHandle THEN "lock" ELSE "search"]
    /\ UNCHANGED <<sidecar, tree_uuid, engine_handle, attach_mutex, live,
                   opened, status, setting, statements>>

LockWithoutWaiting(t) ==
    /\ pc[t] = "lock"
    /\ attach_mutex' = t
    /\ pc' = [pc EXCEPT ![t] = "attach"]
    /\ UNCHANGED <<sidecar, tree_uuid, engine_handle, live, opened, status,
                   setting, local, statements>>

Lock(t) ==
    /\ pc[t] = "lock"
    /\ attach_mutex = Free
    /\ attach_mutex' = t
    /\ pc' = [pc EXCEPT ![t] = "attach"]
    /\ UNCHANGED <<sidecar, tree_uuid, engine_handle, live, opened, status,
                   setting, local, statements>>

(* The scope of the lock guard ends: the statement goes to loc.            *)
Unlock(t, loc) ==
    /\ attach_mutex' = Free
    /\ pc' = [pc EXCEPT ![t] = loc]

(* Another thread attached the entry while this one waited.                *)
AttachAgain(t) ==
    /\ pc[t] = "attach"
    /\ engine_handle # NoHandle
    /\ live' = live \ {engine_handle}
    /\ engine_handle' = NoHandle
    /\ UNCHANGED <<sidecar, tree_uuid, attach_mutex, opened, status, setting,
                   pc, local, statements>>

AlreadyAttached(t) ==
    /\ pc[t] = "attach"
    /\ engine_handle # NoHandle
    /\ Unlock(t, "reread")
    /\ UNCHANGED <<sidecar, tree_uuid, engine_handle, live, opened, status,
                   setting, local, statements>>

OpenSidecar(t) ==
    /\ pc[t] = "attach"
    /\ engine_handle = NoHandle
    /\ sidecar # Missing
    /\ opened' = opened + 1
    /\ local' = [local EXCEPT ![t] = OpenedOn(setting[t])]
    /\ live' = live \cup {OpenedOn(setting[t])}
    /\ pc' = [pc EXCEPT ![t] = "verify"]
    /\ UNCHANGED <<sidecar, tree_uuid, engine_handle, attach_mutex, status,
                   setting, statements>>

OpenFails(t) ==
    /\ pc[t] = "attach"
    /\ engine_handle = NoHandle
    /\ sidecar = Missing
    /\ Unlock(t, "idle")
    /\ UNCHANGED <<sidecar, tree_uuid, engine_handle, live, opened, status,
                   setting, local, statements>>

(* The identity check passed: record the identity and publish the handle.  *)
Publish(t) ==
    /\ pc[t] = "verify"
    /\ Accepts(local[t].tree)
    /\ tree_uuid' = AdoptedUuid(local[t].tree)
    /\ engine_handle' = local[t]
    /\ Unlock(t, "reread")
    /\ UNCHANGED <<sidecar, live, opened, status, setting, local, statements>>

(* It did not: close the handle, and the statement fails.                  *)
RejectLeaking(t) ==
    /\ pc[t] = "verify"
    /\ ~Accepts(local[t].tree)
    /\ local' = [local EXCEPT ![t] = NoHandle]
    /\ Unlock(t, "idle")
    /\ UNCHANGED <<sidecar, tree_uuid, engine_handle, live, opened, status,
                   setting, statements>>

RejectHoldingLock(t) ==
    /\ pc[t] = "verify"
    /\ ~Accepts(local[t].tree)
    /\ live' = live \ {local[t]}
    /\ local' = [local EXCEPT ![t] = NoHandle]
    /\ pc' = [pc EXCEPT ![t] = "idle"]
    /\ UNCHANGED <<sidecar, tree_uuid, engine_handle, attach_mutex, opened,
                   status, setting, statements>>

Reject(t) ==
    /\ pc[t] = "verify"
    /\ ~Accepts(local[t].tree)
    /\ live' = live \ {local[t]}
    /\ local' = [local EXCEPT ![t] = NoHandle]
    /\ Unlock(t, "idle")
    /\ UNCHANGED <<sidecar, tree_uuid, engine_handle, opened, status, setting,
                   statements>>

(* InitGlobal reads the handle again and gives up if it is gone.           *)
RereadHandle(t) ==
    /\ pc[t] = "reread"
    /\ local' = [local EXCEPT ![t] = engine_handle]
    /\ pc' = [pc EXCEPT ![t] = IF engine_handle = NoHandle THEN "idle" ELSE "search"]
    /\ UNCHANGED <<sidecar, tree_uuid, engine_handle, attach_mutex, live,
                   opened, status, setting, statements>>

(* The search on the handle the thread read returns.                       *)
Search(t) ==
    /\ pc[t] = "search"
    /\ local' = [local EXCEPT ![t] = NoHandle]
    /\ pc' = [pc EXCEPT ![t] = "idle"]
    /\ UNCHANGED <<sidecar, tree_uuid, engine_handle, attach_mutex, live,
                   opened, status, setting, statements>>

Step(t) ==
    \/ ReadHandle(t)      \/ Lock(t)       \/ AlreadyAttached(t)
    \/ OpenSidecar(t)     \/ OpenFails(t)  \/ Publish(t)
    \/ Reject(t)          \/ RereadHandle(t) \/ Search(t)

-----------------------------------------------------------------------------
(* Teardown and the file system.                                           *)

(* CloseHandle, under attach_mutex and idempotent.                         *)
CloseHandle ==
    /\ attach_mutex = Free
    /\ live' = live \ {engine_handle}
    /\ engine_handle' = NoHandle

(* A committed DROP INDEX of an entry that was not serialized: ResetStorage *)
(* closes the handle and goes on to delete the file.                       *)
CommitDrop ==
    /\ status = "bound"
    /\ CloseHandle
    /\ status' = "dropping"
    /\ UNCHANGED <<sidecar, tree_uuid, attach_mutex, opened, setting, pc,
                   local, statements>>

RemoveSidecar ==
    /\ status = "dropping"
    /\ sidecar' = Missing
    /\ status' = "dropped"
    /\ UNCHANGED <<tree_uuid, engine_handle, attach_mutex, live, opened,
                   setting, pc, local, statements>>

(* The same DROP after a serialization: ResetStorage only clears its flag. *)
CommitDropSerialized ==
    /\ status = "bound"
    /\ status' = "dropped"
    /\ UNCHANGED <<sidecar, tree_uuid, engine_handle, attach_mutex, live,
                   opened, setting, pc, local, statements>>

(* The destructor, of a dropped entry or at database close.  DuckDB frees  *)
(* the entry when no statement can reach it.                               *)
Destroy ==
    /\ status \in {"bound", "dropped"}
    /\ \A t \in Threads : pc[t] = "idle"
    /\ CloseHandle
    /\ status' = "destroyed"
    /\ UNCHANGED <<sidecar, tree_uuid, attach_mutex, opened, setting, pc,
                   local, statements>>

ReplaceSidecar ==
    /\ sidecar' \in Files \ {sidecar}
    /\ UNCHANGED <<tree_uuid, engine_handle, attach_mutex, live, opened,
                   status, setting, pc, local, statements>>

-----------------------------------------------------------------------------
Next ==
    \/ CreateInstance
    \/ \E t \in Threads : BuildFinalize(t) \/ TryRewriteTopN(t) \/ QueryBind(t) \/ Step(t)
    \/ CommitDrop \/ RemoveSidecar \/ CommitDropSerialized
    \/ Destroy
    \/ ReplaceSidecar

Spec == Init /\ [][Next]_vars

(* A running thread keeps running; nobody has to start a statement, drop   *)
(* the index or touch the file.                                            *)
FairSpec == Spec /\ \A t \in Threads : WF_vars(Step(t))

-----------------------------------------------------------------------------
(* Attach is exactly-once: the engine never holds more than one handle for *)
(* the entry, and it is the published one or the one the holder of         *)
(* attach_mutex is still verifying.  Two threads that both find a cold     *)
(* index would otherwise each open one, and one of the two would leak.     *)
AttachExactlyOnce ==
    /\ Cardinality(live) <= 1
    /\ \A h \in live : \/ h = engine_handle
                       \/ \E t \in Threads : /\ attach_mutex = t
                                             /\ pc[t] = "verify"
                                             /\ h = local[t]

(* As long as the index is in the catalog, a search runs on a handle the   *)
(* engine has open: no other thread's attach closes it under the search.   *)
SearchUntilDrop ==
    \A t \in Threads : pc[t] = "search" /\ status = "bound" => local[t] \in live

(* The same with a DROP allowed to commit: the documentation's "never      *)
(* reopened while in use".  The code does not keep it.                     *)
SearchOnLiveHandle ==
    \A t \in Threads : pc[t] = "search" => local[t] \in live

(* The destructor leaves no handle behind, whatever failed before it.      *)
ReleasedAtTeardown == status = "destroyed" => live = {}

(* Every statement ends: a failed or refused attach releases the mutex,    *)
(* and no thread waits for it forever.                                     *)
EveryStatementEnds == \A t \in Threads : pc[t] # "idle" ~> pc[t] = "idle"

(* The entry keeps the promise of AttachOnce: what is in service is        *)
(* verified, is put there once, and leaves only at teardown.               *)
Once == INSTANCE AttachOnce WITH
            NoTree   <- Missing,
            identity <- tree_uuid,
            served   <- engine_handle.tree,
            retired  <- status \in {"dropping", "dropped", "destroyed"}

ImplementsAttachOnce == Once!Spec
=============================================================================
