---------------------------- MODULE SextantBuild ----------------------------
(***************************************************************************)
(* CREATE INDEX ... USING sextant: the build callbacks from BuildBind to   *)
(* BuildFinalize, run by several connections at once, each on its own      *)
(* table and sidecar.  What they share is DuckDB's memory_limit and the    *)
(* process-wide g_memory_limit_restore, which no lock protects: a          *)
(* statement clamps the limit to the cap, remembers how to undo that, and  *)
(* undoes it at its end if it gets that far.  Users SET the limit and      *)
(* commit rows into the tables while builds run.                           *)
(***************************************************************************)
EXTENDS Naturals

CONSTANTS Connections,
          Unset,          \* memory_limit never set (INVALID_INDEX); as a restore, RESET
          Nothing,        \* empty restore string; no file
          Cap,            \* kScanMemoryCap: 1 GiB
          Unit,           \* 1 MiB, the unit of a restore's SET
          UserLimits,     \* values users SET
          MaxRows,        \* bound: committed rows of a table
          MaxStatements   \* bound: CREATE INDEX statements of one connection

ASSUME BuildAssumption ==
    /\ Cap \in Nat \ {0} /\ Unit \in Nat \ {0}
    /\ UserLimits \subseteq Nat
    /\ MaxRows \in Nat /\ MaxStatements \in Nat
    /\ Unset \notin Nat /\ Nothing \notin Nat /\ Unset # Nothing

RoundUp(bytes) == ((bytes + Unit - 1) \div Unit) * Unit
Restores == {RoundUp(l) : l \in UserLimits} \cup {Unset}
Limits   == UserLimits \cup Restores \cup {Cap}

VARIABLES memory_limit,   \* DuckDB's maximum_memory
          restore,        \* g_memory_limit_restore: the limit it sets, or Nothing
          rows,           \* committed rows (with a vector) of each table
          sidecar,        \* rows of the tree at each index's path, or Nothing
          indexed,        \* the connections whose index is committed
          stmt,           \* each connection's CREATE INDEX statement
          statements,     \* how many it has started
          user_limit,     \* history: the limit users last SET, or Unset
          overlapped      \* history: two statements ran at once

data   == <<rows, sidecar, indexed>>
ghosts == <<statements, user_limit, overlapped>>
vars   == <<memory_limit, restore, data, stmt, ghosts>>

Locations == {"idle", "pending", "unpend", "read", "clamp", "save", "options",
              "scan", "finalize", "count", "attach", "restore", "clear", "commit"}
Counts == 0 .. MaxRows + 1

Statement ==
    [at : Locations,
     prebuilt : BOOLEAN,      \* WITH (prebuilt), once the options are read
     mem_before : Limits,     \* the limit BuildBind read
     n_rows : Counts,         \* rows the index plan's scan saw
     pushed : Counts,         \* rows its finalize scan pushed into the builder
     before : Limits \cup {Nothing}]
                              \* history: the limit it found, or Nothing once others
                              \* build or SET the limit

NoStatement ==
    [at |-> "idle", prebuilt |-> FALSE, mem_before |-> Unset,
     n_rows |-> 0, pushed |-> 0, before |-> Nothing]

(* Types; a restore is a RESET or a whole number of units.                 *)
TypeOK ==
    /\ memory_limit \in Limits
    /\ restore \in Restores \cup {Nothing}
    /\ rows \in [Connections -> 0 .. MaxRows]
    /\ sidecar \in [Connections -> Counts \cup {Nothing}]
    /\ indexed \subseteq Connections
    /\ stmt \in [Connections -> Statement]
    /\ statements \in [Connections -> 0 .. MaxStatements]
    /\ user_limit \in UserLimits \cup {Unset}
    /\ overlapped \in BOOLEAN

Init ==
    /\ memory_limit \in UserLimits \cup {Unset}
    /\ restore = Nothing
    /\ rows = [c \in Connections |-> 0]
    /\ sidecar \in [Connections -> 0 .. MaxRows \cup {Nothing}]
    /\ indexed = {}
    /\ stmt = [c \in Connections |-> NoStatement]
    /\ statements = [c \in Connections |-> 0]
    /\ user_limit = memory_limit
    /\ overlapped = FALSE

-----------------------------------------------------------------------------
At(c, loc) == stmt[c].at = loc
Running(c) == ~At(c, "idle")
Goto(c, loc) == stmt' = [stmt EXCEPT ![c].at = loc]
Forget(c) == stmt' = [stmt EXCEPT ![c] = NoStatement]

Begin(c) ==
    /\ At(c, "idle")
    /\ c \notin indexed
    /\ statements[c] < MaxStatements
    /\ statements' = [statements EXCEPT ![c] = @ + 1]
    /\ LET others == {d \in Connections \ {c} : Running(d)} IN
       /\ stmt' = [d \in Connections |->
              IF d = c
              THEN [NoStatement EXCEPT
                      !.at = "pending",
                      !.before = IF others # {} THEN Nothing
                                 ELSE IF restore = Nothing THEN memory_limit ELSE restore]
              ELSE [stmt[d] EXCEPT !.before = Nothing]]
       /\ overlapped' = (overlapped \/ others # {})
    /\ UNCHANGED <<memory_limit, restore, data, user_limit>>

(* The statement throws.  Nothing undoes the clamp.                        *)
FailForgettingRestore(c) ==
    /\ Forget(c)
    /\ restore' = Nothing
    /\ UNCHANGED <<memory_limit, data, ghosts>>

Fail(c) ==
    /\ Forget(c)
    /\ UNCHANGED <<memory_limit, restore, data, ghosts>>

-----------------------------------------------------------------------------
(* BuildBind.  A pending restore of an earlier statement is run first,     *)
(* then cleared.                                                           *)
RunPending(c) ==
    /\ At(c, "pending")
    /\ IF restore = Nothing
       THEN Goto(c, "read") /\ UNCHANGED memory_limit
       ELSE Goto(c, "unpend") /\ memory_limit' = restore
    /\ UNCHANGED <<restore, data, ghosts>>

ClearPending(c) ==
    /\ At(c, "unpend")
    /\ restore' = Nothing
    /\ Goto(c, "read")
    /\ UNCHANGED <<memory_limit, data, ghosts>>

(* A limit at or below the cap is left alone.                              *)
ReadLimit(c) ==
    /\ At(c, "read")
    /\ stmt' = IF memory_limit = Unset \/ memory_limit > Cap
                THEN [stmt EXCEPT ![c].mem_before = memory_limit, ![c].at = "clamp"]
                ELSE [stmt EXCEPT ![c].at = "options"]
    /\ UNCHANGED <<memory_limit, restore, data, ghosts>>

(* SET memory_limit='1GiB', which DuckDB may refuse.                       *)
SetClamp(c) ==
    /\ At(c, "clamp")
    /\ \/ memory_limit' = Cap /\ Goto(c, "save")
       \/ /\ stmt' = [stmt EXCEPT ![c].mem_before = Unset, ![c].at = "options"]
          /\ UNCHANGED memory_limit
    /\ UNCHANGED <<restore, data, ghosts>>

(* The limit goes into the restore in whole units, or as a RESET.          *)
SaveRestoreInBytes(c) ==
    /\ At(c, "save")
    /\ restore' = stmt[c].mem_before
    /\ stmt' = [stmt EXCEPT ![c].mem_before = Unset, ![c].at = "options"]
    /\ UNCHANGED <<memory_limit, data, ghosts>>

SaveRestore(c) ==
    /\ At(c, "save")
    /\ restore' = IF stmt[c].mem_before = Unset THEN Unset ELSE RoundUp(stmt[c].mem_before)
    /\ stmt' = [stmt EXCEPT ![c].mem_before = Unset, ![c].at = "options"]
    /\ UNCHANGED <<memory_limit, data, ghosts>>

(* Options, column types or filter columns are invalid, or the engine      *)
(* cannot begin a build.                                                   *)
RejectOptions(c) == At(c, "options") /\ Fail(c)

BuildGlobalInit(c) ==
    /\ At(c, "options")
    /\ \E p \in BOOLEAN : stmt' = [stmt EXCEPT ![c].prebuilt = p, ![c].at = "scan"]
    /\ UNCHANGED <<memory_limit, restore, data, ghosts>>

-----------------------------------------------------------------------------
(* The index plan's scan: the sinks count rows, the combines add them up.  *)
(* It sees the statement's own uncommitted rows.                           *)
SinkAndCombine(c) ==
    /\ At(c, "scan")
    /\ \E own_rows \in {0, 1} :
         stmt' = [stmt EXCEPT ![c].n_rows = rows[c] + own_rows, ![c].at = "finalize"]
    /\ UNCHANGED <<memory_limit, restore, data, ghosts>>

(* The statement is interrupted, or out of memory.                         *)
Interrupted(c) == At(c, "scan") /\ Fail(c)

(* BuildFinalize of a build: a connection of its own scans what is         *)
(* committed and pushes it.                                                *)
PushRows(c) ==
    /\ At(c, "finalize")
    /\ ~stmt[c].prebuilt
    /\ stmt' = [stmt EXCEPT ![c].pushed = rows[c], ![c].at = "count"]
    /\ UNCHANGED <<memory_limit, restore, data, ghosts>>

(* The scan or a push fails, or a filter string is longer than 65535.      *)
PushFails(c) == At(c, "finalize") /\ ~stmt[c].prebuilt /\ Fail(c)

(* The two scans must have seen the same number of rows.                   *)
CountsIgnored(c) == TRUE
CountsAgree(c) == stmt[c].pushed = stmt[c].n_rows

FinishBuild(c) ==
    /\ At(c, "count")
    /\ CountsAgree(c)
    /\ sidecar' = [sidecar EXCEPT ![c] = stmt[c].pushed]
    /\ Goto(c, "attach")
    /\ UNCHANGED <<memory_limit, restore, rows, indexed, ghosts>>

(* They did not, or the engine fails to finish.                            *)
AbortBuild(c) == At(c, "count") /\ Fail(c)

(* WITH (prebuilt): the count of the plan's scan stands for the build.     *)
TakePrebuilt(c) ==
    /\ At(c, "finalize")
    /\ stmt[c].prebuilt
    /\ Goto(c, "attach")
    /\ UNCHANGED <<memory_limit, restore, data, ghosts>>

NBuild(c) == IF stmt[c].prebuilt THEN stmt[c].n_rows ELSE stmt[c].pushed

(* Attach, and compare the tree's count with n_build.                      *)
TreeAccepted(c) == sidecar[c] # Nothing /\ sidecar[c] = NBuild(c)

AttachTree(c) ==
    /\ At(c, "attach")
    /\ TreeAccepted(c)
    /\ Goto(c, "restore")
    /\ UNCHANGED <<memory_limit, restore, data, ghosts>>

(* An invalid cache budget, no sidecar, or another count.                  *)
AttachFails(c) == At(c, "attach") /\ Fail(c)

-----------------------------------------------------------------------------
(* The end of BuildFinalize undoes the clamp, if one is pending.           *)
UndoClamp(c, pending) ==
    /\ At(c, "restore")
    /\ IF pending
       THEN Goto(c, "clear") /\ memory_limit' = restore
       ELSE Goto(c, "commit") /\ UNCHANGED memory_limit
    /\ UNCHANGED <<restore, data, ghosts>>

RestoreLimitIfBuilt(c) == UndoClamp(c, restore # Nothing /\ ~stmt[c].prebuilt)
RestoreLimit(c) == UndoClamp(c, restore # Nothing)

ClearRestore(c) ==
    /\ At(c, "clear")
    /\ restore' = Nothing
    /\ Goto(c, "commit")
    /\ UNCHANGED <<memory_limit, data, ghosts>>

Commit(c) ==
    /\ At(c, "commit")
    /\ indexed' = indexed \cup {c}
    /\ Forget(c)
    /\ UNCHANGED <<memory_limit, restore, rows, sidecar, ghosts>>

-----------------------------------------------------------------------------
(* A user SETs the limit; others commit rows into a table being indexed.   *)
UserSet ==
    /\ memory_limit' \in UserLimits
    /\ user_limit' = memory_limit'
    /\ stmt' = [c \in Connections |-> [stmt[c] EXCEPT !.before = Nothing]]
    /\ UNCHANGED <<restore, data, statements, overlapped>>

Insert(c) ==
    /\ Running(c)
    /\ rows[c] < MaxRows
    /\ rows' = [rows EXCEPT ![c] = @ + 1]
    /\ UNCHANGED <<memory_limit, restore, sidecar, indexed, stmt, ghosts>>

Step(c) ==
    \/ Begin(c)
    \/ RunPending(c) \/ ClearPending(c) \/ ReadLimit(c) \/ SetClamp(c) \/ SaveRestore(c)
    \/ RejectOptions(c) \/ BuildGlobalInit(c)
    \/ SinkAndCombine(c) \/ Interrupted(c)
    \/ PushRows(c) \/ PushFails(c) \/ FinishBuild(c) \/ AbortBuild(c) \/ TakePrebuilt(c)
    \/ AttachTree(c) \/ AttachFails(c)
    \/ RestoreLimit(c) \/ ClearRestore(c) \/ Commit(c)

Next == UserSet \/ \E c \in Connections : Step(c) \/ Insert(c)

Spec == Init /\ [][Next]_vars

-----------------------------------------------------------------------------
(* An index that becomes visible covers the rows its own statement's plan  *)
(* saw: rows committed, or left uncommitted, between the plan's scan and   *)
(* the finalize scan are noticed, and so is a prebuilt tree of another     *)
(* size.                                                                   *)
IndexCoversPlan == \A c \in Connections : At(c, "commit") => sidecar[c] = stmt[c].n_rows

RestoredTo(limit) == memory_limit \in {limit, IF limit = Unset THEN Unset ELSE RoundUp(limit)}

(* A statement that succeeds while nobody else builds or SETs the limit    *)
(* leaves no restore pending and the limit it found, or the one an earlier *)
(* failed statement had still to restore, rounded up to a whole unit.      *)
AloneRestores ==
    \A c \in Connections :
        At(c, "commit") /\ stmt[c].before # Nothing =>
            restore = Nothing /\ RestoredTo(stmt[c].before)

(* The clamp of a failed statement is not forgotten: as long as no two     *)
(* statements ever overlap, a clamp in force with no statement running has *)
(* its restore pending, so the next build lifts it.                        *)
ClampNotForgotten ==
    memory_limit = Cap /\ user_limit # Cap /\ ~overlapped
        /\ (\A c \in Connections : ~Running(c)) => restore # Nothing
=============================================================================
