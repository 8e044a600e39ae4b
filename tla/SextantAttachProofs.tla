------------------------ MODULE SextantAttachProofs ------------------------
(***************************************************************************)
(* Proofs about SextantAttach, for any number of threads, trees and        *)
(* statements: the attach protocol opens at most one handle at a time, a   *)
(* search runs on an open handle until the index is dropped, the teardown  *)
(* leaves nothing open, and the protocol implements AttachOnce.            *)
(***************************************************************************)
EXTENDS SextantAttach, FiniteSetTheorems, TLAPS

(* Only the holder of attach_mutex is inside AttachAndVerify.              *)
MutexInv ==
    \A t \in Threads : pc[t] \in {"attach", "verify"} <=> attach_mutex = t

(* The handle a thread is verifying is the only one open.                  *)
VerifyInv ==
    \A t \in Threads : pc[t] = "verify" =>
        /\ engine_handle = NoHandle
        /\ live = {local[t]}
        /\ local[t] # NoHandle
        /\ local[t].tree # Missing

(* A published handle is the only one open, on a tree with an identity.    *)
PublishedInv ==
    engine_handle # NoHandle =>
        /\ live = {engine_handle}
        /\ engine_handle.tree \in Uuids

(* With no handle published and none being verified, none is open.         *)
NoneOpenInv ==
    engine_handle = NoHandle /\ (\A t \in Threads : pc[t] # "verify") => live = {}

(* Until the index is dropped a search holds the published handle.         *)
SearchInv ==
    \A t \in Threads : pc[t] = "search" /\ status = "bound" =>
        local[t] = engine_handle /\ engine_handle # NoHandle

(* Before the entry exists and after it is gone nothing is attached and    *)
(* nobody runs.                                                            *)
QuietInv ==
    status \in {"unbound", "destroyed"} =>
        /\ engine_handle = NoHandle
        /\ \A t \in Threads : pc[t] = "idle"

IInv == /\ TypeOK
        /\ MutexInv
        /\ VerifyInv
        /\ PublishedInv
        /\ NoneOpenInv
        /\ SearchInv
        /\ QuietInv
USE AttachAssumption

(* The null handle is a handle.                                            *)
LEMMA NoHandleType == NoHandle \in Handle
BY DEF NoHandle, Handle, Files

(* A handle just opened is one, on the file it was opened on, and not the  *)
(* null handle.                                                            *)
LEMMA OpenedOnType ==
    ASSUME TypeOK, NEW b \in Nat
    PROVE  /\ OpenedOn(b) \in Handle
           /\ OpenedOn(b) # NoHandle
           /\ OpenedOn(b).tree = sidecar
BY DEF TypeOK, OpenedOn, Handle, NoHandle

(* A tree the identity check accepts has an identity the entry can keep.   *)
LEMMA AcceptedTree ==
    ASSUME TypeOK, NEW f \in Files, f # Missing, Accepts(f)
    PROVE  f \in Uuids /\ AdoptedUuid(f) \in Uuids
BY DEF TypeOK, Accepts, AdoptedUuid, Files

-----------------------------------------------------------------------------
(* The type invariant holds initially.                                     *)
LEMMA TypeInit == Init => TypeOK
BY NoHandleType DEF Init, TypeOK, Locations, Uuids, Files

(* Every step keeps the types; Publish does because what a thread verifies *)
(* is a file that opened.                                                  *)
LEMMA TypeNext == TypeOK /\ VerifyInv /\ [Next]_vars => TypeOK'
<1> SUFFICES ASSUME TypeOK, VerifyInv, [Next]_vars PROVE TypeOK'
    OBVIOUS
<1> USE NoHandleType DEF TypeOK, Locations
<1>1. CASE CreateInstance
    <2>1. 0 \in Nat
        OBVIOUS
    <2>2. CASE sidecar = Missing
        BY <1>1, <2>2 DEF CreateInstance, AttachAlone
    <2>3. CASE sidecar # Missing
        BY <1>1, <2>1, <2>3, OpenedOnType, AcceptedTree DEF CreateInstance, AttachAlone
    <2> QED
        BY <2>2, <2>3
<1>2. ASSUME NEW t \in Threads, BuildFinalize(t) PROVE TypeOK'
    <2>1. setting[t] \in Nat
        BY AttachAssumption
    <2>2. CASE sidecar = Missing
        BY <1>2, <2>2 DEF BuildFinalize, AttachAlone
    <2>3. CASE sidecar # Missing
        BY <1>2, <2>1, <2>3, OpenedOnType, AcceptedTree DEF BuildFinalize, AttachAlone
    <2> QED
        BY <2>2, <2>3
<1>3. ASSUME NEW t \in Threads, TryRewriteTopN(t) PROVE TypeOK'
    BY <1>3 DEF TryRewriteTopN, Begin
<1>4. ASSUME NEW t \in Threads, QueryBind(t) PROVE TypeOK'
    BY <1>4 DEF QueryBind, Begin
<1>5. ASSUME NEW t \in Threads, ReadHandle(t) PROVE TypeOK'
    BY <1>5 DEF ReadHandle
<1>6. ASSUME NEW t \in Threads, Lock(t) PROVE TypeOK'
    BY <1>6 DEF Lock
<1>7. ASSUME NEW t \in Threads, AlreadyAttached(t) PROVE TypeOK'
    BY <1>7 DEF AlreadyAttached, Unlock
<1>8. ASSUME NEW t \in Threads, OpenSidecar(t) PROVE TypeOK'
    <2>1. OpenedOn(setting[t]) \in Handle
        <3>1. setting[t] \in Nat
            BY AttachAssumption
        <3> QED
            BY <3>1, OpenedOnType
    <2> QED
        BY <1>8, <2>1 DEF OpenSidecar
<1>9. ASSUME NEW t \in Threads, OpenFails(t) PROVE TypeOK'
    BY <1>9 DEF OpenFails, Unlock
<1>10. ASSUME NEW t \in Threads, Publish(t) PROVE TypeOK'
    <2>1. local[t].tree \in Files /\ local[t].tree # Missing
        BY <1>10 DEF Publish, VerifyInv, Handle
    <2>2. tree_uuid' \in Uuids
        BY <1>10, <2>1, AcceptedTree DEF Publish
    <2> QED
        BY <1>10, <2>2 DEF Publish, Unlock
<1>11. ASSUME NEW t \in Threads, Reject(t) PROVE TypeOK'
    BY <1>11 DEF Reject, Unlock, Accepts
<1>12. ASSUME NEW t \in Threads, RereadHandle(t) PROVE TypeOK'
    BY <1>12 DEF RereadHandle
<1>13. ASSUME NEW t \in Threads, Search(t) PROVE TypeOK'
    BY <1>13 DEF Search
<1>14. CASE CommitDrop
    BY <1>14 DEF CommitDrop, CloseHandle
<1>15. CASE RemoveSidecar
    BY <1>15 DEF RemoveSidecar, Files
<1>16. CASE CommitDropSerialized
    BY <1>16 DEF CommitDropSerialized
<1>17. CASE Destroy
    BY <1>17 DEF Destroy, CloseHandle
<1>18. CASE ReplaceSidecar
    BY <1>18 DEF ReplaceSidecar
<1>19. CASE UNCHANGED vars
    BY <1>19 DEF vars
<1> QED
    BY <1>1, <1>2, <1>3, <1>4, <1>5, <1>6, <1>7, <1>8, <1>9, <1>10, <1>11, <1>12, <1>13, <1>14,
       <1>15, <1>16, <1>17, <1>18, <1>19 DEF Next, Step

-----------------------------------------------------------------------------
(* The inductive invariant holds initially.                                *)
LEMMA InvInit == Init => IInv
<1> SUFFICES ASSUME Init PROVE IInv
    OBVIOUS
<1>1. TypeOK
    BY TypeInit
<1>2. MutexInv
    BY AttachAssumption DEF Init, MutexInv
<1>3. VerifyInv /\ SearchInv
    BY DEF Init, VerifyInv, SearchInv
<1>4. PublishedInv /\ NoneOpenInv /\ QuietInv
    BY DEF Init, PublishedInv, NoneOpenInv, QuietInv
<1> QED
    BY <1>1, <1>2, <1>3, <1>4 DEF IInv

(* Attaching an entry nobody else has: a handle published is the only one. *)
LEMMA AttachAloneEffect ==
    ASSUME TypeOK, NEW b \in Nat, engine_handle = NoHandle, live = {},
           AttachAlone(b)
    PROVE  /\ engine_handle' = NoHandle => live' = {}
           /\ PublishedInv'
<1>1. CASE sidecar = Missing
    BY <1>1 DEF AttachAlone, PublishedInv
<1>2. CASE sidecar # Missing /\ ~Accepts(sidecar)
    BY <1>2 DEF AttachAlone, PublishedInv
<1>3. CASE sidecar # Missing /\ Accepts(sidecar)
    <2>1. sidecar \in Uuids
        BY <1>3, AcceptedTree DEF TypeOK
    <2>2. OpenedOn(b) # NoHandle /\ OpenedOn(b).tree = sidecar
        BY OpenedOnType
    <2>3. engine_handle' = OpenedOn(b) /\ live' = {OpenedOn(b)}
        BY <1>3 DEF AttachAlone
    <2> QED
        BY <2>1, <2>2, <2>3 DEF PublishedInv
<1> QED
    BY <1>1, <1>2, <1>3

(* Every step preserves the inductive invariant.                           *)
LEMMA InvNext == IInv /\ [Next]_vars => IInv'
<1> SUFFICES ASSUME IInv, [Next]_vars PROVE IInv'
    OBVIOUS
<1>0. TypeOK /\ TypeOK'
    BY TypeNext DEF IInv
<1> DEFINE Rest == MutexInv /\ VerifyInv /\ PublishedInv /\ NoneOpenInv /\ SearchInv /\ QuietInv
<1> USE <1>0 DEF IInv, TypeOK
<1>1. CASE CreateInstance
    <2>1. engine_handle = NoHandle /\ live = {} /\ \A u \in Threads : pc[u] = "idle"
        BY <1>1 DEF CreateInstance, QuietInv, NoneOpenInv
    <2>2. 0 \in Nat
        BY AttachAssumption
    <2>3. PublishedInv' /\ (engine_handle' = NoHandle => live' = {})
        BY <1>1, <2>1, <2>2, AttachAloneEffect DEF CreateInstance
    <2>4. MutexInv' /\ VerifyInv' /\ SearchInv' /\ NoneOpenInv'
        BY <1>1, <2>1, <2>3 DEF CreateInstance, MutexInv, VerifyInv, SearchInv, NoneOpenInv
    <2>5. QuietInv'
        BY <1>1, <2>1 DEF CreateInstance, QuietInv
    <2> QED
        BY <2>3, <2>4, <2>5 DEF Rest
<1>2. ASSUME NEW t \in Threads, BuildFinalize(t) PROVE Rest'
    <2>1. engine_handle = NoHandle /\ live = {} /\ \A u \in Threads : pc[u] = "idle"
        BY <1>2 DEF BuildFinalize, QuietInv, NoneOpenInv
    <2>2. setting[t] \in Nat
        BY AttachAssumption
    <2>3. PublishedInv' /\ (engine_handle' = NoHandle => live' = {})
        BY <1>2, <2>1, <2>2, AttachAloneEffect DEF BuildFinalize
    <2>4. MutexInv' /\ VerifyInv' /\ SearchInv' /\ NoneOpenInv'
        BY <1>2, <2>1, <2>3 DEF BuildFinalize, MutexInv, VerifyInv, SearchInv, NoneOpenInv
    <2>5. QuietInv'
        BY <1>2, <2>1 DEF BuildFinalize, QuietInv, AttachAlone
    <2> QED
        BY <2>3, <2>4, <2>5 DEF Rest
<1>3. ASSUME NEW t \in Threads, TryRewriteTopN(t) PROVE Rest'
    BY <1>3
    DEF Rest, MutexInv, VerifyInv, PublishedInv, NoneOpenInv, SearchInv, QuietInv, TryRewriteTopN,
        Begin
<1>4. ASSUME NEW t \in Threads, QueryBind(t) PROVE Rest'
    BY <1>4
    DEF Rest, MutexInv, VerifyInv, PublishedInv, NoneOpenInv, SearchInv, QuietInv, QueryBind,
        Begin
<1>5. ASSUME NEW t \in Threads, ReadHandle(t) PROVE Rest'
    BY <1>5
    DEF Rest, MutexInv, VerifyInv, PublishedInv, NoneOpenInv, SearchInv, QuietInv, ReadHandle
<1>6. ASSUME NEW t \in Threads, Lock(t) PROVE Rest'
    BY <1>6 DEF Rest, MutexInv, VerifyInv, PublishedInv, NoneOpenInv, SearchInv, QuietInv, Lock
<1>7. ASSUME NEW t \in Threads, AlreadyAttached(t) PROVE Rest'
    BY <1>7
    DEF Rest, MutexInv, VerifyInv, PublishedInv, NoneOpenInv, SearchInv, QuietInv,
        AlreadyAttached, Unlock
<1>8. ASSUME NEW t \in Threads, OpenSidecar(t) PROVE Rest'
    <2>1. setting[t] \in Nat
        BY AttachAssumption
    <2>2. /\ OpenedOn(setting[t]) # NoHandle
          /\ OpenedOn(setting[t]).tree = sidecar
        BY <2>1, OpenedOnType
    <2>3. attach_mutex = t /\ \A u \in Threads : u # t => pc[u] # "verify"
        BY <1>8, AttachAssumption DEF OpenSidecar, MutexInv
    <2>4. live = {} /\ engine_handle = NoHandle
        BY <1>8, <2>3 DEF OpenSidecar, NoneOpenInv
    <2>5. VerifyInv'
        BY <1>8, <2>2, <2>3, <2>4 DEF OpenSidecar, VerifyInv
    <2>6. MutexInv' /\ PublishedInv' /\ NoneOpenInv' /\ SearchInv' /\ QuietInv'
        BY <1>8, <2>3, <2>4 DEF OpenSidecar, MutexInv, PublishedInv, NoneOpenInv,
                                SearchInv, QuietInv
    <2> QED
        BY <2>5, <2>6 DEF Rest
<1>9. ASSUME NEW t \in Threads, OpenFails(t) PROVE Rest'
    BY <1>9
    DEF Rest, MutexInv, VerifyInv, PublishedInv, NoneOpenInv, SearchInv, QuietInv, OpenFails,
        Unlock
<1>10. ASSUME NEW t \in Threads, Publish(t) PROVE Rest'
    <2>1. attach_mutex = t /\ \A u \in Threads : u # t => pc[u] # "verify"
        BY <1>10, AttachAssumption DEF Publish, MutexInv
    <2>2. /\ engine_handle = NoHandle
          /\ live = {local[t]}
          /\ local[t] # NoHandle
          /\ local[t].tree # Missing
        BY <1>10 DEF Publish, VerifyInv
    <2>3. local[t].tree \in Uuids
        BY <1>10, <2>2, AcceptedTree DEF Publish, Handle
    <2>4. PublishedInv' /\ NoneOpenInv' /\ VerifyInv'
        BY <1>10, <2>1, <2>2, <2>3 DEF Publish, Unlock, PublishedInv, NoneOpenInv, VerifyInv
    <2>5. MutexInv' /\ SearchInv' /\ QuietInv'
        BY <1>10, <2>1, <2>2, AttachAssumption DEF Publish, Unlock, MutexInv, SearchInv, QuietInv
    <2> QED
        BY <2>4, <2>5 DEF Rest
<1>11. ASSUME NEW t \in Threads, Reject(t) PROVE Rest'
    BY <1>11
    DEF Rest, MutexInv, VerifyInv, PublishedInv, NoneOpenInv, SearchInv, QuietInv, Reject, Unlock
<1>12. ASSUME NEW t \in Threads, RereadHandle(t) PROVE Rest'
    BY <1>12
    DEF Rest, MutexInv, VerifyInv, PublishedInv, NoneOpenInv, SearchInv, QuietInv, RereadHandle
<1>13. ASSUME NEW t \in Threads, Search(t) PROVE Rest'
    BY <1>13 DEF Rest, MutexInv, VerifyInv, PublishedInv, NoneOpenInv, SearchInv, QuietInv, Search
<1>14. CASE CommitDrop
    BY <1>14
    DEF Rest, MutexInv, VerifyInv, PublishedInv, NoneOpenInv, SearchInv, QuietInv, CommitDrop,
        CloseHandle
<1>15. CASE RemoveSidecar
    BY <1>15
    DEF Rest, MutexInv, VerifyInv, PublishedInv, NoneOpenInv, SearchInv, QuietInv, RemoveSidecar
<1>16. CASE CommitDropSerialized
    BY <1>16
    DEF Rest, MutexInv, VerifyInv, PublishedInv, NoneOpenInv, SearchInv, QuietInv,
        CommitDropSerialized
<1>17. CASE Destroy
    BY <1>17
    DEF Rest, MutexInv, VerifyInv, PublishedInv, NoneOpenInv, SearchInv, QuietInv, Destroy,
        CloseHandle
<1>18. CASE ReplaceSidecar
    BY <1>18
    DEF Rest, MutexInv, VerifyInv, PublishedInv, NoneOpenInv, SearchInv, QuietInv, ReplaceSidecar
<1>19. CASE UNCHANGED vars
    BY <1>19 DEF Rest, MutexInv, VerifyInv, PublishedInv, NoneOpenInv, SearchInv, QuietInv, vars
<1> QED
    BY <1>0, <1>1, <1>2, <1>3, <1>4, <1>5, <1>6, <1>7, <1>8, <1>9, <1>10, <1>11, <1>12, <1>13,
       <1>14, <1>15, <1>16, <1>17, <1>18, <1>19 DEF Next, Step, Rest

(* So it holds in every state of every run.                                *)
LEMMA Invariance == Spec => []IInv
<1> QED
    BY InvInit, InvNext, PTL DEF Spec

-----------------------------------------------------------------------------
(* Every state of every run is well typed: in particular the entry never   *)
(* records an identity that could not be read from a tree.                 *)
THEOREM TypeCorrect == Spec => []TypeOK
<1>1. IInv => TypeOK
    BY DEF IInv
<1> QED
    BY <1>1, Invariance, PTL

(* However many threads race on a cold index, the engine holds at most one *)
(* handle for it: the published one, or the one being verified under       *)
(* attach_mutex (SextantIndex::AttachAndVerify, CloseHandle).              *)
THEOREM ExactlyOnce == Spec => []AttachExactlyOnce
<1>1. IInv => AttachExactlyOnce
    <2> SUFFICES ASSUME IInv PROVE AttachExactlyOnce
        OBVIOUS
    <2>1. CASE engine_handle # NoHandle
        BY <2>1, FS_Singleton DEF IInv, PublishedInv, AttachExactlyOnce
    <2>2. CASE engine_handle = NoHandle /\ \A t \in Threads : pc[t] # "verify"
        BY <2>2, FS_EmptySet DEF IInv, NoneOpenInv, AttachExactlyOnce
    <2>3. CASE \E t \in Threads : pc[t] = "verify"
        <3>1. PICK t \in Threads : pc[t] = "verify"
            BY <2>3
        <3>2. attach_mutex = t /\ live = {local[t]}
            BY <3>1 DEF IInv, MutexInv, VerifyInv
        <3>3. Cardinality(live) <= 1
            BY <3>2, FS_Singleton
        <3>4. \A h \in live : attach_mutex = t /\ pc[t] = "verify" /\ h = local[t]
            BY <3>1, <3>2
        <3> QED
            BY <3>3, <3>4 DEF AttachExactlyOnce
    <2> QED
        BY <2>1, <2>2, <2>3
<1> QED
    BY <1>1, Invariance, PTL

(* While the index is in the catalog no attach of another thread closes    *)
(* the handle a search runs on (InitGlobal of the three scan functions).   *)
THEOREM SearchSafety == Spec => []SearchUntilDrop
<1>1. IInv => SearchUntilDrop
    BY DEF IInv, SearchInv, PublishedInv, SearchUntilDrop
<1> QED
    BY <1>1, Invariance, PTL

(* The destructor leaves no handle open, whatever attaches failed before.  *)
THEOREM TeardownReleases == Spec => []ReleasedAtTeardown
<1>1. IInv => ReleasedAtTeardown
    BY DEF IInv, QuietInv, NoneOpenInv, ReleasedAtTeardown
<1> QED
    BY <1>1, Invariance, PTL

-----------------------------------------------------------------------------
(* SextantAttach implements AttachOnce: whatever the threads do, a tree in *)
(* service is one the identity check accepted, it is put there once, and   *)
(* it leaves only when the index is dropped or the database closed.        *)
THEOREM Refinement == Spec => ImplementsAttachOnce
<1>1. Init => Once!Init
    BY DEF Init, Once!Init, NoHandle, Uuids
<1>2. IInv /\ [Next]_vars => [Once!Next]_Once!vars
    <2> SUFFICES ASSUME IInv, [Next]_vars PROVE [Once!Next]_Once!vars
        OBVIOUS
    <2> DEFINE Same == UNCHANGED Once!vars
    <2>1. ASSUME NEW b \in Nat, status = "unbound", status' \in {"bound", "destroyed"},
                 status' = "destroyed" => ~(sidecar # Missing /\ Accepts(sidecar)),
                 AttachAlone(b)
          PROVE  Once!Next \/ Same
        <3>1. engine_handle.tree = Missing
            BY <2>1 DEF IInv, QuietInv, NoHandle
        <3>2. CASE sidecar = Missing \/ ~Accepts(sidecar)
            <4>1. engine_handle' = engine_handle /\ tree_uuid' = tree_uuid
                BY <3>2, <2>1 DEF AttachAlone
            <4>2. CASE status' = "bound"
                BY <2>1, <4>1, <4>2 DEF Once!vars
            <4>3. CASE status' = "destroyed"
                BY <2>1, <4>1, <4>3 DEF Once!Retire, Once!Next
            <4> QED
                BY <2>1, <4>2, <4>3
        <3>3. CASE sidecar # Missing /\ Accepts(sidecar)
            <4>1. sidecar \in Uuids
                BY <3>3, AcceptedTree DEF IInv, TypeOK
            <4>2. engine_handle'.tree = sidecar /\ tree_uuid' = AdoptedUuid(sidecar)
                BY <2>1, <3>3, OpenedOnType DEF AttachAlone, IInv
            <4>3. Once!Serve(sidecar)
                BY <2>1, <3>1, <3>3, <4>2 DEF Once!Serve, Accepts, AdoptedUuid
            <4> QED
                BY <4>1, <4>3 DEF Once!Next, Uuids
        <3> QED
            BY <3>2, <3>3
    <2>2. CASE CreateInstance
        BY <2>1, <2>2 DEF CreateInstance
    <2>3. ASSUME NEW t \in Threads, BuildFinalize(t) PROVE Once!Next \/ Same
        <3>1. setting[t] \in Nat
            BY AttachAssumption DEF IInv, TypeOK
        <3> QED
            BY <2>1, <2>3, <3>1 DEF BuildFinalize
    <2>4. ASSUME NEW t \in Threads, Publish(t) PROVE Once!Next
        <3>1. engine_handle.tree = Missing /\ local[t].tree # Missing
            BY <2>4 DEF IInv, VerifyInv, Publish, NoHandle
        <3>2. local[t].tree \in Uuids
            BY <2>4, <3>1, AcceptedTree DEF Publish, IInv, TypeOK, Handle
        <3>3. Once!Serve(local[t].tree)
            BY <2>4, <3>1 DEF Publish, Once!Serve, Accepts, AdoptedUuid
        <3> QED
            BY <3>2, <3>3 DEF Once!Next, Uuids
    <2>5. CASE CommitDrop \/ Destroy
        <3>1. engine_handle'.tree \in {engine_handle.tree, Missing}
            BY <2>5 DEF CommitDrop, Destroy, CloseHandle, NoHandle
        <3>2. status' \in {"dropping", "destroyed"} /\ tree_uuid' = tree_uuid
            BY <2>5 DEF CommitDrop, Destroy
        <3> QED
            BY <3>1, <3>2 DEF Once!Retire, Once!Next
    <2>6. CASE CommitDropSerialized
        BY <2>6 DEF CommitDropSerialized, Once!Retire, Once!Next
    <2>7. CASE RemoveSidecar \/ ReplaceSidecar
        BY <2>7 DEF RemoveSidecar, ReplaceSidecar, Once!vars
    <2>8. ASSUME NEW t \in Threads,
                 \/ TryRewriteTopN(t) \/ QueryBind(t)       \/ ReadHandle(t)
                 \/ Lock(t)           \/ AlreadyAttached(t) \/ OpenSidecar(t)
                 \/ OpenFails(t)      \/ Reject(t)          \/ RereadHandle(t)
                 \/ Search(t)
          PROVE  Same
        BY <2>8 DEF Once!vars, TryRewriteTopN, QueryBind, Begin, ReadHandle, Lock,
                    AlreadyAttached, OpenSidecar, OpenFails, Reject, RereadHandle, Search
    <2>9. CASE UNCHANGED vars
        BY <2>9 DEF vars, Once!vars
    <2> QED
        BY <2>2, <2>3, <2>4, <2>5, <2>6, <2>7, <2>8, <2>9 DEF Next, Step
<1> QED
    BY <1>1, <1>2, Invariance, PTL DEF Spec, Once!Spec, ImplementsAttachOnce
=============================================================================
