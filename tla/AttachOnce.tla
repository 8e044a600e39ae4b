----------------------------- MODULE AttachOnce -----------------------------
(***************************************************************************)
(* What an index entry promises to the queries that use its sidecar: a     *)
(* tree is put into service at most once at a time, only a tree that       *)
(* carries the identity the entry recorded (the first tree served gives    *)
(* the entry its identity), and a tree in service is never exchanged for   *)
(* another: it leaves service only when the entry is being torn down.      *)
(* Threads, locks, handles and files are the business of SextantAttach,    *)
(* which implements this module.                                           *)
(***************************************************************************)
CONSTANTS Trees,     \* the identities (UUIDs) a tree can carry
          NoUuid,    \* the identity of a tree, or an entry, that has none
          NoTree     \* nothing in service

VARIABLES identity,  \* the identity the entry recorded
          served,    \* the identity of the tree in service
          retired    \* the entry is being torn down

vars == <<identity, served, retired>>

Init == /\ identity \in Trees \cup {NoUuid}
        /\ served = NoTree
        /\ retired = FALSE

(* A tree goes into service; an entry without identity takes the tree's.   *)
Serve(u) == /\ served = NoTree
            /\ \/ identity = NoUuid /\ identity' = u
               \/ identity # NoUuid /\ u \in {identity, NoUuid} /\ identity' = identity
            /\ served' = u
            /\ retired' = retired

(* The teardown begins, or goes on; the tree may leave service.            *)
Retire == /\ retired' = TRUE
          /\ served' \in {served, NoTree}
          /\ identity' = identity

Next == Retire \/ \E u \in Trees \cup {NoUuid} : Serve(u)

Spec == Init /\ [][Next]_vars
=============================================================================
