--------------------------- MODULE DurableIdentity ---------------------------
(***************************************************************************)
(* What an index promises about the identity of its tree from its CREATE   *)
(* to its DROP, whatever crashes and restarts come between.  The catalog   *)
(* records an identity; the running entry goes by one; a tree may be in    *)
(* service.  An entry that has an identity serves only a tree that carries *)
(* it (or none), and a checkpoint records what the entry goes by, so that  *)
(* once an identity is in checkpointed storage the index has it for life.  *)
(* Before that the entry may come back without: its log may be replayed    *)
(* from the options alone.  Files, handles, statements and the log are the *)
(* business of SextantLifecycle, which implements this module.             *)
(***************************************************************************)
CONSTANTS Uuids,    \* identities a tree can carry, the empty one included
          NoUuid,   \* the empty identity
          NoTree,   \* nothing in service
          NoIndex   \* no index in the catalog

VARIABLES recorded,  \* the identity the catalog holds
          durable,   \* a checkpoint put it there
          identity,  \* the identity the running entry goes by
          serving    \* the identity of the tree in service

vars == <<recorded, durable, identity, serving>>

Init == /\ recorded = NoIndex
        /\ durable = FALSE
        /\ identity = NoIndex
        /\ serving = NoTree

(* An index begins with the tree it is created on in service.              *)
Create(u) == /\ recorded = NoIndex
             /\ recorded' = u /\ identity' = u /\ serving' = u
             /\ durable' = FALSE

(* A tree goes into service; an entry without identity takes the tree's.   *)
Attach(u) == /\ serving = NoTree
             /\ \/ identity = NoUuid /\ identity' = u
                \/ u \in {identity, NoUuid} /\ identity' = identity
             /\ serving' = u

Serve(u) == /\ recorded # NoIndex
            /\ Attach(u)
            /\ UNCHANGED <<recorded, durable>>

(* A checkpoint, which may be the first to attach the tree.                *)
Record == /\ recorded # NoIndex
          /\ UNCHANGED <<identity, serving>> \/ (\E u \in Uuids : Attach(u))
          /\ recorded' = identity'
          /\ durable' = TRUE

(* The process goes away, or comes back.                                   *)
Lose == /\ recorded # NoIndex
        /\ serving' = NoTree
        /\ identity' = recorded \/ (~durable /\ identity' = NoUuid)
        /\ UNCHANGED <<recorded, durable>>

Drop == /\ recorded' = NoIndex
        /\ durable' = FALSE
        /\ identity' = NoIndex
        /\ serving' = NoTree

Next == \/ \E u \in Uuids : Create(u) \/ Serve(u)
        \/ Record \/ Lose \/ Drop

Spec == Init /\ [][Next]_vars
=============================================================================
