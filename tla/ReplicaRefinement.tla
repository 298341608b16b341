-------------------------- MODULE ReplicaRefinement --------------------------
(***************************************************************************)
(* The replicas implement ReplicatedStore.  A replica has seen what its    *)
(* vector clock covers: that is all it needs to remember of the entries it *)
(* pruned, and the replay of the pruned log is the store of them all.      *)
(***************************************************************************)
EXTENDS ReplicaServer

Seen(r) == {w \in accepted : Covers(vector_clock[r], w)}

Abstract == INSTANCE ReplicatedStore WITH
  seen  <- [r \in Servers |-> Seen(r)],
  store <- kv_store

(* Every behaviour of the replicas is one of ReplicatedStore. *)
ImplementsReplicatedStore == Abstract!Spec
=============================================================================
