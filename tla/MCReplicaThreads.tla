-------------------------- MODULE MCReplicaThreads --------------------------
(* Instances of ReplicaThreads for TLC. *)
EXTENDS ReplicaThreads, TLC

\* Two replicas that pull from each other.
Mutual == (0 :> {1}) @@ (1 :> {0})
=============================================================================
