-------------------------- MODULE MCMasterStabilize --------------------------
(* Instances of MasterStabilize for TLC. *)
EXTENDS MasterStabilize

Links(edges) == [r \in Servers |-> {s \in Servers : {r, s} \in edges}]

\* The trees of five replicas (every connected topology contains one of
\* them, up to the names of the replicas) and the cycle.
Trees ==
  {Links({{0, 1}, {1, 2}, {2, 3}, {3, 4}}),
   Links({{0, 1}, {1, 2}, {2, 3}, {2, 4}}),
   Links({{0, 1}, {0, 2}, {0, 3}, {0, 4}}),
   Links({{0, 1}, {1, 2}, {2, 3}, {3, 4}, {4, 0}})}

(* What the theorem on FourPassesReachAll supposes is so here. *)
ASSUME ChainAssumption == FewServers /\ \A t \in Topologies : InOnePiece(t)

OneEach == [r \in Servers |-> 1]
=============================================================================
