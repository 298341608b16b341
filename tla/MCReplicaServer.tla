--------------------------- MODULE MCReplicaServer ---------------------------
(* Instances of ReplicaServer for TLC. *)
EXTENDS ReplicaRefinement, TLC

NoLinks == {}

\* Two replicas that ask each other; the master breaks and makes both ways.
Pair == {<<0, 1>>, <<1, 0>>}

\* A cycle: each pulls from the next one only, so that what replica 0
\* accepts gets to 1 only through 2.
Ring == {<<0, 1>>, <<1, 2>>, <<2, 0>>}

\* Clients and values are only ever compared for equality.
Symmetry == Permutations(Clients) \cup Permutations(Values)
=============================================================================
