---------------------------- MODULE MCClientServer ----------------------------
(* Instances of ClientServer for TLC. *)
EXTENDS ClientServer, TLC

NoLinks == {}

Pair == {<<0, 1>>, <<1, 0>>}

\* Replica 1 pulls from replica 0, never the other way round.
OneWay == {<<1, 0>>}

Everywhere == Clients \X Servers

\* All clients join at replica 0.
FirstReplica == Clients \X {0}

\* Clients are only ever compared for equality.
Symmetry == Permutations(Clients)
=============================================================================
