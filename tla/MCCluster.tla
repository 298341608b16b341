------------------------------ MODULE MCCluster ------------------------------
EXTENDS Cluster

CONSTANTS s1, s2, c1

(* One command for a replica with a client, for two replicas, for all three. *)
OneCommand == [started \in {{s1, c1}, {s1, s2}, {s1, s2, c1}} |-> 1]

(***************************************************************************)
(* Nothing tells s1 and s2 apart.  Of two initial states and commands that *)
(* differ only in which of the two is which, one is enough: that in which  *)
(* s1 is called first.                                                     *)
(***************************************************************************)
Calls(s) == {i \in DOMAIN todo : todo[i].to = s /\ todo[i].op # "terminate"}
FirstS1 == \A i \in Calls(s1), j \in Calls(s2) : i < j
=============================================================================
