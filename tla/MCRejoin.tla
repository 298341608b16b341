------------------------------ MODULE MCRejoin ------------------------------
EXTENDS Rejoin, TLC

NoLinks == {}

\* The victim and each of the others ask each other; the master has broken
\* the connections between the others.
Star == {p \in Servers \X Servers : p[1] # p[2] /\ Victim \in {p[1], p[2]}}

Symmetry == Permutations(Clients) \cup Permutations(Values)
=============================================================================
