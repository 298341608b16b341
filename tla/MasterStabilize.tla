--------------------------- MODULE MasterStabilize ---------------------------
(***************************************************************************)
(* stabilize() of master.py: four times over all replicas, and each of     *)
(* them pulls once from every replica it can reach.  Is that enough to     *)
(* bring every write everywhere?  The comment at master.py:171 says it     *)
(* passes the chain test; README.md counts on at most 5 servers.           *)
(*                                                                         *)
(* No put runs meanwhile (the master is busy), but the periodic threads    *)
(* do.  stabilize_lock keeps the two rounds of a replica apart.  What a    *)
(* replica knows is its vector clock, which NoWriteLost of ReplicaServer   *)
(* makes good for the log.                                                 *)
(***************************************************************************)
EXTENDS WriteLog, FiniteSets

CONSTANTS
  Topologies,   \* set of [Servers -> set of replicas it pulls from]
  Written,      \* [Servers -> Nat]: the writes each has accepted by itself
  MaxRounds     \* bound: rounds of periodic threads in a behaviour

ASSUME TopologiesAssumption == Topologies \subseteq [Servers -> SUBSET Servers]

ASSUME WrittenAssumption == Written \in [Servers -> Nat] /\ MaxRounds \in Nat

ASSUME SomeServer == Servers # {}

VARIABLES
  reachable,     \* [Servers -> set of replicas], one of Topologies
  vector_clock,  \* [Servers -> vector clock]
  runner,        \* [Servers -> who runs stabilize() of the replica]
  to_ask,        \* [Servers -> set of replicas]: left in its loop
  answer,        \* [Servers -> vector clock]: of the answer not yet merged
  done,          \* the replicas the master has been at in this pass
  passes,        \* passes that are over
  rounds,        \* periodic rounds so far
  near           \* history: for each replica those that passes over connect it to

pull_vars == <<reachable, vector_clock, runner, to_ask, answer>>
pass_vars == <<done, passes, near>>
vars == <<pull_vars, pass_vars, rounds>>

PassesThree == 3   \* mutant
Passes == 4

TypeOK ==
  /\ reachable \in Topologies
  /\ vector_clock \in [Servers -> VectorClocks]
  /\ runner \in [Servers -> {"nobody", "periodic", "master"}]
  /\ to_ask \in [Servers -> SUBSET Servers]
  /\ answer \in [Servers -> VectorClocks]
  /\ done \subseteq Servers
  /\ passes \in 0 .. Passes
  /\ rounds \in 0 .. MaxRounds
  /\ near \in [Servers -> SUBSET Servers]

(* The worst case: every replica knows nothing but its own writes. *)
Init ==
  /\ reachable \in Topologies
  /\ vector_clock = [r \in Servers |-> [NoClock EXCEPT ![r] = Written[r]]]
  /\ runner = [r \in Servers |-> "nobody"]
  /\ to_ask = [r \in Servers |-> {}]
  /\ answer = [r \in Servers |-> NoClock]
  /\ done = {} /\ passes = 0 /\ rounds = 0
  /\ near = [r \in Servers |-> {r}]

-----------------------------------------------------------------------------
(* stabilize() of replica r, with stabilize_lock, up to its loop. *)
Begin(r, who) ==
  /\ runner[r] = "nobody"
  /\ runner' = [runner EXCEPT ![r] = who]
  /\ to_ask' = [to_ask EXCEPT ![r] = reachable[r]]
  /\ UNCHANGED <<reachable, vector_clock, answer>>

(* The master is one thread: the next call follows the end of the last. *)
MasterCallTooOften(r) ==   \* mutant: one pass more
  /\ passes <= Passes
  /\ r \notin done /\ \A q \in Servers : runner[q] # "master"
  /\ Begin(r, "master")
  /\ UNCHANGED <<pass_vars, rounds>>

MasterCall(r) ==
  /\ passes < Passes
  /\ r \notin done /\ \A q \in Servers : runner[q] # "master"
  /\ Begin(r, "master")
  /\ UNCHANGED <<pass_vars, rounds>>

PeriodicRound(r) ==
  /\ rounds < MaxRounds
  /\ Begin(r, "periodic")
  /\ rounds' = rounds + 1
  /\ UNCHANGED pass_vars

(* The answer says what s knows when it answers; it is merged later.  (An  *)
(* answer that says nothing need not be.)                                  *)
Ask(r, s) ==
  /\ answer[r] = NoClock /\ s \in to_ask[r]
  /\ answer' = [answer EXCEPT ![r] = vector_clock[s]]
  /\ to_ask' = [to_ask EXCEPT ![r] = @ \ {s}]
  /\ UNCHANGED <<reachable, vector_clock, runner, pass_vars, rounds>>

MergeReplaces(r) ==   \* mutant: the answer's clock in place of the maximum
  /\ answer[r] # NoClock
  /\ vector_clock' = [vector_clock EXCEPT ![r] = answer[r]]
  /\ answer' = [answer EXCEPT ![r] = NoClock]
  /\ UNCHANGED <<reachable, runner, to_ask, pass_vars, rounds>>

Merge(r) ==
  /\ answer[r] # NoClock
  /\ vector_clock' = [vector_clock EXCEPT ![r] = MergeClocks(@, answer[r])]
  /\ answer' = [answer EXCEPT ![r] = NoClock]
  /\ UNCHANGED <<reachable, runner, to_ask, pass_vars, rounds>>

EndRound(r) ==
  /\ runner[r] # "nobody" /\ to_ask[r] = {} /\ answer[r] = NoClock
  /\ runner' = [runner EXCEPT ![r] = "nobody"]
  /\ done' = IF runner[r] = "master" THEN done \cup {r} ELSE done
  /\ UNCHANGED <<reachable, vector_clock, to_ask, answer, passes, near, rounds>>

EndPass ==
  /\ done = Servers
  /\ done' = {}
  /\ passes' = passes + 1
  /\ near' = [r \in Servers |-> near[r] \cup UNION {near[q] : q \in reachable[r]}]
  /\ UNCHANGED <<pull_vars, rounds>>

Next ==
  \/ \E r \in Servers :
       \/ MasterCall(r) \/ PeriodicRound(r)
       \/ \E s \in Servers : Ask(r, s)
       \/ Merge(r) \/ EndRound(r)
  \/ EndPass

Spec == Init /\ [][Next]_vars

-----------------------------------------------------------------------------
Knows(r, s) == Written[s] <= vector_clock[r][s]

(***************************************************************************)
(* Each pass of master.py:173 carries every write at least one link        *)
(* further, in whatever order the replicas come and whatever the periodic  *)
(* threads do: a replica knows the writes of all those that as many links  *)
(* away as passes are over.                                                *)
(***************************************************************************)
PassCarriesOneLink == \A r \in Servers : \A s \in near[r] : Knows(r, s)

(***************************************************************************)
(* "need to loop through this 4 times to pass the chain test"              *)
(* (master.py:171): when the four passes are over everyone has every       *)
(* write.  That is so of topologies in one piece: whoever some, not all,   *)
(* of the replicas are, one of the rest pulls from one of them.  Of those  *)
(* it is so up to five replicas, the most README.md counts on.             *)
(***************************************************************************)
FourPassesReachAll == passes = Passes => \A r, s \in Servers : Knows(r, s)

InOnePiece(topology) ==
  \A S \in SUBSET Servers :
    S # {} /\ S # Servers => \E r \in Servers \ S : topology[r] \cap S # {}

FewServers == IsFiniteSet(Servers) /\ Cardinality(Servers) <= 5
=============================================================================
