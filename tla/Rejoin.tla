-------------------------------- MODULE Rejoin --------------------------------
(***************************************************************************)
(* killServer and joinServer of one ID, again and again, as                *)
(* tests/fast-frankenstein.txt does: the process that comes back has an    *)
(* empty log and accept_time 0, while the clocks of the others cover what  *)
(* the old one accepted.  A put at the new process before its first round  *)
(* uses an old stamp again.  What has to be so for that not to happen?     *)
(*                                                                         *)
(* The other steps are those of ReplicaServer.  The master puts nothing    *)
(* while it is at one of these commands.                                   *)
(*                                                                         *)
(* Two entries with one stamp lie in a log in the order in which sorted()  *)
(* finds them, which a set does not say: a behaviour is true to the code   *)
(* up to the first stamp that is used again.                               *)
(***************************************************************************)
EXTENDS ReplicaServer

CONSTANTS
  Victim,     \* the ID that is killed and joined
  MaxKills    \* bound: kills in a behaviour

ASSUME VictimAssumption == Victim \in Servers /\ MaxKills \in Nat

VARIABLES
  stage,   \* of the victim: "up", "leaving", "down" or "joining"
  heard,   \* the replicas whose answers it has merged since it joined
  kills,   \* kills so far
  lost,    \* history: entries no other replica had learned of when a process ended
  early    \* history: the victim has taken a put before it had heard the others

life_vars == <<stage, heard, kills, lost>>
rejoin_vars == <<life_vars, early>>
all_vars == <<vars, rejoin_vars>>

Others == Servers \ {Victim}

RejoinInit ==
  /\ Init
  /\ stage = "up" /\ heard = Others /\ kills = 0
  /\ lost = {} /\ early = FALSE

-----------------------------------------------------------------------------
(* killServer: removeConnection at every replica, each after its round. *)
KillServer ==
  /\ stage = "up" /\ kills < MaxKills
  /\ stage' = "leaving" /\ kills' = kills + 1
  /\ UNCHANGED <<vars, heard, lost, early>>

Disconnect(r) ==
  /\ stage = "leaving" /\ Victim \in reachable[r] /\ ~ InRound(r)
  /\ reachable' = [reachable EXCEPT ![r] = @ \ {Victim}]
  /\ UNCHANGED <<replica_vars, round_vars, accepted, rejoin_vars>>

(***************************************************************************)
(* The process ends, also in the middle of a round, with all it knew.      *)
(* Lost is what no other replica's clock covers, also where another has a  *)
(* newer write of the client: only who has learned of the old entry moves  *)
(* the new process past its accept time.                                   *)
(***************************************************************************)
Terminate ==
  /\ stage = "leaving" /\ \A r \in Servers : Victim \notin reachable[r]
  /\ stage' = "down"
  /\ lost' = lost \cup {w \in accepted : \A r \in Others : ~ Covers(vector_clock[r], w)}
  /\ write_log' = [write_log EXCEPT ![Victim] = {}]
  /\ kv_store' = [kv_store EXCEPT ![Victim] = [k \in Keys |-> NoValue]]
  /\ vector_clock' = [vector_clock EXCEPT ![Victim] = NoClock]
  /\ accept_time' = [accept_time EXCEPT ![Victim] = 0]
  /\ reachable' = [reachable EXCEPT ![Victim] = {}]
  /\ to_ask' = [to_ask EXCEPT ![Victim] = {}]
  /\ phase' = [phase EXCEPT ![Victim] = "idle"]
  /\ peer' = [peer EXCEPT ![Victim] = Victim]
  /\ request_clock' = [request_clock EXCEPT ![Victim] = NoClock]
  /\ response' = [response EXCEPT ![Victim] = NoResult]
  /\ UNCHANGED <<accepted, heard, kills, early>>

-----------------------------------------------------------------------------
(* joinServer: each replica and the new one are connected, both ways. *)
JoinServer ==
  /\ stage = "down"
  /\ stage' = "joining" /\ heard' = {}
  /\ UNCHANGED <<vars, kills, lost, early>>

Connect(r, s) ==
  /\ stage = "joining" /\ s \notin reachable[r] /\ ~ InRound(r)
  /\ \/ r \in Others /\ s = Victim
     \/ r = Victim /\ s \in Others /\ Victim \in reachable[s]
  /\ reachable' = [reachable EXCEPT ![r] = @ \cup {s}]
  /\ UNCHANGED <<replica_vars, round_vars, accepted, rejoin_vars>>

ConnectedToSome == reachable[Victim] # {}   \* mutant: one connection will do

ConnectedToAll == Others \subseteq reachable[Victim]

Joined ==
  /\ stage = "joining" /\ ConnectedToAll
  /\ stage' = "up"
  /\ UNCHANGED <<vars, heard, kills, lost, early>>

-----------------------------------------------------------------------------
(***************************************************************************)
(* Clients write when the master is at no command: also at the victim, and *)
(* also before it has heard those it can reach, in the quarter second the  *)
(* periodic thread sleeps before its first round.                          *)
(***************************************************************************)
HasHeard == stage = "up" /\ reachable[Victim] \subseteq heard

RejoinWrite(r) ==
  /\ stage \in {"up", "down"}
  /\ r = Victim => stage = "up"
  /\ ClientWrite(r)
  /\ early' = (early \/ (r = Victim /\ ~ HasHeard))
  /\ UNCHANGED life_vars

RejoinMerge(r) ==
  /\ MergeResult(r)
  /\ heard' = IF r = Victim THEN heard \cup {peer[r]} ELSE heard
  /\ UNCHANGED <<stage, kills, lost, early>>

RejoinAsk(r) ==
  /\ BeginRound(r) \/ \E s \in Servers : SendRequest(r, s) \/ AntiEntropyRequest(s, r)
  /\ UNCHANGED rejoin_vars

RejoinNext ==
  \/ KillServer \/ Terminate \/ JoinServer \/ Joined
  \/ \E r \in Servers :
       \/ Disconnect(r) \/ RejoinWrite(r) \/ RejoinAsk(r) \/ RejoinMerge(r)
       \/ \E s \in Servers : Connect(r, s)

RejoinSpec == RejoinInit /\ [][RejoinNext]_all_vars

-----------------------------------------------------------------------------
(***************************************************************************)
(* README.md:7: accept time and replica ID are a total order of the writes *)
(* over all replicas, "a monotonically increasing number".                 *)
(***************************************************************************)
StampsStayUnique ==
  \A x, y \in accepted \ lost :
    x.accept_time = y.accept_time /\ x.replica_id = y.replica_id => x = y

(***************************************************************************)
(* They stay one over the lives of a server that always writes only after  *)
(* it has heard everyone it can reach: it uses no stamp of an entry anyone *)
(* knows of, although the clock of one peer alone may lag far behind what  *)
(* its predecessor accepted.                                               *)
(***************************************************************************)
UniqueIfHeard == ~ early => StampsStayUnique

(***************************************************************************)
(* What the clocks of the others cover of the old process is no reason to  *)
(* miss what the new one accepts, and the new one gets the old one's       *)
(* writes back: NoWriteLost over kills and joins, under the same condition *)
(* (a put before that is covered by clocks of replicas that never get it). *)
(***************************************************************************)
HeldBy(r, w) == w \in write_log[r] \/ Superseded(w, write_log[r])

NoneLostIfHeard ==
  ~ early => \A r \in Servers : \A w \in accepted \ lost :
               Covers(vector_clock[r], w) => HeldBy(r, w)
=============================================================================
