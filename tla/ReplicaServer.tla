---------------------------- MODULE ReplicaServer ----------------------------
(***************************************************************************)
(* The replicas of replica_server.py at the grain of their remote calls.   *)
(*                                                                         *)
(* A step is one RPC handler or one section of stabilize() between two     *)
(* remote calls.  While a replica waits for the answer to its              *)
(* anti-entropy request its server thread goes on accepting writes and     *)
(* answering other replicas, and the replica it asked does the same before *)
(* and after it answers: those interleavings are all here.  The switches   *)
(* between the two threads of ONE replica inside a handler are not.        *)
(*                                                                         *)
(* Clients and the master are the environment: any client writes anywhere  *)
(* with any client_time above those it used before, and any connection in  *)
(* Links is made or broken at any time its locks allow.                    *)
(***************************************************************************)
EXTENDS WriteLog, FiniteSets

CONSTANTS
  InitialLinks,    \* the pairs <<r, s>> with s reachable from r at the start
  Links,           \* the pairs the master connects and disconnects afterwards
  MaxWrites        \* bound: write() calls in a behaviour

(* master.py never connects a replica with itself. *)
ASSUME LinksAssumption ==
  InitialLinks \cup Links \subseteq {p \in Servers \X Servers : p[1] # p[2]}

ASSUME MaxWritesAssumption == MaxWrites \in Nat

VARIABLES
  write_log,       \* [Servers -> set of entries]   self.write_log
  kv_store,        \* [Servers -> store]            self.kv_store
  vector_clock,    \* [Servers -> vector clock]     self.vector_clock
  accept_time,     \* [Servers -> Nat]              self.accept_time
  reachable,       \* [Servers -> set of replicas]  self.reachable
  to_ask,          \* [Servers -> set of replicas]  left in the loop of stabilize()
  phase,           \* [Servers -> phase]            of the current request
  peer,            \* [Servers -> replica]          server_id of that loop
  request_clock,   \* [Servers -> vector clock]     sent with the request
  response,        \* [Servers -> result]           its AntiEntropyResult
  accepted         \* history: every entry any write() has created

replica_vars == <<write_log, kv_store, vector_clock, accept_time>>
round_vars   == <<to_ask, phase, peer, request_clock, response>>
vars == <<replica_vars, reachable, round_vars, accepted>>

Results == [new_writes : SUBSET Entries, vector_clock : VectorClocks, accept_time : Nat]

NoResult == [new_writes |-> {}, vector_clock |-> NoClock, accept_time |-> 0]

Phases == {"idle", "requested", "answered"}

TypeOK ==
  /\ write_log \in [Servers -> SUBSET Entries]
  /\ kv_store \in [Servers -> Stores]
  /\ vector_clock \in [Servers -> VectorClocks]
  /\ accept_time \in [Servers -> Nat]
  /\ reachable \in [Servers -> SUBSET Servers]
  /\ to_ask \in [Servers -> SUBSET Servers]
  /\ phase \in [Servers -> Phases]
  /\ peer \in [Servers -> Servers]
  /\ request_clock \in [Servers -> VectorClocks]
  /\ response \in [Servers -> Results]
  /\ accepted \in SUBSET Entries

(***************************************************************************)
(* __init__ of every replica, after the first connections were made.       *)
(***************************************************************************)
Init ==
  /\ write_log = [r \in Servers |-> {}]
  /\ kv_store = [r \in Servers |-> [k \in Keys |-> NoValue]]
  /\ vector_clock = [r \in Servers |-> NoClock]
  /\ accept_time = [r \in Servers |-> 0]
  /\ reachable = [r \in Servers |-> {s \in Servers : <<r, s>> \in InitialLinks}]
  /\ to_ask = [r \in Servers |-> {}]
  /\ phase = [r \in Servers |-> "idle"]
  /\ peer = [r \in Servers |-> r]
  /\ request_clock = [r \in Servers |-> NoClock]
  /\ response = [r \in Servers |-> NoResult]
  /\ accepted = {}

-----------------------------------------------------------------------------
(***************************************************************************)
(* write(key, value, cid, client_time)                                     *)
(***************************************************************************)
NewEntrySwapped(r, key, value, cid, client_time) ==   \* mutant: IDs swapped
  [key |-> key, value |-> value, accept_time |-> accept_time[r],
   replica_id |-> cid, client_id |-> r, client_time |-> client_time]

NewEntry(r, key, value, cid, client_time) ==
  [key |-> key, value |-> value, accept_time |-> accept_time[r],
   replica_id |-> r, client_id |-> cid, client_time |-> client_time]

WriteSameTime(r, key, value, cid, client_time) ==   \* mutant: no accept_time += 1
  LET w == NewEntry(r, key, value, cid, client_time) IN
  /\ write_log' = [write_log EXCEPT ![r] = @ \cup {w}]
  /\ kv_store' = [kv_store EXCEPT ![r][key] = value]
  /\ vector_clock' = [vector_clock EXCEPT ![r][r] = accept_time[r] + 1]
  /\ accepted' = accepted \cup {w}
  /\ UNCHANGED <<accept_time, reachable, round_vars>>

Write(r, key, value, cid, client_time) ==
  LET w == NewEntry(r, key, value, cid, client_time) IN
  /\ write_log' = [write_log EXCEPT ![r] = @ \cup {w}]
  /\ kv_store' = [kv_store EXCEPT ![r][key] = value]
  /\ accept_time' = [accept_time EXCEPT ![r] = @ + 1]
  /\ vector_clock' = [vector_clock EXCEPT ![r][r] = accept_time'[r]]
  /\ accepted' = accepted \cup {w}
  /\ UNCHANGED <<reachable, round_vars>>

(* What a ClientHandler guarantees: its time counter only grows. *)
FreshClientTime(cid, client_time) ==
  \A w \in accepted : w.client_id = cid => w.client_time < client_time

ClientWrite(r) ==
  /\ Cardinality(accepted) < MaxWrites
  /\ \E key \in Keys, value \in Values, cid \in Clients, t \in ClientTimes :
       /\ FreshClientTime(cid, t)
       /\ Write(r, key, value, cid, t)

(***************************************************************************)
(* read(key, cid, client_vector_clock) changes nothing a behaviour can     *)
(* see.  It answers ERR_DEP unless this replica's clock has reached the    *)
(* client's in every entry; then ERR_KEY or the stored value.              *)
(***************************************************************************)
Serves(r, client_clock) == ClockLeq(client_clock, vector_clock[r])

-----------------------------------------------------------------------------
(***************************************************************************)
(* stabilize().  The reachable_lock is held for the whole round, so the    *)
(* set iterated over is the one the round starts with, and a second call   *)
(* waits on the stabilize_lock until the round is over.                    *)
(***************************************************************************)
InRound(r) == to_ask[r] # {} \/ phase[r] # "idle"

BeginRound(r) ==
  /\ ~ InRound(r)
  /\ reachable[r] # {}
  /\ to_ask' = [to_ask EXCEPT ![r] = reachable[r]]
  /\ UNCHANGED <<replica_vars, reachable, phase, peer, request_clock, response, accepted>>

(* A copy of the clock goes out with the request. *)
SendRequest(r, s) ==
  /\ phase[r] = "idle"
  /\ s \in to_ask[r]
  /\ to_ask' = [to_ask EXCEPT ![r] = @ \ {s}]
  /\ phase' = [phase EXCEPT ![r] = "requested"]
  /\ peer' = [peer EXCEPT ![r] = s]
  /\ request_clock' = [request_clock EXCEPT ![r] = vector_clock[r]]
  /\ UNCHANGED <<replica_vars, reachable, response, accepted>>

(***************************************************************************)
(* antiEntropyRequest(other_server_id, other_server_vector_clock), run by  *)
(* the server thread of s for the replica r that called it.                *)
(***************************************************************************)
AntiEntropyRequestOwnOnly(s, r) ==   \* mutant: passes on only its own writes
  /\ phase[r] = "requested"
  /\ peer[r] = s
  /\ response' = [response EXCEPT ![r] =
       [new_writes |-> {w \in NewWritesFor(write_log[s], request_clock[r]) : w.replica_id = s},
        vector_clock |-> [NoClock EXCEPT ![s] = vector_clock[s][s]],
        accept_time |-> accept_time[s]]]
  /\ phase' = [phase EXCEPT ![r] = "answered"]
  /\ request_clock' = [request_clock EXCEPT ![r] = NoClock]
  /\ UNCHANGED <<replica_vars, reachable, to_ask, peer, accepted>>

AntiEntropyRequest(s, r) ==
  /\ phase[r] = "requested"
  /\ peer[r] = s
  /\ response' = [response EXCEPT ![r] =
       [new_writes |-> NewWritesFor(write_log[s], request_clock[r]),
        vector_clock |-> vector_clock[s],
        accept_time |-> accept_time[s]]]
  /\ phase' = [phase EXCEPT ![r] = "answered"]
  /\ request_clock' = [request_clock EXCEPT ![r] = NoClock]
  /\ UNCHANGED <<replica_vars, reachable, to_ask, peer, accepted>>

(* The part of stabilize() under self.lock: merge the answer of the peer. *)
EndRequest(r) ==
  /\ phase' = [phase EXCEPT ![r] = "idle"]
  /\ peer' = [peer EXCEPT ![r] = r]
  /\ response' = [response EXCEPT ![r] = NoResult]
  /\ UNCHANGED <<reachable, to_ask, request_clock, accepted>>

MergeResultOwnTime(r) ==   \* mutant: accept_time not moved past the peer's
  LET res == response[r] IN
  /\ phase[r] = "answered"
  /\ write_log' = [write_log EXCEPT ![r] = AddNewWrites(@, res.new_writes)]
  /\ kv_store' = [kv_store EXCEPT ![r] = Replay(write_log'[r])]
  /\ vector_clock' = [vector_clock EXCEPT ![r] = MergeClocks(@, res.vector_clock)]
  /\ accept_time' = accept_time
  /\ EndRequest(r)

MergeResultPatches(r) ==   \* mutant: the new writes replayed on the old store
  LET res == response[r] IN
  /\ phase[r] = "answered"
  /\ write_log' = [write_log EXCEPT ![r] = AddNewWrites(@, res.new_writes)]
  /\ kv_store' = [kv_store EXCEPT ![r] =
       [k \in Keys |-> IF OnKey(res.new_writes, k) = {} THEN @[k]
                       ELSE Replay(res.new_writes)[k]]]
  /\ vector_clock' = [vector_clock EXCEPT ![r] = MergeClocks(@, res.vector_clock)]
  /\ accept_time' = [accept_time EXCEPT ![r] = Maximum(@, res.accept_time)]
  /\ EndRequest(r)

MergeResult(r) ==
  LET res == response[r] IN
  /\ phase[r] = "answered"
  /\ write_log' = [write_log EXCEPT ![r] = AddNewWrites(@, res.new_writes)]
  /\ kv_store' = IF res.new_writes = {} THEN kv_store
                 ELSE [kv_store EXCEPT ![r] = Replay(write_log'[r])]
  /\ vector_clock' = [vector_clock EXCEPT ![r] = MergeClocks(@, res.vector_clock)]
  /\ accept_time' = [accept_time EXCEPT ![r] = Maximum(@, res.accept_time)]
  /\ EndRequest(r)

-----------------------------------------------------------------------------
(***************************************************************************)
(* addConnection and removeConnection change the reachable set under the   *)
(* reachable_lock: never during a round of the same replica.               *)
(***************************************************************************)
AddConnection(r, s) ==
  /\ <<r, s>> \in Links
  /\ ~ InRound(r)
  /\ reachable' = [reachable EXCEPT ![r] = @ \cup {s}]
  /\ UNCHANGED <<replica_vars, round_vars, accepted>>

RemoveConnection(r, s) ==
  /\ <<r, s>> \in Links
  /\ s \in reachable[r]
  /\ ~ InRound(r)
  /\ reachable' = [reachable EXCEPT ![r] = @ \ {s}]
  /\ UNCHANGED <<replica_vars, round_vars, accepted>>

Stabilize(r) ==
  \/ BeginRound(r)
  \/ \E s \in Servers : SendRequest(r, s) \/ AntiEntropyRequest(s, r)
  \/ MergeResult(r)

Next ==
  \E r \in Servers :
    \/ ClientWrite(r)
    \/ Stabilize(r)
    \/ \E s \in Servers : AddConnection(r, s) \/ RemoveConnection(r, s)

Spec == Init /\ [][Next]_vars

(***************************************************************************)
(* periodicAntiEntropy starts a round every quarter second for ever, and   *)
(* what a round waits for is there: the lock a peer takes to answer is     *)
(* held by no thread that waits for an answer itself.                      *)
(***************************************************************************)
FairSpec == Spec /\ \A r \in Servers : WF_vars(Stabilize(r))

-----------------------------------------------------------------------------
(***************************************************************************)
(* The logical clock works: a replica's accept_time is past every entry of *)
(* its log and everything its vector clock says of any replica, so that    *)
(* the next write sorts after all the replica has.  write() trusts this    *)
(* when it appends without sorting and stores without replaying.           *)
(***************************************************************************)
AcceptTimeAhead ==
  \A r \in Servers :
    /\ \A w \in write_log[r] : w.accept_time < accept_time[r]
    /\ \A s \in Servers : vector_clock[r][s] <= accept_time[r]

(***************************************************************************)
(* The pair (accept time, replica ID) of an entry is its alone, so that    *)
(* compareWriteLogEntries is a total order of all entries ever accepted.   *)
(***************************************************************************)
UniqueStamps ==
  \A x, y \in accepted :
    x.accept_time = y.accept_time /\ x.replica_id = y.replica_id => x = y

(***************************************************************************)
(* A replica never claims a write it lost: an entry its vector clock       *)
(* covers (so that no peer will send it again) is in its log, or was       *)
(* pruned for a newer entry of that client and key which is in its log.    *)
(* This ties the clocks antiEntropyRequest filters by to what              *)
(* addNewWritesToWriteLog keeps, through delayed and stale answers.        *)
(***************************************************************************)
NoWriteLost ==
  \A r \in Servers : \A w \in accepted :
    Covers(vector_clock[r], w) =>
      w \in write_log[r] \/ Superseded(w, write_log[r])

(***************************************************************************)
(* In no log does an entry sort before one of the same client and key that *)
(* it overwrites: replaying the log ends with the client's newer value.    *)
(* The pruning, which compares received entries with the log but never     *)
(* received entries with each other, must be enough for that.              *)
(***************************************************************************)
SessionOrder ==
  \A r \in Servers : \A x, y \in write_log[r] : Overwrites(x, y) => Before(y, x)

(***************************************************************************)
(* The store a replica serves reads from is the replay of its log, though  *)
(* write() patches it and stabilize() rebuilds it only for a non-empty     *)
(* answer.                                                                 *)
(***************************************************************************)
KvStoreIsReplay == \A r \in Servers : kv_store[r] = Replay(write_log[r])

(***************************************************************************)
(* Convergence: replicas that have heard the same (equal vector clocks)    *)
(* serve the same store, whatever the order in which they heard it and     *)
(* even where the entries left in their logs differ.                       *)
(***************************************************************************)
Convergence ==
  \A r, s \in Servers :
    vector_clock[r] = vector_clock[s] => kv_store[r] = kv_store[s]

(***************************************************************************)
(* Propagation: in a topology where every replica can be heard through     *)
(* others and links stay up, each write reaches every replica, also those  *)
(* that never talk to the one that accepted it.                            *)
(***************************************************************************)
WritesReachEveryone ==
  \A r \in Servers : \A s \in Servers \ {r}, t \in 1 .. MaxWrites :
    vector_clock[r][r] >= t ~> vector_clock[s][r] >= t
=============================================================================
