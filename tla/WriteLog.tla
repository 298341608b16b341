------------------------------ MODULE WriteLog ------------------------------
(***************************************************************************)
(* The data of a replica and the pure functions replica_server.py computes *)
(* on it: write-log entries, their order, the pruning of overwritten       *)
(* entries, the replay of a log into a key-value store, vector clocks.     *)
(*                                                                         *)
(* self.write_log is a Python list; here it is the SET of its entries.     *)
(* Its order carries nothing: addNewWritesToWriteLog ends by sorting it    *)
(* and write() appends an entry that sorts last (AcceptTimeAhead in        *)
(* ReplicaServer).  A delayed anti-entropy answer can put an entry in the  *)
(* list twice; a second copy is next to the first and replays to the same  *)
(* store, so the copies are identified.                                    *)
(***************************************************************************)
EXTENDS Integers

CONSTANTS
  Servers,      \* IDs of the replicas: integers, compared to break ties
  Clients,      \* IDs of the clients
  Keys,
  Values,
  NoValue,      \* marks a key that is not in a kv_store
  ClientTimes   \* the client_time counters used; bounds the writes per client

(***************************************************************************)
(* IDs come from int(args[1]) in master.py and every test uses             *)
(* non-negative ones; a ClientHandler counts its writes from 0.            *)
(***************************************************************************)
ASSUME IdAssumption == Servers \subseteq Nat /\ ClientTimes \subseteq Nat

ASSUME ValueAssumption == NoValue \notin Values

Entries ==
  [key : Keys, value : Values, accept_time : Nat, replica_id : Servers,
   client_id : Clients, client_time : ClientTimes]

VectorClocks == [Servers -> Nat]

Stores == [Keys -> Values \cup {NoValue}]

-----------------------------------------------------------------------------
(***************************************************************************)
(* compareWriteLogEntries: x sorts before y.  Accept times decide, and of  *)
(* two equal ones the entry of the replica with the LOWER ID is the later. *)
(***************************************************************************)
Before(x, y) ==
  \/ x.accept_time < y.accept_time
  \/ x.accept_time = y.accept_time /\ x.replica_id > y.replica_id

(***************************************************************************)
(* The pruning condition: x and y are writes of one client to one key and  *)
(* y is the older of the two by the client's own counter.                  *)
(***************************************************************************)
Overwrites(x, y) ==
  /\ x.client_id = y.client_id
  /\ x.key = y.key
  /\ y.client_time < x.client_time

Superseded(w, log) == \E x \in log : Overwrites(x, w)

(***************************************************************************)
(* addNewWritesToWriteLog: prune the received writes against the log, then *)
(* the log against the received writes that are left, and join the two.    *)
(* Neither side is pruned against itself.                                  *)
(***************************************************************************)
AddNewWritesKeepsOld(log, new) ==   \* mutant: the second pruning forgotten
  log \cup {w \in new : ~ Superseded(w, log)}

AddNewWrites(log, new) ==
  LET kept == {w \in new : ~ Superseded(w, log)}
      old  == {w \in log : ~ Superseded(w, kept)}
  IN  old \cup kept

(***************************************************************************)
(* processWriteLogHistory: replaying the sorted log from an empty store    *)
(* leaves under each key the value of the last entry for that key.         *)
(***************************************************************************)
OnKey(log, k) == {w \in log : w.key = k}

IsLast(w, log) == w \in log /\ \A x \in log : x = w \/ Before(x, w)

Last(log) == CHOOSE w \in log : IsLast(w, log)

Replay(log) ==
  [k \in Keys |-> IF OnKey(log, k) = {} THEN NoValue ELSE Last(OnKey(log, k)).value]

(***************************************************************************)
(* A vector clock maps a replica to the accept time the next write from it *)
(* may have: w is covered by a clock that is past w's accept time.         *)
(* antiEntropyRequest answers with the entries the other clock does not    *)
(* cover, read() compares clocks, stabilize() merges them.                 *)
(***************************************************************************)
Covers(clock, w) == w.accept_time < clock[w.replica_id]

NewWritesForStrict(log, clock) ==   \* mutant: < for <=
  {w \in log : clock[w.replica_id] < w.accept_time}

NewWritesFor(log, clock) == {w \in log : ~ Covers(clock, w)}

ClockLeq(c, d) == \A s \in Servers : c[s] <= d[s]

SecondOf(a, b) == b   \* mutant: no max

Maximum(a, b) == IF a >= b THEN a ELSE b

MergeClocks(c, d) == [s \in Servers |-> Maximum(c[s], d[s])]

NoClock == [s \in Servers |-> 0]
=============================================================================
