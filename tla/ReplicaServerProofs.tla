------------------------- MODULE ReplicaServerProofs -------------------------
(***************************************************************************)
(* IInv is an inductive invariant of ReplicaServer, for all sets of        *)
(* servers, clients, keys and values and all topologies.                   *)
(*                                                                         *)
(* Only two actions touch what IInv is about in an interesting way:        *)
(* Write(r), where the new entry is later than everything at r, and        *)
(* MergeResult(r), where the log, the store, the clock and the accept time *)
(* must move together.  AntiEntropyRequest establishes what MergeResult    *)
(* needs to know of the answer.                                            *)
(*                                                                         *)
(* What each action does to logs, clocks and answers is proved of Core(E), *)
(* for whatever set E of entries; OwnClockAhead is added to it at the end. *)
(*                                                                         *)
(* The last part is the refinement: the invariant makes a store a function *)
(* of the entries its replica's clock covers (StoreOfCovered), which is    *)
(* what ReplicatedStore has as the store, and each step of the replicas is *)
(* a step of ReplicatedStore or none.                                      *)
(***************************************************************************)
EXTENDS ReplicaInvariants, ReplicaRefinement, WriteLogTheorems

LEMMA InitIInv == Init => IInv
<1> SUFFICES ASSUME Init PROVE IInv
  OBVIOUS
<1> USE DEF Init
<1>1. NoClock \in VectorClocks
  BY DEF NoClock, VectorClocks
<1>2. NoResult \in Results
  BY <1>1 DEF NoResult, Results
<1>3. TypeOK
  BY <1>1, <1>2 DEF TypeOK, Stores, Phases
<1>4. ClockInv(accepted)
  BY <1>3 DEF ClockInv, LogsFrom, RequestBehind, ClockLeq,
     AcceptTimeAhead, AnswerAhead, LogCovered, StampsApart, NoResult, NoClock, TypeOK
<1>5. LogInv(accepted)
  BY DEF LogInv, NoneLost, AnswerComplete, SessionOrder, AnswerSessionOrder, NoResult
<1>6. KvStoreIsReplay
  BY DEF KvStoreIsReplay, Replay, OnKey
<1>7. OwnClockAhead
  BY DEF OwnClockAhead, NoResult, NoClock
<1> QED
  BY <1>3, <1>4, <1>5, <1>6, <1>7 DEF IInv, Core

(***************************************************************************)
(* The steps that leave logs, clocks and answers alone.                    *)
(***************************************************************************)
LEMMA BookkeepingCore ==
  ASSUME NEW E, Core(E), TypeOK', UNCHANGED <<replica_vars, response, accepted>>,
         RequestBehind'
  PROVE  Core(E)'
<1> USE DEF replica_vars
<1>1. ClockInv(E)'
  BY DEF Core, ClockInv, LogsFrom, Covers,
     AcceptTimeAhead, AnswerAhead, LogCovered, StampsApart
<1>2. LogInv(E)'
  BY DEF Core, LogInv, NoneLost, AnswerComplete, SessionOrder, AnswerSessionOrder, Covers
<1>3. KvStoreIsReplay'
  BY DEF Core, KvStoreIsReplay
<1> QED
  BY <1>1, <1>2, <1>3 DEF Core

(* The start of a round. *)
LEMMA BeginRoundCore ==
  ASSUME NEW E, Core(E), NEW r \in Servers, BeginRound(r)
  PROVE  Core(E)'
<1>1. TypeOK'
  BY DEF Core, TypeOK, BeginRound, replica_vars
<1>2. RequestBehind'
  BY DEF Core, ClockInv, RequestBehind, BeginRound, replica_vars
<1> QED
  BY <1>1, <1>2, BookkeepingCore DEF BeginRound

(* A request goes out with a copy of the clock. *)
LEMMA SendRequestCore ==
  ASSUME NEW E, Core(E), NEW r \in Servers, NEW s \in Servers, SendRequest(r, s)
  PROVE  Core(E)'
<1>1. TypeOK'
  BY DEF Core, TypeOK, SendRequest, replica_vars, Phases
<1>2. RequestBehind'
  <2> SUFFICES ASSUME NEW q \in Servers, NEW t \in Servers
               PROVE  request_clock'[q][t] <= vector_clock'[q][t]
    BY DEF RequestBehind, ClockLeq
  <2>1. vector_clock[q][t] \in Nat
    BY DEF Core, TypeOK, VectorClocks
  <2> QED
    BY <2>1 DEF Core, TypeOK, ClockInv, RequestBehind, ClockLeq, SendRequest, replica_vars
<1> QED
  BY <1>1, <1>2, BookkeepingCore DEF SendRequest

(* addConnection and removeConnection. *)
LEMMA ConnectionCore ==
  ASSUME NEW E, Core(E), NEW r \in Servers, NEW s \in Servers,
         AddConnection(r, s) \/ RemoveConnection(r, s)
  PROVE  Core(E)'
<1>1. TypeOK'
  BY DEF Core, TypeOK, AddConnection, RemoveConnection, replica_vars, round_vars
<1>2. RequestBehind'
  BY DEF Core, ClockInv, RequestBehind, AddConnection, RemoveConnection, replica_vars, round_vars
<1> QED
  BY <1>1, <1>2, BookkeepingCore DEF AddConnection, RemoveConnection, round_vars

(***************************************************************************)
(* The answer to an anti-entropy request.  It is complete because the      *)
(* responder has lost no write and the request's clock, however stale, is  *)
(* not ahead of what the requester has.                                    *)
(***************************************************************************)
LEMMA AntiEntropyRequestCore ==
  ASSUME NEW E, Core(E), NEW r \in Servers, NEW s \in Servers, AntiEntropyRequest(s, r)
  PROVE  Core(E)'
<1> DEFINE res == [new_writes |-> NewWritesFor(write_log[s], request_clock[r]),
                   vector_clock |-> vector_clock[s],
                   accept_time |-> accept_time[s]]
<1>1. /\ response' = [response EXCEPT ![r] = res]
      /\ request_clock' = [request_clock EXCEPT ![r] = NoClock]
      /\ UNCHANGED <<write_log, kv_store, vector_clock, accept_time, accepted>>
  BY DEF AntiEntropyRequest, replica_vars
<1>2. res.new_writes \subseteq write_log[s]
  BY DEF NewWritesFor
<1>3. NoClock \in VectorClocks
  BY DEF NoClock, VectorClocks
<1>4. TypeOK'
  <2>1. res \in Results
    BY <1>2 DEF Core, TypeOK, Results
  <2> QED
    BY <2>1, <1>3 DEF Core, TypeOK, AntiEntropyRequest, replica_vars, Phases
<1>5. response'[r] = res /\ \A q \in Servers : q # r => response'[q] = response[q]
  BY <1>1 DEF Core, TypeOK
<1>6. ClockInv(E)'
  <2>1. LogsFrom(E)'
    BY <1>1, <1>2, <1>5 DEF Core, ClockInv, LogsFrom
  <2>3. RequestBehind'
    <3> SUFFICES ASSUME NEW q \in Servers, NEW t \in Servers
                 PROVE  request_clock'[q][t] <= vector_clock[q][t]
      BY <1>1 DEF RequestBehind, ClockLeq
    <3>1. vector_clock[q][t] \in Nat
      BY DEF Core, TypeOK, VectorClocks
    <3> QED
      BY <1>1, <3>1 DEF Core, TypeOK, ClockInv, RequestBehind, ClockLeq, NoClock
  <2>4. AcceptTimeAhead' /\ StampsApart(E)'
    BY <1>1 DEF Core, ClockInv, AcceptTimeAhead, StampsApart
  <2>5. AnswerAhead'
    BY <1>2, <1>5 DEF Core, ClockInv, AcceptTimeAhead, AnswerAhead
  <2>6. LogCovered'
    BY <1>1, <1>2, <1>5 DEF Core, ClockInv, LogCovered, Covers
  <2> QED
    BY <2>1, <2>3, <2>4, <2>5, <2>6 DEF ClockInv
<1>7. LogInv(E)'
  <2>1. NoneLost(E)' /\ SessionOrder'
    BY <1>1 DEF Core, LogInv, NoneLost, SessionOrder, Covers
  <2>2. AnswerSessionOrder'
    BY <1>2, <1>5 DEF Core, LogInv, SessionOrder, AnswerSessionOrder
  <2>3. ASSUME NEW w \in E, Covers(vector_clock[s], w)
        PROVE  \/ Covers(vector_clock[r], w)
               \/ w \in res.new_writes
               \/ Superseded(w, res.new_writes \cup write_log[r])
    <3>1. w \in write_log[s] \/ Superseded(w, write_log[s])
      BY <2>3 DEF Core, LogInv, NoneLost
    <3>2. ASSUME NEW x \in write_log[s], x \notin res.new_writes
          PROVE  x \in E /\ Covers(vector_clock[r], x)
      <4>1. x \in E /\ x \in Entries
        BY DEF Core, ClockInv, LogsFrom, TypeOK
      <4>2. Covers(request_clock[r], x)
        BY <3>2 DEF NewWritesFor
      <4>3. request_clock[r][x.replica_id] <= vector_clock[r][x.replica_id]
        BY <4>1, EntryNumbers DEF Core, ClockInv, RequestBehind, ClockLeq
      <4>4. /\ request_clock[r][x.replica_id] \in Nat
            /\ vector_clock[r][x.replica_id] \in Nat
            /\ x.accept_time \in Nat
        BY <4>1, EntryNumbers DEF Core, TypeOK, VectorClocks
      <4> QED
        BY <4>1, <4>2, <4>3, <4>4 DEF Covers
    <3>3. CASE w \in write_log[s]
      BY <3>2, <3>3
    <3>4. CASE Superseded(w, write_log[s])
      <4>1. PICK x \in write_log[s] : Overwrites(x, w)
        BY <3>4 DEF Superseded
      <4>2. CASE x \in res.new_writes
        BY <4>1, <4>2 DEF Superseded
      <4>3. CASE x \notin res.new_writes
        <5>1. x \in write_log[r] \/ Superseded(x, write_log[r])
          BY <4>3, <3>2 DEF Core, LogInv, NoneLost
        <5>2. CASE x \in write_log[r]
          BY <4>1, <5>2 DEF Superseded
        <5>3. CASE Superseded(x, write_log[r])
          <6>1. PICK y \in write_log[r] : Overwrites(y, x)
            BY <5>3 DEF Superseded
          <6>2. x \in Entries /\ y \in Entries /\ w \in Entries
            BY DEF Core, TypeOK
          <6>3. Overwrites(y, w)
            BY <4>1, <6>1, <6>2, OverwritesTransitive
          <6> QED
            BY <6>3 DEF Superseded
        <5> QED
          BY <5>1, <5>2, <5>3
      <4> QED
        BY <4>2, <4>3
    <3> QED
      BY <3>1, <3>3, <3>4
  <2>4. AnswerComplete(E)'
    <3> SUFFICES ASSUME NEW q \in Servers, NEW w \in E,
                        Covers(response'[q].vector_clock, w)
                 PROVE  \/ Covers(vector_clock[q], w)
                        \/ w \in response'[q].new_writes
                        \/ Superseded(w, response'[q].new_writes \cup write_log[q])
      BY <1>1 DEF AnswerComplete, Covers
    <3>1. CASE q = r
      <4>1. response'[r].vector_clock = vector_clock[s] /\ response'[r].new_writes = res.new_writes
        BY <1>5
      <4> HIDE DEF res
      <4> QED
        BY <2>3, <3>1, <4>1
    <3>2. CASE q # r
      BY <1>5, <3>2 DEF Core, LogInv, AnswerComplete
    <3> QED
      BY <3>1, <3>2
  <2> QED
    BY <2>1, <2>2, <2>4 DEF LogInv
<1>8. KvStoreIsReplay'
  BY <1>1 DEF Core, KvStoreIsReplay
<1> QED
  BY <1>1, <1>4, <1>6, <1>7, <1>8 DEF Core

(***************************************************************************)
(* A write and the clocks.  What is to be known of E and of the new entry  *)
(* n: r covers its own entries of E, and nobody covers n before the write. *)
(***************************************************************************)
NobodyCovers(n) ==
  \A q \in Servers : ~ Covers(vector_clock[q], n) /\ ~ Covers(response[q].vector_clock, n)

CoversOwn(r, E) == \A w \in E : w.replica_id = r => Covers(vector_clock[r], w)

(* Clocks only grow, and none changes its mind about an entry of E. *)
LEMMA WriteCovers ==
  ASSUME NEW E, Core(E), NEW r \in Servers, NEW key \in Keys, NEW value \in Values,
         NEW cid \in Clients, NEW t \in ClientTimes,
         NEW n, n = NewEntry(r, key, value, cid, t),
         CoversOwn(r, E), Write(r, key, value, cid, t)
  PROVE  /\ \A q, s \in Servers : vector_clock[q][s] <= vector_clock'[q][s]
         /\ Covers(vector_clock'[r], n)
         /\ \A q \in Servers, w \in E :
              Covers(vector_clock'[q], w) <=> Covers(vector_clock[q], w)
<1>1. /\ accept_time' = [accept_time EXCEPT ![r] = @ + 1]
      /\ vector_clock' = [vector_clock EXCEPT ![r][r] = accept_time[r] + 1]
  BY DEF Write, Core, TypeOK
<1>2. n.accept_time = accept_time[r] /\ n.replica_id = r
  BY DEF NewEntry
<1>3. /\ vector_clock'[r][r] = accept_time[r] + 1
      /\ \A q, s \in Servers : (q # r \/ s # r) => vector_clock'[q][s] = vector_clock[q][s]
  BY <1>1 DEF Core, TypeOK, VectorClocks
<1>4. /\ \A q \in Servers : accept_time[q] \in Nat
      /\ \A q, s \in Servers : vector_clock[q][s] \in Nat
  BY DEF Core, TypeOK, VectorClocks
<1>5. \A q, s \in Servers : vector_clock[q][s] <= vector_clock'[q][s]
  BY <1>3, <1>4 DEF Core, ClockInv, AcceptTimeAhead
<1>6. Covers(vector_clock'[r], n)
  BY <1>2, <1>3, <1>4 DEF Covers
<1>7. \A w \in E : w \in Entries /\ w.accept_time \in Nat /\ w.replica_id \in Servers
  BY EntryNumbers DEF Core, TypeOK
(* An old entry is covered by the new clocks only if it was by the old.  *)
<1>8. \A q \in Servers, w \in E :
         Covers(vector_clock'[q], w) <=> Covers(vector_clock[q], w)
  <2> SUFFICES ASSUME NEW q \in Servers, NEW w \in E
               PROVE  Covers(vector_clock'[q], w) <=> Covers(vector_clock[q], w)
    OBVIOUS
  <2>1. CASE q # r \/ w.replica_id # r
    BY <2>1, <1>3, <1>7 DEF Covers
  <2>2. CASE q = r /\ w.replica_id = r
    <3>1. Covers(vector_clock[r], w)
      BY <2>2 DEF CoversOwn
    <3>2. vector_clock[r][r] <= vector_clock'[r][r]
      BY <1>5
    <3> QED
      BY <2>2, <3>1, <3>2, <1>3, <1>4, <1>7 DEF Covers
  <2> QED
    BY <2>1, <2>2
<1> QED
  BY <1>5, <1>6, <1>8

(***************************************************************************)
(* A write.  The new entry n has an accept time no clock covers and sorts  *)
(* after the replica's whole log; nothing anywhere overwrites it.          *)
(***************************************************************************)
LEMMA WriteCore ==
  ASSUME NEW E, Core(E), NEW r \in Servers, NEW key \in Keys, NEW value \in Values,
         NEW cid \in Clients, NEW t \in ClientTimes,
         NEW n, n = NewEntry(r, key, value, cid, t),
         FreshClientTime(cid, t), CoversOwn(r, E), NobodyCovers(n),
         Write(r, key, value, cid, t)
  PROVE  Core(E \cup {n})'
<1> DEFINE F == E \cup {n}
<1>1. /\ write_log' = [write_log EXCEPT ![r] = @ \cup {n}]
      /\ kv_store' = [kv_store EXCEPT ![r][key] = value]
      /\ accept_time' = [accept_time EXCEPT ![r] = @ + 1]
      /\ vector_clock' = [vector_clock EXCEPT ![r][r] = accept_time[r] + 1]
      /\ accepted' = accepted \cup {n}
      /\ UNCHANGED <<reachable, to_ask, phase, peer, request_clock, response>>
  BY DEF Write, round_vars, Core, TypeOK
<1>2. n \in Entries
  BY DEF NewEntry, Entries, Core, TypeOK
<1>3. /\ n.accept_time = accept_time[r] /\ n.replica_id = r /\ n.client_id = cid
      /\ n.client_time = t /\ n.key = key /\ n.value = value
  BY DEF NewEntry
<1>4. TypeOK'
  BY <1>1, <1>2 DEF Core, TypeOK, VectorClocks, Stores
<1>5. /\ write_log'[r] = write_log[r] \cup {n}
      /\ \A q \in Servers : q # r => write_log'[q] = write_log[q]
  BY <1>1 DEF Core, TypeOK
<1>6. /\ vector_clock'[r][r] = accept_time[r] + 1
      /\ \A q, s \in Servers : (q # r \/ s # r) => vector_clock'[q][s] = vector_clock[q][s]
      /\ accept_time'[r] = accept_time[r] + 1
      /\ \A q \in Servers : q # r => accept_time'[q] = accept_time[q]
  BY <1>1 DEF Core, TypeOK, VectorClocks
<1>7. /\ \A q \in Servers : accept_time[q] \in Nat
      /\ \A q, s \in Servers : vector_clock[q][s] \in Nat
      /\ \A q, s \in Servers : response[q].vector_clock[s] \in Nat
      /\ \A q, s \in Servers : request_clock[q][s] \in Nat
  BY DEF Core, TypeOK, VectorClocks, Results
(* No clock covers the new entry yet; the old ones stay as they were.    *)
<1>8. /\ \A q \in Servers : ~ Covers(vector_clock[q], n)
      /\ \A q \in Servers : ~ Covers(response[q].vector_clock, n)
      /\ Covers(vector_clock'[r], n)
      /\ \A q \in Servers, w \in E :
           Covers(vector_clock'[q], w) <=> Covers(vector_clock[q], w)
      /\ \A q, s \in Servers : vector_clock[q][s] <= vector_clock'[q][s]
  BY WriteCovers DEF NobodyCovers
<1>9. \A w \in E : w \in Entries /\ w.accept_time \in Nat /\ w.replica_id \in Servers
  BY EntryNumbers DEF Core, TypeOK
<1>10. \A x \in write_log[r] : Before(x, n)
  BY <1>3 DEF Core, ClockInv, AcceptTimeAhead, Before
<1>11. \A x \in E : ~ Overwrites(x, n)
  BY <1>3, <1>9, EntryNumbers, <1>2 DEF FreshClientTime, Overwrites, Core
<1>12. ClockInv(F)'
  <2>1. LogsFrom(F)'
    BY <1>1, <1>5 DEF Core, ClockInv, LogsFrom
  <2>3. RequestBehind'
    <3> SUFFICES ASSUME NEW q \in Servers, NEW s \in Servers
                 PROVE  request_clock[q][s] <= vector_clock'[q][s]
      BY <1>1 DEF RequestBehind, ClockLeq
    <3>1. request_clock[q][s] <= vector_clock[q][s] /\ vector_clock[q][s] <= vector_clock'[q][s]
      BY <1>8 DEF Core, ClockInv, RequestBehind, ClockLeq
    <3> QED
      BY <3>1, <1>6, <1>7
  <2>4. AcceptTimeAhead'
    <3> SUFFICES ASSUME NEW q \in Servers
                 PROVE  /\ \A w \in write_log'[q] : w.accept_time < accept_time'[q]
                        /\ \A s \in Servers : vector_clock'[q][s] <= accept_time'[q]
      BY DEF AcceptTimeAhead
    <3>1. /\ \A w \in write_log[q] : w.accept_time < accept_time[q] /\ w.accept_time \in Nat
          /\ \A s \in Servers : vector_clock[q][s] <= accept_time[q]
      BY EntryNumbers DEF Core, ClockInv, AcceptTimeAhead, TypeOK
    <3> QED
      BY <3>1, <1>3, <1>5, <1>6, <1>7
  <2>5. AnswerAhead'
    BY <1>1 DEF Core, ClockInv, AnswerAhead
  <2>6. LogCovered'
    BY <1>1, <1>5, <1>8 DEF Core, ClockInv, LogCovered, LogsFrom
  <2>7. StampsApart(F)'
    <3>1. \A w \in E : w.replica_id = r => w.accept_time < accept_time[r]
      BY <1>7, <1>9 DEF Core, ClockInv, CoversOwn, AcceptTimeAhead, Covers
    <3> QED
      BY <3>1, <1>1, <1>3, <1>7, <1>9 DEF Core, ClockInv, StampsApart
  <2> QED
    BY <2>1, <2>3, <2>4, <2>5, <2>6, <2>7 DEF ClockInv
<1>13. LogInv(F)'
  <2>1. NoneLost(F)'
    <3> SUFFICES ASSUME NEW q \in Servers, NEW w \in F, Covers(vector_clock'[q], w)
                 PROVE  w \in write_log'[q] \/ Superseded(w, write_log'[q])
      BY DEF NoneLost
    <3>1. CASE w \in E
      <4>1. w \in write_log[q] \/ Superseded(w, write_log[q])
        BY <3>1, <1>8 DEF Core, LogInv, NoneLost
      <4> QED
        BY <4>1, <1>5 DEF Superseded
    <3>2. CASE w = n
      <4>1. q = r
        BY <3>2, <1>2, <1>3, <1>6, <1>8 DEF Covers
      <4> QED
        BY <3>2, <4>1, <1>5
    <3> QED
      BY <3>1, <3>2, <1>1
  <2>2. AnswerComplete(F)'
    <3> SUFFICES ASSUME NEW q \in Servers, NEW w \in F,
                        Covers(response[q].vector_clock, w)
                 PROVE  \/ Covers(vector_clock'[q], w)
                        \/ w \in response[q].new_writes
                        \/ Superseded(w, response[q].new_writes \cup write_log'[q])
      BY <1>1 DEF AnswerComplete
    <3>1. w \in E
      BY <1>1, <1>8
    <3>2. \/ Covers(vector_clock[q], w)
          \/ w \in response[q].new_writes
          \/ Superseded(w, response[q].new_writes \cup write_log[q])
      BY <3>1 DEF Core, LogInv, AnswerComplete
    <3> QED
      BY <3>1, <3>2, <1>5, <1>8 DEF Superseded
  <2>3. SessionOrder'
    <3> SUFFICES ASSUME NEW q \in Servers, NEW x \in write_log'[q], NEW y \in write_log'[q],
                        Overwrites(x, y)
                 PROVE  Before(y, x)
      BY DEF SessionOrder
    <3>1. CASE x \in write_log[q] /\ y \in write_log[q]
      BY <3>1 DEF Core, LogInv, SessionOrder
    <3>2. CASE q = r /\ x = n /\ y \in write_log[r]
      BY <3>2, <1>10
    <3>3. CASE q = r /\ y = n
      <4>1. ~ Overwrites(n, n)
        BY <1>2, EntryNumbers DEF Overwrites
      <4>2. ~ \E z \in write_log[r] : Overwrites(z, n)
        BY <1>11 DEF Core, ClockInv, LogsFrom
      <4> QED
        BY <3>3, <4>1, <4>2, <1>5
    <3> QED
      BY <3>1, <3>2, <3>3, <1>5
  <2>4. AnswerSessionOrder'
    BY <1>1 DEF Core, LogInv, AnswerSessionOrder
  <2> QED
    BY <2>1, <2>2, <2>3, <2>4 DEF LogInv
<1>14. KvStoreIsReplay'
  <2>1. Replay(write_log'[r]) = [Replay(write_log[r]) EXCEPT ![key] = value]
    <3>1. write_log[r] \in SUBSET Entries
      BY DEF Core, TypeOK
    <3> QED
      BY <3>1, <1>2, <1>3, <1>5, <1>10, ReplayAppend
  <2>2. kv_store'[r] = [kv_store[r] EXCEPT ![key] = value]
        /\ \A q \in Servers : q # r => kv_store'[q] = kv_store[q]
    BY <1>1 DEF Core, TypeOK
  <2> QED
    BY <2>1, <2>2, <1>5 DEF Core, KvStoreIsReplay
<1> QED
  BY <1>1, <1>4, <1>12, <1>13, <1>14 DEF Core

(***************************************************************************)
(* Merging an answer.  Log, clock and accept time move in one step: the    *)
(* clock of the answer is taken over because its entries are.              *)
(***************************************************************************)
LEMMA MergeResultCore ==
  ASSUME NEW E, Core(E), NEW r \in Servers, MergeResult(r)
  PROVE  Core(E)'
<1> DEFINE res == response[r]
           new == res.new_writes
           merged == AddNewWrites(write_log[r], new)
<1>1. /\ write_log' = [write_log EXCEPT ![r] = merged]
      /\ vector_clock' = [vector_clock EXCEPT ![r] = MergeClocks(@, res.vector_clock)]
      /\ accept_time' = [accept_time EXCEPT ![r] = Maximum(@, res.accept_time)]
      /\ response' = [response EXCEPT ![r] = NoResult]
      /\ UNCHANGED <<reachable, to_ask, request_clock, accepted>>
  BY DEF MergeResult, EndRequest
<1>2. res \in Results /\ new \in SUBSET Entries /\ write_log[r] \in SUBSET Entries
  BY DEF Core, TypeOK, Results
<1>3. /\ merged \subseteq write_log[r] \cup new
      /\ \A w \in write_log[r] \cup new : w \in merged \/ Superseded(w, merged)
  BY <1>2, AddNewWritesComplete
<1>4. /\ \A q \in Servers : accept_time[q] \in Nat
      /\ \A q, s \in Servers : vector_clock[q][s] \in Nat
      /\ \A q, s \in Servers : response[q].vector_clock[s] \in Nat
      /\ \A q, s \in Servers : request_clock[q][s] \in Nat
      /\ res.accept_time \in Nat
  BY DEF Core, TypeOK, VectorClocks, Results
<1>5. /\ write_log'[r] = merged
      /\ \A q \in Servers : q # r => write_log'[q] = write_log[q]
      /\ response'[r] = NoResult
      /\ \A q \in Servers : q # r => response'[q] = response[q]
  BY <1>1 DEF Core, TypeOK
<1>6. /\ \A s \in Servers :
           vector_clock'[r][s] = Maximum(vector_clock[r][s], res.vector_clock[s])
      /\ \A q \in Servers : q # r => vector_clock'[q] = vector_clock[q]
      /\ accept_time'[r] = Maximum(accept_time[r], res.accept_time)
      /\ \A q \in Servers : q # r => accept_time'[q] = accept_time[q]
  BY <1>1 DEF Core, TypeOK, MergeClocks
<1> HIDE DEF merged
<1>7. \A q, s \in Servers : vector_clock[q][s] <= vector_clock'[q][s]
  BY <1>4, <1>6 DEF Maximum
<1>10. \A w \in E : w \in Entries /\ w.accept_time \in Nat /\ w.replica_id \in Servers
  BY EntryNumbers DEF Core, TypeOK
(* What the merged clock covers, the old clock or the answer's covers.   *)
<1>11. \A w \in E :
         Covers(vector_clock'[r], w) <=>
           Covers(vector_clock[r], w) \/ Covers(res.vector_clock, w)
  BY <1>4, <1>6, <1>10 DEF Covers, Maximum
<1>12. merged \subseteq E /\ write_log[r] \subseteq E /\ new \subseteq E
  BY <1>3 DEF Core, ClockInv, LogsFrom
<1>13. ClockInv(E)'
  <2>1. LogsFrom(E)'
    BY <1>1, <1>5, <1>12 DEF Core, ClockInv, LogsFrom, NoResult
  <2>3. RequestBehind'
    <3> SUFFICES ASSUME NEW q \in Servers, NEW s \in Servers
                 PROVE  request_clock[q][s] <= vector_clock'[q][s]
      BY <1>1 DEF RequestBehind, ClockLeq
    <3>1. request_clock[q][s] <= vector_clock[q][s] /\ vector_clock[q][s] <= vector_clock'[q][s]
      BY <1>7 DEF Core, ClockInv, RequestBehind, ClockLeq
    <3>2. vector_clock'[q][s] \in Nat
      BY <1>4, <1>6 DEF Maximum
    <3> QED
      BY <3>1, <3>2, <1>4
  <2>4. AcceptTimeAhead'
    <3>1. \A w \in merged : w.accept_time < accept_time'[r]
      <4>1. \A w \in write_log[r] : w.accept_time < accept_time[r]
        BY DEF Core, ClockInv, AcceptTimeAhead
      <4>2. \A w \in new : w.accept_time < res.accept_time
        BY DEF Core, ClockInv, AnswerAhead
      <4> QED
        BY <4>1, <4>2, <1>3, <1>4, <1>6, <1>10, <1>12 DEF Maximum
    <3>2. \A s \in Servers : vector_clock'[r][s] <= accept_time'[r]
      <4>1. \A s \in Servers : /\ vector_clock[r][s] <= accept_time[r]
                              /\ res.vector_clock[s] <= res.accept_time
        BY DEF Core, ClockInv, AcceptTimeAhead, AnswerAhead
      <4> QED
        BY <4>1, <1>4, <1>6 DEF Maximum
    <3> QED
      BY <3>1, <3>2, <1>5, <1>6 DEF Core, ClockInv, AcceptTimeAhead
  <2>5. AnswerAhead'
    BY <1>5 DEF Core, ClockInv, AnswerAhead, NoResult, NoClock
  <2>6. LogCovered'
    <3>1. \A w \in merged : Covers(vector_clock'[r], w)
      BY <1>3, <1>11, <1>12 DEF Core, ClockInv, LogCovered
    <3>2. \A q \in Servers : q # r => \A w \in write_log'[q] : Covers(vector_clock'[q], w)
      BY <1>5, <1>6 DEF Core, ClockInv, LogCovered
    <3>3. \A q \in Servers : \A w \in response'[q].new_writes :
             Covers(response'[q].vector_clock, w)
      BY <1>5 DEF Core, ClockInv, LogCovered, NoResult
    <3> QED
      BY <3>1, <3>2, <3>3, <1>5 DEF LogCovered
  <2>7. StampsApart(E)'
    BY <1>1 DEF Core, ClockInv, StampsApart
  <2> QED
    BY <2>1, <2>3, <2>4, <2>5, <2>6, <2>7 DEF ClockInv
<1>14. LogInv(E)'
  <2>1. NoneLost(E)'
    <3> SUFFICES ASSUME NEW q \in Servers, NEW w \in E, Covers(vector_clock'[q], w)
                 PROVE  w \in write_log'[q] \/ Superseded(w, write_log'[q])
      BY <1>1 DEF NoneLost
    <3>1. CASE q # r
      BY <3>1, <1>5, <1>6 DEF Core, LogInv, NoneLost
    <3>2. CASE q = r
      <4>1. \/ w \in write_log[r] \cup new
            \/ Superseded(w, write_log[r] \cup new)
        <5>1. \/ w \in new
              \/ Superseded(w, new \cup write_log[r])
              \/ w \in write_log[r]
              \/ Superseded(w, write_log[r])
          BY <3>2, <1>11 DEF Core, LogInv, NoneLost, AnswerComplete
        <5> QED
          BY <5>1 DEF Superseded
      <4>2. CASE w \in write_log[r] \cup new
        BY <3>2, <4>2, <1>3, <1>5
      <4>3. ASSUME NEW x \in write_log[r] \cup new, Overwrites(x, w)
            PROVE  Superseded(w, merged)
        <5>1. CASE x \in merged
          BY <4>3, <5>1 DEF Superseded
        <5>2. CASE Superseded(x, merged)
          <6>1. PICK y \in merged : Overwrites(y, x)
            BY <5>2 DEF Superseded
          <6>2. Overwrites(y, w)
            BY <4>3, <6>1, <1>10, <1>12, OverwritesTransitive
          <6> QED
            BY <6>1, <6>2 DEF Superseded
        <5> QED
          BY <5>1, <5>2, <1>3
      <4> QED
        BY <3>2, <4>1, <4>2, <4>3, <1>5 DEF Superseded
    <3> QED
      BY <3>1, <3>2
  <2>2. AnswerComplete(E)'
    <3> SUFFICES ASSUME NEW q \in Servers, NEW w \in E,
                        Covers(response'[q].vector_clock, w)
                 PROVE  \/ Covers(vector_clock'[q], w)
                        \/ w \in response'[q].new_writes
                        \/ Superseded(w, response'[q].new_writes \cup write_log'[q])
      BY <1>1 DEF AnswerComplete
    <3>1. CASE q = r
      BY <3>1, <1>5, <1>10 DEF Covers, NoResult, NoClock
    <3>2. CASE q # r
      BY <3>2, <1>5, <1>6 DEF Core, LogInv, AnswerComplete
    <3> QED
      BY <3>1, <3>2
  <2>3. SessionOrder'
    <3>1. InSessionOrder(merged)
      <4>1. InSessionOrder(write_log[r]) /\ InSessionOrder(new)
        BY DEF InSessionOrder, Core, LogInv, SessionOrder, AnswerSessionOrder
      <4> QED
        BY <4>1, <1>2, AddNewWritesInSessionOrder DEF merged
    <3> QED
      BY <3>1, <1>5 DEF Core, LogInv, SessionOrder, InSessionOrder
  <2>4. AnswerSessionOrder'
    BY <1>5 DEF Core, LogInv, AnswerSessionOrder, NoResult
  <2> QED
    BY <2>1, <2>2, <2>3, <2>4 DEF LogInv
<1>15. KvStoreIsReplay'
  <2>1. CASE new = {}
    <3>1. merged = write_log[r]
      BY <2>1 DEF merged, AddNewWrites, Superseded
    <3>2. kv_store' = kv_store
      BY <2>1 DEF MergeResult, EndRequest
    <3> QED
      BY <3>1, <3>2, <1>5 DEF Core, KvStoreIsReplay
  <2>2. CASE new # {}
    <3>1. kv_store' = [kv_store EXCEPT ![r] = Replay(write_log'[r])]
      BY <2>2 DEF MergeResult, EndRequest
    <3> QED
      BY <3>1, <1>5 DEF Core, TypeOK, KvStoreIsReplay
  <2> QED
    BY <2>1, <2>2
<1>16. TypeOK'
  <2>1. NoResult \in Results
    BY DEF NoResult, Results, NoClock, VectorClocks
  <2>2. merged \in SUBSET Entries
    BY <1>2, <1>3
  <2>3. MergeClocks(vector_clock[r], res.vector_clock) \in VectorClocks
    BY <1>4 DEF MergeClocks, VectorClocks, Maximum
  <2>4. Maximum(accept_time[r], res.accept_time) \in Nat
    BY <1>4 DEF Maximum
  <2>5. accept_time' \in [Servers -> Nat]
    BY <2>4, <1>1 DEF Core, TypeOK
  <2>6. Replay(merged) \in Stores
    <3>1. accept_time'[r] \in Nat /\ \A w \in merged : w.accept_time < accept_time'[r]
      BY <2>5, <1>5, <1>13 DEF ClockInv, AcceptTimeAhead
    <3>2. UniquelyStamped(merged)
      BY <1>12 DEF Core, ClockInv, StampsApart, UniquelyStamped
    <3> QED
      BY <2>2, <3>1, <3>2, ReplayType
  <2>7. kv_store' \in [Servers -> Stores]
    BY <2>6, <1>5 DEF MergeResult, EndRequest, Core, TypeOK
  <2> QED
    BY <2>1, <2>2, <2>3, <2>5, <2>7, <1>1 DEF Core, TypeOK, MergeResult, EndRequest, Phases
<1> QED
  BY <1>1, <1>13, <1>14, <1>15, <1>16 DEF Core

-----------------------------------------------------------------------------
(***************************************************************************)
(* What a replica's store is: the replay of what is current in the set C   *)
(* of the entries of E its clock covers, and so the same wherever clocks   *)
(* are the same.                                                           *)
(***************************************************************************)
LEMMA StoreOfCovered ==
  ASSUME NEW E, Core(E), NEW r \in Servers,
         NEW C, C = {w \in E : Covers(vector_clock[r], w)}
  PROVE  kv_store[r] = Replay({w \in C : ~ Superseded(w, C)})
<1>1. write_log[r] \in SUBSET C /\ C \in SUBSET Entries
  BY DEF Core, TypeOK, ClockInv, LogsFrom, LogCovered
<1>2. \A w \in C : w \in write_log[r] \/ Superseded(w, write_log[r])
  BY DEF Core, LogInv, NoneLost
<1>3. InSessionOrder(write_log[r])
  BY DEF InSessionOrder, Core, LogInv, SessionOrder
<1>4. UniquelyStamped(C)
  BY DEF UniquelyStamped, Core, ClockInv, StampsApart
<1>5. accept_time[r] \in Nat
  BY DEF Core, TypeOK
<1>6. \A w \in C : w.accept_time < accept_time[r]
  <2> SUFFICES ASSUME NEW w \in C PROVE w.accept_time < accept_time[r]
    OBVIOUS
  <2>1. w.accept_time \in Nat /\ w.replica_id \in Servers
    BY <1>1, EntryNumbers
  <2>2. w.accept_time < vector_clock[r][w.replica_id]
    BY DEF Covers
  <2>3. /\ vector_clock[r][w.replica_id] \in Nat
        /\ vector_clock[r][w.replica_id] <= accept_time[r]
    BY <2>1 DEF Core, TypeOK, VectorClocks, ClockInv, AcceptTimeAhead
  <2> QED
    BY <1>5, <2>1, <2>2, <2>3
<1>7. Replay(write_log[r]) = Replay({w \in C : ~ Superseded(w, C)})
  BY <1>1, <1>2, <1>3, <1>4, <1>5, <1>6, ReplayOfCover
<1> QED
  BY <1>7 DEF Core, KvStoreIsReplay

LEMMA SameClocksSameStores ==
  ASSUME NEW E, Core(E)
  PROVE  Convergence
<1> SUFFICES ASSUME NEW r \in Servers, NEW s \in Servers, vector_clock[r] = vector_clock[s]
             PROVE  kv_store[r] = kv_store[s]
  BY DEF Convergence
<1>1. PICK C : C = {w \in E : Covers(vector_clock[r], w)}
  OBVIOUS
<1>2. C = {w \in E : Covers(vector_clock[s], w)}
  BY <1>1
<1> QED
  BY <1>1, <1>2, StoreOfCovered

-----------------------------------------------------------------------------
(***************************************************************************)
(* Nobody knows more of a replica than it does itself, so nobody covers    *)
(* what it is about to write.                                              *)
(***************************************************************************)
LEMMA NewStampUncovered ==
  ASSUME IInv, NEW r \in Servers, NEW n, n.accept_time = accept_time[r], n.replica_id = r
  PROVE  CoversOwn(r, accepted) /\ NobodyCovers(n)
<1>1. /\ \A q \in Servers : accept_time[q] \in Nat
      /\ \A q, s \in Servers : vector_clock[q][s] \in Nat
      /\ \A q, s \in Servers : response[q].vector_clock[s] \in Nat
  BY DEF IInv, Core, TypeOK, VectorClocks, Results
<1>2. CoversOwn(r, accepted)
  BY DEF CoversOwn, IInv, OwnClockAhead
<1>3. vector_clock[r][r] <= accept_time[r]
  BY DEF IInv, Core, ClockInv, AcceptTimeAhead
<1>4. \A q \in Servers : /\ vector_clock[q][r] <= vector_clock[r][r]
                        /\ response[q].vector_clock[r] <= vector_clock[r][r]
  BY DEF IInv, OwnClockAhead
<1>5. ASSUME NEW q \in Servers
      PROVE  ~ Covers(vector_clock[q], n) /\ ~ Covers(response[q].vector_clock, n)
  BY <1>1, <1>3, <1>4 DEF Covers
<1> QED
  BY <1>2, <1>5 DEF NobodyCovers

(* The entry of a write, and what the clocks say of it and of the others.  *)
LEMMA WriteOfNewEntry ==
  ASSUME IInv, NEW r \in Servers, NEW key \in Keys, NEW value \in Values,
         NEW cid \in Clients, NEW t \in ClientTimes,
         NEW n, n = NewEntry(r, key, value, cid, t), Write(r, key, value, cid, t)
  PROVE  /\ n \in Entries
         /\ \A q \in Servers : ~ Covers(vector_clock[q], n)
         /\ Covers(vector_clock'[r], n)
         /\ \A q \in Servers, w \in accepted :
              Covers(vector_clock'[q], w) <=> Covers(vector_clock[q], w)
<1>1. n \in Entries
  BY DEF NewEntry, Entries, IInv, Core, TypeOK
<1>2. CoversOwn(r, accepted) /\ NobodyCovers(n)
  BY NewStampUncovered DEF NewEntry
<1>3. /\ Covers(vector_clock'[r], n)
      /\ \A q \in Servers, w \in accepted :
           Covers(vector_clock'[q], w) <=> Covers(vector_clock[q], w)
  BY <1>2, WriteCovers DEF IInv
<1> QED
  BY <1>1, <1>2, <1>3 DEF NobodyCovers

(* A write is the only step that raises a replica's own entry. *)
LEMMA WriteIInv ==
  ASSUME IInv, NEW r \in Servers, NEW key \in Keys, NEW value \in Values,
         NEW cid \in Clients, NEW t \in ClientTimes,
         FreshClientTime(cid, t), Write(r, key, value, cid, t)
  PROVE  IInv'
<1>0. PICK n : n = NewEntry(r, key, value, cid, t)
  OBVIOUS
<1>1. /\ \A q, s \in Servers : vector_clock[q][s] \in Nat
      /\ \A q, s \in Servers : response[q].vector_clock[s] \in Nat
      /\ \A q \in Servers : accept_time[q] \in Nat
  BY DEF IInv, Core, TypeOK, VectorClocks, Results
<1>2. n.accept_time = accept_time[r] /\ n.replica_id = r
  BY <1>0 DEF NewEntry
<1>3. CoversOwn(r, accepted) /\ NobodyCovers(n)
  BY <1>2, NewStampUncovered
<1>5. accepted' = accepted \cup {n} /\ response' = response
  BY <1>0 DEF Write, round_vars
<1>6. Core(accepted)'
  <2>1. PICK E : E = accepted
    OBVIOUS
  <2>2. Core(E \cup {n})'
    BY <1>0, <1>3, <2>1, WriteCore DEF IInv
  <2> QED
    BY <1>5, <2>1, <2>2
<1>7. /\ \A q, s \in Servers : vector_clock[q][s] <= vector_clock'[q][s]
      /\ Covers(vector_clock'[r], n)
      /\ \A q \in Servers, w \in accepted :
           Covers(vector_clock'[q], w) <=> Covers(vector_clock[q], w)
  BY <1>0, <1>3, WriteCovers DEF IInv
<1>8. /\ \A q, s \in Servers : (q # r \/ s # r) => vector_clock'[q][s] = vector_clock[q][s]
      /\ \A q, s \in Servers : vector_clock'[q][s] \in Nat
  <2>1. vector_clock' = [vector_clock EXCEPT ![r][r] = accept_time[r] + 1]
    BY DEF Write, IInv, Core, TypeOK
  <2> QED
    BY <1>1, <2>1 DEF IInv, Core, TypeOK, VectorClocks
<1>9. OwnClockAhead'
  <2>1. \A w \in accepted' : Covers(vector_clock'[w.replica_id], w)
    <3>1. \A w \in accepted : w.replica_id \in Servers
      BY EntryNumbers DEF IInv, Core, TypeOK
    <3> QED
      BY <3>1, <1>2, <1>5, <1>7 DEF IInv, OwnClockAhead
  <2>2. ASSUME NEW q \in Servers, NEW s \in Servers
        PROVE  /\ vector_clock'[q][s] <= vector_clock'[s][s]
               /\ response'[q].vector_clock[s] <= vector_clock'[s][s]
    <3>1. /\ vector_clock[q][s] <= vector_clock[s][s]
          /\ response[q].vector_clock[s] <= vector_clock[s][s]
          /\ vector_clock[s][s] <= vector_clock'[s][s]
      BY <1>7 DEF IInv, OwnClockAhead
    <3> QED
      BY <3>1, <1>1, <1>5, <1>8
  <2> QED
    BY <2>1, <2>2 DEF OwnClockAhead
<1> QED
  BY <1>6, <1>9 DEF IInv, Core

(* An answer says no more than the clock it is a copy of. *)
LEMMA AntiEntropyRequestIInv ==
  ASSUME IInv, NEW r \in Servers, NEW s \in Servers, AntiEntropyRequest(s, r)
  PROVE  IInv'
<1>1. accepted' = accepted /\ vector_clock' = vector_clock
  BY DEF AntiEntropyRequest, replica_vars
<1>2. Core(accepted)'
  BY <1>1, AntiEntropyRequestCore DEF IInv, Core
<1>3. /\ response'[r].vector_clock = vector_clock[s]
      /\ \A q \in Servers : q # r => response'[q] = response[q]
  BY DEF AntiEntropyRequest, IInv, Core, TypeOK
<1>4. OwnClockAhead'
  BY <1>1, <1>3 DEF IInv, OwnClockAhead
<1> QED
  BY <1>2, <1>4 DEF IInv, Core

(* A merge takes the maximum of two clocks that do not exceed it. *)
LEMMA MergeResultIInv ==
  ASSUME IInv, NEW r \in Servers, MergeResult(r)
  PROVE  IInv'
<1>1. accepted' = accepted
  BY DEF MergeResult, EndRequest
<1>2. Core(accepted)'
  BY <1>1, MergeResultCore DEF IInv, Core
<1>3. /\ \A q, s \in Servers : vector_clock[q][s] \in Nat
      /\ \A q, s \in Servers : response[q].vector_clock[s] \in Nat
  BY DEF IInv, Core, TypeOK, VectorClocks, Results
<1>4. /\ \A s \in Servers :
           vector_clock'[r][s] = Maximum(vector_clock[r][s], response[r].vector_clock[s])
      /\ \A q \in Servers : q # r => vector_clock'[q] = vector_clock[q]
      /\ response'[r] = NoResult
      /\ \A q \in Servers : q # r => response'[q] = response[q]
  BY DEF MergeResult, EndRequest, MergeClocks, IInv, Core, TypeOK
<1>5. \A q, s \in Servers : /\ vector_clock[q][s] <= vector_clock[s][s]
                           /\ response[q].vector_clock[s] <= vector_clock[s][s]
  BY DEF IInv, OwnClockAhead
<1>6. \A s \in Servers : vector_clock'[s][s] = vector_clock[s][s]
  BY <1>3, <1>4, <1>5 DEF Maximum
<1>7. OwnClockAhead'
  <2>1. \A w \in accepted' : Covers(vector_clock'[w.replica_id], w)
    <3>1. \A w \in accepted : w.replica_id \in Servers
      BY EntryNumbers DEF IInv, Core, TypeOK
    <3> QED
      BY <3>1, <1>1, <1>6 DEF IInv, OwnClockAhead, Covers
  <2>2. ASSUME NEW q \in Servers, NEW s \in Servers
        PROVE  vector_clock'[q][s] <= vector_clock'[s][s]
    BY <1>3, <1>4, <1>5, <1>6 DEF Maximum
  <2>3. ASSUME NEW q \in Servers, NEW s \in Servers
        PROVE  response'[q].vector_clock[s] <= vector_clock'[s][s]
    BY <1>3, <1>4, <1>5, <1>6 DEF NoResult, NoClock
  <2> QED
    BY <2>1, <2>2, <2>3 DEF OwnClockAhead
<1> QED
  BY <1>2, <1>7 DEF IInv, Core

(* Every step keeps the inductive invariant. *)
LEMMA NextIInv == IInv /\ [Next]_vars => IInv'
<1> SUFFICES ASSUME IInv, [Next]_vars PROVE IInv'
  OBVIOUS
<1>1. ASSUME NEW r \in Servers, ClientWrite(r) PROVE IInv'
  BY <1>1, WriteIInv DEF ClientWrite
<1>2. ASSUME NEW r \in Servers, NEW s \in Servers, AntiEntropyRequest(s, r) PROVE IInv'
  BY <1>2, AntiEntropyRequestIInv
<1>3. ASSUME NEW r \in Servers, MergeResult(r) PROVE IInv'
  BY <1>3, MergeResultIInv
<1>4. ASSUME Core(accepted)', UNCHANGED <<vector_clock, response, accepted>> PROVE IInv'
  BY <1>4 DEF IInv, OwnClockAhead, Covers
<1>5. ASSUME NEW r \in Servers, BeginRound(r) PROVE IInv'
  BY <1>4, <1>5, BeginRoundCore DEF IInv, BeginRound, replica_vars
<1>6. ASSUME NEW r \in Servers, NEW s \in Servers, SendRequest(r, s) PROVE IInv'
  BY <1>4, <1>6, SendRequestCore DEF IInv, SendRequest, replica_vars
<1>7. ASSUME NEW r \in Servers, NEW s \in Servers, AddConnection(r, s) \/ RemoveConnection(r, s)
      PROVE  IInv'
  BY <1>4, <1>7, ConnectionCore
     DEF IInv, AddConnection, RemoveConnection, replica_vars, round_vars
<1>8. CASE UNCHANGED vars
  <2>1. TypeOK' /\ RequestBehind'
    BY <1>8 DEF vars, replica_vars, round_vars, IInv, Core, TypeOK, ClockInv, RequestBehind
  <2>2. UNCHANGED <<replica_vars, response, accepted>>
    BY <1>8 DEF vars, round_vars
  <2>3. Core(accepted)'
    BY <2>1, <2>2, BookkeepingCore DEF IInv, Core
  <2> QED
    BY <1>4, <2>2, <2>3 DEF replica_vars
<1> QED
  BY <1>1, <1>2, <1>3, <1>5, <1>6, <1>7, <1>8 DEF Next, Stabilize

(* IInv holds in every reachable state. *)
THEOREM InductiveInvariant == Spec => []IInv
  BY InitIInv, NextIInv, PTL DEF Spec

(* Every variable stays in its type; for kv_store this is no shallow fact: *)
(* a replay has a last entry to take a value from only in a bounded log    *)
(* with unique stamps.                                                     *)
THEOREM TypeCorrect == Spec => []TypeOK
<1>1. IInv => TypeOK
  BY DEF IInv, Core
<1> QED
  BY <1>1, InductiveInvariant, PTL

(* The accept times are a logical clock and order all entries totally. *)
THEOREM LogicalClock == Spec => [](AcceptTimeAhead /\ UniqueStamps)
<1>1. IInv => AcceptTimeAhead /\ UniqueStamps
  BY DEF IInv, Core, ClockInv, StampsApart, UniqueStamps
<1> QED
  BY <1>1, InductiveInvariant, PTL

(* What write() appends sorts after all the replica has. *)
THEOREM TimesRunAhead == Spec => []AcceptTimeAhead
  BY LogicalClock, PTL

(* No replica claims in its vector clock a write that it lost. *)
THEOREM NoLoss == Spec => []NoWriteLost
<1>1. IInv => NoWriteLost
  BY DEF IInv, Core, LogInv, NoneLost, NoWriteLost
<1> QED
  BY <1>1, InductiveInvariant, PTL

(* No log replays a client's older write to a key after its newer one. *)
THEOREM ClientOrderKept == Spec => []SessionOrder
<1>1. IInv => SessionOrder
  BY DEF IInv, Core, LogInv, NoneLost, NoWriteLost
<1> QED
  BY <1>1, InductiveInvariant, PTL

(* A replica's store is always the replay of its log. *)
THEOREM StoreIsReplay == Spec => []KvStoreIsReplay
<1>1. IInv => KvStoreIsReplay
  BY DEF IInv, Core
<1> QED
  BY <1>1, InductiveInvariant, PTL

-----------------------------------------------------------------------------
(* The operators that ReplicatedStore takes from WriteLog are WriteLog's.  *)
LEMMA SameOperators ==
  /\ \A log : Abstract!Replay(log) = Replay(log)
  /\ \A w, log : Abstract!Superseded(w, log) <=> Superseded(w, log)
  /\ \A x, y : Abstract!Overwrites(x, y) <=> Overwrites(x, y)
  /\ \A x, y : Abstract!Before(x, y) <=> Before(x, y)
  /\ Abstract!Entries = Entries
<1>1. ASSUME NEW log PROVE Abstract!Replay(log) = Replay(log)
  BY DEF Abstract!Replay, Replay, Abstract!OnKey, OnKey, Abstract!Last, Last,
     Abstract!IsLast, IsLast, Abstract!Before, Before
<1>2. ASSUME NEW w, NEW log PROVE Abstract!Superseded(w, log) <=> Superseded(w, log)
  BY DEF Abstract!Superseded, Superseded, Abstract!Overwrites, Overwrites
<1>3. ASSUME NEW x, NEW y PROVE Abstract!Overwrites(x, y) <=> Overwrites(x, y)
  BY DEF Abstract!Overwrites, Overwrites
<1>4. ASSUME NEW x, NEW y PROVE Abstract!Before(x, y) <=> Before(x, y)
  BY DEF Abstract!Before, Before
<1>5. Abstract!Entries = Entries
  BY DEF Abstract!Entries, Entries
<1> QED
  BY <1>1, <1>2, <1>3, <1>4, <1>5

(* A replica's store is a function of what it has seen.                    *)
StoreIsOfSeen == \A r \in Servers : kv_store[r] = Abstract!StoreOf(Seen(r))

LEMMA StoreOfSeen == IInv => StoreIsOfSeen
<1> SUFFICES ASSUME IInv, NEW r \in Servers
             PROVE  kv_store[r] = Abstract!StoreOf(Seen(r))
  BY DEF StoreIsOfSeen
<1>1. kv_store[r] = Replay({w \in Seen(r) : ~ Superseded(w, Seen(r))})
  <2>1. PICK E : E = accepted
    OBVIOUS
  <2>2. PICK C : C = {w \in E : Covers(vector_clock[r], w)}
    OBVIOUS
  <2>3. kv_store[r] = Replay({w \in C : ~ Superseded(w, C)})
    BY <2>1, <2>2, StoreOfCovered DEF IInv
  <2> QED
    BY <2>1, <2>2, <2>3 DEF Seen
<1>2. Abstract!StoreOf(Seen(r)) = Replay({w \in Seen(r) : ~ Superseded(w, Seen(r))})
  BY SameOperators DEF Abstract!StoreOf, Abstract!Current
<1> QED
  BY <1>1, <1>2

(***************************************************************************)
(* Strong convergence: equal vector clocks mean equal stores.              *)
(***************************************************************************)
THEOREM StrongConvergence == Spec => []Convergence
<1>1. IInv => Convergence
  <2> SUFFICES ASSUME IInv PROVE Convergence
    OBVIOUS
  <2>1. PICK E : E = accepted
    OBVIOUS
  <2> QED
    BY <2>1, SameClocksSameStores DEF IInv
<1> QED
  BY <1>1, InductiveInvariant, PTL

-----------------------------------------------------------------------------
(***************************************************************************)
(* The steps.  An accepted write is an Accept, a merged answer is a Learn  *)
(* of the entries the answer's clock covers, all else is a stutter.        *)
(***************************************************************************)
LEMMA InitRefines == Init => Abstract!Init
<1> SUFFICES ASSUME Init PROVE Abstract!Init
  OBVIOUS
<1>1. \A r \in Servers : Seen(r) = {}
  BY DEF Init, Seen
<1> QED
  BY <1>1 DEF Init, Abstract!Init

LEMMA WriteRefines ==
  ASSUME IInv, IInv', NEW r \in Servers, NEW key \in Keys, NEW value \in Values,
         NEW cid \in Clients, NEW t \in ClientTimes,
         FreshClientTime(cid, t), Write(r, key, value, cid, t)
  PROVE  Abstract!Next
<1> DEFINE n == NewEntry(r, key, value, cid, t)
           seen == [q \in Servers |-> Seen(q)]
<1>1. /\ accepted' = accepted \cup {n}
      /\ kv_store' = [kv_store EXCEPT ![r][key] = value]
      /\ \A q \in Servers : q # r => vector_clock'[q] = vector_clock[q]
  BY DEF Write, IInv, Core, TypeOK
<1>2. /\ n.accept_time = accept_time[r] /\ n.replica_id = r
      /\ n.client_id = cid /\ n.client_time = t
  BY DEF NewEntry
<1>3. /\ n \in Entries
      /\ \A q \in Servers : ~ Covers(vector_clock[q], n)
      /\ Covers(vector_clock'[r], n)
      /\ \A q \in Servers, w \in accepted :
           Covers(vector_clock'[q], w) <=> Covers(vector_clock[q], w)
  <2>1. PICK m : m = n
    OBVIOUS
  <2>2. /\ m \in Entries
        /\ \A q \in Servers : ~ Covers(vector_clock[q], m)
        /\ Covers(vector_clock'[r], m)
        /\ \A q \in Servers, w \in accepted :
             Covers(vector_clock'[q], w) <=> Covers(vector_clock[q], w)
    BY <2>1, WriteOfNewEntry
  <2> QED
    BY <2>1, <2>2
<1> HIDE DEF n
<1>4. \A w \in accepted : w \in Entries
  BY DEF IInv, Core, TypeOK
<1>5. \A x \in Seen(r) : Before(x, n)
  <2> SUFFICES ASSUME NEW x \in Seen(r) PROVE Before(x, n)
    OBVIOUS
  <2>1. x \in Entries /\ x.accept_time < vector_clock[r][x.replica_id]
    BY <1>4 DEF Seen, Covers
  <2>2. x.accept_time \in Nat /\ x.replica_id \in Servers
    BY <2>1, EntryNumbers
  <2>3. /\ vector_clock[r][x.replica_id] \in Nat /\ accept_time[r] \in Nat
        /\ vector_clock[r][x.replica_id] <= accept_time[r]
    BY <2>2 DEF IInv, Core, TypeOK, VectorClocks, ClockInv, AcceptTimeAhead
  <2> QED
    BY <2>1, <2>2, <2>3, <1>2 DEF Before
<1>6. \A x \in accepted : ~ Overwrites(x, n) /\ x # n
  <2>1. \A x \in accepted : ~ Overwrites(x, n)
    BY <1>2, <1>3, <1>4, EntryNumbers DEF FreshClientTime, Overwrites
  <2>2. n \notin accepted
    BY <1>2, <1>3 DEF IInv, Core, OwnClockAhead
  <2> QED
    BY <2>1, <2>2
<1>7. Seen(r)' = Seen(r) \cup {n} /\ \A q \in Servers : q # r => Seen(q)' = Seen(q)
  BY <1>1, <1>3 DEF Seen
<1>8. seen' = [seen EXCEPT ![r] = @ \cup {n}]
  BY <1>7
<1>9. kv_store' = [kv_store EXCEPT ![r] = Abstract!StoreOf(seen'[r])]
  <2>1. StoreIsOfSeen'
    BY StoreOfSeen, PTL
  <2>2. kv_store'[r] = Abstract!StoreOf(Seen(r)')
    BY <2>1 DEF StoreIsOfSeen
  <2> QED
    BY <2>2, <1>1 DEF IInv, Core, TypeOK
<1>10. Abstract!Accept(r, n)
  BY <1>1, <1>2, <1>3, <1>5, <1>6, <1>8, <1>9, SameOperators DEF Abstract!Accept
<1> QED
  BY <1>1, <1>10 DEF Abstract!Next

LEMMA MergeResultRefines ==
  ASSUME IInv, IInv', NEW r \in Servers, MergeResult(r)
  PROVE  Abstract!Next
<1> DEFINE res == response[r]
           entries == {w \in accepted : Covers(res.vector_clock, w)}
           seen == [q \in Servers |-> Seen(q)]
<1>1. /\ accepted' = accepted
      /\ vector_clock' = [vector_clock EXCEPT ![r] = MergeClocks(@, res.vector_clock)]
      /\ \A q \in Servers : q # r => kv_store'[q] = kv_store[q]
      /\ kv_store' = kv_store \/ kv_store' = [kv_store EXCEPT ![r] = Replay(write_log'[r])]
  BY DEF MergeResult, EndRequest, IInv, Core, TypeOK
<1>2. /\ \A q \in Servers : q # r => vector_clock'[q] = vector_clock[q]
      /\ \A s \in Servers :
           vector_clock'[r][s] = Maximum(vector_clock[r][s], res.vector_clock[s])
      /\ \A s \in Servers : vector_clock[r][s] \in Nat /\ res.vector_clock[s] \in Nat
  BY <1>1 DEF IInv, Core, TypeOK, VectorClocks, Results, MergeClocks
<1> HIDE DEF res
<1>3. \A w \in accepted : w.accept_time \in Nat /\ w.replica_id \in Servers
  BY EntryNumbers DEF IInv, Core, TypeOK
<1>4. Seen(r)' = Seen(r) \cup entries /\ \A q \in Servers : q # r => Seen(q)' = Seen(q)
  <2>1. \A w \in accepted :
          Covers(vector_clock'[r], w) <=>
            Covers(vector_clock[r], w) \/ Covers(res.vector_clock, w)
    BY <1>2, <1>3 DEF Covers, Maximum
  <2> QED
    BY <2>1, <1>1, <1>2 DEF Seen
<1>5. seen' = [seen EXCEPT ![r] = @ \cup entries]
  BY <1>4
<1>6. Abstract!GapFree(Seen(r) \cup entries)
  <2> SUFFICES ASSUME NEW w \in Seen(r) \cup entries, NEW x \in accepted,
                      x.replica_id = w.replica_id, x.accept_time < w.accept_time
               PROVE  x \in Seen(r) \cup entries
    BY DEF Abstract!GapFree
  <2>1. w \in accepted
    BY DEF Seen
  <2>2. CASE w \in Seen(r)
    BY <2>1, <2>2, <1>2, <1>3 DEF Seen, Covers
  <2>3. CASE w \in entries
    BY <2>1, <2>3, <1>2, <1>3 DEF Covers
  <2> QED
    BY <2>2, <2>3
<1>7. kv_store' = [kv_store EXCEPT ![r] = Abstract!StoreOf(seen'[r])]
  <2>1. StoreIsOfSeen'
    BY StoreOfSeen, PTL
  <2>2. kv_store'[r] = Abstract!StoreOf(Seen(r)')
    BY <2>1 DEF StoreIsOfSeen
  <2> QED
    BY <2>2, <1>1 DEF IInv, Core, TypeOK
<1>8. Abstract!Learn(r, entries)
  BY <1>1, <1>5, <1>6, <1>7 DEF Abstract!Learn
<1>9. entries \in SUBSET accepted
  OBVIOUS
<1> QED
  BY <1>8, <1>9 DEF Abstract!Next

(* A step that leaves clocks and stores alone.                             *)
LEMMA StutterRefines ==
  ASSUME UNCHANGED <<accepted, vector_clock, kv_store>>
  PROVE  UNCHANGED Abstract!vars
  BY DEF Abstract!vars, Seen

LEMMA NextRefines == IInv /\ IInv' /\ [Next]_vars => [Abstract!Next]_(Abstract!vars)
<1> SUFFICES ASSUME IInv, IInv', [Next]_vars
             PROVE  [Abstract!Next]_(Abstract!vars)
  OBVIOUS
<1>1. ASSUME NEW r \in Servers, ClientWrite(r) PROVE Abstract!Next
  <2>1. PICK key \in Keys, value \in Values, cid \in Clients, t \in ClientTimes :
          FreshClientTime(cid, t) /\ Write(r, key, value, cid, t)
    BY <1>1 DEF ClientWrite
  <2> QED
    BY <2>1, WriteRefines
<1>2. ASSUME NEW r \in Servers, MergeResult(r) PROVE Abstract!Next
  BY <1>2, MergeResultRefines
<1>3. ASSUME NEW r \in Servers, BeginRound(r) PROVE UNCHANGED Abstract!vars
  BY <1>3, StutterRefines DEF BeginRound, replica_vars
<1>4. ASSUME NEW r \in Servers, NEW s \in Servers,
             SendRequest(r, s) \/ AntiEntropyRequest(s, r)
      PROVE  UNCHANGED Abstract!vars
  BY <1>4, StutterRefines DEF SendRequest, AntiEntropyRequest, replica_vars
<1>5. ASSUME NEW r \in Servers, NEW s \in Servers,
             AddConnection(r, s) \/ RemoveConnection(r, s)
      PROVE  UNCHANGED Abstract!vars
  BY <1>5, StutterRefines DEF AddConnection, RemoveConnection, replica_vars
<1>6. CASE UNCHANGED vars
  BY <1>6, StutterRefines DEF vars, replica_vars
<1> QED
  BY <1>1, <1>2, <1>3, <1>4, <1>5, <1>6 DEF Next, Stabilize

(***************************************************************************)
(* The replicas implement ReplicatedStore: what a replica has seen is what *)
(* its vector clock covers, and its store is a function of that alone.     *)
(***************************************************************************)
THEOREM Implementation == Spec => ImplementsReplicatedStore
  BY InitRefines, NextRefines, InductiveInvariant, PTL
     DEF Spec, ImplementsReplicatedStore, Abstract!Spec
=============================================================================
