------------------------- MODULE ClientServerProofs -------------------------
(***************************************************************************)
(* The session guarantees, for all constants.                              *)
(*                                                                         *)
(* First the clients are shown to be an environment ReplicaServer allows,  *)
(* so that IInv holds of the composed system.  Then three facts about what *)
(* a client's clock for a key covers, which together with NoWriteLost and  *)
(* SessionOrder say what a replica that serves the client has in its log.  *)
(***************************************************************************)
EXTENDS ClientServer, ReplicaServerProofs

(* A client's counter is past the client_time of all its writes. *)
TimesAhead == \A w \in accepted : w.client_time < time[w.client_id]

(* A client's clock for a key covers its last write of the key. *)
OwnWritesCovered ==
  \A c \in Clients : \A w \in accepted :
    w.client_id = c /\ ~ Superseded(w, accepted)
      => Covers(key_vectorclock_map[c][w.key], w)

(* A clock that is kept for a key covers some entry for it. *)
SomeEntryCovered ==
  \A c \in Clients, k \in Keys :
    key_vectorclock_map[c][k] # NoClock
      => \E w \in accepted : w.key = k /\ Covers(key_vectorclock_map[c][k], w)

(* A client that has not written a key keeps covering what it read there. *)
ReadCovered ==
  \A c \in Clients, k \in Keys :
    ~ Wrote(c, k) /\ last_read[c][k] # NoEntry
      => /\ last_read[c][k] \in accepted
         /\ last_read[c][k].key = k
         /\ Covers(key_vectorclock_map[c][k], last_read[c][k])

ClientInv ==
  /\ ClientTypeOK
  /\ TimesAhead
  /\ OwnWritesCovered
  /\ SomeEntryCovered
  /\ ReadCovered

SystemInv == IInv /\ ClientInv

-----------------------------------------------------------------------------
(* What a replica's log has under a key it has a store entry for. *)
LEMMA StoredEntry ==
  ASSUME IInv, NEW r \in Servers, NEW k \in Keys, OnKey(write_log[r], k) # {}
  PROVE  /\ IsLast(EntryRead(r, k), OnKey(write_log[r], k))
         /\ EntryRead(r, k) \in write_log[r]
         /\ EntryRead(r, k) \in accepted
         /\ EntryRead(r, k) \in Entries
         /\ EntryRead(r, k).key = k
         /\ kv_store[r][k] = EntryRead(r, k).value
         /\ kv_store[r][k] # NoValue
<1>1. OnKey(write_log[r], k) \in SUBSET Entries /\ accept_time[r] \in Nat
  BY DEF OnKey, IInv, Core, TypeOK
<1>2. \A w \in OnKey(write_log[r], k) : w.accept_time < accept_time[r]
  BY DEF OnKey, IInv, Core, ClockInv, AcceptTimeAhead
<1>3. UniquelyStamped(OnKey(write_log[r], k))
  BY DEF UniquelyStamped, OnKey, IInv, Core, ClockInv, StampsApart, LogsFrom
<1>4. IsLast(EntryRead(r, k), OnKey(write_log[r], k))
  BY <1>1, <1>2, <1>3, LastExists DEF EntryRead
<1>5. EntryRead(r, k) \in OnKey(write_log[r], k)
  BY <1>4 DEF IsLast
<1>6. kv_store[r][k] = EntryRead(r, k).value
  BY DEF IInv, Core, KvStoreIsReplay, Replay, EntryRead
<1>7. EntryRead(r, k).value \in Values
  BY <1>1, <1>5 DEF Entries
<1> QED
  BY <1>1, <1>4, <1>5, <1>6, <1>7, ValueAssumption
     DEF OnKey, IInv, Core, ClockInv, LogsFrom, ValueAssumption

(* What a client's clock covers, a replica that serves the client has.    *)
LEMMA ServedHas ==
  ASSUME IInv, NEW r \in Servers, NEW clock \in VectorClocks, Serves(r, clock),
         NEW w \in accepted, Covers(clock, w)
  PROVE  /\ w \in write_log[r] \/ Superseded(w, write_log[r])
         /\ Covers(vector_clock[r], w)
         /\ OnKey(write_log[r], w.key) # {}
<1>1. w.accept_time \in Nat /\ w.replica_id \in Servers
  BY EntryNumbers DEF IInv, Core, TypeOK
<1>2. Covers(vector_clock[r], w)
  BY <1>1 DEF Covers, Serves, ClockLeq, VectorClocks, IInv, Core, TypeOK
<1>3. w \in write_log[r] \/ Superseded(w, write_log[r])
  BY <1>2 DEF IInv, Core, LogInv, NoneLost
<1> QED
  BY <1>2, <1>3 DEF Superseded, Overwrites, OnKey

(* An entry that a read returns is not one that is overwritten by what the *)
(* reader's clock covers.                                                  *)
LEMMA NotOverwritten ==
  ASSUME IInv, NEW r \in Servers, NEW clock \in VectorClocks, Serves(r, clock),
         NEW f \in accepted, Covers(clock, f)
  PROVE  ~ Overwrites(f, EntryRead(r, f.key))
<1> DEFINE e == EntryRead(r, f.key)
<1>1. f \in Entries /\ f.key \in Keys
  BY DEF IInv, Core, TypeOK, Entries
<1>2. /\ IsLast(e, OnKey(write_log[r], f.key))
      /\ e \in write_log[r] /\ e \in Entries /\ e.key = f.key
  BY <1>1, ServedHas, StoredEntry
<1> HIDE DEF e
<1> SUFFICES ASSUME Overwrites(f, e) PROVE FALSE
  BY DEF e
<1>3. PICK y \in write_log[r] : Overwrites(y, e)
  <2>1. CASE f \in write_log[r]
    BY <2>1
  <2>2. CASE Superseded(f, write_log[r])
    <3>1. PICK y \in write_log[r] : Overwrites(y, f)
      BY <2>2 DEF Superseded
    <3>2. y \in Entries
      BY DEF IInv, Core, TypeOK
    <3> QED
      BY <3>1, <3>2, <1>1, <1>2, OverwritesTransitive
  <2> QED
    BY <2>1, <2>2, ServedHas
<1>4. Before(e, y) /\ y \in Entries
  BY <1>2, <1>3 DEF IInv, Core, LogInv, SessionOrder, TypeOK
<1>5. y = e \/ Before(y, e)
  BY <1>2, <1>3 DEF IsLast, OnKey, Overwrites
<1> QED
  BY <1>2, <1>4, <1>5, BeforeAsymmetric

-----------------------------------------------------------------------------
(***************************************************************************)
(* The clients are an environment of the kind ReplicaServer allows.        *)
(***************************************************************************)
LEMMA SystemInitInv == SystemInit => Init /\ ClientInv
<1> SUFFICES ASSUME SystemInit PROVE ClientInv
  BY DEF SystemInit
<1> USE DEF SystemInit, Init
<1>1. NoClock \in VectorClocks
  BY DEF NoClock, VectorClocks
<1>2. ClientTypeOK
  BY <1>1 DEF ClientTypeOK
<1> QED
  BY <1>2 DEF ClientInv, TimesAhead, OwnWritesCovered, SomeEntryCovered, ReadCovered

LEMMA SystemStepRefines ==
  ASSUME SystemTypeOK, TimesAhead, [SystemNext]_system_vars
  PROVE  [Next]_vars
<1>1. ASSUME NEW c \in Clients, ClientPuts(c)
      PROVE  Next
  <2>1. PICK key \in Keys, value \in Values : RequestWrite(c, key, value)
    BY <1>1 DEF ClientPuts
  <2>2. PICK rid \in client_reachable[c] : Write(rid, key, value, c, time[c])
    BY <2>1 DEF RequestWrite
  <2>3. FreshClientTime(c, time[c])
    BY DEF FreshClientTime, TimesAhead
  <2>4. rid \in Servers
    BY <2>2 DEF SystemTypeOK, ClientTypeOK
  <2>5. ClientWrite(rid)
    BY <1>1, <2>2, <2>3 DEF ClientWrite, ClientPuts
  <2> QED
    BY <2>4, <2>5 DEF Next
<1>2. ASSUME ReplicaStep PROVE Next
  BY <1>2 DEF ReplicaStep, Next
<1>3. ASSUME NEW c \in Clients, NEW key \in Keys, RequestRead(c, key)
      PROVE  UNCHANGED vars
  BY <1>3 DEF RequestRead
<1>4. ASSUME NEW c \in Clients, NEW r \in Servers,
             AddClientConnection(c, r) \/ RemoveClientConnection(c, r)
      PROVE  UNCHANGED vars
  BY <1>4 DEF AddClientConnection, RemoveClientConnection
<1>5. CASE UNCHANGED system_vars
  BY <1>5 DEF system_vars
<1> QED
  BY <1>1, <1>2, <1>3, <1>4, <1>5 DEF SystemNext

(***************************************************************************)
(* A put.  The clock that comes back covers the new entry; whatever the    *)
(* client wrote to that key before is overwritten by it.                   *)
(***************************************************************************)
LEMMA RequestWriteInv ==
  ASSUME SystemInv, NEW c \in Clients, NEW key \in Keys, NEW value \in Values,
         time[c] \in ClientTimes, RequestWrite(c, key, value),
         vector_clock' \in [Servers -> VectorClocks]
  PROVE  ClientInv'
<1> USE DEF SystemInv, ClientInv
<1>1. PICK rid \in client_reachable[c] :
        /\ Write(rid, key, value, c, time[c])
        /\ key_vectorclock_map' = [key_vectorclock_map EXCEPT ![c][key] = vector_clock'[rid]]
        /\ time' = [time EXCEPT ![c] = @ + 1]
        /\ UNCHANGED <<client_reachable, last_read, replaced>>
  BY DEF RequestWrite
<1>2. rid \in Servers
  BY DEF ClientTypeOK
<1> DEFINE n == NewEntry(rid, key, value, c, time[c])
<1>3. accepted' = accepted \cup {n}
  BY <1>1 DEF Write
<1>4. n \in Entries /\ Covers(vector_clock'[rid], n)
  <2>1. PICK m : m = n
    OBVIOUS
  <2>2. m \in Entries /\ Covers(vector_clock'[rid], m)
    BY <1>1, <1>2, <2>1, WriteOfNewEntry
  <2> QED
    BY <2>1, <2>2
<1>5. n.client_id = c /\ n.client_time = time[c] /\ n.key = key
  BY DEF NewEntry
<1> HIDE DEF n
<1>6. \A w \in accepted : w \in Entries
  BY DEF IInv, Core, TypeOK
<1>7. /\ \A d \in Clients : time[d] \in Nat
      /\ time'[c] = time[c] + 1 /\ \A d \in Clients : d # c => time'[d] = time[d]
  BY <1>1 DEF ClientTypeOK
<1>8. /\ key_vectorclock_map'[c][key] = vector_clock'[rid]
      /\ \A d \in Clients, k \in Keys : d # c \/ k # key =>
           key_vectorclock_map'[d][k] = key_vectorclock_map[d][k]
  BY <1>1 DEF ClientTypeOK
<1>9. ClientTypeOK'
  BY <1>1, <1>2 DEF ClientTypeOK
<1>10. TimesAhead'
  <2> SUFFICES ASSUME NEW w \in accepted' PROVE w.client_time < time'[w.client_id]
    BY DEF TimesAhead
  <2>1. w \in Entries /\ w.client_time \in Nat /\ w.client_id \in Clients
    BY <1>3, <1>4, <1>6, EntryNumbers DEF Entries
  <2>2. CASE w \in accepted
    BY <2>1, <2>2, <1>7 DEF TimesAhead
  <2>3. CASE w = n
    BY <2>3, <1>5, <1>7
  <2> QED
    BY <2>2, <2>3, <1>3
<1>11. OwnWritesCovered'
  <2> SUFFICES ASSUME NEW d \in Clients, NEW w \in accepted',
                      w.client_id = d, ~ Superseded(w, accepted')
               PROVE  Covers(key_vectorclock_map'[d][w.key], w)
    BY DEF OwnWritesCovered
  <2>1. CASE w = n
    BY <2>1, <1>4, <1>5, <1>8
  <2>2. CASE w \in accepted /\ ~ (d = c /\ w.key = key)
    <3>1. w.key \in Keys
      BY <2>2, <1>6 DEF Entries
    <3>2. ~ Superseded(w, accepted)
      BY <1>3 DEF Superseded
    <3> QED
      BY <2>2, <3>1, <3>2, <1>8 DEF OwnWritesCovered
  <2>3. CASE w \in accepted /\ d = c /\ w.key = key
    <3>1. Overwrites(n, w)
      BY <2>3, <1>5 DEF Overwrites, TimesAhead
    <3> QED
      BY <3>1, <1>3 DEF Superseded
  <2> QED
    BY <2>1, <2>2, <2>3, <1>3
<1>12. SomeEntryCovered'
  <2> SUFFICES ASSUME NEW d \in Clients, NEW k \in Keys,
                      key_vectorclock_map'[d][k] # NoClock
               PROVE  \E w \in accepted' : w.key = k /\ Covers(key_vectorclock_map'[d][k], w)
    BY DEF SomeEntryCovered
  <2>1. CASE d = c /\ k = key
    BY <2>1, <1>3, <1>4, <1>5, <1>8
  <2>2. CASE d # c \/ k # key
    BY <2>2, <1>3, <1>8 DEF SomeEntryCovered
  <2> QED
    BY <2>1, <2>2
<1>13. ReadCovered'
  <2> SUFFICES ASSUME NEW d \in Clients, NEW k \in Keys,
                      ~ Wrote(d, k)', last_read[d][k] # NoEntry
               PROVE  /\ last_read[d][k] \in accepted'
                      /\ last_read[d][k].key = k
                      /\ Covers(key_vectorclock_map'[d][k], last_read[d][k])
    BY <1>1 DEF ReadCovered
  <2>1. ~ Wrote(d, k) /\ (d # c \/ k # key)
    BY <1>3, <1>5 DEF Wrote
  <2> QED
    BY <2>1, <1>3, <1>8 DEF ReadCovered
<1> QED
  BY <1>9, <1>10, <1>11, <1>12, <1>13

(***************************************************************************)
(* A get.  The replica that served it is at or past the client's clock, so *)
(* taking over the replica's clock forgets nothing.                        *)
(***************************************************************************)
LEMMA RequestReadInv ==
  ASSUME SystemInv, NEW c \in Clients, NEW key \in Keys, RequestRead(c, key)
  PROVE  ClientInv'
<1> USE DEF SystemInv, ClientInv
<1>1. PICK rid \in client_reachable[c] :
        /\ Read(rid, key, key_vectorclock_map[c][key]) \notin {ERR_DEP, ERR_KEY}
        /\ key_vectorclock_map' = [key_vectorclock_map EXCEPT ![c][key] = vector_clock[rid]]
        /\ last_read' = [last_read EXCEPT ![c][key] = EntryRead(rid, key)]
        /\ replaced' = [replaced EXCEPT ![c][key] =
                          IF last_read[c][key] \in {NoEntry, EntryRead(rid, key)} THEN @
                          ELSE @ \cup {last_read[c][key]}]
        /\ UNCHANGED <<vars, time, client_reachable>>
  BY DEF RequestRead
<1> DEFINE e == EntryRead(rid, key)
<1>2. /\ rid \in Servers
      /\ \A d \in Clients, k \in Keys : key_vectorclock_map[d][k] \in VectorClocks
      /\ vector_clock[rid] \in VectorClocks
  BY DEF ClientTypeOK, IInv, Core, TypeOK
<1>3. Serves(rid, key_vectorclock_map[c][key]) /\ kv_store[rid][key] # NoValue
  BY <1>1 DEF Read
<1>4. OnKey(write_log[rid], key) # {}
  BY <1>2, <1>3 DEF IInv, Core, KvStoreIsReplay, Replay
<1>5. e \in accepted /\ e \in Entries /\ e.key = key /\ Covers(vector_clock[rid], e)
  BY <1>2, <1>4, StoredEntry DEF IInv, Core, ClockInv, LogCovered
<1> HIDE DEF e
<1>6. /\ accepted' = accepted
      /\ key_vectorclock_map'[c][key] = vector_clock[rid]
      /\ \A d \in Clients, k \in Keys : d # c \/ k # key =>
           key_vectorclock_map'[d][k] = key_vectorclock_map[d][k]
  BY <1>1 DEF ClientTypeOK, vars
(* The client's clocks only grow. *)
<1>7. \A d \in Clients, k \in Keys : \A w \in accepted :
        Covers(key_vectorclock_map[d][k], w) => Covers(key_vectorclock_map'[d][k], w)
  BY <1>2, <1>3, <1>6, ServedHas
<1>8. ClientTypeOK'
  BY <1>1, <1>2, <1>5 DEF ClientTypeOK, e
<1>9. TimesAhead'
  BY <1>1, <1>6 DEF TimesAhead
<1>10. OwnWritesCovered'
  <2>1. \A w \in accepted : w.key \in Keys
    BY DEF IInv, Core, TypeOK, Entries
  <2> QED
    BY <2>1, <1>6, <1>7 DEF OwnWritesCovered
<1>11. SomeEntryCovered'
  BY <1>5, <1>6 DEF SomeEntryCovered
<1>12. ReadCovered'
  <2> SUFFICES ASSUME NEW d \in Clients, NEW k \in Keys,
                      ~ Wrote(d, k), last_read'[d][k] # NoEntry
               PROVE  /\ last_read'[d][k] \in accepted
                      /\ last_read'[d][k].key = k
                      /\ Covers(key_vectorclock_map'[d][k], last_read'[d][k])
    BY <1>6 DEF ReadCovered, Wrote
  <2>1. CASE d = c /\ k = key
    <3>1. last_read'[d][k] = e
      BY <2>1, <1>1 DEF ClientTypeOK, e
    <3> QED
      BY <3>1, <2>1, <1>5, <1>6
  <2>2. CASE d # c \/ k # key
    <3>1. last_read'[d][k] = last_read[d][k]
      BY <2>2, <1>1 DEF ClientTypeOK
    <3> QED
      BY <3>1, <1>7 DEF ReadCovered
  <2> QED
    BY <2>1, <2>2
<1> QED
  BY <1>8, <1>9, <1>10, <1>11, <1>12

(* A step that leaves the clients' clocks and the accepted entries alone.  *)
LEMMA OtherClientInv ==
  ASSUME ClientInv, ClientTypeOK',
         UNCHANGED <<accepted, key_vectorclock_map, time, last_read>>
  PROVE  ClientInv'
  BY DEF ClientInv, TimesAhead, OwnWritesCovered, SomeEntryCovered, ReadCovered, Wrote

LEMMA SystemNextInv ==
  SystemInv /\ [SystemNext]_system_vars => SystemInv' /\ [Next]_vars
<1> SUFFICES ASSUME SystemInv, [SystemNext]_system_vars
             PROVE  SystemInv' /\ [Next]_vars
  OBVIOUS
<1> USE DEF SystemInv
<1>1. [Next]_vars
  BY SystemStepRefines DEF SystemTypeOK, ClientInv, IInv, Core
<1>2. IInv'
  BY <1>1, NextIInv
<1>3. ASSUME NEW c \in Clients, ClientPuts(c)
      PROVE  ClientInv'
  <2>1. PICK key \in Keys, value \in Values : RequestWrite(c, key, value)
    BY <1>3 DEF ClientPuts
  <2>2. time[c] \in ClientTimes /\ vector_clock' \in [Servers -> VectorClocks]
    BY <1>2, <1>3 DEF ClientPuts, IInv, Core, TypeOK
  <2> QED
    BY <2>1, <2>2, RequestWriteInv
<1>4. ASSUME NEW c \in Clients, NEW key \in Keys, RequestRead(c, key)
      PROVE  ClientInv'
  BY <1>4, RequestReadInv
<1>5. ASSUME NEW c \in Clients, NEW r \in Servers,
             AddClientConnection(c, r) \/ RemoveClientConnection(c, r)
      PROVE  ClientInv'
  <2>1. ClientTypeOK'
    BY <1>5 DEF AddClientConnection, RemoveClientConnection, ClientInv, ClientTypeOK
  <2> QED
    BY <2>1, <1>5, OtherClientInv
       DEF AddClientConnection, RemoveClientConnection, vars
<1>6. ASSUME ReplicaStep PROVE ClientInv'
  <2>1. ClientTypeOK' /\ UNCHANGED <<key_vectorclock_map, time, last_read>>
    BY <1>6 DEF ReplicaStep, client_vars, ClientInv, ClientTypeOK
  <2>2. accepted' = accepted
    BY <1>6 DEF ReplicaStep, Stabilize, BeginRound, SendRequest, AntiEntropyRequest,
       MergeResult, EndRequest, AddConnection, RemoveConnection
  <2> QED
    BY <2>1, <2>2, OtherClientInv
<1>7. ASSUME UNCHANGED system_vars PROVE ClientInv'
  <2>1. ClientTypeOK' /\ UNCHANGED <<key_vectorclock_map, time, last_read, accepted>>
    BY <1>7 DEF system_vars, client_vars, vars, ClientInv, ClientTypeOK
  <2> QED
    BY <2>1, OtherClientInv
<1> QED
  BY <1>1, <1>2, <1>3, <1>4, <1>5, <1>6, <1>7 DEF SystemNext

THEOREM SystemInvariant == SystemSpec => []SystemInv
<1>1. SystemInit => SystemInv
  BY SystemInitInv, InitIInv DEF SystemInv
<1> QED
  BY <1>1, SystemNextInv, PTL DEF SystemSpec

(***************************************************************************)
(* The composed system is one behaviour of the replicas among others, so   *)
(* that every theorem about Spec holds of it.                              *)
(***************************************************************************)
THEOREM SystemImplementsReplicas == SystemSpec => Spec
<1>1. SystemInit => Init
  BY DEF SystemInit
<1> QED
  BY <1>1, SystemInvariant, SystemNextInv, PTL DEF SystemSpec, Spec

(* With its clients, too, the system is one replicated store.              *)
THEOREM SystemIsReplicatedStore == SystemSpec => ImplementsReplicatedStore
  BY SystemImplementsReplicas, Implementation, PTL

(* Clocks, times, histories and connections stay in their types.           *)
THEOREM SystemTypeCorrect == SystemSpec => []SystemTypeOK
<1>1. SystemInv => SystemTypeOK
  BY DEF SystemInv, IInv, Core, ClientInv, SystemTypeOK
<1> QED
  BY <1>1, SystemInvariant, PTL

(***************************************************************************)
(* Read your writes, at whatever replica the client gets an answer.        *)
(***************************************************************************)
THEOREM ReadYourWritesHolds == SystemSpec => []ReadYourWrites
<1>1. SystemInv => ReadYourWrites
  <2> SUFFICES ASSUME SystemInv, NEW c \in Clients, NEW r \in Servers, NEW w \in accepted,
                      w.client_id = c, ~ Superseded(w, accepted),
                      Serves(r, key_vectorclock_map[c][w.key])
               PROVE  \E e \in write_log[r] :
                        /\ IsLast(e, OnKey(write_log[r], w.key))
                        /\ kv_store[r][w.key] = e.value
                        /\ e = w \/ Before(w, e)
    BY DEF ReadYourWrites
  <2> USE DEF SystemInv
  <2>1. w.key \in Keys /\ key_vectorclock_map[c][w.key] \in VectorClocks
    BY DEF IInv, Core, TypeOK, Entries, ClientInv, ClientTypeOK
  <2>2. Covers(key_vectorclock_map[c][w.key], w)
    BY DEF ClientInv, OwnWritesCovered
  <2>3. w \in write_log[r]
    <3>1. w \in write_log[r] \/ Superseded(w, write_log[r])
      BY <2>1, <2>2, ServedHas
    <3> QED
      BY <3>1 DEF Superseded, IInv, Core, ClockInv, LogsFrom
  <2>4. w \in OnKey(write_log[r], w.key)
    BY <2>3 DEF OnKey
  <2> QED
    BY <2>1, <2>4, StoredEntry DEF IsLast
<1> QED
  BY <1>1, SystemInvariant, PTL

(* A key a client has put or got is there at every replica that answers.   *)
THEOREM KeyStaysPresentHolds == SystemSpec => []KeyStaysPresent
<1>1. SystemInv => KeyStaysPresent
  <2> SUFFICES ASSUME SystemInv, NEW c \in Clients, NEW k \in Keys, NEW r \in Servers,
                      key_vectorclock_map[c][k] # NoClock,
                      Serves(r, key_vectorclock_map[c][k])
               PROVE  kv_store[r][k] # NoValue
    BY DEF KeyStaysPresent
  <2>1. PICK w \in accepted : w.key = k /\ Covers(key_vectorclock_map[c][k], w)
    BY DEF SystemInv, ClientInv, SomeEntryCovered
  <2>2. key_vectorclock_map[c][k] \in VectorClocks
    BY DEF SystemInv, ClientInv, ClientTypeOK
  <2> QED
    BY <2>1, <2>2, ServedHas, StoredEntry DEF SystemInv
<1> QED
  BY <1>1, SystemInvariant, PTL

(* Readers see what one client writes to a key in the order it wrote.      *)
THEOREM ReadersSeeWritersInOrderHolds == SystemSpec => ReadersSeeWritersInOrder
<1> DEFINE Kept == \A c \in Clients, k \in Keys : ~ Wrote(c, k) => ~ ReadsOverwritten(c, k)
<1>1. SystemInv /\ [SystemNext]_system_vars => [Kept]_system_vars
  <2> SUFFICES ASSUME SystemInv, [SystemNext]_system_vars,
                      NEW d \in Clients, NEW k \in Keys, ~ Wrote(d, k),
                      last_read[d][k] # NoEntry
               PROVE  ~ Overwrites(last_read[d][k], last_read'[d][k])
    BY DEF ReadsOverwritten
  <2> DEFINE f == last_read[d][k]
  <2>1. f \in accepted /\ f \in Entries /\ f.key = k /\ Covers(key_vectorclock_map[d][k], f)
    BY DEF SystemInv, ClientInv, ReadCovered, IInv, Core, TypeOK
  <2>2. CASE last_read'[d][k] = f
    BY <2>1, <2>2, EntryNumbers DEF Overwrites
  <2>3. ASSUME NEW c \in Clients, NEW key \in Keys, RequestRead(c, key),
               last_read'[d][k] # f
        PROVE  ~ Overwrites(f, last_read'[d][k])
    <3>1. PICK rid \in client_reachable[c] :
            /\ Read(rid, key, key_vectorclock_map[c][key]) \notin {ERR_DEP, ERR_KEY}
            /\ last_read' = [last_read EXCEPT ![c][key] = EntryRead(rid, key)]
      BY <2>3 DEF RequestRead
    <3>2. c = d /\ key = k /\ last_read'[d][k] = EntryRead(rid, k)
      BY <2>3, <3>1 DEF SystemInv, ClientInv, ClientTypeOK
    <3>3. rid \in Servers /\ key_vectorclock_map[d][k] \in VectorClocks
      BY DEF SystemInv, ClientInv, ClientTypeOK
    <3>4. Serves(rid, key_vectorclock_map[d][k])
      BY <3>1, <3>2 DEF Read
    <3> QED
      BY <2>1, <3>2, <3>3, <3>4, NotOverwritten DEF SystemInv
  <2>4. last_read'[d][k] = f \/ \E c \in Clients, key \in Keys : RequestRead(c, key)
    BY DEF SystemNext, ClientPuts, RequestWrite, AddClientConnection, RemoveClientConnection,
       ReplicaStep, client_vars, system_vars
  <2> QED
    BY <2>2, <2>3, <2>4
<1> QED
  BY <1>1, SystemInvariant, PTL DEF SystemSpec, ReadersSeeWritersInOrder
=============================================================================
