---------------------------- MODULE ClientServer ----------------------------
(***************************************************************************)
(* The clients of client_server.py on top of the replicas.                 *)
(*                                                                         *)
(* master.py is one thread that waits for the end of each command before   *)
(* it reads the next, so client operations never overlap and a put or a    *)
(* get is one step, its call to a replica included.  The anti-entropy of   *)
(* the replicas, driven by threads of their own, interleaves freely.       *)
(*                                                                         *)
(* What the client keeps per key is the vector clock of the replica that   *)
(* answered its last put or get of that key; a get sends it along and a    *)
(* replica that lags behind it refuses with ERR_DEP.                       *)
(***************************************************************************)
EXTENDS ReplicaServer

CONSTANTS
  InitialClientLinks,  \* the pairs <<c, r>> joinClient makes
  ClientLinks,         \* the pairs the master connects and disconnects later
  ERR_DEP,             \* error values of read(); they travel in the place of
  ERR_KEY,             \* the value and a client may well write the same text
  NoEntry              \* marks that a client has read nothing yet

ASSUME ClientLinksAssumption ==
  InitialClientLinks \cup ClientLinks \subseteq Clients \X Servers

ASSUME NoEntryAssumption == NoEntry \notin Entries

VARIABLES
  key_vectorclock_map, \* [Clients -> [Keys -> vector clock]], NoClock: no entry
  time,                \* [Clients -> Nat]                self.time
  client_reachable,    \* [Clients -> set of replicas]    self.reachable
  last_read,           \* history: per client and key the entry last read
  replaced             \* history: the entries read before that one

client_vars == <<key_vectorclock_map, time, client_reachable, last_read, replaced>>
system_vars == <<vars, client_vars>>

ClientTypeOK ==
  /\ key_vectorclock_map \in [Clients -> [Keys -> VectorClocks]]
  /\ time \in [Clients -> Nat]
  /\ client_reachable \in [Clients -> SUBSET Servers]
  /\ last_read \in [Clients -> [Keys -> Entries \cup {NoEntry}]]
  /\ replaced \in [Clients -> [Keys -> SUBSET Entries]]

SystemTypeOK == TypeOK /\ ClientTypeOK

SystemInit ==
  /\ Init
  /\ key_vectorclock_map = [c \in Clients |-> [k \in Keys |-> NoClock]]
  /\ time = [c \in Clients |-> 0]
  /\ client_reachable = [c \in Clients |-> {r \in Servers : <<c, r>> \in InitialClientLinks}]
  /\ last_read = [c \in Clients |-> [k \in Keys |-> NoEntry]]
  /\ replaced = [c \in Clients |-> [k \in Keys |-> {}]]

-----------------------------------------------------------------------------
(***************************************************************************)
(* requestWrite(key, value) on any one of the reachable replicas.  The     *)
(* clock remembered for the key is looked up and then not used: the        *)
(* replica's clock takes its place.                                        *)
(***************************************************************************)
RequestWriteOneClock(c, key, value) ==   \* mutant: one clock for all keys
  \E rid \in client_reachable[c] :
    /\ Write(rid, key, value, c, time[c])
    /\ key_vectorclock_map' = [key_vectorclock_map EXCEPT ![c] = vector_clock'[rid]]
    /\ time' = [time EXCEPT ![c] = @ + 1]
    /\ UNCHANGED <<client_reachable, last_read, replaced>>

RequestWriteNoClock(c, key, value) ==   \* mutant: the returned clock dropped
  \E rid \in client_reachable[c] :
    /\ Write(rid, key, value, c, time[c])
    /\ time' = [time EXCEPT ![c] = @ + 1]
    /\ UNCHANGED <<key_vectorclock_map, client_reachable, last_read, replaced>>

RequestWrite(c, key, value) ==
  \E rid \in client_reachable[c] :
    /\ Write(rid, key, value, c, time[c])
    /\ key_vectorclock_map' = [key_vectorclock_map EXCEPT ![c][key] = vector_clock'[rid]]
    /\ time' = [time EXCEPT ![c] = @ + 1]
    /\ UNCHANGED <<client_reachable, last_read, replaced>>

(* Bounds: MaxWrites in all, and a client's counter stays in ClientTimes.  *)
ClientPuts(c) ==
  /\ Cardinality(accepted) < MaxWrites
  /\ time[c] \in ClientTimes
  /\ \E key \in Keys, value \in Values : RequestWrite(c, key, value)

(***************************************************************************)
(* read(key, cid, client_vector_clock) at replica r.                       *)
(***************************************************************************)
Read(r, key, client_clock) ==
  IF ~ Serves(r, client_clock) THEN ERR_DEP
  ELSE IF kv_store[r][key] = NoValue THEN ERR_KEY
  ELSE kv_store[r][key]

(* The entry whose value a read of the key returns (KvStoreIsReplay). *)
EntryRead(r, key) == Last(OnKey(write_log[r], key))

(***************************************************************************)
(* requestRead(key).  A result that reads like an error is taken for one.  *)
(***************************************************************************)
RequestReadNoClock(c, key) ==   \* mutant: the returned clock dropped
  \E rid \in client_reachable[c] :
    LET e == EntryRead(rid, key) IN
    /\ Read(rid, key, key_vectorclock_map[c][key]) \notin {ERR_DEP, ERR_KEY}
    /\ last_read' = [last_read EXCEPT ![c][key] = e]
    /\ UNCHANGED <<vars, key_vectorclock_map, time, client_reachable, replaced>>

RequestReadKeepsErrKey(c, key) ==   \* mutant: ERR_KEY not told from a value
  \E rid \in client_reachable[c] :
    /\ Read(rid, key, key_vectorclock_map[c][key]) # ERR_DEP
    /\ key_vectorclock_map' = [key_vectorclock_map EXCEPT ![c][key] = vector_clock[rid]]
    /\ UNCHANGED <<vars, time, client_reachable, last_read, replaced>>

RequestRead(c, key) ==
  \E rid \in client_reachable[c] :
    LET e == EntryRead(rid, key) IN
    /\ Read(rid, key, key_vectorclock_map[c][key]) \notin {ERR_DEP, ERR_KEY}
    /\ key_vectorclock_map' = [key_vectorclock_map EXCEPT ![c][key] = vector_clock[rid]]
    /\ last_read' = [last_read EXCEPT ![c][key] = e]
    /\ replaced' = [replaced EXCEPT ![c][key] =
                      IF last_read[c][key] \in {NoEntry, e} THEN @
                      ELSE @ \cup {last_read[c][key]}]
    /\ UNCHANGED <<vars, time, client_reachable>>

AddClientConnection(c, r) ==
  /\ <<c, r>> \in ClientLinks
  /\ client_reachable' = [client_reachable EXCEPT ![c] = @ \cup {r}]
  /\ UNCHANGED <<vars, key_vectorclock_map, time, last_read, replaced>>

RemoveClientConnection(c, r) ==
  /\ <<c, r>> \in ClientLinks
  /\ r \in client_reachable[c]
  /\ client_reachable' = [client_reachable EXCEPT ![c] = @ \ {r}]
  /\ UNCHANGED <<vars, key_vectorclock_map, time, last_read, replaced>>

(* The clients replace the free environment of ReplicaServer. *)
ReplicaStep ==
  /\ \E r \in Servers :
       \/ Stabilize(r)
       \/ \E s \in Servers : AddConnection(r, s) \/ RemoveConnection(r, s)
  /\ UNCHANGED client_vars

SystemNext ==
  \/ \E c \in Clients :
       \/ ClientPuts(c)
       \/ \E key \in Keys : RequestRead(c, key)
       \/ \E r \in Servers : AddClientConnection(c, r) \/ RemoveClientConnection(c, r)
  \/ ReplicaStep

SystemSpec == SystemInit /\ [][SystemNext]_system_vars

-----------------------------------------------------------------------------
(***************************************************************************)
(* Read your writes: a replica that answers a client's get of a key has    *)
(* the last value the client put there or one that sorts after it, though  *)
(* the client may have put it at another replica, and though the entry may *)
(* have been pruned, delayed or sent twice on its way.                     *)
(***************************************************************************)
ReadYourWrites ==
  \A c \in Clients, r \in Servers : \A w \in accepted :
    (/\ w.client_id = c
     /\ ~ Superseded(w, accepted)
     /\ Serves(r, key_vectorclock_map[c][w.key]))
    => \E e \in write_log[r] :
         /\ IsLast(e, OnKey(write_log[r], w.key))
         /\ kv_store[r][w.key] = e.value
         /\ e = w \/ Before(w, e)

(***************************************************************************)
(* A key a client has once put or got never comes back as ERR_KEY: pruning *)
(* leaves some entry for the key at every replica that answers.            *)
(***************************************************************************)
KeyStaysPresent ==
  \A c \in Clients, k \in Keys, r \in Servers :
    key_vectorclock_map[c][k] # NoClock /\ Serves(r, key_vectorclock_map[c][k])
      => kv_store[r][k] # NoValue

(***************************************************************************)
(* A client that only reads a key never gets back to a value that its      *)
(* writer had already overwritten with one the client has read.            *)
(***************************************************************************)
Wrote(c, k) == \E w \in accepted : w.client_id = c /\ w.key = k

ReadsOverwritten(c, k) ==
  last_read[c][k] # NoEntry /\ Overwrites(last_read[c][k], last_read'[c][k])

ReadersSeeWritersInOrder ==
  [][\A c \in Clients, k \in Keys :
       ~ Wrote(c, k) => ~ ReadsOverwritten(c, k)]_system_vars

(***************************************************************************)
(* Monotonic reads, in a form that asks for little: a client that only     *)
(* reads a key never sees an entry again that it saw replaced by another.  *)
(* (Does not hold: when a client's later write has the lower accept time,  *)
(* pruning the earlier one uncovers what that one had replaced.)           *)
(***************************************************************************)
MonotonicReads ==
  \A c \in Clients, k \in Keys : ~ Wrote(c, k) => last_read[c][k] \notin replaced[c][k]
=============================================================================
