---------------------------- MODULE ReplicaThreads ----------------------------
(***************************************************************************)
(* The two threads inside each replica of replica_server.py: the server    *)
(* thread, which runs write(), read() and antiEntropyRequest() one call    *)
(* after the other, and the periodic thread, which runs stabilize().       *)
(*                                                                         *)
(* ReplicaServer takes a handler as one step.  Here a step is one access   *)
(* to a field the threads share: CPython may switch threads between any    *)
(* two, and write() takes no lock.  A pass over a list is one step; one    *)
(* over a dictionary is two, since it fails if a key was added meanwhile.  *)
(*                                                                         *)
(* The log is a sequence here, as it is not always sorted.  What a replica *)
(* can reach does not change, so nobody else wants stabilize_lock and      *)
(* reachable_lock; a thread that dies keeps them, and the replica pulls    *)
(* no more.                                                                *)
(***************************************************************************)
EXTENDS WriteLog, Sequences, FiniteSets, Functions

CONSTANTS
  Reachable,    \* [Servers -> set of replicas it pulls from]
  Writable,     \* the replicas clients write at
  MaxWrites     \* bound: write() calls in a behaviour

ASSUME ReachableAssumption ==
  Reachable \in [Servers -> SUBSET Servers] /\ \A r \in Servers : r \notin Reachable[r]

ASSUME WritableAssumption == Writable \subseteq Servers /\ MaxWrites \in Nat

VARIABLES
  replica,    \* [Servers -> the fields of ReplicaHandler]
  server,     \* [Servers -> where the server thread is, with its locals]
  periodic,   \* [Servers -> where the periodic thread is, with its locals]
  accepted    \* history: every entry write() has created

vars == <<replica, server, periodic, accepted>>

(* A pass over a list that takes along the entries of S. *)
Taken(log, S) ==
  LET upTo[n \in 0 .. Len(log)] ==
        IF n = 0 THEN <<>>
        ELSE IF log[n] \in S THEN Append(upTo[n - 1], log[n]) ELSE upTo[n - 1]
  IN  upTo[Len(log)]

(* addNewWritesToWriteLog, twice: what no entry of another list overwrites. *)
Pruned(log, other) == Taken(log, {w \in Range(log) : ~ Superseded(w, Range(other))})

(* processWriteLogHistory: for each key the value that comes last in the list. *)
OnList(log, k) == {i \in DOMAIN log : log[i].key = k}

LastOnList(log, k) == log[CHOOSE i \in OnList(log, k) : \A j \in OnList(log, k) : j <= i]

ReplayListEntries(log) ==   \* mutant: the entry and not its value
  [k \in Keys |-> IF OnList(log, k) = {} THEN NoValue ELSE LastOnList(log, k)]

ReplayList(log) ==
  [k \in Keys |-> IF OnList(log, k) = {} THEN NoValue ELSE LastOnList(log, k).value]

(* sorted(): entries with the same stamp may come out either way.  Of the    *)
(* copies of an entry, which replay as one does, only one is kept here.      *)
SortsOf(log) ==
  {l \in Bijection(1 .. Cardinality(Range(log)), Range(log)) :
     \A i, j \in DOMAIN l : i < j => ~ Before(l[j], l[i])}

-----------------------------------------------------------------------------
(***************************************************************************)
(* The fields of a replica.  clock_keys are the keys vector_clock has as a *)
(* dictionary; it reads 0 for others.  looked_up says that the list which  *)
(* a write() has looked up, to append to, is still self.write_log.         *)
(***************************************************************************)
Fields ==
  [write_log : Seq(Entries), kv_store : Stores, vector_clock : VectorClocks,
   clock_keys : SUBSET Servers, accept_time : Nat, looked_up : BOOLEAN]

WriteSteps == {"stamp", "append", "store", "load_time", "store_time", "own_time", "own_clock"}

LockSteps == {"prune_log", "swap", "sort", "assign", "replay", "store",
              "clock", "clock_store", "time_store"}

PullSteps == LockSteps \cup {"answered"}

WriteLocals == [at : WriteSteps, entry : Entries, loaded : Nat]

AnswerLocals ==
  [at : {"unlocked", "copying"}, asker : Servers, new_writes : Seq(Entries),
   keys : SUBSET Servers]

ServerLocals == [at : {"idle"}] \cup WriteLocals \cup AnswerLocals

AskLocals ==
  [at : {"copying", "called"}, to_ask : SUBSET Servers, peer : Servers,
   clock : VectorClocks, keys : SUBSET Servers]

PullLocals ==
  [at : PullSteps, to_ask : SUBSET Servers, new_writes : Seq(Entries),
   clock : VectorClocks, time : Nat, log : Seq(Entries), store : Stores,
   keys : SUBSET Servers, key : Servers, loaded : Nat]

PeriodicLocals ==
  [at : {"asleep", "dead"}] \cup [at : {"next"}, to_ask : SUBSET Servers]
  \cup AskLocals \cup PullLocals

ThreadTypeOK ==
  /\ replica \in [Servers -> Fields]
  /\ server \in [Servers -> ServerLocals]
  /\ periodic \in [Servers -> PeriodicLocals]
  /\ accepted \in SUBSET Entries

Idle == [at |-> "idle"]
Dead == [at |-> "dead"]

NoStore == [k \in Keys |-> NoValue]

Init ==
  /\ replica = [r \in Servers |->
       [write_log |-> <<>>, kv_store |-> NoStore, vector_clock |-> NoClock,
        clock_keys |-> {}, accept_time |-> 0, looked_up |-> FALSE]]
  /\ server = [r \in Servers |-> Idle]
  /\ periodic = [r \in Servers |-> [at |-> "asleep"]]
  /\ accepted = {}

(* A thread of r that is at a step gets new locals and leaves r with new fields. *)
ServerStep(r, from, locals, fields) ==
  /\ server[r].at = from
  /\ server' = [server EXCEPT ![r] = locals]
  /\ replica' = [replica EXCEPT ![r] = fields]
  /\ UNCHANGED periodic

PeriodicStep(r, from, locals, fields) ==
  /\ periodic[r].at = from
  /\ periodic' = [periodic EXCEPT ![r] = locals]
  /\ replica' = [replica EXCEPT ![r] = fields]
  /\ UNCHANGED <<server, accepted>>

-----------------------------------------------------------------------------
(***************************************************************************)
(* write(), access by access.  The list to append to is looked up before   *)
(* the entry is made.  The master waits for a put, so that one write() is  *)
(* under way at a time.  The copy of the clock it returns is left out.     *)
(***************************************************************************)
InWrite(r) == server[r].at \in WriteSteps

LookUpLog(r) ==
  /\ r \in Writable /\ Cardinality(accepted) < MaxWrites
  /\ \A s \in Servers : ~ InWrite(s)
  /\ \E w \in [key : Keys, value : Values, accept_time : {0}, replica_id : {r},
               client_id : Clients, client_time : ClientTimes] :
       /\ \A x \in accepted : x.client_id = w.client_id => x.client_time < w.client_time
       /\ ServerStep(r, "idle", [at |-> "stamp", entry |-> w, loaded |-> 0],
                     [replica[r] EXCEPT !.looked_up = TRUE])
  /\ UNCHANGED accepted

AppendEntry(r) ==
  LET f == replica[r]
      w == server[r].entry
      list == IF f.looked_up THEN Append(f.write_log, w) ELSE f.write_log
  IN
  /\ ServerStep(r, "append", [server[r] EXCEPT !.at = "store"],
                [f EXCEPT !.write_log = list, !.looked_up = FALSE])
  /\ accepted' = accepted \cup {w}

WriteStep(r) ==
  LET me == server[r]
      f  == replica[r]
  IN
  /\ \/ ServerStep(r, "stamp",
          [me EXCEPT !.at = "append", !.entry.accept_time = f.accept_time], f)
     \/ ServerStep(r, "store", [me EXCEPT !.at = "load_time"],
          [f EXCEPT !.kv_store[me.entry.key] = me.entry.value])
     \/ ServerStep(r, "load_time",
          [me EXCEPT !.at = "store_time", !.loaded = f.accept_time], f)
     \/ ServerStep(r, "store_time", [me EXCEPT !.at = "own_time"],
          [f EXCEPT !.accept_time = me.loaded + 1])
     \/ ServerStep(r, "own_time",
          [me EXCEPT !.at = "own_clock", !.loaded = f.accept_time], f)
     \/ ServerStep(r, "own_clock", Idle,
          [f EXCEPT !.vector_clock[r] = me.loaded, !.clock_keys = @ \cup {r}])
  /\ UNCHANGED accepted

(* read() looks up the keys of the client's clock, and a look-up adds a key. *)
ReadClock(r, s) ==
  /\ s \notin replica[r].clock_keys
  /\ \E q \in Servers : s \in replica[q].clock_keys
  /\ ServerStep(r, "idle", Idle, [replica[r] EXCEPT !.clock_keys = @ \cup {s}])
  /\ UNCHANGED accepted

-----------------------------------------------------------------------------
(***************************************************************************)
(* antiEntropyRequest(): the log under self.lock, then, without it, the    *)
(* vector clock and the accept time.                                       *)
(***************************************************************************)
NewWritesInStrict(log, clock) ==   \* mutant: < for <=
  Taken(log, NewWritesForStrict(Range(log), clock))

NewWritesIn(log, clock) == Taken(log, NewWritesFor(Range(log), clock))

LockHeldInCall(s) == periodic[s].at \in LockSteps \cup {"called"}   \* mutant

LockHeld(s) == periodic[s].at \in LockSteps

ScanLog(s, r) ==
  LET new == NewWritesIn(replica[s].write_log, periodic[r].clock) IN
  /\ periodic[r].at = "called" /\ periodic[r].peer = s /\ ~ LockHeld(s)
  /\ ServerStep(s, "idle",
       [at |-> "unlocked", asker |-> r, new_writes |-> new, keys |-> {}], replica[s])
  /\ UNCHANGED accepted

BeginCopy(s) ==
  /\ ServerStep(s, "unlocked",
       [server[s] EXCEPT !.at = "copying", !.keys = replica[s].clock_keys],
       replica[s])
  /\ UNCHANGED accepted

(***************************************************************************)
(* The end of the pass over the clock (255), and the accept time (152).    *)
(* The keys are read one by one and the time after them: what a merge      *)
(* stores in between may be in the copy or not.  Here all of it is, which  *)
(* is the clock that covers most.  A dictionary that grew is a             *)
(* RuntimeError, which the asker's thread dies of.                         *)
(***************************************************************************)
Answer(s) ==
  LET f  == replica[s]
      me == server[s]
  IN
  /\ me.at = "copying"
  /\ server' = [server EXCEPT ![s] = Idle]
  /\ periodic' = [periodic EXCEPT ![me.asker] =
       IF f.clock_keys # me.keys THEN Dead
       ELSE [at |-> "answered", to_ask |-> @.to_ask, new_writes |-> me.new_writes,
             clock |-> f.vector_clock, keys |-> f.clock_keys, time |-> f.accept_time,
             log |-> <<>>, store |-> NoStore, key |-> me.asker, loaded |-> 0]]
  /\ UNCHANGED <<replica, accepted>>

-----------------------------------------------------------------------------
(***************************************************************************)
(* stabilize() up to the call: one peer after the other, with a copy of    *)
(* the clock.                                                              *)
(***************************************************************************)
BeginRound(r) ==
  PeriodicStep(r, "asleep", [at |-> "next", to_ask |-> Reachable[r]], replica[r])

EndRound(r) ==
  /\ periodic[r].at = "next" /\ periodic[r].to_ask = {}
  /\ PeriodicStep(r, "next", [at |-> "asleep"], replica[r])

NextPeer(r, s) ==
  /\ periodic[r].at = "next" /\ s \in periodic[r].to_ask
  /\ PeriodicStep(r, "next",
       [at |-> "copying", to_ask |-> periodic[r].to_ask \ {s}, peer |-> s,
        clock |-> NoClock, keys |-> replica[r].clock_keys], replica[r])

SendRequest(r) ==
  LET f == replica[r] IN
  PeriodicStep(r, "copying",
    IF f.clock_keys # periodic[r].keys THEN Dead
    ELSE [periodic[r] EXCEPT !.at = "called", !.clock = f.vector_clock, !.keys = {}], f)

-----------------------------------------------------------------------------
(***************************************************************************)
(* stabilize() under self.lock: prune both sides, swap the list, sort a    *)
(* copy of it and swap it again, rebuild the store, then merge the clock   *)
(* key by key and the accept time.                                         *)
(***************************************************************************)
MergeLog(r) ==
  LET me == periodic[r]
      f  == replica[r]
  IN
  \/ PeriodicStep(r, "answered",
       [me EXCEPT !.at = IF me.new_writes = <<>> THEN "clock" ELSE "prune_log",
          !.new_writes = Pruned(@, f.write_log)], f)
  \/ PeriodicStep(r, "prune_log",
       [me EXCEPT !.at = "swap", !.log = Pruned(f.write_log, me.new_writes)], f)
  \/ PeriodicStep(r, "swap", [me EXCEPT !.at = "sort"],
       [f EXCEPT !.write_log = me.log \o me.new_writes, !.looked_up = FALSE])
  \/ \E l \in SortsOf(f.write_log) :
       PeriodicStep(r, "sort", [me EXCEPT !.at = "assign", !.log = l], f)
  \/ PeriodicStep(r, "assign", [me EXCEPT !.at = "replay"],
       [f EXCEPT !.write_log = me.log, !.looked_up = FALSE])

RebuildStoreNot(r) ==   \* mutant: only write() stores
  PeriodicStep(r, "replay", [periodic[r] EXCEPT !.at = "clock"], replica[r])

RebuildStore(r) ==
  LET me == periodic[r]
      f  == replica[r]
  IN
  \/ PeriodicStep(r, "replay", [me EXCEPT !.at = "store", !.store = ReplayList(f.write_log)], f)
  \/ PeriodicStep(r, "store", [me EXCEPT !.at = "clock"], [f EXCEPT !.kv_store = me.store])

(* Reading a key the dictionary lacks adds it. *)
LoadClock(r, s) ==
  LET f == replica[r] IN
  /\ periodic[r].at = "clock" /\ s \in periodic[r].keys
  /\ PeriodicStep(r, "clock",
       [periodic[r] EXCEPT !.at = "clock_store", !.keys = @ \ {s}, !.key = s,
                           !.loaded = f.vector_clock[s]],
       [f EXCEPT !.clock_keys = @ \cup {s}])

StoreClock(r) ==
  LET me == periodic[r] IN
  /\ me.at = "clock_store"
  /\ PeriodicStep(r, "clock_store", [me EXCEPT !.at = "clock", !.key = r, !.loaded = 0],
       [replica[r] EXCEPT !.vector_clock[me.key] = Maximum(me.loaded, me.clock[me.key])])

MergeTime(r) ==
  LET me == periodic[r]
      f  == replica[r]
  IN
  \/ /\ me.at = "clock" /\ me.keys = {}
     /\ PeriodicStep(r, "clock", [me EXCEPT !.at = "time_store", !.loaded = f.accept_time], f)
  \/ /\ me.at = "time_store"
     /\ PeriodicStep(r, "time_store", [at |-> "next", to_ask |-> me.to_ask],
          [f EXCEPT !.accept_time = Maximum(me.loaded, me.time)])

-----------------------------------------------------------------------------
ServerThread(r) ==
  \/ AppendEntry(r) \/ WriteStep(r)
  \/ \E q \in Servers : ScanLog(r, q)
  \/ BeginCopy(r) \/ Answer(r)

Merge(r) ==
  \/ MergeLog(r) \/ RebuildStore(r)
  \/ \E s \in Servers : LoadClock(r, s)
  \/ StoreClock(r) \/ MergeTime(r)

PeriodicThread(r) ==
  \/ BeginRound(r) \/ EndRound(r) \/ SendRequest(r) \/ Merge(r)
  \/ \E s \in Servers : NextPeer(r, s)

Call(r) == LookUpLog(r) \/ \E s \in Servers : ReadClock(r, s)

Next == \E r \in Servers : Call(r) \/ ServerThread(r) \/ PeriodicThread(r)

Spec == Init /\ [][Next]_vars

(***************************************************************************)
(* Each thread runs again and again.  A request that waits for self.lock   *)
(* gets it some day: it is free for the quarter second the periodic thread *)
(* sleeps, and the server takes its callers in turn.  Nothing is assumed   *)
(* of the callers of write() and read().                                   *)
(***************************************************************************)
FairSpec ==
  /\ Spec
  /\ \A r \in Servers :
       /\ WF_vars(ServerThread(r))
       /\ WF_vars(PeriodicThread(r))
       /\ \A q \in Servers : SF_vars(ScanLog(r, q))

-----------------------------------------------------------------------------
Log(r) == Range(replica[r].write_log)

(***************************************************************************)
(* No call is under way at a replica whose other thread is in the merge:   *)
(* what would hold if write() and all of antiEntropyRequest(), and not     *)
(* only its scan of the log, were inside self.lock.                        *)
(***************************************************************************)
Serialized == \A r \in Servers : LockHeld(r) => server[r].at = "idle"

(***************************************************************************)
(* README: "all writes are appended to a replica's write log that stores   *)
(* the history of all writes".  An entry a replica's clock covers is in    *)
(* its log or overwritten by one that is, at every access of its threads.  *)
(* It holds while calls and merges are Serialized.  Two overlaps break it: *)
(* the append on an exchanged list (100 against 233 and 239), where one    *)
(* replica writes and pulls, and the clock copied after the unlock (150),  *)
(* ahead of the entries chosen under it, where one is asked and pulls.     *)
(***************************************************************************)
ClaimedIsHeld ==
  \A r \in Servers : \A w \in accepted :
    Covers(replica[r].vector_clock, w) => w \in Log(r) \/ Superseded(w, Log(r))

(***************************************************************************)
(* The read() of a session: when the clock of a replica has reached an     *)
(* entry, which lets clients in, its store holds the value of that entry   *)
(* or of a later one, although the merge assigns the store and the keys    *)
(* of the clock one by one while reads go on: the store comes first.       *)
(***************************************************************************)
ReadsAreFresh ==
  \A r \in Servers : \A w \in accepted :
    Covers(replica[r].vector_clock, w) /\ ~ Superseded(w, Log(r)) =>
      \E x \in accepted :
        /\ x.key = w.key /\ x.value = replica[r].kv_store[w.key]
        /\ x = w \/ Before(w, x)

(***************************************************************************)
(* Both hold if no call is ever under way at a replica during its merge,   *)
(* whatever the threads of different replicas do to each other and however *)
(* old an answer is, also where two replicas pull from each other.         *)
(***************************************************************************)
ClaimsKeptIfSerial == []Serialized => []ClaimedIsHeld

FreshIfSerial == []Serialized => []ReadsAreFresh

(***************************************************************************)
(* What a replica knows of the others only grows, whatever the threads do  *)
(* to each other and however old an answer is.  (Its own entry, which both *)
(* threads assign, may go back.)                                           *)
(***************************************************************************)
KnowledgeOfOthersGrows ==
  [][\A r \in Servers : \A s \in Servers \ {r} :
       replica[r].vector_clock[s] <= replica'[r].vector_clock[s]]_vars

(***************************************************************************)
(* A replica that asks gets an answer, or an exception: two replicas that  *)
(* ask each other do not wait for each other's lock, since the lock is     *)
(* free while its owner waits for an answer.                               *)
(***************************************************************************)
EveryRequestEnds ==
  \A r \in Servers : periodic[r].at = "called" ~> periodic[r].at # "called"
=============================================================================
