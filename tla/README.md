# ymdkvs in TLA+

A TLA+ development beside `ymdkvs`, a replicated key-value store in Python 2
over Apache Thrift: replicas that accept writes on their own and exchange them
by anti-entropy (a simplified Bayou), clients that keep vector clocks for their
session guarantees, and a master that drives both from a script.

## 1. The system

| part | code | state | operations |
|---|---|---|---|
| write log, vector clocks | `replica_server.py` 18-29, 193-286 | none (functions on logs and clocks) | order of entries, merge of received writes with pruning, replay, conversions |
| replica | `replica_server.py` 31-191 | `write_log`, `kv_store`, `vector_clock`, `accept_time`, `reachable`, `stubs`, `transports`, three locks | `write`, `read`, `antiEntropyRequest`, `stabilize`, `addConnection`, `removeConnection`, `getStore`, `setID` |
| client | `client_server.py` | `key_vectorclock_map`, `time`, `reachable`, `stubs`, `transports` | `requestWrite`, `requestRead`, `addConnection`, `removeConnection` |
| master | `master.py` | ports, processes, stubs, set of replicas | `joinServer`, `killServer`, `joinClient`, `breakConnection`, `createConnection`, `stabilize`, `printStore`, `put`, `get` |
| RPC layer | `replica.thrift`, `client.thrift`, `gen-py/` | one connection per call | generated stubs and processors |
| tests | `tester.py`, `tests/`, `darshan-tests/` | none | scripts for the master with expected output |

**How they interact.** Every replica and client is a process with a
`TSimpleServer`: ONE server thread that serves one connection at a time. A
replica has a second thread, started in `__init__`, that runs `stabilize()`
every quarter of a second for ever; the master can also have the server thread
run it. `stabilize()` asks the reachable replicas one by one, sending a copy of
its vector clock; the asked replica's server thread answers with the entries
that clock does not cover, its own clock and its accept time; the asker merges
them under `self.lock`. A client's `put` or `get` comes from the master, goes to
a random reachable replica, and brings back that replica's clock, which the
client keeps per key and sends with its next `get`; a replica that lags behind
it refuses with `ERR_DEP`. The master is single-threaded and waits for each
command, so client operations never overlap with each other or with changes of
the topology, but all of them overlap with the anti-entropy of the replicas.

**What is hard.** The two threads of a replica share everything and `write()`
takes no lock. Between the making of a request, its answer and the merge, any
number of writes and other merges happen at both ends. Logs are pruned, so a
clock must stand for entries that are gone. Accept times and client times order
the writes of a client differently when it moves between replicas. Nothing is
persisted, and IDs are used again after `killServer`.

**What makes each part correct.**
- *Replica*: a write is never lost once a clock claims it; stamps are unique and
  run ahead of all a replica knows; the store is the replay of the log; equal
  knowledge means equal stores; every write gets everywhere it can.
- *Write log*: merging drops only overwritten entries and keeps every client's
  order, whatever the order of arrival.
- *Client*: it reads its own writes, keys do not vanish, reads do not go back.
- *Master*: half-made connections do no harm, four rounds are enough for the
  topologies used, joins and kills leave nobody waiting for ever.

`PROJECT.json` lists the hazards line by line with the properties that watch
them.

## 2. The modules

| module | what it is |
|---|---|
| `WriteLog` | entries, stores, clocks and the pure functions on them |
| `ReplicaServer` | the replicas: one action per handler or section of `stabilize()`, properties |
| `ReplicatedStore` | abstract specification: each replica has *seen* a growing set of accepted entries and its store is a function of that set |
| `ReplicaRefinement` | the mapping under which the replicas implement it |
| `ClientServer` | the clients on top of `ReplicaServer`, session guarantees |
| `ReplicaThreads` | the two threads of each replica, one action per access to a shared field |
| `Cluster` | the processes and who waits for whom: the master's commands as sequences of calls, the single-threaded servers, the two locks of a round, stubs and transports, exceptions |
| `Rejoin` | one ID killed and joined again, on top of `ReplicaServer` |
| `MasterStabilize` | the four passes of the master's `stabilize` and how far they carry a write |
| `ThriftStructs` | the generated structs as sets of fields; `write()`, `read()` of all of them |
| `ReplicaStubs`, `ClientStubs` | the structs and methods of the two services |
| `Rpc` | one connection between a generated `Client` and a generated `Processor` |
| `RemoteCall` | abstract specification: what a remote call promises its caller |
| `ReplicaInvariants` | the parts of the inductive invariant of `ReplicaServer`, for any set `E` of entries: all of them, or in `Rejoin` those that are left |
| `WriteLogTheorems`, `ReplicaServerProofs` (the refinement too), `ClientServerProofs`, `RejoinProofs`, `ReplicaThreadsProofs`, `ClusterProofs`, `MasterStabilizeProofs`, `RpcProofs` | theorems and proofs |
| `MCReplicaServer`, `MCClientServer`, `MCReplicaThreads`, `MCCluster`, `MCRejoin`, `MCMasterStabilize`, `MCRpc` | instances for TLC |

### State and actions against the code

`ReplicaServer` has the fields of `ReplicaHandler` as functions of the replica.
Its local variables inside `stabilize()` are state too: `to_ask` (what is left of
the `for` loop), `phase` (before the call, waiting for the answer, answer here),
`peer`, `request_clock` (the copy of the clock that was sent) and `response`.
`accepted` is a history variable: every entry any `write()` has created.

| action | code |
|---|---|
| `Write` (in `ClientWrite`) | `write`, all of it |
| `BeginRound` | the two locks and the start of the loop of `stabilize` |
| `SendRequest` | the copy of the clock and the call |
| `AntiEntropyRequest` | `antiEntropyRequest` at the peer |
| `MergeResult` | lines 173-189, and the end of the round after the last peer |
| `AddConnection`, `RemoveConnection` | the change of `reachable`; `reachable_lock` keeps it out of a round |
| `Serves`, `Read` | the decisions of `read`, which changes nothing |

`ClientServer` adds the fields of `ClientHandler` and two histories of what each
client has read. A `put` or `get` is one step, the call to the replica
included: the client blocks on it and the master blocks on the client, so only
anti-entropy could come in between, and that touches nothing of the client's.

`ReplicaThreads` stands beside these: it looks at the same handlers access by
access. `replica` has the fields (the log as a list, the keys of the clock's
dictionary), `server` and `periodic` say where the two threads of a replica are
and hold their local variables.

| action | code |
|---|---|
| `LookUpLog`, `AppendEntry`, `WriteStep` | `write`: the list is looked up, the accept time read (103), the entry appended (100), the value stored (108), the accept time read and stored (109), read again and put in the clock (110) |
| `ReadClock` | a look-up at line 118 that adds a key |
| `ScanLog`, `BeginCopy`, `Answer` | `antiEntropyRequest`: 142-147 under the lock, then 150 and 152 without it |
| `BeginRound`, `NextPeer`, `SendRequest`, `EndRound` | `stabilize` up to the call |
| `MergeLog` | prune (206-218), prune (221-232), replace the list (233-237), `sorted` (239), replace it again (239) |
| `RebuildStore`, `LoadClock`, `StoreClock`, `MergeTime` | 183; 185-186, key by key; 188 |

A pass over a list is one step (what the other thread appends during it is taken
as appended before or after); `sorted` and the assignment of its result are two,
because the comparison function is Python code in which threads switch. A pass
over a dictionary begins and ends, and is a `RuntimeError` if a key was added in
between. In the server thread the generated processor turns that into an exception
message (`Replica.py` 537-540), which the asker's stub raises (321-325); in the
periodic thread nothing catches either, and the thread ends with its locks held.

`Cluster` has no data but the structure. `line[n]` is the sequence of callers with
an open connection to the server of `n`, which serves its head; `call[x]` is the
call `x` waits for; `round[r]` is the run of `stabilize()` that has
`stabilize_lock` and whose it is (the periodic thread's or the server thread's);
`stubs` and `transports` are filled one after the other by `addConnection`, and a
transport that `removeConnection` has left behind is `"old"`: the stub made
later does not use it. `Trial(r)` is a caller that never calls: the connection
`addConnection` of `r` opens to try the port (68) and closes at its end (74); in between
it waits for `reachable_lock`, and the peer's single-threaded server, when it comes to that
connection, waits with it. `todo` is what is left of the master's command.

| action | code |
|---|---|
| `Command`, `MasterCalls`, `MasterReturns`, `MasterFails`, `Register`, `Terminate` | `listen` and the methods it calls: each command is the sequence of its remote calls, opened, waited for and closed one by one; `joinServer` keeps its first connection open to the end; an exception ends the process |
| `TryConnection`, `AddReachable`, `AddStub`, `AddTransport`, `EndTrial` | `addConnection` of a replica: 68, 69-71, 72, 73, 74-76 |
| `CutOff` | 74, when a round has a call under way over the transport stored at 73 |
| `RemoveConnection` | `removeConnection` |
| `ChangeReachable` | both of these of a client |
| `BeginRound`, `LockReachable`, `Ask`, `TakeAnswer`, `EndRound` | `stabilize` of a replica: the two locks, the call, `close()`, the release |
| `AskFails`, `CopyFails`, `AnswerFails` | the exceptions of lines 168-171: no stub, no transport, a stub or transport that is not open or open already; `Raise` leaves the locks where they are |
| `Request`, `FinishRequest`, `FailRequest`, `RequestFails` | `requestWrite` and `requestRead` |
| `AnswerRequest`, `ApplyWrite`, `SimpleHandler` | the other handlers, which take none of these locks |

`Rejoin` adds the life of one ID to `ReplicaServer`: `KillServer`, `Disconnect` at each
replica between its rounds, `Terminate` with the loss of all the process knew,
`JoinServer`, `Connect` both ways in the order of the code, `Joined`. `lost` is the
history of the entries that no other replica's clock covered when the process ended,
`early` says whether a new process has ever taken a put (`RejoinWrite`) before it had
heard the replicas it can reach (`HasHeard`). The code does not prevent that, and
neither does the model. (It is the clocks that count: a replica that holds a newer write
of the same client but has not learned of the old one does not move the successor past
its stamp.)

`MasterStabilize` keeps clocks only: `MasterCall` starts the pull of the next
replica of a pass, `PeriodicRound` that of a periodic thread, `Ask` and `Merge` are
its two halves for one peer, `near` records what each pass should have connected.

`Rpc` has the two ends of a connection: `Send` (`send_*`), `Process` and the endings of
a handler, `Finish` (the rest of `process_*`), `Receive` (`recv_*`), `Stop` (the
process is terminated), `EndOfFile`. A generated class is its set of fields, with
their numbers and types; the 18 `read()` and `write()` pairs are the two operators
`ReadStruct` and `WriteStruct` on such sets.

### Abstractions, and what they rest on

- `self.write_log` is a set. The list is sorted after every merge and `write()`
  appends what sorts last (`AcceptTimeAhead`). An answer to a stale request can
  put an entry in the list twice; the copies replay alike, and `ReplicaThreads`, where
  the log is a list, keeps one of them when it sorts.
- A missing key of a `defaultdict(int)` clock is 0, so clocks are total functions
  and `NoClock` is both the empty dictionary and a client without an entry.
- In `ReplicaServer` a step is a whole handler or section: everything shown of it,
  the theorems too, is about replicas whose two threads do not meet inside one.
  What happens when they do is the subject of `ReplicaThreads`.
- Keys, values and clients are model values. Replica IDs are numbers, because
  ties between accept times are broken by comparing them.
- In `ReplicaServer` and `ClientServer` replica IDs are not used a second time and no
  call fails half-way: that is the matter of `Rejoin`, `Cluster` and `Rpc`.
- In `Rejoin`, too, the log is a set. Two entries with one stamp would lie in the list in the
  order in which `sorted` finds them, which a set does not say: a behaviour is true to the code
  up to the first stamp that is used again. `rejoin_early` ends there; the cfg of `rejoin` says
  so with a `CONSTRAINT`, and its properties and the theorems speak of behaviours that have
  not come to it.
- In `Cluster`, whether opening a transport that is open raises, and whether the round or
  `addConnection` closes first, is nondeterministic (`AskFails` and `Ask`, `EndTrial` and
  `CutOff` are both enabled). A call over the transport that `addConnection` has still
  open stands in the line behind the trial and not in its place. The
  trial of a client's `addConnection` (33-37) waits for nothing and is part of that step.
  What an ended master had open stays open, as its process waits for its children.
- In `ReplicaThreads` the clock of an answer is copied in one step at the end of the pass over it
  (255), with the accept time (152): of what a merge stores meanwhile the copy has all,
  where the code's may have part.
- `TSimpleServer` and the transports are external: one connection is served until
  it closes, a connection whose processor raised is dropped, nothing is sent
  before `flush()`, and opening a connection to a process that runs succeeds even if
  its server is busy.
- `Rpc` lets any stub talk to any port, as the generated `-remote` scripts can.
- Errors travel in band in the code, and so here: `ERR_DEP` and `ERR_KEY` may be
  elements of `Values`. The theorems do not assume they are not.

## 3. What TLC checks

Deadlock is checked in the passing runs except where the system really stops: in
`ReplicaThreads` when the bounded writes are used up and every periodic thread is dead,
in `MasterStabilize` when the command is over, in `Rpc` when the connection has ended,
in `Cluster` when the master has ended after an exception. All bounds are in the `.cfg`
files: `MaxWrites` bounds the writes of a behaviour and `ClientTimes` those of a client
(in `ReplicaServer` a client may skip counter values, as it may have written elsewhere;
in `ClientServer` it counts from 0 as the code does); `MaxRounds` the periodic rounds
during the passes, `MaxCalls` the calls on a connection, `MaxKills` the kills,
`MaxMembers` the processes of a cluster, and `Starts` how many commands follow each
initial membership. Rounds otherwise go on for ever, and accept times follow from the
writes.

| run | instance | shows |
|---|---|---|
| `replica_ring` | 3 replicas in a cycle, 2 clients, 2 writes, fair periodic threads | `TypeOK`, `NoWriteLost`, `SessionOrder`, `WritesReachEveryone` |
| `replica_pair` | 2 replicas, connections broken and made at any time, 2 values, 3 writes | `AcceptTimeAhead`, `UniqueStamps`, `KvStoreIsReplay`, `Convergence`, `ImplementsReplicatedStore` |
| `clients_move` | 2 replicas, one pulling from the other over a connection that comes and goes, 2 clients that are moved, 2 keys, 2 writes, a value that reads `ERR_KEY` | `SystemTypeOK`, `ReadYourWrites`, `KeyStaysPresent`, `ReadersSeeWritersInOrder` |
| `threads_mutual` | 2 replicas that pull from each other, 1 of them written at, 2 writes, fair threads | `ThreadTypeOK`, `KnowledgeOfOthersGrows`, `EveryRequestEnds`, `ClaimsKeptIfSerial`, `FreshIfSerial` |
| `cluster` | 3 server IDs and a client, at most 3 processes; 1 server and 1 client, 2 servers, or 2 servers and 1 client running, all connected or one pair broken; any command; handlers and rounds may raise | `ClusterTypeOK`, `NobodyAsksTheKilled`, `TimesDiffer`, `IdleConnectionsExplained`, `NoCircle`, `EveryCommandEnds` |
| `rejoin` | 3 replicas, 2 clients, 2 writes, 1 kill and join | `UniqueIfHeard`, `NoneLostIfHeard` |
| `four_passes` | 5 replicas, every tree, every order, 1 periodic round | `TypeOK`, `PassCarriesOneLink`, `FourPassesReachAll` |
| `rpc` | both services, 2 calls, falsy, oversized and non-ASCII values | `RpcTypeOK`, `ImplementsRemoteCall`, `EveryCallEnds` |
| `threads_lost_append` | 2 replicas that write and pull from each other, 2 writes | violated: `ClaimedIsHeld` |
| `cluster_stop` | as `cluster`, nothing raises by itself | violated: `PeriodicThreadRuns` |
| `reads_go_back` | 2 replicas, 3 clients, 3 writes | violated: `MonotonicReads` |
| `rejoin_early` | as `rejoin` | violated: `StampsStayUnique` |

Why the bounds are enough to make the interesting cases happen: two replicas and
two writes by one client give the pair whose accept times and client times
disagree; a third write gives the entry between them; three replicas in a cycle
give an answer that is overtaken by the same entry coming another way, and a
write that comes back to its own replica. README.md of the code counts on at most
five servers, and five in a line are the longest way four passes have to bridge. In
`cluster`, one command is enough because the initial states are those in which one command
leaves the next (everybody connected, or one pair broken), and because what a command could
leave besides (a lock held, a line not empty) is what `IdleConnectionsExplained` and
`EveryCommandEnds` are about; two servers give rounds that cross a join of a
third, a kill, a break or the making of a connection, one server and a client puts that
fail. Two calls on one connection are what it takes for a
reply to be taken for another call's. The theorems of section 4 cover every
other size. Symmetry is used for clients and values only,
which are compared for equality and nothing else, and never where liveness is checked. In
`cluster`, where it is, a `CONSTRAINT` leaves out commands that are another one with `s1` and
`s2` exchanged (`FirstS1`); only states right after the choice of a command are
left out, and nothing ever makes a command due.

**Fairness.** `FairSpec` is weakly fair to `Stabilize(r)` for every replica: the
periodic thread never ends (lines 156-159), each round asks every reachable
replica, and the thread waits only for a peer's server thread, which in
`antiEntropyRequest` takes nothing but `self.lock`, held only during a merge and
never across a call. Nothing is assumed of clients or of the master. (A periodic
thread can die, see below; propagation is shown for those that do not.)
In `ReplicaThreads` each thread is weakly fair, and a request that waits for
`self.lock` strongly: the lock is free, again and again, for the quarter second
its other taker sleeps, and a server takes its callers in turn.
In `Cluster` the master, the server threads and a round under way are weakly fair;
a server thread that waits for `reachable_lock` or `stabilize_lock` gets it (strong
fairness), because the periodic thread holds them only during a round and sleeps a
quarter of a second between two. Nothing makes a periodic round begin and no command is
ever due. In `Rpc` each end is weakly fair, and a handler that has begun ends; that
it does is what the other modules show.

**What the violations say.**
- `reads_go_back`: lines 201-202 remove overwritten entries because it is "needed to
  enforce monotonic reads". A client writes `w` at a replica that is ahead and then
  again at one that lags behind; the second write has the LOWER accept time. When the
  two meet, `w` is pruned, and an older entry `x` that `w` had replaced is last again. A
  reader sees `x`, `w`, `x`.
- `threads_lost_append`: a replica scans its log for the merge, a client's write is
  appended, the merge replaces the list. README.md:7: "All writes are appended to a
  replica's write log that stores the history of all writes".
- `cluster_stop`: `addConnection` makes an ID reachable and releases the lock before it
  stores the stub and the transport. In the trace the pair was connected before and
  broken: a round that starts in between opens the transport `removeConnection` has left
  (170) and finds no stub, a `KeyError` (171). Between two that were never connected the
  missing transport is the `KeyError` (170). Line 54: "starts thread that is always
  running".
- `rejoin_early`: a server is killed and its ID joined again; a put at the new process,
  in the quarter of a second before its first round, gets accept time 0, which an entry
  of the old process has that another replica still holds. README.md:7: the accept time
  is "a monotonically increasing number", and with the replica ID it "defines a total
  ordering over all replicas". What is more, the clocks of the others cover the new
  entry, and they never ask for it.

Other disagreements met while modelling, of the same kinds, which no run checks:
`requestWrite` replaces the client's clock for the key by that of the replica that took the
write (line 56), forgetting what it had read elsewhere, so that
`ReadersSeeWritersInOrder` is about clients that only read; a merge can store an
accept time it read before `write()` incremented it (188 and 109), so that
the next write gets the same stamp, and can put its replica's own key of the clock back
(186 and 110); the clock of an answer is copied (150) after
the lock on the log is released (147), and a merge in between makes it cover entries
that are not in the answer: on a chain where 0 pulls from 1 and 1 from 2, with two writes
at 2, TLC finds `ClaimedIsHeld` violated at 0 with no `write()` in the way; the first
`write()` adds a key to the clock that the periodic thread is iterating over (255), which
ends the thread (`Cluster` has this as `MayRaise`); and `createConnection` for a pair that
is connected already can hang for ever with no exception at all: `a` has its trial open at `b` and
waits for the lock of its own round (69), which has yet to ask `b` and then waits at `b`, whose
server is at the trial. No document or test of the repository speaks of connecting a
connected pair, so this is a hazard and not a finding; in the model it is `BehindItself`, which
`NoCircle` and `EveryCommandEnds` have as their exception.

What the threads do *not* break is as much a result. What a replica knows of others
never goes back, and requests that cross never wait for each other (`threads_mutual`).
All that the threads get wrong of logs, stores and clocks comes from one overlap: a call that is
under way at a replica while the replica's other thread merges. Where that does not
happen nothing is lost and what a read finds is fresh at each access of a merge, because
the store is assigned before the clock (`ClaimsKeptIfSerial`, `FreshIfSerial`; section 4
for every topology).

A command of the master hangs for one of two reasons: an exception has ended a thread
that had the locks, or it is the `createConnection` above. Otherwise the lines at the
single-threaded servers, the connection `joinServer` keeps open, the trials of
`addConnection` and the two locks of a round make no circle (`EveryCommandEnds`;
`NoCircle`, what the master's call waits for, is proved for any size). For a join that
is not evident: the new process is kept busy by the master and each `addConnection` of
the join has a trial open, while replicas that know of the new process already ask it.
And a put that fails after the replica has applied it leaves the client's counter
behind, but the exception goes on to the master, which ends with it, so that no second
put gets the same client time.

## 4. What is proved

For all sets of servers (natural numbers), clients, keys, values, all topologies
and all bounds, from the assumptions `IdAssumption`, `ValueAssumption` (the mark
for "no value" is not a value), `LinksAssumption`, `MaxWritesAssumption`,
`ClientLinksAssumption`, `NoEntryAssumption`, the replicas and their clients:

| theorem | says |
|---|---|
| `InductiveInvariant` | `IInv` of `ReplicaServerProofs` holds always |
| `TypeCorrect`, `TimesRunAhead`, `LogicalClock`, `NoLoss`, `ClientOrderKept`, `StoreIsReplay` | the invariants of `replica_ring` and `replica_pair` |
| `StrongConvergence` | equal clocks mean equal stores |
| `Implementation` | `Spec => ImplementsReplicatedStore` |
| `SystemImplementsReplicas` | the clients are an environment the replicas allow: all of the above holds of the composed system |
| `SystemIsReplicatedStore` | the composed system implements `ReplicatedStore` |
| `SystemTypeCorrect`, `ReadYourWritesHolds`, `KeyStaysPresentHolds`, `ReadersSeeWritersInOrderHolds` | the properties of `clients_move` |

An ID that is killed and joined again any number of times, from `VictimAssumption` (it is
one of the servers) and those of the replicas:

| theorem | says |
|---|---|
| `RejoinInvariant` | `RejoinInv`, types included, as long as no put came early (`~ early`) |
| `StampsOfAllLives`, `NoLossOverLives` | `UniqueIfHeard`, `NoneLostIfHeard`: the properties of `rejoin`, which have the same condition |
| `ConvergenceOverLives` | equal clocks mean equal stores, of a successor too, under the same condition |

The condition is the matter itself: `rejoin_early` is a behaviour without it. Puts are
as free in these theorems as in the code, at the new process too; `early` records one
that came before its process had merged an answer of every replica it can reach. What
they say is that nothing else makes a stamp come twice: no kill in the middle of a
round, no old answer, no peer that lags behind, no number of lives.

The two threads of every replica, from `ReachableAssumption` (nobody pulls from itself) and
`WritableAssumption`:

| theorem | says | hypothesis |
|---|---|---|
| `ThreadsTypeCorrect`, `OthersKnowledgeGrows` | the safety properties of `threads_mutual` | none: any topology, any writers |
| `SerialCallsKeepWhatTheyClaim`, `SerialCallsServeFreshReads` | `ClaimsKeptIfSerial`, `FreshIfSerial`: `ClaimedIsHeld` and `ReadsAreFresh` | `[]Serialized`: no call is under way at a replica during its merge |
| `SerialKnowledgeGrows` | no clock goes back, its own replica's key included | `[]Serialized` |

`Serialized` is not what the code guarantees. It is what it would guarantee if `write()` and
all of `antiEntropyRequest` took `self.lock`, and the three theorems say that this would be
enough, in any topology, two replicas that pull from each other included: threads of
different replicas may still do anything in between, and an answer may be as old as it likes. It
is needed, too, for `threads_lost_append` is a behaviour without it.

The processes, from `ClusterAssumption` (finitely many IDs; servers, clients and the master are
different) and for any commands, any ends of handlers and any exceptions:

| theorem | says |
|---|---|
| `ClusterInvariant` | the inductive invariant `ClusterInv` |
| `ClusterTypesCorrect`, `TheKilledAreNotAsked`, `ClientTimesDiffer`, `IdleConnectionsAreExplained`, `NoCircleOfCalls` | the safety properties of `cluster`, in this order |

The master's passes, from `TopologiesAssumption` (any set of topologies),
`WrittenAssumption` and `SomeServer` (there is a replica); `FourPassesSuffice` also from
`InOnePiece` (each topology has a link out of every proper part of the replicas) and
`FewServers` (at most five replicas, the number README.md of the code gives):

| theorem | says |
|---|---|
| `PassesTypeCorrect`, `OneLinkPerPass` | `TypeOK` and `PassCarriesOneLink` of `four_passes`: for any number of replicas, order of a pass and rounds of the periodic threads, every pass carries every write one link further |
| `FourPassesSuffice` | `FourPassesReachAll`: the four passes of line 172 bring every write to everyone |

The stubs, for all sets of integers and texts that can be written, all arguments and
values that are objects of the methods' structs (`ArgumentsAssumption`,
`ValuesAssumption`: what the code gives the stubs) and any number of calls
(`MaxCallsAssumption`):

| theorem | says |
|---|---|
| `RoundTrip` | `read()` gives back the object `write()` was given, for every struct whose fields have numbers and names of their own |
| `RpcTypeCorrect`, `StubsKeepPromises` | `RpcTypeOK` and `ImplementsRemoteCall` of `rpc` |

**The argument.** `NoWriteLost` is not inductive: a merge takes over the answer's
clock, so something must be known of the answer. `AnswerComplete` says it: an
entry the answer's clock covers comes with it, or the requester covers it
already, or a newer write of the same client is in one of the two logs. When
the answer is made this follows from `NoWriteLost` of the peer and from
`RequestBehind` (the copy of the clock that was sent is not ahead of the
requester's); it survives the requester's own writes because these only add to
its log; and the merge keeps it because `AddNewWrites` drops an entry only for one
that overwrites it and stays (`AddNewWritesComplete`, which needs that being
overwritten is transitive). `SessionOrder` needs `AnswerSessionOrder` in the same
way, and a new write sorts last because of `AcceptTimeAhead`, which needs
`AnswerAhead`. `UniqueStamps` rests on `OwnClockAhead`: nobody knows more of a
replica than the replica itself. These parts together are `Core(E)`, for a set `E` of
entries, and `OwnClockAhead`; in `ReplicaServer`, `E` is `accepted`.

`TypeOK` is part of the induction and not trivial for `kv_store`: the value of
`CHOOSE` in `Last` is an entry only because a bounded log with unique stamps has
a last one (`LastExists`).

For the refinement, `ReplayOfCover`: a log that covers a set `C` of entries and is
in session order replays to what is current in `C`. The last entry for a key is
not overwritten by anything in `C`, for that would be in the log, or overwritten
by something in the log, after it. So the store is a function of `Seen(r)`, the
entries the clock covers. `Write` maps to `Accept`, `MergeResult` to `Learn`, all
else to a stutter.

For the sessions, three facts about what a client's clock for a key covers (its
own last write; some entry, if there is a clock; what it last read, if it has
not written the key) and `ServedHas`: what the clock covers is in the log of a
replica that serves the client, or overwritten by what is.

For an ID that is used again, `Core` holds of the entries that are not `lost`, but
`OwnClockAhead` does not hold of the victim: the others know more of it than the new
process. What is left (`VictimCatchesUp`) is that for all anybody knows of the victim
there is a witness: the victim's own clock, or a replica it has not yet heard, whose
answer, if it is already here, says so (`WillKnow`). When it has heard all it can reach,
no witness is left but itself, its accept time is past every old stamp, and
`OwnClockAhead` is back for the moment in which it writes: this is where `~ early` is
used. `OthersAhead` is the old argument for the rest.

For the threads, `ThreadInv` adds to the types that each call under way has a thread that
waits for it, and that the value a merge has loaded of somebody else's key is still there
when it stores: only the merge assigns those. `SerialInv` is the argument for the
replica as a whole, cut at each access. `PullOK` says where a merge is: an answer's clock is
made up for by its entries and those the asker's own clock covers, then, from the swap of the list
on, by the log; the store is fresh for what the clock covers all the time, and for the whole log
before the first key of the clock is assigned. `WriteOK` says the same of `write()`: the
list it looked up, the stamp it took and the number it counts up are still the current ones.
Each of these is where `Serialized` is used. `AnswerInv` says what an answer under way owes its
asker. Steps elsewhere only make time go on (`Later`): a new entry has a stamp no clock covers.
Lists are not sets here, so there are lemmas for what pruning, joining, sorting and replaying
a list do (`TakenProperties`, `SortsProperties`, `ReplayFresh`).

For the processes, the master is one thread that waits for every call, so where it is
decides where all others can be: a server thread that is in the middle of a handler that
blocks, a client that waits, and a round that is the server thread's serve the master,
which is the first of their line (`ServingOK`). `TodoOK` and `MasterOK` say what is left
of a command: a kill is nothing but removals and then the end of the process, and nobody
is told to connect to a process that does not run. None of the properties is inductive
without these. For `NobodyAsksTheKilled`, `KillOK` says of each member that it has
nothing left of the process (`Removed`: no connection, no turn in its round, no call
under way) or has yet to answer the call that removes it; it is the lock of the round
that makes the answer mean `Removed`. For `TimesDiffer`, `TimesOK` follows the exception
that is to blame for a client's counter up to the master. `LinesOK` and `TrialsOK` are
`IdleConnectionsExplained` with the phases of a join and of `addConnection` spelled out.

`NoCircle` is what `joinServer` could go wrong by: it keeps the new process busy with
its own connection, and each `addConnection` keeps the peer busy with its trial, while
replicas that know of the new process already ask it, with their locks held and behind
the master, and the master goes on to call replicas that need these locks. `CircleInv`
says why this makes no circle: a join calls each replica once (`JoinOnce`), a replica
that has anything of the new process has had that call, or is in the part of it that
comes after the lock (`ToldOK`), and the new process has nothing of a replica it has yet
to be told of (`UntoldOK`). Whom a round has left to ask stays reachable while the round
has the lock (`TurnsReachable`), so a trial stands before the question of its own round
only where the peer was reachable before: in `createConnection` for a connected pair. It
is an induction of its own on top of `ClusterInv`, in which most steps are `Quiet`. That
nobody has anything of the process when the join begins is `NobodyAsksTheKilled` again,
because IDs come back. TLC checked `ClusterInv` and `CircleInv` on small instances of
`Cluster` before they were proved.

For the passes, `PassCarriesOneLink` speaks of a pass that is over; `IInv` of
`MasterStabilizeProofs` adds what holds in the middle of one: a replica the master has
been at knows what was near its neighbours when the pass began (`DoneKnow`), and one it is
at knows that of the neighbours it has asked, the answer on its way counted
(`TurnKnows`). A merge by a periodic thread in between only adds (`MergeKeepsBoth`).
That four are enough is a count (`Spreads`): the replicas near a given one are all of them,
or after `n` passes more than `n`, because some link leads out of those that are.

For the stubs, `IInv` of `RpcProofs` says in which phase a call is (sent, handled,
being replied to, answered, broken, returned, raised) and what each phase says of the
connection and of the history of the handler. That a reply belongs to the caller's
call, although nobody looks at its `seqid`, is the phase `NoCall`: nothing is on the
connection when a call begins, because the one before has taken its answer or has
raised, and after an error no caller goes on. `RoundTrip` gives the arguments and the
value; the structs of `gen-py` are shown to have distinct fields (`ReplicaStructs`,
`ClientStructs`), and those of the methods both services have to be the same
(`SameStructs`), which is what a stub at the wrong port relies on.

**Only model-checked:** what must happen in the end, which rests on fairness
(`WritesReachEveryone`, `EveryRequestEnds`, `EveryCommandEnds`, `EveryCallEnds`); and
the violations, which are counterexamples. The induction theorems of the library take an
operator as a parameter, which the provers cannot instantiate; where a recursive
function has to be reasoned about (`Taken`), the proof takes the least number for which
the claim would fail.

## 5. Not modelled, and the plan

Done in this order because each step rests on the one before: the data (`WriteLog`),
the replicas, the abstract store, the clients, the threads; then the master's passes,
the stubs, the processes that wait for each other, and an ID that is used again; then the
proofs about the passes, the ID, the threads and the processes.

Not modelled:
- `tester.py` and the scripts: they run `master.py` and compare its output, and keep no
  state of the system. They were read for the topologies and commands that occur.
- `TSimpleServer`, `TBufferedTransport` and the binary protocol byte by byte: not part of
  the repository; what the code relies on is in section 2.
- Ports, process handles beyond running or not, and the `time.sleep(self.wait)` by which
  the master hopes that a new process listens (lines 85 and 128): opening succeeds
  once the process runs.
- The text of what `printStore` prints and the parsing of the master's input lines.
