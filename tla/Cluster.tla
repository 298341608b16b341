------------------------------ MODULE Cluster ------------------------------
(***************************************************************************)
(* The processes of the system and who waits for whom: the master, which   *)
(* runs one command after the other, the servers and clients with their    *)
(* single-threaded TSimpleServers, and the periodic thread of each server. *)
(* Modelled are the calls, the connections they go over, stabilize_lock    *)
(* and reachable_lock, what a replica keeps of its connections, and what   *)
(* an exception leaves behind.  The data is in ReplicaServer.              *)
(*                                                                         *)
(* A caller is the master, a client (its handler), or a server (whichever  *)
(* thread of it runs stabilize(): stabilize_lock admits one).  A server    *)
(* serves the first connection of its line until the caller closes it.     *)
(* The connection addConnection opens to try the port stands in a line for *)
(* a caller of its own, Trial(r), that never calls.                        *)
(***************************************************************************)
EXTENDS Integers, SequencesExt, FiniteSetsExt

CONSTANTS
  Servers, Clients,   \* IDs
  Master,
  Starts,             \* [sets of members at the beginning -> commands to come]
  MaxMembers,         \* bound: processes at once
  Passes,             \* of stabilize(); 4 in the code
  MayRaise            \* a vector clock may grow while it is copied (ReplicaThreads)

Nodes == Servers \cup Clients
Trial(r) == [tries |-> r]
Callers == Nodes \cup {Master} \cup {Trial(r) : r \in Servers}

ASSUME ClusterAssumption ==
  /\ Servers \cap Clients = {} /\ Master \notin Nodes /\ IsFiniteSet(Nodes)
  /\ \A r \in Servers : Trial(r) \notin Nodes \cup {Master}
  /\ DOMAIN Starts \subseteq SUBSET Nodes
  /\ \A started \in DOMAIN Starts : Starts[started] \in Nat
  /\ MaxMembers \in Nat /\ Passes \in Nat /\ MayRaise \in BOOLEAN

VARIABLES
  alive,       \* the processes that run
  line,        \* [Nodes -> sequence of callers connected to its server]
  call,        \* [Callers -> its call under way]
  serving,     \* [Nodes -> where the server thread is]
  reachable,   \* [Nodes -> set of replicas]
  stubs,       \* [Servers -> set of replicas]
  transports,  \* [Servers -> [Servers -> "none", "old" or "current"]]
  round,       \* [Servers -> the run of stabilize() and who, with its lock, is at it]
  time,        \* [Clients -> time of ClientHandler]
  applied,     \* history: [Clients -> its writes that replicas have applied]
  todo,        \* the calls left of the master's command
  members,     \* the master's stubs
  commands     \* bound: commands that may still come

connection_vars == <<reachable, stubs, transports>>
thread_vars == <<line, call, serving>>
client_vars == <<time, applied>>
master_vars == <<alive, todo, members, commands>>
vars == <<thread_vars, connection_vars, round, client_vars, master_vars>>

NoCall == [to |-> Master, op |-> "none", arg |-> Master, answer |-> "none"]
NoRound == [who |-> "nobody", at |-> "idle", to_ask |-> {}]

(* The members have been connected; two of them may have been disconnected. *)
Connected(started, home, broken) ==
  LET Linked(a, b) == {a, b} \subseteq started /\ a # b /\ {a, b} # broken IN
  /\ reachable = [n \in Nodes |->
       {s \in Servers : Linked(n, s) /\ (n \in Clients => home[n] = s)}]
  /\ transports = [r \in Servers |-> [s \in Servers |->
       IF Linked(r, s) THEN "current" ELSE IF {r, s} = broken THEN "old" ELSE "none"]]

Init ==
  /\ \E started \in DOMAIN Starts :
       /\ members = started /\ commands = Starts[started]
       /\ \E home \in [started \cap Clients -> started \cap Servers],
             broken \in {{}} \cup kSubset(2, started) :
            Connected(started, home, broken)
  /\ alive = {Master} \cup members
  /\ line = [n \in Nodes |-> <<>>]
  /\ call = [x \in Callers |-> NoCall]
  /\ serving = [n \in Nodes |-> "reading"]
  /\ stubs = [r \in Servers |-> reachable[r]]
  /\ round = [r \in Servers |-> NoRound]
  /\ time = [c \in Clients |-> 0] /\ applied = [c \in Clients |-> 0]
  /\ todo = <<>>

-----------------------------------------------------------------------------
(* Calls: open a connection unless there is one, send, wait, close. *)
Called(x, n, op, arg) == [call EXCEPT ![x] = [to |-> n, op |-> op, arg |-> arg, answer |-> "none"]]

Opened(x, n) == IF Contains(line[n], x) THEN line ELSE [line EXCEPT ![n] = Append(@, x)]

Closed(x, n) == [line EXCEPT ![n] = RemoveFirst(@, x)]

(* The server thread of n is at this call. *)
Serves(n, op) ==
  /\ n \in alive /\ line[n] # <<>>
  /\ LET asked == call[Head(line[n])] IN
       asked.to = n /\ asked.op = op /\ asked.answer = "none"

Argument(n) == call[Head(line[n])].arg

Answer(n, result) ==
  /\ call' = [call EXCEPT ![Head(line[n])].answer = result]
  /\ serving' = [serving EXCEPT ![n] = "reading"]

(* The run of stabilize() that has got reachable_lock keeps it to its end. *)
ReachableLocked(r) == round[r].at \in {"looping", "called", "dead"}

(* Handlers that touch nothing of this module, or only raise now and then. *)
Results == {"ok"} \cup IF MayRaise THEN {"exception"} ELSE {}

SimpleHandler(n) ==
  /\ \/ Serves(n, "setID") \/ Serves(n, "getStore")
  /\ Answer(n, "ok")
  /\ UNCHANGED <<line, connection_vars, round, client_vars, master_vars>>

(* No lock of this module: the asker holds its own while it waits. *)
AnswerRequestLocked(r) ==   \* mutant: under reachable_lock
  /\ Serves(r, "antiEntropyRequest") \/ Serves(r, "read")
  /\ Serves(r, "antiEntropyRequest") => ~ ReachableLocked(r)
  /\ \E result \in Results : Answer(r, result)
  /\ UNCHANGED <<line, connection_vars, round, client_vars, master_vars>>

AnswerRequest(r) ==
  /\ Serves(r, "antiEntropyRequest") \/ Serves(r, "read")
  /\ \E result \in Results : Answer(r, result)
  /\ UNCHANGED <<line, connection_vars, round, client_vars, master_vars>>

(* write() raises, if it does, after it has stored the entry. *)
ApplyWrite(r) ==
  /\ Serves(r, "write")
  /\ applied' = [applied EXCEPT ![Argument(r)] = @ + 1]
  /\ \E result \in Results : Answer(r, result)
  /\ UNCHANGED <<line, connection_vars, round, time, master_vars>>

-----------------------------------------------------------------------------
(***************************************************************************)
(* addConnection of a replica: it opens a connection to the peer and keeps *)
(* it while it waits for the lock.  The ID becomes reachable first, and    *)
(* then the stub and the transport, which is still open, are stored        *)
(* without the lock.  A transport stored before is not that stub's.        *)
(***************************************************************************)
TryConnection(r) ==
  /\ Serves(r, "addConnection") /\ serving[r] = "reading"
  /\ line' = Opened(Trial(r), Argument(r))
  /\ serving' = [serving EXCEPT ![r] = "trying"]
  /\ UNCHANGED <<call, connection_vars, round, client_vars, master_vars>>

AddReachable(r) ==
  /\ serving[r] = "trying" /\ ~ ReachableLocked(r)
  /\ reachable' = [reachable EXCEPT ![r] = @ \cup {Argument(r)}]
  /\ serving' = [serving EXCEPT ![r] = "stub"]
  /\ UNCHANGED <<line, call, stubs, transports, round, client_vars, master_vars>>

AddStub(r) ==
  /\ serving[r] = "stub"
  /\ stubs' = [stubs EXCEPT ![r] = @ \cup {Argument(r)}]
  /\ transports' = [transports EXCEPT ![r][Argument(r)] = IF @ = "none" THEN @ ELSE "old"]
  /\ serving' = [serving EXCEPT ![r] = "transport"]
  /\ UNCHANGED <<line, call, reachable, round, client_vars, master_vars>>

AddTransportOnce(r) ==   \* mutant: a transport that is there is kept
  /\ serving[r] = "transport"
  /\ transports' = [transports EXCEPT ![r][Argument(r)] = IF @ = "none" THEN "current" ELSE @]
  /\ serving' = [serving EXCEPT ![r] = "closing"]
  /\ UNCHANGED <<line, call, reachable, stubs, round, client_vars, master_vars>>

AddTransport(r) ==
  /\ serving[r] = "transport"
  /\ transports' = [transports EXCEPT ![r][Argument(r)] = "current"]
  /\ serving' = [serving EXCEPT ![r] = "closing"]
  /\ UNCHANGED <<line, call, reachable, stubs, round, client_vars, master_vars>>

EndTrial(r) ==
  /\ serving[r] = "closing"
  /\ line' = Closed(Trial(r), Argument(r))
  /\ Answer(r, "ok")
  /\ UNCHANGED <<connection_vars, round, client_vars, master_vars>>

(* A round that uses the same transport may lose it under its call. *)
CutOff(r) ==
  /\ serving[r] = "closing" /\ round[r].at = "called" /\ call[r].arg = Trial(r)
  /\ line' = [line EXCEPT ![Argument(r)] = RemoveFirst(RemoveFirst(@, Trial(r)), r)]
  /\ call' = [call EXCEPT ![Head(line[r])].answer = "ok", ![r].answer = "exception"]
  /\ serving' = [serving EXCEPT ![r] = "reading"]
  /\ UNCHANGED <<connection_vars, round, client_vars, master_vars>>

(* removeConnection keeps the transport, which the next stub will not use. *)
WithoutConnection(r, s) ==
  /\ reachable' = [reachable EXCEPT ![r] = @ \ {s}]
  /\ stubs' = [stubs EXCEPT ![r] = @ \ {s}]
  /\ transports' = [transports EXCEPT ![r][s] = IF s \in reachable[r] THEN "old" ELSE @]

RemoveAtOnce(r) ==   \* mutant: does not wait for the round
  /\ Serves(r, "removeConnection")
  /\ WithoutConnection(r, Argument(r))
  /\ Answer(r, "ok")
  /\ UNCHANGED <<line, round, client_vars, master_vars>>

RemoveConnection(r) ==
  /\ Serves(r, "removeConnection") /\ ~ ReachableLocked(r)
  /\ IF Argument(r) \in reachable[r] THEN WithoutConnection(r, Argument(r)) ELSE UNCHANGED connection_vars
  /\ Answer(r, "ok")
  /\ UNCHANGED <<line, round, client_vars, master_vars>>

-----------------------------------------------------------------------------
(* stabilize(): the periodic thread's, or that of the server thread. *)
At(r, step) == [round EXCEPT ![r].at = step]

BeginRound(r, who) ==
  /\ r \in alive /\ round[r].who = "nobody"
  /\ who = "server" => Serves(r, "stabilize")
  /\ round' = [round EXCEPT ![r].who = who, ![r].at = "begun"]
  /\ UNCHANGED <<thread_vars, connection_vars, client_vars, master_vars>>

LockReachable(r) ==
  /\ round[r].at = "begun" /\ ~ ReachableLocked(r)
  /\ round' = [round EXCEPT ![r].at = "looping", ![r].to_ask = reachable[r]]
  /\ UNCHANGED <<thread_vars, connection_vars, client_vars, master_vars>>

(* An exception leaves the locks held; the server thread reports it. *)
Raise(r) ==
  /\ round' = At(r, "dead")
  /\ IF round[r].who = "server" THEN Answer(r, "exception") ELSE UNCHANGED <<call, serving>>

(***************************************************************************)
(* Open the transport stored for s and call the stub stored for s.  The    *)
(* stub's own transport is the stored one if that is current; if it is     *)
(* Lent, addConnection has it open already.  A KeyError of stubs, or a     *)
(* stub that is not open, comes after the other transport is opened; to    *)
(* open one that is open is an error, or it is closed before the call.     *)
(***************************************************************************)
Lent(r, s) == serving[r] \in {"transport", "closing"} /\ Argument(r) = s

Usable(r, s) ==
  /\ s \in stubs[r] /\ s \in alive
  /\ transports[r][s] = "current" \/ (transports[r][s] = "old" /\ Lent(r, s))

Ask(r, s) ==
  /\ round[r].at = "looping" /\ s \in round[r].to_ask /\ Usable(r, s)
  /\ line' = Opened(r, s)
  /\ call' = Called(r, s, "antiEntropyRequest", IF Lent(r, s) THEN Trial(r) ELSE r)
  /\ round' = [round EXCEPT ![r].at = "called", ![r].to_ask = @ \ {s}]
  /\ UNCHANGED <<serving, connection_vars, client_vars, master_vars>>

AskFails(r, s) ==
  /\ round[r].at = "looping" /\ s \in round[r].to_ask
  /\ ~ Usable(r, s) \/ (Lent(r, s) /\ serving[r] = "closing")
  /\ line' = IF transports[r][s] = "old" /\ s \in alive THEN Opened(r, s) ELSE line
  /\ Raise(r)
  /\ UNCHANGED <<connection_vars, client_vars, master_vars>>

(* The copy of the clock, which the other thread changes. *)
CopyFails(r) ==
  /\ MayRaise /\ round[r].at = "looping" /\ round[r].who = "periodic" /\ round[r].to_ask # {}
  /\ Raise(r)
  /\ UNCHANGED <<line, connection_vars, client_vars, master_vars>>

TakeAnswerKeepsOpen(r) ==   \* mutant: close() forgotten
  /\ round[r].at = "called" /\ call[r].answer = "ok"
  /\ call' = [call EXCEPT ![r] = NoCall]
  /\ round' = At(r, "looping")
  /\ UNCHANGED <<line, serving, connection_vars, client_vars, master_vars>>

TakeAnswer(r) ==
  /\ round[r].at = "called" /\ call[r].answer = "ok"
  /\ line' = Closed(r, call[r].to)
  /\ call' = [call EXCEPT ![r] = NoCall]
  /\ round' = At(r, "looping")
  /\ UNCHANGED <<serving, connection_vars, client_vars, master_vars>>

(* The connection stays open, and the other server stays at it. *)
AnswerFails(r) ==
  /\ round[r].at = "called" /\ call[r].answer = "exception"
  /\ Raise(r)
  /\ UNCHANGED <<line, connection_vars, client_vars, master_vars>>

EndRound(r) ==
  /\ round[r].at = "looping" /\ round[r].to_ask = {}
  /\ round' = [round EXCEPT ![r] = NoRound]
  /\ IF round[r].who = "server" THEN Answer(r, "ok") ELSE UNCHANGED <<call, serving>>
  /\ UNCHANGED <<line, connection_vars, client_vars, master_vars>>

-----------------------------------------------------------------------------
(***************************************************************************)
(* The client: its replicas, and requestWrite and requestRead, which call  *)
(* one of them.  Without one random.sample raises.  After an exception the *)
(* connection stays open and the time as it was.                           *)
(***************************************************************************)
ChangeReachable(c) ==
  /\ \/ /\ Serves(c, "addConnection")
        /\ reachable' = [reachable EXCEPT ![c] = @ \cup {Argument(c)}]
     \/ /\ Serves(c, "removeConnection")
        /\ reachable' = [reachable EXCEPT ![c] = @ \ {Argument(c)}]
  /\ Answer(c, "ok")
  /\ UNCHANGED <<line, stubs, transports, round, client_vars, master_vars>>

Requested(c) == Serves(c, "requestWrite") \/ Serves(c, "requestRead")

Request(c, s) ==
  /\ serving[c] = "reading" /\ Requested(c) /\ s \in reachable[c]
  /\ line' = Opened(c, s)
  /\ call' = Called(c, s, IF Serves(c, "requestWrite") THEN "write" ELSE "read", c)
  /\ serving' = [serving EXCEPT ![c] = "waiting"]
  /\ UNCHANGED <<connection_vars, round, client_vars, master_vars>>

RequestFails(c) ==
  /\ serving[c] = "reading" /\ Requested(c) /\ reachable[c] = {}
  /\ Answer(c, "exception")
  /\ UNCHANGED <<line, connection_vars, round, client_vars, master_vars>>

Finish(c, result) ==
  /\ call' = [call EXCEPT ![c] = NoCall, ![Head(line[c])].answer = result]
  /\ serving' = [serving EXCEPT ![c] = "reading"]

FinishRequest(c) ==
  /\ serving[c] = "waiting" /\ call[c].answer = "ok"
  /\ line' = Closed(c, call[c].to)
  /\ time' = [time EXCEPT ![c] = IF call[c].op = "write" THEN @ + 1 ELSE @]
  /\ Finish(c, "ok")
  /\ UNCHANGED <<connection_vars, round, applied, master_vars>>

FailRequestSilently(c) ==   \* mutant: the exception is swallowed
  /\ serving[c] = "waiting" /\ call[c].answer = "exception"
  /\ line' = Closed(c, call[c].to)
  /\ Finish(c, "ok")
  /\ UNCHANGED <<connection_vars, round, client_vars, master_vars>>

FailRequest(c) ==
  /\ serving[c] = "waiting" /\ call[c].answer = "exception"
  /\ Finish(c, "exception")
  /\ UNCHANGED <<line, connection_vars, round, client_vars, master_vars>>

-----------------------------------------------------------------------------
(***************************************************************************)
(* The master: a command is a sequence of calls, each on a connection of   *)
(* its own; joinServer and joinClient keep theirs to the new process open  *)
(* until they end.  IDs are those of members.  Its dictionaries of stubs   *)
(* are gone through in any order.                                          *)
(***************************************************************************)
Do(n, op, arg) == [to |-> n, op |-> op, arg |-> arg]

Orders(S) == Bijection(1 .. Cardinality(S), S)

Connect(s, id) == Do(s, "addConnection", id)
Disconnect(s, id) == Do(s, "removeConnection", id)

JoinServer(id) ==
  /\ id \notin alive /\ Cardinality(members) < MaxMembers
  /\ \E order \in Orders(members \cap Servers) :
       todo' = <<Do(id, "setID", id)>>
               \o [i \in 1 .. 2 * Len(order) |->
                     IF i % 2 = 1 THEN Connect(order[(i + 1) \div 2], id)
                     ELSE Connect(id, order[i \div 2])]
               \o <<Do(id, "register", id)>>
  /\ alive' = alive \cup {id}

KillServer(id) ==
  /\ id \in members
  /\ \E order \in Orders(members) :
       todo' = [i \in DOMAIN order |-> Disconnect(order[i], id)] \o <<Do(id, "terminate", id)>>
  /\ UNCHANGED alive

JoinClient(c, s) ==
  /\ c \notin alive /\ Cardinality(members) < MaxMembers /\ s \in members
  /\ todo' = <<Do(c, "setID", c), Connect(c, s), Do(c, "register", c)>>
  /\ alive' = alive \cup {c}

BreakConnection(a, b) ==
  /\ a \in members /\ b \in members /\ a # b
  /\ todo' = <<Disconnect(a, b), Disconnect(b, a)>>
  /\ UNCHANGED alive

(* No replica is told to add a client. *)
CreateConnection(a, b) ==
  /\ a \in members /\ b \in members /\ a # b
  /\ todo' = (IF b \in Servers THEN <<Connect(a, b)>> ELSE <<>>)
             \o (IF a \in Servers THEN <<Connect(b, a)>> ELSE <<>>)
  /\ UNCHANGED alive

Stabilize ==
  /\ \E order \in Orders(members \cap Servers) :
       todo' = [i \in 1 .. Passes * Len(order) |->
                  LET r == order[1 + ((i - 1) % Len(order))] IN Do(r, "stabilize", r)]
  /\ UNCHANGED alive

(* printStore, put and get. *)
OneCall(n, op) ==
  /\ n \in members
  /\ op = "getStore" <=> n \in Servers
  /\ todo' = <<Do(n, op, n)>>
  /\ UNCHANGED alive

Command ==
  /\ Master \in alive /\ todo = <<>> /\ commands > 0
  /\ commands' = commands - 1
  /\ \/ \E id \in Servers : JoinServer(id) \/ KillServer(id)
     \/ \E c \in Clients, s \in Servers : JoinClient(c, s)
     \/ \E a, b \in Nodes : BreakConnection(a, b) \/ CreateConnection(a, b)
     \/ Stabilize
     \/ \E n \in Nodes : \E op \in {"getStore", "requestWrite", "requestRead"} : OneCall(n, op)
  /\ UNCHANGED <<thread_vars, connection_vars, round, client_vars, members>>

MasterCalls ==
  /\ todo # <<>> /\ Head(todo).op \notin {"register", "terminate"} /\ call[Master] = NoCall
  /\ LET next == Head(todo) IN
       /\ line' = Opened(Master, next.to)
       /\ call' = Called(Master, next.to, next.op, next.arg)
  /\ UNCHANGED <<serving, connection_vars, round, client_vars, master_vars>>

Kept(n) == Last(todo).op = "register" /\ Last(todo).to = n

MasterReturnsOpen ==   \* mutant: close() only at the end of a command
  /\ call[Master].answer = "ok"
  /\ call' = [call EXCEPT ![Master] = NoCall]
  /\ line' = IF Len(todo) = 1 THEN [n \in Nodes |-> Closed(Master, n)[n]] ELSE line
  /\ todo' = Tail(todo)
  /\ UNCHANGED <<serving, connection_vars, round, client_vars, alive, members, commands>>

MasterReturns ==
  /\ call[Master].answer = "ok"
  /\ call' = [call EXCEPT ![Master] = NoCall]
  /\ line' = IF Kept(call[Master].to) THEN line ELSE Closed(Master, call[Master].to)
  /\ todo' = Tail(todo)
  /\ UNCHANGED <<serving, connection_vars, round, client_vars, alive, members, commands>>

(* Nothing catches the exception.  What is left of the process waits for   *)
(* its children, with the connections open.                                *)
MasterFails ==
  /\ call[Master].answer = "exception"
  /\ alive' = alive \ {Master}
  /\ todo' = <<>>
  /\ call' = [call EXCEPT ![Master] = NoCall]
  /\ UNCHANGED <<line, serving, connection_vars, round, client_vars, members, commands>>

Register ==
  /\ todo # <<>> /\ Head(todo).op = "register"
  /\ line' = Closed(Master, Head(todo).to)
  /\ members' = members \cup {Head(todo).to}
  /\ todo' = <<>>
  /\ UNCHANGED <<call, serving, connection_vars, round, client_vars, alive, commands>>

(***************************************************************************)
(* The process and what it kept are gone.  A caller that waits for it      *)
(* would get an exception.  Transports to its port cannot be opened any    *)
(* more, which is as good as none.                                         *)
(***************************************************************************)
Terminate ==
  /\ todo # <<>> /\ Head(todo).op = "terminate"
  /\ LET id == Head(todo).to IN
       /\ alive' = alive \ {id} /\ members' = members \ {id}
       /\ line' = [n \in Nodes |-> IF n = id THEN <<>> ELSE Closed(id, n)[n]]
       /\ call' = [x \in Callers |->
            IF x = id THEN NoCall
            ELSE IF call[x].to = id THEN [call[x] EXCEPT !.answer = "exception"] ELSE call[x]]
       /\ serving' = [serving EXCEPT ![id] = "reading"]
       /\ reachable' = [reachable EXCEPT ![id] = {}]
       /\ stubs' = [stubs EXCEPT ![id] = {}]
       /\ transports' = [r \in Servers |-> [s \in Servers |->
            IF id \in {r, s} THEN "none" ELSE transports[r][s]]]
       /\ round' = [round EXCEPT ![id] = NoRound]
  /\ todo' = <<>>
  /\ UNCHANGED <<client_vars, commands>>

-----------------------------------------------------------------------------
ClientThread(c) ==
  \/ ChangeReachable(c) \/ RequestFails(c) \/ FinishRequest(c) \/ FailRequest(c)
  \/ \E s \in Servers : Request(c, s)

ServerThread(n) ==
  \/ SimpleHandler(n)
  \/ n \in Servers /\ (AnswerRequest(n) \/ ApplyWrite(n) \/ TryConnection(n) \/ AddStub(n)
                       \/ AddTransport(n) \/ EndTrial(n) \/ CutOff(n))
  \/ n \in Clients /\ ClientThread(n)

(* The steps of the server thread that wait for a lock of the round. *)
ServerLocks(r) == AddReachable(r) \/ RemoveConnection(r) \/ BeginRound(r, "server")

RoundStep(r) ==
  \/ LockReachable(r) \/ TakeAnswer(r) \/ AnswerFails(r) \/ CopyFails(r) \/ EndRound(r)
  \/ \E s \in Servers : Ask(r, s) \/ AskFails(r, s)

MasterStep == MasterCalls \/ MasterReturns \/ MasterFails \/ Register \/ Terminate

Next ==
  \/ Command \/ MasterStep
  \/ \E n \in Nodes : ServerThread(n)
  \/ \E r \in Servers : ServerLocks(r) \/ BeginRound(r, "periodic") \/ RoundStep(r)

Spec == Init /\ [][Next]_vars

(***************************************************************************)
(* Every thread runs.  The periodic thread sleeps a quarter of a second    *)
(* between two rounds, in which whoever waits for its locks gets them.     *)
(***************************************************************************)
FairSpec ==
  /\ Spec
  /\ WF_vars(MasterStep)
  /\ \A n \in Nodes : WF_vars(ServerThread(n))
  /\ \A r \in Servers : SF_vars(ServerLocks(r)) /\ WF_vars(RoundStep(r))

-----------------------------------------------------------------------------
(***************************************************************************)
(* The stub and the transport of each peer fit together whenever neither   *)
(* addConnection is at that peer.                                          *)
(***************************************************************************)
Settled(r, s) == serving[r] = "reading" \/ Argument(r) # s

ClusterTypeOK ==
  /\ alive \subseteq Nodes \cup {Master} /\ members \subseteq alive
  /\ \A n \in Nodes : IsInjective(line[n])
  /\ \A r \in Servers :
       /\ round[r].who \in {"nobody", "periodic", "server"}
       /\ round[r].at \in {"idle", "begun", "looping", "called", "dead"}
       /\ round[r].at = "called" => call[r].op = "antiEntropyRequest"
       /\ \A s \in Servers : Settled(r, s) =>
            /\ s \in stubs[r] <=> s \in reachable[r]
            /\ s \in reachable[r] => transports[r][s] = "current"

Dead(r) == round[r].at = "dead"

(***************************************************************************)
(* killServer (master.py:114) takes the replica from everyone before it    *)
(* terminates it, and removeConnection waits for the round that may be at  *)
(* it: no replica and no client asks a process that is gone.               *)
(***************************************************************************)
NobodyAsksTheKilled ==
  \A x \in Nodes : (x \in Servers => ~ Dead(x)) /\ call[x] # NoCall => call[x].to \in alive

(***************************************************************************)
(* Two writes of a client never have the same client_time, on which the    *)
(* pruning is built, although a put that fails after write() has been      *)
(* applied (client_server.py:55) leaves the time as it was: the exception  *)
(* goes on to the master, and no command follows.                          *)
(***************************************************************************)
TimesDiffer ==
  \A c \in Clients : applied[c] > time[c] =>
    applied[c] = time[c] + 1 /\ (Master \in alive => call[Master].to = c)

(***************************************************************************)
(* A connection that is open keeps a single-threaded server busy.  It is   *)
(* of a caller that waits for the server's answer, or idle for one of five *)
(* reasons: joinServer is at its other calls (master.py:93), addConnection *)
(* is at its lock or its dictionaries (68-74), an exception has ended a    *)
(* replica's thread, a client's request, or the master.                    *)
(***************************************************************************)
IdleConnectionsExplained ==
  \A n \in Nodes : \A x \in ToSet(line[n]) :
    \/ call[x].to = n
    \/ x = Master /\ (Master \in alive => todo # <<>> /\ Kept(n))
    \/ \E r \in Servers : x = Trial(r) /\ serving[r] # "reading" /\ Argument(r) = n
    \/ x \in Servers /\ Dead(x)
    \/ x \in Clients /\ (Master \in alive => call[Master].answer = "exception")

(***************************************************************************)
(* The master waits for n, where a handler waits for the lock of n's round *)
(* (or is a client's request), which waits for an answer itself.           *)
(***************************************************************************)
HeldUp(n) ==
  /\ call[Master].to = n /\ call[Master].answer = "none"
  /\ serving[n] \in {"reading", "trying", "waiting"}
  /\ call[n] # NoCall /\ (n \in Servers => ~ Dead(n))

(***************************************************************************)
(* While joinServer calls the others it keeps the new process busy         *)
(* (master.py:93), and so does each addConnection of the join with its     *)
(* trial, while replicas that have been told of the process already ask it *)
(* with locks held that the next calls need.  That makes no circle: no     *)
(* call of a join waits for an answer from a server that waits for the     *)
(* master or for the caller's own trial.  The only circle there can be is  *)
(* that of createConnection for a pair that is connected: the trial is at  *)
(* the peer, before the question of the round whose lock it waits for.     *)
(***************************************************************************)
BehindItself(r) ==
  /\ HeldUp(r) /\ serving[r] = "trying" /\ call[r].answer = "none"
  /\ LET asked == line[call[r].to] IN asked # <<>> /\ Head(asked) = Trial(r)

NoCircle ==
  \A n \in Nodes : HeldUp(n) =>
    LET asked == line[call[n].to] IN
    /\ asked # <<>> => Head(asked) # Master
    /\ BehindItself(n) => Argument(n) \in reachable[n] /\ Last(todo).op # "register"

(***************************************************************************)
(* Each command of the master ends, whatever rounds are under way: the     *)
(* calls, the two locks and the single-threaded servers never wait for     *)
(* each other in a circle, but for a replica whose round is BehindItself   *)
(* and those whose thread has died with its locks held.                    *)
(***************************************************************************)
EveryCommandEnds ==
  todo # <<>> ~> todo = <<>> \/ \E r \in Servers : Dead(r) \/ BehindItself(r)

(* replica_server.py:54: "starts thread that is always running". *)
PeriodicThreadRuns == \A r \in Servers : ~ Dead(r)
=============================================================================
