---------------------------- MODULE ClusterProofs ----------------------------
(***************************************************************************)
(* The processes and who waits for whom: the invariants of Cluster for any *)
(* number of servers and clients, any commands and any exceptions.         *)
(*                                                                         *)
(* None of them is inductive. ClusterInv adds what holds in the middle     *)
(* of a command: what its calls are and in which order (TodoOK, MasterOK), *)
(* who is at which call (CallersOK), that a handler called by the master   *)
(* serves the master and nobody else (ServingOK), how far a kill has come  *)
(* (KillOK), who is to blame for a client's time that lags behind          *)
(* (TimesOK), and why each connection is open (LinesOK, TrialsOK).         *)
(*                                                                         *)
(* The master is one thread that waits for each call. So where it is at    *)
(* decides where every other thread can be, and each step has one lemma    *)
(* that derives the conjuncts one by one from that.                        *)
(*                                                                         *)
(* The last part is NoCircle, by an induction of its own on top of         *)
(* ClusterInv: CircleInv says how far a join has come with each replica,   *)
(* and that whom a round asks stays reachable while it has the lock.       *)
(***************************************************************************)
EXTENDS Cluster, SequenceTheorems, FiniteSetTheorems, TLAPS

(* What the master calls, and what makes the client it calls ask a replica. *)
MasterOps == {"setID", "getStore", "addConnection", "removeConnection", "stabilize",
              "requestWrite", "requestRead"}
Requests == {"requestWrite", "requestRead"}

(* The calls of all callers, and the calls of a command with the two that end it. *)
Trials == {Trial(r) : r \in Servers}
CallSet == {NoCall} \cup
           [to : Nodes, op : MasterOps \cup {"antiEntropyRequest", "read", "write"},
            arg : Nodes \cup Trials, answer : {"none", "ok", "exception"}]
DoSet == [to : Nodes, op : MasterOps \cup {"register", "terminate"}, arg : Nodes]

(* Nobody is in the line of a server twice: a caller opens a connection it has not. *)
LineType(l) == l \in [Nodes -> Seq(Callers)] /\ \A n \in Nodes : IsInjective(l[n])

(* Where a server thread can be. *)
Threads == {"reading", "trying", "stub", "transport", "closing", "waiting"}

(* The values of the variables. *)
Types ==
  /\ alive \subseteq Nodes \cup {Master} /\ members \subseteq alive /\ Master \notin members
  /\ LineType(line)
  /\ call \in [Callers -> CallSet]
  /\ serving \in [Nodes -> Threads]
  /\ reachable \in [Nodes -> SUBSET Servers]
  /\ stubs \in [Servers -> SUBSET Servers]
  /\ transports \in [Servers -> [Servers -> {"none", "old", "current"}]]
  /\ round \in [Servers -> [who : {"nobody", "periodic", "server"},
                            at : {"idle", "begun", "looping", "called", "dead"},
                            to_ask : SUBSET Servers]]
  /\ time \in [Clients -> Nat] /\ applied \in [Clients -> Nat]
  /\ todo \in Seq(DoSet)

(* The command under way ends with this: a join (register) or a kill (terminate). *)
Ends(op) == todo # <<>> /\ Last(todo).op = op
Target == Last(todo).to

(***************************************************************************)
(* A command registers or terminates last. Before a terminate it only      *)
(* tells members to remove the connection to the process. Who is told to   *)
(* connect is told of a live replica. Every live process is a member, but  *)
(* the one that is joining.                                                *)
(***************************************************************************)
TodoOK ==
  /\ todo # <<>> => Master \in alive
  /\ \A i \in DOMAIN todo :
       /\ todo[i].op \in {"register", "terminate"} => i = Len(todo)
       /\ todo[i].op = "addConnection" => todo[i].arg \in Servers \cap alive
  /\ Ends("register") => Target \in alive
  /\ Ends("terminate") =>
       /\ Target \in Servers
       /\ \A i \in DOMAIN todo : i # Len(todo) =>
            todo[i].op = "removeConnection" /\ todo[i].arg = Target
  /\ Master \in alive => alive \subseteq members \cup {Master}
                           \cup (IF Ends("register") THEN {Target} ELSE {})

(* The call the master waits for is the first of what is left of its command. *)
MasterOK ==
  call[Master] # NoCall =>
    /\ todo # <<>> /\ todo[1].op \in MasterOps
    /\ call[Master].to = todo[1].to /\ call[Master].op = todo[1].op
    /\ call[Master].arg = todo[1].arg

(***************************************************************************)
(* Whoever waits for an answer is alive. A replica waits for               *)
(* antiEntropyRequest, in a round; a client for read or write, in the      *)
(* request the master waits for.                                           *)
(***************************************************************************)
CallersOK ==
  /\ \A x \in Callers : call[x] # NoCall => x \in alive
  /\ \A r \in Servers :
       /\ call[r] # NoCall =>
            call[r].op = "antiEntropyRequest" /\ round[r].at \in {"called", "dead"}
       /\ round[r].at = "called" => call[r] # NoCall
  /\ \A c \in Clients :
       /\ call[c] # NoCall <=> serving[c] = "waiting"
       /\ call[c] # NoCall => call[c].op \in {"read", "write"} /\ call[c].arg = c

(* A server serves the master, which is the first of its line and waits for it. *)
MasterFirst(n) == line[n] # <<>> /\ Head(line[n]) = Master
MasterAt(n, ops) ==
  /\ MasterFirst(n)
  /\ call[Master].to = n /\ call[Master].op \in ops /\ call[Master].answer = "none"

(***************************************************************************)
(* A server thread that is in the middle of a handler serves the master:   *)
(* addConnection, a client's request, or stabilize as long as no exception *)
(* has ended it.                                                           *)
(***************************************************************************)
ServingOK ==
  /\ \A c \in Clients :
       /\ serving[c] \in {"reading", "waiting"}
       /\ serving[c] = "waiting" => MasterAt(c, Requests)
  /\ \A r \in Servers :
       /\ serving[r] # "waiting"
       /\ serving[r] # "reading" => MasterAt(r, {"addConnection"}) /\ r \in alive
       /\ round[r].who = "server" /\ round[r].at # "dead" => MasterAt(r, {"stabilize"})

(* A run of stabilize() belongs to a thread of a live process. *)
RoundsOK ==
  \A r \in Servers : round[r] # NoRound =>
    /\ round[r].who # "nobody" /\ round[r].at # "idle" /\ r \in alive
    /\ round[r].at = "begun" => round[r].to_ask = {}

(***************************************************************************)
(* Only live processes can be reached, the stubs are those of the          *)
(* reachable, and their transports are current; but for the connection     *)
(* addConnection is about to store.                                        *)
(***************************************************************************)
ConnectionsOK ==
  /\ \A n \in Nodes : reachable[n] \subseteq alive /\ (n \notin alive => reachable[n] = {})
  /\ \A r \in Servers :
       /\ serving[r] = "stub" => reachable[r] = stubs[r] \cup {call[Master].arg}
       /\ serving[r] # "stub" => reachable[r] = stubs[r]
       /\ \A s \in reachable[r] :
            \/ transports[r][s] = "current"
            \/ serving[r] \in {"stub", "transport"} /\ s = call[Master].arg

(* Node n has nothing left of id: no connection, no turn in its round, no call. *)
Removed(n, id) ==
  /\ id \notin reachable[n]
  /\ n \in Servers => id \notin round[n].to_ask /\ (call[n].to = id => Dead(n))

(***************************************************************************)
(* While a kill is under way each member has nothing left of the process,  *)
(* or the call that makes it remove the connection is still to come, or    *)
(* under way and not answered.                                             *)
(***************************************************************************)
KillOK ==
  Ends("terminate") => \A n \in members :
    \/ Removed(n, Target)
    \/ \E i \in DOMAIN todo :
         todo[i] = Disconnect(n, Target) /\ (i = 1 => call[Master].answer # "ok")

(***************************************************************************)
(* A client's time lags behind its applied writes by one at most: while    *)
(* the answer is on its way, or when the exception is on its way to the    *)
(* master or has ended it.                                                 *)
(***************************************************************************)
TimesOK ==
  \A c \in Clients :
    /\ \/ applied[c] = time[c]
       \/ /\ applied[c] = time[c] + 1
          /\ \/ Master \notin alive
             \/ call[Master].to = c /\ call[Master].answer = "exception"
             \/ call[c].op = "write" /\ call[c].answer # "none"
    /\ call[c].op = "write" /\ call[c].answer = "none" => applied[c] = time[c]
    /\ call[c].op = "write" /\ call[c].answer = "ok" => applied[c] = time[c] + 1

(* Why a caller has an open connection: four of the cases of IdleConnectionsExplained. *)
Excused(n, x) ==
  \/ call[x].to = n
  \/ x = Master /\ (Master \in alive => Ends("register") /\ Target = n)
  \/ x \in Servers /\ Dead(x)
  \/ x \in Clients /\ (Master \in alive => call[Master].answer = "exception")

LinesOK ==
  \A n \in Nodes : \A x \in Nodes \cup {Master} : Contains(line[n], x) => Excused(n, x)

(* ... and the fifth: addConnection tries the port of the replica it is about. *)
TrialsOK ==
  \A n \in Nodes : \A r \in Servers :
    Contains(line[n], Trial(r)) => serving[r] # "reading" /\ n = call[Master].arg

(* The inductive invariant. *)
ClusterInv ==
  /\ Types /\ TodoOK /\ MasterOK /\ CallersOK /\ ServingOK /\ RoundsOK
  /\ ConnectionsOK /\ KillOK /\ TimesOK /\ LinesOK /\ TrialsOK
  /\ NobodyAsksTheKilled

-----------------------------------------------------------------------------
(***************************************************************************)
(* Taking an element out of a line without repetitions: it is gone, the    *)
(* others stay, and so does the first if it is another.                    *)
(***************************************************************************)
LEMMA RemoveFirstProperties ==
  ASSUME NEW S, NEW q \in Seq(S), IsInjective(q), NEW x,
         NEW p, p = RemoveFirst(q, x)
  PROVE  /\ p \in Seq(S) /\ IsInjective(p)
         /\ \A y : Contains(p, y) <=> Contains(q, y) /\ y # x
         /\ q # <<>> /\ Head(q) # x => p # <<>> /\ Head(p) = Head(q)
<1> DEFINE I == {i \in 1 .. Len(q) : q[i] = x}
<1>1. q \in [1 .. Len(q) -> S] /\ Len(q) \in Nat
  BY LenProperties
<1>2. CASE ~ Contains(q, x)
  <2>1. p = q
    BY <1>2 DEF RemoveFirst, Contains
  <2> QED
    BY <2>1, <1>2
<1>3. CASE Contains(q, x)
  <2>1. PICK k \in 1 .. Len(q) : q[k] = x
    BY <1>3 DEF Contains
  <2>2. I = {k}
    BY <1>1, <2>1 DEF IsInjective
  <2>3. SelectInSeq(q, LAMBDA v : v = x) = Min(I)
    BY <2>2 DEF SelectInSeq
  <2>4. Min(I) = k
    BY <2>2, <2>1, <1>1 DEF Min
  <2>5. p = SubSeq(q, 1, k - 1) \o SubSeq(q, k + 1, Len(q))
    BY <2>3, <2>4, <1>3 DEF RemoveFirst, RemoveAt, Contains
  <2> HIDE DEF I
  <2> DEFINE a == SubSeq(q, 1, k - 1)
             b == SubSeq(q, k + 1, Len(q))
  <2>6. a \in Seq(S) /\ Len(a) = k - 1 /\ \A i \in 1 .. k - 1 : a[i] = q[i]
    BY <1>1, SubSeqProperties
  <2>7. b \in Seq(S) /\ Len(b) = Len(q) - k /\ \A i \in 1 .. Len(q) - k : b[i] = q[k + i]
    <3>1. k + 1 \in Int /\ Len(q) \in Int /\ \A i \in k + 1 .. Len(q) : q[i] \in S
      BY <1>1
    <3>2. /\ b \in Seq(S)
          /\ Len(b) = IF k + 1 <= Len(q) THEN Len(q) - (k + 1) + 1 ELSE 0
          /\ \A i \in 1 .. Len(q) - (k + 1) + 1 : b[i] = q[(k + 1) + i - 1]
      BY <3>1, SubSeqProperties
    <3> HIDE DEF a, b
    <3>3. Len(q) - (k + 1) + 1 = Len(q) - k /\ Len(b) = Len(q) - k
      <4>1. Len(q) \in Nat /\ k \in Nat /\ k <= Len(q)
        BY <1>1
      <4>2. Len(q) - (k + 1) + 1 = Len(q) - k /\ (~ (k + 1 <= Len(q)) => Len(q) - k = 0)
        BY <4>1
      <4> QED
        BY <4>2, <3>2
    <3>4. ASSUME NEW i \in 1 .. Len(q) - k PROVE b[i] = q[k + i]
      <4>1. k + 1 + i - 1 = k + i /\ i \in 1 .. Len(q) - (k + 1) + 1
        BY <1>1
      <4> QED
        BY <4>1, <3>2
    <3> QED
      BY <3>2, <3>3, <3>4
  <2> HIDE DEF a, b
  <2>8. /\ p \in Seq(S) /\ Len(p) = Len(q) - 1
        /\ \A i \in 1 .. Len(q) - 1 : p[i] = IF i < k THEN q[i] ELSE q[i + 1]
    <3>1. p = a \o b
      BY <2>5 DEF a, b
    <3>2. /\ p \in Seq(S) /\ Len(p) = Len(a) + Len(b)
          /\ \A i \in 1 .. Len(a) + Len(b) :
               p[i] = IF i <= Len(a) THEN a[i] ELSE b[i - Len(a)]
      <4>1. /\ a \o b \in Seq(S) /\ Len(a \o b) = Len(a) + Len(b)
            /\ \A i \in 1 .. Len(a) + Len(b) :
                 (a \o b)[i] = IF i <= Len(a) THEN a[i] ELSE b[i - Len(a)]
        BY <2>6, <2>7, ConcatProperties
      <4> QED
        BY <3>1, <4>1
    <3>3. Len(p) = Len(q) - 1
      BY <3>2, <2>6, <2>7, <1>1
    <3>4. ASSUME NEW i \in 1 .. Len(q) - 1 PROVE p[i] = IF i < k THEN q[i] ELSE q[i + 1]
      <4> i \in 1 .. Len(a) + Len(b)
        BY <2>6, <2>7, <1>1
      <4>1. CASE i < k
        <5>1. i <= Len(a) /\ i \in 1 .. k - 1
          BY <4>1, <2>6, <1>1
        <5> QED
          BY <4>1, <5>1, <3>2, <2>6
      <4>2. CASE ~ (i < k)
        <5>1. p[i] = b[i - (k - 1)]
          <6>1. ~ (i <= Len(a)) /\ i - Len(a) = i - (k - 1)
            BY <4>2, <2>6, <1>1
          <6> QED
            BY <6>1, <3>2
        <5>2. i - (k - 1) \in 1 .. Len(q) - k /\ k + (i - (k - 1)) = i + 1
          BY <4>2, <1>1
        <5> QED
          BY <4>2, <5>1, <5>2, <2>7
      <4> QED
        BY <4>1, <4>2
    <3> QED
      BY <3>2, <3>3, <3>4
  <2>9. IsInjective(p)
    <3>1. DOMAIN p = 1 .. Len(q) - 1 /\ DOMAIN q = 1 .. Len(q)
      BY <1>1, <2>8, LenProperties
    <3>2. ASSUME NEW i \in 1 .. Len(q) - 1, NEW j \in 1 .. Len(q) - 1, p[i] = p[j]
          PROVE  i = j
      <4> DEFINE ii == IF i < k THEN i ELSE i + 1
                 jj == IF j < k THEN j ELSE j + 1
      <4>1. ii \in DOMAIN q /\ jj \in DOMAIN q /\ p[i] = q[ii] /\ p[j] = q[jj]
        BY <3>1, <2>8, <1>1
      <4>2. ii = jj
        BY <4>1, <3>2 DEF IsInjective
      <4> QED
        BY <4>2, <1>1
    <3> QED
      BY <3>1, <3>2 DEF IsInjective
  <2>10. ASSUME NEW y PROVE Contains(p, y) <=> Contains(q, y) /\ y # x
    <3>1. ASSUME NEW i \in 1 .. Len(p), p[i] = y PROVE Contains(q, y) /\ y # x
      <4>1. i \in 1 .. Len(q) /\ i + 1 \in 1 .. Len(q) /\ DOMAIN q = 1 .. Len(q)
        BY <2>8, <1>1
      <4> QED
        BY <3>1, <4>1, <2>8, <2>1 DEF IsInjective, Contains
    <3>2. ASSUME NEW i \in 1 .. Len(q), q[i] = y, y # x PROVE Contains(p, y)
      <4>1. CASE i < k
        BY <4>1, <3>2, <2>8, <1>1 DEF Contains
      <4>2. CASE i > k
        <5>1. i - 1 \in 1 .. Len(p) /\ p[i - 1] = q[i]
          BY <4>2, <2>8, <1>1
        <5> QED
          BY <5>1, <3>2 DEF Contains
      <4> QED
        BY <4>1, <4>2, <3>2, <2>1, <1>1
    <3> QED
      BY <3>1, <3>2 DEF Contains
  <2>11. ASSUME q # <<>>, Head(q) # x PROVE p # <<>> /\ Head(p) = Head(q)
    <3>1. Head(q) = q[1]
      BY <2>11, HeadTailProperties
    <3>2. 1 < k
      BY <2>1, <3>1, <2>11
    <3>3. Len(p) >= 1 /\ p[1] = q[1]
      BY <3>2, <2>8, <2>1, <1>1
    <3> QED
      BY <3>1, <3>3, <2>8, HeadTailProperties, EmptySeq
  <2> QED
    BY <2>8, <2>9, <2>10, <2>11
<1> QED
  BY <1>2, <1>3

(* Adding a new element at the end of a line keeps the first. *)
LEMMA AppendFirst ==
  ASSUME NEW S, NEW q \in Seq(S), IsInjective(q), NEW x \in S, ~ Contains(q, x)
  PROVE  /\ Append(q, x) \in Seq(S) /\ IsInjective(Append(q, x))
         /\ \A y : Contains(Append(q, x), y) <=> Contains(q, y) \/ y = x
         /\ Append(q, x) # <<>>
         /\ q # <<>> => Head(Append(q, x)) = Head(q)
<1> DEFINE p == Append(q, x)
<1>1. /\ p \in Seq(S) /\ p # <<>> /\ Len(p) = Len(q) + 1 /\ Len(q) \in Nat
      /\ \A i \in 1 .. Len(q) : p[i] = q[i]
      /\ p[Len(q) + 1] = x
  BY AppendProperties, LenProperties
<1>2. DOMAIN p = 1 .. Len(q) + 1 /\ DOMAIN q = 1 .. Len(q)
  BY <1>1, LenProperties
<1> HIDE DEF p
<1>3. IsInjective(p)
  BY <1>1, <1>2 DEF IsInjective, Contains
<1>4. \A y : Contains(p, y) <=> Contains(q, y) \/ y = x
  <2> SUFFICES ASSUME NEW y PROVE Contains(p, y) <=> Contains(q, y) \/ y = x
    OBVIOUS
  <2>1. Contains(p, x)
    BY <1>1 DEF Contains
  <2>2. Contains(q, y) => Contains(p, y)
    BY <1>1 DEF Contains
  <2>3. Contains(p, y) => Contains(q, y) \/ y = x
    BY <1>1 DEF Contains
  <2> QED
    BY <2>1, <2>2, <2>3
<1>5. q # <<>> => Head(p) = Head(q)
  BY <1>1, HeadTailProperties, EmptySeq
<1> QED
  BY <1>1, <1>3, <1>4, <1>5 DEF p

(* Opening a connection: the caller is in the line, who is served stays served. *)
LEMMA OpenedLine ==
  ASSUME LineType(line), NEW x \in Callers, NEW n \in Nodes, NEW l, l = Opened(x, n)
  PROVE  /\ LineType(l)
         /\ \A m \in Nodes, y \in Callers :
              Contains(l[m], y) <=> Contains(line[m], y) \/ (m = n /\ y = x)
         /\ \A m \in Nodes : line[m] # <<>> => l[m] # <<>> /\ Head(l[m]) = Head(line[m])
<1>1. CASE Contains(line[n], x)
  BY <1>1 DEF Opened
<1>2. CASE ~ Contains(line[n], x)
  <2>1. line \in [Nodes -> Seq(Callers)] /\ line[n] \in Seq(Callers) /\ IsInjective(line[n])
    BY DEF LineType
  <2>2. PICK q : q = Append(line[n], x)
    OBVIOUS
  <2>3. /\ q \in Seq(Callers) /\ IsInjective(q)
        /\ \A y : Contains(q, y) <=> Contains(line[n], y) \/ y = x
        /\ q # <<>>
        /\ line[n] # <<>> => Head(q) = Head(line[n])
    BY <1>2, <2>1, <2>2, AppendFirst
  <2>4. l = [line EXCEPT ![n] = q]
    BY <1>2, <2>2 DEF Opened
  <2>5. l[n] = q /\ \A m \in Nodes : m # n => l[m] = line[m]
    BY <2>4, <2>1
  <2>6. LineType(l)
    BY <2>3, <2>4, <2>5 DEF LineType
  <2> QED
    BY <2>3, <2>5, <2>6
<1> QED
  BY <1>1, <1>2

(* What Closed does to the line of one server. *)
LEMMA Removal ==
  ASSUME LineType(line), NEW x, NEW n \in Nodes
  PROVE  LET q == RemoveFirst(line[n], x) IN
         /\ Closed(x, n)[n] = q /\ q \in Seq(Callers) /\ IsInjective(q)
         /\ \A y : Contains(q, y) <=> Contains(line[n], y) /\ y # x
         /\ line[n] # <<>> /\ Head(line[n]) # x => q # <<>> /\ Head(q) = Head(line[n])
<1>1. line \in [Nodes -> Seq(Callers)] /\ line[n] \in Seq(Callers) /\ IsInjective(line[n])
  BY DEF LineType
<1>2. PICK q : q = RemoveFirst(line[n], x)
  OBVIOUS
<1>3. /\ q \in Seq(Callers) /\ IsInjective(q)
      /\ \A y : Contains(q, y) <=> Contains(line[n], y) /\ y # x
      /\ line[n] # <<>> /\ Head(line[n]) # x => q # <<>> /\ Head(q) = Head(line[n])
  BY <1>1, <1>2, RemoveFirstProperties
<1>4. Closed(x, n)[n] = q
  BY <1>1, <1>2 DEF Closed
<1> QED
  BY <1>2, <1>3, <1>4

(* Closing a connection: the caller is out of the line of that server. *)
LEMMA ClosedLine ==
  ASSUME LineType(line), NEW x, NEW n \in Nodes, NEW l, l = Closed(x, n)
  PROVE  /\ LineType(l)
         /\ \A m \in Nodes, y \in Callers :
              Contains(l[m], y) <=> Contains(line[m], y) /\ ~ (m = n /\ y = x)
         /\ \A m \in Nodes : line[m] # <<>> /\ Head(line[m]) # x =>
              l[m] # <<>> /\ Head(l[m]) = Head(line[m])
<1>1. PICK q : q = RemoveFirst(line[n], x)
  OBVIOUS
<1>2. /\ l[n] = q /\ q \in Seq(Callers) /\ IsInjective(q)
      /\ \A y : Contains(q, y) <=> Contains(line[n], y) /\ y # x
      /\ line[n] # <<>> /\ Head(line[n]) # x => q # <<>> /\ Head(q) = Head(line[n])
  BY <1>1, Removal
<1>3. /\ line \in [Nodes -> Seq(Callers)] /\ l = [line EXCEPT ![n] = q]
      /\ \A m \in Nodes : m # n => l[m] = line[m]
  BY <1>1 DEF LineType, Closed
<1>4. LineType(l)
  BY <1>2, <1>3 DEF LineType
<1> QED
  BY <1>2, <1>3, <1>4

(* The lines when a process has ended: its own and those of N are gone. *)
Cleared(x, N) == [n \in Nodes |-> IF n \in N THEN <<>> ELSE Closed(x, n)[n]]

(* ... are in their types, and hold who they held before but for that. *)
LEMMA AllClosed ==
  ASSUME LineType(line), NEW x, NEW N, NEW l, l = Cleared(x, N)
  PROVE  /\ LineType(l)
         /\ \A m \in Nodes, y \in Callers :
              Contains(l[m], y) <=> Contains(line[m], y) /\ y # x /\ m \notin N
<1>1. ASSUME NEW m \in Nodes
      PROVE  /\ l[m] \in Seq(Callers) /\ IsInjective(l[m])
             /\ \A y \in Callers :
                  Contains(l[m], y) <=> Contains(line[m], y) /\ y # x /\ m \notin N
  <2>1. CASE m \in N
    <3>1. l[m] = <<>>
      BY <2>1 DEF Cleared
    <3>2. Len(<<>>) = 0 /\ <<>> \in Seq(Callers) /\ DOMAIN <<>> = {}
      BY EmptySeq
    <3> QED
      BY <2>1, <3>1, <3>2 DEF IsInjective, Contains
  <2>2. CASE m \notin N
    <3>1. PICK q : q = RemoveFirst(line[m], x)
      OBVIOUS
    <3>2. /\ Closed(x, m)[m] = q /\ q \in Seq(Callers) /\ IsInjective(q)
          /\ \A y : Contains(q, y) <=> Contains(line[m], y) /\ y # x
      BY <3>1, Removal
    <3> QED
      BY <2>2, <3>2 DEF Cleared
  <2> QED
    BY <2>1, <2>2
<1> QED
  BY <1>1 DEF LineType, Cleared

-----------------------------------------------------------------------------

(* The caller x that the server of n is serving with op, and what op tells of x. *)
Asked(x, n, op) ==
  /\ x = Head(line[n]) /\ n \in alive /\ line[n] # <<>> /\ Contains(line[n], x)
  /\ call[x] # NoCall /\ call[x].to = n /\ call[x].op = op /\ call[x].answer = "none"
  /\ op \in MasterOps => x = Master /\ MasterAt(n, {op})
  /\ op = "antiEntropyRequest" => x \in Servers
  /\ op \in {"read", "write"} => x \in Clients /\ call[x].arg = x

(***************************************************************************)
(* Whoever is served waits for that very answer; each kind of call has one *)
(* kind of caller.                                                         *)
(***************************************************************************)
LEMMA Served ==
  ASSUME ClusterInv, NEW n \in Nodes, NEW op, Serves(n, op)
  PROVE  \E x \in Callers : Asked(x, n, op)
<1> DEFINE x == Head(line[n])
<1>1. /\ n \in alive /\ line[n] # <<>>
      /\ call[x].to = n /\ call[x].op = op /\ call[x].answer = "none"
  BY DEF Serves
<1>2. x \in Callers /\ Contains(line[n], x)
  <2>1. line[n] \in Seq(Callers)
    BY DEF ClusterInv, Types, LineType
  <2>2. Len(line[n]) \in Nat \ {0} /\ x = line[n][1]
    BY <1>1, <2>1, EmptySeq, HeadTailProperties
  <2> QED
    BY <1>1, <2>1, <2>2, HeadTailProperties DEF Contains
<1>3. call[x] # NoCall
  BY <1>1, ClusterAssumption DEF NoCall
<1>4. x \in Servers \/ x \in Clients \/ x = Master
  BY <1>2, <1>3 DEF ClusterInv, CallersOK, Types, Nodes
<1>5. x \in Servers => op = "antiEntropyRequest"
  BY <1>1, <1>3 DEF ClusterInv, CallersOK
<1>6. x \in Clients => op \in {"read", "write"} /\ call[x].arg = x
  BY <1>1, <1>3 DEF ClusterInv, CallersOK
<1>7. x = Master => op \in MasterOps
  BY <1>1, <1>3 DEF ClusterInv, MasterOK
<1>8. op \in MasterOps => x = Master
  BY <1>4, <1>5, <1>6 DEF MasterOps
<1>9. op \in MasterOps => MasterAt(n, {op})
  BY <1>1, <1>8 DEF MasterAt, MasterFirst
<1> QED
  <2>1. Asked(x, n, op)
    BY <1>1, <1>2, <1>3, <1>4, <1>5, <1>6, <1>7, <1>8, <1>9 DEF MasterOps, Asked
  <2> QED
    BY <2>1, <1>2

(* When nobody is in addConnection there is no trial in any line. *)
LEMMA NoTrials ==
  ASSUME TrialsOK, \A r \in Servers : serving[r] = "reading",
         \A m \in Nodes, y \in Callers : Contains(line'[m], y) =>
           Contains(line[m], y) \/ y \in Nodes \cup {Master}
  PROVE  TrialsOK'
<1> SUFFICES ASSUME NEW m \in Nodes, NEW p \in Servers, Contains(line'[m], Trial(p))
             PROVE  FALSE
  BY DEF TrialsOK
<1>1. Trial(p) \in Callers /\ Trial(p) \notin Nodes \cup {Master}
  BY ClusterAssumption DEF Callers, Nodes
<1>2. Contains(line[m], Trial(p))
  BY <1>1
<1> QED
  BY <1>1, <1>2 DEF TrialsOK

(* A step in which no handler ends and no trial begins. *)
LEMMA TrialsKept ==
  ASSUME TrialsOK, call'[Master].arg = call[Master].arg,
         \A r \in Servers : serving'[r] = serving[r],
         \A m \in Nodes, y \in Callers : Contains(line'[m], y) =>
           Contains(line[m], y) \/ y \in Nodes \cup {Master}
  PROVE  TrialsOK'
<1> SUFFICES ASSUME NEW m \in Nodes, NEW p \in Servers, Contains(line'[m], Trial(p))
             PROVE  serving'[p] # "reading" /\ m = call'[Master].arg
  BY DEF TrialsOK
<1>1. Trial(p) \in Callers /\ Trial(p) \notin Nodes \cup {Master}
  BY ClusterAssumption DEF Callers
<1>2. Contains(line[m], Trial(p))
  BY <1>1
<1> QED
  BY <1>2 DEF TrialsOK

(* An answer changes the answer of one call. *)
LEMMA AnsweredCall ==
  ASSUME call \in [Callers -> CallSet], NEW x \in Callers, call[x] # NoCall,
         NEW result \in {"ok", "exception"},
         NEW calls, calls = [call EXCEPT ![x].answer = result]
  PROVE  /\ calls \in [Callers -> CallSet]
         /\ calls[x] # NoCall /\ calls[x].to = call[x].to /\ calls[x].op = call[x].op
         /\ calls[x].arg = call[x].arg /\ calls[x].answer = result
         /\ \A y \in Callers : y # x => calls[y] = call[y]
<1>1. PICK c : c = [call[x] EXCEPT !.answer = result]
  OBVIOUS
<1>2. calls = [call EXCEPT ![x] = c]
  BY <1>1
<1>3. call[x] \in [to : Nodes, op : MasterOps \cup {"antiEntropyRequest", "read", "write"},
                   arg : Nodes \cup Trials, answer : {"none", "ok", "exception"}]
  BY DEF CallSet
<1>4. /\ c \in [to : Nodes, op : MasterOps \cup {"antiEntropyRequest", "read", "write"},
                arg : Nodes \cup Trials, answer : {"none", "ok", "exception"}]
      /\ c.to = call[x].to /\ c.op = call[x].op /\ c.arg = call[x].arg /\ c.answer = result
  BY <1>1, <1>3
<1>5. c # NoCall
  BY <1>4, ClusterAssumption DEF NoCall
<1> QED
  BY <1>2, <1>4, <1>5 DEF CallSet

-----------------------------------------------------------------------------
(* TodoOK speaks of the variables of the master only. *)
LEMMA TodoKept ==
  ASSUME TodoOK, UNCHANGED master_vars
  PROVE  TodoOK'
BY DEF TodoOK, Ends, Target, master_vars

(***************************************************************************)
(* antiEntropyRequest, read and write touch no connection. write is        *)
(* counted, and until the client has taken the answer its time may lag     *)
(* behind.                                                                 *)
(***************************************************************************)
LEMMA NodeAnswered ==
  ASSUME ClusterInv, NEW r \in Servers, NEW op \in {"antiEntropyRequest", "read", "write"},
         Serves(r, op), NEW result \in {"ok", "exception"}, Answer(r, result),
         UNCHANGED <<line, connection_vars, round, time, master_vars>>,
         applied' = IF op = "write" THEN [applied EXCEPT ![Argument(r)] = @ + 1] ELSE applied
  PROVE  ClusterInv'
<1> r \in Nodes
  BY DEF Nodes
<1>1. PICK x \in Callers : Asked(x, r, op)
  BY Served
<1>2. /\ call[x] # NoCall /\ call[x].to = r /\ call[x].op = op /\ call[x].answer = "none"
      /\ x # Master
      /\ op = "antiEntropyRequest" => x \in Servers
      /\ op \in {"read", "write"} => x \in Clients /\ call[x].arg = x
      /\ x = Head(line[r])
  <2>1. /\ call[x] # NoCall /\ call[x].to = r /\ call[x].op = op /\ call[x].answer = "none"
        /\ op = "antiEntropyRequest" => x \in Servers
        /\ op \in {"read", "write"} => x \in Clients /\ call[x].arg = x
        /\ x = Head(line[r])
    BY <1>1 DEF Asked
  <2> QED
    BY <2>1, ClusterAssumption DEF Nodes
<1>3. /\ call' \in [Callers -> CallSet]
      /\ call'[x] # NoCall /\ call'[x].to = call[x].to /\ call'[x].op = call[x].op
      /\ call'[x].arg = call[x].arg /\ call'[x].answer = result
      /\ \A y \in Callers : y # x => call'[y] = call[y]
  <2>1. call \in [Callers -> CallSet]
    BY DEF ClusterInv, Types
  <2>2. call' = [call EXCEPT ![x].answer = result]
    BY <1>2 DEF Answer
  <2>3. call[x] # NoCall
    BY <1>2
  <2> QED
    BY <2>1, <2>2, <2>3, AnsweredCall
<1>4. /\ call'[Master] = call[Master]
      /\ serving' = [serving EXCEPT ![r] = "reading"]
      /\ serving \in [Nodes -> Threads]
  <2>1. serving \in [Nodes -> Threads]
    BY DEF ClusterInv, Types
  <2> QED
    BY <2>1, <1>2, <1>3 DEF Answer, Callers
<1>5. serving[r] = "reading"
  BY <1>1, <1>2 DEF ClusterInv, ServingOK, MasterAt, MasterFirst
<1>6. serving' = serving
  BY <1>4, <1>5
<1>7. /\ UNCHANGED <<line, reachable, stubs, transports, round, time, alive, todo, members>>
  BY DEF connection_vars, master_vars
<1>8. /\ applied' \in [Clients -> Nat]
      /\ \A c \in Clients :
           applied'[c] = IF op = "write" /\ c = x THEN applied[c] + 1 ELSE applied[c]
  <2>1. applied \in [Clients -> Nat]
    BY DEF ClusterInv, Types
  <2> QED
    BY <2>1, <1>1, <1>2 DEF Argument
<1>9. Types'
  BY <1>3, <1>6, <1>7, <1>8 DEF ClusterInv, Types
<1>10. TodoOK'
  BY TodoKept DEF ClusterInv
<1>11. MasterOK'
  BY <1>4, <1>7 DEF ClusterInv, MasterOK
<1>12. CallersOK'
  BY <1>2, <1>3, <1>6, <1>7 DEF ClusterInv, CallersOK, Callers, Nodes
<1>13. ServingOK'
  BY <1>4, <1>6, <1>7 DEF ClusterInv, ServingOK, MasterAt, MasterFirst
<1>14. RoundsOK'
  BY <1>7 DEF ClusterInv, RoundsOK
<1>15. ConnectionsOK'
  BY <1>4, <1>6, <1>7 DEF ClusterInv, ConnectionsOK
<1>16. KillOK'
  BY <1>2, <1>3, <1>4, <1>7 DEF ClusterInv, KillOK, Removed, Dead, Ends, Target, Callers, Nodes
<1>17. TimesOK'
  <2>1. applied \in [Clients -> Nat] /\ time \in [Clients -> Nat]
    BY DEF ClusterInv, Types
  <2> QED
    BY <2>1, <1>2, <1>3, <1>4, <1>7, <1>8 DEF ClusterInv, TimesOK, Callers, Nodes
<1>18. LinesOK'
  BY <1>2, <1>3, <1>4, <1>7 DEF ClusterInv, LinesOK, Excused, Dead, Ends, Target, Callers, Nodes
<1>19. NobodyAsksTheKilled'
  BY <1>2, <1>3, <1>4, <1>7 DEF ClusterInv, NobodyAsksTheKilled, Dead, Callers, Nodes
<1>20. TrialsOK'
  BY <1>4, <1>6, <1>7, TrialsKept DEF ClusterInv, Nodes
<1> QED
  BY <1>9, <1>10, <1>11, <1>12, <1>13, <1>14, <1>15, <1>16, <1>17, <1>18, <1>19, <1>20 DEF ClusterInv

-----------------------------------------------------------------------------
(***************************************************************************)
(* The step in which the server of n answers the master's call: what was   *)
(* the case before (nobody else is in a handler the master waits for) and  *)
(* what is the case after it.                                              *)
(***************************************************************************)
Replied(n, op, result) ==
  /\ Master \in alive /\ todo # <<>>
  /\ call[Master] # NoCall /\ call[Master].to = n /\ call[Master].op = op
  /\ call[Master].answer = "none"
  /\ todo[1].to = n /\ todo[1].op = op /\ todo[1].arg = call[Master].arg
  /\ \A m \in Nodes : m # n => serving[m] = "reading"
  /\ \A r \in Servers : round[r].who = "server" /\ round[r].at # "dead" =>
       r = n /\ op = "stabilize"
  /\ op # "addConnection" => \A r \in Servers : serving[r] = "reading"
  /\ \A c \in Clients : call[c] = NoCall
  /\ call' \in [Callers -> CallSet]
  /\ call'[Master] # NoCall /\ call'[Master].to = n /\ call'[Master].op = op
  /\ call'[Master].arg = call[Master].arg /\ call'[Master].answer = result
  /\ \A y \in Callers : y # Master => call'[y] = call[y]
  /\ serving' \in [Nodes -> Threads]
  /\ \A m \in Nodes : serving'[m] = "reading"

(***************************************************************************)
(* A handler at which the master is, and which is not a client in the      *)
(* middle of a request.                                                    *)
(***************************************************************************)
LEMMA MasterReplied ==
  ASSUME ClusterInv, NEW n \in Nodes,
         NEW op \in MasterOps, MasterAt(n, {op}), serving[n] # "waiting",
         NEW result \in {"ok", "exception"}, Answer(n, result)
  PROVE  Replied(n, op, result)
<1>1. /\ Head(line[n]) = Master /\ call[Master].to = n /\ call[Master].op = op
      /\ call[Master].answer = "none" /\ n # Master /\ Master \in Callers
  BY ClusterAssumption DEF MasterAt, MasterFirst, Callers
<1>2. call[Master] # NoCall
  BY <1>1 DEF NoCall
<1>3. /\ Master \in alive /\ todo # <<>>
      /\ todo[1].to = n /\ todo[1].op = op /\ todo[1].arg = call[Master].arg
  BY <1>1, <1>2 DEF ClusterInv, MasterOK, CallersOK
<1>4. /\ call \in [Callers -> CallSet]
      /\ serving \in [Nodes -> Threads]
  BY DEF ClusterInv, Types
<1>5. \A m \in Nodes : m # n => serving[m] = "reading"
  BY <1>1, <1>4 DEF ClusterInv, ServingOK, MasterAt, Nodes
<1>6. \A r \in Servers : round[r].who = "server" /\ round[r].at # "dead" =>
           r = n /\ op = "stabilize"
  BY <1>1 DEF ClusterInv, ServingOK, MasterAt
<1>7. \A c \in Clients : call[c] = NoCall
  BY <1>5 DEF ClusterInv, CallersOK, Nodes
<1>8. /\ call' \in [Callers -> CallSet]
      /\ call'[Master] # NoCall /\ call'[Master].to = n /\ call'[Master].op = op
      /\ call'[Master].arg = call[Master].arg /\ call'[Master].answer = result
      /\ \A y \in Callers : y # Master => call'[y] = call[y]
  <2>1. call' = [call EXCEPT ![Master].answer = result]
    BY <1>1 DEF Answer
  <2>2. /\ call' \in [Callers -> CallSet]
        /\ call'[Master] # NoCall /\ call'[Master].to = call[Master].to
        /\ call'[Master].op = call[Master].op
        /\ call'[Master].arg = call[Master].arg /\ call'[Master].answer = result
        /\ \A y \in Callers : y # Master => call'[y] = call[y]
    BY <1>1, <1>2, <1>4, <2>1, AnsweredCall
  <2> QED
    BY <1>1, <2>2
<1>9. /\ serving' \in [Nodes -> Threads]
      /\ \A m \in Nodes : serving'[m] = "reading"
  BY <1>4, <1>5 DEF Answer, Threads
<1>10. op # "addConnection" => \A r \in Servers : serving[r] = "reading"
  BY <1>1 DEF ClusterInv, ServingOK, MasterAt
<1> QED
  BY <1>1, <1>2, <1>3, <1>5, <1>6, <1>7, <1>8, <1>9, <1>10 DEF Replied

(* setID and getStore. *)
LEMMA SimpleHandlerInv ==
  ASSUME ClusterInv, NEW n \in Nodes, SimpleHandler(n)
  PROVE  ClusterInv'
<1>1. PICK op \in {"setID", "getStore"} : Serves(n, op)
  BY DEF SimpleHandler
<1>2. /\ op \in MasterOps /\ op \notin Requests
      /\ op \notin {"addConnection", "removeConnection", "stabilize"}
  BY DEF MasterOps, Requests
<1>3. MasterAt(n, {op})
  BY <1>1, <1>2, Served DEF Asked
<1>4. serving[n] = "reading"
  BY <1>2, <1>3 DEF ClusterInv, ServingOK, MasterAt, Nodes
<1>5. Replied(n, op, "ok")
  BY <1>2, <1>3, <1>4, MasterReplied DEF SimpleHandler
<1>6. UNCHANGED <<line, reachable, stubs, transports, round, time, applied, alive, todo,
                  members>>
  BY DEF SimpleHandler, connection_vars, client_vars, master_vars
<1>7. Types'
  BY <1>5, <1>6 DEF ClusterInv, Types, Replied
<1>8. TodoOK'
  BY <1>6 DEF ClusterInv, TodoOK, Ends, Target
<1>9. MasterOK'
  BY <1>2, <1>5, <1>6 DEF MasterOK, Replied
<1>10. CallersOK'
  BY <1>5, <1>6 DEF ClusterInv, CallersOK, Replied, Callers, Nodes
<1>11. ServingOK'
  BY <1>2, <1>5, <1>6 DEF ClusterInv, ServingOK, Replied, Nodes
<1>12. RoundsOK'
  BY <1>6 DEF ClusterInv, RoundsOK
<1>13. ConnectionsOK'
  BY <1>4, <1>5, <1>6 DEF ClusterInv, ConnectionsOK, Replied, Nodes
<1>14. KillOK'
  BY <1>2, <1>5, <1>6, ClusterAssumption
     DEF ClusterInv, KillOK, Removed, Dead, Ends, Target, Disconnect, Do, Replied, Callers,
         Nodes
<1>15. TimesOK'
  BY <1>5, <1>6, ClusterAssumption DEF ClusterInv, TimesOK, Replied, Callers, Nodes
<1>16. LinesOK'
  BY <1>5, <1>6 DEF ClusterInv, LinesOK, Excused, Dead, Ends, Target, Replied, Callers, Nodes
<1>17. NobodyAsksTheKilled'
  BY <1>5, <1>6, ClusterAssumption
     DEF ClusterInv, NobodyAsksTheKilled, Dead, Replied, Callers, Nodes
<1>18. TrialsOK'
  BY <1>5, <1>6 DEF ClusterInv, TrialsOK, Replied, Callers, Nodes
<1> QED
  BY <1>7, <1>8, <1>9, <1>10, <1>11, <1>12, <1>13, <1>14, <1>15, <1>16, <1>17, <1>18 DEF ClusterInv

-----------------------------------------------------------------------------
(* The replica that addConnection is about is alive. *)
LEMMA Arguments ==
  ASSUME ClusterInv, call[Master].op = "addConnection"
  PROVE  call[Master].arg \in Servers \cap alive
<1>1. call[Master] # NoCall
  BY DEF NoCall
<1>2. todo # <<>> /\ todo[1].op = "addConnection" /\ todo[1].arg = call[Master].arg
  BY <1>1 DEF ClusterInv, MasterOK
<1>3. 1 \in DOMAIN todo
  BY <1>2, LenProperties, EmptySeq DEF ClusterInv, Types
<1> QED
  BY <1>2, <1>3 DEF ClusterInv, TodoOK

(* Who is in addConnection, is in it for the master. *)
LEMMA Adding ==
  ASSUME ClusterInv, NEW r \in Servers, MasterAt(r, {"addConnection"})
  PROVE  /\ Head(line[r]) = Master /\ call[Master].to = r /\ call[Master].op = "addConnection"
         /\ call[Master].answer = "none" /\ Argument(r) = call[Master].arg
         /\ call[Master].arg \in Servers \cap alive
         /\ ~ Ends("terminate")
<1>1. /\ Head(line[r]) = Master /\ call[Master].to = r /\ call[Master].op = "addConnection"
      /\ call[Master].answer = "none" /\ Argument(r) = call[Master].arg
      /\ call[Master].arg \in Servers \cap alive
  BY Arguments DEF MasterAt, MasterFirst, Argument
<1>2. todo[1].op = "addConnection" /\ todo # <<>> /\ 1 \in DOMAIN todo
  <2>1. call[Master] # NoCall
    BY <1>1 DEF NoCall
  <2> QED
    BY <1>1, <2>1, LenProperties, EmptySeq DEF ClusterInv, MasterOK, Types
<1>3. ~ Ends("terminate")
  BY <1>2, LenProperties DEF ClusterInv, Types, TodoOK, Ends, Last
<1> QED
  BY <1>1, <1>3

(***************************************************************************)
(* A step of addConnection to its next place, before the answer: the trial *)
(* may join a line, the connection to that one peer may change.            *)
(***************************************************************************)
AddingStep(r, place) ==
  /\ MasterAt(r, {"addConnection"}) /\ r \in alive
  /\ serving' = [serving EXCEPT ![r] = place]
  /\ LineType(line')
  /\ \A m \in Nodes, y \in Callers : Contains(line'[m], y) =>
       Contains(line[m], y) \/ (y = Trial(r) /\ m = call[Master].arg)
  /\ \A m \in Nodes : line[m] # <<>> => line'[m] # <<>> /\ Head(line'[m]) = Head(line[m])
  /\ reachable' \in [Nodes -> SUBSET Servers] /\ stubs' \in [Servers -> SUBSET Servers]
  /\ transports' \in [Servers -> [Servers -> {"none", "old", "current"}]]
  /\ \A n \in Nodes : n # r => reachable'[n] = reachable[n]
  /\ \A p \in Servers : p # r => stubs'[p] = stubs[p] /\ transports'[p] = transports[p]
  /\ reachable'[r] \subseteq reachable[r] \cup {call[Master].arg}
  /\ reachable'[r] = IF place = "stub" THEN stubs'[r] \cup {call[Master].arg} ELSE stubs'[r]
  /\ \A s \in reachable'[r] : \/ transports'[r][s] = "current"
                              \/ place \in {"stub", "transport"} /\ s = call[Master].arg
  /\ UNCHANGED <<call, round, client_vars, master_vars>>

LEMMA AddingStepInv ==
  ASSUME ClusterInv, NEW r \in Servers,
         NEW place \in {"trying", "stub", "transport", "closing"}, AddingStep(r, place)
  PROVE  ClusterInv'
<1> r \in Nodes
  BY DEF Nodes
<1>1. MasterAt(r, {"addConnection"})
  BY DEF AddingStep
<1>2. /\ Head(line[r]) = Master /\ call[Master].to = r
      /\ call[Master].arg \in Servers \cap alive /\ ~ Ends("terminate")
  BY <1>1, Adding
<1>3. UNCHANGED <<call, round, time, applied, alive, todo, members>>
  BY DEF AddingStep, client_vars, master_vars
<1>4. /\ serving' \in [Nodes -> Threads]
      /\ serving'[r] = place /\ \A n \in Nodes : n # r => serving'[n] = serving[n]
  BY DEF AddingStep, ClusterInv, Types, Threads
<1>5. Types'
  BY <1>3, <1>4 DEF AddingStep, ClusterInv, Types
<1>6. TodoOK'
  BY <1>3 DEF ClusterInv, TodoOK, Ends, Target
<1>7. MasterOK'
  BY <1>3 DEF ClusterInv, MasterOK
<1>8. CallersOK'
  BY <1>3, <1>4, ClusterAssumption DEF ClusterInv, CallersOK, Nodes
<1>9. ServingOK'
  BY <1>1, <1>3, <1>4, ClusterAssumption
     DEF AddingStep, ClusterInv, ServingOK, MasterAt, MasterFirst, Nodes
<1>10. RoundsOK'
  BY <1>3 DEF ClusterInv, RoundsOK
<1>11. ConnectionsOK'
  <2>1. ASSUME NEW n \in Nodes
        PROVE  reachable'[n] \subseteq alive /\ (n \notin alive => reachable'[n] = {})
    BY <1>2 DEF AddingStep, ClusterInv, ConnectionsOK
  <2>2. ASSUME NEW p \in Servers, p # r
        PROVE  /\ p \in Nodes /\ serving'[p] = serving[p] /\ reachable'[p] = reachable[p]
               /\ stubs'[p] = stubs[p] /\ transports'[p] = transports[p]
    BY <1>4, <2>2 DEF AddingStep, Nodes
  <2>3. /\ place = "stub" => reachable'[r] = stubs'[r] \cup {call[Master].arg}
        /\ place # "stub" => reachable'[r] = stubs'[r]
        /\ \A s \in reachable'[r] : \/ transports'[r][s] = "current"
                                    \/ place \in {"stub", "transport"} /\ s = call[Master].arg
    BY DEF AddingStep
  <2> QED
    BY <1>3, <1>4, <2>1, <2>2, <2>3 DEF ClusterInv, ConnectionsOK
<1>12. KillOK'
  BY <1>2, <1>3 DEF KillOK, Ends
<1>13. TimesOK'
  BY <1>3 DEF ClusterInv, TimesOK
<1>14. LinesOK'
  <2> SUFFICES ASSUME NEW m \in Nodes, NEW y \in Nodes \cup {Master}, Contains(line'[m], y)
               PROVE  Excused(m, y)'
    BY DEF LinesOK
  <2> y \in Callers
    BY DEF Callers
  <2>1. Contains(line[m], y)
    BY ClusterAssumption DEF AddingStep, Callers
  <2> QED
    BY <1>3, <2>1 DEF ClusterInv, LinesOK, Excused, Dead, Ends, Target
<1>15. NobodyAsksTheKilled'
  BY <1>3 DEF ClusterInv, NobodyAsksTheKilled, Dead
<1>16. TrialsOK'
  <2> SUFFICES ASSUME NEW m \in Nodes, NEW p \in Servers, Contains(line'[m], Trial(p))
               PROVE  serving'[p] # "reading" /\ m = call[Master].arg
    BY <1>3 DEF TrialsOK
  <2>1. Contains(line[m], Trial(p)) \/ (Trial(p) = Trial(r) /\ m = call[Master].arg)
    BY DEF AddingStep, Callers
  <2>2. Trial(p) = Trial(r) => p = r
    BY DEF Trial
  <2> QED
    BY <1>4, <2>1, <2>2 DEF ClusterInv, TrialsOK, Nodes
<1> QED
  BY <1>5, <1>6, <1>7, <1>8, <1>9, <1>10, <1>11, <1>12, <1>13, <1>14, <1>15, <1>16
     DEF ClusterInv

(* What such a step knows before it: its place, and the connections of the replica. *)
LEMMA AddingFrom ==
  ASSUME ClusterInv, NEW r \in Servers, MasterAt(r, {"addConnection"})
  PROVE  /\ r \in Nodes /\ Argument(r) = call[Master].arg
         /\ call[Master].arg \in Servers /\ call[Master].arg \in Nodes
         /\ LineType(line) /\ serving \in [Nodes -> Threads]
         /\ reachable \in [Nodes -> SUBSET Servers] /\ stubs \in [Servers -> SUBSET Servers]
         /\ transports \in [Servers -> [Servers -> {"none", "old", "current"}]]
         /\ reachable[r] = IF serving[r] = "stub" THEN stubs[r] \cup {call[Master].arg}
                           ELSE stubs[r]
         /\ \A s \in reachable[r] : \/ transports[r][s] = "current"
                                    \/ serving[r] \in {"stub", "transport"} /\ s = call[Master].arg
BY Adding DEF ClusterInv, Types, ConnectionsOK, Nodes

(* addConnection, first: the connection that tries the port. *)
LEMMA TryConnectionInv ==
  ASSUME ClusterInv, NEW r \in Servers, TryConnection(r)
  PROVE  ClusterInv'
<1>1. MasterAt(r, {"addConnection"}) /\ serving[r] = "reading" /\ r \in alive
  <2>1. r \in Nodes
    BY DEF Nodes
  <2> QED
    BY <2>1, Served DEF TryConnection, Asked, MasterOps
<1> DEFINE s == call[Master].arg
<1>2. /\ LineType(line') /\ UNCHANGED connection_vars
      /\ \A m \in Nodes, y \in Callers :
           Contains(line'[m], y) <=> Contains(line[m], y) \/ (m = s /\ y = Trial(r))
      /\ \A m \in Nodes : line[m] # <<>> => line'[m] # <<>> /\ Head(line'[m]) = Head(line[m])
  <2>1. line' = Opened(Trial(r), s) /\ UNCHANGED connection_vars
    BY <1>1, AddingFrom DEF TryConnection
  <2>2. Trial(r) \in Callers /\ s \in Nodes /\ LineType(line)
    BY <1>1, AddingFrom DEF Callers
  <2> QED
    BY <2>1, <2>2, OpenedLine
<1>3. AddingStep(r, "trying")
  BY <1>1, <1>2, AddingFrom DEF AddingStep, TryConnection, connection_vars
<1> QED
  BY <1>3, AddingStepInv

(* ... second: with the lock, the replica is reachable and has no stub yet. *)
LEMMA AddReachableInv ==
  ASSUME ClusterInv, NEW r \in Servers, AddReachable(r)
  PROVE  ClusterInv'
<1>1. MasterAt(r, {"addConnection"}) /\ serving[r] = "trying" /\ r \in alive
  BY DEF AddReachable, ClusterInv, ServingOK
<1> DEFINE s == call[Master].arg
<1>2. /\ reachable' \in [Nodes -> SUBSET Servers]
      /\ reachable'[r] = reachable[r] \cup {s}
      /\ \A n \in Nodes : n # r => reachable'[n] = reachable[n]
      /\ UNCHANGED <<line, call, stubs, transports, round, client_vars, master_vars>>
  BY <1>1, AddingFrom DEF AddReachable
<1>3. AddingStep(r, "stub")
  BY <1>1, <1>2, AddingFrom DEF AddingStep, AddReachable
<1> QED
  BY <1>3, AddingStepInv

(* ... third: the stub; a transport there was is not that stub's. *)
LEMMA AddStubInv ==
  ASSUME ClusterInv, NEW r \in Servers, AddStub(r)
  PROVE  ClusterInv'
<1>1. MasterAt(r, {"addConnection"}) /\ serving[r] = "stub" /\ r \in alive
  BY DEF AddStub, ClusterInv, ServingOK
<1> DEFINE s == call[Master].arg
<1>2. /\ stubs' \in [Servers -> SUBSET Servers]
      /\ stubs'[r] = stubs[r] \cup {s}
      /\ \A p \in Servers : p # r => stubs'[p] = stubs[p]
      /\ UNCHANGED <<line, call, reachable, round, client_vars, master_vars>>
  BY <1>1, AddingFrom DEF AddStub
<1>3. /\ transports' \in [Servers -> [Servers -> {"none", "old", "current"}]]
      /\ \A p \in Servers : p # r => transports'[p] = transports[p]
      /\ \A q \in Servers : q # s => transports'[r][q] = transports[r][q]
  <2>1. PICK v \in {"none", "old", "current"} : transports' = [transports EXCEPT ![r][s] = v]
    BY <1>1, AddingFrom DEF AddStub
  <2> QED
    BY <1>1, <2>1, AddingFrom
<1>4. AddingStep(r, "transport")
  BY <1>1, <1>2, <1>3, AddingFrom DEF AddingStep, AddStub
<1> QED
  BY <1>4, AddingStepInv

(* ... fourth: the transport. *)
LEMMA AddTransportInv ==
  ASSUME ClusterInv, NEW r \in Servers, AddTransport(r)
  PROVE  ClusterInv'
<1>1. MasterAt(r, {"addConnection"}) /\ serving[r] = "transport" /\ r \in alive
  BY DEF AddTransport, ClusterInv, ServingOK
<1> DEFINE s == call[Master].arg
<1>2. /\ transports' \in [Servers -> [Servers -> {"none", "old", "current"}]]
      /\ transports'[r][s] = "current"
      /\ \A p \in Servers : p # r => transports'[p] = transports[p]
      /\ \A q \in Servers : q # s => transports'[r][q] = transports[r][q]
      /\ UNCHANGED <<line, call, reachable, stubs, round, client_vars, master_vars>>
  BY <1>1, AddingFrom DEF AddTransport
<1>3. /\ reachable[r] = stubs[r] /\ \A q \in reachable[r] : transports'[r][q] = "current"
      /\ s \in Servers /\ LineType(line) /\ r \in Nodes
      /\ reachable \in [Nodes -> SUBSET Servers] /\ stubs \in [Servers -> SUBSET Servers]
  BY <1>1, <1>2, AddingFrom
<1>4. serving' = [serving EXCEPT ![r] = "closing"]
  BY DEF AddTransport
<1>5. AddingStep(r, "closing")
  BY <1>1, <1>2, <1>3, <1>4 DEF AddingStep
<1> QED
  BY <1>5, AddingStepInv

(* ... last: the connection is closed, and the answer given. *)
LEMMA EndTrialInv ==
  ASSUME ClusterInv, NEW r \in Servers, EndTrial(r)
  PROVE  ClusterInv'
<1>1. MasterAt(r, {"addConnection"}) /\ serving[r] = "closing" /\ r \in Nodes
  BY DEF EndTrial, ClusterInv, ServingOK, Nodes
<1>2. /\ Head(line[r]) = Master /\ Argument(r) = call[Master].arg
      /\ call[Master].arg \in Nodes /\ LineType(line)
  BY <1>1, Adding DEF ClusterInv, Types, Nodes
<1>3. Replied(r, "addConnection", "ok")
  BY <1>1, MasterReplied DEF EndTrial, MasterOps
<1>4. UNCHANGED <<reachable, stubs, transports, round, time, applied, alive, todo, members>>
  BY DEF EndTrial, connection_vars, client_vars, master_vars
<1>5. /\ LineType(line')
      /\ \A m \in Nodes, y \in Callers :
           Contains(line'[m], y) <=>
             Contains(line[m], y) /\ ~ (m = call[Master].arg /\ y = Trial(r))
  <2>1. line' = Closed(Trial(r), call[Master].arg)
    BY <1>2 DEF EndTrial
  <2> QED
    BY <1>2, <2>1, ClosedLine
<1>6. Types'
  BY <1>3, <1>4, <1>5 DEF ClusterInv, Types, Replied
<1>7. TodoOK'
  BY <1>4 DEF ClusterInv, TodoOK, Ends, Target
<1>8. MasterOK'
  BY <1>3, <1>4 DEF MasterOK, Replied, MasterOps
<1>9. CallersOK'
  BY <1>3, <1>4 DEF ClusterInv, CallersOK, Replied, Callers, Nodes
<1>10. ServingOK'
  BY <1>3, <1>4 DEF ClusterInv, ServingOK, Replied, Nodes
<1>11. RoundsOK'
  BY <1>4 DEF ClusterInv, RoundsOK
<1>12. ConnectionsOK'
  <2>1. \A p \in Servers : serving[p] \notin {"stub", "transport"}
    BY <1>1, <1>3 DEF Replied, Nodes
  <2> QED
    BY <1>3, <1>4, <2>1 DEF ClusterInv, ConnectionsOK, Replied, Nodes
<1>13. KillOK'
  BY <1>3, <1>4, ClusterAssumption
     DEF ClusterInv, KillOK, Removed, Dead, Ends, Target, Disconnect, Do, Replied, Callers,
         Nodes
<1>14. TimesOK'
  BY <1>3, <1>4, ClusterAssumption DEF ClusterInv, TimesOK, Replied, Callers, Nodes
<1>15. LinesOK'
  BY <1>3, <1>4, <1>5
     DEF ClusterInv, LinesOK, Excused, Dead, Ends, Target, Replied, Callers, Nodes
<1>16. NobodyAsksTheKilled'
  BY <1>3, <1>4, ClusterAssumption
     DEF ClusterInv, NobodyAsksTheKilled, Dead, Replied, Callers, Nodes
<1>17. TrialsOK'
  <2> SUFFICES ASSUME NEW m \in Nodes, NEW p \in Servers, Contains(line'[m], Trial(p))
               PROVE  FALSE
    BY DEF TrialsOK
  <2>1. Contains(line[m], Trial(p)) /\ ~ (m = call[Master].arg /\ Trial(p) = Trial(r))
    BY <1>5 DEF Callers
  <2>2. serving[p] # "reading" /\ m = call[Master].arg
    BY <2>1 DEF ClusterInv, TrialsOK
  <2> QED
    BY <1>3, <2>1, <2>2 DEF Replied, Nodes
<1> QED
  BY <1>6, <1>7, <1>8, <1>9, <1>10, <1>11, <1>12, <1>13, <1>14, <1>15, <1>16, <1>17
     DEF ClusterInv

(* ... or takes a round's transport with it, whose call is lost. *)
LEMMA CutOffCalls ==
  ASSUME ClusterInv, NEW r \in Servers, CutOff(r)
  PROVE  /\ MasterAt(r, {"addConnection"}) /\ call[Master] # NoCall /\ call[r] # NoCall
         /\ call' \in [Callers -> CallSet]
         /\ \A x \in {Master, r} :
              /\ call'[x] # NoCall /\ call'[x].to = call[x].to /\ call'[x].op = call[x].op
              /\ call'[x].arg = call[x].arg
         /\ call'[Master].answer = "ok"
         /\ \A y \in Callers : y \notin {Master, r} => call'[y] = call[y]
<1>1. /\ MasterAt(r, {"addConnection"}) /\ serving[r] = "closing" /\ r \in Nodes
      /\ r # Master /\ Master \in Callers /\ r \in Callers
  BY ClusterAssumption DEF CutOff, ClusterInv, ServingOK, Nodes, Callers
<1>2. /\ Head(line[r]) = Master /\ Argument(r) = call[Master].arg
      /\ call[Master].to = r /\ call[Master].op = "addConnection"
      /\ call[Master].arg \in Nodes /\ LineType(line)
  BY <1>1, Adding DEF ClusterInv, Types, Nodes
<1>4. call[Master] # NoCall /\ call[r] # NoCall
  BY <1>2 DEF NoCall, CutOff, ClusterInv, CallersOK
<1>5. /\ call' \in [Callers -> CallSet]
      /\ \A x \in {Master, r} :
           /\ call'[x] # NoCall /\ call'[x].to = call[x].to /\ call'[x].op = call[x].op
           /\ call'[x].arg = call[x].arg
      /\ call'[Master].answer = "ok"
      /\ \A y \in Callers : y \notin {Master, r} => call'[y] = call[y]
  <2>1. PICK calls : calls = [call EXCEPT ![Master].answer = "ok"]
    OBVIOUS
  <2>2. call \in [Callers -> CallSet]
    BY DEF ClusterInv, Types
  <2>3. /\ calls \in [Callers -> CallSet]
        /\ calls[Master] # NoCall /\ calls[Master].to = call[Master].to
        /\ calls[Master].op = call[Master].op
        /\ calls[Master].arg = call[Master].arg /\ calls[Master].answer = "ok"
        /\ \A y \in Callers : y # Master => calls[y] = call[y]
    <3>1. PICK result \in {"ok", "exception"} : result = "ok"
      OBVIOUS
    <3>2. calls = [call EXCEPT ![Master].answer = result]
      BY <2>1, <3>1
    <3>3. /\ calls \in [Callers -> CallSet]
          /\ calls[Master] # NoCall /\ calls[Master].to = call[Master].to
          /\ calls[Master].op = call[Master].op
          /\ calls[Master].arg = call[Master].arg /\ calls[Master].answer = result
          /\ \A y \in Callers : y # Master => calls[y] = call[y]
      BY <1>1, <1>4, <2>2, <3>2, AnsweredCall
    <3> QED
      BY <3>1, <3>3
  <2>4. PICK c : c = [call[r] EXCEPT !.answer = "exception"]
    OBVIOUS
  <2>5. /\ c \in CallSet /\ c # NoCall /\ c.to = call[r].to /\ c.op = call[r].op
        /\ c.arg = call[r].arg
    <3>1. call[r] \in [to : Nodes, op : MasterOps \cup {"antiEntropyRequest", "read", "write"},
                       arg : Nodes \cup Trials, answer : {"none", "ok", "exception"}]
      BY <1>1, <1>4, <2>2 DEF CallSet
    <3> QED
      BY <2>4, <3>1, ClusterAssumption DEF CallSet, NoCall
  <2>6. call' = [calls EXCEPT ![r] = c]
    <3>1. call' = [call EXCEPT ![Master].answer = "ok", ![r].answer = "exception"]
      BY <1>2 DEF CutOff
    <3>2. call' = [calls EXCEPT ![r].answer = "exception"]
      BY <2>1, <3>1
    <3> QED
      BY <1>1, <2>3, <2>4, <3>2
  <2> QED
    BY <1>1, <2>3, <2>5, <2>6
<1> QED
  BY <1>1, <1>4, <1>5

LEMMA CutOffInv ==
  ASSUME ClusterInv, NEW r \in Servers, CutOff(r)
  PROVE  ClusterInv'
<1>1. /\ MasterAt(r, {"addConnection"}) /\ serving[r] = "closing" /\ r \in Nodes
      /\ r # Master /\ Master \in Callers /\ r \in Callers
  BY ClusterAssumption DEF CutOff, ClusterInv, ServingOK, Nodes, Callers
<1>2. /\ Head(line[r]) = Master /\ Argument(r) = call[Master].arg
      /\ call[Master].to = r /\ call[Master].op = "addConnection"
      /\ call[Master].arg \in Nodes /\ LineType(line)
  BY <1>1, Adding DEF ClusterInv, Types, Nodes
<1>3. UNCHANGED <<reachable, stubs, transports, round, time, applied, alive, todo, members>>
  BY DEF CutOff, connection_vars, client_vars, master_vars
<1>4. call[Master] # NoCall /\ call[r] # NoCall
  BY CutOffCalls
<1>5. /\ call' \in [Callers -> CallSet]
      /\ \A x \in {Master, r} :
           /\ call'[x] # NoCall /\ call'[x].to = call[x].to /\ call'[x].op = call[x].op
           /\ call'[x].arg = call[x].arg
      /\ call'[Master].answer = "ok"
      /\ \A y \in Callers : y \notin {Master, r} => call'[y] = call[y]
  BY CutOffCalls
<1>6. \A m \in Nodes : m # r => serving[m] = "reading"
  BY <1>2 DEF ClusterInv, Types, ServingOK, MasterAt, Nodes
<1>7. serving' \in [Nodes -> Threads] /\ \A m \in Nodes : serving'[m] = "reading"
  BY <1>6 DEF CutOff, ClusterInv, Types, Threads
<1>8. /\ LineType(line')
      /\ \A m \in Nodes, y \in Callers :
           Contains(line'[m], y) <=>
             Contains(line[m], y) /\ ~ (m = call[Master].arg /\ y \in {Trial(r), r})
  <2>1. PICK n \in Nodes : n = call[Master].arg
    BY <1>2
  <2>2. PICK q : q = RemoveFirst(line[n], Trial(r))
    OBVIOUS
  <2>3. PICK p : p = RemoveFirst(q, r)
    OBVIOUS
  <2>4. /\ line \in [Nodes -> Seq(Callers)] /\ line[n] \in Seq(Callers)
        /\ IsInjective(line[n]) /\ \A m \in Nodes : IsInjective(line[m])
    BY <1>2 DEF LineType
  <2>5. /\ q \in Seq(Callers) /\ IsInjective(q)
        /\ \A y : Contains(q, y) <=> Contains(line[n], y) /\ y # Trial(r)
    BY <2>2, <2>4, RemoveFirstProperties
  <2>6. /\ p \in Seq(Callers) /\ IsInjective(p)
        /\ \A y : Contains(p, y) <=> Contains(q, y) /\ y # r
    BY <2>3, <2>5, RemoveFirstProperties
  <2>7. line' = [line EXCEPT ![n] = p]
    BY <1>2, <2>1, <2>2, <2>3 DEF CutOff
  <2>8. line'[n] = p /\ \A m \in Nodes : m # n => line'[m] = line[m]
    BY <2>4, <2>7
  <2>9. LineType(line')
    BY <2>4, <2>6, <2>7, <2>8 DEF LineType
  <2> QED
    BY <2>1, <2>5, <2>6, <2>8, <2>9
<1>9. round[r].at = "called"
  BY DEF CutOff
<1>10. Types'
  BY <1>3, <1>5, <1>7, <1>8 DEF ClusterInv, Types
<1>11. TodoOK'
  BY <1>3 DEF ClusterInv, TodoOK, Ends, Target
<1>12. MasterOK'
  BY <1>3, <1>4, <1>5 DEF ClusterInv, MasterOK
<1>13. CallersOK'
  BY <1>1, <1>3, <1>4, <1>5, <1>6, <1>7, ClusterAssumption
     DEF ClusterInv, CallersOK, Callers, Nodes
<1>14. ServingOK'
  BY <1>2, <1>3, <1>7 DEF ClusterInv, ServingOK, MasterAt, Nodes
<1>15. RoundsOK'
  BY <1>3 DEF ClusterInv, RoundsOK
<1>16. ConnectionsOK'
  <2>1. \A p \in Servers : serving[p] \notin {"stub", "transport"}
    BY <1>1, <1>6 DEF Nodes
  <2> QED
    BY <1>3, <1>7, <2>1 DEF ClusterInv, ConnectionsOK, Nodes
<1>17. KillOK'
  BY <1>1, <1>3, Adding DEF KillOK, Ends
<1>18. TimesOK'
  BY <1>1, <1>2, <1>3, <1>5, ClusterAssumption DEF ClusterInv, TimesOK, Callers, Nodes
<1>19. LinesOK'
  <2> SUFFICES ASSUME NEW m \in Nodes, NEW y \in Nodes \cup {Master}, Contains(line'[m], y)
               PROVE  Excused(m, y)'
    BY DEF LinesOK
  <2> y \in Callers
    BY DEF Callers
  <2>1. Contains(line[m], y) /\ y \in Callers
    BY <1>8 DEF Callers
  <2>2. Excused(m, y)
    BY <2>1 DEF ClusterInv, LinesOK
  <2>3. call'[y].to = call[y].to
    BY <1>5, <2>1
  <2>4. call[Master].answer = "none" /\ Master \in alive
    BY <1>1, <1>4 DEF MasterAt, ClusterInv, CallersOK
  <2>5. y \notin Clients
    <3>1. y \in Clients => call[y] = NoCall
      BY <1>6, ClusterAssumption DEF ClusterInv, CallersOK, Nodes
    <3> QED
      BY <2>2, <2>4, <3>1, ClusterAssumption DEF Excused, Nodes, NoCall
  <2> QED
    BY <1>3, <2>2, <2>3, <2>4, <2>5 DEF Excused, Dead, Ends, Target
<1>20. NobodyAsksTheKilled'
  <2>1. \A x \in Nodes : call'[x].to = call[x].to /\ (call'[x] # NoCall => call[x] # NoCall)
    BY <1>4, <1>5, ClusterAssumption DEF Callers
  <2> QED
    BY <1>3, <2>1 DEF ClusterInv, NobodyAsksTheKilled, Dead
<1>21. TrialsOK'
  <2> SUFFICES ASSUME NEW m \in Nodes, NEW p \in Servers, Contains(line'[m], Trial(p))
               PROVE  FALSE
    BY DEF TrialsOK
  <2>1. Contains(line[m], Trial(p)) /\ ~ (m = call[Master].arg /\ Trial(p) = Trial(r))
    BY <1>8 DEF Callers
  <2>2. serving[p] # "reading" /\ m = call[Master].arg
    BY <2>1 DEF ClusterInv, TrialsOK
  <2> QED
    BY <1>6, <2>1, <2>2 DEF Nodes
<1> QED
  BY <1>10, <1>11, <1>12, <1>13, <1>14, <1>15, <1>16, <1>17, <1>18, <1>19, <1>20, <1>21
     DEF ClusterInv

(***************************************************************************)
(* removeConnection during a kill: the replica has nothing left of the     *)
(* process, because the lock it took says that no round is at it.          *)
(***************************************************************************)
LEMMA RemovalReplied ==
  ASSUME ClusterInv, NEW r \in Nodes, Replied(r, "removeConnection", "ok"),
         r \in Servers => ~ ReachableLocked(r), NEW s, s = call[Master].arg,
         UNCHANGED <<round, todo, members>>,
         reachable'[r] = reachable[r] \ {s},
         \A n \in Nodes : n # r => reachable'[n] = reachable[n]
  PROVE  KillOK'
<1> SUFFICES ASSUME Ends("terminate")', NEW n \in members
             PROVE  \/ Removed(n, Target)'
                    \/ (\E i \in DOMAIN todo :
                         todo[i] = Disconnect(n, Target) /\ (i = 1 => call[Master].answer # "ok"))'
  BY DEF KillOK
<1>1. Ends("terminate") /\ Target' = Target /\ Target \in Servers
  BY DEF Ends, Target, ClusterInv, TodoOK
<1>2. n \in Nodes
  BY DEF ClusterInv, Types, Callers
<1>3. todo[1].op = "removeConnection" /\ todo[1].to = r /\ todo[1].arg = s
  BY DEF Replied
<1>4. s = Target
  <2>1. 1 \in DOMAIN todo
    BY LenProperties, EmptySeq DEF Replied, ClusterInv, Types
  <2>2. 1 # Len(todo)
    BY <1>1, <1>3 DEF Ends, Last
  <2> QED
    BY <1>1, <1>3, <2>1, <2>2 DEF ClusterInv, TodoOK
<1>5. CASE n = r
  <2>1. Target \notin reachable'[r]
    BY <1>4
  <2>2. ASSUME r \in Servers
        PROVE  Target \notin round'[r].to_ask /\ (call'[r].to = Target => Dead(r)')
    <3>1. round[r].to_ask = {} /\ call[r] = NoCall
      BY <2>2 DEF ReachableLocked, ClusterInv, RoundsOK, CallersOK, NoRound, Types
    <3>2. call'[r] = NoCall /\ Master # Target
      BY <1>1, <2>2, <3>1, ClusterAssumption DEF Replied, Callers, Nodes
    <3> QED
      BY <3>1, <3>2 DEF NoCall
  <2> QED
    BY <1>1, <1>5, <2>1, <2>2 DEF Removed
<1>6. CASE n # r
  <2>1. CASE Removed(n, Target)
    <3>1. reachable'[n] = reachable[n] /\ round' = round /\ call'[n] = call[n]
      BY <1>2, <1>6, ClusterAssumption DEF Replied, Callers
    <3> QED
      BY <1>1, <2>1, <3>1 DEF Removed, Dead
  <2>2. CASE \E i \in DOMAIN todo : todo[i] = Disconnect(n, Target)
    <3>1. PICK i \in DOMAIN todo : todo[i] = Disconnect(n, Target)
      BY <2>2
    <3>2. i # 1
      BY <1>3, <1>6, <3>1 DEF Disconnect, Do
    <3> QED
      BY <1>1, <3>1, <3>2 DEF Disconnect, Do
  <2> QED
    BY <1>1, <2>1, <2>2 DEF ClusterInv, KillOK
<1> QED
  BY <1>5, <1>6

(* removeConnection of a replica. *)
LEMMA RemoveConnectionInv ==
  ASSUME ClusterInv, NEW r \in Servers, RemoveConnection(r)
  PROVE  ClusterInv'
<1> r \in Nodes
  BY DEF Nodes
<1> DEFINE s == call[Master].arg
<1>1. MasterAt(r, {"removeConnection"})
  BY Served DEF RemoveConnection, Asked, MasterOps
<1>2. serving[r] = "reading" /\ Argument(r) = s
  BY <1>1 DEF ClusterInv, ServingOK, MasterAt, MasterFirst, Argument
<1>3. Replied(r, "removeConnection", "ok")
  BY <1>1, <1>2, MasterReplied DEF RemoveConnection, MasterOps
<1>4. /\ ~ ReachableLocked(r)
      /\ IF s \in reachable[r] THEN WithoutConnection(r, s) ELSE UNCHANGED << reachable, stubs,
                                                                             transports>>
      /\ UNCHANGED <<line, round, time, applied, alive, todo, members>>
  BY <1>2 DEF RemoveConnection, connection_vars, client_vars, master_vars
<1> HIDE DEF s
<1>5. /\ reachable \in [Nodes -> SUBSET Servers] /\ stubs \in [Servers -> SUBSET Servers]
      /\ transports \in [Servers -> [Servers -> {"none", "old", "current"}]]
      /\ stubs[r] = reachable[r]
  BY <1>2 DEF ClusterInv, Types, ConnectionsOK
<1>6. /\ reachable' \in [Nodes -> SUBSET Servers]
      /\ reachable'[r] = reachable[r] \ {s}
      /\ \A n \in Nodes : n # r => reachable'[n] = reachable[n]
      /\ stubs' \in [Servers -> SUBSET Servers]
      /\ stubs'[r] = stubs[r] \ {s}
      /\ \A n \in Servers : n # r => stubs'[n] = stubs[n]
      /\ transports' \in [Servers -> [Servers -> {"none", "old", "current"}]]
      /\ \A p, q \in Servers : p # r \/ q # s => transports'[p][q] = transports[p][q]
  <2>1. CASE s \in reachable[r]
    <3>1. s \in Servers
      BY <1>5, <2>1
    <3>2. /\ reachable' = [reachable EXCEPT ![r] = @ \ {s}]
          /\ stubs' = [stubs EXCEPT ![r] = @ \ {s}]
          /\ transports' = [transports EXCEPT ![r][s] = "old"]
      BY <1>4, <2>1 DEF WithoutConnection
    <3>3. /\ transports' \in [Servers -> [Servers -> {"none", "old", "current"}]]
          /\ \A p, q \in Servers : p # r \/ q # s => transports'[p][q] = transports[p][q]
      BY <1>5, <3>1, <3>2
    <3> QED
      BY <1>5, <3>2, <3>3
  <2>2. CASE s \notin reachable[r]
    BY <1>4, <1>5, <2>2
  <2> QED
    BY <2>1, <2>2
<1>7. Types'
  BY <1>3, <1>4, <1>6 DEF ClusterInv, Types, Replied
<1>8. TodoOK'
  BY <1>4 DEF ClusterInv, TodoOK, Ends, Target
<1>9. MasterOK'
  BY <1>3, <1>4 DEF MasterOK, Replied, MasterOps
<1>10. CallersOK'
  BY <1>3, <1>4 DEF ClusterInv, CallersOK, Replied, Callers, Nodes
<1>11. ServingOK'
  BY <1>3, <1>4 DEF ClusterInv, ServingOK, Replied, Nodes
<1>12. RoundsOK'
  BY <1>4 DEF ClusterInv, RoundsOK
<1>13. ConnectionsOK'
  <2>1. \A n \in Nodes : reachable'[n] \subseteq reachable[n]
    BY <1>6
  <2>2. /\ alive' = alive /\ \A n \in Nodes : serving[n] = "reading" /\ serving'[n] = "reading"
    BY <1>2, <1>3, <1>4 DEF Replied
  <2>3. ASSUME NEW p \in Servers, NEW q \in reachable'[p] PROVE transports'[p][q] = "current"
    <3>1. p \in Nodes /\ q \in reachable[p] /\ q \in Servers
      BY <1>5, <2>1 DEF Nodes
    <3>2. transports[p][q] = "current"
      BY <2>2, <3>1 DEF ClusterInv, ConnectionsOK
    <3>3. p # r \/ q # s
      BY <1>6
    <3> QED
      BY <1>6, <3>1, <3>2, <3>3
  <2>4. ASSUME NEW p \in Servers PROVE reachable'[p] = stubs'[p]
    <3>1. p \in Nodes /\ reachable[p] = stubs[p]
      BY <2>2 DEF ClusterInv, ConnectionsOK, Nodes
    <3> QED
      BY <1>6, <3>1
  <2>5. ASSUME NEW n \in Nodes
        PROVE  reachable'[n] \subseteq alive /\ (n \notin alive => reachable'[n] = {})
    BY <2>1 DEF ClusterInv, ConnectionsOK
  <2> QED
    BY <2>2, <2>3, <2>4, <2>5 DEF ConnectionsOK, Nodes
<1>14. KillOK'
  <2>1. /\ s = call[Master].arg
        /\ UNCHANGED <<round, todo, members>>
        /\ reachable'[r] = reachable[r] \ {s}
        /\ \A n \in Nodes : n # r => reachable'[n] = reachable[n]
    BY <1>4, <1>6 DEF s
  <2> QED
    BY <1>3, <1>4, <2>1, RemovalReplied
<1>15. TimesOK'
  BY <1>3, <1>4, ClusterAssumption DEF ClusterInv, TimesOK, Replied, Callers, Nodes
<1>16. LinesOK'
  BY <1>3, <1>4 DEF ClusterInv, LinesOK, Excused, Dead, Ends, Target, Replied, Callers, Nodes
<1>17. NobodyAsksTheKilled'
  BY <1>3, <1>4, ClusterAssumption
     DEF ClusterInv, NobodyAsksTheKilled, Dead, Replied, Callers, Nodes
<1>18. TrialsOK'
  BY <1>3, <1>4 DEF ClusterInv, TrialsOK, Replied, Callers, Nodes
<1> QED
  BY <1>7, <1>8, <1>9, <1>10, <1>11, <1>12, <1>13, <1>14, <1>15, <1>16, <1>17, <1>18 DEF ClusterInv

-----------------------------------------------------------------------------
(* A round that is somebody's, or somewhere, is one of a live process. *)
LEMMA RoundFields ==
  ASSUME ClusterInv, NEW r \in Servers
  PROVE  /\ round \in [Servers -> [who : {"nobody", "periodic", "server"},
                                    at : {"idle", "begun", "looping", "called", "dead"},
                                    to_ask : SUBSET Servers]]
         /\ reachable \in [Nodes -> SUBSET Servers]
         /\ round[r].who # "nobody" \/ round[r].at # "idle" => round[r] # NoRound /\ r \in alive
         /\ round[r].at = "idle" \/ round[r].who = "nobody" => round[r] = NoRound
BY DEF ClusterInv, Types, RoundsOK, NoRound

(* stabilize_lock: from the timer, or because the master called. *)
LEMMA BeginRoundInv ==
  ASSUME ClusterInv, NEW r \in Servers, NEW who \in {"periodic", "server"}, BeginRound(r, who)
  PROVE  ClusterInv'
<1> r \in Nodes
  BY DEF Nodes
<1>1. who = "server" => MasterAt(r, {"stabilize"})
  BY Served DEF BeginRound, Asked, MasterOps
<1>2. /\ r \in alive /\ round[r].who = "nobody"
      /\ round' = [round EXCEPT ![r].who = who, ![r].at = "begun"]
      /\ UNCHANGED <<line, call, serving, reachable, stubs, transports, time, applied, alive,
                     todo, members>>
  BY DEF BeginRound, thread_vars, connection_vars, client_vars, master_vars
<1>3. round[r] = NoRound
  BY <1>2, RoundFields
<1>4. /\ round' \in [Servers -> [who : {"nobody", "periodic", "server"},
                                 at : {"idle", "begun", "looping", "called", "dead"},
                                 to_ask : SUBSET Servers]]
      /\ round'[r].who = who /\ round'[r].at = "begun" /\ round'[r].to_ask = {}
      /\ \A p \in Servers : p # r => round'[p] = round[p]
  BY <1>2, <1>3, RoundFields DEF NoRound
<1>5. Types'
  BY <1>2, <1>4 DEF ClusterInv, Types
<1>6. TodoOK'
  BY <1>2 DEF ClusterInv, TodoOK, Ends, Target
<1>7. MasterOK'
  BY <1>2 DEF ClusterInv, MasterOK
<1>8. CallersOK'
  BY <1>2, <1>3, <1>4 DEF ClusterInv, CallersOK, NoRound
<1>9. ServingOK'
  BY <1>1, <1>2, <1>4 DEF ClusterInv, ServingOK, MasterAt, MasterFirst
<1>10. RoundsOK'
  BY <1>2, <1>4 DEF ClusterInv, RoundsOK
<1>11. ConnectionsOK'
  BY <1>2 DEF ClusterInv, ConnectionsOK
<1>12. KillOK'
  BY <1>2, <1>3, <1>4 DEF ClusterInv, KillOK, Removed, Dead, Ends, Target, NoRound
<1>13. TimesOK'
  BY <1>2 DEF ClusterInv, TimesOK
<1>14. LinesOK'
  BY <1>2, <1>3, <1>4 DEF ClusterInv, LinesOK, Excused, Dead, Ends, Target, NoRound
<1>15. NobodyAsksTheKilled'
  BY <1>2, <1>3, <1>4 DEF ClusterInv, NobodyAsksTheKilled, Dead, NoRound
<1>16. TrialsOK'
  BY <1>2, <1>3, <1>4, ClusterAssumption DEF ClusterInv, TrialsOK, Callers, Nodes
<1> QED
  BY <1>5, <1>6, <1>7, <1>8, <1>9, <1>10, <1>11, <1>12, <1>13, <1>14, <1>15, <1>16 DEF ClusterInv

(***************************************************************************)
(* reachable_lock: the round takes all it can reach, which during a kill   *)
(* is nobody that has been removed.                                        *)
(***************************************************************************)
LEMMA LockReachableInv ==
  ASSUME ClusterInv, NEW r \in Servers, LockReachable(r)
  PROVE  ClusterInv'
<1> r \in Nodes
  BY DEF Nodes
<1>1. /\ round[r].at = "begun"
      /\ round' = [round EXCEPT ![r].at = "looping", ![r].to_ask = reachable[r]]
      /\ UNCHANGED <<line, call, serving, reachable, stubs, transports, time, applied, alive,
                     todo, members>>
  BY DEF LockReachable, thread_vars, connection_vars, client_vars, master_vars
<1>2. round[r] # NoRound /\ r \in alive
  BY <1>1, RoundFields
<1>3. /\ round' \in [Servers -> [who : {"nobody", "periodic", "server"},
                                 at : {"idle", "begun", "looping", "called", "dead"},
                                 to_ask : SUBSET Servers]]
      /\ round'[r].who = round[r].who /\ round'[r].at = "looping"
      /\ round'[r].to_ask = reachable[r]
      /\ \A p \in Servers : p # r => round'[p] = round[p]
  BY <1>1, RoundFields
<1>4. Types'
  BY <1>1, <1>3 DEF ClusterInv, Types
<1>5. TodoOK'
  BY <1>1 DEF ClusterInv, TodoOK, Ends, Target
<1>6. MasterOK'
  BY <1>1 DEF ClusterInv, MasterOK
<1>7. CallersOK'
  BY <1>1, <1>3 DEF ClusterInv, CallersOK
<1>8. ServingOK'
  BY <1>1, <1>3 DEF ClusterInv, ServingOK, MasterAt, MasterFirst
<1>9. RoundsOK'
  BY <1>1, <1>2, <1>3 DEF ClusterInv, RoundsOK
<1>10. ConnectionsOK'
  BY <1>1 DEF ClusterInv, ConnectionsOK
<1>11. KillOK'
  BY <1>1, <1>3 DEF ClusterInv, KillOK, Removed, Dead, Ends, Target
<1>12. TimesOK'
  BY <1>1 DEF ClusterInv, TimesOK
<1>13. LinesOK'
  BY <1>1, <1>3 DEF ClusterInv, LinesOK, Excused, Dead, Ends, Target
<1>14. NobodyAsksTheKilled'
  BY <1>1, <1>3 DEF ClusterInv, NobodyAsksTheKilled, Dead
<1>15. TrialsOK'
  BY <1>1, <1>3, ClusterAssumption DEF ClusterInv, TrialsOK, Callers, Nodes
<1> QED
  BY <1>4, <1>5, <1>6, <1>7, <1>8, <1>9, <1>10, <1>11, <1>12, <1>13, <1>14, <1>15 DEF ClusterInv

(* The round is the server thread's. *)
ServerRound(r) == round[r].who = "server"

(* The end of such a round is the answer to the master. *)
LEMMA RoundReplied ==
  ASSUME ClusterInv, NEW r \in Servers, round[r].at \in {"looping", "called"},
         ServerRound(r), NEW result \in {"ok", "exception"}, Answer(r, result)
  PROVE  Replied(r, "stabilize", result)
<1>1. r \in Nodes /\ MasterAt(r, {"stabilize"})
  BY DEF ClusterInv, ServingOK, ServerRound, Nodes
<1>2. serving[r] # "waiting"
  BY <1>1 DEF ClusterInv, ServingOK
<1> QED
  BY <1>1, <1>2, MasterReplied DEF MasterOps

(* What opening a connection, or not, does to the lines. *)
LineGrows(r) ==
  /\ LineType(line')
  /\ \A m \in Nodes, y \in Callers : Contains(line'[m], y) => Contains(line[m], y) \/ y = r
  /\ \A m \in Nodes : line[m] # <<>> => line'[m] # <<>> /\ Head(line'[m]) = Head(line[m])

(***************************************************************************)
(* An exception ends the thread, in the server thread with an answer. The  *)
(* connections the round has opened are excused from then on.              *)
(***************************************************************************)
LEMMA RaiseInv ==
  ASSUME ClusterInv, NEW r \in Servers, round[r].at \in {"looping", "called"},
         Raise(r), LineGrows(r), UNCHANGED <<connection_vars, client_vars, master_vars>>
  PROVE  ClusterInv'
<1> r \in Nodes
  BY DEF Nodes
<1>1. /\ round' = [round EXCEPT ![r].at = "dead"]
      /\ UNCHANGED <<reachable, stubs, transports, time, applied, alive, todo, members>>
  BY DEF Raise, At, connection_vars, client_vars, master_vars
<1>2. round[r] # NoRound /\ r \in alive
  BY RoundFields
<1>3. /\ round' \in [Servers -> [who : {"nobody", "periodic", "server"},
                                 at : {"idle", "begun", "looping", "called", "dead"},
                                 to_ask : SUBSET Servers]]
      /\ round'[r].who = round[r].who /\ round'[r].at = "dead"
      /\ round'[r].to_ask = round[r].to_ask
      /\ \A p \in Servers : p # r => round'[p] = round[p]
  BY <1>1, RoundFields
<1>4. LineType(line')
  BY DEF LineGrows
<1>5. TodoOK'
  BY <1>1 DEF ClusterInv, TodoOK, Ends, Target
<1>6. RoundsOK'
  BY <1>1, <1>2, <1>3 DEF ClusterInv, RoundsOK
<1>7. CASE ServerRound(r)
  <2>1. Replied(r, "stabilize", "exception")
    BY <1>7, RoundReplied DEF Raise, ServerRound
  <2>2. Types'
    BY <1>1, <1>3, <1>4, <2>1 DEF ClusterInv, Types, Replied
  <2>3. MasterOK'
    BY <1>1, <2>1 DEF MasterOK, Replied, MasterOps
  <2>4. CallersOK'
    BY <1>1, <1>3, <2>1 DEF ClusterInv, CallersOK, Replied, Callers, Nodes
  <2>5. ServingOK'
    BY <1>1, <1>3, <2>1 DEF ClusterInv, ServingOK, Replied, Nodes
  <2>6. ConnectionsOK'
    <3>1. \A n \in Nodes : serving[n] = "reading"
      <4>1. MasterAt(r, {"stabilize"})
        BY <1>7 DEF ClusterInv, ServingOK, ServerRound
      <4> QED
        BY <4>1, <2>1 DEF Replied, ClusterInv, ServingOK, MasterAt
    <3> QED
      BY <1>1, <2>1, <3>1 DEF ClusterInv, ConnectionsOK, Replied, Nodes
  <2>7. KillOK'
    BY <1>1, <1>3, <2>1, ClusterAssumption
       DEF ClusterInv, KillOK, Removed, Dead, Ends, Target, Replied, Callers, Nodes, Disconnect,
           Do
  <2>8. TimesOK'
    BY <1>1, <2>1, ClusterAssumption DEF ClusterInv, TimesOK, Replied, Callers, Nodes
  <2>9. LinesOK'
    BY <1>1, <1>3, <2>1
       DEF LineGrows, ClusterInv, LinesOK, Excused, Dead, Ends, Target, Replied, Callers, Nodes
  <2>10. NobodyAsksTheKilled'
    BY <1>1, <1>3, <2>1, ClusterAssumption
       DEF ClusterInv, NobodyAsksTheKilled, Dead, Replied, Callers, Nodes
  <2>11. TrialsOK'
    BY <2>1, NoTrials DEF ClusterInv, Replied, LineGrows, Nodes
  <2> QED
    BY <1>5, <1>6, <2>2, <2>3, <2>4, <2>5, <2>6, <2>7, <2>8, <2>9, <2>10, <2>11 DEF ClusterInv
<1>8. CASE ~ ServerRound(r)
  <2>1. UNCHANGED <<call, serving>>
    BY <1>8 DEF Raise, ServerRound
  <2>2. Types'
    BY <1>1, <1>3, <1>4, <2>1 DEF ClusterInv, Types
  <2>3. MasterOK'
    BY <1>1, <2>1 DEF ClusterInv, MasterOK
  <2>4. CallersOK'
    BY <1>1, <1>3, <2>1 DEF ClusterInv, CallersOK
  <2>5. ServingOK'
    BY <1>1, <1>3, <1>8, <2>1
       DEF LineGrows, ClusterInv, ServingOK, MasterAt, MasterFirst, ServerRound, Nodes
  <2>6. ConnectionsOK'
    BY <1>1, <2>1 DEF ClusterInv, ConnectionsOK
  <2>7. KillOK'
    BY <1>1, <1>3, <2>1 DEF ClusterInv, KillOK, Removed, Dead, Ends, Target
  <2>8. TimesOK'
    BY <1>1, <2>1 DEF ClusterInv, TimesOK
  <2>9. LinesOK'
    BY <1>1, <1>3, <2>1
       DEF LineGrows, ClusterInv, LinesOK, Excused, Dead, Ends, Target, Callers, Nodes
  <2>10. NobodyAsksTheKilled'
    BY <1>1, <1>3, <2>1, ClusterAssumption
       DEF ClusterInv, NobodyAsksTheKilled, Dead, Callers, Nodes
  <2>11. TrialsOK'
    BY <1>1, <1>3, <2>1, ClusterAssumption DEF ClusterInv, TrialsOK, LineGrows, Callers, Nodes
  <2> QED
    BY <1>5, <1>6, <2>2, <2>3, <2>4, <2>5, <2>6, <2>7, <2>8, <2>9, <2>10, <2>11 DEF ClusterInv
<1> QED
  BY <1>7, <1>8

(* Nothing is opened. *)
LEMMA SameLine ==
  ASSUME ClusterInv, NEW r, UNCHANGED line
  PROVE  LineGrows(r)
BY DEF LineGrows, ClusterInv, Types

(* A connection is opened. *)
LEMMA OpensLine ==
  ASSUME ClusterInv, NEW r \in Servers, NEW s \in Servers, line' = Opened(r, s)
  PROVE  LineGrows(r)
<1>1. r \in Callers /\ s \in Nodes /\ LineType(line)
  BY DEF ClusterInv, Types, Callers, Nodes
<1>2. PICK l : l = Opened(r, s)
  OBVIOUS
<1>3. /\ LineType(l)
      /\ \A m \in Nodes, y \in Callers :
           Contains(l[m], y) <=> Contains(line[m], y) \/ (m = s /\ y = r)
      /\ \A m \in Nodes : line[m] # <<>> => l[m] # <<>> /\ Head(l[m]) = Head(line[m])
  BY <1>1, <1>2, OpenedLine
<1> QED
  BY <1>2, <1>3 DEF LineGrows

(* The exceptions of a round: the copy of the clock, the stub, the answer. *)
LEMMA RoundFailsInv ==
  ASSUME ClusterInv, NEW r \in Servers,
         CopyFails(r) \/ AnswerFails(r) \/ \E s \in Servers : AskFails(r, s)
  PROVE  ClusterInv'
<1>1. CASE CopyFails(r) \/ AnswerFails(r)
  BY <1>1, SameLine, RaiseInv DEF CopyFails, AnswerFails
<1>2. ASSUME NEW s \in Servers, AskFails(r, s) PROVE ClusterInv'
  <2>1. LineGrows(r)
    BY <1>2, SameLine, OpensLine DEF AskFails
  <2> QED
    BY <1>2, <2>1, RaiseInv DEF AskFails
<1> QED
  BY <1>1, <1>2

(* A round asks a replica, which is alive since it is reachable. *)
LEMMA AskInv ==
  ASSUME ClusterInv, NEW r \in Servers, NEW s \in Servers, Ask(r, s)
  PROVE  ClusterInv'
<1> r \in Nodes /\ s \in Nodes /\ r \in Callers /\ r # Master
  BY ClusterAssumption DEF Nodes, Callers
<1>1. /\ round[r].at = "looping" /\ s \in round[r].to_ask /\ s \in stubs[r] /\ s \in alive
      /\ call' = Called(r, s, "antiEntropyRequest", IF Lent(r, s) THEN Trial(r) ELSE r)
      /\ round' = [round EXCEPT ![r].at = "called", ![r].to_ask = @ \ {s}]
      /\ UNCHANGED <<serving, reachable, stubs, transports, time, applied, alive, todo,
                     members>>
  BY DEF Ask, Usable, connection_vars, client_vars, master_vars
<1>2. round[r] # NoRound /\ r \in alive
  BY <1>1, RoundFields
<1>3. /\ round' \in [Servers -> [who : {"nobody", "periodic", "server"},
                                 at : {"idle", "begun", "looping", "called", "dead"},
                                 to_ask : SUBSET Servers]]
      /\ round'[r].who = round[r].who /\ round'[r].at = "called"
      /\ round'[r].to_ask = round[r].to_ask \ {s}
      /\ \A p \in Servers : p # r => round'[p] = round[p]
  BY <1>1, RoundFields
<1>4. /\ call' \in [Callers -> CallSet]
      /\ call'[r] # NoCall /\ call'[r].to = s /\ call'[r].op = "antiEntropyRequest"
      /\ \A y \in Callers : y # r => call'[y] = call[y]
  <2>1. call \in [Callers -> CallSet]
    BY DEF ClusterInv, Types
  <2>2. PICK arg \in Nodes \cup Trials : call' = Called(r, s, "antiEntropyRequest", arg)
    BY <1>1 DEF Trials
  <2> DEFINE c == [to |-> s, op |-> "antiEntropyRequest", arg |-> arg, answer |-> "none"]
  <2>3. c \in CallSet /\ c # NoCall /\ c.to = s /\ c.op = "antiEntropyRequest"
    BY ClusterAssumption DEF CallSet, NoCall
  <2>4. call' = [call EXCEPT ![r] = c]
    BY <2>2 DEF Called
  <2> HIDE DEF c
  <2> QED
    BY <2>1, <2>3, <2>4
<1>5. call'[Master] = call[Master]
  BY <1>4 DEF Callers
<1>6. LineGrows(r)
  BY OpensLine DEF Ask
<1>7. ASSUME NEW m \in Nodes, NEW y \in Callers
      PROVE  Contains(line'[m], y) <=> Contains(line[m], y) \/ (m = s /\ y = r)
  <2>1. LineType(line) /\ line' = Opened(r, s)
    BY DEF ClusterInv, Types, Ask
  <2> QED
    BY <2>1, OpenedLine
<1>8. call[r] = NoCall
  BY <1>1 DEF ClusterInv, CallersOK
<1>9. Types'
  BY <1>1, <1>3, <1>4, <1>6 DEF ClusterInv, Types, LineGrows
<1>10. TodoOK'
  BY <1>1 DEF ClusterInv, TodoOK, Ends, Target
<1>11. MasterOK'
  BY <1>1, <1>5 DEF ClusterInv, MasterOK
<1>12. CallersOK'
  BY <1>1, <1>2, <1>3, <1>4, ClusterAssumption DEF ClusterInv, CallersOK, Callers, Nodes
<1>13. ServingOK'
  BY <1>1, <1>3, <1>5, <1>6 DEF LineGrows, ClusterInv, ServingOK, MasterAt, MasterFirst, Nodes
<1>14. RoundsOK'
  BY <1>1, <1>2, <1>3 DEF ClusterInv, RoundsOK
<1>15. ConnectionsOK'
  BY <1>1, <1>5 DEF ClusterInv, ConnectionsOK
<1>16. KillOK'
  BY <1>1, <1>3, <1>4, <1>5 DEF ClusterInv, KillOK, Removed, Dead, Ends, Target, Callers, Nodes
<1>17. TimesOK'
  BY <1>1, <1>4, <1>5, ClusterAssumption DEF ClusterInv, TimesOK, Callers, Nodes
<1>18. LinesOK'
  <2> SUFFICES ASSUME NEW m \in Nodes, NEW y \in Nodes \cup {Master},
                      Contains(line'[m], y)
               PROVE  Excused(m, y)'
    BY DEF LinesOK
  <2> y \in Callers
    BY DEF Callers
  <2>1. CASE y = r
    <3>1. ~ (Contains(line[m], r) /\ m # s)
      BY <1>1, <1>8, ClusterAssumption DEF ClusterInv, LinesOK, Excused, Dead, NoCall, Nodes
    <3> QED
      BY <1>4, <1>7, <2>1, <3>1 DEF Excused
  <2>2. CASE y # r
    BY <1>1, <1>3, <1>4, <1>5, <1>7, <2>2 DEF ClusterInv, LinesOK, Excused, Dead, Ends, Target
  <2> QED
    BY <2>1, <2>2
<1>19. NobodyAsksTheKilled'
  BY <1>1, <1>3, <1>4 DEF ClusterInv, NobodyAsksTheKilled, Dead, Callers
<1>20. TrialsOK'
  BY <1>1, <1>5, <1>7, TrialsKept DEF ClusterInv
<1> QED
  BY <1>9, <1>10, <1>11, <1>12, <1>13, <1>14, <1>15, <1>16, <1>17, <1>18, <1>19, <1>20 DEF ClusterInv

(* A round takes the answer and closes the connection. *)
LEMMA TakeAnswerInv ==
  ASSUME ClusterInv, NEW r \in Servers, TakeAnswer(r)
  PROVE  ClusterInv'
<1> r \in Nodes /\ r \in Callers /\ r # Master
  BY ClusterAssumption DEF Nodes, Callers
<1>1. /\ round[r].at = "called"
      /\ call' = [call EXCEPT ![r] = NoCall]
      /\ round' = [round EXCEPT ![r].at = "looping"]
      /\ UNCHANGED <<serving, reachable, stubs, transports, time, applied, alive, todo,
                     members>>
  BY DEF TakeAnswer, At, connection_vars, client_vars, master_vars
<1>2. round[r] # NoRound /\ r \in alive
  BY <1>1, RoundFields
<1>3. /\ round' \in [Servers -> [who : {"nobody", "periodic", "server"},
                                 at : {"idle", "begun", "looping", "called", "dead"},
                                 to_ask : SUBSET Servers]]
      /\ round'[r].who = round[r].who /\ round'[r].at = "looping"
      /\ round'[r].to_ask = round[r].to_ask
      /\ \A p \in Servers : p # r => round'[p] = round[p]
  BY <1>1, RoundFields
<1>4. /\ call' \in [Callers -> CallSet] /\ call'[r] = NoCall
      /\ \A y \in Callers : y # r => call'[y] = call[y]
  BY <1>1 DEF ClusterInv, Types, CallSet
<1>5. call'[Master] = call[Master]
  BY <1>4 DEF Callers
<1>6. call[r].to \in Nodes
  <2>1. call[r] # NoCall /\ call[r] \in CallSet
    BY <1>1 DEF ClusterInv, CallersOK, Types
  <2> QED
    BY <2>1 DEF CallSet
<1>7. /\ LineType(line')
      /\ \A m \in Nodes, y \in Callers :
           Contains(line'[m], y) <=> Contains(line[m], y) /\ ~ (m = call[r].to /\ y = r)
      /\ \A m \in Nodes : line[m] # <<>> /\ Head(line[m]) # r =>
           line'[m] # <<>> /\ Head(line'[m]) = Head(line[m])
  <2>1. LineType(line) /\ line' = Closed(r, call[r].to)
    BY DEF ClusterInv, Types, TakeAnswer
  <2>2. PICK n \in Nodes : n = call[r].to
    BY <1>6
  <2>3. PICK l : l = Closed(r, n)
    OBVIOUS
  <2>4. /\ LineType(l)
        /\ \A m \in Nodes, y \in Callers :
             Contains(l[m], y) <=> Contains(line[m], y) /\ ~ (m = n /\ y = r)
        /\ \A m \in Nodes : line[m] # <<>> /\ Head(line[m]) # r =>
             l[m] # <<>> /\ Head(l[m]) = Head(line[m])
    BY <2>1, <2>3, ClosedLine
  <2> QED
    BY <2>1, <2>2, <2>3, <2>4
<1>8. \A m \in Nodes : MasterFirst(m) => MasterFirst(m)'
  BY <1>7 DEF MasterFirst
<1>9. Types'
  BY <1>1, <1>3, <1>4, <1>7 DEF ClusterInv, Types
<1>10. TodoOK'
  BY <1>1 DEF ClusterInv, TodoOK, Ends, Target
<1>11. MasterOK'
  BY <1>1, <1>5 DEF ClusterInv, MasterOK
<1>12. CallersOK'
  BY <1>1, <1>2, <1>3, <1>4, ClusterAssumption DEF ClusterInv, CallersOK, Callers, Nodes
<1>13. ServingOK'
  BY <1>1, <1>3, <1>5, <1>8 DEF ClusterInv, ServingOK, MasterAt, Nodes
<1>14. RoundsOK'
  BY <1>1, <1>2, <1>3 DEF ClusterInv, RoundsOK
<1>15. ConnectionsOK'
  BY <1>1, <1>5 DEF ClusterInv, ConnectionsOK
<1>16. KillOK'
  <2>1. Ends("terminate") => Target # Master
    BY ClusterAssumption DEF ClusterInv, TodoOK, Nodes
  <2> QED
    BY <1>1, <1>3, <1>4, <1>5, <2>1
       DEF ClusterInv, KillOK, Removed, Dead, Ends, Target, Callers, Nodes, NoCall
<1>17. TimesOK'
  BY <1>1, <1>4, <1>5, ClusterAssumption DEF ClusterInv, TimesOK, Callers, Nodes
<1>18. LinesOK'
  BY <1>1, <1>3, <1>4, <1>5, <1>7, ClusterAssumption
     DEF ClusterInv, LinesOK, Excused, Dead, Ends, Target, Callers, Nodes
<1>19. NobodyAsksTheKilled'
  BY <1>1, <1>3, <1>4 DEF ClusterInv, NobodyAsksTheKilled, Dead, Callers
<1>20. TrialsOK'
  BY <1>1, <1>3, <1>4, <1>5, <1>7, ClusterAssumption DEF ClusterInv, TrialsOK, Callers, Nodes
<1> QED
  BY <1>9, <1>10, <1>11, <1>12, <1>13, <1>14, <1>15, <1>16, <1>17, <1>18, <1>19, <1>20 DEF ClusterInv

(* The end of a round, with the answer to the master if it was called. *)
LEMMA EndRoundInv ==
  ASSUME ClusterInv, NEW r \in Servers, EndRound(r)
  PROVE  ClusterInv'
<1> r \in Nodes
  BY DEF Nodes
<1>1. /\ round[r].at = "looping"
      /\ round' = [round EXCEPT ![r] = NoRound]
      /\ UNCHANGED <<line, reachable, stubs, transports, time, applied, alive, todo, members>>
  BY DEF EndRound, connection_vars, client_vars, master_vars
<1>2. /\ round' \in [Servers -> [who : {"nobody", "periodic", "server"},
                                 at : {"idle", "begun", "looping", "called", "dead"},
                                 to_ask : SUBSET Servers]]
      /\ round'[r] = NoRound
      /\ \A p \in Servers : p # r => round'[p] = round[p]
  BY <1>1, RoundFields DEF NoRound
<1>3. call[r] = NoCall
  BY <1>1 DEF ClusterInv, CallersOK
<1>4. LineType(line')
  BY <1>1 DEF ClusterInv, Types
<1>5. TodoOK'
  BY <1>1 DEF ClusterInv, TodoOK, Ends, Target
<1>6. RoundsOK'
  BY <1>1, <1>2 DEF ClusterInv, RoundsOK
<1>7. Ends("terminate") => Target # Master
  BY ClusterAssumption DEF ClusterInv, TodoOK, Nodes
<1>8. CASE ServerRound(r)
  <2>1. Replied(r, "stabilize", "ok")
    BY <1>1, <1>8, RoundReplied DEF EndRound, ServerRound
  <2>2. Types'
    BY <1>1, <1>2, <1>4, <2>1 DEF ClusterInv, Types, Replied
  <2>3. MasterOK'
    BY <1>1, <2>1 DEF MasterOK, Replied, MasterOps
  <2>4. CallersOK'
    BY <1>1, <1>2, <1>3, <2>1, ClusterAssumption
       DEF ClusterInv, CallersOK, Replied, Callers, Nodes, NoRound
  <2>5. ServingOK'
    BY <1>1, <1>2, <2>1 DEF ClusterInv, ServingOK, Replied, Nodes, NoRound
  <2>6. ConnectionsOK'
    <3>1. \A n \in Nodes : serving[n] = "reading"
      <4>1. MasterAt(r, {"stabilize"})
        BY <1>1, <1>8 DEF ClusterInv, ServingOK, ServerRound
      <4> QED
        BY <4>1, <2>1 DEF Replied, ClusterInv, ServingOK, MasterAt
    <3> QED
      BY <1>1, <2>1, <3>1 DEF ClusterInv, ConnectionsOK, Replied, Nodes
  <2>7. KillOK'
    BY <1>1, <1>2, <1>3, <1>7, <2>1, ClusterAssumption
       DEF ClusterInv, KillOK, Removed, Dead, Ends, Target, Replied, Callers, Nodes, Disconnect,
           Do, NoRound, NoCall
  <2>8. TimesOK'
    BY <1>1, <2>1, ClusterAssumption DEF ClusterInv, TimesOK, Replied, Callers, Nodes
  <2>9. LinesOK'
    BY <1>1, <1>2, <2>1
       DEF ClusterInv, LinesOK, Excused, Dead, Ends, Target, Replied, Callers, Nodes
  <2>10. NobodyAsksTheKilled'
    BY <1>1, <1>2, <1>3, <2>1, ClusterAssumption
       DEF ClusterInv, NobodyAsksTheKilled, Dead, Replied, Callers, Nodes
  <2>11. TrialsOK'
    BY <1>1, <1>2, <2>1 DEF ClusterInv, TrialsOK, Replied, Callers, Nodes
  <2> QED
    BY <1>5, <1>6, <2>2, <2>3, <2>4, <2>5, <2>6, <2>7, <2>8, <2>9, <2>10, <2>11 DEF ClusterInv
<1>9. CASE ~ ServerRound(r)
  <2>1. UNCHANGED <<call, serving>>
    BY <1>9 DEF EndRound, ServerRound
  <2>2. Types'
    BY <1>1, <1>2, <1>4, <2>1 DEF ClusterInv, Types
  <2>3. MasterOK'
    BY <1>1, <2>1 DEF ClusterInv, MasterOK
  <2>4. CallersOK'
    BY <1>1, <1>2, <1>3, <2>1 DEF ClusterInv, CallersOK, NoRound
  <2>5. ServingOK'
    BY <1>1, <1>2, <2>1 DEF ClusterInv, ServingOK, MasterAt, MasterFirst, Nodes, NoRound
  <2>6. ConnectionsOK'
    BY <1>1, <2>1 DEF ClusterInv, ConnectionsOK
  <2>7. KillOK'
    BY <1>1, <1>2, <1>3, <1>7, <2>1
       DEF ClusterInv, KillOK, Removed, Dead, Ends, Target, NoRound, NoCall
  <2>8. TimesOK'
    BY <1>1, <2>1 DEF ClusterInv, TimesOK
  <2>9. LinesOK'
    BY <1>1, <1>2, <2>1 DEF ClusterInv, LinesOK, Excused, Dead, Ends, Target, Callers, Nodes
  <2>10. NobodyAsksTheKilled'
    BY <1>1, <1>2, <1>3, <2>1, ClusterAssumption
       DEF ClusterInv, NobodyAsksTheKilled, Dead, Callers, Nodes
  <2>11. TrialsOK'
    BY <1>1, <1>2, <2>1, ClusterAssumption DEF ClusterInv, TrialsOK, Callers, Nodes
  <2> QED
    BY <1>5, <1>6, <2>2, <2>3, <2>4, <2>5, <2>6, <2>7, <2>8, <2>9, <2>10, <2>11 DEF ClusterInv
<1> QED
  BY <1>8, <1>9

-----------------------------------------------------------------------------
(* addConnection and removeConnection of a client. *)
LEMMA ChangeReachableInv ==
  ASSUME ClusterInv, NEW c \in Clients, ChangeReachable(c)
  PROVE  ClusterInv'
<1> c \in Nodes /\ c \notin Servers
  BY ClusterAssumption DEF Nodes
<1> DEFINE s == call[Master].arg
<1>1. PICK op \in {"addConnection", "removeConnection"} :
        /\ Serves(c, op)
        /\ reachable' = [reachable EXCEPT ![c] =
             IF op = "addConnection" THEN @ \cup {Argument(c)} ELSE @ \ {Argument(c)}]
  <2>1. CASE /\ Serves(c, "addConnection")
             /\ reachable' = [reachable EXCEPT ![c] = @ \cup {Argument(c)}]
    BY <2>1
  <2>2. CASE /\ Serves(c, "removeConnection")
             /\ reachable' = [reachable EXCEPT ![c] = @ \ {Argument(c)}]
    BY <2>2
  <2> QED
    BY <2>1, <2>2 DEF ChangeReachable
<1>2. /\ MasterAt(c, {op}) /\ c \in alive
      /\ op \in MasterOps /\ op \notin Requests /\ op # "stabilize"
  BY <1>1, Served DEF Asked, MasterOps, Requests
<1>3. serving[c] = "reading" /\ Argument(c) = s
  BY <1>2 DEF ClusterInv, ServingOK, MasterAt, MasterFirst, Argument
<1>4. Replied(c, op, "ok")
  BY <1>2, <1>3, MasterReplied DEF ChangeReachable
<1>5. op = "addConnection" => s \in Servers \cap alive
  BY <1>4, Arguments DEF Replied
<1>6. UNCHANGED <<line, stubs, transports, round, time, applied, alive, todo, members>>
  BY DEF ChangeReachable, client_vars, master_vars
<1>7. /\ reachable' \in [Nodes -> SUBSET Servers]
      /\ reachable'[c] = IF op = "addConnection" THEN reachable[c] \cup {s} ELSE reachable[c] \ {s}
      /\ \A n \in Nodes : n # c => reachable'[n] = reachable[n]
  <2>1. reachable \in [Nodes -> SUBSET Servers]
    BY DEF ClusterInv, Types
  <2> QED
    BY <1>1, <1>3, <1>5, <2>1
<1> HIDE DEF s
<1>8. Types'
  BY <1>4, <1>6, <1>7 DEF ClusterInv, Types, Replied
<1>9. TodoOK'
  BY <1>6 DEF ClusterInv, TodoOK, Ends, Target
<1>10. MasterOK'
  BY <1>2, <1>4, <1>6 DEF MasterOK, Replied
<1>11. CallersOK'
  BY <1>4, <1>6 DEF ClusterInv, CallersOK, Replied, Callers, Nodes
<1>12. ServingOK'
  BY <1>2, <1>4, <1>6 DEF ClusterInv, ServingOK, Replied, Nodes
<1>13. RoundsOK'
  BY <1>6 DEF ClusterInv, RoundsOK
<1>14. ConnectionsOK'
  <2>1. \A n \in Nodes : reachable'[n] \subseteq alive /\ (n \notin alive => reachable'[n] = {})
    BY <1>2, <1>5, <1>7 DEF ClusterInv, ConnectionsOK
  <2>2. \A n \in Nodes : serving[n] = "reading" /\ serving'[n] = "reading"
    BY <1>3, <1>4 DEF Replied
  <2>3. \A r \in Servers : r \in Nodes /\ reachable'[r] = reachable[r]
    BY <1>7 DEF Nodes
  <2> QED
    BY <1>6, <2>1, <2>2, <2>3 DEF ClusterInv, ConnectionsOK
<1>15. KillOK'
  <2>1. CASE op = "removeConnection"
    <3>1. s = call[Master].arg /\ reachable'[c] = reachable[c] \ {s}
      BY <1>7, <2>1 DEF s
    <3>2. UNCHANGED <<round, todo, members>>
      BY <1>6
    <3> QED
      BY <1>4, <1>7, <2>1, <3>1, <3>2, RemovalReplied
  <2>2. CASE op = "addConnection"
    <3>1. todo # <<>> /\ todo[1].op = "addConnection" /\ 1 \in DOMAIN todo
      BY <1>4, <2>2, LenProperties, EmptySeq DEF Replied, ClusterInv, Types
    <3>2. ~ Ends("terminate")
      BY <3>1, LenProperties DEF ClusterInv, Types, TodoOK, Ends, Last
    <3> QED
      BY <1>6, <3>2 DEF KillOK, Ends
  <2> QED
    BY <2>1, <2>2
<1>16. TimesOK'
  BY <1>4, <1>6, ClusterAssumption DEF ClusterInv, TimesOK, Replied, Callers, Nodes
<1>17. LinesOK'
  BY <1>4, <1>6 DEF ClusterInv, LinesOK, Excused, Dead, Ends, Target, Replied, Callers, Nodes
<1>18. NobodyAsksTheKilled'
  BY <1>4, <1>6, ClusterAssumption
     DEF ClusterInv, NobodyAsksTheKilled, Dead, Replied, Callers, Nodes
<1>19. TrialsOK'
  BY <1>4, <1>6 DEF ClusterInv, TrialsOK, Replied, Callers, Nodes
<1> QED
  BY <1>8, <1>9, <1>10, <1>11, <1>12, <1>13, <1>14, <1>15, <1>16, <1>17, <1>18, <1>19 DEF ClusterInv

(* requestWrite or requestRead without a replica. *)
LEMMA RequestFailsInv ==
  ASSUME ClusterInv, NEW c \in Clients, RequestFails(c)
  PROVE  ClusterInv'
<1> c \in Nodes
  BY DEF Nodes
<1>1. PICK op \in Requests : Serves(c, op)
  BY DEF RequestFails, Requested, Requests
<1>2. MasterAt(c, {op}) /\ op \in MasterOps /\ op \notin {"stabilize", "removeConnection"}
  BY <1>1, Served DEF Asked, MasterOps, Requests
<1>3. serving[c] = "reading"
  BY DEF RequestFails
<1>4. Replied(c, op, "exception")
  BY <1>2, <1>3, MasterReplied DEF RequestFails
<1>5. UNCHANGED <<line, reachable, stubs, transports, round, time, applied, alive, todo,
                  members>>
  BY DEF RequestFails, connection_vars, client_vars, master_vars
<1>6. Types'
  BY <1>4, <1>5 DEF ClusterInv, Types, Replied
<1>7. TodoOK'
  BY <1>5 DEF ClusterInv, TodoOK, Ends, Target
<1>8. MasterOK'
  BY <1>2, <1>4, <1>5 DEF MasterOK, Replied
<1>9. CallersOK'
  BY <1>4, <1>5 DEF ClusterInv, CallersOK, Replied, Callers, Nodes
<1>10. ServingOK'
  BY <1>2, <1>4, <1>5 DEF ClusterInv, ServingOK, Replied, Nodes
<1>11. RoundsOK'
  BY <1>5 DEF ClusterInv, RoundsOK
<1>12. ConnectionsOK'
  BY <1>3, <1>4, <1>5 DEF ClusterInv, ConnectionsOK, Replied, Nodes
<1>13. KillOK'
  BY <1>2, <1>4, <1>5, ClusterAssumption
     DEF ClusterInv, KillOK, Removed, Dead, Ends, Target, Disconnect, Do, Replied, Callers,
         Nodes
<1>14. TimesOK'
  BY <1>4, <1>5, ClusterAssumption DEF ClusterInv, TimesOK, Replied, Callers, Nodes
<1>15. LinesOK'
  BY <1>4, <1>5 DEF ClusterInv, LinesOK, Excused, Dead, Ends, Target, Replied, Callers, Nodes
<1>16. NobodyAsksTheKilled'
  BY <1>4, <1>5, ClusterAssumption
     DEF ClusterInv, NobodyAsksTheKilled, Dead, Replied, Callers, Nodes
<1>17. TrialsOK'
  <2>1. op # "addConnection"
    BY DEF Requests
  <2> QED
    BY <1>4, <1>5, <2>1, NoTrials DEF ClusterInv, Replied
<1> QED
  BY <1>6, <1>7, <1>8, <1>9, <1>10, <1>11, <1>12, <1>13, <1>14, <1>15, <1>16, <1>17 DEF ClusterInv

(***************************************************************************)
(* requestWrite or requestRead calls a replica. All the client's earlier   *)
(* writes are counted in its time: otherwise the master would have ended.  *)
(***************************************************************************)
LEMMA RequestInv ==
  ASSUME ClusterInv, NEW c \in Clients, NEW s \in Servers, Request(c, s)
  PROVE  ClusterInv'
<1> c \in Nodes /\ s \in Nodes /\ c \in Callers /\ c # Master /\ c \notin Servers /\ s # Master
  BY ClusterAssumption DEF Nodes, Callers
<1>1. MasterAt(c, Requests) /\ c \in alive
  <2>1. PICK op \in Requests : Serves(c, op)
    BY DEF Request, Requested, Requests
  <2>2. MasterAt(c, {op}) /\ c \in alive
    BY <2>1, Served DEF Asked, MasterOps, Requests
  <2> QED
    BY <2>2 DEF MasterAt
<1>2. PICK op \in {"write", "read"} : call' = Called(c, s, op, c)
  BY DEF Request
<1>3. /\ serving[c] = "reading" /\ s \in reachable[c]
      /\ serving' = [serving EXCEPT ![c] = "waiting"]
      /\ line' = Opened(c, s)
      /\ UNCHANGED <<reachable, stubs, transports, round, time, applied, alive, todo, members>>
  BY DEF Request, connection_vars, client_vars, master_vars
<1>4. /\ call[c] = NoCall /\ Master \in alive /\ call[Master].answer = "none"
      /\ call[Master] # NoCall /\ call[Master].to = c
  <2>1. call[Master].to = c /\ call[Master].answer = "none"
    BY <1>1 DEF MasterAt
  <2>2. call[Master] # NoCall
    BY <2>1 DEF NoCall
  <2> QED
    BY <1>3, <2>1, <2>2 DEF ClusterInv, CallersOK, Callers
<1>5. /\ call' \in [Callers -> CallSet]
      /\ call'[c] # NoCall /\ call'[c].to = s /\ call'[c].op = op /\ call'[c].arg = c
      /\ call'[c].answer = "none"
      /\ \A y \in Callers : y # c => call'[y] = call[y]
  <2>1. call \in [Callers -> CallSet]
    BY DEF ClusterInv, Types
  <2>2. PICK d : d = [to |-> s, op |-> op, arg |-> c, answer |-> "none"]
    OBVIOUS
  <2>3. d \in CallSet /\ d # NoCall /\ d.to = s /\ d.op = op /\ d.arg = c /\ d.answer = "none"
    BY <2>2 DEF CallSet, NoCall
  <2>4. call' = [call EXCEPT ![c] = d]
    BY <1>2, <2>2 DEF Called
  <2> QED
    BY <2>1, <2>3, <2>4
<1>6. call'[Master] = call[Master]
  BY <1>5 DEF Callers
<1>7. /\ LineType(line')
      /\ \A m \in Nodes, y \in Callers :
           Contains(line'[m], y) <=> Contains(line[m], y) \/ (m = s /\ y = c)
      /\ \A m \in Nodes : line[m] # <<>> => line'[m] # <<>> /\ Head(line'[m]) = Head(line[m])
  <2>1. LineType(line)
    BY DEF ClusterInv, Types
  <2> QED
    BY <1>3, <2>1, OpenedLine
<1>8. \A m \in Nodes : MasterFirst(m) => MasterFirst(m)'
  BY <1>7 DEF MasterFirst
<1>9. /\ serving' \in [Nodes -> Threads]
      /\ serving'[c] = "waiting" /\ \A n \in Nodes : n # c => serving'[n] = serving[n]
  BY <1>3 DEF ClusterInv, Types, Threads
<1>10. Types'
  BY <1>3, <1>5, <1>7, <1>9 DEF ClusterInv, Types
<1>11. TodoOK'
  BY <1>3 DEF ClusterInv, TodoOK, Ends, Target
<1>12. MasterOK'
  BY <1>3, <1>6 DEF ClusterInv, MasterOK
<1>13. CallersOK'
  <2>1. \A x \in Callers : call'[x] # NoCall => x \in alive'
    BY <1>1, <1>3, <1>5 DEF ClusterInv, CallersOK
  <2>2. \A r \in Servers : r # c /\ r \in Callers /\ call'[r] = call[r] /\ round'[r] = round[r]
    BY <1>3, <1>5 DEF Callers, Nodes
  <2>3. \A d \in Clients : d # c => call'[d] = call[d] /\ serving'[d] = serving[d]
    BY <1>5, <1>9 DEF Callers, Nodes
  <2> QED
    BY <1>5, <1>9, <2>1, <2>2, <2>3 DEF ClusterInv, CallersOK
<1>14. ServingOK'
  BY <1>1, <1>3, <1>6, <1>8, <1>9 DEF ClusterInv, ServingOK, MasterAt, Nodes
<1>15. RoundsOK'
  BY <1>3 DEF ClusterInv, RoundsOK
<1>16. ConnectionsOK'
  BY <1>3, <1>6, <1>9 DEF ClusterInv, ConnectionsOK, Nodes
<1>17. KillOK'
  BY <1>3, <1>5, <1>6 DEF ClusterInv, KillOK, Removed, Dead, Ends, Target, Callers, Nodes
<1>18. TimesOK'
  <2>1. applied[c] = time[c]
    BY <1>4, ClusterAssumption DEF ClusterInv, TimesOK, NoCall
  <2>2. \A d \in Clients : d # c => call'[d] = call[d]
    BY <1>5 DEF Callers, Nodes
  <2> QED
    BY <1>3, <1>5, <1>6, <2>1, <2>2 DEF ClusterInv, TimesOK
<1>19. LinesOK'
  <2> SUFFICES ASSUME NEW m \in Nodes, NEW y \in Nodes \cup {Master},
                      Contains(line'[m], y)
               PROVE  Excused(m, y)'
    BY DEF LinesOK
  <2> y \in Callers
    BY DEF Callers
  <2>1. CASE y = c
    <3>1. ~ (Contains(line[m], c) /\ m # s)
      BY <1>4, ClusterAssumption DEF ClusterInv, LinesOK, Excused, NoCall, Nodes
    <3> QED
      BY <1>5, <1>7, <2>1, <3>1 DEF Excused
  <2>2. CASE y # c
    BY <1>3, <1>5, <1>6, <1>7, <2>2 DEF ClusterInv, LinesOK, Excused, Dead, Ends, Target
  <2> QED
    BY <2>1, <2>2
<1>20. NobodyAsksTheKilled'
  <2>1. s \in alive
    BY <1>3 DEF ClusterInv, ConnectionsOK
  <2> QED
    BY <1>3, <1>5, <2>1 DEF ClusterInv, NobodyAsksTheKilled, Dead, Callers
<1>21. TrialsOK'
  <2>1. \A p \in Servers : serving'[p] = serving[p]
    BY <1>9 DEF Nodes
  <2> QED
    BY <1>6, <1>7, <2>1, TrialsKept DEF ClusterInv
<1> QED
  BY <1>10, <1>11, <1>12, <1>13, <1>14, <1>15, <1>16, <1>17, <1>18, <1>19, <1>20, <1>21 DEF ClusterInv

(***************************************************************************)
(* The step in which a client takes the replica's answer and gives the     *)
(* master its own: what was the case before and is after it.               *)
(***************************************************************************)
Finished(c, result) ==
  /\ Master \in alive /\ todo # <<>>
  /\ call[Master] # NoCall /\ call[Master].to = c /\ call[Master].op \in Requests
  /\ call[Master].answer = "none"
  /\ todo[1].to = c /\ todo[1].op = call[Master].op
  /\ \A m \in Nodes : m # c => serving[m] = "reading"
  /\ \A r \in Servers : round[r].who = "server" => round[r].at = "dead"
  /\ call[c] # NoCall /\ call[c].to \in Nodes /\ call[c].op \in {"read", "write"}
  /\ \A d \in Clients : call'[d] = NoCall
  /\ call' \in [Callers -> CallSet]
  /\ call'[Master] # NoCall /\ call'[Master].to = c /\ call'[Master].op = call[Master].op
  /\ call'[Master].arg = call[Master].arg /\ call'[Master].answer = result
  /\ \A y \in Callers : y \notin {Master, c} => call'[y] = call[y]
  /\ serving' \in [Nodes -> Threads]
  /\ \A m \in Nodes : serving'[m] = "reading"

(* A client that was waiting is such a one. *)
LEMMA RequestFinished ==
  ASSUME ClusterInv, NEW c \in Clients, serving[c] = "waiting",
         NEW result \in {"ok", "exception"}, Finish(c, result)
  PROVE  Finished(c, result)
<1> c \in Nodes /\ c \in Callers /\ c # Master /\ Master \in Callers
  BY ClusterAssumption DEF Nodes, Callers
<1>1. MasterAt(c, Requests)
  BY DEF ClusterInv, ServingOK
<1>2. /\ Head(line[c]) = Master /\ call[Master].to = c /\ call[Master].op \in Requests
      /\ call[Master].answer = "none"
  BY <1>1 DEF MasterAt, MasterFirst
<1>3. call[Master] # NoCall
  BY <1>2 DEF NoCall
<1>4. /\ Master \in alive /\ todo # <<>> /\ todo[1].to = c /\ todo[1].op = call[Master].op
  BY <1>2, <1>3 DEF ClusterInv, MasterOK, CallersOK
<1>5. /\ call \in [Callers -> CallSet]
      /\ serving \in [Nodes -> Threads]
  BY DEF ClusterInv, Types
<1>6. \A m \in Nodes : m # c => serving[m] = "reading"
  BY <1>2, <1>5 DEF ClusterInv, ServingOK, MasterAt, Nodes
<1>7. \A r \in Servers : round[r].who = "server" => round[r].at = "dead"
  BY <1>2 DEF ClusterInv, ServingOK, MasterAt, Requests
<1>8. /\ call[c] # NoCall /\ call[c].op \in {"read", "write"}
      /\ \A d \in Clients : d # c => call[d] = NoCall
  BY <1>6 DEF ClusterInv, CallersOK, Nodes
<1>9. call[c].to \in Nodes
  BY <1>5, <1>8 DEF CallSet
<1>10. /\ call' \in [Callers -> CallSet] /\ call'[c] = NoCall
       /\ call'[Master] # NoCall /\ call'[Master].to = c /\ call'[Master].op = call[Master].op
       /\ call'[Master].arg = call[Master].arg /\ call'[Master].answer = result
       /\ \A y \in Callers : y \notin {Master, c} => call'[y] = call[y]
  <2>1. PICK calls : calls = [call EXCEPT ![Master].answer = result]
    OBVIOUS
  <2>2. /\ calls \in [Callers -> CallSet]
        /\ calls[Master] # NoCall /\ calls[Master].to = call[Master].to
        /\ calls[Master].op = call[Master].op
        /\ calls[Master].arg = call[Master].arg /\ calls[Master].answer = result
        /\ \A y \in Callers : y # Master => calls[y] = call[y]
    BY <1>3, <1>5, <2>1, AnsweredCall
  <2>3. call' = [calls EXCEPT ![c] = NoCall]
    BY <1>2, <1>5, <2>1 DEF Finish
  <2>4. NoCall \in CallSet
    BY DEF CallSet
  <2> QED
    BY <1>2, <2>2, <2>3, <2>4
<1>11. /\ serving' \in [Nodes -> Threads]
       /\ \A m \in Nodes : serving'[m] = "reading"
  BY <1>5, <1>6 DEF Finish, Threads
<1>12. \A d \in Clients : call'[d] = NoCall
  BY <1>8, <1>10, ClusterAssumption DEF Callers, Nodes
<1> QED
  BY <1>2, <1>3, <1>4, <1>6, <1>7, <1>8, <1>9, <1>10, <1>11, <1>12 DEF Finished

(* The answer is there: the connection is closed, a write counted in the time. *)
LEMMA FinishRequestInv ==
  ASSUME ClusterInv, NEW c \in Clients, FinishRequest(c)
  PROVE  ClusterInv'
<1> c \in Nodes /\ c \in Callers /\ c # Master
  BY ClusterAssumption DEF Nodes, Callers
<1>1. Finished(c, "ok") /\ serving[c] = "waiting"
  BY RequestFinished DEF FinishRequest
<1>2. /\ call[c].answer = "ok"
      /\ time' = [time EXCEPT ![c] = IF call[c].op = "write" THEN @ + 1 ELSE @]
      /\ UNCHANGED <<reachable, stubs, transports, round, applied, alive, todo, members>>
  BY DEF FinishRequest, connection_vars, master_vars
<1>3. PICK n \in Nodes : n = call[c].to
  BY <1>1 DEF Finished
<1>4. /\ LineType(line')
      /\ \A m \in Nodes, y \in Callers :
           Contains(line'[m], y) <=> Contains(line[m], y) /\ ~ (m = n /\ y = c)
  <2>1. LineType(line)
    BY DEF ClusterInv, Types
  <2>2. line' = Closed(c, n)
    BY <1>3 DEF FinishRequest
  <2> QED
    BY <2>1, <2>2, ClosedLine
<1>5. /\ time \in [Clients -> Nat] /\ time' \in [Clients -> Nat] /\ applied \in [Clients -> Nat]
      /\ time'[c] = IF call[c].op = "write" THEN time[c] + 1 ELSE time[c]
      /\ \A d \in Clients : d # c => time'[d] = time[d]
  BY <1>2 DEF ClusterInv, Types
<1>6. Types'
  BY <1>1, <1>2, <1>4, <1>5 DEF ClusterInv, Types, Finished
<1>7. TodoOK'
  BY <1>2 DEF ClusterInv, TodoOK, Ends, Target
<1>8. MasterOK'
  BY <1>1, <1>2 DEF ClusterInv, MasterOK, Finished
<1>9. CallersOK'
  BY <1>1, <1>2, ClusterAssumption DEF ClusterInv, CallersOK, Finished, Callers, Nodes
<1>10. ServingOK'
  BY <1>1, <1>2 DEF ClusterInv, ServingOK, Finished, Nodes
<1>11. RoundsOK'
  BY <1>2 DEF ClusterInv, RoundsOK
<1>12. ConnectionsOK'
  <2>1. \A r \in Servers : serving[r] = "reading" /\ serving'[r] = "reading"
    BY <1>1, ClusterAssumption DEF Finished, Nodes
  <2> QED
    BY <1>2, <2>1 DEF ClusterInv, ConnectionsOK
<1>13. KillOK'
  <2>1. \A r \in Servers : call'[r] = call[r] /\ Master # r
    BY <1>1, ClusterAssumption DEF Finished, Callers, Nodes
  <2>2. ASSUME NEW i \in DOMAIN todo, NEW m \in Nodes, NEW id, todo[i] = Disconnect(m, id)
        PROVE  i # 1
    BY <1>1, <2>2 DEF Finished, Disconnect, Do, Requests
  <2>3. members \subseteq Nodes
    BY DEF ClusterInv, Types, Callers
  <2> QED
    BY <1>2, <2>1, <2>2, <2>3 DEF ClusterInv, KillOK, Removed, Dead, Ends, Target
<1>14. TimesOK'
  <2>1. ASSUME NEW d \in Clients, d # c PROVE applied[d] = time[d]
    <3>1. /\ call[Master].to # d /\ Master \in alive /\ call[d] = NoCall
      BY <1>1, <2>1, ClusterAssumption DEF Finished, ClusterInv, CallersOK, Nodes
    <3> QED
      BY <3>1 DEF ClusterInv, TimesOK, NoCall
  <2>2. applied[c] = time'[c]
    BY <1>1, <1>2, <1>5 DEF Finished, ClusterInv, TimesOK
  <2> QED
    BY <1>1, <1>2, <1>5, <2>1, <2>2 DEF Finished, TimesOK, NoCall
<1>15. LinesOK'
  <2> SUFFICES ASSUME NEW m \in Nodes, NEW y \in Nodes \cup {Master},
                      Contains(line'[m], y)
               PROVE  Excused(m, y)'
    BY DEF LinesOK
  <2> y \in Callers
    BY DEF Callers
  <2>1. Excused(m, y) /\ Contains(line[m], y)
    BY <1>4 DEF ClusterInv, LinesOK
  <2>2. y # c
    <3>1. ~ (y = c /\ m # n)
      BY <1>1, <1>3, <2>1, ClusterAssumption DEF Excused, Finished, Nodes
    <3> QED
      BY <1>4, <3>1
  <2>3. y \in Clients => FALSE
    BY <1>1, <2>1, <2>2, ClusterAssumption
       DEF Excused, Finished, ClusterInv, CallersOK, Nodes, NoCall
  <2> QED
    BY <1>1, <1>2, <2>1, <2>2, <2>3 DEF Excused, Finished, Dead, Ends, Target
<1>16. NobodyAsksTheKilled'
  BY <1>1, <1>2, ClusterAssumption
     DEF ClusterInv, NobodyAsksTheKilled, Dead, Finished, Callers, Nodes
<1>17. TrialsOK'
  BY <1>1, <1>4, ClusterAssumption, NoTrials DEF ClusterInv, Finished, Nodes
<1> QED
  BY <1>6, <1>7, <1>8, <1>9, <1>10, <1>11, <1>12, <1>13, <1>14, <1>15, <1>16, <1>17 DEF ClusterInv

(* An exception: the connection stays, and so does the time. *)
LEMMA FailRequestInv ==
  ASSUME ClusterInv, NEW c \in Clients, FailRequest(c)
  PROVE  ClusterInv'
<1> c \in Nodes /\ c \in Callers /\ c # Master
  BY ClusterAssumption DEF Nodes, Callers
<1>1. Finished(c, "exception") /\ serving[c] = "waiting"
  BY RequestFinished DEF FailRequest
<1>2. UNCHANGED <<line, reachable, stubs, transports, round, time, applied, alive, todo,
                  members>>
  BY DEF FailRequest, connection_vars, client_vars, master_vars
<1>3. Types'
  BY <1>1, <1>2 DEF ClusterInv, Types, Finished
<1>4. TodoOK'
  BY <1>2 DEF ClusterInv, TodoOK, Ends, Target
<1>5. MasterOK'
  BY <1>1, <1>2 DEF ClusterInv, MasterOK, Finished
<1>6. CallersOK'
  BY <1>1, <1>2, ClusterAssumption DEF ClusterInv, CallersOK, Finished, Callers, Nodes
<1>7. ServingOK'
  BY <1>1, <1>2 DEF ClusterInv, ServingOK, Finished, Nodes
<1>8. RoundsOK'
  BY <1>2 DEF ClusterInv, RoundsOK
<1>9. ConnectionsOK'
  <2>1. \A r \in Servers : serving[r] = "reading" /\ serving'[r] = "reading"
    BY <1>1, ClusterAssumption DEF Finished, Nodes
  <2> QED
    BY <1>2, <2>1 DEF ClusterInv, ConnectionsOK
<1>10. KillOK'
  <2>1. \A r \in Servers : call'[r] = call[r]
    BY <1>1, ClusterAssumption DEF Finished, Callers, Nodes
  <2> QED
    BY <1>1, <1>2, <2>1 DEF ClusterInv, KillOK, Removed, Dead, Ends, Target, Finished
<1>11. TimesOK'
  BY <1>1, <1>2, ClusterAssumption DEF ClusterInv, TimesOK, Finished, Callers, Nodes, NoCall
<1>12. LinesOK'
  BY <1>1, <1>2 DEF ClusterInv, LinesOK, Excused, Dead, Ends, Target, Finished, Callers, Nodes
<1>13. NobodyAsksTheKilled'
  BY <1>1, <1>2, ClusterAssumption
     DEF ClusterInv, NobodyAsksTheKilled, Dead, Finished, Callers, Nodes
<1>14. TrialsOK'
  <2>1. \A p \in Servers : serving[p] = "reading"
    BY <1>1, ClusterAssumption DEF Finished, Nodes
  <2> QED
    BY <1>2, <2>1, NoTrials DEF ClusterInv
<1> QED
  BY <1>3, <1>4, <1>5, <1>6, <1>7, <1>8, <1>9, <1>10, <1>11, <1>12, <1>13, <1>14 DEF ClusterInv

-----------------------------------------------------------------------------
(* The initial states: members connected, nobody calls. *)
LEMMA InitClusterInv == Init => ClusterInv
<1> SUFFICES ASSUME Init PROVE ClusterInv
  OBVIOUS
<1>1. PICK started \in DOMAIN Starts :
        /\ members = started
        /\ \E home \in [started \cap Clients -> started \cap Servers],
              broken \in {{}} \cup kSubset(2, started) :
             Connected(started, home, broken)
  BY DEF Init
<1>2. PICK home \in [started \cap Clients -> started \cap Servers],
           broken \in {{}} \cup kSubset(2, started) :
        Connected(started, home, broken)
  BY <1>1
<1>3. /\ started \subseteq Nodes
      /\ Servers \cap Clients = {} /\ Master \notin Nodes
  BY ClusterAssumption
<1>4. /\ alive = {Master} \cup members
      /\ line = [n \in Nodes |-> <<>>]
      /\ call = [x \in Callers |-> NoCall]
      /\ serving = [n \in Nodes |-> "reading"]
      /\ stubs = [r \in Servers |-> reachable[r]]
      /\ round = [r \in Servers |-> NoRound]
      /\ time = [c \in Clients |-> 0] /\ applied = [c \in Clients |-> 0]
      /\ todo = <<>>
  BY DEF Init
<1>5. members \subseteq Nodes /\ members = started
  BY <1>1, <1>3
<1>6. /\ reachable \in [Nodes -> SUBSET Servers]
      /\ \A n \in Nodes : reachable[n] \subseteq started /\ (n \notin members => reachable[n] = {})
      /\ transports \in [Servers -> [Servers -> {"none", "old", "current"}]]
      /\ \A r \in Servers : \A s \in reachable[r] : transports[r][s] = "current"
  BY <1>1, <1>2, <1>3 DEF Nodes, Connected
<1>7. LineType(line)
  <2>1. <<>> \in Seq(Callers) /\ IsInjective(<<>>)
    BY EmptySeq DEF IsInjective
  <2> QED
    BY <1>4, <2>1 DEF LineType
<1>8. Types
  <2>1. todo \in Seq(DoSet) /\ NoCall \in CallSet
    BY <1>4, EmptySeq DEF CallSet
  <2> QED
    BY <1>3, <1>4, <1>5, <1>6, <1>7, <2>1 DEF Types, Threads, Callers, Nodes, NoRound
<1>9. TodoOK
  BY <1>4, <1>5, EmptySeq DEF TodoOK, Ends
<1>10. MasterOK /\ CallersOK /\ RoundsOK /\ KillOK
  BY <1>4 DEF MasterOK, CallersOK, RoundsOK, KillOK, Ends, Callers, Nodes, NoRound
<1>11. ServingOK
  BY <1>4 DEF ServingOK, Nodes, NoRound
<1>12. ConnectionsOK
  BY <1>4, <1>5, <1>6 DEF ConnectionsOK, Nodes
<1>13. TimesOK
  BY <1>4 DEF TimesOK, Callers, Nodes, NoCall
<1>14. LinesOK /\ TrialsOK
  <2>1. \A m \in Nodes : \A y : ~ Contains(line[m], y)
    BY <1>4, EmptySeq DEF Contains
  <2> QED
    BY <2>1 DEF LinesOK, TrialsOK
<1>15. NobodyAsksTheKilled
  BY <1>4 DEF NobodyAsksTheKilled, Callers
<1> QED
  BY <1>8, <1>9, <1>10, <1>11, <1>12, <1>13, <1>14, <1>15 DEF ClusterInv

-----------------------------------------------------------------------------
(* A function on 1 .. n is a sequence of length n. *)
LEMMA FunctionIsSeq ==
  ASSUME NEW S, NEW n \in Nat, NEW f \in [1 .. n -> S]
  PROVE  f \in Seq(S) /\ Len(f) = n /\ DOMAIN f = 1 .. n
OBVIOUS

(* An order of a set goes through all of it and nothing else. *)
LEMMA OrdersProperties ==
  ASSUME NEW S, S \subseteq Nodes, NEW order \in Orders(S)
  PROVE  /\ order \in Seq(S) /\ Len(order) \in Nat /\ DOMAIN order = 1 .. Len(order)
         /\ \A i \in 1 .. Len(order) : order[i] \in S
         /\ \A x \in S : \E i \in 1 .. Len(order) : order[i] = x
         /\ \A i, j \in 1 .. Len(order) : order[i] = order[j] => i = j
<1>1. PICK k \in Nat : k = Cardinality(S)
  BY FS_CardinalityType, FS_Subset, ClusterAssumption
<1>2. /\ order \in [1 .. k -> S] /\ \A x \in S : \E i \in 1 .. k : order[i] = x
      /\ \A i, j \in 1 .. k : order[i] = order[j] => i = j
  BY <1>1 DEF Orders, Bijection, Injection, Surjection, IsInjective
<1>3. order \in Seq(S) /\ Len(order) = k /\ DOMAIN order = 1 .. k
  BY <1>2, FunctionIsSeq
<1> QED
  BY <1>2, <1>3

(***************************************************************************)
(* A command begins when nobody works for the master: it changes what is   *)
(* to do and who is alive, and everything else goes on.                    *)
(***************************************************************************)
LEMMA CommandKeeps ==
  ASSUME ClusterInv, todo = <<>>, Master \in alive,
         alive \subseteq alive', alive' \subseteq Nodes \cup {Master},
         todo' \in Seq(DoSet), TodoOK', KillOK',
         UNCHANGED <<thread_vars, connection_vars, round, client_vars, members>>
  PROVE  ClusterInv'
<1>1. UNCHANGED <<line, call, serving, reachable, stubs, transports, round, time, applied,
                  members>>
  BY DEF thread_vars, connection_vars, client_vars
<1>2. call[Master] = NoCall
  BY DEF ClusterInv, MasterOK
<1>3. \A n \in Nodes :
        ~ (MasterAt(n, Requests) \/ MasterAt(n, {"addConnection"}) \/ MasterAt(n, {"stabilize"}))
  BY <1>2, ClusterAssumption DEF MasterAt, NoCall
<1>4. /\ \A n \in Nodes : serving[n] = "reading"
      /\ \A r \in Servers : round[r].who = "server" => round[r].at = "dead"
  BY <1>3 DEF ClusterInv, ServingOK, Nodes
<1>5. Types'
  BY <1>1 DEF ClusterInv, Types
<1>6. MasterOK'
  BY <1>1, <1>2 DEF MasterOK
<1>7. CallersOK'
  BY <1>1 DEF ClusterInv, CallersOK
<1>8. ServingOK'
  BY <1>1, <1>4 DEF ServingOK, Nodes
<1>9. RoundsOK'
  BY <1>1 DEF ClusterInv, RoundsOK
<1>10. ConnectionsOK'
  BY <1>1 DEF ClusterInv, ConnectionsOK
<1>11. TimesOK'
  BY <1>1 DEF ClusterInv, TimesOK
<1>12. LinesOK'
  BY <1>1 DEF ClusterInv, LinesOK, Excused, Dead, Ends, Target
<1>13. NobodyAsksTheKilled'
  BY <1>1 DEF ClusterInv, NobodyAsksTheKilled, Dead
<1>14. TrialsOK'
  BY <1>1, ClusterAssumption DEF ClusterInv, TrialsOK, Callers, Nodes
<1> QED
  BY <1>5, <1>6, <1>7, <1>8, <1>9, <1>10, <1>11, <1>12, <1>13, <1>14 DEF ClusterInv

(* The state in which a command begins. *)
Commanded ==
  /\ ClusterInv /\ Master \in alive /\ todo = <<>>
  /\ UNCHANGED <<thread_vars, connection_vars, round, client_vars, members>>

(* A call that connects a process to a replica that runs, and is another. *)
ConnectsOther(do, living) ==
  do.op = "addConnection" => do.arg \in Servers \cap living /\ do.arg # do.to

(* A command that neither joins nor kills. *)
Plain ==
  /\ todo' \in Seq(DoSet) /\ alive' = alive
  /\ \A i \in 1 .. Len(todo') :
       todo'[i].op \notin {"register", "terminate"} /\ ConnectsOther(todo'[i], alive)

(* It leaves all as it is but the calls to be made. *)
LEMMA PlainCommand ==
  ASSUME Commanded, Plain
  PROVE  ClusterInv'
<1> USE DEF Commanded, Plain, ConnectsOther
<1>1. DOMAIN todo' = 1 .. Len(todo') /\ (todo' # <<>> => Len(todo') \in 1 .. Len(todo'))
  BY LenProperties, EmptySeq
<1>2. ~ Ends("register")' /\ ~ Ends("terminate")' /\ ~ Ends("register") /\ ~ Ends("terminate")
  BY <1>1 DEF Ends, Last
<1>3. TodoOK'
  BY <1>1, <1>2 DEF ClusterInv, TodoOK
<1>4. KillOK'
  BY <1>2 DEF KillOK
<1>5. alive' \subseteq Nodes \cup {Master}
  BY DEF ClusterInv, Types
<1> QED
  BY <1>3, <1>4, <1>5, CommandKeeps

(* The members are processes that run. *)
LEMMA MembersAlive ==
  ASSUME ClusterInv
  PROVE  members \subseteq Nodes /\ members \subseteq alive
BY DEF ClusterInv, Types, Callers

(* breakConnection. *)
LEMMA BreakConnectionIsPlain ==
  ASSUME Commanded, NEW a \in Nodes, NEW b \in Nodes, BreakConnection(a, b)
  PROVE  Plain
<1>1. todo' = <<Disconnect(a, b), Disconnect(b, a)>> /\ alive' = alive
  BY DEF BreakConnection
<1>2. Disconnect(a, b) \in DoSet /\ Disconnect(b, a) \in DoSet
  BY DEF Disconnect, Do, DoSet, MasterOps
<1>3. /\ todo' \in Seq(DoSet) /\ Len(todo') = 2
      /\ todo'[1] = Disconnect(a, b) /\ todo'[2] = Disconnect(b, a)
  BY <1>1, <1>2
<1>4. \A i \in 1 .. Len(todo') : todo'[i].op = "removeConnection"
  BY <1>3 DEF Disconnect, Do
<1> QED
  BY <1>1, <1>3, <1>4 DEF Plain, ConnectsOther

(* createConnection: replicas are told of replicas only. *)
LEMMA CreateConnectionIsPlain ==
  ASSUME Commanded, NEW a \in Nodes, NEW b \in Nodes, CreateConnection(a, b)
  PROVE  Plain
<1> DEFINE left == IF b \in Servers THEN <<Connect(a, b)>> ELSE <<>>
           right == IF a \in Servers THEN <<Connect(b, a)>> ELSE <<>>
<1>1. todo' = left \o right /\ alive' = alive /\ a \in members /\ b \in members /\ a # b
  BY DEF CreateConnection
<1>2. Connect(a, b) \in DoSet /\ Connect(b, a) \in DoSet
  BY DEF Connect, Do, DoSet, MasterOps
<1>3. /\ left \in Seq(DoSet) /\ Len(left) \in Nat
      /\ \A i \in 1 .. Len(left) : left[i] = Connect(a, b) /\ b \in Servers
  BY <1>2, EmptySeq
<1>4. /\ right \in Seq(DoSet) /\ Len(right) \in Nat
      /\ \A i \in 1 .. Len(right) : right[i] = Connect(b, a) /\ a \in Servers
  BY <1>2, EmptySeq
<1> HIDE DEF left, right
<1>5. /\ todo' \in Seq(DoSet) /\ Len(todo') = Len(left) + Len(right)
      /\ \A i \in 1 .. Len(left) + Len(right) :
           todo'[i] = IF i <= Len(left) THEN left[i] ELSE right[i - Len(left)]
  BY <1>1, <1>3, <1>4, ConcatProperties
<1>6. ASSUME NEW i \in 1 .. Len(todo')
      PROVE  \/ todo'[i] = Connect(a, b) /\ b \in Servers
             \/ todo'[i] = Connect(b, a) /\ a \in Servers
  <2>1. CASE i <= Len(left)
    <3>1. i \in 1 .. Len(left) /\ i \in 1 .. Len(left) + Len(right)
      BY <1>3, <1>4, <1>5, <2>1
    <3> QED
      BY <1>3, <1>5, <2>1, <3>1
  <2>2. CASE ~ (i <= Len(left))
    <3>1. i - Len(left) \in 1 .. Len(right) /\ i \in 1 .. Len(left) + Len(right)
      BY <1>3, <1>4, <1>5, <2>2
    <3> QED
      BY <1>4, <1>5, <2>2, <3>1
  <2> QED
    BY <2>1, <2>2
<1>7. a \in alive /\ b \in alive
  BY <1>1, MembersAlive DEF Commanded
<1>8. \A i \in 1 .. Len(todo') :
        /\ todo'[i].op = "addConnection" /\ todo'[i].arg \in Servers \cap alive
        /\ todo'[i].arg # todo'[i].to
  BY <1>1, <1>6, <1>7 DEF Connect, Do
<1> QED
  BY <1>1, <1>5, <1>8 DEF Plain, ConnectsOther

(* stabilize of the master: some passes over the replicas. *)
LEMMA StabilizeIsPlain ==
  ASSUME Commanded, Stabilize
  PROVE  Plain
<1>1. PICK order \in Orders(members \cap Servers) :
        todo' = [i \in 1 .. Passes * Len(order) |->
                   LET r == order[1 + ((i - 1) % Len(order))] IN Do(r, "stabilize", r)]
  BY DEF Stabilize
<1>2. /\ Len(order) \in Nat /\ \A i \in 1 .. Len(order) : order[i] \in Nodes
  BY OrdersProperties DEF Nodes
<1>3. PICK n \in Nat : n = Passes * Len(order)
  BY <1>2, ClusterAssumption
<1>4. ASSUME NEW i \in 1 .. n PROVE todo'[i] \in DoSet /\ todo'[i].op = "stabilize"
  <2>1. Len(order) # 0
    BY <1>2, <1>3, ClusterAssumption
  <2>2. (i - 1) % Len(order) \in 0 .. Len(order) - 1
    BY <1>2, <2>1
  <2>3. PICK j \in 1 .. Len(order) : j = 1 + ((i - 1) % Len(order))
    BY <1>2, <2>2
  <2>4. todo'[i] = Do(order[j], "stabilize", order[j])
    BY <1>1, <1>3, <2>3
  <2> QED
    BY <1>2, <2>4 DEF Do, DoSet, MasterOps
<1>5. todo' \in [1 .. n -> DoSet]
  BY <1>1, <1>3, <1>4
<1>6. todo' \in Seq(DoSet) /\ Len(todo') = n
  BY <1>5, FunctionIsSeq
<1> QED
  BY <1>4, <1>6 DEF Plain, ConnectsOther, Stabilize

(* printStore, put and get. *)
LEMMA OneCallIsPlain ==
  ASSUME Commanded, NEW n \in Nodes,
         NEW op \in {"getStore", "requestWrite", "requestRead"}, OneCall(n, op)
  PROVE  Plain
<1>1. todo' = <<Do(n, op, n)>> /\ alive' = alive
  BY DEF OneCall
<1>2. Do(n, op, n) \in DoSet /\ Do(n, op, n).op = op
  BY DEF Do, DoSet, MasterOps
<1>3. todo' \in Seq(DoSet) /\ Len(todo') = 1 /\ todo'[1] = Do(n, op, n)
  BY <1>1, <1>2
<1> QED
  BY <1>1, <1>2, <1>3 DEF Plain, ConnectsOther

(* A sequence of calls and the last one. *)
LEMMA Ended ==
  ASSUME NEW S, NEW calls \in Seq(S), NEW last \in S
  PROVE  LET q == calls \o <<last>> IN
         /\ q \in Seq(S) /\ Len(calls) \in Nat /\ Len(q) = Len(calls) + 1 /\ q # <<>>
         /\ DOMAIN q = 1 .. Len(calls) + 1
         /\ q[Len(calls) + 1] = last /\ Last(q) = last
         /\ \A i \in 1 .. Len(calls) : q[i] = calls[i]
<1> DEFINE q == calls \o <<last>>
<1>1. <<last>> \in Seq(S) /\ Len(<<last>>) = 1 /\ <<last>>[1] = last
  OBVIOUS
<1>2. /\ q \in Seq(S) /\ Len(q) = Len(calls) + 1
      /\ \A i \in 1 .. Len(calls) + 1 :
           q[i] = IF i <= Len(calls) THEN calls[i] ELSE <<last>>[i - Len(calls)]
  BY <1>1, ConcatProperties
<1> HIDE DEF q
<1>3. PICK k \in Nat : k = Len(calls)
  BY LenProperties
<1>4. \A i \in 1 .. k : i <= k /\ i \in 1 .. k + 1
  OBVIOUS
<1>5. k + 1 \in 1 .. k + 1 /\ ~ (k + 1 <= k) /\ (k + 1) - k = 1
  OBVIOUS
<1>6. q[k + 1] = last /\ \A i \in 1 .. k : q[i] = calls[i]
  BY <1>1, <1>2, <1>3, <1>4, <1>5
<1>7. DOMAIN q = 1 .. k + 1 /\ q # <<>>
  BY <1>2, <1>3, LenProperties, EmptySeq
<1> QED
  BY <1>2, <1>3, <1>6, <1>7 DEF q, Last

(***************************************************************************)
(* A join: everyone but the new process is called once, to be connected to *)
(* it, and then the new process is a member.                               *)
(***************************************************************************)
JoinCall(do, living) == do.op \in {"setID", "addConnection"} /\ ConnectsOther(do, living)

JoinOf(id) ==
  /\ id \notin alive /\ alive' = alive \cup {id}
  /\ todo' \in Seq(DoSet) /\ todo' # <<>> /\ Last(todo') = Do(id, "register", id)
  /\ \A i \in 1 .. Len(todo') :
       /\ i # Len(todo') => JoinCall(todo'[i], alive')
       /\ todo'[i].op = "addConnection" => id \in {todo'[i].to, todo'[i].arg}
       /\ \A j \in 1 .. Len(todo') :
            /\ todo'[i] = todo'[j] => i = j
            /\ todo'[i].to = todo'[j].to => i = j \/ todo'[i].to = id

(* Calls and register at the end of them are such a join. *)
LEMMA JoinEnds ==
  ASSUME NEW id \in Nodes, id \notin alive, alive' = alive \cup {id},
         NEW calls \in Seq(DoSet), todo' = calls \o <<Do(id, "register", id)>>,
         \A i \in 1 .. Len(calls) :
           /\ JoinCall(calls[i], alive')
           /\ calls[i].op = "addConnection" => id \in {calls[i].to, calls[i].arg},
         \A i, j \in 1 .. Len(calls) :
           /\ calls[i] = calls[j] => i = j
           /\ calls[i].to = calls[j].to => i = j \/ calls[i].to = id
  PROVE  JoinOf(id)
<1> DEFINE last == Do(id, "register", id)
<1>1. last \in DoSet /\ last.to = id /\ last.op = "register"
  BY DEF Do, DoSet
<1>2. PICK k \in Nat : k = Len(calls)
  BY LenProperties
<1>3. /\ todo' \in Seq(DoSet) /\ Len(todo') = k + 1 /\ todo' # <<>>
      /\ todo'[k + 1] = last /\ Last(todo') = last
      /\ \A i \in 1 .. k : todo'[i] = calls[i]
  BY <1>1, <1>2, Ended
<1> HIDE DEF last
<1>4. \A i \in 1 .. k + 1 : i # k + 1 => i \in 1 .. k
  OBVIOUS
<1>5. ASSUME NEW i \in 1 .. k + 1, i # k + 1
      PROVE  /\ JoinCall(todo'[i], alive')
             /\ todo'[i].op = "addConnection" => id \in {todo'[i].to, todo'[i].arg}
  BY <1>2, <1>3, <1>4, <1>5
<1>6. ASSUME NEW i \in 1 .. k + 1, NEW j \in 1 .. k + 1, todo'[i].to = todo'[j].to
      PROVE  i = j \/ todo'[i].to = id
  BY <1>1, <1>2, <1>3, <1>4, <1>6
<1>7. ASSUME NEW i \in 1 .. k + 1, NEW j \in 1 .. k + 1, todo'[i] = todo'[j]
      PROVE  i = j
  <2>1. \A a \in 1 .. k : todo'[a].op # "register"
    BY <1>2, <1>3 DEF JoinCall
  <2> QED
    BY <1>1, <1>2, <1>3, <1>4, <1>7, <2>1
<1>8. todo'[k + 1].op # "addConnection"
  BY <1>1, <1>3
<1> QED
  BY <1>3, <1>5, <1>6, <1>7, <1>8 DEF JoinOf, last

(* The new process is alive, and a member at the end. *)
LEMMA JoinCommand ==
  ASSUME Commanded, NEW id \in Nodes, JoinOf(id)
  PROVE  ClusterInv'
<1>1. Do(id, "register", id).op = "register" /\ Do(id, "register", id).to = id
  BY DEF Do
<1>2. Ends("register")' /\ ~ Ends("terminate")' /\ Target' = id
  BY <1>1 DEF JoinOf, Ends, Target
<1>3. ~ Ends("register")
  BY DEF Commanded, Ends
<1>4. alive \subseteq members \cup {Master}
  BY <1>3 DEF Commanded, ClusterInv, TodoOK
<1>5. \A i \in DOMAIN todo' :
        /\ todo'[i].op \in {"register", "terminate"} => i = Len(todo')
        /\ todo'[i].op = "addConnection" => todo'[i].arg \in Servers \cap alive'
  <2> SUFFICES ASSUME NEW i \in 1 .. Len(todo')
               PROVE  /\ todo'[i].op \in {"register", "terminate"} => i = Len(todo')
                      /\ todo'[i].op = "addConnection" => todo'[i].arg \in Servers \cap alive'
    BY LenProperties DEF JoinOf
  <2>1. CASE i = Len(todo')
    BY <1>1, <2>1 DEF JoinOf, Last
  <2>2. CASE i # Len(todo')
    BY <2>2 DEF JoinOf, JoinCall, ConnectsOther
  <2> QED
    BY <2>1, <2>2
<1>6. TodoOK'
  BY <1>2, <1>4, <1>5 DEF TodoOK, Commanded, JoinOf
<1>7. KillOK'
  BY <1>2 DEF KillOK
<1>8. alive \subseteq Nodes \cup {Master}
  BY DEF Commanded, ClusterInv, Types
<1> QED
  BY <1>6, <1>7, <1>8, CommandKeeps DEF Commanded, Callers, JoinOf

(* joinServer: both ways with each replica. *)
LEMMA JoinServerIsJoin ==
  ASSUME Commanded, NEW id \in Servers, JoinServer(id)
  PROVE  JoinOf(id)
<1> id \in Nodes
  BY DEF Nodes
<1> DEFINE Pair(order) == [i \in 1 .. 2 * Len(order) |->
                             IF i % 2 = 1 THEN Connect(order[(i + 1) \div 2], id)
                             ELSE Connect(id, order[i \div 2])]
<1>1. /\ alive' = alive \cup {id} /\ id \notin alive
      /\ \E order \in Orders(members \cap Servers) :
           todo' = <<Do(id, "setID", id)>> \o Pair(order) \o <<Do(id, "register", id)>>
  BY DEF JoinServer
<1>2. PICK order \in Orders(members \cap Servers) :
        todo' = <<Do(id, "setID", id)>> \o Pair(order) \o <<Do(id, "register", id)>>
  BY <1>1
<1>3. members \subseteq Nodes /\ members \subseteq alive
  BY MembersAlive DEF Commanded
<1>4. PICK k \in Nat : k = Len(order)
  BY <1>3, OrdersProperties
<1>5. /\ \A j \in 1 .. k : order[j] \in Servers \cap alive' /\ order[j] # id
      /\ \A i, j \in 1 .. k : order[i] = order[j] => i = j
  <2>1. members \cap Servers \subseteq Nodes
    BY DEF Nodes
  <2>2. /\ \A j \in 1 .. k : order[j] \in members \cap Servers
        /\ \A i, j \in 1 .. k : order[i] = order[j] => i = j
    BY <1>4, <2>1, OrdersProperties
  <2> QED
    BY <1>1, <1>3, <2>2
<1>6. ASSUME NEW s \in Servers \cap alive', NEW n \in Nodes, n # s
      PROVE  /\ Connect(n, s) \in DoSet /\ JoinCall(Connect(n, s), alive')
             /\ Connect(n, s).to = n /\ Connect(n, s).arg = s
             /\ Connect(n, s).op = "addConnection"
  BY <1>6 DEF Connect, Do, DoSet, MasterOps, Nodes, JoinCall, ConnectsOther
<1>7. PICK pairs : pairs = Pair(order)
  OBVIOUS
<1>8. ASSUME NEW i \in 1 .. 2 * k
      PROVE  /\ pairs[i] \in DoSet /\ JoinCall(pairs[i], alive')
             /\ pairs[i].op = "addConnection"
             /\ \E j \in 1 .. k :
                  \/ i = 2 * j /\ pairs[i].to = id /\ pairs[i].arg = order[j]
                  \/ i = 2 * j - 1 /\ pairs[i].to = order[j] /\ pairs[i].arg = id
  <2>1. CASE i % 2 = 1
    <3>1. PICK j \in 1 .. k : j = (i + 1) \div 2 /\ i = 2 * j - 1
      BY <2>1
    <3>2. pairs[i] = Connect(order[j], id)
      BY <1>4, <1>7, <2>1, <3>1
    <3>3. order[j] \in Nodes /\ order[j] # id /\ id \in Servers \cap alive'
      BY <1>1, <1>5 DEF Nodes
    <3>4. /\ pairs[i] \in DoSet /\ JoinCall(pairs[i], alive') /\ pairs[i].to = order[j]
          /\ pairs[i].op = "addConnection" /\ pairs[i].arg = id
      BY <1>6, <3>2, <3>3
    <3> QED
      BY <2>1, <3>1, <3>4
  <2>2. CASE i % 2 # 1
    <3>1. PICK j \in 1 .. k : j = i \div 2 /\ i = 2 * j
      BY <2>2
    <3>2. pairs[i] = Connect(id, order[j])
      BY <1>4, <1>7, <2>2, <3>1
    <3>3. /\ pairs[i] \in DoSet /\ JoinCall(pairs[i], alive') /\ pairs[i].to = id
          /\ pairs[i].op = "addConnection" /\ pairs[i].arg = order[j]
      BY <1>5, <1>6, <3>2
    <3> QED
      BY <3>1, <3>3
  <2> QED
    BY <2>1, <2>2
<1>9. pairs \in Seq(DoSet) /\ Len(pairs) = 2 * k
  <2>1. pairs = [i \in 1 .. 2 * k |-> pairs[i]]
    BY <1>4, <1>7
  <2>2. pairs \in [1 .. 2 * k -> DoSet] /\ 2 * k \in Nat
    BY <1>8, <2>1
  <2> QED
    BY <2>2, FunctionIsSeq
<1> HIDE DEF Pair
<1>10. PICK setID : setID = Do(id, "setID", id)
  OBVIOUS
<1>11. setID \in DoSet /\ JoinCall(setID, alive') /\ setID.to = id /\ setID.op = "setID"
  BY <1>10 DEF Do, DoSet, MasterOps, JoinCall, ConnectsOther
<1>12. PICK calls : calls = <<setID>> \o pairs
  OBVIOUS
<1>13. /\ calls \in Seq(DoSet) /\ Len(calls) = 1 + 2 * k
       /\ \A i \in 1 .. 1 + 2 * k : calls[i] = IF i <= 1 THEN setID ELSE pairs[i - 1]
  <2>1. <<setID>> \in Seq(DoSet) /\ Len(<<setID>>) = 1 /\ \A i \in 1 .. 1 : <<setID>>[i] = setID
    BY <1>11
  <2>2. /\ calls \in Seq(DoSet) /\ Len(calls) = 1 + 2 * k
        /\ \A i \in 1 .. 1 + 2 * k : calls[i] = IF i <= 1 THEN <<setID>>[i] ELSE pairs[i - 1]
    BY <1>9, <1>12, <2>1, ConcatProperties
  <2>3. \A i \in 1 .. 1 + 2 * k : i <= 1 => i \in 1 .. 1
    OBVIOUS
  <2> QED
    BY <2>1, <2>2, <2>3
<1>14. \A i \in 1 .. Len(calls) : i \in 1 .. 1 + 2 * k /\ (~ (i <= 1) => i - 1 \in 1 .. 2 * k)
  BY <1>13
<1>15. ASSUME NEW i \in 1 .. Len(calls)
       PROVE  /\ JoinCall(calls[i], alive')
              /\ calls[i].op = "addConnection" => id \in {calls[i].to, calls[i].arg}
  <2>1. CASE i <= 1
    BY <1>11, <1>13, <1>14, <2>1
  <2>2. CASE ~ (i <= 1)
    <3>1. i - 1 \in 1 .. 2 * k /\ calls[i] = pairs[i - 1]
      BY <1>13, <1>14, <2>2
    <3>2. JoinCall(pairs[i - 1], alive') /\ id \in {pairs[i - 1].to, pairs[i - 1].arg}
      BY <1>8, <3>1
    <3> QED
      BY <3>1, <3>2
  <2> QED
    BY <2>1, <2>2
<1>16. ASSUME NEW i \in 1 .. Len(calls), NEW j \in 1 .. Len(calls),
              calls[i].to = calls[j].to,
              calls[i].to # id \/ calls[i] = calls[j]
       PROVE  i = j
  <2>1. CASE i <= 1 \/ j <= 1
    <3>1. calls[i] = calls[j]
      BY <1>11, <1>13, <1>14, <1>16, <2>1
    <3>2. \A l \in 1 .. Len(calls) : ~ (l <= 1) => calls[l].op = "addConnection"
      BY <1>8, <1>13, <1>14
    <3> QED
      BY <1>11, <1>13, <2>1, <3>1, <3>2
  <2>2. CASE ~ (i <= 1) /\ ~ (j <= 1)
    <3>1. /\ i - 1 \in 1 .. 2 * k /\ j - 1 \in 1 .. 2 * k
          /\ calls[i] = pairs[i - 1] /\ calls[j] = pairs[j - 1]
      BY <1>13, <1>14, <2>2
    <3>2. PICK a \in 1 .. k :
            \/ i - 1 = 2 * a /\ calls[i].to = id /\ calls[i].arg = order[a]
            \/ i - 1 = 2 * a - 1 /\ calls[i].to = order[a] /\ calls[i].arg = id
      BY <1>8, <3>1
    <3>3. PICK b \in 1 .. k :
            \/ j - 1 = 2 * b /\ calls[j].to = id /\ calls[j].arg = order[b]
            \/ j - 1 = 2 * b - 1 /\ calls[j].to = order[b] /\ calls[j].arg = id
      BY <1>8, <3>1
    <3>4. order[a] # id /\ order[b] # id /\ (order[a] = order[b] => a = b)
      BY <1>5
    <3>5. a = b /\ (i - 1 = 2 * a <=> j - 1 = 2 * b)
      BY <1>16, <3>2, <3>3, <3>4
    <3> QED
      BY <1>13, <3>2, <3>3, <3>5
  <2> QED
    BY <2>1, <2>2
<1>17. todo' = calls \o <<Do(id, "register", id)>>
  BY <1>2, <1>7, <1>10, <1>12
<1> QED
  BY <1>1, <1>13, <1>15, <1>16, <1>17, JoinEnds

(* joinClient. *)
LEMMA JoinClientIsJoin ==
  ASSUME Commanded, NEW c \in Clients, NEW s \in Servers, JoinClient(c, s)
  PROVE  JoinOf(c)
<1> c \in Nodes /\ s \in Nodes /\ c # s
  BY ClusterAssumption DEF Nodes
<1>1. /\ alive' = alive \cup {c} /\ c \notin alive /\ s \in members
      /\ todo' = <<Do(c, "setID", c), Connect(c, s), Do(c, "register", c)>>
  BY DEF JoinClient
<1>2. PICK setID : setID = Do(c, "setID", c)
  OBVIOUS
<1>3. PICK connect : connect = Connect(c, s)
  OBVIOUS
<1>4. PICK calls : calls = <<setID, connect>>
  OBVIOUS
<1>5. /\ setID \in DoSet /\ setID.op = "setID" /\ setID.to = c
      /\ connect \in DoSet /\ connect.op = "addConnection" /\ connect.arg = s /\ connect.to = c
  BY <1>2, <1>3 DEF Connect, Do, DoSet, MasterOps
<1>6. calls \in Seq(DoSet) /\ Len(calls) = 2 /\ calls[1] = setID /\ calls[2] = connect
  BY <1>4, <1>5
<1>7. todo' = calls \o <<Do(c, "register", c)>>
  BY <1>1, <1>2, <1>3, <1>4
<1>8. s \in alive'
  BY <1>1, MembersAlive DEF Commanded
<1>9. \A i \in 1 .. 2 : i = 1 \/ i = 2
  OBVIOUS
<1>10. \A i \in 1 .. Len(calls) : JoinCall(calls[i], alive') /\ calls[i].to = c
  BY <1>5, <1>6, <1>8, <1>9 DEF JoinCall, ConnectsOther
<1>11. \A i, j \in 1 .. Len(calls) : calls[i] = calls[j] => i = j
  BY <1>5, <1>6, <1>9
<1> QED
  BY <1>1, <1>6, <1>7, <1>10, <1>11, JoinEnds

(* killServer: every member, the process itself too, is going to remove it. *)
LEMMA KillServerInv ==
  ASSUME Commanded, NEW id \in Servers, KillServer(id)
  PROVE  ClusterInv' /\ Ends("terminate")'
<1> id \in Nodes
  BY DEF Nodes
<1>1. PICK order \in Orders(members) :
        todo' = [i \in DOMAIN order |-> Disconnect(order[i], id)] \o <<Do(id, "terminate", id)>>
  BY DEF KillServer
<1>2. members \subseteq Nodes /\ alive' = alive
  BY MembersAlive DEF Commanded, KillServer
<1>3. PICK k \in Nat : k = Len(order)
  BY <1>2, OrdersProperties
<1>4. /\ DOMAIN order = 1 .. k /\ \A i \in 1 .. k : order[i] \in Nodes
      /\ \A n \in members : \E i \in 1 .. k : order[i] = n
  BY <1>2, <1>3, OrdersProperties
<1>5. PICK calls : calls = [i \in 1 .. k |-> Disconnect(order[i], id)]
  OBVIOUS
<1>6. PICK last : last = Do(id, "terminate", id)
  OBVIOUS
<1>7. last \in DoSet /\ last.op = "terminate" /\ last.to = id
  BY <1>6 DEF Do, DoSet
<1>8. calls \in Seq(DoSet) /\ Len(calls) = k
  <2>1. \A n \in Nodes : Disconnect(n, id) \in DoSet
    BY DEF Disconnect, Do, DoSet, MasterOps
  <2>2. calls \in [1 .. k -> DoSet]
    BY <1>4, <1>5, <2>1
  <2> QED
    BY <2>2, FunctionIsSeq
<1>9. todo' = calls \o <<last>>
  BY <1>1, <1>4, <1>5, <1>6
<1>10. /\ todo' \in Seq(DoSet) /\ Len(todo') = k + 1 /\ todo' # <<>>
       /\ DOMAIN todo' = 1 .. k + 1
       /\ todo'[k + 1] = last /\ Last(todo') = last
       /\ \A i \in 1 .. k : todo'[i] = Disconnect(order[i], id)
  <2>1. /\ todo' \in Seq(DoSet) /\ Len(todo') = k + 1 /\ todo' # <<>>
        /\ DOMAIN todo' = 1 .. k + 1
        /\ todo'[k + 1] = last /\ Last(todo') = last
        /\ \A i \in 1 .. k : todo'[i] = calls[i]
    BY <1>7, <1>8, <1>9, Ended
  <2> QED
    BY <1>5, <2>1
<1>11. ~ Ends("register")' /\ Ends("terminate")' /\ Target' = id
  BY <1>7, <1>10 DEF Ends, Target
<1>12. \A i \in 1 .. k + 1 : i # k + 1 => i \in 1 .. k
  OBVIOUS
<1>13. \A i \in DOMAIN todo' : i # Len(todo') =>
            todo'[i].op = "removeConnection" /\ todo'[i].arg = id
  <2>1. \A n : Disconnect(n, id).op = "removeConnection" /\ Disconnect(n, id).arg = id
    BY DEF Disconnect, Do
  <2>2. ASSUME NEW i \in 1 .. k + 1, i # k + 1
        PROVE  todo'[i].op = "removeConnection" /\ todo'[i].arg = id
    <3>1. todo'[i] = Disconnect(order[i], id)
      BY <1>10, <1>12, <2>2
    <3> QED
      BY <2>1, <3>1
  <2> QED
    BY <1>10, <2>2
<1>14. TodoOK'
  <2>1. Master \in alive /\ alive \subseteq members \cup {Master}
    BY DEF Commanded, ClusterInv, TodoOK, Ends
  <2> QED
    BY <1>2, <1>7, <1>10, <1>11, <1>13, <2>1 DEF TodoOK, Commanded
<1>15. KillOK'
  <2>1. call'[Master].answer # "ok"
    BY DEF Commanded, thread_vars, ClusterInv, MasterOK, NoCall
  <2>2. members' = members
    BY DEF Commanded
  <2>3. \A i \in 1 .. k : i \in DOMAIN todo'
    BY <1>10
  <2> QED
    BY <1>4, <1>10, <1>11, <2>1, <2>2, <2>3 DEF KillOK
<1> QED
  <2>1. alive \subseteq alive' /\ alive' \subseteq Nodes \cup {Master}
    BY <1>2 DEF Commanded, ClusterInv, Types
  <2> QED
    BY <1>10, <1>11, <1>14, <1>15, <2>1, CommandKeeps DEF Commanded

(* The commands are of three kinds. *)
LEMMA CommandKinds ==
  ASSUME ClusterInv, Command
  PROVE  /\ Commanded
         /\ Plain \/ (\E id \in Nodes : JoinOf(id)) \/ (\E id \in Servers : KillServer(id))
<1>1. Commanded
  BY DEF Command, Commanded
<1>2. \/ \E id \in Servers : JoinServer(id) \/ KillServer(id)
      \/ \E c \in Clients, s \in Servers : JoinClient(c, s)
      \/ \E a, b \in Nodes : BreakConnection(a, b) \/ CreateConnection(a, b)
      \/ Stabilize
      \/ \E n \in Nodes : \E op \in {"getStore", "requestWrite", "requestRead"} : OneCall(n, op)
  BY DEF Command
<1> QED
  BY <1>1, <1>2, JoinServerIsJoin, JoinClientIsJoin, BreakConnectionIsPlain,
     CreateConnectionIsPlain, StabilizeIsPlain, OneCallIsPlain DEF Nodes

(* Any command. *)
LEMMA CommandInv ==
  ASSUME ClusterInv, Command
  PROVE  ClusterInv'
BY CommandKinds, PlainCommand, JoinCommand, KillServerInv

-----------------------------------------------------------------------------
(***************************************************************************)
(* When the master waits for nobody, no handler is in the middle of its    *)
(* work for it.                                                            *)
(***************************************************************************)
LEMMA NoMasterCall ==
  ASSUME ClusterInv, call[Master] = NoCall \/ call[Master].answer # "none"
  PROVE  /\ \A n \in Nodes : serving[n] = "reading"
         /\ \A r \in Servers : round[r].who = "server" => round[r].at = "dead"
         /\ \A c \in Clients : call[c] = NoCall
<1>1. \A n \in Nodes :
        ~ (MasterAt(n, Requests) \/ MasterAt(n, {"addConnection"}) \/ MasterAt(n, {"stabilize"}))
  BY ClusterAssumption DEF MasterAt, NoCall
<1>2. /\ \A n \in Nodes : serving[n] = "reading"
      /\ \A r \in Servers : round[r].who = "server" => round[r].at = "dead"
  BY <1>1 DEF ClusterInv, ServingOK, Nodes
<1> QED
  BY <1>2 DEF ClusterInv, CallersOK, Nodes

(* The first of the calls left. If it ends the command it is the only one. *)
LEMMA HeadOfTodo ==
  ASSUME ClusterInv, todo # <<>>
  PROVE  /\ Len(todo) \in Nat /\ Len(todo) >= 1 /\ DOMAIN todo = 1 .. Len(todo)
         /\ Head(todo) = todo[1] /\ todo[1] \in DoSet /\ Master \in alive
         /\ todo[1].op \in {"register", "terminate"} =>
              Len(todo) = 1 /\ call[Master] = NoCall /\ Ends(todo[1].op) /\ Target = todo[1].to
<1>1. todo \in Seq(DoSet)
  BY DEF ClusterInv, Types
<1>2. /\ Len(todo) \in Nat /\ Len(todo) >= 1 /\ DOMAIN todo = 1 .. Len(todo)
      /\ Head(todo) = todo[1] /\ todo[1] \in DoSet /\ 1 \in DOMAIN todo
  BY <1>1, HeadTailProperties, LenProperties, EmptySeq
<1>3. Master \in alive
  BY DEF ClusterInv, TodoOK
<1>4. todo[1].op \in {"register", "terminate"} => Len(todo) = 1
  BY <1>2 DEF ClusterInv, TodoOK
<1>5. todo[1].op \in {"register", "terminate"} => call[Master] = NoCall
  BY DEF ClusterInv, MasterOK, MasterOps
<1> QED
  BY <1>2, <1>3, <1>4, <1>5 DEF Ends, Target, Last

(* What is left of a command after its first call. *)
LEMMA RestOfTodo ==
  ASSUME ClusterInv, todo # <<>>, todo' = Tail(todo), NEW k \in Nat, k = Len(todo)
  PROVE  /\ todo' \in Seq(DoSet) /\ Len(todo') = k - 1 /\ DOMAIN todo' = 1 .. k - 1
         /\ \A i \in 1 .. k - 1 : i + 1 \in 1 .. k /\ todo'[i] = todo[i + 1]
         /\ todo' # <<>> => k > 1 /\ Last(todo') = Last(todo)
         /\ k > 1 => todo' # <<>>
<1>1. todo \in Seq(DoSet) /\ k >= 1
  BY HeadOfTodo DEF ClusterInv, Types
<1>2. /\ todo' \in Seq(DoSet) /\ Len(todo') = k - 1
      /\ \A i \in 1 .. k - 1 : todo'[i] = todo[i + 1]
  BY <1>1, HeadTailProperties
<1>3. DOMAIN todo' = 1 .. k - 1 /\ (todo' # <<>> <=> k > 1)
  <2>1. k - 1 > 0 <=> k > 1
    OBVIOUS
  <2>2. Len(todo') = 0 <=> todo' = <<>>
    BY <1>2, EmptySeq
  <2>3. DOMAIN todo' = 1 .. Len(todo') /\ Len(todo') \in Nat
    BY <1>2, LenProperties
  <2> QED
    BY <1>1, <1>2, <2>1, <2>2, <2>3
<1>4. k > 1 => k - 1 \in 1 .. k - 1 /\ (k - 1) + 1 = k
  OBVIOUS
<1>5. k > 1 => Last(todo') = Last(todo)
  BY <1>2, <1>4 DEF Last
<1>6. \A i \in 1 .. k - 1 : i + 1 \in 1 .. k
  OBVIOUS
<1> QED
  BY <1>2, <1>3, <1>5, <1>6

(* The master opens a connection and calls. *)
LEMMA MasterCallsInv ==
  ASSUME ClusterInv, MasterCalls
  PROVE  ClusterInv'
<1>1. /\ todo # <<>> /\ todo[1].op \notin {"register", "terminate"} /\ call[Master] = NoCall
      /\ todo[1] \in DoSet /\ Master \in alive
      /\ line' = Opened(Master, todo[1].to)
      /\ call' = Called(Master, todo[1].to, todo[1].op, todo[1].arg)
      /\ UNCHANGED <<serving, reachable, stubs, transports, round, time, applied, alive, todo,
                     members>>
  BY HeadOfTodo DEF MasterCalls, connection_vars, client_vars, master_vars
<1>2. PICK n \in Nodes : n = todo[1].to
  BY <1>1 DEF DoSet
<1>3. todo[1].op \in MasterOps /\ todo[1].arg \in Nodes
  BY <1>1 DEF DoSet
<1>4. /\ \A m \in Nodes : serving[m] = "reading"
      /\ \A r \in Servers : round[r].who = "server" => round[r].at = "dead"
      /\ \A c \in Clients : call[c] = NoCall
  BY <1>1, NoMasterCall
<1>5. /\ call' \in [Callers -> CallSet]
      /\ call'[Master] # NoCall /\ call'[Master].to = n /\ call'[Master].op = todo[1].op
      /\ call'[Master].arg = todo[1].arg /\ call'[Master].answer = "none"
      /\ \A y \in Callers : y # Master => call'[y] = call[y]
  <2>1. PICK c : c = [to |-> n, op |-> todo[1].op, arg |-> todo[1].arg, answer |-> "none"]
    OBVIOUS
  <2>2. c \in CallSet /\ c # NoCall
    BY <1>3, <2>1, ClusterAssumption DEF CallSet, NoCall
  <2>3. call \in [Callers -> CallSet] /\ call' = [call EXCEPT ![Master] = c] /\ Master \in Callers
    BY <1>1, <1>2, <2>1 DEF ClusterInv, Types, Called, Callers
  <2> QED
    BY <2>1, <2>2, <2>3
<1>6. /\ LineType(line')
      /\ \A m \in Nodes, y \in Callers :
           Contains(line'[m], y) <=> Contains(line[m], y) \/ (m = n /\ y = Master)
  <2>1. LineType(line) /\ Master \in Callers
    BY DEF ClusterInv, Types, Callers
  <2> QED
    BY <1>1, <1>2, <2>1, OpenedLine
<1>7. Types'
  BY <1>1, <1>5, <1>6 DEF ClusterInv, Types
<1>8. TodoOK'
  BY <1>1 DEF ClusterInv, TodoOK, Ends, Target
<1>9. MasterOK'
  BY <1>1, <1>2, <1>3, <1>5 DEF MasterOK
<1>10. CallersOK'
  BY <1>1, <1>5, ClusterAssumption DEF ClusterInv, CallersOK, Callers, Nodes
<1>11. ServingOK'
  BY <1>1, <1>4 DEF ServingOK, Nodes
<1>12. RoundsOK'
  BY <1>1 DEF ClusterInv, RoundsOK
<1>13. ConnectionsOK'
  BY <1>1, <1>4 DEF ClusterInv, ConnectionsOK, Nodes
<1>14. KillOK'
  <2>1. \A r \in Servers : call'[r] = call[r]
    BY <1>5, ClusterAssumption DEF Callers, Nodes
  <2> QED
    BY <1>1, <1>5, <2>1 DEF ClusterInv, KillOK, Removed, Dead, Ends, Target
<1>15. TimesOK'
  <2>1. \A c \in Clients : call'[c] = NoCall
    BY <1>4, <1>5, ClusterAssumption DEF Callers, Nodes
  <2>2. \A c \in Clients : applied[c] = time[c]
    BY <1>1, <1>4 DEF ClusterInv, TimesOK, NoCall
  <2> QED
    BY <1>1, <2>1, <2>2 DEF TimesOK, NoCall
<1>16. LinesOK'
  <2> SUFFICES ASSUME NEW m \in Nodes, NEW y \in Nodes \cup {Master},
                      Contains(line'[m], y)
               PROVE  Excused(m, y)'
    BY DEF LinesOK
  <2> y \in Callers
    BY DEF Callers
  <2>1. CASE y = Master
    <3>1. Contains(line[m], Master) => Ends("register") /\ Target = m
      BY <1>1, <2>1, ClusterAssumption DEF ClusterInv, LinesOK, Excused, NoCall, Nodes
    <3>2. Ends("register")' = Ends("register") /\ Target' = Target
      BY <1>1 DEF Ends, Target
    <3> QED
      BY <1>5, <1>6, <2>1, <3>1, <3>2 DEF Excused
  <2>2. CASE y # Master
    BY <1>1, <1>5, <1>6, <2>2 DEF ClusterInv, LinesOK, Excused, Dead, NoCall
  <2> QED
    BY <2>1, <2>2
<1>17. NobodyAsksTheKilled'
  BY <1>1, <1>5, ClusterAssumption DEF ClusterInv, NobodyAsksTheKilled, Dead, Callers, Nodes
<1>18. TrialsOK'
  BY <1>4, <1>6, NoTrials DEF ClusterInv, Nodes
<1> QED
  BY <1>7, <1>8, <1>9, <1>10, <1>11, <1>12, <1>13, <1>14, <1>15, <1>16, <1>17, <1>18 DEF ClusterInv

(***************************************************************************)
(* The master takes an answer: the rest of the command is a command, and   *)
(* what it has been told to remove is removed.                             *)
(***************************************************************************)
LEMMA MasterReturnsInv ==
  ASSUME ClusterInv, MasterReturns
  PROVE  ClusterInv'
<1>1. /\ call[Master].answer = "ok" /\ call' = [call EXCEPT ![Master] = NoCall]
      /\ line' = IF Kept(call[Master].to) THEN line ELSE Closed(Master, call[Master].to)
      /\ todo' = Tail(todo)
      /\ UNCHANGED <<serving, reachable, stubs, transports, round, time, applied, alive,
                     members>>
  BY DEF MasterReturns, connection_vars, client_vars
<1>2. call[Master] # NoCall
  BY <1>1 DEF NoCall
<1>3. todo # <<>> /\ todo[1].op \in MasterOps /\ call[Master].to = todo[1].to
  BY <1>2 DEF ClusterInv, MasterOK
<1>4. PICK k \in Nat : k = Len(todo)
  BY <1>3, HeadOfTodo
<1>5. k >= 1 /\ DOMAIN todo = 1 .. k /\ todo[1] \in DoSet /\ Master \in alive
  BY <1>3, <1>4, HeadOfTodo
<1>6. PICK n \in Nodes : n = call[Master].to
  BY <1>3, <1>5 DEF DoSet
<1>7. /\ todo' \in Seq(DoSet) /\ Len(todo') = k - 1 /\ DOMAIN todo' = 1 .. k - 1
      /\ \A i \in 1 .. k - 1 : i + 1 \in 1 .. k /\ todo'[i] = todo[i + 1]
      /\ todo' # <<>> => k > 1 /\ Last(todo') = Last(todo)
      /\ k > 1 => todo' # <<>>
  BY <1>1, <1>3, <1>4, RestOfTodo
<1>8. /\ Ends("terminate")' => Ends("terminate") /\ Target' = Target
      /\ Ends("register") <=> Ends("register")'
      /\ Ends("register") => Target' = Target
  <2>1. k = 1 => Last(todo) = todo[1]
    BY <1>4 DEF Last
  <2>2. ~ (k > 1) => k = 1
    BY <1>5
  <2> QED
    BY <1>3, <1>7, <2>1, <2>2 DEF Ends, Target, MasterOps
<1>9. /\ \A m \in Nodes : serving[m] = "reading"
      /\ \A r \in Servers : round[r].who = "server" => round[r].at = "dead"
      /\ \A c \in Clients : call[c] = NoCall
  BY <1>1, NoMasterCall
<1>10. /\ call' \in [Callers -> CallSet] /\ call'[Master] = NoCall
       /\ \A y \in Callers : y # Master => call'[y] = call[y]
  <2>1. call \in [Callers -> CallSet] /\ NoCall \in CallSet /\ Master \in Callers
    BY DEF ClusterInv, Types, CallSet, Callers
  <2> QED
    BY <1>1, <2>1
<1>11. /\ LineType(line')
       /\ \A m \in Nodes, y \in Callers :
            Contains(line'[m], y) => Contains(line[m], y) /\ (m = n /\ y = Master => Kept(n))
  <2>1. LineType(line)
    BY DEF ClusterInv, Types
  <2>2. CASE Kept(n)
    BY <1>1, <1>6, <2>1, <2>2
  <2>3. CASE ~ Kept(n)
    <3>1. line' = Closed(Master, n)
      BY <1>1, <1>6, <2>3
    <3> QED
      BY <2>1, <3>1, ClosedLine
  <2> QED
    BY <2>2, <2>3
<1>12. Types'
  BY <1>1, <1>7, <1>10, <1>11 DEF ClusterInv, Types
<1>13. TodoOK'
  <2>1. \A i \in DOMAIN todo' :
          /\ todo'[i].op \in {"register", "terminate"} => i = Len(todo')
          /\ todo'[i].op = "addConnection" => todo'[i].arg \in Servers \cap alive'
    <3> SUFFICES ASSUME NEW i \in 1 .. k - 1
                 PROVE  /\ todo'[i].op \in {"register", "terminate"} => i = k - 1
                        /\ todo'[i].op = "addConnection" => todo'[i].arg \in Servers \cap alive
      BY <1>1, <1>7
    <3>1. todo'[i] = todo[i + 1] /\ i + 1 \in DOMAIN todo
      BY <1>5, <1>7
    <3>2. todo[i + 1].op \in {"register", "terminate"} => i + 1 = k
      BY <1>4, <3>1 DEF ClusterInv, TodoOK
    <3>3. todo[i + 1].op = "addConnection" => todo[i + 1].arg \in Servers \cap alive
      BY <3>1 DEF ClusterInv, TodoOK
    <3>4. i + 1 = k => i = k - 1
      OBVIOUS
    <3> QED
      BY <3>1, <3>2, <3>3, <3>4
  <2>2. ASSUME Ends("terminate")'
        PROVE  /\ Target \in Servers
               /\ \A i \in DOMAIN todo' : i # Len(todo') =>
                    todo'[i].op = "removeConnection" /\ todo'[i].arg = Target
    <3>1. ASSUME NEW i \in 1 .. k - 1, i # k - 1
          PROVE  todo'[i].op = "removeConnection" /\ todo'[i].arg = Target
      <4>1. todo'[i] = todo[i + 1] /\ i + 1 \in DOMAIN todo
        BY <1>5, <1>7
      <4>2. i + 1 # k
        BY <3>1
      <4> QED
        BY <1>4, <1>8, <2>2, <4>1, <4>2 DEF ClusterInv, TodoOK
    <3> QED
      BY <1>7, <1>8, <2>2, <3>1 DEF ClusterInv, TodoOK
  <2>3. Ends("register") => Target \in alive
    BY DEF ClusterInv, TodoOK
  <2>4. alive \subseteq members \cup {Master} \cup (IF Ends("register") THEN {Target} ELSE {})
    BY <1>5 DEF ClusterInv, TodoOK
  <2> QED
    BY <1>1, <1>5, <1>8, <2>1, <2>2, <2>3, <2>4 DEF TodoOK
<1>14. MasterOK'
  BY <1>10 DEF MasterOK
<1>15. CallersOK'
  BY <1>1, <1>10, ClusterAssumption DEF ClusterInv, CallersOK, Callers, Nodes
<1>16. ServingOK'
  BY <1>1, <1>9 DEF ServingOK, Nodes
<1>17. RoundsOK'
  BY <1>1 DEF ClusterInv, RoundsOK
<1>18. ConnectionsOK'
  BY <1>1, <1>9 DEF ClusterInv, ConnectionsOK, Nodes
<1>19. KillOK'
  <2> SUFFICES ASSUME Ends("terminate")', NEW m \in members
               PROVE  \/ Removed(m, Target)'
                      \/ \E i \in DOMAIN todo' :
                           /\ todo'[i] = Disconnect(m, Target')
                           /\ i = 1 => call'[Master].answer # "ok"
    BY <1>1 DEF KillOK
  <2>1. Ends("terminate") /\ Target' = Target
    BY <1>8
  <2>2. CASE Removed(m, Target)
    <3>1. \A r \in Servers : call'[r] = call[r]
      BY <1>10, ClusterAssumption DEF Callers, Nodes
    <3>2. Removed(m, Target)'
      BY <1>1, <2>1, <2>2, <3>1 DEF Removed, Dead
    <3> QED
      BY <3>2
  <2>3. CASE ~ Removed(m, Target)
    <3>1. PICK i \in DOMAIN todo : todo[i] = Disconnect(m, Target) /\ i # 1
      BY <1>1, <2>1, <2>3 DEF ClusterInv, KillOK
    <3>2. PICK j \in 1 .. k - 1 : j + 1 = i
      BY <1>5, <3>1
    <3>3. todo'[j] = Disconnect(m, Target') /\ j \in DOMAIN todo'
      BY <1>7, <2>1, <3>1, <3>2
    <3> QED
      BY <1>10, <3>3 DEF NoCall
  <2> QED
    BY <2>2, <2>3
<1>20. TimesOK'
  <2>1. \A c \in Clients : call'[c] = call[c]
    BY <1>10, ClusterAssumption DEF Callers, Nodes
  <2> QED
    BY <1>1, <1>5, <2>1 DEF ClusterInv, TimesOK
<1>21. LinesOK'
  <2> SUFFICES ASSUME NEW m \in Nodes, NEW y \in Nodes \cup {Master},
                      Contains(line'[m], y)
               PROVE  Excused(m, y)'
    BY DEF LinesOK
  <2> y \in Callers
    BY DEF Callers
  <2>1. Excused(m, y)
    BY <1>11 DEF ClusterInv, LinesOK
  <2>2. CASE y = Master
    <3>1. Ends("register") /\ Target = m
      <4>1. m = n => Ends("register") /\ Target = n
        BY <1>3, <1>11, <2>2 DEF Kept, Ends, Target
      <4> QED
        BY <1>5, <1>6, <2>1, <2>2, <4>1, ClusterAssumption DEF Excused, Nodes
    <3>2. Ends("register")' /\ Target' = m
      BY <1>8, <3>1
    <3> QED
      BY <2>2, <3>2 DEF Excused
  <2>3. CASE y # Master
    BY <1>1, <1>5, <1>10, <2>1, <2>3 DEF Excused, Dead
  <2> QED
    BY <2>2, <2>3
<1>22. NobodyAsksTheKilled'
  BY <1>1, <1>10, ClusterAssumption DEF ClusterInv, NobodyAsksTheKilled, Dead, Callers, Nodes
<1>23. TrialsOK'
  BY <1>9, <1>11, NoTrials DEF ClusterInv, Nodes
<1> QED
  BY <1>12, <1>13, <1>14, <1>15, <1>16, <1>17, <1>18, <1>19, <1>20, <1>21, <1>22, <1>23 DEF ClusterInv

(* The master ends by an exception. *)
LEMMA MasterFailsInv ==
  ASSUME ClusterInv, MasterFails
  PROVE  ClusterInv'
<1>1. /\ call[Master].answer = "exception" /\ call' = [call EXCEPT ![Master] = NoCall]
      /\ alive' = alive \ {Master} /\ todo' = <<>>
      /\ UNCHANGED <<line, serving, reachable, stubs, transports, round, time, applied, members>>
  BY DEF MasterFails, connection_vars, client_vars
<1>2. /\ \A m \in Nodes : serving[m] = "reading"
      /\ \A r \in Servers : round[r].who = "server" => round[r].at = "dead"
      /\ \A c \in Clients : call[c] = NoCall
  BY <1>1, NoMasterCall
<1>3. /\ call \in [Callers -> CallSet]
      /\ call' \in [Callers -> CallSet] /\ call'[Master] = NoCall
      /\ \A y \in Callers : y # Master => call'[y] = call[y]
  <2>1. call \in [Callers -> CallSet] /\ NoCall \in CallSet /\ Master \in Callers
    BY DEF ClusterInv, Types, CallSet, Callers
  <2> QED
    BY <1>1, <2>1
<1>4. \A m \in Nodes : m # Master /\ m \in Callers
  BY ClusterAssumption DEF Callers
<1>5. LineType(line')
  BY <1>1 DEF ClusterInv, Types
<1>6. Types'
  <2>1. todo' \in Seq(DoSet)
    BY <1>1, EmptySeq
  <2> QED
    BY <1>1, <1>3, <1>5, <2>1 DEF ClusterInv, Types
<1>7. TodoOK'
  BY <1>1, EmptySeq DEF TodoOK, Ends
<1>8. MasterOK'
  BY <1>3 DEF MasterOK
<1>9. CallersOK'
  BY <1>1, <1>3, <1>4 DEF ClusterInv, CallersOK, Nodes
<1>10. ServingOK'
  BY <1>1, <1>2 DEF ServingOK, Nodes
<1>11. RoundsOK'
  BY <1>1, <1>4 DEF ClusterInv, RoundsOK, Nodes
<1>12. ConnectionsOK'
  <2>1. \A n \in Nodes : Master \notin reachable[n]
    BY <1>4 DEF ClusterInv, Types, Nodes
  <2> QED
    BY <1>1, <1>2, <1>4, <2>1 DEF ClusterInv, ConnectionsOK, Nodes
<1>13. KillOK'
  BY <1>1 DEF KillOK, Ends
<1>14. TimesOK'
  <2>1. \A c \in Clients : call'[c] = NoCall
    BY <1>2, <1>3, <1>4 DEF Nodes
  <2> QED
    BY <1>1, <2>1 DEF ClusterInv, TimesOK, NoCall
<1>15. LinesOK'
  BY <1>1, <1>3, <1>5 DEF ClusterInv, LinesOK, Excused, Dead
<1>16. NobodyAsksTheKilled'
  <2> SUFFICES ASSUME NEW x \in Nodes, x \in Servers => ~ Dead(x)', call'[x] # NoCall
               PROVE  call'[x].to \in alive'
    BY DEF NobodyAsksTheKilled
  <2>1. call[x] # NoCall /\ call'[x] = call[x] /\ (x \in Servers => ~ Dead(x))
    BY <1>1, <1>3, <1>4 DEF Dead
  <2>2. call[x].to \in Nodes
    BY <1>3, <1>4, <2>1 DEF CallSet
  <2>3. call[x].to \in alive
    BY <2>1 DEF ClusterInv, NobodyAsksTheKilled
  <2> QED
    BY <1>1, <1>4, <2>1, <2>2, <2>3
<1>17. TrialsOK'
  BY <1>1, <1>2, NoTrials DEF ClusterInv, Nodes
<1> QED
  BY <1>6, <1>7, <1>8, <1>9, <1>10, <1>11, <1>12, <1>13, <1>14, <1>15, <1>16, <1>17 DEF ClusterInv

(* The new process is a member, and the connection to it closed. *)
LEMMA RegisterInv ==
  ASSUME ClusterInv, Register
  PROVE  ClusterInv'
<1>1. /\ todo # <<>> /\ todo[1].op = "register" /\ todo[1] \in DoSet
      /\ call[Master] = NoCall /\ Master \in alive
      /\ Ends("register") /\ Target = todo[1].to
      /\ line' = Closed(Master, todo[1].to) /\ members' = members \cup {todo[1].to} /\ todo' = <<>>
      /\ UNCHANGED <<call, serving, reachable, stubs, transports, round, time, applied, alive>>
  BY HeadOfTodo DEF Register, connection_vars, client_vars
<1>2. PICK id \in Nodes : id = todo[1].to
  BY <1>1 DEF DoSet
<1>3. id \in alive /\ Target = id
  BY <1>1, <1>2 DEF ClusterInv, TodoOK
<1>4. /\ \A m \in Nodes : serving[m] = "reading"
      /\ \A r \in Servers : round[r].who = "server" => round[r].at = "dead"
      /\ \A c \in Clients : call[c] = NoCall
  BY <1>1, NoMasterCall
<1>5. /\ LineType(line')
      /\ \A m \in Nodes, y \in Callers :
           Contains(line'[m], y) <=> Contains(line[m], y) /\ ~ (m = id /\ y = Master)
  <2>1. LineType(line)
    BY DEF ClusterInv, Types
  <2> QED
    BY <1>1, <1>2, <2>1, ClosedLine
<1>6. Types'
  <2>1. todo' \in Seq(DoSet)
    BY <1>1, EmptySeq
  <2> QED
    BY <1>1, <1>2, <1>3, <1>5, <2>1, ClusterAssumption DEF ClusterInv, Types
<1>7. TodoOK'
  <2>1. alive \subseteq members \cup {Master} \cup {id}
    BY <1>1, <1>3 DEF ClusterInv, TodoOK
  <2> QED
    BY <1>1, <1>2, <2>1, EmptySeq DEF TodoOK, Ends
<1>8. MasterOK'
  BY <1>1 DEF MasterOK
<1>9. CallersOK'
  BY <1>1 DEF ClusterInv, CallersOK
<1>10. ServingOK'
  BY <1>1, <1>4 DEF ServingOK, Nodes
<1>11. RoundsOK'
  BY <1>1 DEF ClusterInv, RoundsOK
<1>12. ConnectionsOK'
  BY <1>1 DEF ClusterInv, ConnectionsOK
<1>13. KillOK'
  BY <1>1 DEF KillOK, Ends
<1>14. TimesOK'
  BY <1>1 DEF ClusterInv, TimesOK
<1>15. LinesOK'
  <2> SUFFICES ASSUME NEW m \in Nodes, NEW y \in Nodes \cup {Master},
                      Contains(line'[m], y)
               PROVE  Excused(m, y)'
    BY DEF LinesOK
  <2> y \in Callers
    BY DEF Callers
  <2>1. Excused(m, y) /\ ~ (m = id /\ y = Master)
    BY <1>5 DEF ClusterInv, LinesOK
  <2>2. ~ (y = Master /\ Target = m)
    BY <1>3, <2>1
  <2> QED
    BY <1>1, <2>1, <2>2 DEF Excused, Dead
<1>16. NobodyAsksTheKilled'
  BY <1>1 DEF ClusterInv, NobodyAsksTheKilled, Dead
<1>17. TrialsOK'
  BY <1>4, <1>5, NoTrials DEF ClusterInv, Nodes
<1> QED
  BY <1>6, <1>7, <1>8, <1>9, <1>10, <1>11, <1>12, <1>13, <1>14, <1>15, <1>16, <1>17 DEF ClusterInv

(***************************************************************************)
(* The process ends. Every member has removed it by then, so that nobody   *)
(* who is still at work has a connection to it, is about to ask it or      *)
(* waits for it.                                                           *)
(***************************************************************************)
LEMMA TerminateInv ==
  ASSUME ClusterInv, Terminate
  PROVE  ClusterInv'
<1>1. /\ todo # <<>> /\ todo[1].op = "terminate" /\ Head(todo) = todo[1] /\ Len(todo) = 1
      /\ DOMAIN todo = 1 .. 1 /\ call[Master] = NoCall /\ Master \in alive
      /\ Ends("terminate") /\ Target = todo[1].to
  BY HeadOfTodo DEF Terminate
<1>2. PICK id \in Servers : id = Target
  BY <1>1 DEF ClusterInv, TodoOK
<1>3. id \in Nodes /\ id # Master /\ Master \in Callers /\ id \in Callers
  BY ClusterAssumption DEF Nodes, Callers
<1>4. /\ alive' = alive \ {id} /\ members' = members \ {id}
      /\ line' = [n \in Nodes |-> IF n = id THEN <<>> ELSE Closed(id, n)[n]]
      /\ call' = [x \in Callers |->
           IF x = id THEN NoCall
           ELSE IF call[x].to = id THEN [call[x] EXCEPT !.answer = "exception"] ELSE call[x]]
      /\ serving' = [serving EXCEPT ![id] = "reading"]
      /\ reachable' = [reachable EXCEPT ![id] = {}]
      /\ stubs' = [stubs EXCEPT ![id] = {}]
      /\ transports' = [r \in Servers |-> [s \in Servers |->
           IF id \in {r, s} THEN "none" ELSE transports[r][s]]]
      /\ round' = [round EXCEPT ![id] = NoRound]
      /\ todo' = <<>>
      /\ UNCHANGED <<time, applied>>
  BY <1>1, <1>2 DEF Terminate, client_vars
<1>5. /\ \A m \in Nodes : serving[m] = "reading"
      /\ \A r \in Servers : round[r].who = "server" => round[r].at = "dead"
      /\ \A c \in Clients : call[c] = NoCall
  BY <1>1, NoMasterCall
<1>6. \A n \in members : Removed(n, id)
  <2>1. \A i \in DOMAIN todo : \A n : todo[i] # Disconnect(n, id)
    <3>1. \A n : Disconnect(n, id).op = "removeConnection"
      BY DEF Disconnect, Do
    <3>2. \A i \in 1 .. 1 : i = 1
      OBVIOUS
    <3> QED
      BY <1>1, <3>1, <3>2
  <2> QED
    BY <1>1, <1>2, <2>1 DEF ClusterInv, KillOK
<1>7. alive \subseteq members \cup {Master}
  BY <1>1 DEF ClusterInv, TodoOK, Ends
<1>8. /\ call \in [Callers -> CallSet] /\ call' \in [Callers -> CallSet]
      /\ call'[id] = NoCall
      /\ \A x \in Callers : x # id =>
           /\ call'[x] # NoCall <=> call[x] # NoCall
           /\ call'[x].to = call[x].to /\ call'[x].op = call[x].op /\ call'[x].arg = call[x].arg
           /\ call[x].to # id => call'[x] = call[x]
  <2>1. call \in [Callers -> CallSet]
    BY DEF ClusterInv, Types
  <2>2. ASSUME NEW x \in Callers, x # id, call[x].to = id
        PROVE  /\ call[x] # NoCall /\ call'[x] # NoCall /\ call'[x] \in CallSet
               /\ call'[x].to = call[x].to /\ call'[x].op = call[x].op
               /\ call'[x].arg = call[x].arg
    <3>1. PICK calls : calls = [call EXCEPT ![x].answer = "exception"]
      OBVIOUS
    <3>2. call[x] # NoCall
      BY <1>3, <2>2 DEF NoCall
    <3>3. /\ calls \in [Callers -> CallSet]
          /\ calls[x] # NoCall /\ calls[x].to = call[x].to /\ calls[x].op = call[x].op
          /\ calls[x].arg = call[x].arg
      BY <2>1, <3>1, <3>2, AnsweredCall
    <3>4. call'[x] = calls[x]
      BY <1>4, <2>1, <2>2, <3>1
    <3> QED
      BY <3>2, <3>3, <3>4
  <2>3. \A x \in Callers : x # id /\ call[x].to # id => call'[x] = call[x]
    BY <1>4
  <2>4. call'[id] = NoCall /\ NoCall \in CallSet
    BY <1>3, <1>4 DEF CallSet
  <2>5. call' = [x \in Callers |-> call'[x]]
    BY <1>4
  <2>6. \A x \in Callers : call'[x] \in CallSet
    BY <2>1, <2>2, <2>3, <2>4
  <2> QED
    BY <2>1, <2>2, <2>3, <2>4, <2>5, <2>6
<1>9. call'[Master] = NoCall /\ \A c \in Clients : call'[c] = NoCall
  BY <1>1, <1>3, <1>5, <1>8, ClusterAssumption DEF Callers, Nodes
<1>10. /\ LineType(line')
       /\ \A m \in Nodes, y \in Callers :
            Contains(line'[m], y) <=> Contains(line[m], y) /\ y # id /\ m # id
  <2>1. LineType(line)
    BY DEF ClusterInv, Types
  <2>2. line' = Cleared(id, {id})
    BY <1>4 DEF Cleared
  <2>3. /\ LineType(line')
        /\ \A m \in Nodes, y \in Callers :
             Contains(line'[m], y) <=> Contains(line[m], y) /\ y # id /\ m \notin {id}
    BY <2>1, <2>2, AllClosed
  <2> QED
    BY <2>3
<1>11. /\ serving' \in [Nodes -> Threads]
       /\ \A m \in Nodes : serving'[m] = "reading"
  BY <1>4, <1>5 DEF ClusterInv, Types
<1>12. /\ reachable' \in [Nodes -> SUBSET Servers] /\ stubs' \in [Servers -> SUBSET Servers]
       /\ reachable'[id] = {} /\ stubs'[id] = {}
       /\ \A n \in Nodes : n # id => reachable'[n] = reachable[n]
       /\ \A r \in Servers : r # id => stubs'[r] = stubs[r]
  BY <1>3, <1>4 DEF ClusterInv, Types
<1>13. /\ transports' \in [Servers -> [Servers -> {"none", "old", "current"}]]
       /\ \A r, s \in Servers : r # id /\ s # id => transports'[r][s] = transports[r][s]
  BY <1>4 DEF ClusterInv, Types
<1>14. /\ round' \in [Servers -> [who : {"nobody", "periodic", "server"},
                                 at : {"idle", "begun", "looping", "called", "dead"},
                                 to_ask : SUBSET Servers]]
       /\ round'[id] = NoRound /\ \A r \in Servers : r # id => round'[r] = round[r]
  BY <1>4 DEF ClusterInv, Types, NoRound
<1>15. Types'
  <2>1. todo' \in Seq(DoSet)
    BY <1>4, EmptySeq
  <2> QED
    BY <1>4, <1>8, <1>10, <1>11, <1>12, <1>13, <1>14, <2>1 DEF ClusterInv, Types
<1>16. TodoOK'
  BY <1>4, <1>7, EmptySeq DEF TodoOK, Ends
<1>17. MasterOK'
  BY <1>9 DEF MasterOK
<1>18. CallersOK'
  <2>1. \A x \in Callers : call'[x] # NoCall => x \in alive'
    BY <1>4, <1>8 DEF ClusterInv, CallersOK
  <2>2. ASSUME NEW r \in Servers
        PROVE  /\ call'[r] # NoCall =>
                    call'[r].op = "antiEntropyRequest" /\ round'[r].at \in {"called", "dead"}
               /\ round'[r].at = "called" => call'[r] # NoCall
    <3>1. CASE r = id
      BY <1>8, <1>14, <3>1 DEF NoRound
    <3>2. CASE r # id
      <4>1. r \in Callers
        BY DEF Callers, Nodes
      <4> QED
        BY <1>8, <1>14, <3>2, <4>1 DEF ClusterInv, CallersOK
    <3> QED
      BY <3>1, <3>2
  <2> QED
    BY <1>9, <1>11, <2>1, <2>2 DEF CallersOK, Nodes
<1>19. ServingOK'
  BY <1>5, <1>11, <1>14 DEF ServingOK, Nodes, NoRound
<1>20. RoundsOK'
  BY <1>4, <1>14 DEF ClusterInv, RoundsOK
<1>21. ConnectionsOK'
  <2>1. ASSUME NEW n \in Nodes
        PROVE  reachable'[n] \subseteq alive' /\ (n \notin alive' => reachable'[n] = {})
    <3>1. CASE n = id
      BY <1>12, <3>1
    <3>2. CASE n # id /\ n \in alive
      <4>1. n \in members
        BY <1>7, <3>2, ClusterAssumption
      <4>2. id \notin reachable[n]
        BY <1>6, <4>1 DEF Removed
      <4> QED
        BY <1>4, <1>12, <3>2, <4>2 DEF ClusterInv, ConnectionsOK
    <3>3. CASE n # id /\ n \notin alive
      BY <1>12, <3>3 DEF ClusterInv, ConnectionsOK
    <3> QED
      BY <3>1, <3>2, <3>3
  <2>2. ASSUME NEW r \in Servers
        PROVE  reachable'[r] = stubs'[r] /\ \A s \in reachable'[r] : transports'[r][s] = "current"
    <3>1. CASE r = id
      BY <1>12, <3>1
    <3>2. CASE r # id
      <4>1. /\ r \in Nodes /\ reachable'[r] = reachable[r] /\ stubs'[r] = stubs[r]
            /\ reachable[r] \subseteq Servers
        BY <1>12, <3>2 DEF Nodes, ClusterInv, Types
      <4>2. reachable[r] = stubs[r] /\ \A s \in reachable[r] : transports[r][s] = "current"
        BY <1>5, <4>1 DEF ClusterInv, ConnectionsOK
      <4>3. id \notin reachable'[r]
        BY <1>4, <2>1, <4>1
      <4> QED
        BY <1>13, <3>2, <4>1, <4>2, <4>3
    <3> QED
      BY <3>1, <3>2
  <2> QED
    BY <1>11, <2>1, <2>2 DEF ConnectionsOK, Nodes
<1>22. KillOK'
  BY <1>4 DEF KillOK, Ends
<1>23. TimesOK'
  <2>1. \A c \in Clients : applied[c] = time[c]
    BY <1>1, <1>5 DEF ClusterInv, TimesOK, NoCall
  <2>2. applied' = applied /\ time' = time
    BY <1>4
  <2>3. \A c \in Clients : call'[c].op = "none"
    BY <1>9 DEF NoCall
  <2> QED
    BY <2>1, <2>2, <2>3 DEF TimesOK
<1>24. LinesOK'
  <2> SUFFICES ASSUME NEW m \in Nodes, NEW y \in Nodes \cup {Master},
                      Contains(line'[m], y)
               PROVE  Excused(m, y)'
    BY DEF LinesOK
  <2> y \in Callers
    BY DEF Callers
  <2>1. Excused(m, y) /\ y # id
    BY <1>10 DEF ClusterInv, LinesOK
  <2>2. ~ Ends("register") /\ call[Master].answer # "exception"
    BY <1>1 DEF Ends, NoCall
  <2>3. call'[y].to = call[y].to
    BY <1>8, <2>1
  <2>4. y \in Servers => round'[y] = round[y]
    BY <1>14, <2>1
  <2> QED
    BY <1>1, <2>1, <2>2, <2>3, <2>4 DEF Excused, Dead
<1>25. NobodyAsksTheKilled'
  <2> SUFFICES ASSUME NEW x \in Nodes, x \in Servers => ~ Dead(x)', call'[x] # NoCall
               PROVE  call'[x].to \in alive'
    BY DEF NobodyAsksTheKilled
  <2>1. x \in Servers /\ x # id /\ x \in Callers /\ x # Master
    BY <1>8, <1>9, ClusterAssumption DEF Nodes, Callers
  <2>2. ~ Dead(x) /\ call[x] # NoCall /\ call'[x].to = call[x].to
    BY <1>8, <1>14, <2>1 DEF Dead
  <2>3. x \in members
    BY <1>7, <2>1, <2>2 DEF ClusterInv, CallersOK
  <2>4. call[x].to # id
    BY <1>6, <2>1, <2>2, <2>3 DEF Removed
  <2> QED
    BY <1>4, <2>2, <2>4 DEF ClusterInv, NobodyAsksTheKilled
<1>26. TrialsOK'
  BY <1>5, <1>10, NoTrials DEF ClusterInv, Nodes
<1> QED
  BY <1>15, <1>16, <1>17, <1>18, <1>19, <1>20, <1>21, <1>22, <1>23, <1>24, <1>25, <1>26 DEF ClusterInv

-----------------------------------------------------------------------------
(* A step that changes nothing. *)
LEMMA UnchangedInv ==
  ASSUME ClusterInv, UNCHANGED vars
  PROVE  ClusterInv'
<1>1. UNCHANGED <<line, call, serving, reachable, stubs, transports, round, time, applied,
                  alive, todo, members>>
  BY DEF vars, thread_vars, connection_vars, client_vars, master_vars
<1>2. Types' /\ TodoOK' /\ MasterOK' /\ CallersOK' /\ RoundsOK' /\ TimesOK' /\ NobodyAsksTheKilled'
  BY <1>1 DEF ClusterInv, Types, TodoOK, MasterOK, CallersOK, RoundsOK, TimesOK,
              NobodyAsksTheKilled, Ends, Target, Dead
<1>3. ServingOK' /\ ConnectionsOK' /\ KillOK' /\ LinesOK' /\ TrialsOK'
  BY <1>1 DEF ClusterInv, ServingOK, ConnectionsOK, KillOK, LinesOK, TrialsOK, MasterAt, MasterFirst,
              Removed, Excused, Ends, Target, Dead
<1> QED
  BY <1>2, <1>3 DEF ClusterInv

(* The steps of a server thread. *)
LEMMA ServerThreadInv ==
  ASSUME ClusterInv, NEW n \in Nodes, ServerThread(n)
  PROVE  ClusterInv'
<1>1. CASE SimpleHandler(n)
  BY <1>1, SimpleHandlerInv
<1>2. CASE n \in Servers /\ (AnswerRequest(n) \/ ApplyWrite(n))
  <2>1. \A result \in Results : result \in {"ok", "exception"}
    BY DEF Results
  <2>2. CASE AnswerRequest(n)
    <3>1. PICK op \in {"antiEntropyRequest", "read"} : Serves(n, op)
      BY <2>2 DEF AnswerRequest
    <3>2. PICK result \in {"ok", "exception"} : Answer(n, result)
      BY <2>1, <2>2 DEF AnswerRequest
    <3>3. UNCHANGED <<line, connection_vars, round, time, master_vars>> /\ applied' = applied
      BY <2>2 DEF AnswerRequest, client_vars
    <3> QED
      BY <1>2, <3>1, <3>2, <3>3, NodeAnswered
  <2>3. CASE ApplyWrite(n)
    <3>1. PICK result \in {"ok", "exception"} : Answer(n, result)
      BY <2>1, <2>3 DEF ApplyWrite
    <3> QED
      BY <1>2, <2>3, <3>1, NodeAnswered DEF ApplyWrite
  <2> QED
    BY <1>2, <2>2, <2>3
<1>3. CASE n \in Servers /\ (TryConnection(n) \/ AddStub(n) \/ AddTransport(n)
                              \/ EndTrial(n) \/ CutOff(n))
  BY <1>3, TryConnectionInv, AddStubInv, AddTransportInv, EndTrialInv, CutOffInv
<1>4. CASE n \in Clients /\ ClientThread(n)
  BY <1>4, ChangeReachableInv, RequestFailsInv, FinishRequestInv, FailRequestInv, RequestInv
     DEF ClientThread
<1> QED
  BY <1>1, <1>2, <1>3, <1>4 DEF ServerThread

(* The steps of a round, and those that wait for its locks. *)
LEMMA RoundStepInv ==
  ASSUME ClusterInv, NEW r \in Servers,
         ServerLocks(r) \/ BeginRound(r, "periodic") \/ RoundStep(r)
  PROVE  ClusterInv'
<1>1. CASE ServerLocks(r) \/ BeginRound(r, "periodic")
  BY <1>1, AddReachableInv, RemoveConnectionInv, BeginRoundInv DEF ServerLocks
<1>2. CASE LockReachable(r) \/ TakeAnswer(r) \/ EndRound(r)
  BY <1>2, LockReachableInv, TakeAnswerInv, EndRoundInv
<1>3. CASE CopyFails(r) \/ AnswerFails(r) \/ \E s \in Servers : AskFails(r, s)
  BY <1>3, RoundFailsInv
<1>4. CASE \E s \in Servers : Ask(r, s)
  BY <1>4, AskInv
<1> QED
  BY <1>1, <1>2, <1>3, <1>4 DEF RoundStep

(* Every step keeps ClusterInv. *)
LEMMA NextClusterInv == ClusterInv /\ [Next]_vars => ClusterInv'
<1> SUFFICES ASSUME ClusterInv, [Next]_vars PROVE ClusterInv'
  OBVIOUS
<1>1. CASE Command
  BY <1>1, CommandInv
<1>2. CASE MasterStep
  BY <1>2, MasterCallsInv, MasterReturnsInv, MasterFailsInv, RegisterInv, TerminateInv
     DEF MasterStep
<1>3. CASE \E n \in Nodes : ServerThread(n)
  BY <1>3, ServerThreadInv
<1>4. CASE \E r \in Servers : ServerLocks(r) \/ BeginRound(r, "periodic") \/ RoundStep(r)
  BY <1>4, RoundStepInv
<1>5. CASE UNCHANGED vars
  BY <1>5, UnchangedInv
<1> QED
  BY <1>1, <1>2, <1>3, <1>4, <1>5 DEF Next

(* The inductive invariant holds always. *)
THEOREM ClusterInvariant == Spec => []ClusterInv
BY InitClusterInv, NextClusterInv, PTL DEF Spec

(***************************************************************************)
(* The variables have their types; a replica's connections, stubs and      *)
(* transports (fields of ReplicaHandler filled one after the other, lines  *)
(* 69-73) agree whenever its server thread is not adding that very peer.   *)
(***************************************************************************)
THEOREM ClusterTypesCorrect == Spec => []ClusterTypeOK
<1>1. ClusterInv => ClusterTypeOK
  <2> SUFFICES ASSUME ClusterInv PROVE ClusterTypeOK
    OBVIOUS
  <2>1. alive \subseteq Nodes \cup {Master} /\ members \subseteq alive
    BY DEF ClusterInv, Types, Callers
  <2>2. \A n \in Nodes : IsInjective(line[n])
    BY DEF ClusterInv, Types, LineType
  <2>3. ASSUME NEW r \in Servers
        PROVE  /\ round[r].who \in {"nobody", "periodic", "server"}
               /\ round[r].at \in {"idle", "begun", "looping", "called", "dead"}
               /\ round[r].at = "called" => call[r].op = "antiEntropyRequest"
    BY DEF ClusterInv, Types, CallersOK
  <2>4. ASSUME NEW r \in Servers, NEW s \in Servers, Settled(r, s)
        PROVE  /\ s \in stubs[r] <=> s \in reachable[r]
               /\ s \in reachable[r] => transports[r][s] = "current"
    <3>1. CASE serving[r] = "reading"
      BY <3>1 DEF ClusterInv, ConnectionsOK
    <3>2. CASE serving[r] # "reading" /\ Argument(r) # s
      <4>1. MasterAt(r, {"addConnection"})
        BY <3>2 DEF ClusterInv, ServingOK
      <4>2. s # call[Master].arg
        BY <3>2, <4>1, AddingFrom
      <4>3. serving[r] = "stub" => reachable[r] = stubs[r] \cup {call[Master].arg}
        BY <4>1, AddingFrom
      <4>4. serving[r] # "stub" => reachable[r] = stubs[r]
        BY <4>1, AddingFrom
      <4>5. s \in reachable[r] => transports[r][s] = "current"
        BY <4>1, <4>2, AddingFrom
      <4> QED
        BY <4>2, <4>3, <4>4, <4>5
    <3> QED
      BY <2>4, <3>1, <3>2 DEF Settled
  <2> QED
    BY <2>1, <2>2, <2>3, <2>4 DEF ClusterTypeOK
<1> QED
  BY <1>1, ClusterInvariant, PTL

(***************************************************************************)
(* No client, and no replica whose round goes on, waits for a process that *)
(* killServer has terminated (master.py 114): each member has removed it   *)
(* first, under the lock of its round.                                     *)
(***************************************************************************)
THEOREM TheKilledAreNotAsked == Spec => []NobodyAsksTheKilled
<1>1. ClusterInv => NobodyAsksTheKilled
  BY DEF ClusterInv
<1> QED
  BY <1>1, ClusterInvariant, PTL

(***************************************************************************)
(* No two writes of a client get the same client_time, although one that   *)
(* fails after the replica has stored it (client_server.py 55) leaves the  *)
(* time as it was.                                                         *)
(***************************************************************************)
THEOREM ClientTimesDiffer == Spec => []TimesDiffer
<1>1. ClusterInv => TimesDiffer
  <2> SUFFICES ASSUME ClusterInv, NEW c \in Clients, applied[c] > time[c]
               PROVE  applied[c] = time[c] + 1 /\ (Master \in alive => call[Master].to = c)
    BY DEF TimesDiffer
  <2>1. applied[c] \in Nat /\ time[c] \in Nat
    BY DEF ClusterInv, Types
  <2>2. applied[c] # time[c]
    BY <2>1
  <2>3. /\ applied[c] = time[c] + 1
        /\ \/ Master \notin alive
           \/ call[Master].to = c /\ call[Master].answer = "exception"
           \/ call[c].op = "write" /\ call[c].answer # "none"
    BY <2>2 DEF ClusterInv, TimesOK
  <2>4. call[c].op = "write" => call[Master].to = c
    <3>1. call[c].op = "write" => serving[c] = "waiting"
      BY DEF ClusterInv, CallersOK, NoCall
    <3> QED
      BY <3>1 DEF ClusterInv, ServingOK, MasterAt
  <2> QED
    BY <2>3, <2>4
<1> QED
  BY <1>1, ClusterInvariant, PTL

(***************************************************************************)
(* A connection that keeps a single-threaded server busy is one on which   *)
(* an answer is waited for, or joinServer's to the new process (master.py  *)
(* 93), or the one with which addConnection tries the port (68-74), or an  *)
(* exception has ended the thread that opened it.                          *)
(***************************************************************************)
THEOREM IdleConnectionsAreExplained == Spec => []IdleConnectionsExplained
<1>1. ClusterInv => IdleConnectionsExplained
  <2> SUFFICES ASSUME ClusterInv, NEW n \in Nodes, NEW x \in ToSet(line[n])
               PROVE  \/ call[x].to = n
                      \/ x = Master /\ (Master \in alive => todo # <<>> /\ Kept(n))
                      \/ \E r \in Servers :
                           x = Trial(r) /\ serving[r] # "reading" /\ Argument(r) = n
                      \/ x \in Servers /\ Dead(x)
                      \/ x \in Clients /\ (Master \in alive => call[Master].answer = "exception")
    BY DEF IdleConnectionsExplained
  <2>1. line[n] \in Seq(Callers)
    BY DEF ClusterInv, Types, LineType
  <2>2. PICK i \in DOMAIN line[n] : line[n][i] = x
    BY DEF ToSet
  <2>3. x \in Callers /\ Contains(line[n], x)
    BY <2>1, <2>2, LenProperties DEF Contains
  <2>4. CASE x \in Nodes \cup {Master}
    <3>1. Excused(n, x)
      BY <2>3, <2>4 DEF ClusterInv, LinesOK
    <3> QED
      BY <3>1 DEF Excused, Ends, Target, Kept
  <2>5. ASSUME NEW r \in Servers, x = Trial(r)
        PROVE  serving[r] # "reading" /\ Argument(r) = n
    <3>1. serving[r] # "reading" /\ n = call[Master].arg
      BY <2>3, <2>5 DEF ClusterInv, TrialsOK
    <3>2. MasterAt(r, {"addConnection"})
      BY <3>1 DEF ClusterInv, ServingOK
    <3> QED
      BY <3>1, <3>2, Adding
  <2> QED
    BY <2>3, <2>4, <2>5 DEF Callers
<1> QED
  BY <1>1, ClusterInvariant, PTL

-----------------------------------------------------------------------------
(***************************************************************************)
(* No circle: what has to be known besides ClusterInv.                     *)
(*                                                                         *)
(* No process reaches, asks or is told to connect to itself.               *)
(***************************************************************************)
NotItself ==
  /\ \A r \in Servers : r \notin reachable[r] /\ r \notin round[r].to_ask
  /\ \A n \in Nodes : call[n].to # n
  /\ \A i \in DOMAIN todo : todo[i].op = "addConnection" => todo[i].arg # todo[i].to

(* Whom a round has left to ask is a process that runs. *)
TurnsAlive == \A r \in Servers : round[r].to_ask \subseteq alive

(* Whom a round that has the lock asks, or is going to, is reachable all the while. *)
Going(r) == round[r].at \in {"looping", "called"}
TurnsReachable ==
  \A r \in Servers :
    /\ Going(r) => round[r].to_ask \subseteq reachable[r]
    /\ round[r].at = "called" => call[r].to \in reachable[r]

(* A join tells nobody anything twice, and calls everyone but the new process once. *)
JoinOnce ==
  Ends("register") => \A i \in DOMAIN todo :
    /\ todo[i].op \in {"setID", "addConnection", "register"}
    /\ todo[i].op = "addConnection" => Target \in {todo[i].to, todo[i].arg}
    /\ \A j \in DOMAIN todo :
         /\ todo[i] = todo[j] => i = j
         /\ todo[i].to = todo[j].to => i = j \/ todo[i].to = Target

(* A call that waits for no lock any more: it is answered, or addConnection has it. *)
Unlocked == {"stub", "transport", "closing"}
Passed(i) ==
  /\ i = 1 /\ call[Master].to = todo[1].to
  /\ call[Master].answer # "none" \/ serving[todo[1].to] \in Unlocked

(* The join is past r: what calls of it there are wait for no lock. *)
Past(r) == \A i \in DOMAIN todo : todo[i].to = r => Passed(i)

(* Whoever has something of the new process has been told, so the join is past it. *)
ToldOK == Ends("register") => \A r \in Servers \ {Target} : Removed(r, Target) \/ Past(r)

(* And the new process reaches nobody it has still to be told of. *)
UntoldOK ==
  Ends("register") /\ Target \in Servers => \A i \in DOMAIN todo :
    todo[i].op = "addConnection" /\ todo[i].to = Target =>
      todo[i].arg \notin reachable[Target] \/ Passed(i)

CircleInv == NotItself /\ TurnsAlive /\ TurnsReachable /\ JoinOnce /\ ToldOK /\ UntoldOK

(***************************************************************************)
(* The steps that change nothing of the command, connect no replicas and   *)
(* ask nobody whose turn it is not.                                        *)
(***************************************************************************)
Quiet ==
  /\ todo' = todo /\ alive \subseteq alive'
  /\ \A r \in Servers :
       /\ reachable'[r] \subseteq reachable[r]
       /\ round'[r].to_ask \subseteq round[r].to_ask \cup reachable[r]
       /\ call'[r].to \in {call[r].to, Master} \cup round[r].to_ask
       /\ Dead(r) => Dead(r)'
       /\ Going(r)' => /\ reachable'[r] = reachable[r]
                       /\ \/ Going(r) /\ round'[r].to_ask \subseteq round[r].to_ask
                          \/ round'[r].to_ask \subseteq reachable[r]
       /\ round'[r].at = "called" =>
            \/ round[r].at = "called" /\ call'[r].to = call[r].to
            \/ round[r].at = "looping" /\ call'[r].to \in round[r].to_ask
       /\ serving[r] \in Unlocked =>
            serving'[r] \in Unlocked \/ call'[Master].answer # "none"
  /\ \A c \in Clients : call'[c].to \in {call[c].to, Master} \cup Servers
  /\ call'[Master].to = call[Master].to
  /\ call[Master].answer # "none" => call'[Master].answer # "none"

LEMMA PassedKept ==
  ASSUME Quiet, NEW i \in DOMAIN todo, todo[i].to \in Servers, Passed(i)
  PROVE  Passed(i)'
BY DEF Quiet, Passed

(* They keep CircleInv. *)
LEMMA QuietKeeps ==
  ASSUME ClusterInv, CircleInv, Quiet
  PROVE  CircleInv'
<1>1. NotItself'
  <2>1. Servers \cap Clients = {} /\ Master \notin Nodes
    BY ClusterAssumption
  <2>2. \A n \in Nodes : call'[n].to # n
    BY <2>1 DEF Quiet, CircleInv, NotItself, Nodes
  <2> QED
    BY <2>2 DEF Quiet, CircleInv, NotItself
<1>2. TurnsAlive'
  BY DEF Quiet, CircleInv, TurnsAlive, ClusterInv, ConnectionsOK, Nodes
<1>3. JoinOnce'
  BY DEF Quiet, CircleInv, JoinOnce, Ends, Target
<1>4. ToldOK'
  <2> SUFFICES ASSUME Ends("register"), NEW r \in Servers \ {Target}
               PROVE  (Removed(r, Target) \/ Past(r))'
    BY DEF ToldOK, Quiet, Ends, Target
  <2>1. Target' = Target
    BY DEF Quiet, Target
  <2>2. CASE Removed(r, Target)
    <3>1. Target \in Nodes
      <4>1. todo \in Seq(DoSet) /\ todo # <<>>
        BY DEF Ends, ClusterInv, Types
      <4>2. Len(todo) \in DOMAIN todo /\ todo[Len(todo)] \in DoSet
        BY <4>1, LenProperties, EmptySeq
      <4> QED
        BY <4>2 DEF Target, Last, DoSet
    <3>2. Target # Master
      BY <3>1, ClusterAssumption
    <3> QED
      BY <2>1, <2>2, <3>2 DEF Removed, Quiet
  <2>3. CASE Past(r)
    <3>1. todo' = todo
      BY DEF Quiet
    <3> QED
      BY <2>3, <3>1, PassedKept DEF Past
  <2> QED
    BY <2>2, <2>3 DEF ToldOK, CircleInv
<1>5. UntoldOK'
  <2>1. todo' = todo /\ Ends("register")' = Ends("register") /\ Target' = Target
    BY DEF Quiet, Ends, Target
  <2> SUFFICES ASSUME Ends("register"), Target \in Servers, NEW i \in DOMAIN todo,
                      todo[i].op = "addConnection", todo[i].to = Target
               PROVE  todo[i].arg \notin reachable'[Target] \/ Passed(i)'
    BY <2>1 DEF UntoldOK
  <2>2. todo[i].arg \notin reachable[Target] \/ Passed(i)
    BY DEF CircleInv, UntoldOK
  <2>3. reachable'[Target] \subseteq reachable[Target]
    BY DEF Quiet
  <2> QED
    BY <2>2, <2>3, PassedKept
<1>6. TurnsReachable'
  <2> SUFFICES ASSUME NEW r \in Servers
               PROVE  /\ Going(r)' => round'[r].to_ask \subseteq reachable'[r]
                      /\ round'[r].at = "called" => call'[r].to \in reachable'[r]
    BY DEF TurnsReachable
  <2>1. /\ Going(r) => round[r].to_ask \subseteq reachable[r]
        /\ round[r].at = "called" => call[r].to \in reachable[r]
    BY DEF CircleInv, TurnsReachable
  <2> QED
    BY <2>1 DEF Quiet, Going
<1> QED
  BY <1>1, <1>2, <1>3, <1>4, <1>5, <1>6 DEF CircleInv

(***************************************************************************)
(* An answer leaves whom a call is to, and the master it serves has it     *)
(* when the handler is over.                                               *)
(***************************************************************************)
LEMMA AnswerTo ==
  ASSUME ClusterInv, NEW n \in Nodes, NEW result \in {"ok", "exception"}, Answer(n, result)
  PROVE  /\ \A y \in Callers : call'[y].to = call[y].to
         /\ call[Master].answer # "none" => call'[Master].answer # "none"
         /\ \A r \in Servers :
              serving[r] \in Unlocked =>
                serving'[r] \in Unlocked \/ call'[Master].answer # "none"
<1> DEFINE x == Head(line[n])
<1>1. /\ call' = [call EXCEPT ![x].answer = result]
      /\ serving' = [serving EXCEPT ![n] = "reading"]
  BY DEF Answer
<1>2. /\ call \in [Callers -> CallSet]
      /\ serving \in [Nodes -> Threads]
  BY DEF ClusterInv, Types
<1>3. ASSUME NEW y \in Callers
      PROVE  /\ call'[y].to = call[y].to
             /\ y # x => call'[y] = call[y]
             /\ y = x => call'[y].answer = result
  <2>1. call[y] \in CallSet
    BY <1>2
  <2>2. CASE y = x
    <3>1. call'[y] = [call[y] EXCEPT !.answer = result]
      BY <1>1, <1>2, <2>2
    <3>2. [call[y] EXCEPT !.answer = result].to = call[y].to
          /\ [call[y] EXCEPT !.answer = result].answer = result
      BY <2>1 DEF CallSet, NoCall
    <3> QED
      BY <3>1, <3>2, <2>2
  <2>3. CASE y # x
    BY <1>1, <1>2, <2>3
  <2> QED
    BY <2>2, <2>3
<1>4. Master \in Callers
  BY DEF Callers
<1>5. ASSUME NEW r \in Servers, serving[r] \in Unlocked
      PROVE  serving'[r] \in Unlocked \/ call'[Master].answer # "none"
  <2>1. CASE r = n
    <3>1. Head(line[r]) = Master
      BY <1>5 DEF Unlocked, ClusterInv, ServingOK, MasterAt, MasterFirst
    <3> QED
      BY <1>3, <1>4, <2>1, <3>1
  <2>2. CASE r # n
    BY <1>1, <1>2, <1>5, <2>2 DEF Nodes
  <2> QED
    BY <2>1, <2>2
<1> HIDE DEF x
<1> QED
  BY <1>3, <1>4, <1>5

(* An answer that changes no connections and no round, but those of a client. *)
LEMMA AnswerIsQuiet ==
  ASSUME ClusterInv, NEW n \in Nodes, NEW result \in {"ok", "exception"}, Answer(n, result),
         todo' = todo, alive' = alive,
         \A r \in Servers : /\ reachable'[r] \subseteq reachable[r]
                            /\ round'[r].to_ask \subseteq round[r].to_ask
                            /\ Dead(r) => Dead(r)'
                            /\ Going(r)' => reachable'[r] = reachable[r] /\ round'[r] = round[r]
  PROVE  Quiet
<1>1. /\ \A y \in Callers : call'[y].to = call[y].to
      /\ call[Master].answer # "none" => call'[Master].answer # "none"
      /\ \A r \in Servers :
           serving[r] \in Unlocked =>
             serving'[r] \in Unlocked \/ call'[Master].answer # "none"
  BY AnswerTo
<1>2. Master \in Callers /\ Servers \subseteq Callers /\ Clients \subseteq Callers
  BY DEF Callers, Nodes
<1> QED
  BY <1>1, <1>2 DEF Quiet, Going

(* A step that touches neither calls nor handlers. *)
LEMMA OthersAreQuiet ==
  ASSUME UNCHANGED <<call, serving, todo, alive>>,
         \A r \in Servers : /\ reachable'[r] \subseteq reachable[r]
                            /\ round'[r].to_ask \subseteq round[r].to_ask \cup reachable[r]
                            /\ Dead(r) => Dead(r)'
                            /\ Going(r)' =>
                                 /\ reachable'[r] = reachable[r]
                                 /\ \/ round'[r] = round[r]
                                    \/ /\ round'[r].at = "looping"
                                       /\ round'[r].to_ask \subseteq reachable[r]
  PROVE  Quiet
BY DEF Quiet, Going

(* The server thread of a replica or a client. *)
LEMMA ServerThreadQuiet ==
  ASSUME ClusterInv, NEW n \in Nodes, ServerThread(n)
  PROVE  Quiet
<1> USE DEF connection_vars, client_vars, master_vars
<1>1. \A result \in Results : result \in {"ok", "exception"}
  BY DEF Results
<1>2. CASE SimpleHandler(n)
  BY <1>2, AnswerIsQuiet DEF SimpleHandler, Dead
<1>3. CASE n \in Servers /\ (AnswerRequest(n) \/ ApplyWrite(n))
  <2>1. PICK result \in {"ok", "exception"} : Answer(n, result)
    BY <1>1, <1>3 DEF AnswerRequest, ApplyWrite
  <2>2. UNCHANGED <<todo, alive, reachable, round>>
    BY <1>3 DEF AnswerRequest, ApplyWrite
  <2> QED
    BY <2>1, <2>2, AnswerIsQuiet DEF Dead
<1>4. CASE n \in Servers /\ (TryConnection(n) \/ AddStub(n) \/ AddTransport(n))
  <2>1. PICK place \in {"trying", "transport", "closing"} :
          /\ serving' = [serving EXCEPT ![n] = place]
          /\ place = "trying" => serving[n] = "reading"
    BY <1>4 DEF TryConnection, AddStub, AddTransport
  <2>2. UNCHANGED <<call, reachable, round, todo, alive>>
    BY <1>4 DEF TryConnection, AddStub, AddTransport
  <2>3. serving \in [Nodes -> Threads]
    BY DEF ClusterInv, Types
  <2>4. \A r \in Servers : serving[r] \in Unlocked => serving'[r] \in Unlocked
    BY <2>1, <2>3 DEF Unlocked, Nodes
  <2> QED
    BY <2>2, <2>4 DEF Quiet, Dead, Going
<1>5. CASE n \in Servers /\ EndTrial(n)
  BY <1>5, AnswerIsQuiet DEF EndTrial, Dead
<1>10. CASE n \in Servers /\ CutOff(n)
  <2>1. /\ \A x \in {Master, n} : call'[x].to = call[x].to
        /\ call'[Master].answer = "ok"
        /\ \A y \in Callers : y \notin {Master, n} => call'[y] = call[y]
    BY <1>10, CutOffCalls
  <2>2. \A y \in Callers : call'[y].to = call[y].to
    BY <2>1
  <2>3. UNCHANGED <<reachable, round, todo, alive>>
    BY <1>10 DEF CutOff
  <2> QED
    BY <2>1, <2>2, <2>3 DEF Quiet, Dead, Going, Callers, Nodes
<1>6. CASE n \in Clients /\ ChangeReachable(n)
  <2>1. \A r \in Servers : reachable'[r] = reachable[r]
    <3>1. reachable \in [Nodes -> SUBSET Servers] /\ Servers \subseteq Nodes /\ n \notin Servers
      BY <1>6, ClusterAssumption DEF ClusterInv, Types, Nodes
    <3>2. PICK value : reachable' = [reachable EXCEPT ![n] = value]
      BY <1>6 DEF ChangeReachable
    <3> QED
      BY <3>1, <3>2
  <2> QED
    BY <1>6, <2>1, AnswerIsQuiet DEF ChangeReachable, Dead
<1>7. CASE n \in Clients /\ RequestFails(n)
  BY <1>7, AnswerIsQuiet DEF RequestFails, Dead
<1>8. CASE n \in Clients /\ (FinishRequest(n) \/ FailRequest(n))
  <2>1. PICK result \in {"ok", "exception"} : Finish(n, result)
    BY <1>8 DEF FinishRequest, FailRequest
  <2>2. serving[n] = "waiting" /\ UNCHANGED <<todo, alive, reachable, round>>
    BY <1>8 DEF FinishRequest, FailRequest
  <2>3. Finished(n, result)
    BY <1>8, <2>1, <2>2, RequestFinished
  <2>4. /\ call'[n] = NoCall /\ call'[Master].to = call[Master].to /\ call'[Master].answer # "none"
        /\ \A y \in Callers : y \notin {Master, n} => call'[y] = call[y]
    <3>1. call'[Master].answer = result /\ call'[Master].to = n /\ call[Master].to = n
      BY <2>3 DEF Finished
    <3>2. result # "none"
      OBVIOUS
    <3> QED
      BY <1>8, <2>3, <3>1, <3>2 DEF Finished
  <2>5. /\ n \notin Servers /\ Master \notin Nodes /\ Nodes \subseteq Callers
    BY <1>8, ClusterAssumption DEF Callers
  <2> QED
    BY <2>2, <2>4, <2>5 DEF Quiet, Dead, Going, Nodes, NoCall
<1>9. ASSUME NEW s \in Servers, n \in Clients, Request(n, s) PROVE Quiet
  <2>1. /\ call' = Called(n, s, IF Serves(n, "requestWrite") THEN "write" ELSE "read", n)
        /\ serving' = [serving EXCEPT ![n] = "waiting"]
        /\ UNCHANGED <<todo, alive, reachable, round>>
    BY <1>9 DEF Request
  <2>2. /\ n \notin Servers /\ Master \notin Nodes /\ Nodes \subseteq Callers /\ Master \in Callers
    BY <1>9, ClusterAssumption DEF Callers
  <2>3. /\ call \in [Callers -> CallSet]
        /\ serving \in [Nodes -> Threads]
    BY DEF ClusterInv, Types
  <2>4. call'[n].to = s /\ \A y \in Callers : y # n => call'[y] = call[y]
    <3>1. PICK c : c = [to |-> s, op |-> IF Serves(n, "requestWrite") THEN "write" ELSE "read",
                        arg |-> n, answer |-> "none"]
      OBVIOUS
    <3>2. call' = [call EXCEPT ![n] = c] /\ n \in Callers /\ c.to = s
      BY <2>1, <2>2, <3>1 DEF Called
    <3> QED
      BY <2>3, <3>2
  <2>5. \A r \in Servers : serving'[r] = serving[r]
    BY <2>1, <2>2, <2>3 DEF Nodes
  <2> QED
    BY <2>1, <2>2, <2>4, <2>5 DEF Quiet, Dead, Going, Nodes
<1> QED
  BY <1>2, <1>3, <1>4, <1>5, <1>6, <1>7, <1>8, <1>9, <1>10 DEF ServerThread, ClientThread

(* A round takes its turns from what its replica reaches, and asks one of them. *)
LEMMA RoundQuiet ==
  ASSUME ClusterInv, NEW r \in Servers,
         \/ RemoveConnection(r) \/ BeginRound(r, "server") \/ BeginRound(r, "periodic")
         \/ RoundStep(r)
  PROVE  Quiet
<1> r \in Nodes /\ r \in Callers /\ r # Master
  BY ClusterAssumption DEF Nodes, Callers
<1> USE DEF connection_vars, client_vars, master_vars, thread_vars
<1>1. /\ round \in [Servers -> [who : {"nobody", "periodic", "server"},
                                at : {"idle", "begun", "looping", "called", "dead"},
                                to_ask : SUBSET Servers]]
      /\ reachable \in [Nodes -> SUBSET Servers]
      /\ call \in [Callers -> CallSet]
  BY DEF ClusterInv, Types
<1>2. CASE RemoveConnection(r)
  <2>1. \A p \in Servers : /\ reachable'[p] \subseteq reachable[p]
                           /\ Going(p) => reachable'[p] = reachable[p]
    BY <1>1, <1>2
       DEF RemoveConnection, WithoutConnection, ReachableLocked, Going, Nodes
  <2> QED
    BY <1>2, <2>1, AnswerIsQuiet DEF RemoveConnection, Dead, Going
<1>3. CASE BeginRound(r, "server") \/ BeginRound(r, "periodic")
  <2>1. PICK who : round' = [round EXCEPT ![r].who = who, ![r].at = "begun"]
    BY <1>3 DEF BeginRound
  <2>2. ~ Dead(r)
    BY <1>3, RoundFields DEF BeginRound, Dead, NoRound
  <2>3. \A p \in Servers : /\ round'[p].to_ask = round[p].to_ask /\ (Dead(p) => Dead(p)')
                           /\ Going(p)' => round'[p] = round[p]
    BY <1>1, <2>1, <2>2 DEF Dead, Going
  <2> QED
    BY <1>3, <2>3, OthersAreQuiet DEF BeginRound
<1>4. CASE LockReachable(r)
  <2>1. \A p \in Servers : /\ round'[p].to_ask \subseteq round[p].to_ask \cup reachable[p]
                           /\ Dead(p) => Dead(p)'
                           /\ Going(p)' => \/ round'[p] = round[p]
                                           \/ /\ round'[p].at = "looping"
                                              /\ round'[p].to_ask \subseteq reachable[p]
    BY <1>1, <1>4 DEF LockReachable, Dead, Going
  <2> QED
    BY <1>4, <2>1, OthersAreQuiet DEF LockReachable
<1>5. CASE CopyFails(r) \/ AnswerFails(r) \/ \E s \in Servers : AskFails(r, s)
  <2>1. Raise(r) /\ UNCHANGED <<todo, alive, reachable>>
    BY <1>5 DEF CopyFails, AnswerFails, AskFails
  <2>2. \A p \in Servers : /\ round'[p].to_ask = round[p].to_ask /\ (Dead(p) => Dead(p)')
                           /\ Going(p)' => round'[p] = round[p]
    BY <1>1, <2>1 DEF Raise, At, Dead, Going
  <2> QED
    BY <2>1, <2>2, AnswerIsQuiet, OthersAreQuiet DEF Raise
<1>6. CASE EndRound(r)
  <2>1. \A p \in Servers : /\ round'[p].to_ask \subseteq round[p].to_ask
                           /\ Dead(p) => Dead(p)'
                           /\ Going(p)' => round'[p] = round[p]
    BY <1>1, <1>6 DEF EndRound, NoRound, Dead, Going
  <2> QED
    BY <1>6, <2>1, AnswerIsQuiet, OthersAreQuiet DEF EndRound
<1>7. CASE TakeAnswer(r)
  <2>1. \A p \in Servers : /\ round'[p].to_ask = round[p].to_ask /\ (Dead(p) => Dead(p)')
                           /\ Going(p)' => Going(p)
                           /\ round'[p].at = "called" => p # r /\ round[p].at = "called"
    BY <1>1, <1>7 DEF TakeAnswer, At, Dead, Going
  <2>2. call'[r].to = Master /\ \A y \in Callers : y # r => call'[y] = call[y]
    BY <1>1, <1>7 DEF TakeAnswer, NoCall
  <2> QED
    BY <1>7, <2>1, <2>2, ClusterAssumption DEF TakeAnswer, Quiet, Callers, Nodes
<1>8. ASSUME NEW s \in Servers, Ask(r, s) PROVE Quiet
  <2>1. \A p \in Servers : /\ round'[p].to_ask \subseteq round[p].to_ask
                           /\ Dead(p) => Dead(p)'
                           /\ Going(p)' => Going(p)
                           /\ round'[p].at = "called" =>
                                \/ p = r /\ round[p].at = "looping"
                                \/ p # r /\ round[p].at = "called"
    BY <1>1, <1>8 DEF Ask, Dead, Going
  <2>2. /\ call'[r].to = s /\ s \in round[r].to_ask
        /\ \A y \in Callers : y # r => call'[y] = call[y]
    BY <1>1, <1>8 DEF Ask, Called
  <2> QED
    BY <1>8, <2>1, <2>2, ClusterAssumption DEF Ask, Quiet, Callers, Nodes
<1> QED
  BY <1>2, <1>3, <1>4, <1>5, <1>6, <1>7, <1>8 DEF RoundStep

(***************************************************************************)
(* addConnection makes the new process reachable: this was the one call of *)
(* the join to this replica, and what is left of it needs no lock.         *)
(***************************************************************************)
LEMMA AddReachableCircle ==
  ASSUME ClusterInv, CircleInv, NEW r \in Servers, AddReachable(r)
  PROVE  CircleInv'
<1> r \in Nodes
  BY DEF Nodes
<1>1. MasterAt(r, {"addConnection"})
  BY DEF AddReachable, ClusterInv, ServingOK
<1>2. /\ Head(line[r]) = Master /\ call[Master].to = r /\ call[Master].op = "addConnection"
      /\ call[Master].answer = "none" /\ Argument(r) = call[Master].arg
  BY <1>1, Adding
<1>3. /\ reachable' = [reachable EXCEPT ![r] = @ \cup {call[Master].arg}]
      /\ serving' = [serving EXCEPT ![r] = "stub"]
      /\ UNCHANGED <<call, round, alive, todo>>
  BY <1>2 DEF AddReachable, client_vars, master_vars
<1>4. /\ reachable'[r] = reachable[r] \cup {call[Master].arg}
      /\ \A p \in Servers : p # r => reachable'[p] = reachable[p]
      /\ serving'[r] = "stub" /\ \A p \in Servers : p # r => serving'[p] = serving[p]
  BY <1>3 DEF ClusterInv, Types, Nodes
<1>5. /\ todo # <<>> /\ 1 \in DOMAIN todo /\ todo[1].to = r /\ todo[1].op = "addConnection"
      /\ todo[1].arg = call[Master].arg
  <2>1. call[Master] # NoCall
    BY <1>2 DEF NoCall
  <2> QED
    BY <1>2, <2>1, HeadOfTodo DEF ClusterInv, MasterOK
<1>6. NotItself'
  BY <1>3, <1>4, <1>5 DEF CircleInv, NotItself
<1>7. TurnsAlive' /\ TurnsReachable' /\ JoinOnce'
  <2>1. TurnsReachable'
    BY <1>3, <1>4 DEF CircleInv, TurnsReachable, Going
  <2> QED
    BY <1>3, <2>1 DEF CircleInv, TurnsAlive, JoinOnce, Ends, Target
<1>8. ToldOK'
  <2> SUFFICES ASSUME Ends("register"), NEW p \in Servers \ {Target}
               PROVE  (Removed(p, Target) \/ Past(p))'
    BY <1>3 DEF ToldOK, Ends, Target
  <2>1. Target' = Target
    BY <1>3 DEF Target
  <2>2. CASE p = r
    <3>1. \A i \in DOMAIN todo : todo[i].to = r => i = 1
      BY <1>5, <2>2 DEF CircleInv, JoinOnce
    <3> QED
      BY <1>2, <1>3, <1>4, <1>5, <2>2, <3>1 DEF Past, Passed, Unlocked
  <2>3. CASE p # r
    <3>1. Removed(p, Target) \/ Past(p)
      BY DEF CircleInv, ToldOK
    <3>2. Past(p) => \A i \in DOMAIN todo : todo[i].to # p
      BY <1>2, <2>3 DEF Past, Passed
    <3> QED
      BY <1>3, <1>4, <2>1, <2>3, <3>1, <3>2 DEF Removed, Past, Dead
  <2> QED
    BY <2>2, <2>3
<1>9. UntoldOK'
  <2>1. todo' = todo /\ Target' = Target /\ Ends("register")' = Ends("register")
    BY <1>3 DEF Ends, Target
  <2> SUFFICES ASSUME Ends("register"), Target \in Servers, NEW i \in DOMAIN todo,
                      todo[i].op = "addConnection", todo[i].to = Target
               PROVE  todo[i].arg \notin reachable'[Target] \/ Passed(i)'
    BY <2>1 DEF UntoldOK
  <2>2. todo[i].arg \notin reachable[Target] \/ i = 1
    BY DEF CircleInv, UntoldOK, Passed
  <2>3. CASE i = 1
    BY <1>3, <1>2, <1>4, <1>5, <2>3 DEF Passed, Unlocked
  <2>4. CASE i # 1 /\ r # Target
    BY <1>4, <2>2, <2>4
  <2>5. CASE i # 1 /\ r = Target
    <3>1. todo[i] # todo[1]
      BY <1>5, <2>5 DEF CircleInv, JoinOnce
    <3>2. todo[i] \in DoSet /\ todo[1] \in DoSet
      BY <1>5, LenProperties DEF ClusterInv, Types
    <3>3. todo[i].arg # todo[1].arg
      BY <1>5, <2>5, <3>1, <3>2 DEF DoSet
    <3> QED
      BY <1>4, <1>5, <2>2, <2>5, <3>3
  <2> QED
    BY <2>3, <2>4, <2>5
<1> QED
  BY <1>6, <1>7, <1>8, <1>9 DEF CircleInv

(***************************************************************************)
(* The master's own steps. When it calls, it waited for nobody before, so  *)
(* the join was past only those that it does not call any more.            *)
(***************************************************************************)
LEMMA MasterCallsCircle ==
  ASSUME ClusterInv, CircleInv, MasterCalls
  PROVE  CircleInv'
<1>1. /\ todo # <<>> /\ todo[1].op \notin {"register", "terminate"} /\ call[Master] = NoCall
      /\ todo[1] \in DoSet
      /\ call' = Called(Master, todo[1].to, todo[1].op, todo[1].arg)
      /\ UNCHANGED <<serving, reachable, round, alive, todo>>
  BY HeadOfTodo DEF MasterCalls, connection_vars, client_vars, master_vars
<1>2. todo[1].to \in Nodes /\ Master \notin Nodes
  BY <1>1, ClusterAssumption DEF DoSet
<1>3. /\ call'[Master].to = todo[1].to
      /\ \A y \in Callers : y # Master => call'[y] = call[y]
  <2>1. PICK c : c = [to |-> todo[1].to, op |-> todo[1].op, arg |-> todo[1].arg, answer |-> "none"]
    OBVIOUS
  <2>2. call' = [call EXCEPT ![Master] = c] /\ c.to = todo[1].to
    BY <1>1, <2>1 DEF Called
  <2>3. call \in [Callers -> CallSet] /\ Master \in Callers
    BY DEF ClusterInv, Types, Callers
  <2> QED
    BY <2>2, <2>3
<1>4. \A n \in Nodes : call'[n] = call[n]
  BY <1>2, <1>3 DEF Callers
<1>5. NotItself' /\ TurnsAlive' /\ TurnsReachable' /\ JoinOnce'
  <2>1. TurnsReachable'
    BY <1>1, <1>4 DEF CircleInv, TurnsReachable, Going, Nodes
  <2> QED
    BY <1>1, <1>4, <2>1 DEF CircleInv, NotItself, TurnsAlive, JoinOnce, Ends, Target
<1>6. ToldOK'
  <2> SUFFICES ASSUME Ends("register"), NEW p \in Servers \ {Target}
               PROVE  (Removed(p, Target) \/ Past(p))'
    BY <1>1 DEF ToldOK, Ends, Target
  <2>1. Target' = Target /\ p \in Nodes
    BY <1>1 DEF Target, Nodes
  <2>2. CASE Removed(p, Target)
    BY <1>1, <1>4, <2>1, <2>2 DEF Removed, Dead
  <2>3. CASE Past(p)
    <3>1. \A i \in DOMAIN todo : todo[i].to # p
      BY <1>1, <1>2, <2>1, <2>3 DEF Past, Passed, NoCall
    <3> QED
      BY <1>1, <3>1 DEF Past
  <2> QED
    BY <2>2, <2>3 DEF CircleInv, ToldOK
<1>7. UntoldOK'
  <2>1. \A i \in DOMAIN todo : ~ Passed(i)
    BY <1>1, <1>2 DEF Passed, NoCall
  <2> QED
    BY <1>1, <2>1 DEF CircleInv, UntoldOK, Ends, Target
<1> QED
  BY <1>5, <1>6, <1>7 DEF CircleInv

(* The call that is over was the first, and no other is to its process. *)
LEMMA MasterReturnsCircle ==
  ASSUME ClusterInv, CircleInv, MasterReturns
  PROVE  CircleInv'
<1>1. /\ call[Master].answer = "ok" /\ call' = [call EXCEPT ![Master] = NoCall]
      /\ todo' = Tail(todo)
      /\ UNCHANGED <<serving, reachable, round, alive>>
  BY DEF MasterReturns, connection_vars
<1>2. call[Master] # NoCall
  BY <1>1 DEF NoCall
<1>3. todo # <<>> /\ todo[1].op \in MasterOps
  BY <1>2 DEF ClusterInv, MasterOK
<1>4. PICK k \in Nat : k = Len(todo)
  BY <1>3, HeadOfTodo
<1>5. k >= 1 /\ DOMAIN todo = 1 .. k
  BY <1>3, <1>4, HeadOfTodo
<1>6. /\ Len(todo') = k - 1 /\ DOMAIN todo' = 1 .. k - 1
      /\ \A i \in 1 .. k - 1 : i + 1 \in 1 .. k /\ todo'[i] = todo[i + 1]
      /\ todo' # <<>> => k > 1 /\ Last(todo') = Last(todo)
  BY <1>1, <1>3, <1>4, RestOfTodo
<1>7. \A y \in Nodes : call'[y] = call[y]
  BY <1>1, ClusterAssumption DEF ClusterInv, Types, Callers
<1>8. Ends("register")' => Ends("register") /\ Target' = Target
  BY <1>3, <1>6 DEF Ends, Target
<1>9. NotItself' /\ TurnsAlive' /\ TurnsReachable'
  <2>1. TurnsReachable'
    BY <1>1, <1>7 DEF CircleInv, TurnsReachable, Going, Nodes
  <2> QED
    BY <1>1, <1>5, <1>6, <1>7, <2>1 DEF CircleInv, NotItself, TurnsAlive
<1>10. JoinOnce'
  <2> SUFFICES ASSUME Ends("register")', NEW i \in 1 .. k - 1, NEW j \in 1 .. k - 1
               PROVE  /\ todo'[i].op \in {"setID", "addConnection", "register"}
                      /\ todo'[i].op = "addConnection" => Target' \in {todo'[i].to, todo'[i].arg}
                      /\ todo'[i] = todo'[j] => i = j
                      /\ todo'[i].to = todo'[j].to => i = j \/ todo'[i].to = Target'
    BY <1>6 DEF JoinOnce
  <2>1. /\ i + 1 \in DOMAIN todo /\ todo'[i] = todo[i + 1]
        /\ j + 1 \in DOMAIN todo /\ todo'[j] = todo[j + 1]
        /\ i + 1 = j + 1 => i = j
    BY <1>5, <1>6
  <2> QED
    BY <1>8, <2>1 DEF CircleInv, JoinOnce
<1>11. ToldOK'
  <2> SUFFICES ASSUME Ends("register")', NEW p \in Servers \ {Target'}
               PROVE  (Removed(p, Target) \/ Past(p))'
    BY DEF ToldOK
  <2>1. Target' = Target /\ p \in Nodes /\ p \in Servers \ {Target} /\ Ends("register")
    BY <1>8 DEF Nodes
  <2>2. CASE Removed(p, Target)
    BY <1>1, <1>7, <2>1, <2>2 DEF Removed, Dead
  <2>3. CASE Past(p)
    <3>1. ASSUME NEW i \in 1 .. k - 1 PROVE todo'[i].to # p
      <4>1. i + 1 \in DOMAIN todo /\ todo'[i] = todo[i + 1] /\ i + 1 # 1
        BY <1>5, <1>6
      <4> QED
        BY <2>3, <4>1 DEF Past, Passed
    <3> QED
      BY <1>6, <3>1 DEF Past
  <2> QED
    BY <2>1, <2>2, <2>3 DEF CircleInv, ToldOK
<1>12. UntoldOK'
  <2> SUFFICES ASSUME Ends("register")', Target' \in Servers, NEW i \in 1 .. k - 1,
                      todo'[i].op = "addConnection", todo'[i].to = Target'
               PROVE  todo'[i].arg \notin reachable[Target']
    BY <1>1, <1>6 DEF UntoldOK
  <2>1. i + 1 \in DOMAIN todo /\ todo'[i] = todo[i + 1] /\ i + 1 # 1
    BY <1>5, <1>6
  <2> QED
    BY <1>8, <2>1 DEF CircleInv, UntoldOK, Passed
<1> QED
  BY <1>9, <1>10, <1>11, <1>12 DEF CircleInv

(* The end of a command, by an exception or its last step. *)
LEMMA EndCircle ==
  ASSUME ClusterInv, CircleInv, MasterFails \/ Register
  PROVE  CircleInv'
<1>1. /\ todo' = <<>> /\ UNCHANGED <<reachable, round>>
      /\ alive' = alive \/ alive' = alive \ {Master}
      /\ call' = call \/ call' = [call EXCEPT ![Master] = NoCall]
  BY DEF MasterFails, Register, connection_vars
<1>2. \A y \in Nodes : call'[y] = call[y]
  BY <1>1, ClusterAssumption DEF ClusterInv, Types, Callers
<1>3. \A r \in Servers : round[r].to_ask \subseteq Servers /\ Master \notin Servers
  BY ClusterAssumption DEF ClusterInv, Types, Nodes
<1>4. ~ Ends("register")' /\ DOMAIN todo' = {}
  BY <1>1, EmptySeq DEF Ends
<1>5. NotItself' /\ TurnsAlive' /\ TurnsReachable'
  <2>1. TurnsReachable'
    BY <1>1, <1>2 DEF CircleInv, TurnsReachable, Going, Nodes
  <2> QED
    BY <1>1, <1>2, <1>3, <1>4, <2>1 DEF CircleInv, NotItself, TurnsAlive
<1> QED
  BY <1>4, <1>5 DEF CircleInv, JoinOnce, ToldOK, UntoldOK

(* The process is gone, and it was nobody's turn: each member has removed it. *)
LEMMA TerminateCircle ==
  ASSUME ClusterInv, CircleInv, Terminate
  PROVE  CircleInv'
<1> DEFINE id == Target
<1>1. /\ todo # <<>> /\ todo[1].op = "terminate" /\ todo[1].to = id
      /\ Ends("terminate") /\ Len(todo) = 1 /\ DOMAIN todo = {1}
  BY HeadOfTodo DEF Terminate
<1>2. /\ alive' = alive \ {id} /\ todo' = <<>>
      /\ call' = [x \in Callers |->
            IF x = id THEN NoCall
            ELSE IF call[x].to = id THEN [call[x] EXCEPT !.answer = "exception"] ELSE call[x]]
      /\ reachable' = [reachable EXCEPT ![id] = {}]
      /\ round' = [round EXCEPT ![id] = NoRound]
  BY <1>1, HeadOfTodo DEF Terminate
<1>3. id \in Servers /\ Servers \subseteq Nodes /\ Master \notin Nodes /\ Nodes \subseteq Callers
  BY <1>1, ClusterAssumption DEF ClusterInv, TodoOK, Nodes, Callers
<1> HIDE DEF id
<1>4. /\ call \in [Callers -> CallSet] /\ reachable \in [Nodes -> SUBSET Servers]
      /\ round \in [Servers -> [who : {"nobody", "periodic", "server"},
                                at : {"idle", "begun", "looping", "called", "dead"},
                                to_ask : SUBSET Servers]]
  BY DEF ClusterInv, Types
<1>5. ASSUME NEW n \in Nodes PROVE call'[n].to # n
  <2>1. call[n] \in CallSet /\ call[n].to # n
    BY <1>3, <1>4 DEF CircleInv, NotItself
  <2>2. CASE n = id
    BY <1>2, <1>3, <2>2 DEF NoCall
  <2>3. CASE n # id
    <3>1. call'[n] = call[n] \/ call'[n] = [call[n] EXCEPT !.answer = "exception"]
      BY <1>2, <1>3, <2>3
    <3>2. [call[n] EXCEPT !.answer = "exception"].to = call[n].to
      BY <2>1 DEF CallSet, NoCall
    <3> QED
      BY <2>1, <3>1, <3>2
  <2> QED
    BY <2>2, <2>3
<1>6. ASSUME NEW r \in Servers
      PROVE  /\ reachable'[r] \subseteq reachable[r]
             /\ round'[r].to_ask \subseteq round[r].to_ask \ {id}
  <2>1. CASE r = id
    BY <1>2, <1>3, <1>4, <2>1 DEF NoRound
  <2>2. CASE r # id
    <3>1. reachable'[r] = reachable[r] /\ round'[r] = round[r]
      BY <1>2, <1>3, <1>4, <2>2
    <3>2. r \in members => Removed(r, id)
      BY <1>1 DEF ClusterInv, KillOK, Disconnect, Do, id
    <3>3. r \notin members => round[r] = NoRound
      <4>1. ~ Ends("register") /\ r # Master /\ Master \in alive
        BY <1>1, <1>3, HeadOfTodo DEF Ends
      <4>2. r \notin members => r \notin alive
        BY <4>1 DEF ClusterInv, TodoOK
      <4> QED
        BY <4>2 DEF ClusterInv, RoundsOK
    <3> QED
      BY <3>1, <3>2, <3>3 DEF Removed, NoRound
  <2> QED
    BY <2>1, <2>2
<1>7. ~ Ends("register")' /\ DOMAIN todo' = {}
  BY <1>2, EmptySeq DEF Ends
<1>8. NotItself' /\ TurnsAlive'
  BY <1>2, <1>5, <1>6, <1>7 DEF CircleInv, NotItself, TurnsAlive
<1>9. TurnsReachable'
  <2> SUFFICES ASSUME NEW r \in Servers, Going(r)'
               PROVE  /\ round'[r].to_ask \subseteq reachable'[r]
                      /\ round'[r].at = "called" => call'[r].to \in reachable'[r]
    BY DEF TurnsReachable, Going
  <2>1. r # id
    BY <1>2, <1>4 DEF Going, NoRound
  <2>2. r \in Callers /\ reachable'[r] = reachable[r] /\ round'[r] = round[r]
    BY <1>2, <1>3, <1>4, <2>1
  <2>3. call'[r].to = call[r].to
    <3>1. call[r] \in CallSet
      BY <1>4, <2>2
    <3>2. call'[r] = call[r] \/ call'[r] = [call[r] EXCEPT !.answer = "exception"]
      BY <1>2, <2>1, <2>2
    <3>3. [call[r] EXCEPT !.answer = "exception"].to = call[r].to
      BY <3>1 DEF CallSet, NoCall
    <3> QED
      BY <3>2, <3>3
  <2> QED
    BY <2>2, <2>3 DEF CircleInv, TurnsReachable, Going
<1> QED
  BY <1>7, <1>8, <1>9 DEF CircleInv, JoinOnce, ToldOK, UntoldOK

(* A command begins.  Nobody has anything of a process that does not run. *)
LEMMA CommandCircle ==
  ASSUME ClusterInv, CircleInv, Command
  PROVE  CircleInv'
<1>1. Commanded /\ (Plain \/ (\E id \in Nodes : JoinOf(id)) \/ (\E id \in Servers : KillServer(id)))
  BY CommandKinds
<1>2. UNCHANGED <<call, serving, reachable, round>> /\ ClusterInv'
  BY <1>1, CommandInv DEF Commanded, thread_vars, connection_vars
<1>3. alive \subseteq alive'
  BY <1>1 DEF Plain, JoinOf, KillServer
<1>4. TurnsAlive' /\ TurnsReachable'
  BY <1>2, <1>3 DEF CircleInv, TurnsAlive, TurnsReachable, Going
<1>5. CASE Plain
  <2>1. DOMAIN todo' = 1 .. Len(todo') /\ (todo' # <<>> => Len(todo') \in 1 .. Len(todo'))
    BY <1>5, LenProperties, EmptySeq DEF Plain
  <2>2. ~ Ends("register")'
    BY <1>5, <2>1 DEF Plain, Ends, Last
  <2>3. NotItself'
    BY <1>2, <1>5, <2>1 DEF CircleInv, NotItself, Plain, ConnectsOther
  <2> QED
    BY <1>4, <2>2, <2>3 DEF CircleInv, JoinOnce, ToldOK, UntoldOK
<1>6. ASSUME NEW id \in Nodes, JoinOf(id) PROVE CircleInv'
  <2>1. /\ Len(todo') \in Nat /\ DOMAIN todo' = 1 .. Len(todo')
        /\ todo'[Len(todo')] = Do(id, "register", id) /\ Target' = id
    BY <1>6, LenProperties DEF JoinOf, Target, Last, Do
  <2>2. ASSUME NEW i \in 1 .. Len(todo')
        PROVE  JoinCall(todo'[i], alive') \/ todo'[i].op = "register"
    <3>1. Do(id, "register", id).op = "register"
      BY DEF Do
    <3> QED
      BY <1>6, <2>1, <3>1 DEF JoinOf
  <2>3. NotItself'
    <3>1. ASSUME NEW i \in 1 .. Len(todo'), todo'[i].op = "addConnection"
          PROVE  todo'[i].arg # todo'[i].to
      BY <2>2, <3>1 DEF JoinCall, ConnectsOther
    <3> QED
      BY <1>2, <2>1, <3>1 DEF CircleInv, NotItself
  <2>4. JoinOnce'
    <3>1. ASSUME NEW i \in 1 .. Len(todo')
          PROVE  todo'[i].op \in {"setID", "addConnection", "register"}
      BY <2>2 DEF JoinCall
    <3> QED
      BY <1>6, <2>1, <3>1 DEF JoinOf, JoinOnce
  <2>5. ToldOK'
    <3>1. id \notin alive
      BY <1>6 DEF JoinOf
    <3>2. ASSUME NEW r \in Servers PROVE Removed(r, id)
      <4>1. id \notin reachable[r] /\ id \notin round[r].to_ask
        BY <3>1 DEF ClusterInv, ConnectionsOK, Nodes, CircleInv, TurnsAlive
      <4>2. call[r].to = id => Dead(r)
        <5>1. id # Master /\ r \in Nodes
          BY ClusterAssumption DEF Nodes
        <5> QED
          BY <3>1, <5>1 DEF ClusterInv, NobodyAsksTheKilled, NoCall
      <4> QED
        BY <4>1, <4>2 DEF Removed
    <3> QED
      BY <1>2, <2>1, <3>2 DEF ToldOK, Removed, Dead
  <2>6. UntoldOK'
    <3>1. id \notin alive
      BY <1>6 DEF JoinOf
    <3>2. reachable[id] = {}
      BY <3>1 DEF ClusterInv, ConnectionsOK
    <3> QED
      BY <1>2, <2>1, <3>2 DEF UntoldOK
  <2> QED
    BY <1>4, <2>3, <2>4, <2>5, <2>6 DEF CircleInv
<1>7. ASSUME NEW id \in Servers, KillServer(id) PROVE CircleInv'
  <2>1. Ends("terminate")'
    BY <1>1, <1>7, KillServerInv
  <2>2. ~ Ends("register")'
    BY <2>1 DEF Ends
  <2>3. ASSUME NEW i \in DOMAIN todo' PROVE todo'[i].op # "addConnection"
    <3>1. i # Len(todo') => todo'[i].op = "removeConnection"
      BY <1>2, <2>1 DEF ClusterInv, TodoOK
    <3>2. i = Len(todo') => todo'[i].op = "terminate"
      BY <2>1 DEF Ends, Last
    <3> QED
      BY <3>1, <3>2
  <2>4. NotItself'
    BY <1>2, <2>3 DEF CircleInv, NotItself
  <2> QED
    BY <1>4, <2>2, <2>4 DEF CircleInv, JoinOnce, ToldOK, UntoldOK
<1> QED
  BY <1>1, <1>5, <1>6, <1>7

(* At the start nobody asks anybody. *)
LEMMA InitCircle == Init => CircleInv
<1> SUFFICES ASSUME Init PROVE CircleInv
  OBVIOUS
<1>1. PICK started \in DOMAIN Starts :
        \E home \in [started \cap Clients -> started \cap Servers],
           broken \in {{}} \cup kSubset(2, started) :
          Connected(started, home, broken)
  BY DEF Init
<1>2. PICK home \in [started \cap Clients -> started \cap Servers],
           broken \in {{}} \cup kSubset(2, started) :
        Connected(started, home, broken)
  BY <1>1
<1>3. Servers \cap Clients = {} /\ Master \notin Nodes
  BY ClusterAssumption
<1>4. /\ call = [x \in Callers |-> NoCall] /\ round = [r \in Servers |-> NoRound]
      /\ todo = <<>>
  BY DEF Init
<1>5. \A r \in Servers : r \notin reachable[r]
  BY <1>2, <1>3 DEF Connected, Nodes
<1>6. NotItself
  BY <1>3, <1>4, <1>5, EmptySeq DEF NotItself, NoCall, NoRound, Callers
<1>7. TurnsAlive /\ TurnsReachable /\ JoinOnce /\ ToldOK /\ UntoldOK
  BY <1>4 DEF TurnsAlive, TurnsReachable, Going, JoinOnce, ToldOK, UntoldOK, Ends, NoRound
<1> QED
  BY <1>6, <1>7 DEF CircleInv

(* Every step keeps it. *)
LEMMA NextCircle == ClusterInv /\ CircleInv /\ [Next]_vars => CircleInv'
<1> SUFFICES ASSUME ClusterInv, CircleInv, [Next]_vars PROVE CircleInv'
  OBVIOUS
<1>1. CASE Command
  BY <1>1, CommandCircle
<1>2. CASE MasterStep
  BY <1>2, MasterCallsCircle, MasterReturnsCircle, EndCircle, TerminateCircle DEF MasterStep
<1>3. CASE \E n \in Nodes : ServerThread(n)
  BY <1>3, ServerThreadQuiet, QuietKeeps
<1>4. CASE \E r \in Servers : ServerLocks(r) \/ BeginRound(r, "periodic") \/ RoundStep(r)
  BY <1>4, RoundQuiet, QuietKeeps, AddReachableCircle DEF ServerLocks
<1>5. CASE UNCHANGED vars
  <2>1. UNCHANGED <<call, serving, todo, alive, reachable, round>>
    BY <1>5 DEF vars, thread_vars, connection_vars, master_vars
  <2> QED
    BY <2>1, OthersAreQuiet, QuietKeeps DEF Dead, Going
<1> QED
  BY <1>1, <1>2, <1>3, <1>4, <1>5 DEF Next

(***************************************************************************)
(* Calls, lines and locks make no circle through a connection of the       *)
(* master, that of joinServer to the new process (master.py 93) included.  *)
(* A trial of addConnection (replica_server.py 68) can stand before the    *)
(* question of the round whose lock it waits for only in createConnection  *)
(* for a pair that is connected, and never in a join.                      *)
(***************************************************************************)
THEOREM NoCircleOfCalls == Spec => []NoCircle
<1>1. ClusterInv /\ CircleInv => NoCircle
  <2> SUFFICES ASSUME ClusterInv, CircleInv, NEW n \in Nodes, HeldUp(n)
               PROVE  /\ line[call[n].to] # <<>> => Head(line[call[n].to]) # Master
                      /\ BehindItself(n) => Argument(n) \in reachable[n] /\ Last(todo).op # "register"
    BY DEF NoCircle
  <2> DEFINE s == call[n].to
  <2>1. n \in Callers /\ Master \in Callers /\ Master \notin Nodes /\ n # Master
    BY ClusterAssumption DEF Callers
  <2>2. /\ call[Master].to = n /\ call[Master].answer = "none" /\ serving[n] \notin Unlocked
        /\ call[n] # NoCall /\ s \in Nodes /\ s # n
    <3>1. call[n] # NoCall /\ call[Master].to = n /\ call[Master].answer = "none"
      BY DEF HeldUp
    <3>2. serving[n] \notin Unlocked
      BY DEF HeldUp, Unlocked
    <3> QED
      BY <2>1, <3>1, <3>2 DEF ClusterInv, Types, CallSet, CircleInv, NotItself
  <2>3. /\ todo # <<>> /\ 1 \in DOMAIN todo /\ todo[1].to = n /\ todo[1].op = call[Master].op
        /\ todo[1].arg = call[Master].arg /\ Master \in alive
    <3>1. call[Master] # NoCall
      BY <2>1, <2>2 DEF NoCall
    <3> QED
      BY <2>1, <2>2, <3>1, HeadOfTodo DEF ClusterInv, MasterOK, CallersOK
  <2>4. ~ Passed(1) /\ ~ Past(n)
    BY <2>2, <2>3 DEF Past, Passed
  <2>5. ASSUME Ends("register"), n \in Servers, s = Target PROVE FALSE
    <3>1. ~ Removed(n, Target)
      BY <2>5 DEF HeldUp, Removed
    <3> QED
      BY <2>2, <2>4, <2>5, <3>1 DEF CircleInv, ToldOK
  <2>6. ASSUME NEW x, line[s] # <<>>, Head(line[s]) = x
        PROVE  x \in Callers /\ Contains(line[s], x)
    <3>1. line[s] \in Seq(Callers)
      BY <2>2 DEF ClusterInv, Types, LineType
    <3> QED
      BY <2>6, <3>1, LenProperties, HeadTailProperties, EmptySeq DEF Contains
  <2>7. ASSUME line[s] # <<>>, Head(line[s]) = Master PROVE FALSE
    <3>1. Excused(s, Master)
      BY <2>2, <2>6, <2>7 DEF ClusterInv, LinesOK
    <3>2. Ends("register") /\ Target = s
      BY <2>1, <2>2, <2>3, <3>1 DEF Excused, Nodes
    <3>3. call[Master].op \notin Requests
      BY <2>3, <3>2 DEF CircleInv, JoinOnce, Requests
    <3>4. n \notin Clients
      BY <2>2, <3>3 DEF ClusterInv, CallersOK, ServingOK, MasterAt
    <3> QED
      BY <2>5, <3>2, <3>4 DEF Nodes
  <2>8. ASSUME BehindItself(n)
        PROVE  Argument(n) \in reachable[n] /\ Last(todo).op # "register"
    <3>1. serving[n] = "trying" /\ line[s] # <<>> /\ Head(line[s]) = Trial(n)
      BY <2>8 DEF BehindItself
    <3>2. n \in Servers /\ MasterAt(n, {"addConnection"})
      BY <3>1 DEF ClusterInv, ServingOK, Nodes
    <3>3. call[Master].op = "addConnection" /\ Argument(n) = call[Master].arg
      BY <3>2, Adding
    <3>4. s = call[Master].arg
      BY <2>2, <2>6, <3>1, <3>2 DEF ClusterInv, TrialsOK
    <3>5. s \in reachable[n]
      <4>1. round[n].at = "called"
        BY <2>2, <3>2 DEF HeldUp, Dead, ClusterInv, CallersOK
      <4> QED
        BY <3>2, <4>1 DEF CircleInv, TurnsReachable
    <3>6. ~ Ends("register")
      <4> SUFFICES ASSUME Ends("register") PROVE FALSE
        OBVIOUS
      <4>1. Target \in {n, s}
        BY <2>3, <3>3, <3>4 DEF CircleInv, JoinOnce
      <4>2. Target # s
        BY <2>5, <3>2
      <4> QED
        BY <2>3, <2>4, <3>2, <3>3, <3>4, <3>5, <4>1, <4>2 DEF CircleInv, UntoldOK
    <3> QED
      BY <2>3, <3>3, <3>4, <3>5, <3>6 DEF Ends
  <2> QED
    BY <2>7, <2>8
<1> QED
  BY <1>1, ClusterInvariant, InitCircle, NextCircle, PTL DEF Spec
=============================================================================
