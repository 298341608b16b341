----------------------------- MODULE RejoinProofs -----------------------------
(***************************************************************************)
(* A server that is killed and joined again, any number of times: as long  *)
(* as no put came early, the stamps of what is left of the writes stay     *)
(* unique and none of them is lost, for any number of replicas and writes. *)
(*                                                                         *)
(* A process that ends takes OwnClockAhead with it: the others know more   *)
(* of the victim than its successor does.  What is left of that is that    *)
(* the successor will know as much when it has merged the answers of those *)
(* it has not yet heard.                                                   *)
(***************************************************************************)
EXTENDS Rejoin, ReplicaServerProofs

(* The entries somebody may still have. *)
Live == accepted \ lost

(* Whom the present process has heard; the next one starts with nobody.    *)
HeardNow == IF stage = "down" THEN {} ELSE heard

(***************************************************************************)
(* The victim's own clock entry has reached c, or there is a replica it    *)
(* has not yet heard that knows of c, and said so if it has answered.      *)
(***************************************************************************)
Witness(q, c) ==
  /\ q \in Others /\ q \notin HeardNow
  /\ c <= vector_clock[q][Victim]
  /\ phase[Victim] = "answered" /\ peer[Victim] = q
       => c <= response[Victim].vector_clock[Victim]

WillKnow(c) == c <= vector_clock[Victim][Victim] \/ \E q \in Servers : Witness(q, c)

RejoinTypeOK ==
  /\ stage \in {"up", "leaving", "down", "joining"}
  /\ heard \subseteq Servers
  /\ kills \in Nat
  /\ lost \subseteq accepted

(* A round asks along the links of its replica, which stay while it runs. *)
RoundsOnLinks ==
  \A r \in Servers :
    /\ to_ask[r] \subseteq reachable[r]
    /\ phase[r] # "idle" => peer[r] \in reachable[r]

(* An answer is nothing before it is there, and then no news to its peer.  *)
AnswersBehind ==
  \A r \in Servers :
    /\ phase[r] # "answered" => response[r] = NoResult
    /\ phase[r] = "answered" => ClockLeq(response[r].vector_clock, vector_clock[peer[r]])

(* A joined process can reach the others, or it has heard them before.     *)
UpReachesAll ==
  stage \in {"up", "leaving"} => Others \subseteq heard \/ Others \subseteq reachable[Victim]

(* OwnClockAhead, of the replicas that stay. *)
OthersAhead ==
  \A q \in Others :
    /\ CoversOwn(q, Live)
    /\ \A r \in Servers : /\ vector_clock[r][q] <= vector_clock[q][q]
                          /\ response[r].vector_clock[q] <= vector_clock[q][q]

(* What is left of it for the victim. *)
VictimCatchesUp ==
  /\ \A w \in Live : w.replica_id = Victim => WillKnow(w.accept_time + 1)
  /\ \A r \in Servers : /\ WillKnow(vector_clock[r][Victim])
                        /\ WillKnow(response[r].vector_clock[Victim])

RoundInv == RejoinTypeOK /\ RoundsOnLinks /\ AnswersBehind /\ UpReachesAll

RejoinInv == Core(Live) /\ RoundInv /\ OthersAhead /\ VictimCatchesUp

(* The types of the numbers the clocks hold. *)
LEMMA ClockTypes ==
  ASSUME TypeOK
  PROVE  /\ \A q, s \in Servers : vector_clock[q][s] \in Nat
         /\ \A q, s \in Servers : response[q].vector_clock[s] \in Nat
         /\ \A q \in Servers : accept_time[q] \in Nat
         /\ \A w \in accepted : /\ w \in Entries /\ w.accept_time \in Nat
                               /\ w.replica_id \in Servers
  BY EntryNumbers DEF TypeOK, VectorClocks, Results

(* The victim is one of the servers. *)
LEMMA VictimIsServer == Victim \in Servers /\ Others \subseteq Servers
  BY VictimAssumption DEF VictimAssumption, Others

LEMMA InitRejoinInv == RejoinInit => RejoinInv
<1> SUFFICES ASSUME RejoinInit PROVE RejoinInv
  OBVIOUS
<1>1. /\ Init /\ stage = "up" /\ heard = Others /\ kills = 0 /\ lost = {}
  BY DEF RejoinInit
<1>2. IInv
  BY <1>1, InitIInv
<1>3. Live = accepted /\ accepted = {}
  BY <1>1 DEF Live, Init
<1>4. Core(Live)
  <2>1. PICK E : E = accepted
    OBVIOUS
  <2> QED
    BY <1>2, <1>3 DEF IInv
<1>5. RoundInv
  BY <1>1, VictimIsServer
     DEF RoundInv, RejoinTypeOK, RoundsOnLinks, AnswersBehind, UpReachesAll, Init
<1>6. OthersAhead
  BY <1>2, <1>3, VictimIsServer DEF OthersAhead, IInv, OwnClockAhead, CoversOwn
<1>7. VictimCatchesUp
  BY <1>2, <1>3, VictimIsServer DEF VictimCatchesUp, WillKnow, IInv, OwnClockAhead
<1> QED
  BY <1>4, <1>5, <1>6, <1>7 DEF RejoinInv

-----------------------------------------------------------------------------
(***************************************************************************)
(* What the victim will know it goes on to know, as clocks only grow, it   *)
(* forgets whom it has heard only when the process ends, and an answer it  *)
(* gets says all that its peer knows.                                      *)
(***************************************************************************)
StillAnswered ==
  phase'[Victim] = "answered" =>
    \/ phase[Victim] = "answered" /\ peer'[Victim] = peer[Victim]
       /\ response'[Victim] = response[Victim]
    \/ vector_clock[peer'[Victim]][Victim] <= response'[Victim].vector_clock[Victim]

LEMMA WillKnowStays ==
  ASSUME TypeOK, TypeOK', NEW c \in Nat, WillKnow(c),
         \A q \in Servers : vector_clock[q][Victim] <= vector_clock'[q][Victim],
         HeardNow' = HeardNow, StillAnswered
  PROVE  WillKnow(c)'
<1>1. /\ \A q \in Servers : vector_clock[q][Victim] \in Nat /\ vector_clock'[q][Victim] \in Nat
      /\ response'[Victim].vector_clock[Victim] \in Nat
  <2>1. /\ \A q, s \in Servers : vector_clock'[q][s] \in Nat
        /\ \A q, s \in Servers : response'[q].vector_clock[s] \in Nat
    BY DEF TypeOK, VectorClocks, Results
  <2> QED
    BY <2>1, ClockTypes, VictimIsServer
<1>2. CASE c <= vector_clock[Victim][Victim]
  <2>1. c <= vector_clock'[Victim][Victim]
    BY <1>1, <1>2, VictimIsServer
  <2> QED
    BY <2>1 DEF WillKnow
<1>3. ASSUME NEW q \in Servers, Witness(q, c) PROVE Witness(q, c)'
  <2>1. /\ q \in Others /\ q \notin HeardNow' /\ c <= vector_clock[q][Victim]
        /\ phase[Victim] = "answered" /\ peer[Victim] = q
             => c <= response[Victim].vector_clock[Victim]
    BY <1>3 DEF Witness
  <2>2. c <= vector_clock'[q][Victim]
    BY <1>1, <2>1
  <2>3. ASSUME phase'[Victim] = "answered", peer'[Victim] = q
        PROVE  c <= response'[Victim].vector_clock[Victim]
    <3>1. CASE phase[Victim] = "answered" /\ peer'[Victim] = peer[Victim]
               /\ response'[Victim] = response[Victim]
      BY <2>1, <2>3, <3>1
    <3>2. CASE vector_clock[q][Victim] <= response'[Victim].vector_clock[Victim]
      BY <1>1, <2>1, <3>2
    <3> QED
      BY <2>3, <3>1, <3>2 DEF StillAnswered
  <2> QED
    BY <2>1, <2>2, <2>3 DEF Witness, Others
<1> QED
  BY <1>2, <1>3 DEF WillKnow

(***************************************************************************)
(* The steps that change no log, clock or answer: the master's commands,   *)
(* the start of a round and of a request.                                  *)
(***************************************************************************)
LEMMA QuietStep ==
  ASSUME RejoinInv, TypeOK', RequestBehind', HeardNow' = HeardNow,
         UNCHANGED <<replica_vars, response, accepted, lost>>,
         phase'[Victim] = "answered" =>
           phase[Victim] = "answered" /\ peer'[Victim] = peer[Victim]
  PROVE  Core(Live)' /\ OthersAhead' /\ VictimCatchesUp'
<1>1. /\ TypeOK /\ Core(Live) /\ OthersAhead /\ VictimCatchesUp
  BY DEF RejoinInv, Core
<1>2. Live' = Live
  BY DEF Live
<1>3. Core(Live)'
  <2>1. PICK E : E = Live
    OBVIOUS
  <2>2. Core(E)'
    BY <1>1, <2>1, BookkeepingCore
  <2> QED
    BY <1>2, <2>1, <2>2
<1>4. OthersAhead'
  BY <1>1, <1>2 DEF OthersAhead, CoversOwn, Covers, replica_vars
<1>5. StillAnswered
  BY DEF StillAnswered
<1>6. ASSUME NEW c \in Nat, WillKnow(c) PROVE WillKnow(c)'
  <2>1. \A q \in Servers : vector_clock[q][Victim] <= vector_clock'[q][Victim]
    BY <1>1, ClockTypes, VictimIsServer DEF replica_vars
  <2> QED
    BY <1>1, <1>5, <1>6, <2>1, WillKnowStays
<1>7. VictimCatchesUp'
  <2>1. \A w \in Live : w.replica_id = Victim => WillKnow(w.accept_time + 1)'
    <3> SUFFICES ASSUME NEW w \in Live, w.replica_id = Victim
                 PROVE  WillKnow(w.accept_time + 1)'
      OBVIOUS
    <3>1. PICK c \in Nat : c = w.accept_time + 1
      BY <1>1, ClockTypes DEF Live
    <3>2. WillKnow(c)'
      BY <1>1, <1>6, <3>1 DEF VictimCatchesUp
    <3> QED
      BY <3>1, <3>2
  <2>2. ASSUME NEW r \in Servers
        PROVE  WillKnow(vector_clock[r][Victim])' /\ WillKnow(response[r].vector_clock[Victim])'
    <3>1. PICK c \in Nat, d \in Nat :
            c = vector_clock[r][Victim] /\ d = response[r].vector_clock[Victim]
      BY <1>1, ClockTypes, VictimIsServer
    <3>2. WillKnow(c)' /\ WillKnow(d)'
      BY <1>1, <1>6, <3>1 DEF VictimCatchesUp
    <3> QED
      BY <3>1, <3>2 DEF replica_vars
  <2> QED
    BY <1>2, <2>1, <2>2 DEF VictimCatchesUp
<1> QED
  BY <1>3, <1>4, <1>7

(* The master's commands, up to the end of the old process and from there. *)
Command ==
  \/ KillServer \/ JoinServer \/ Joined
  \/ \E r, s \in Servers : Disconnect(r) \/ Connect(r, s)

LEMMA CommandRejoinInv ==
  ASSUME RejoinInv, Command
  PROVE  RejoinInv'
<1>1. /\ TypeOK /\ Core(Live) /\ RequestBehind
      /\ RejoinTypeOK /\ RoundsOnLinks /\ AnswersBehind /\ UpReachesAll
  BY DEF RejoinInv, Core, ClockInv, RoundInv
<1>2. UNCHANGED <<replica_vars, round_vars, accepted, lost>>
  BY DEF Command, KillServer, JoinServer, Joined, Disconnect, Connect, vars, rejoin_vars, life_vars
<1>3. HeardNow' = HeardNow /\ stage' \in {"up", "leaving", "down", "joining"}
      /\ heard' \subseteq Servers /\ kills' \in Nat
  BY <1>1 DEF Command, KillServer, JoinServer, Joined, Disconnect, Connect, vars, rejoin_vars, life_vars,
     HeardNow, RejoinTypeOK
<1>4. /\ reachable' \in [Servers -> SUBSET Servers]
      /\ \A r \in Servers : reachable'[r] = reachable[r] \/ ~ InRound(r)
  BY <1>1 DEF Command, KillServer, JoinServer, Joined, Disconnect, Connect, vars, TypeOK
<1>5. TypeOK'
  BY <1>1, <1>2, <1>4 DEF TypeOK, replica_vars, round_vars
<1>6. RequestBehind'
  BY <1>1, <1>2 DEF RequestBehind, replica_vars, round_vars
<1>7. Core(Live)' /\ OthersAhead' /\ VictimCatchesUp'
  BY <1>2, <1>3, <1>5, <1>6, QuietStep DEF round_vars
<1>8. RoundsOnLinks'
  BY <1>1, <1>2, <1>4 DEF RoundsOnLinks, InRound, round_vars
<1>9. AnswersBehind'
  BY <1>1, <1>2 DEF AnswersBehind, round_vars, replica_vars
<1>10. UpReachesAll'
  <2>1. CASE KillServer \/ Joined
    BY <1>1, <2>1 DEF KillServer, Joined, ConnectedToAll, UpReachesAll, vars
  <2>2. CASE JoinServer
    BY <2>2 DEF JoinServer, UpReachesAll
  <2>3. ASSUME NEW r \in Servers, Disconnect(r) PROVE UpReachesAll'
    <3>1. heard' = heard /\ stage' = stage /\ reachable[Victim] \ {Victim} \subseteq reachable'[Victim]
      BY <1>1, <2>3, VictimIsServer DEF Disconnect, rejoin_vars, life_vars, TypeOK
    <3> QED
      BY <1>1, <3>1 DEF UpReachesAll, Others
  <2>4. ASSUME NEW r \in Servers, NEW s \in Servers, Connect(r, s) PROVE UpReachesAll'
    BY <2>4 DEF Connect, rejoin_vars, life_vars, UpReachesAll
  <2> QED
    BY <2>1, <2>2, <2>3, <2>4 DEF Command
<1>11. RejoinTypeOK'
  BY <1>1, <1>2, <1>3 DEF RejoinTypeOK
<1> QED
  BY <1>7, <1>8, <1>9, <1>10, <1>11 DEF RejoinInv, RoundInv

(* A round starts, or its next request goes out. *)
LEMMA AskRejoinInv ==
  ASSUME RejoinInv, NEW r \in Servers, UNCHANGED rejoin_vars,
         BeginRound(r) \/ \E s \in Servers : SendRequest(r, s)
  PROVE  RejoinInv'
<1>1. /\ TypeOK /\ Core(Live)
      /\ RejoinTypeOK /\ RoundsOnLinks /\ AnswersBehind /\ UpReachesAll
  BY DEF RejoinInv, Core, RoundInv
<1>2. UNCHANGED <<replica_vars, reachable, response, accepted, stage, heard, kills, lost>>
  BY DEF BeginRound, SendRequest, rejoin_vars, life_vars
<1>3. TypeOK' /\ RequestBehind'
  <2>1. PICK E : E = Live
    OBVIOUS
  <2>2. Core(E)'
    BY <1>1, <2>1, BeginRoundCore, SendRequestCore
  <2> QED
    BY <2>2 DEF Core, ClockInv
<1>4. \A q \in Servers : phase'[q] = "answered" <=> phase[q] = "answered"
  BY <1>1 DEF BeginRound, SendRequest, TypeOK
<1>5. \A q \in Servers : phase[q] = "answered" => peer'[q] = peer[q]
  BY <1>1 DEF BeginRound, SendRequest, TypeOK
<1>6. Core(Live)' /\ OthersAhead' /\ VictimCatchesUp'
  BY <1>2, <1>3, <1>4, <1>5, VictimIsServer, QuietStep DEF HeardNow
<1>7. RoundsOnLinks'
  <2>1. CASE BeginRound(r)
    BY <1>1, <2>1 DEF BeginRound, RoundsOnLinks, TypeOK
  <2>2. ASSUME NEW s \in Servers, SendRequest(r, s) PROVE RoundsOnLinks'
    BY <1>1, <2>2 DEF SendRequest, RoundsOnLinks, TypeOK
  <2> QED
    BY <2>1, <2>2
<1>8. AnswersBehind'
  BY <1>1, <1>2, <1>4, <1>5 DEF AnswersBehind, replica_vars
<1>9. UpReachesAll' /\ RejoinTypeOK'
  BY <1>1, <1>2 DEF UpReachesAll, RejoinTypeOK
<1> QED
  BY <1>6, <1>7, <1>8, <1>9 DEF RejoinInv, RoundInv

(***************************************************************************)
(* An answer is a copy of its peer's clock, so who is to tell the victim   *)
(* something has told it.                                                  *)
(***************************************************************************)
LEMMA AnswerRejoinInv ==
  ASSUME RejoinInv, NEW r \in Servers, NEW s \in Servers, AntiEntropyRequest(s, r),
         UNCHANGED rejoin_vars
  PROVE  RejoinInv'
<1>1. /\ TypeOK /\ Core(Live) /\ OthersAhead /\ VictimCatchesUp
      /\ RejoinTypeOK /\ RoundsOnLinks /\ AnswersBehind /\ UpReachesAll
  BY DEF RejoinInv, Core, RoundInv
<1>2. UNCHANGED <<replica_vars, reachable, to_ask, peer, accepted, stage, heard, kills, lost>>
  BY DEF AntiEntropyRequest, rejoin_vars, life_vars
<1>3. Live' = Live /\ HeardNow' = HeardNow
  BY <1>2 DEF Live, HeardNow
<1>4. Core(Live)'
  <2>1. PICK E : E = Live
    OBVIOUS
  <2>2. Core(E)'
    BY <1>1, <2>1, AntiEntropyRequestCore
  <2> QED
    BY <1>3, <2>1, <2>2
<1>5. /\ phase[r] = "requested" /\ phase'[r] = "answered"
      /\ \A q \in Servers : q # r => phase'[q] = phase[q] /\ response'[q] = response[q]
      /\ peer[r] = s /\ response'[r].vector_clock = vector_clock[s]
  BY <1>1 DEF AntiEntropyRequest, TypeOK
<1>6. OthersAhead'
  BY <1>1, <1>2, <1>3, <1>5 DEF OthersAhead, CoversOwn, Covers, replica_vars, Others
<1>7. TypeOK' /\ \A q \in Servers : vector_clock[q][Victim] <= vector_clock'[q][Victim]
  BY <1>1, <1>2, <1>4, ClockTypes, VictimIsServer DEF Core, replica_vars
<1>8. StillAnswered
  <2>1. vector_clock[s][Victim] <= vector_clock[s][Victim]
    BY <1>1, ClockTypes, VictimIsServer
  <2>2. CASE r = Victim
    BY <1>2, <1>5, <2>1, <2>2 DEF StillAnswered
  <2>3. CASE r # Victim
    BY <1>2, <1>5, <2>3, VictimIsServer DEF StillAnswered
  <2> QED
    BY <2>2, <2>3
<1>9. ASSUME NEW c \in Nat, WillKnow(c) PROVE WillKnow(c)'
  BY <1>1, <1>3, <1>7, <1>8, <1>9, WillKnowStays
<1>10. VictimCatchesUp'
  <2>1. \A w \in Live : w.replica_id = Victim => WillKnow(w.accept_time + 1)'
    <3> SUFFICES ASSUME NEW w \in Live, w.replica_id = Victim
                 PROVE  WillKnow(w.accept_time + 1)'
      OBVIOUS
    <3>1. PICK c \in Nat : c = w.accept_time + 1
      BY <1>1, ClockTypes DEF Live
    <3>2. WillKnow(c)'
      BY <1>1, <1>9, <3>1 DEF VictimCatchesUp
    <3> QED
      BY <3>1, <3>2
  <2>2. ASSUME NEW q \in Servers PROVE WillKnow(vector_clock[q][Victim])'
    <3>1. PICK c \in Nat : c = vector_clock[q][Victim]
      BY <1>1, ClockTypes, VictimIsServer
    <3>2. WillKnow(c)'
      BY <1>1, <1>9, <3>1 DEF VictimCatchesUp
    <3> QED
      BY <1>2, <3>1, <3>2 DEF replica_vars
  <2>3. ASSUME NEW q \in Servers PROVE WillKnow(response[q].vector_clock[Victim])'
    <3>1. CASE q = r
      <4>1. response'[q].vector_clock[Victim] = vector_clock'[s][Victim]
        BY <1>2, <1>5, <3>1 DEF replica_vars
      <4> QED
        BY <4>1, <2>2
    <3>2. CASE q # r
      <4>1. PICK c \in Nat : c = response[q].vector_clock[Victim]
        BY <1>1, ClockTypes, VictimIsServer
      <4>2. WillKnow(c)'
        BY <1>1, <1>9, <4>1 DEF VictimCatchesUp
      <4> QED
        BY <1>5, <3>2, <4>1, <4>2
    <3> QED
      BY <3>1, <3>2
  <2> QED
    BY <1>3, <2>1, <2>2, <2>3 DEF VictimCatchesUp
<1>11. AnswersBehind'
  <2>1. ClockLeq(vector_clock[s], vector_clock[s])
    BY <1>1, ClockTypes DEF ClockLeq
  <2> QED
    BY <1>1, <1>2, <1>5, <2>1 DEF AnswersBehind, replica_vars
<1>12. RoundsOnLinks'
  BY <1>1, <1>2, <1>5 DEF RoundsOnLinks
<1>13. UpReachesAll' /\ RejoinTypeOK'
  BY <1>1, <1>2 DEF UpReachesAll, RejoinTypeOK
<1> QED
  BY <1>4, <1>6, <1>10, <1>11, <1>12, <1>13 DEF RejoinInv, RoundInv

-----------------------------------------------------------------------------
(***************************************************************************)
(* A victim that has heard all it can reach has heard everyone, so there   *)
(* is no witness left: it knows itself what it will know.                  *)
(***************************************************************************)
LEMMA HeardAll ==
  ASSUME RejoinInv, HasHeard
  PROVE  \A c : WillKnow(c) => c <= vector_clock[Victim][Victim]
<1>1. stage = "up" /\ Others \subseteq heard
  BY DEF RejoinInv, RoundInv, UpReachesAll, HasHeard
<1>2. HeardNow = heard
  BY <1>1 DEF HeardNow
<1> QED
  BY <1>1, <1>2 DEF WillKnow, Witness

(* Nobody, then, covers what a replica that may write is about to write. *)
LEMMA RejoinStampUncovered ==
  ASSUME RejoinInv, NEW r \in Servers, r = Victim => HasHeard,
         NEW n, n.accept_time = accept_time[r], n.replica_id = r
  PROVE  CoversOwn(r, Live) /\ NobodyCovers(n)
<1>1. /\ TypeOK /\ OthersAhead /\ VictimCatchesUp /\ AcceptTimeAhead
      /\ Live \subseteq accepted
  BY DEF RejoinInv, Core, ClockInv, Live
<1>2. /\ \A q \in Servers : accept_time[q] \in Nat
      /\ \A q, s \in Servers : vector_clock[q][s] \in Nat
      /\ \A q, s \in Servers : response[q].vector_clock[s] \in Nat
      /\ \A w \in Live : w.accept_time \in Nat
  BY <1>1, ClockTypes
<1>3. /\ CoversOwn(r, Live)
      /\ \A q \in Servers : /\ vector_clock[q][r] <= vector_clock[r][r]
                            /\ response[q].vector_clock[r] <= vector_clock[r][r]
  <2>1. CASE r \in Others
    BY <1>1, <2>1 DEF OthersAhead
  <2>2. CASE r = Victim
    <3>1. \A c : WillKnow(c) => c <= vector_clock[r][r]
      BY <2>2, HeardAll
    <3>2. \A w \in Live : w.replica_id = r => w.accept_time + 1 <= vector_clock[r][r]
      BY <1>1, <2>2, <3>1 DEF VictimCatchesUp
    <3>3. CoversOwn(r, Live)
      BY <1>2, <3>2 DEF CoversOwn, Covers
    <3> QED
      BY <1>1, <2>2, <3>1, <3>3 DEF VictimCatchesUp
  <2> QED
    BY <2>1, <2>2 DEF Others
<1>4. vector_clock[r][r] <= accept_time[r]
  BY <1>1 DEF AcceptTimeAhead
<1>5. ASSUME NEW q \in Servers
      PROVE  ~ Covers(vector_clock[q], n) /\ ~ Covers(response[q].vector_clock, n)
  BY <1>2, <1>3, <1>4 DEF Covers
<1> QED
  BY <1>3, <1>5 DEF NobodyCovers

LEMMA WriteRejoinInv ==
  ASSUME RejoinInv, NEW r \in Servers, RejoinWrite(r), ~ early'
  PROVE  RejoinInv'
<1>1. /\ TypeOK /\ Core(Live) /\ OthersAhead /\ VictimCatchesUp /\ AcceptTimeAhead
      /\ RejoinTypeOK /\ RoundsOnLinks /\ AnswersBehind /\ UpReachesAll
  BY DEF RejoinInv, Core, ClockInv, RoundInv
<1>2. r = Victim => HasHeard
  BY DEF RejoinWrite
<1>3. UNCHANGED life_vars
  BY DEF RejoinWrite
<1>4. PICK key \in Keys, value \in Values, cid \in Clients, t \in ClientTimes :
        FreshClientTime(cid, t) /\ Write(r, key, value, cid, t)
  BY DEF RejoinWrite, ClientWrite
<1>5. PICK n : n = NewEntry(r, key, value, cid, t)
  OBVIOUS
<1>6. /\ n.accept_time = accept_time[r] /\ n.replica_id = r
      /\ n.client_id = cid /\ n.client_time = t
  BY <1>5 DEF NewEntry
<1>7. CoversOwn(r, Live) /\ NobodyCovers(n)
  BY <1>2, <1>6, RejoinStampUncovered
<1>8. /\ accept_time' = [accept_time EXCEPT ![r] = @ + 1]
      /\ vector_clock' = [vector_clock EXCEPT ![r][r] = accept_time[r] + 1]
      /\ accepted' = accepted \cup {n}
      /\ UNCHANGED <<reachable, to_ask, phase, peer, request_clock, response>>
  BY <1>1, <1>4, <1>5 DEF Write, round_vars, TypeOK
(* A process ended before this entry was written: it is not lost.        *)
<1>9. n \notin accepted
  <2>1. t \in Nat
    BY IdAssumption
  <2> QED
    BY <1>4, <1>6, <2>1 DEF FreshClientTime
<1>10. Live' = Live \cup {n}
  BY <1>1, <1>3, <1>8, <1>9 DEF Live, RejoinTypeOK, life_vars
<1>11. /\ Core(Live)'
       /\ \A q, s \in Servers : vector_clock[q][s] <= vector_clock'[q][s]
       /\ Covers(vector_clock'[r], n)
       /\ \A q \in Servers, w \in Live :
            Covers(vector_clock'[q], w) <=> Covers(vector_clock[q], w)
  <2>1. PICK E : E = Live
    OBVIOUS
  <2>2. Core(E) /\ CoversOwn(r, E)
    BY <1>1, <1>7, <2>1
  <2>3. Core(E \cup {n})'
    BY <1>4, <1>5, <1>7, <2>2, WriteCore
  <2>4. /\ \A q, s \in Servers : vector_clock[q][s] <= vector_clock'[q][s]
        /\ Covers(vector_clock'[r], n)
        /\ \A q \in Servers, w \in E :
             Covers(vector_clock'[q], w) <=> Covers(vector_clock[q], w)
    BY <1>4, <1>5, <2>2, WriteCovers
  <2> QED
    BY <1>10, <2>1, <2>3, <2>4
<1>12. TypeOK'
  BY <1>11 DEF Core
<1>13. /\ vector_clock'[r][r] = accept_time[r] + 1
       /\ \A q, s \in Servers : (q # r \/ s # r) => vector_clock'[q][s] = vector_clock[q][s]
  BY <1>1, <1>8 DEF TypeOK, VectorClocks
<1>14. /\ \A q \in Servers : accept_time[q] \in Nat
       /\ \A q, s \in Servers : vector_clock[q][s] \in Nat /\ vector_clock'[q][s] \in Nat
       /\ \A q, s \in Servers : response[q].vector_clock[s] \in Nat
       /\ \A w \in Live : w.accept_time \in Nat /\ w.replica_id \in Servers
  <2>1. \A q, s \in Servers : vector_clock'[q][s] \in Nat
    BY <1>12 DEF TypeOK, VectorClocks
  <2> QED
    BY <1>1, <2>1, ClockTypes DEF Live
<1>15. OthersAhead'
  <2> SUFFICES ASSUME NEW q \in Others
               PROVE  /\ \A w \in Live' : w.replica_id = q => Covers(vector_clock'[q], w)
                      /\ \A s \in Servers :
                           /\ vector_clock'[s][q] <= vector_clock'[q][q]
                           /\ response[s].vector_clock[q] <= vector_clock'[q][q]
    BY <1>8 DEF OthersAhead, CoversOwn
  <2>1. q \in Servers
    BY VictimIsServer
  <2>2. \A w \in Live : w.replica_id = q => Covers(vector_clock[q], w)
    BY <1>1 DEF OthersAhead, CoversOwn
  <2>3. \A w \in Live' : w.replica_id = q => Covers(vector_clock'[q], w)
    BY <1>6, <1>10, <1>11, <2>1, <2>2
  <2>4. ASSUME NEW s \in Servers
        PROVE  /\ vector_clock'[s][q] <= vector_clock'[q][q]
               /\ response[s].vector_clock[q] <= vector_clock'[q][q]
    <3>1. /\ vector_clock[s][q] <= vector_clock[q][q]
          /\ response[s].vector_clock[q] <= vector_clock[q][q]
          /\ vector_clock[q][q] <= vector_clock'[q][q]
      BY <1>1, <1>11, <2>1 DEF OthersAhead
    <3>2. vector_clock'[s][q] = vector_clock[s][q] \/ s = q
      BY <1>13, <2>1
    <3>3. CASE s = q
      BY <1>14, <2>1, <3>1, <3>3
    <3>4. CASE vector_clock'[s][q] = vector_clock[s][q]
      BY <1>14, <2>1, <3>1, <3>4
    <3> QED
      BY <3>2, <3>3, <3>4
  <2> QED
    BY <2>3, <2>4
<1>16. ASSUME NEW c \in Nat, WillKnow(c) PROVE WillKnow(c)'
  <2>1. HeardNow' = HeardNow /\ StillAnswered
    BY <1>3, <1>8 DEF HeardNow, StillAnswered, life_vars
  <2> QED
    BY <1>1, <1>11, <1>12, <1>16, <2>1, VictimIsServer, WillKnowStays
<1>17. VictimCatchesUp'
  <2>1. ASSUME NEW w \in Live', w.replica_id = Victim PROVE WillKnow(w.accept_time + 1)'
    <3>1. CASE w \in Live
      <4>1. PICK c \in Nat : c = w.accept_time + 1
        BY <1>14, <3>1
      <4>2. WillKnow(c)'
        BY <1>1, <1>16, <2>1, <3>1, <4>1 DEF VictimCatchesUp
      <4> QED
        BY <4>1, <4>2
    <3>2. CASE w = n
      <4>1. w.accept_time + 1 <= vector_clock'[Victim][Victim]
        BY <1>6, <1>13, <1>14, <2>1, <3>2
      <4> QED
        BY <4>1 DEF WillKnow
    <3> QED
      BY <1>10, <3>1, <3>2
  <2>2. ASSUME NEW q \in Servers PROVE WillKnow(vector_clock[q][Victim])'
    <3>1. CASE vector_clock'[q][Victim] = vector_clock[q][Victim]
      <4>1. PICK c \in Nat : c = vector_clock[q][Victim]
        BY <1>14, VictimIsServer
      <4>2. WillKnow(c)'
        BY <1>1, <1>16, <4>1 DEF VictimCatchesUp
      <4> QED
        BY <3>1, <4>1, <4>2
    <3>2. CASE q = Victim
      <4>1. vector_clock'[q][Victim] <= vector_clock'[Victim][Victim]
        BY <1>14, <3>2
      <4> QED
        BY <4>1 DEF WillKnow
    <3> QED
      BY <1>13, <3>1, <3>2, VictimIsServer
  <2>3. ASSUME NEW q \in Servers PROVE WillKnow(response[q].vector_clock[Victim])'
    <3>1. PICK c \in Nat : c = response[q].vector_clock[Victim]
      BY <1>14, VictimIsServer
    <3>2. WillKnow(c)'
      BY <1>1, <1>16, <3>1 DEF VictimCatchesUp
    <3> QED
      BY <1>8, <3>1, <3>2
  <2> QED
    BY <2>1, <2>2, <2>3 DEF VictimCatchesUp
<1>18. AnswersBehind'
  <2> SUFFICES ASSUME NEW q \in Servers
               PROVE  /\ phase[q] # "answered" => response[q] = NoResult
                      /\ phase[q] = "answered" =>
                           ClockLeq(response[q].vector_clock, vector_clock'[peer[q]])
    BY <1>8 DEF AnswersBehind
  <2>1. phase[q] # "answered" => response[q] = NoResult
    BY <1>1 DEF AnswersBehind
  <2>2. ASSUME phase[q] = "answered", NEW s \in Servers
        PROVE  response[q].vector_clock[s] <= vector_clock'[peer[q]][s]
    <3>1. peer[q] \in Servers
      BY <1>1 DEF TypeOK
    <3>2. response[q].vector_clock[s] <= vector_clock[peer[q]][s]
      BY <1>1, <2>2 DEF AnswersBehind, ClockLeq
    <3> QED
      BY <1>11, <1>14, <3>1, <3>2
  <2> QED
    BY <2>1, <2>2 DEF ClockLeq
<1>19. RoundsOnLinks' /\ UpReachesAll' /\ RejoinTypeOK'
  BY <1>1, <1>3, <1>8 DEF RoundsOnLinks, UpReachesAll, RejoinTypeOK, life_vars
<1> QED
  BY <1>11, <1>15, <1>17, <1>18, <1>19 DEF RejoinInv, RoundInv

(***************************************************************************)
(* A merge: the victim then knows itself what the answer said, and needs   *)
(* the replica that sent it no more.                                       *)
(***************************************************************************)
LEMMA MergeRejoinInv ==
  ASSUME RejoinInv, NEW r \in Servers, RejoinMerge(r)
  PROVE  RejoinInv'
<1>1. /\ TypeOK /\ Core(Live) /\ OthersAhead /\ VictimCatchesUp
      /\ RejoinTypeOK /\ RoundsOnLinks /\ AnswersBehind /\ UpReachesAll
  BY DEF RejoinInv, Core, RoundInv
<1>2. MergeResult(r) /\ stage' = stage /\ kills' = kills /\ lost' = lost
  BY DEF RejoinMerge
<1>3. /\ phase[r] = "answered"
      /\ vector_clock' = [vector_clock EXCEPT ![r] = MergeClocks(@, response[r].vector_clock)]
      /\ phase' = [phase EXCEPT ![r] = "idle"]
      /\ peer' = [peer EXCEPT ![r] = r]
      /\ response' = [response EXCEPT ![r] = NoResult]
      /\ UNCHANGED <<reachable, to_ask, request_clock, accepted>>
  BY <1>2 DEF MergeResult, EndRequest
<1>4. Live' = Live
  BY <1>2, <1>3 DEF Live
<1>5. Core(Live)'
  <2>1. PICK E : E = Live
    OBVIOUS
  <2>2. Core(E)'
    BY <1>1, <1>2, <2>1, MergeResultCore
  <2> QED
    BY <1>4, <2>1, <2>2
<1>6. TypeOK'
  BY <1>5 DEF Core
<1>7. /\ \A s \in Servers :
           vector_clock'[r][s] = Maximum(vector_clock[r][s], response[r].vector_clock[s])
      /\ \A q \in Servers : q # r => /\ vector_clock'[q] = vector_clock[q]
                                    /\ phase'[q] = phase[q] /\ peer'[q] = peer[q]
                                    /\ response'[q] = response[q]
      /\ phase'[r] = "idle" /\ response'[r] = NoResult
  BY <1>1, <1>3 DEF TypeOK, MergeClocks
<1>8. /\ \A q, s \in Servers : vector_clock[q][s] \in Nat /\ vector_clock'[q][s] \in Nat
      /\ \A q, s \in Servers : response[q].vector_clock[s] \in Nat
      /\ \A w \in Live : w.accept_time \in Nat /\ w.replica_id \in Servers
  <2>1. \A q, s \in Servers : vector_clock'[q][s] \in Nat
    BY <1>6 DEF TypeOK, VectorClocks
  <2> QED
    BY <1>1, <2>1, ClockTypes DEF Live
<1>9. /\ \A q, s \in Servers : vector_clock[q][s] <= vector_clock'[q][s]
      /\ \A s \in Servers : response[r].vector_clock[s] <= vector_clock'[r][s]
  BY <1>7, <1>8 DEF Maximum
<1>10. OthersAhead'
  <2> SUFFICES ASSUME NEW q \in Others
               PROVE  /\ \A w \in Live : w.replica_id = q => Covers(vector_clock'[q], w)
                      /\ \A s \in Servers :
                           /\ vector_clock'[s][q] <= vector_clock'[q][q]
                           /\ response'[s].vector_clock[q] <= vector_clock'[q][q]
    BY <1>4 DEF OthersAhead, CoversOwn
  <2>1. q \in Servers
    BY VictimIsServer
  <2>2. ASSUME NEW w \in Live, w.replica_id = q PROVE Covers(vector_clock'[q], w)
    <3>1. w.accept_time < vector_clock[q][q]
      BY <1>1, <2>2 DEF OthersAhead, CoversOwn, Covers
    <3> QED
      BY <1>8, <1>9, <2>1, <2>2, <3>1 DEF Covers
  <2>3. ASSUME NEW s \in Servers
        PROVE  /\ vector_clock'[s][q] <= vector_clock'[q][q]
               /\ response'[s].vector_clock[q] <= vector_clock'[q][q]
    <3>1. /\ vector_clock[s][q] <= vector_clock[q][q]
          /\ response[s].vector_clock[q] <= vector_clock[q][q]
          /\ vector_clock[q][q] <= vector_clock'[q][q]
      BY <1>1, <1>9, <2>1 DEF OthersAhead
    <3>2. \/ vector_clock'[s][q] = vector_clock[s][q]
          \/ vector_clock'[s][q] = response[s].vector_clock[q]
      BY <1>7, <2>1 DEF Maximum
    <3>3. \/ response'[s].vector_clock[q] = response[s].vector_clock[q]
          \/ response'[s].vector_clock[q] = 0
      BY <1>7, <2>1 DEF NoResult, NoClock
    <3>4. vector_clock'[s][q] <= vector_clock'[q][q]
      BY <1>8, <2>1, <3>1, <3>2
    <3>5. response'[s].vector_clock[q] <= vector_clock'[q][q]
      BY <1>8, <2>1, <3>1, <3>3
    <3> QED
      BY <3>4, <3>5
  <2> QED
    BY <2>2, <2>3
<1>11. ASSUME NEW c \in Nat, WillKnow(c) PROVE WillKnow(c)'
  <2>1. CASE r # Victim
    <3>1. HeardNow' = HeardNow
      BY <1>2, <2>1 DEF HeardNow, RejoinMerge
    <3>2. StillAnswered
      BY <1>7, <2>1, VictimIsServer DEF StillAnswered
    <3> QED
      BY <1>1, <1>6, <1>9, <1>11, <3>1, <3>2, VictimIsServer, WillKnowStays
  <2>2. CASE r = Victim
    <3>1. CASE c <= vector_clock[Victim][Victim]
      <4>1. c <= vector_clock'[Victim][Victim]
        BY <1>8, <1>9, <3>1, VictimIsServer
      <4> QED
        BY <4>1 DEF WillKnow
    <3>2. ASSUME NEW q \in Servers, Witness(q, c) PROVE WillKnow(c)'
      <4>1. CASE q = peer[Victim]
        <5>1. c <= response[Victim].vector_clock[Victim]
          BY <1>3, <2>2, <3>2, <4>1 DEF Witness
        <5>2. c <= vector_clock'[Victim][Victim]
          BY <1>8, <1>9, <2>2, <5>1
        <5> QED
          BY <5>2 DEF WillKnow
      <4>2. CASE q # peer[Victim]
        <5>1. q \in Others /\ q \notin HeardNow /\ c <= vector_clock[q][Victim]
          BY <3>2 DEF Witness
        <5>2. q \notin HeardNow'
          BY <1>2, <2>2, <4>2, <5>1 DEF HeardNow, RejoinMerge
        <5>3. c <= vector_clock'[q][Victim]
          BY <1>7, <2>2, <5>1 DEF Others
        <5>4. phase'[Victim] # "answered"
          BY <1>7, <2>2
        <5>5. Witness(q, c)'
          BY <5>1, <5>2, <5>3, <5>4 DEF Witness, Others
        <5> QED
          BY <5>5 DEF WillKnow
      <4> QED
        BY <4>1, <4>2
    <3> QED
      BY <1>11, <3>1, <3>2 DEF WillKnow
  <2> QED
    BY <2>1, <2>2
<1>12. VictimCatchesUp'
  <2>1. ASSUME NEW w \in Live, w.replica_id = Victim PROVE WillKnow(w.accept_time + 1)'
    <3>1. PICK c \in Nat : c = w.accept_time + 1
      BY <1>8
    <3>2. WillKnow(c)'
      BY <1>1, <1>11, <2>1, <3>1 DEF VictimCatchesUp
    <3> QED
      BY <3>1, <3>2
  <2>2. ASSUME NEW q \in Servers
        PROVE  WillKnow(vector_clock[q][Victim])' /\ WillKnow(response[q].vector_clock[Victim])'
    <3>1. PICK c \in Nat, d \in Nat :
            c = vector_clock[q][Victim] /\ d = response[q].vector_clock[Victim]
      BY <1>8, VictimIsServer
    <3>2. WillKnow(c)' /\ WillKnow(d)'
      BY <1>1, <1>11, <3>1 DEF VictimCatchesUp
    <3>3. \/ vector_clock'[q][Victim] = c
          \/ vector_clock'[q][Victim] = d
      BY <1>7, <3>1, VictimIsServer DEF Maximum
    <3>4. CASE q = r
      <4>1. response'[q].vector_clock[Victim] <= vector_clock'[Victim][Victim]
        BY <1>7, <1>8, <3>4, VictimIsServer DEF NoResult, NoClock
      <4>2. WillKnow(response[q].vector_clock[Victim])'
        BY <4>1 DEF WillKnow
      <4> QED
        BY <3>2, <3>3, <4>2
    <3>5. CASE q # r
      BY <1>7, <3>1, <3>2, <3>3, <3>5
    <3> QED
      BY <3>4, <3>5
  <2> QED
    BY <1>4, <2>1, <2>2 DEF VictimCatchesUp
<1>13. AnswersBehind'
  <2> SUFFICES ASSUME NEW q \in Servers
               PROVE  /\ phase'[q] # "answered" => response'[q] = NoResult
                      /\ phase'[q] = "answered" =>
                           ClockLeq(response'[q].vector_clock, vector_clock'[peer'[q]])
    BY DEF AnswersBehind
  <2>1. CASE q = r
    BY <1>7, <2>1
  <2>2. CASE q # r
    <3>1. phase[q] # "answered" => response[q] = NoResult
      BY <1>1 DEF AnswersBehind
    <3>2. ASSUME phase[q] = "answered", NEW s \in Servers
          PROVE  response[q].vector_clock[s] <= vector_clock'[peer[q]][s]
      <4>1. peer[q] \in Servers
        BY <1>1 DEF TypeOK
      <4>2. response[q].vector_clock[s] <= vector_clock[peer[q]][s]
        BY <1>1, <3>2 DEF AnswersBehind, ClockLeq
      <4> QED
        BY <1>8, <1>9, <4>1, <4>2
    <3> QED
      BY <1>7, <2>2, <3>1, <3>2 DEF ClockLeq
  <2> QED
    BY <2>1, <2>2
<1>14. RoundsOnLinks'
  BY <1>1, <1>3, <1>7 DEF RoundsOnLinks
<1>15. heard \subseteq heard' /\ heard' \subseteq Servers
  BY <1>1 DEF RejoinMerge, RejoinTypeOK, TypeOK
<1>16. UpReachesAll' /\ RejoinTypeOK'
  BY <1>1, <1>2, <1>3, <1>15 DEF UpReachesAll, RejoinTypeOK
<1> QED
  BY <1>5, <1>10, <1>12, <1>13, <1>14, <1>16 DEF RejoinInv, RoundInv

-----------------------------------------------------------------------------
(***************************************************************************)
(* The process ends.  Nobody is in a round with it any more, so what the   *)
(* others have, in a log or in an answer, one of them covers: that is not  *)
(* lost, and they are the witnesses of what the next process will know.    *)
(***************************************************************************)
LEMMA TerminateRejoinInv ==
  ASSUME RejoinInv, Terminate
  PROVE  RejoinInv'
<1>1. /\ TypeOK /\ Live \subseteq accepted /\ ClockInv(Live) /\ LogInv(Live)
      /\ KvStoreIsReplay /\ OthersAhead /\ VictimCatchesUp
      /\ RejoinTypeOK /\ RoundsOnLinks /\ AnswersBehind /\ UpReachesAll
  BY DEF RejoinInv, Core, RoundInv
<1>2. /\ stage' = "down" /\ UNCHANGED <<accepted, heard, kills>>
      /\ lost' = lost \cup {w \in accepted : \A r \in Others : ~ Covers(vector_clock[r], w)}
      /\ write_log' = [write_log EXCEPT ![Victim] = {}]
      /\ kv_store' = [kv_store EXCEPT ![Victim] = [k \in Keys |-> NoValue]]
      /\ vector_clock' = [vector_clock EXCEPT ![Victim] = NoClock]
      /\ accept_time' = [accept_time EXCEPT ![Victim] = 0]
      /\ reachable' = [reachable EXCEPT ![Victim] = {}]
      /\ to_ask' = [to_ask EXCEPT ![Victim] = {}]
      /\ phase' = [phase EXCEPT ![Victim] = "idle"]
      /\ peer' = [peer EXCEPT ![Victim] = Victim]
      /\ request_clock' = [request_clock EXCEPT ![Victim] = NoClock]
      /\ response' = [response EXCEPT ![Victim] = NoResult]
  BY DEF Terminate
<1>3. /\ write_log'[Victim] = {} /\ kv_store'[Victim] = [k \in Keys |-> NoValue]
      /\ vector_clock'[Victim] = NoClock /\ accept_time'[Victim] = 0
      /\ reachable'[Victim] = {} /\ to_ask'[Victim] = {} /\ phase'[Victim] = "idle"
      /\ request_clock'[Victim] = NoClock /\ response'[Victim] = NoResult
  BY <1>1, <1>2, VictimIsServer DEF TypeOK
<1>4. \A q \in Others :
        /\ write_log'[q] = write_log[q] /\ kv_store'[q] = kv_store[q]
        /\ vector_clock'[q] = vector_clock[q] /\ accept_time'[q] = accept_time[q]
        /\ reachable'[q] = reachable[q] /\ to_ask'[q] = to_ask[q]
        /\ phase'[q] = phase[q] /\ peer'[q] = peer[q]
        /\ request_clock'[q] = request_clock[q] /\ response'[q] = response[q]
  BY <1>1, <1>2 DEF TypeOK, Others
<1>5. \A q \in Servers : q = Victim \/ q \in Others
  BY DEF Others
<1>6. /\ \A q, s \in Servers : vector_clock[q][s] \in Nat
      /\ \A q, s \in Servers : response[q].vector_clock[s] \in Nat
      /\ \A w \in Live : /\ w \in Entries /\ w.accept_time \in Nat
                        /\ w.replica_id \in Servers
  BY <1>1, ClockTypes
<1>7. NoClock \in VectorClocks /\ NoResult \in Results /\ \A s \in Servers : NoClock[s] = 0
  BY DEF NoClock, NoResult, VectorClocks, Results
(* What is left is what one of the others covers.                        *)
<1>8. /\ Live' \subseteq Live
      /\ \A w \in Live' : \E q \in Others : Covers(vector_clock[q], w)
      /\ \A w \in Live : \A q \in Others : Covers(vector_clock[q], w) => w \in Live'
  BY <1>2 DEF Live
<1>9. \A q \in Servers : phase[q] = "answered" => peer[q] \in Others
  BY <1>1 DEF Terminate, RoundsOnLinks, TypeOK, Others
<1>10. ASSUME NEW q \in Others, phase[q] = "answered"
       PROVE  /\ peer[q] \in Others
              /\ \A s \in Servers : response[q].vector_clock[s] <= vector_clock[peer[q]][s]
  BY <1>1, <1>9, <1>10, VictimIsServer DEF AnswersBehind, ClockLeq
<1>11. TypeOK'
  <2>1. [k \in Keys |-> NoValue] \in Stores
    BY DEF Stores
  <2>2. /\ write_log' \in [Servers -> SUBSET Entries] /\ kv_store' \in [Servers -> Stores]
        /\ vector_clock' \in [Servers -> VectorClocks] /\ accept_time' \in [Servers -> Nat]
        /\ reachable' \in [Servers -> SUBSET Servers]
    BY <1>1, <1>2, <1>7, <2>1, VictimIsServer DEF TypeOK
  <2>3. /\ to_ask' \in [Servers -> SUBSET Servers] /\ phase' \in [Servers -> Phases]
        /\ peer' \in [Servers -> Servers] /\ request_clock' \in [Servers -> VectorClocks]
        /\ response' \in [Servers -> Results]
    BY <1>1, <1>2, <1>7, VictimIsServer DEF TypeOK, Phases
  <2> QED
    BY <1>1, <1>2, <2>2, <2>3 DEF TypeOK
<1>12. ClockInv(Live)'
  <2>1. LogsFrom(Live)'
    <3>1. \A w \in {} : w \in Live'
      OBVIOUS
    <3>2. ASSUME NEW q \in Others
          PROVE  write_log[q] \subseteq Live' /\ response[q].new_writes \subseteq Live'
      <4>1. q \in Servers
        BY VictimIsServer
      <4>2. ASSUME NEW w \in write_log[q] PROVE w \in Live'
        BY <1>1, <1>8, <4>1 DEF ClockInv, LogsFrom, LogCovered
      <4>3. ASSUME NEW w \in response[q].new_writes PROVE w \in Live'
        <5>1. w \in Live /\ Covers(response[q].vector_clock, w)
          BY <1>1, <4>1 DEF ClockInv, LogsFrom, LogCovered
        <5>2. phase[q] = "answered"
          BY <1>1, <4>1 DEF AnswersBehind, NoResult
        <5>3. Covers(vector_clock[peer[q]], w)
          BY <1>6, <1>10, <4>1, <5>1, <5>2, VictimIsServer DEF Covers
        <5> QED
          BY <1>8, <1>10, <5>1, <5>2, <5>3
      <4> QED
        BY <4>2, <4>3
    <3> QED
      BY <1>3, <1>4, <1>5, <3>2 DEF LogsFrom, NoResult
  <2>2. StampsApart(Live)'
    BY <1>1, <1>8 DEF ClockInv, StampsApart
  <2>3. RequestBehind'
    BY <1>1, <1>3, <1>4, <1>5, <1>7, VictimIsServer DEF ClockInv, RequestBehind, ClockLeq
  <2>4. AcceptTimeAhead'
    BY <1>1, <1>3, <1>4, <1>5, <1>7, VictimIsServer DEF ClockInv, AcceptTimeAhead
  <2>5. AnswerAhead'
    BY <1>1, <1>3, <1>4, <1>5, <1>7, VictimIsServer DEF ClockInv, AnswerAhead, NoResult
  <2>6. LogCovered'
    BY <1>1, <1>3, <1>4, <1>5, VictimIsServer DEF ClockInv, LogCovered, NoResult
  <2> QED
    BY <2>1, <2>2, <2>3, <2>4, <2>5, <2>6 DEF ClockInv
<1>13. LogInv(Live)'
  <2>1. \A w \in Live' : ~ Covers(NoClock, w)
    BY <1>6, <1>7, <1>8 DEF Covers
  <2>2. NoneLost(Live)'
    <3> SUFFICES ASSUME NEW q \in Servers, NEW w \in Live', Covers(vector_clock'[q], w)
                 PROVE  w \in write_log'[q] \/ Superseded(w, write_log'[q])
      BY DEF NoneLost
    <3>1. q \in Others /\ w \in Live
      BY <1>3, <1>5, <1>8, <2>1
    <3> QED
      BY <1>1, <1>4, <3>1 DEF LogInv, NoneLost
  <2>3. AnswerComplete(Live)'
    <3> SUFFICES ASSUME NEW q \in Servers, NEW w \in Live', Covers(response'[q].vector_clock, w)
                 PROVE  \/ Covers(vector_clock'[q], w)
                        \/ w \in response'[q].new_writes
                        \/ Superseded(w, response'[q].new_writes \cup write_log'[q])
      BY DEF AnswerComplete
    <3>1. q \in Others /\ w \in Live
      BY <1>3, <1>5, <1>8, <2>1 DEF NoResult
    <3> QED
      BY <1>1, <1>4, <3>1 DEF LogInv, AnswerComplete
  <2>4. SessionOrder'
    BY <1>1, <1>3, <1>4, <1>5 DEF LogInv, SessionOrder
  <2>5. AnswerSessionOrder'
    BY <1>1, <1>3, <1>4, <1>5 DEF LogInv, AnswerSessionOrder, NoResult
  <2> QED
    BY <2>2, <2>3, <2>4, <2>5 DEF LogInv
<1>14. KvStoreIsReplay'
  <2>1. Replay({}) = [k \in Keys |-> NoValue]
    BY DEF Replay, OnKey
  <2> QED
    BY <1>1, <1>3, <1>4, <1>5, <2>1, VictimIsServer DEF KvStoreIsReplay
<1>15. OthersAhead'
  BY <1>1, <1>3, <1>4, <1>5, <1>6, <1>7, <1>8, VictimIsServer
     DEF OthersAhead, CoversOwn, NoResult
<1>16. VictimCatchesUp'
  <2>1. ASSUME NEW q \in Others, NEW c, c <= vector_clock[q][Victim] PROVE WillKnow(c)'
    <3>1. HeardNow' = {}
      BY <1>2 DEF HeardNow
    <3>2. q \in Others' /\ q \notin HeardNow' /\ c <= vector_clock'[q][Victim]
      BY <1>4, <2>1, <3>1 DEF Others
    <3>3. Witness(q, c)'
      BY <1>3, <3>2 DEF Witness
    <3> QED
      BY <3>3, VictimIsServer DEF WillKnow
  <2>2. WillKnow(0)'
    BY <1>3, <1>7, VictimIsServer DEF WillKnow
  <2>3. ASSUME NEW w \in Live', w.replica_id = Victim PROVE WillKnow(w.accept_time + 1)'
    <3>1. PICK q \in Others : Covers(vector_clock[q], w)
      BY <1>8
    <3>2. w.accept_time + 1 <= vector_clock[q][Victim]
      BY <1>6, <1>8, <2>3, <3>1, VictimIsServer DEF Covers
    <3> QED
      BY <2>1, <3>2
  <2>4. ASSUME NEW q \in Servers
        PROVE  WillKnow(vector_clock[q][Victim])' /\ WillKnow(response[q].vector_clock[Victim])'
    <3>1. CASE q = Victim
      BY <1>3, <1>7, <2>2, <3>1, VictimIsServer DEF NoResult
    <3>2. CASE q \in Others
      <4>1. vector_clock'[q] = vector_clock[q] /\ response'[q] = response[q]
        BY <1>4, <3>2
      <4>2. vector_clock[q][Victim] <= vector_clock[q][Victim]
        BY <1>6, VictimIsServer
      <4>3. WillKnow(vector_clock[q][Victim])'
        BY <2>1, <3>2, <4>1, <4>2
      <4>4. CASE phase[q] = "answered"
        <5>1. WillKnow(response[q].vector_clock[Victim])'
          BY <1>10, <2>1, <3>2, <4>1, <4>4, VictimIsServer
        <5> QED
          BY <4>3, <5>1
      <4>5. CASE phase[q] # "answered"
        <5>1. response'[q].vector_clock[Victim] = 0
          BY <1>1, <1>7, <4>1, <4>5, VictimIsServer DEF AnswersBehind, NoResult
        <5> QED
          BY <2>2, <4>3, <5>1
      <4> QED
        BY <4>4, <4>5
    <3> QED
      BY <1>5, <3>1, <3>2
  <2> QED
    BY <2>3, <2>4 DEF VictimCatchesUp
<1>17. RoundsOnLinks'
  BY <1>1, <1>3, <1>4, <1>5, VictimIsServer DEF RoundsOnLinks
<1>18. AnswersBehind'
  <2> SUFFICES ASSUME NEW q \in Servers
               PROVE  /\ phase'[q] # "answered" => response'[q] = NoResult
                      /\ phase'[q] = "answered" =>
                           ClockLeq(response'[q].vector_clock, vector_clock'[peer'[q]])
    BY DEF AnswersBehind
  <2>1. CASE q = Victim
    BY <1>3, <2>1
  <2>2. CASE q \in Others
    BY <1>1, <1>4, <1>9, <2>2 DEF AnswersBehind
  <2> QED
    BY <1>5, <2>1, <2>2
<1>19. UpReachesAll' /\ RejoinTypeOK'
  <2>1. UpReachesAll'
    BY <1>2 DEF UpReachesAll
  <2>2. RejoinTypeOK'
    BY <1>1, <1>2 DEF RejoinTypeOK
  <2> QED
    BY <2>1, <2>2
<1>20. Live' \subseteq accepted'
  BY DEF Live
<1> QED
  BY <1>11, <1>12, <1>13, <1>14, <1>15, <1>16, <1>17, <1>18, <1>19, <1>20
     DEF RejoinInv, RoundInv, Core

-----------------------------------------------------------------------------
(* Every step of the specification, and a stutter. *)
LEMMA NextRejoinInv == RejoinInv /\ [RejoinNext]_all_vars /\ ~ early' => RejoinInv'
<1> SUFFICES ASSUME RejoinInv, [RejoinNext]_all_vars, ~ early' PROVE RejoinInv'
  OBVIOUS
<1>1. CASE Command
  BY <1>1, CommandRejoinInv
<1>2. CASE Terminate
  BY <1>2, TerminateRejoinInv
<1>3. ASSUME NEW r \in Servers, RejoinWrite(r) PROVE RejoinInv'
  BY <1>3, WriteRejoinInv
<1>4. ASSUME NEW r \in Servers, RejoinMerge(r) PROVE RejoinInv'
  BY <1>4, MergeRejoinInv
<1>5. ASSUME NEW r \in Servers, RejoinAsk(r) PROVE RejoinInv'
  <2>1. UNCHANGED rejoin_vars
    BY <1>5 DEF RejoinAsk
  <2>2. CASE BeginRound(r) \/ \E s \in Servers : SendRequest(r, s)
    BY <2>1, <2>2, AskRejoinInv
  <2>3. ASSUME NEW s \in Servers, AntiEntropyRequest(s, r) PROVE RejoinInv'
    BY <2>1, <2>3, AnswerRejoinInv
  <2> QED
    BY <1>5, <2>2, <2>3 DEF RejoinAsk
<1>6. CASE UNCHANGED all_vars
  <2>1. /\ UNCHANGED <<write_log, kv_store, vector_clock, accept_time>>
        /\ UNCHANGED <<reachable, to_ask, phase, peer, request_clock, response>>
        /\ UNCHANGED <<accepted, stage, heard, kills, lost>>
    BY <1>6 DEF all_vars, vars, replica_vars, round_vars, rejoin_vars, life_vars
  <2>2. /\ TypeOK /\ RequestBehind
        /\ RejoinTypeOK /\ RoundsOnLinks /\ AnswersBehind /\ UpReachesAll
    BY DEF RejoinInv, Core, ClockInv, RoundInv
  <2>3. TypeOK' /\ RequestBehind'
    BY <2>1, <2>2 DEF TypeOK, RequestBehind
  <2>4. RoundInv'
    BY <2>1, <2>2 DEF RoundInv, RejoinTypeOK, RoundsOnLinks, AnswersBehind, UpReachesAll
  <2>5. HeardNow' = HeardNow
    BY <2>1 DEF HeardNow
  <2>6. Core(Live)' /\ OthersAhead' /\ VictimCatchesUp'
    BY <2>1, <2>3, <2>5, QuietStep DEF replica_vars
  <2> QED
    BY <2>4, <2>6 DEF RejoinInv
<1> QED
  <2>1. RejoinNext => \/ Command \/ Terminate
                      \/ \E r \in Servers : RejoinWrite(r) \/ RejoinAsk(r) \/ RejoinMerge(r)
    BY DEF RejoinNext, Command
  <2> QED
    BY <1>1, <1>2, <1>3, <1>4, <1>5, <1>6, <2>1

(* What has come early stays so. *)
LEMMA EarlyStays == [RejoinNext]_all_vars /\ early => early'
  BY DEF RejoinNext, KillServer, Disconnect, Terminate, JoinServer, Connect, Joined,
         RejoinWrite, RejoinMerge, RejoinAsk, all_vars, rejoin_vars

(***************************************************************************)
(* Whatever is killed and joined, the invariant of the replicas holds of   *)
(* the entries that are left, and the victim catches up, until a put comes *)
(* before it has.                                                          *)
(***************************************************************************)
THEOREM RejoinInvariant == RejoinSpec => [](~ early => RejoinInv)
<1>1. RejoinInit => (~ early => RejoinInv)
  BY InitRejoinInv
<1>2. (~ early => RejoinInv) /\ [RejoinNext]_all_vars => (~ early => RejoinInv)'
  BY NextRejoinInv, EarlyStays
<1> QED
  BY <1>1, <1>2, PTL DEF RejoinSpec

(***************************************************************************)
(* A stamp is used twice only for a put that came early: a process that    *)
(* has heard everyone it can reach uses no stamp of an entry anyone still  *)
(* knows of, over any number of lives.                                     *)
(***************************************************************************)
THEOREM StampsOfAllLives == RejoinSpec => []UniqueIfHeard
<1>1. (~ early => RejoinInv) => UniqueIfHeard
  BY DEF RejoinInv, Core, ClockInv, StampsApart, UniqueIfHeard, StampsStayUnique, Live
<1> QED
  BY <1>1, RejoinInvariant, PTL

(***************************************************************************)
(* If no put came early, a replica whose clock covers a write that is left *)
(* has it, or a newer one of the same client: also the process that came   *)
(* back, and also of what its predecessors accepted.                       *)
(***************************************************************************)
THEOREM NoLossOverLives == RejoinSpec => []NoneLostIfHeard
<1>1. (~ early => RejoinInv) => NoneLostIfHeard
  BY DEF RejoinInv, Core, LogInv, NoneLost, NoneLostIfHeard, HeldBy, Live
<1> QED
  BY <1>1, RejoinInvariant, PTL

(***************************************************************************)
(* Convergence over kills and joins, if no put came early: also a process  *)
(* that came back serves the store of any replica with the same clock.     *)
(***************************************************************************)
THEOREM ConvergenceOverLives == RejoinSpec => [](~ early => Convergence)
<1>1. (~ early => RejoinInv) => (~ early => Convergence)
  <2> SUFFICES ASSUME RejoinInv PROVE Convergence
    OBVIOUS
  <2>1. PICK E : E = Live
    OBVIOUS
  <2>2. Core(E)
    BY <2>1 DEF RejoinInv
  <2> QED
    BY <2>2, SameClocksSameStores
<1> QED
  BY <1>1, RejoinInvariant, PTL
=============================================================================
