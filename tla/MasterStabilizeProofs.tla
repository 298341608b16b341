------------------------ MODULE MasterStabilizeProofs ------------------------
(***************************************************************************)
(* Each pass of the master's stabilize() carries every write at least one  *)
(* link further: for any number of replicas, any topology, any order of    *)
(* the replicas in a pass and any rounds of the periodic threads.          *)
(***************************************************************************)
EXTENDS MasterStabilize, FiniteSetTheorems, TLAPS

(* A merge only adds knowledge, and all of the answer's. *)
LEMMA MergeKeepsBoth ==
  ASSUME NEW c \in VectorClocks, NEW d \in VectorClocks
  PROVE  /\ MergeClocks(c, d) \in VectorClocks
         /\ \A s \in Servers : /\ c[s] <= MergeClocks(c, d)[s]
                               /\ d[s] <= MergeClocks(c, d)[s]
  BY DEF MergeClocks, Maximum, VectorClocks

(* The master is at a replica once in a pass, and not after the last one. *)
MasterTurn ==
  /\ \A r \in Servers : runner[r] = "master" => r \notin done /\ passes < Passes
  /\ passes = Passes => done = {}

(* A replica the master has been at knows what its neighbours knew. *)
DoneKnow ==
  \A r \in done : \A q \in reachable[r] : \A s \in near[q] : Knows(r, s)

(* One it is at: of those it has asked already, if the answer is counted. *)
TurnKnows ==
  \A r \in Servers : runner[r] = "master" =>
    \A q \in reachable[r] \ to_ask[r] : \A s \in near[q] :
      Knows(r, s) \/ Written[s] <= answer[r][s]

IInv == TypeOK /\ PassCarriesOneLink /\ MasterTurn /\ DoneKnow /\ TurnKnows

(* In every state a step can start from, the values have these types. *)
LEMMA Types ==
  ASSUME TypeOK
  PROVE  /\ reachable \in [Servers -> SUBSET Servers]
         /\ Written \in [Servers -> Nat] /\ MaxRounds \in Nat
         /\ \A r \in Servers : vector_clock[r] \in VectorClocks /\ answer[r] \in VectorClocks
         /\ \A r, s \in Servers : vector_clock[r][s] \in Nat /\ answer[r][s] \in Nat
         /\ NoClock \in VectorClocks
  BY TopologiesAssumption, WrittenAssumption
     DEF TypeOK, TopologiesAssumption, WrittenAssumption, VectorClocks, NoClock

THEOREM InitIInv == Init => IInv
<1> SUFFICES ASSUME Init PROVE IInv
  OBVIOUS
<1>1. NoClock \in VectorClocks
  BY DEF NoClock, VectorClocks
<1>2. ASSUME NEW r \in Servers PROVE [NoClock EXCEPT ![r] = Written[r]] \in VectorClocks
  <2>1. Written[r] \in Nat
    BY WrittenAssumption DEF WrittenAssumption
  <2> QED
    BY <1>1, <2>1 DEF VectorClocks
<1>3. TypeOK
  <2>1. vector_clock \in [Servers -> VectorClocks]
    BY <1>2 DEF Init
  <2>2. answer \in [Servers -> VectorClocks]
    BY <1>1 DEF Init
  <2>3. rounds \in 0 .. MaxRounds /\ passes \in 0 .. Passes
    BY WrittenAssumption DEF Init, WrittenAssumption, Passes
  <2>4. /\ runner \in [Servers -> {"nobody", "periodic", "master"}]
        /\ to_ask \in [Servers -> SUBSET Servers]
        /\ near \in [Servers -> SUBSET Servers]
        /\ reachable \in Topologies /\ done \subseteq Servers
    BY DEF Init
  <2> QED
    BY <2>1, <2>2, <2>3, <2>4 DEF TypeOK
<1>4. ASSUME NEW r \in Servers PROVE Knows(r, r)
  <2>1. Written[r] \in Nat
    BY WrittenAssumption DEF WrittenAssumption
  <2>2. vector_clock[r] = [NoClock EXCEPT ![r] = Written[r]]
    BY DEF Init
  <2>3. vector_clock[r][r] = Written[r]
    BY <2>2, <1>1 DEF VectorClocks
  <2> QED
    BY <2>1, <2>3 DEF Knows
<1>5. PassCarriesOneLink
  BY <1>4 DEF Init, PassCarriesOneLink
<1>6. MasterTurn /\ DoneKnow /\ TurnKnows
  BY DEF Init, MasterTurn, DoneKnow, TurnKnows, Passes
<1> QED
  BY <1>3, <1>5, <1>6 DEF IInv

(* A step that takes no knowledge away keeps what the passes have brought. *)
LEMMA KnowledgeKept ==
  ASSUME PassCarriesOneLink, near' = near,
         \A r, s \in Servers : Knows(r, s) => Knows(r, s)',
         TypeOK
  PROVE  PassCarriesOneLink'
  BY DEF PassCarriesOneLink, TypeOK

THEOREM NextIInv == IInv /\ [Next]_vars => IInv'
<1> SUFFICES ASSUME IInv, [Next]_vars PROVE IInv'
  OBVIOUS
<1> USE DEF IInv
<1>1. ASSUME NEW r \in Servers, MasterCall(r) PROVE IInv'
  <2>1. TypeOK'
    BY <1>1, Types DEF MasterCall, Begin, TypeOK, pass_vars
  <2>2. PassCarriesOneLink' /\ DoneKnow'
    BY <1>1 DEF MasterCall, Begin, pass_vars, PassCarriesOneLink, DoneKnow, Knows
  <2>3. MasterTurn'
    BY <1>1 DEF MasterCall, Begin, pass_vars, MasterTurn, TypeOK, Passes
  <2>4. TurnKnows'
    BY <1>1 DEF MasterCall, Begin, pass_vars, TurnKnows, Knows, TypeOK
  <2> QED
    BY <2>1, <2>2, <2>3, <2>4
<1>2. ASSUME NEW r \in Servers, PeriodicRound(r) PROVE IInv'
  <2>1. TypeOK'
    BY <1>2, Types DEF PeriodicRound, Begin, TypeOK, pass_vars
  <2>2. PassCarriesOneLink' /\ DoneKnow'
    BY <1>2 DEF PeriodicRound, Begin, pass_vars, PassCarriesOneLink, DoneKnow, Knows
  <2>3. MasterTurn' /\ TurnKnows'
    BY <1>2 DEF PeriodicRound, Begin, pass_vars, MasterTurn, TurnKnows, Knows, TypeOK
  <2> QED
    BY <2>1, <2>2, <2>3
<1>3. ASSUME NEW r \in Servers, NEW s \in Servers, Ask(r, s) PROVE IInv'
  <2>1. TypeOK'
    BY <1>3, Types DEF Ask, TypeOK, pass_vars
  <2>2. PassCarriesOneLink' /\ DoneKnow' /\ MasterTurn'
    BY <1>3 DEF Ask, pass_vars, PassCarriesOneLink, DoneKnow, MasterTurn, Knows
  <2>3. TurnKnows'
    <3> SUFFICES ASSUME NEW p \in Servers, runner[p] = "master",
                        NEW q \in reachable[p], q \notin to_ask'[p], NEW t \in near[q]
                 PROVE  Knows(p, t) \/ Written[t] <= answer'[p][t]
      BY <1>3 DEF Ask, pass_vars, TurnKnows, Knows
    <3>1. q \in Servers /\ t \in Servers
      BY Types DEF TypeOK
    <3>2. CASE p # r \/ q \notin to_ask[p]
      <4>1. q \notin to_ask[p]
        BY <1>3, <3>2 DEF Ask, TypeOK
      <4>2. Knows(p, t) \/ Written[t] <= answer[p][t]
        BY <4>1 DEF TurnKnows
      <4>3. p = r => answer[p][t] = 0
        BY <1>3, <3>1 DEF Ask, NoClock
      <4>4. CASE p # r
        BY <1>3, <4>2, <4>4 DEF Ask, TypeOK
      <4>5. CASE p = r
        <5>1. Knows(p, t) \/ Written[t] = 0
          BY <4>2, <4>3, <4>5, <3>1, Types
        <5>2. answer'[p][t] \in Nat
          BY <1>3, <4>5, <3>1, Types DEF Ask, TypeOK
        <5> QED
          BY <5>1, <5>2
      <4> QED
        BY <4>4, <4>5
    <3>3. CASE p = r /\ q \in to_ask[p]
      <4>1. q = s /\ answer'[p] = vector_clock[q]
        BY <1>3, <3>1, <3>3 DEF Ask, TypeOK
      <4>2. Knows(q, t)
        BY <3>1 DEF PassCarriesOneLink
      <4> QED
        BY <4>1, <4>2 DEF Knows
    <3> QED
      BY <3>2, <3>3
  <2> QED
    BY <2>1, <2>2, <2>3
<1>4. ASSUME NEW r \in Servers, Merge(r) PROVE IInv'
  <2>1. /\ vector_clock'[r] = MergeClocks(vector_clock[r], answer[r])
        /\ \A p \in Servers \ {r} : vector_clock'[p] = vector_clock[p] /\ answer'[p] = answer[p]
        /\ MergeClocks(vector_clock[r], answer[r]) \in VectorClocks
    BY <1>4, Types, MergeKeepsBoth DEF Merge, TypeOK
  <2>2. TypeOK'
    BY <1>4, <2>1, Types DEF Merge, TypeOK, pass_vars
  <2>3. \A p, s \in Servers : Knows(p, s) => Knows(p, s)'
    <3> SUFFICES ASSUME NEW p \in Servers, NEW s \in Servers, Knows(p, s)
                 PROVE  Written[s] <= vector_clock'[p][s]
      BY DEF Knows
    <3>1. CASE p = r
      <4>1. vector_clock[r][s] <= vector_clock'[r][s]
        BY <2>1, MergeKeepsBoth, Types
      <4>2. vector_clock'[r][s] \in Nat /\ vector_clock[r][s] \in Nat /\ Written[s] \in Nat
        BY <2>1, Types DEF VectorClocks
      <4> QED
        BY <3>1, <4>1, <4>2 DEF Knows
    <3>2. CASE p # r
      BY <2>1, <3>2 DEF Knows
    <3> QED
      BY <3>1, <3>2
  <2>4. PassCarriesOneLink'
    BY <1>4, <2>3, KnowledgeKept DEF Merge, pass_vars
  <2>5. DoneKnow'
    BY <1>4, <2>3, Types DEF Merge, pass_vars, DoneKnow, TypeOK
  <2>6. MasterTurn'
    BY <1>4 DEF Merge, pass_vars, MasterTurn
  <2>7. TurnKnows'
    <3> SUFFICES ASSUME NEW p \in Servers, runner[p] = "master",
                        NEW q \in reachable[p], q \notin to_ask[p], NEW t \in near[q]
                 PROVE  Knows(p, t)' \/ Written[t] <= answer'[p][t]
      BY <1>4 DEF Merge, pass_vars, TurnKnows
    <3>1. t \in Servers
      BY Types DEF TypeOK
    <3>2. Knows(p, t) \/ Written[t] <= answer[p][t]
      BY DEF TurnKnows
    <3>3. CASE Knows(p, t)
      BY <2>3, <3>1, <3>3
    <3>4. CASE p = r /\ Written[t] <= answer[p][t]
      <4>1. answer[r][t] <= vector_clock'[r][t]
        BY <2>1, <3>1, MergeKeepsBoth, Types
      <4>2. vector_clock'[r][t] \in Nat /\ answer[r][t] \in Nat /\ Written[t] \in Nat
        BY <2>1, <3>1, Types DEF VectorClocks
      <4>3. Written[t] <= vector_clock'[p][t]
        BY <3>4, <4>1, <4>2
      <4> QED
        BY <1>4, <4>3 DEF Knows
    <3>5. CASE p # r /\ Written[t] <= answer[p][t]
      BY <2>1, <3>5
    <3> QED
      BY <3>2, <3>3, <3>4, <3>5
  <2> QED
    BY <2>2, <2>4, <2>5, <2>6, <2>7
<1>5. ASSUME NEW r \in Servers, EndRound(r) PROVE IInv'
  <2>1. TypeOK'
    BY <1>5, Types DEF EndRound, TypeOK
  <2>2. PassCarriesOneLink'
    BY <1>5 DEF EndRound, PassCarriesOneLink, Knows
  <2>3. MasterTurn'
    BY <1>5 DEF EndRound, MasterTurn, TypeOK, Passes
  <2>4. DoneKnow'
    <3> SUFFICES ASSUME NEW p \in done', NEW q \in reachable[p], NEW t \in near[q]
                 PROVE  Knows(p, t)
      BY <1>5 DEF EndRound, DoneKnow, Knows
    <3>1. CASE p \in done
      BY <3>1 DEF DoneKnow
    <3>2. CASE p \notin done
      <4>1. p = r /\ runner[r] = "master" /\ to_ask[r] = {} /\ answer[r] = NoClock
        BY <1>5, <3>2 DEF EndRound
      <4>2. t \in Servers
        BY <4>1, Types DEF TypeOK
      <4>3. Knows(p, t) \/ Written[t] <= 0
        BY <4>1, <4>2 DEF TurnKnows, NoClock
      <4> QED
        BY <4>1, <4>2, <4>3, Types DEF Knows
    <3> QED
      BY <3>1, <3>2
  <2>5. TurnKnows'
    BY <1>5 DEF EndRound, TurnKnows, Knows, TypeOK
  <2> QED
    BY <2>1, <2>2, <2>3, <2>4, <2>5
<1>6. ASSUME EndPass PROVE IInv'
  <2>1. passes < Passes
    BY <1>6, SomeServer DEF EndPass, MasterTurn, TypeOK, SomeServer, Passes
  <2>2. TypeOK'
    BY <1>6, <2>1, Types DEF EndPass, TypeOK, pull_vars, Passes
  <2>3. PassCarriesOneLink'
    <3> SUFFICES ASSUME NEW r \in Servers, NEW s \in near'[r] PROVE Knows(r, s)
      BY <1>6 DEF EndPass, pull_vars, PassCarriesOneLink, Knows
    <3>1. s \in near[r] \/ \E q \in reachable[r] : s \in near[q]
      BY <1>6 DEF EndPass
    <3>2. CASE s \in near[r]
      BY <3>2 DEF PassCarriesOneLink
    <3>3. CASE \E q \in reachable[r] : s \in near[q]
      BY <1>6, <3>3 DEF EndPass, DoneKnow
    <3> QED
      BY <3>1, <3>2, <3>3
  <2>4. \A r \in Servers : runner[r] # "master"
    BY <1>6 DEF EndPass, MasterTurn
  <2>5. MasterTurn' /\ DoneKnow' /\ TurnKnows'
    BY <1>6, <2>4 DEF EndPass, pull_vars, MasterTurn, DoneKnow, TurnKnows
  <2> QED
    BY <2>2, <2>3, <2>5
<1>7. CASE UNCHANGED vars
  BY <1>7 DEF vars, pull_vars, pass_vars, TypeOK, PassCarriesOneLink, MasterTurn,
              DoneKnow, TurnKnows, Knows
<1> QED
  BY <1>1, <1>2, <1>3, <1>4, <1>5, <1>6, <1>7 DEF Next

(* The variables of master.stabilize() stay in their types. *)
THEOREM PassesTypeCorrect == Spec => []TypeOK
<1>1. IInv => TypeOK
  BY DEF IInv
<1> QED
  BY <1>1, InitIInv, NextIInv, PTL DEF Spec

(***************************************************************************)
(* After each pass a replica knows the writes of all it is connected to by *)
(* as many links as passes are over (four passes: a chain of five).        *)
(***************************************************************************)
THEOREM OneLinkPerPass == Spec => []PassCarriesOneLink
<1>1. IInv => PassCarriesOneLink
  BY DEF IInv
<1> QED
  BY <1>1, InitIInv, NextIInv, PTL DEF Spec

-----------------------------------------------------------------------------
(***************************************************************************)
(* How far four passes go.  The replicas that are near s grow with every   *)
(* pass, by one at least as long as they are not all.                      *)
(***************************************************************************)
NearTo(n, s) == {r \in Servers : s \in n[r]}

Spreads ==
  /\ reachable \in Topologies
  /\ near \in [Servers -> SUBSET Servers]
  /\ passes \in Nat
  /\ \A s \in Servers : /\ s \in NearTo(near, s)
                        /\ NearTo(near, s) = Servers \/ Cardinality(NearTo(near, s)) > passes

LEMMA InitSpreads ==
  ASSUME Init, FewServers PROVE Spreads
<1>1. ASSUME NEW s \in Servers PROVE NearTo(near, s) = {s}
  BY DEF Init, NearTo
<1>2. ASSUME NEW s \in Servers PROVE s \in NearTo(near, s) /\ Cardinality(NearTo(near, s)) = 1
  BY <1>1, FS_Singleton
<1>3. /\ reachable \in Topologies /\ near \in [Servers -> SUBSET Servers]
      /\ passes \in Nat /\ passes = 0
  BY DEF Init
<1>4. ASSUME NEW s \in Servers PROVE Cardinality(NearTo(near, s)) > passes
  <2>1. Cardinality(NearTo(near, s)) = 1
    BY <1>2
  <2> QED
    BY <1>3, <2>1
<1> QED
  BY <1>2, <1>3, <1>4 DEF Spreads

(* A set of replicas that gets another one. *)
LEMMA OneMore ==
  ASSUME FewServers, NEW S \in SUBSET Servers, NEW T \in SUBSET Servers,
         S \subseteq T, NEW r \in T, r \notin S
  PROVE  Cardinality(S) \in Nat /\ Cardinality(T) \in Nat /\ Cardinality(S) < Cardinality(T)
<1>1. IsFiniteSet(T) /\ IsFiniteSet(S)
  BY FS_Subset DEF FewServers
<1>2. /\ Cardinality(S) \in Nat /\ Cardinality(T) \in Nat
      /\ Cardinality(S) <= Cardinality(T)
      /\ Cardinality(S) = Cardinality(T) => S = T
  BY <1>1, FS_Subset, FS_CardinalityType
<1> QED
  BY <1>2

(* Those that heard S before a pass and those that pull from one of them.  *)
LEMMA OneLinkFurther ==
  ASSUME FewServers, NEW t \in [Servers -> SUBSET Servers], InOnePiece(t),
         NEW S \in SUBSET Servers, NEW T \in SUBSET Servers, S # {}, S \subseteq T,
         \A r \in Servers : t[r] \cap S # {} => r \in T,
         NEW n \in Nat, S = Servers \/ Cardinality(S) > n
  PROVE  T = Servers \/ Cardinality(T) > n + 1
<1>1. CASE S = Servers
  BY <1>1
<1>2. CASE S # Servers
  <2>1. PICK r \in Servers \ S : t[r] \cap S # {}
    BY <1>2 DEF InOnePiece
  <2>2. r \in T
    BY <2>1
  <2>3. Cardinality(S) \in Nat /\ Cardinality(T) \in Nat /\ Cardinality(S) < Cardinality(T)
    BY <2>1, <2>2, OneMore
  <2> QED
    BY <1>2, <2>3
<1> QED
  BY <1>1, <1>2

(* The end of a pass. *)
LEMMA EndPassSpreads ==
  ASSUME Spreads, FewServers, \A t \in Topologies : InOnePiece(t), EndPass
  PROVE  Spreads'
<1>0. \A s \in Servers : /\ s \in NearTo(near, s)
                         /\ NearTo(near, s) = Servers \/ Cardinality(NearTo(near, s)) > passes
  BY Zenon DEF Spreads
<1>1. /\ reachable' = reachable /\ passes' = passes + 1
      /\ near' = [r \in Servers |-> near[r] \cup UNION {near[q] : q \in reachable[r]}]
  BY Zenon DEF EndPass, pull_vars
<1>2. /\ reachable \in [Servers -> SUBSET Servers]
      /\ near \in [Servers -> SUBSET Servers] /\ passes \in Nat
  BY TopologiesAssumption DEF Spreads, TopologiesAssumption
<1>3. near' \in [Servers -> SUBSET Servers]
  <2>1. ASSUME NEW r \in Servers
        PROVE  near[r] \cup UNION {near[q] : q \in reachable[r]} \subseteq Servers
    BY <1>2
  <2> QED
    BY <2>1, <1>1
<1>4. ASSUME NEW s \in Servers
      PROVE  /\ s \in NearTo(near', s)
             /\ NearTo(near', s) = Servers \/ Cardinality(NearTo(near', s)) > passes + 1
  <2>1. /\ NearTo(near, s) \in SUBSET Servers /\ NearTo(near', s) \in SUBSET Servers
        /\ NearTo(near, s) \subseteq NearTo(near', s)
        /\ \A r \in Servers : reachable[r] \cap NearTo(near, s) # {} => r \in NearTo(near', s)
    BY <1>1, <1>2 DEF NearTo
  <2>2. s \in NearTo(near, s) /\ InOnePiece(reachable)
    BY <1>0 DEF Spreads
  <2>3. NearTo(near, s) = Servers \/ Cardinality(NearTo(near, s)) > passes
    BY <1>0
  <2> QED
    BY <1>2, <2>1, <2>2, <2>3, OneLinkFurther
<1> QED
  BY <1>1, <1>2, <1>3, <1>4 DEF Spreads

(* Only the end of a pass moves what Spreads is about. *)
LEMMA NextSpreads ==
  ASSUME Spreads, FewServers, \A t \in Topologies : InOnePiece(t), [Next]_vars
  PROVE  Spreads'
<1>1. CASE EndPass
  BY <1>1, EndPassSpreads
<1>2. ASSUME UNCHANGED <<reachable, near, passes>> PROVE Spreads'
  BY <1>2 DEF Spreads, NearTo
<1>3. EndPass \/ UNCHANGED <<reachable, near, passes>>
  BY DEF Next, MasterCall, PeriodicRound, Begin, Ask, Merge, EndRound, vars, pull_vars, pass_vars
<1> QED
  BY <1>1, <1>2, <1>3

(***************************************************************************)
(* "need to loop through this 4 times to pass the chain test": in any      *)
(* topology in one piece of at most five replicas, however the links lie   *)
(* and whatever the periodic threads do, four passes bring every write to  *)
(* everyone.                                                               *)
(***************************************************************************)
THEOREM FourPassesSuffice ==
  ASSUME FewServers, \A t \in Topologies : InOnePiece(t)
  PROVE  Spec => []FourPassesReachAll
<1>1. Init => Spreads
  BY InitSpreads
<1>2. Spreads /\ [Next]_vars => Spreads'
  BY NextSpreads
<1>3. IInv /\ Spreads => FourPassesReachAll
  <2> SUFFICES ASSUME IInv, Spreads, passes = Passes, NEW r \in Servers, NEW s \in Servers
               PROVE  Knows(r, s)
    BY DEF FourPassesReachAll
  <2>1. NearTo(near, s) \in SUBSET Servers
    BY DEF NearTo
  <2>2. NearTo(near, s) = Servers
    <3>1. CASE NearTo(near, s) # Servers
      <4>1. /\ IsFiniteSet(Servers) /\ IsFiniteSet(NearTo(near, s))
            /\ Cardinality(Servers) \in Nat /\ Cardinality(NearTo(near, s)) \in Nat
            /\ Cardinality(NearTo(near, s)) <= Cardinality(Servers)
            /\ Cardinality(Servers) = Cardinality(NearTo(near, s)) => Servers = NearTo(near, s)
        BY <2>1, FS_Subset, FS_CardinalityType DEF FewServers
      <4>2. Cardinality(NearTo(near, s)) > 4 /\ Cardinality(Servers) <= 5
        BY <3>1 DEF Spreads, FewServers, Passes
      <4> QED
        BY <4>1, <4>2, <3>1
    <3> QED
      BY <3>1
  <2>3. s \in near[r]
    BY <2>2 DEF NearTo
  <2> QED
    BY <2>3 DEF IInv, PassCarriesOneLink
<1> QED
  BY <1>1, <1>2, <1>3, InitIInv, NextIInv, PTL DEF Spec
=============================================================================
