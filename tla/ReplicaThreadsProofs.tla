------------------------ MODULE ReplicaThreadsProofs ------------------------
(***************************************************************************)
(* The two threads inside each replica: types, and what a replica knows of *)
(* the others, in any topology; and, as long as no call is under way       *)
(* during a merge of its replica, no lost entry and no stale read.         *)
(*                                                                         *)
(* The argument for the last two (SerialInv) is that of a replica as a     *)
(* whole, cut at each access: an entry is made before any clock covers it, *)
(* a merge has the log before the store and the store before the clock,    *)
(* and what an answer leaves out is covered by the clock of its asker,     *)
(* which has only grown since.                                             *)
(***************************************************************************)
EXTENDS ReplicaThreads, WriteLogTheorems, SequenceTheorems, FiniteSetTheorems

(* Induction, for a set of numbers. *)
LEMMA NatSetInduction ==
  ASSUME NEW M, 0 \in M, \A n \in Nat : n \in M => n + 1 \in M
  PROVE  Nat \subseteq M
<1> SUFFICES ASSUME Nat \ M # {} PROVE FALSE
  OBVIOUS
<1>1. PICK x \in Nat \ M : \A y \in Nat \ M : x <= y
  BY LeastElement
<1>2. x # 0 /\ x - 1 \in Nat /\ x - 1 \notin M
  BY <1>1
<1> QED
  BY <1>1, <1>2

(* What is on a list that is appended to. *)
LEMMA RangeOfAppend ==
  ASSUME NEW T, NEW s \in Seq(T), NEW e \in T
  PROVE  Append(s, e) \in Seq(T) /\ Range(Append(s, e)) = Range(s) \cup {e}
<1>1. /\ Append(s, e) \in Seq(T) /\ Len(Append(s, e)) = Len(s) + 1
      /\ \A i \in 1 .. Len(s) : Append(s, e)[i] = s[i]
      /\ Append(s, e)[Len(s) + 1] = e
  BY AppendProperties
<1>2. /\ DOMAIN s = 1 .. Len(s) /\ Len(s) \in Nat
      /\ DOMAIN Append(s, e) = 1 .. Len(s) + 1
  BY <1>1, LenProperties
<1> QED
  BY <1>1, <1>2 DEF Range

(* ... or joined with another. *)
LEMMA RangeOfConcat ==
  ASSUME NEW T, NEW s \in Seq(T), NEW t \in Seq(T)
  PROVE  s \o t \in Seq(T) /\ Range(s \o t) = Range(s) \cup Range(t)
<1>1. /\ s \o t \in Seq(T) /\ Len(s \o t) = Len(s) + Len(t)
      /\ \A i \in 1 .. Len(s) + Len(t) :
           (s \o t)[i] = IF i <= Len(s) THEN s[i] ELSE t[i - Len(s)]
  BY ConcatProperties
<1>2. /\ DOMAIN s = 1 .. Len(s) /\ Len(s) \in Nat
      /\ DOMAIN t = 1 .. Len(t) /\ Len(t) \in Nat
      /\ DOMAIN (s \o t) = 1 .. Len(s) + Len(t)
  BY <1>1, LenProperties
<1>3. \A i \in 1 .. Len(s) : i \in DOMAIN (s \o t) /\ (s \o t)[i] = s[i]
  BY <1>1, <1>2
<1>4. \A i \in 1 .. Len(t) : Len(s) + i \in DOMAIN (s \o t) /\ (s \o t)[Len(s) + i] = t[i]
  BY <1>1, <1>2
<1>5. \A i \in DOMAIN (s \o t) : (s \o t)[i] \in Range(s) \cup Range(t)
  BY <1>1, <1>2 DEF Range
<1>6. \A x \in Range(s) : x \in Range(s \o t)
  BY <1>2, <1>3 DEF Range
<1>7. \A x \in Range(t) : x \in Range(s \o t)
  BY <1>2, <1>4 DEF Range
<1>8. \A x \in Range(s \o t) : x \in Range(s) \cup Range(t)
  BY <1>5 DEF Range
<1> QED
  BY <1>1, <1>6, <1>7, <1>8

(* Taken takes along what is on the list and in the set, nothing else. *)
LEMMA TakenProperties ==
  ASSUME NEW T, NEW log \in Seq(T), NEW S
  PROVE  /\ Taken(log, S) \in Seq(T)
         /\ Range(Taken(log, S)) = Range(log) \cap S
<1> DEFINE L == Len(log)
           step(g, n) == IF n = 0 THEN <<>>
                         ELSE IF log[n] \in S THEN Append(g[n - 1], log[n]) ELSE g[n - 1]
           upTo == CHOOSE g : g = [n \in 0 .. L |-> step(g, n)]
           Done(n) == {log[i] : i \in 1 .. n} \cap S
           Right(h, n) == h \in Seq(T) /\ Range(h) = Done(n)
           Exists == {m \in Nat : m <= L => \E g : g = [n \in 0 .. m |-> step(g, n)]}
           Holds == {n \in Nat : n <= L => Right(upTo[n], n)}
<1>1. Taken(log, S) = upTo[L]
  BY DEF Taken
<1>2. L \in Nat /\ DOMAIN log = 1 .. L /\ \A i \in 1 .. L : log[i] \in T
  BY LenProperties, ElementOfSeq
<1> HIDE DEF L
<1>3. Nat \subseteq Exists
  <2>1. 0 \in Exists
    <3>1. PICK g : g = [n \in 0 .. 0 |-> <<>>]
      OBVIOUS
    <3>2. g = [n \in 0 .. 0 |-> step(g, n)]
      BY <3>1
    <3> QED
      BY <3>2
  <2>2. ASSUME NEW m \in Nat, m \in Exists PROVE m + 1 \in Exists
    <3> HIDE DEF step
    <3> SUFFICES ASSUME m + 1 <= L PROVE \E g : g = [n \in 0 .. m + 1 |-> step(g, n)]
      OBVIOUS
    <3>1. PICK h : h = [n \in 0 .. m |-> step(h, n)]
      BY <2>2, <1>2
    <3>2. PICK g : g = [n \in 0 .. m + 1 |-> IF n <= m THEN h[n] ELSE step(h, m + 1)]
      OBVIOUS
    <3>3. \A n \in 0 .. m : g[n] = h[n]
      BY <3>2
    <3>4. ASSUME NEW n \in 0 .. m PROVE g[n] = step(g, n)
      <4>1. n = 0 \/ n - 1 \in 0 .. m
        OBVIOUS
      <4>2. h[n] = step(h, n)
        BY <3>1
      <4> QED
        BY <3>3, <4>1, <4>2 DEF step
    <3>5. g[m + 1] = step(g, m + 1)
      BY <3>2, <3>3 DEF step
    <3>6. ASSUME NEW n \in 0 .. m + 1 PROVE g[n] = step(g, n)
      <4>1. n \in 0 .. m \/ n = m + 1
        OBVIOUS
      <4> QED
        BY <3>4, <3>5, <4>1
    <3>7. g = [n \in 0 .. m + 1 |-> g[n]]
      BY <3>2
    <3>8. g = [n \in 0 .. m + 1 |-> step(g, n)]
      BY <3>6, <3>7
    <3> QED
      BY <3>8
  <2> HIDE DEF Exists
  <2> QED
    BY <2>1, <2>2, NatSetInduction
<1>4. upTo = [n \in 0 .. L |-> step(upTo, n)]
  <2>1. L \in Exists
    BY <1>2, <1>3
  <2>2. \E g : g = [n \in 0 .. L |-> step(g, n)]
    BY <1>2, <2>1
  <2> HIDE DEF step
  <2> QED
    BY <2>2
<1>5. Nat \subseteq Holds
  <2> HIDE DEF upTo
  <2>1. upTo[0] = <<>> /\ \A n \in 1 .. L :
          upTo[n] = IF log[n] \in S THEN Append(upTo[n - 1], log[n]) ELSE upTo[n - 1]
    <3>1. \A n \in 0 .. L : upTo[n] = step(upTo, n)
      <4> HIDE DEF step
      <4> QED
        BY <1>4
    <3> QED
      BY <1>2, <3>1
  <2>2. 0 \in Holds
    <3>1. <<>> \in Seq(T) /\ Range(<<>>) = {}
      BY DEF Range
    <3>2. Done(0) = {}
      OBVIOUS
    <3> QED
      BY <2>1, <3>1, <3>2
  <2>3. ASSUME NEW n \in Nat, n \in Holds PROVE n + 1 \in Holds
    <3> SUFFICES ASSUME n + 1 <= L PROVE Right(upTo[n + 1], n + 1)
      OBVIOUS
    <3>1. PICK h : h = upTo[n]
      OBVIOUS
    <3>2. h \in Seq(T) /\ Range(h) = Done(n)
      BY <1>2, <2>3, <3>1
    <3>3. upTo[n + 1] = IF log[n + 1] \in S THEN Append(h, log[n + 1]) ELSE h
      BY <1>2, <2>1, <3>1
    <3>4. Done(n + 1) = Done(n) \cup ({log[n + 1]} \cap S)
      OBVIOUS
    <3>5. log[n + 1] \in T
      BY <1>2
    <3>6. Append(h, log[n + 1]) \in Seq(T) /\ Range(Append(h, log[n + 1])) = Range(h) \cup {log[n + 1]}
      BY <3>2, <3>5, RangeOfAppend
    <3> QED
      BY <3>2, <3>3, <3>4, <3>6
  <2> HIDE DEF Holds
  <2> QED
    BY <2>2, <2>3, NatSetInduction
<1>6. Right(upTo[L], L)
  <2> HIDE DEF upTo, Right
  <2> QED
    BY <1>2, <1>5
<1>7. Done(L) = Range(log) \cap S
  BY <1>2 DEF Range
<1> QED
  BY <1>1, <1>6, <1>7

(* The entries of a list are finitely many. *)
LEMMA RangeFinite ==
  ASSUME NEW T, NEW log \in Seq(T)
  PROVE  Cardinality(Range(log)) \in Nat
<1>1. Len(log) \in Nat /\ DOMAIN log = 1 .. Len(log)
  BY LenProperties
<1>2. IsFiniteSet(1 .. Len(log))
  BY <1>1, FS_Interval
<1>3. log \in Surjection(1 .. Len(log), Range(log))
  BY LenProperties DEF Surjection, Range
<1>4. IsFiniteSet(Range(log))
  BY <1>2, <1>3, FS_Surjection DEF ExistsSurjection
<1> QED
  BY <1>4, FS_CardinalityType

(* A list in the order of the stamps. *)
Sorted(l) == \A i, j \in DOMAIN l : i < j => ~ Before(l[j], l[i])

(* A sorted copy of a list has the same entries, in order. *)
LEMMA SortsProperties ==
  ASSUME NEW T, NEW log \in Seq(T), NEW l \in SortsOf(log)
  PROVE  l \in Seq(T) /\ Range(l) = Range(log) /\ Sorted(l)
<1> DEFINE n == Cardinality(Range(log))
<1>1. n \in Nat
  BY RangeFinite
<1>2. /\ l \in [1 .. n -> Range(log)]
      /\ \A t \in Range(log) : \E i \in 1 .. n : l[i] = t
  BY DEF SortsOf, Bijection, Injection, Surjection
<1>3. Sorted(l)
  BY DEF SortsOf, Sorted
<1>4. Range(log) \subseteq T
  BY LenProperties, ElementOfSeq DEF Range
<1> HIDE DEF n
<1>5. l \in Seq(T)
  BY <1>1, <1>2, <1>4
<1>6. Range(l) = Range(log)
  BY <1>2 DEF Range
<1> QED
  BY <1>3, <1>5, <1>6

(* A key on a list has a last place there, and LastOnList is what is at it. *)
LEMMA LastOnListIsLast ==
  ASSUME NEW T, NEW log \in Seq(T), NEW k, OnList(log, k) # {}
  PROVE  \E i \in OnList(log, k) :
           LastOnList(log, k) = log[i] /\ \A j \in OnList(log, k) : j <= i
<1> DEFINE Gaps == {Len(log) - i : i \in OnList(log, k)}
<1>1. Len(log) \in Nat /\ OnList(log, k) \subseteq 1 .. Len(log)
  BY LenProperties DEF OnList
<1>2. Gaps \in SUBSET Nat /\ Gaps # {}
  BY <1>1
<1>3. PICK d \in Gaps : \A n \in Gaps : d <= n
  <2> HIDE DEF Gaps
  <2> QED
    BY <1>2, LeastElement
<1>4. PICK i \in OnList(log, k) : d = Len(log) - i
  OBVIOUS
<1>5. ASSUME NEW j \in OnList(log, k) PROVE j <= i
  <2>1. d <= Len(log) - j
    BY <1>3
  <2> QED
    BY <1>1, <1>4, <2>1
<1>6. \E m \in OnList(log, k) : \A j \in OnList(log, k) : j <= m
  BY <1>5
<1> QED
  BY <1>6 DEF LastOnList

(* A replayed list is a store. *)
LEMMA ReplayListType ==
  ASSUME NEW log \in Seq(Entries)
  PROVE  ReplayList(log) \in Stores
<1>1. ASSUME NEW k \in Keys, OnList(log, k) # {}
      PROVE  LastOnList(log, k).value \in Values
  <2>1. PICK i \in OnList(log, k) : LastOnList(log, k) = log[i]
    BY <1>1, LastOnListIsLast
  <2>2. log[i] \in Entries
    BY <2>1, LenProperties, ElementOfSeq DEF OnList
  <2> QED
    BY <2>1, <2>2 DEF Entries
<1> QED
  BY <1>1 DEF ReplayList, Stores

-----------------------------------------------------------------------------
(* Each call that is under way has a thread that waits for its answer. *)
Calls ==
  \A s \in Servers :
    server[s].at \in {"unlocked", "copying"} =>
      periodic[server[s].asker].at = "called" /\ periodic[server[s].asker].peer = s

(***************************************************************************)
(* Nobody but the merge assigns what a replica knows of the others: the    *)
(* value it has loaded is still the current one when it assigns the        *)
(* larger.                                                                 *)
(***************************************************************************)
LoadedIsCurrent ==
  \A r \in Servers :
    periodic[r].at = "clock_store" /\ periodic[r].key # r =>
      periodic[r].loaded = replica[r].vector_clock[periodic[r].key]

(* What every step of the threads preserves, in any topology. *)
ThreadInv == ThreadTypeOK /\ Calls /\ LoadedIsCurrent

(***************************************************************************)
(* A step of the server thread preserves ThreadInv if the locals and       *)
(* fields it leaves have their types and it spares what is known of the    *)
(* others.                                                                 *)
(***************************************************************************)
LEMMA ServerSteps ==
  ASSUME ThreadInv, NEW r \in Servers, NEW at,
         NEW locals \in ServerLocals, NEW fields \in Fields,
         ServerStep(r, at, locals, fields),
         accepted' \subseteq Entries,
         locals.at \in {"unlocked", "copying"} =>
           periodic[locals.asker].at = "called" /\ periodic[locals.asker].peer = r,
         \A s \in Servers \ {r} : fields.vector_clock[s] = replica[r].vector_clock[s]
  PROVE  ThreadInv'
<1>1. /\ replica' = [replica EXCEPT ![r] = fields] /\ periodic' = periodic
      /\ server' = [server EXCEPT ![r] = locals]
  BY DEF ServerStep
<1>2. ThreadTypeOK /\ Calls /\ LoadedIsCurrent
  BY DEF ThreadInv
<1>3. ThreadTypeOK'
  BY <1>1, <1>2 DEF ThreadTypeOK
<1>4. Calls'
  BY <1>1, <1>2 DEF Calls, ThreadTypeOK
<1>5. LoadedIsCurrent'
  <2> SUFFICES ASSUME NEW q \in Servers, periodic[q].at = "clock_store", periodic[q].key # q
               PROVE  periodic[q].loaded = replica'[q].vector_clock[periodic[q].key]
    BY <1>1 DEF LoadedIsCurrent
  <2>1. periodic[q].key \in Servers
    BY <1>2 DEF ThreadTypeOK, PeriodicLocals, AskLocals, PullLocals, PullSteps, LockSteps
  <2>2. periodic[q].loaded = replica[q].vector_clock[periodic[q].key]
    BY <1>2 DEF LoadedIsCurrent
  <2> QED
    BY <1>1, <1>2, <2>1, <2>2 DEF ThreadTypeOK
<1> QED
  BY <1>3, <1>4, <1>5 DEF ThreadInv

(* A step of the periodic thread does if what it has loaded is current. *)
LEMMA PeriodicSteps ==
  ASSUME ThreadInv, NEW r \in Servers, NEW at,
         NEW locals \in PeriodicLocals, NEW fields \in Fields,
         PeriodicStep(r, at, locals, fields), at # "called",
         locals.at = "clock_store" /\ locals.key # r =>
           locals.loaded = fields.vector_clock[locals.key]
  PROVE  ThreadInv'
<1>1. /\ replica' = [replica EXCEPT ![r] = fields]
      /\ periodic' = [periodic EXCEPT ![r] = locals]
      /\ server' = server /\ accepted' = accepted /\ periodic[r].at = at
  BY DEF PeriodicStep
<1>2. ThreadTypeOK /\ Calls /\ LoadedIsCurrent
  BY DEF ThreadInv
<1>3. ThreadTypeOK'
  BY <1>1, <1>2 DEF ThreadTypeOK
<1>4. Calls'
  BY <1>1, <1>2 DEF Calls, ThreadTypeOK
<1>5. LoadedIsCurrent'
  BY <1>1, <1>2 DEF LoadedIsCurrent, ThreadTypeOK
<1> QED
  BY <1>3, <1>4, <1>5 DEF ThreadInv

(* Which locals the periodic thread has, by where it is. *)
LEMMA LocalsAt ==
  ASSUME NEW me \in PeriodicLocals
  PROVE  /\ me.at \in PullSteps => me \in PullLocals
         /\ me.at \in {"copying", "called"} => me \in AskLocals
         /\ me.at = "next" => me \in [at : {"next"}, to_ask : SUBSET Servers]
  BY DEF PeriodicLocals, PullLocals, AskLocals, PullSteps, LockSteps

(* Which locals the server thread has. *)
LEMMA ServerAt ==
  ASSUME NEW me \in ServerLocals
  PROVE  /\ me.at \in WriteSteps => me \in WriteLocals
         /\ me.at \in {"unlocked", "copying"} => me \in AnswerLocals
  BY DEF ServerLocals, WriteLocals, AnswerLocals, WriteSteps

(* The threads start idle, with nothing loaded. *)
LEMMA InitThreadInv == Init => ThreadInv
<1> SUFFICES ASSUME Init PROVE ThreadInv
  OBVIOUS
<1>1. ThreadTypeOK
  <2>1. NoStore \in Stores /\ NoClock \in VectorClocks
    BY DEF NoStore, NoClock, Stores, VectorClocks
  <2> QED
    BY <2>1 DEF Init, ThreadTypeOK, Fields, ServerLocals, PeriodicLocals, Idle
<1>2. Calls /\ LoadedIsCurrent
  BY DEF Init, Calls, LoadedIsCurrent, Idle
<1> QED
  BY <1>1, <1>2 DEF ThreadInv

(* The types at one replica. *)
LEMMA Types ==
  ASSUME ThreadInv, NEW r \in Servers
  PROVE  /\ replica[r] \in Fields /\ server[r] \in ServerLocals
         /\ periodic[r] \in PeriodicLocals /\ accepted \in SUBSET Entries
  BY DEF ThreadInv, ThreadTypeOK

(* What is on a list of entries is an entry. *)
LEMMA RangeTypes ==
  ASSUME NEW log \in Seq(Entries)
  PROVE  Range(log) \subseteq Entries
  BY LenProperties, ElementOfSeq DEF Range

(* The fields with another list in place of the log. *)
LEMMA FieldsWithList ==
  ASSUME NEW f \in Fields, NEW list \in Seq(Entries)
  PROVE  LET fields == [f EXCEPT !.write_log = list, !.looked_up = FALSE] IN
         /\ fields \in Fields /\ fields.write_log = list
         /\ fields.vector_clock = f.vector_clock /\ fields.kv_store = f.kv_store
         /\ fields.accept_time = f.accept_time /\ fields.looked_up = FALSE
<1>1. PICK b \in BOOLEAN : b = FALSE
  OBVIOUS
<1>2. PICK fields : fields = [f EXCEPT !.write_log = list, !.looked_up = b]
  OBVIOUS
<1>3. /\ fields \in Fields /\ fields.write_log = list
      /\ fields.vector_clock = f.vector_clock /\ fields.kv_store = f.kv_store
      /\ fields.accept_time = f.accept_time /\ fields.looked_up = b
  BY <1>2 DEF Fields
<1> QED
  BY <1>1, <1>2, <1>3, Zenon

(* The fields with another looked_up. *)
LEMMA FieldsLookedUp ==
  ASSUME NEW f \in Fields, NEW b \in BOOLEAN,
         NEW fields, fields = [f EXCEPT !.looked_up = b]
  PROVE  /\ fields \in Fields /\ fields.write_log = f.write_log
         /\ fields.vector_clock = f.vector_clock /\ fields.kv_store = f.kv_store
         /\ fields.accept_time = f.accept_time /\ fields.looked_up = b
  BY DEF Fields

(* A call starts. *)
LEMMA CallThreadInv ==
  ASSUME ThreadInv, NEW r \in Servers, Call(r)
  PROVE  ThreadInv'
<1>1. CASE LookUpLog(r)
  <2>1. PICK w \in [key : Keys, value : Values, accept_time : {0}, replica_id : {r},
                    client_id : Clients, client_time : ClientTimes] :
          ServerStep(r, "idle", [at |-> "stamp", entry |-> w, loaded |-> 0],
                     [replica[r] EXCEPT !.looked_up = TRUE])
    BY <1>1 DEF LookUpLog
  <2>2. accepted' = accepted
    BY <1>1 DEF LookUpLog
  <2>3. [at |-> "stamp", entry |-> w, loaded |-> 0] \in ServerLocals
    BY DEF ServerLocals, WriteLocals, WriteSteps, Entries
  <2>4. PICK fields : fields = [replica[r] EXCEPT !.looked_up = TRUE]
    OBVIOUS
  <2>5. fields \in Fields /\ fields.vector_clock = replica[r].vector_clock
    <3> QED
      BY Zenon, <2>4, Types, FieldsLookedUp
  <2> QED
    BY <2>1, <2>2, <2>3, <2>4, <2>5, ServerSteps, Types
<1>2. CASE \E s \in Servers : ReadClock(r, s)
  <2>1. PICK s \in Servers : ReadClock(r, s)
    BY <1>2
  <2>2. PICK fields : fields = [replica[r] EXCEPT !.clock_keys = @ \cup {s}]
    OBVIOUS
  <2>3. fields \in Fields /\ fields.vector_clock = replica[r].vector_clock
    BY <2>2, Types DEF Fields
  <2>4. Idle \in ServerLocals /\ Idle.at \notin {"unlocked", "copying"}
    BY DEF ServerLocals, Idle
  <2> QED
    BY <2>1, <2>2, <2>3, <2>4, ServerSteps, Types DEF ReadClock
<1> QED
  BY <1>1, <1>2 DEF Call

(* The entry goes on the list that was looked up, the log or not. *)
LEMMA AppendThreadInv ==
  ASSUME ThreadInv, NEW r \in Servers, AppendEntry(r)
  PROVE  ThreadInv'
<1>1. PICK list : list = IF replica[r].looked_up
                         THEN Append(replica[r].write_log, server[r].entry)
                         ELSE replica[r].write_log
  OBVIOUS
<1>2. PICK fields : fields = [replica[r] EXCEPT !.write_log = list, !.looked_up = FALSE]
  OBVIOUS
<1>3. PICK locals : locals = [server[r] EXCEPT !.at = "store"]
  OBVIOUS
<1>4. /\ ServerStep(r, "append", locals, fields)
      /\ accepted' = accepted \cup {server[r].entry}
      /\ server[r].at = "append"
  BY <1>1, <1>2, <1>3 DEF AppendEntry, ServerStep
<1>5. server[r] \in WriteLocals
  BY <1>4, Types, ServerAt DEF WriteSteps
<1>6. server[r].entry \in Entries /\ locals \in ServerLocals /\ locals.at = "store"
  BY <1>3, <1>5 DEF WriteLocals, ServerLocals, WriteSteps
<1>7. list \in Seq(Entries)
  <2>1. replica[r].write_log \in Seq(Entries)
    BY Types DEF Fields
  <2> QED
    BY <1>1, <1>6, <2>1, RangeOfAppend
<1>8. fields \in Fields /\ fields.vector_clock = replica[r].vector_clock
  <2>1. replica[r] \in Fields
    BY Types
  <2> QED
    BY <1>2, <1>7, <2>1, FieldsWithList, Zenon
<1> QED
  BY <1>4, <1>6, <1>8, ServerSteps, Types

(* The other accesses of write(). *)
LEMMA WriteStepThreadInv ==
  ASSUME ThreadInv, NEW r \in Servers, WriteStep(r)
  PROVE  ThreadInv'
<1> DEFINE me == server[r]
           f  == replica[r]
<1>1. /\ \/ ServerStep(r, "stamp",
              [me EXCEPT !.at = "append", !.entry.accept_time = f.accept_time], f)
         \/ ServerStep(r, "store", [me EXCEPT !.at = "load_time"],
              [f EXCEPT !.kv_store[me.entry.key] = me.entry.value])
         \/ ServerStep(r, "load_time",
              [me EXCEPT !.at = "store_time", !.loaded = f.accept_time], f)
         \/ ServerStep(r, "store_time", [me EXCEPT !.at = "own_time"],
              [f EXCEPT !.accept_time = me.loaded + 1])
         \/ ServerStep(r, "own_time",
              [me EXCEPT !.at = "own_clock", !.loaded = f.accept_time], f)
         \/ ServerStep(r, "own_clock", Idle,
              [f EXCEPT !.vector_clock[r] = me.loaded, !.clock_keys = @ \cup {r}])
      /\ accepted' = accepted
  BY DEF WriteStep
<1>2. f \in Fields /\ f.accept_time \in Nat /\ accepted' \subseteq Entries
  BY <1>1, Types DEF Fields
<1>3. me \in WriteLocals /\ me.entry \in Entries /\ me.loaded \in Nat
  <2>1. me.at \in WriteSteps
    BY <1>1 DEF ServerStep, WriteSteps
  <2>2. me \in WriteLocals
    BY <2>1, Types, ServerAt
  <2> QED
    BY <2>2 DEF WriteLocals
<1> HIDE DEF me, f
<1>4. ASSUME NEW locals \in WriteLocals, NEW fields \in Fields, NEW at,
             ServerStep(r, at, locals, fields),
             fields.vector_clock = f.vector_clock
      PROVE  ThreadInv'
  <2>1. locals \in ServerLocals /\ locals.at \notin {"unlocked", "copying"}
    BY DEF ServerLocals, WriteLocals, WriteSteps
  <2> QED
    BY <1>2, <1>4, <2>1, ServerSteps DEF f
<1>5. CASE ServerStep(r, "stamp",
             [me EXCEPT !.at = "append", !.entry.accept_time = f.accept_time], f)
  <2>1. [me EXCEPT !.at = "append", !.entry.accept_time = f.accept_time] \in WriteLocals
    BY <1>2, <1>3 DEF WriteLocals, WriteSteps, Entries
  <2> QED
    BY <1>2, <1>4, <1>5, <2>1
<1>6. CASE ServerStep(r, "store", [me EXCEPT !.at = "load_time"],
             [f EXCEPT !.kv_store[me.entry.key] = me.entry.value])
  <2>1. [me EXCEPT !.at = "load_time"] \in WriteLocals
    BY <1>3 DEF WriteLocals, WriteSteps
  <2>2. me.entry.key \in Keys /\ me.entry.value \in Values /\ f.kv_store \in Stores
    BY <1>2, <1>3 DEF Fields, Entries
  <2>3. [f.kv_store EXCEPT ![me.entry.key] = me.entry.value] \in Stores
    BY <2>2 DEF Stores
  <2>4. PICK fields : fields = [f EXCEPT !.kv_store[me.entry.key] = me.entry.value]
    OBVIOUS
  <2>5. fields \in Fields /\ fields.vector_clock = f.vector_clock
    BY <1>2, <2>3, <2>4 DEF Fields
  <2> QED
    BY <1>4, <1>6, <2>1, <2>4, <2>5
<1>7. CASE ServerStep(r, "load_time",
             [me EXCEPT !.at = "store_time", !.loaded = f.accept_time], f)
  <2>1. [me EXCEPT !.at = "store_time", !.loaded = f.accept_time] \in WriteLocals
    BY <1>2, <1>3 DEF WriteLocals, WriteSteps
  <2> QED
    BY <1>2, <1>4, <1>7, <2>1
<1>8. CASE ServerStep(r, "store_time", [me EXCEPT !.at = "own_time"],
             [f EXCEPT !.accept_time = me.loaded + 1])
  <2>1. [me EXCEPT !.at = "own_time"] \in WriteLocals
    BY <1>3 DEF WriteLocals, WriteSteps
  <2>2. PICK fields : fields = [f EXCEPT !.accept_time = me.loaded + 1]
    OBVIOUS
  <2>3. fields \in Fields /\ fields.vector_clock = f.vector_clock
    BY <1>2, <1>3, <2>2 DEF Fields
  <2> QED
    BY <1>4, <1>8, <2>1, <2>2, <2>3
<1>9. CASE ServerStep(r, "own_time",
             [me EXCEPT !.at = "own_clock", !.loaded = f.accept_time], f)
  <2>1. [me EXCEPT !.at = "own_clock", !.loaded = f.accept_time] \in WriteLocals
    BY <1>2, <1>3 DEF WriteLocals, WriteSteps
  <2> QED
    BY <1>2, <1>4, <1>9, <2>1
<1>10. CASE ServerStep(r, "own_clock", Idle,
              [f EXCEPT !.vector_clock[r] = me.loaded, !.clock_keys = @ \cup {r}])
  <2>1. PICK fields : fields = [f EXCEPT !.vector_clock[r] = me.loaded,
                                         !.clock_keys = @ \cup {r}]
    OBVIOUS
  <2>2. f.vector_clock \in VectorClocks /\ f.clock_keys \subseteq Servers
    BY <1>2 DEF Fields
  <2>3. fields \in Fields
    BY <1>2, <1>3, <2>1, <2>2 DEF Fields, VectorClocks
  <2>4. \A s \in Servers \ {r} : fields.vector_clock[s] = f.vector_clock[s]
    BY <1>2, <2>1, <2>2 DEF VectorClocks, Fields
  <2>5. Idle \in ServerLocals /\ Idle.at \notin {"unlocked", "copying"}
    BY DEF ServerLocals, Idle
  <2> QED
    BY <1>2, <1>10, <2>1, <2>3, <2>4, <2>5, ServerSteps DEF f
<1> QED
  BY <1>1, <1>5, <1>6, <1>7, <1>8, <1>9, <1>10 DEF me, f

(* antiEntropyRequest() goes through the log. *)
LEMMA ScanThreadInv ==
  ASSUME ThreadInv, NEW s \in Servers, NEW r \in Servers, ScanLog(s, r)
  PROVE  ThreadInv'
<1>1. PICK new : new = NewWritesIn(replica[s].write_log, periodic[r].clock)
  OBVIOUS
<1>2. PICK locals : locals = [at |-> "unlocked", asker |-> r, new_writes |-> new, keys |-> {}]
  OBVIOUS
<1>3. /\ periodic[r].at = "called" /\ periodic[r].peer = s
      /\ ServerStep(s, "idle", locals, replica[s]) /\ accepted' = accepted
  BY <1>1, <1>2 DEF ScanLog
<1>4. new \in Seq(Entries)
  BY <1>1, Types, TakenProperties DEF NewWritesIn, Fields
<1>5. locals \in ServerLocals /\ locals.asker = r
  BY <1>2, <1>4 DEF ServerLocals, AnswerLocals
<1> QED
  BY <1>3, <1>5, ServerSteps, Types

(* antiEntropyRequest() begins to copy its clock. *)
LEMMA BeginCopyThreadInv ==
  ASSUME ThreadInv, NEW s \in Servers, BeginCopy(s)
  PROVE  ThreadInv'
<1>1. PICK locals : locals = [server[s] EXCEPT !.at = "copying", !.keys = replica[s].clock_keys]
  OBVIOUS
<1>2. /\ ServerStep(s, "unlocked", locals, replica[s]) /\ accepted' = accepted
      /\ server[s].at = "unlocked"
  BY <1>1 DEF BeginCopy, ServerStep
<1>3. server[s] \in AnswerLocals /\ replica[s].clock_keys \subseteq Servers
  BY <1>2, Types, ServerAt DEF Fields
<1>4. locals \in ServerLocals /\ locals.asker = server[s].asker
  BY <1>1, <1>3 DEF ServerLocals, AnswerLocals
<1>5. periodic[locals.asker].at = "called" /\ periodic[locals.asker].peer = s
  BY <1>2, <1>4 DEF ThreadInv, Calls
<1> QED
  BY <1>2, <1>4, <1>5, ServerSteps, Types

(* The answer reaches the thread that waits for it, which may die of it. *)
LEMMA AnswerThreadInv ==
  ASSUME ThreadInv, NEW s \in Servers, Answer(s)
  PROVE  ThreadInv'
<1>1. PICK r : r = server[s].asker
  OBVIOUS
<1>2. PICK locals : locals =
        IF replica[s].clock_keys # server[s].keys THEN Dead
        ELSE [at |-> "answered", to_ask |-> periodic[r].to_ask,
              new_writes |-> server[s].new_writes, clock |-> replica[s].vector_clock,
              keys |-> replica[s].clock_keys, time |-> replica[s].accept_time,
              log |-> <<>>, store |-> NoStore, key |-> r, loaded |-> 0]
  OBVIOUS
<1>3. /\ server[s].at = "copying"
      /\ server' = [server EXCEPT ![s] = Idle]
      /\ periodic' = [periodic EXCEPT ![r] = locals]
      /\ replica' = replica /\ accepted' = accepted
  BY <1>1, <1>2 DEF Answer
<1>4. server[s] \in AnswerLocals /\ r \in Servers /\ replica[s] \in Fields
  BY <1>1, <1>3, Types, ServerAt DEF AnswerLocals
<1>5. /\ periodic[r].at = "called" /\ periodic[r].peer = s
      /\ ThreadTypeOK /\ LoadedIsCurrent /\ Calls
  BY <1>1, <1>3 DEF ThreadInv, Calls
<1>6. periodic[r] \in AskLocals
  BY <1>4, <1>5, Types, LocalsAt
<1>7. NoStore \in Stores /\ <<>> \in Seq(Entries)
  BY DEF NoStore, Stores
<1>8. locals \in PeriodicLocals
  <2>1. Dead \in PeriodicLocals
    BY DEF PeriodicLocals, Dead
  <2>2. CASE replica[s].clock_keys = server[s].keys
    <3>1. locals \in PullLocals
      BY <1>2, <1>4, <1>6, <1>7, <2>2
         DEF PullLocals, PullSteps, AnswerLocals, AskLocals, Fields
    <3> QED
      BY <3>1 DEF PeriodicLocals
  <2> QED
    BY <1>2, <2>1, <2>2
<1>9. ThreadTypeOK'
  BY <1>3, <1>4, <1>5, <1>8 DEF ThreadTypeOK, Idle, ServerLocals
<1>10. Calls'
  <2> SUFFICES ASSUME NEW q \in Servers, server'[q].at \in {"unlocked", "copying"}
               PROVE  /\ periodic'[server'[q].asker].at = "called"
                      /\ periodic'[server'[q].asker].peer = q
    BY DEF Calls
  <2>1. q # s /\ server'[q] = server[q]
    BY <1>3, <1>5 DEF ThreadTypeOK, Idle
  <2>2. periodic[server[q].asker].at = "called" /\ periodic[server[q].asker].peer = q
    BY <1>5, <2>1 DEF Calls
  <2> QED
    BY <1>3, <1>5, <2>1, <2>2
<1>11. locals.at # "clock_store"
  BY <1>2 DEF Dead
<1>12. LoadedIsCurrent'
  BY <1>3, <1>4, <1>5, <1>11 DEF LoadedIsCurrent, ThreadTypeOK
<1> QED
  BY <1>9, <1>10, <1>12 DEF ThreadInv

(* The periodic thread asks the replicas it reaches. *)
LEMMA AskThreadInv ==
  ASSUME ThreadInv, NEW r \in Servers,
         BeginRound(r) \/ EndRound(r) \/ SendRequest(r) \/ \E s \in Servers : NextPeer(r, s)
  PROVE  ThreadInv'
<1>1. CASE BeginRound(r)
  <2>1. [at |-> "next", to_ask |-> Reachable[r]] \in PeriodicLocals
    BY ReachableAssumption DEF PeriodicLocals, ReachableAssumption
  <2> QED
    BY <1>1, <2>1, PeriodicSteps, Types DEF BeginRound
<1>2. CASE EndRound(r)
  <2>1. [at |-> "asleep"] \in PeriodicLocals
    BY DEF PeriodicLocals
  <2> QED
    BY <1>2, <2>1, PeriodicSteps, Types DEF EndRound
<1>3. CASE SendRequest(r)
  <2>1. periodic[r].at = "copying"
    BY <1>3 DEF SendRequest, PeriodicStep
  <2>2. periodic[r] \in AskLocals /\ replica[r].vector_clock \in VectorClocks
    BY <2>1, Types, LocalsAt DEF Fields
  <2>3. PICK locals : locals =
          IF replica[r].clock_keys # periodic[r].keys THEN Dead
          ELSE [periodic[r] EXCEPT !.at = "called", !.clock = replica[r].vector_clock, !.keys = {}]
    OBVIOUS
  <2>4. locals \in PeriodicLocals /\ locals.at # "clock_store"
    BY <2>2, <2>3 DEF Dead, PeriodicLocals, AskLocals
  <2> QED
    BY <1>3, <2>3, <2>4, PeriodicSteps, Types DEF SendRequest
<1>4. CASE \E s \in Servers : NextPeer(r, s)
  <2>1. PICK s \in Servers : NextPeer(r, s)
    BY <1>4
  <2>2. PICK locals : locals =
          [at |-> "copying", to_ask |-> periodic[r].to_ask \ {s}, peer |-> s,
           clock |-> NoClock, keys |-> replica[r].clock_keys]
    OBVIOUS
  <2>3. periodic[r].at = "next" /\ PeriodicStep(r, "next", locals, replica[r])
    BY <2>1, <2>2 DEF NextPeer
  <2>4. periodic[r] \in [at : {"next"}, to_ask : SUBSET Servers]
        /\ replica[r].clock_keys \subseteq Servers /\ NoClock \in VectorClocks
    BY <2>3, Types, LocalsAt DEF Fields, NoClock, VectorClocks
  <2>5. locals \in PeriodicLocals /\ locals.at = "copying"
    BY <2>2, <2>4 DEF PeriodicLocals, AskLocals
  <2> QED
    BY <2>3, <2>5, PeriodicSteps, Types
<1> QED
  BY <1>1, <1>2, <1>3, <1>4

(* The types at a replica that has its answer. *)
LEMMA PullerTypes ==
  ASSUME ThreadInv, NEW r \in Servers, periodic[r].at \in PullSteps
  PROVE  /\ periodic[r] \in PullLocals /\ replica[r] \in Fields
         /\ PullLocals \subseteq PeriodicLocals
  BY Types, LocalsAt DEF PeriodicLocals

(* Pruned leaves out what an entry of the other list overwrites. *)
LEMMA PrunedType ==
  ASSUME NEW log \in Seq(Entries), NEW other
  PROVE  /\ Pruned(log, other) \in Seq(Entries)
         /\ Range(Pruned(log, other)) = {w \in Range(log) : ~ Superseded(w, Range(other))}
  BY TakenProperties DEF Pruned

(* The merge replaces the log. *)
LEMMA MergeLogThreadInv ==
  ASSUME ThreadInv, NEW r \in Servers, MergeLog(r)
  PROVE  ThreadInv'
<1> DEFINE me == periodic[r]
           f  == replica[r]
<1>1. \/ PeriodicStep(r, "answered",
           [me EXCEPT !.at = IF me.new_writes = <<>> THEN "clock" ELSE "prune_log",
              !.new_writes = Pruned(@, f.write_log)], f)
      \/ PeriodicStep(r, "prune_log",
           [me EXCEPT !.at = "swap", !.log = Pruned(f.write_log, me.new_writes)], f)
      \/ PeriodicStep(r, "swap", [me EXCEPT !.at = "sort"],
           [f EXCEPT !.write_log = me.log \o me.new_writes, !.looked_up = FALSE])
      \/ \E l \in SortsOf(f.write_log) :
           PeriodicStep(r, "sort", [me EXCEPT !.at = "assign", !.log = l], f)
      \/ PeriodicStep(r, "assign", [me EXCEPT !.at = "replay"],
           [f EXCEPT !.write_log = me.log, !.looked_up = FALSE])
  BY DEF MergeLog
<1>2. me.at \in PullSteps
  BY <1>1 DEF PeriodicStep, PullSteps, LockSteps
<1>3. me \in PullLocals /\ f \in Fields /\ PullLocals \subseteq PeriodicLocals
  BY <1>2, PullerTypes
<1>4. /\ me.new_writes \in Seq(Entries) /\ me.log \in Seq(Entries)
      /\ f.write_log \in Seq(Entries)
  BY <1>3 DEF PullLocals, Fields
<1> HIDE DEF me, f
<1>5. ASSUME NEW locals \in PullLocals, NEW fields \in Fields, NEW at,
             PeriodicStep(r, at, locals, fields), at # "called", locals.at # "clock_store"
      PROVE  ThreadInv'
  BY <1>3, <1>5, PeriodicSteps
<1>6. CASE PeriodicStep(r, "answered",
             [me EXCEPT !.at = IF me.new_writes = <<>> THEN "clock" ELSE "prune_log",
                !.new_writes = Pruned(@, f.write_log)], f)
  <2>1. PICK locals : locals =
          [me EXCEPT !.at = IF me.new_writes = <<>> THEN "clock" ELSE "prune_log",
                     !.new_writes = Pruned(@, f.write_log)]
    OBVIOUS
  <2>2. Pruned(me.new_writes, f.write_log) \in Seq(Entries)
    BY <1>4, PrunedType
  <2>3. locals \in PullLocals /\ locals.at # "clock_store"
    BY <1>3, <2>1, <2>2 DEF PullLocals, PullSteps, LockSteps
  <2> QED
    BY <1>3, <1>5, <1>6, <2>1, <2>3
<1>7. CASE PeriodicStep(r, "prune_log",
             [me EXCEPT !.at = "swap", !.log = Pruned(f.write_log, me.new_writes)], f)
  <2>1. PICK locals : locals =
          [me EXCEPT !.at = "swap", !.log = Pruned(f.write_log, me.new_writes)]
    OBVIOUS
  <2>2. locals \in PullLocals /\ locals.at # "clock_store"
    BY <1>3, <1>4, <2>1, PrunedType DEF PullLocals, PullSteps, LockSteps
  <2> QED
    BY <1>3, <1>5, <1>7, <2>1, <2>2
<1>8. CASE PeriodicStep(r, "swap", [me EXCEPT !.at = "sort"],
             [f EXCEPT !.write_log = me.log \o me.new_writes, !.looked_up = FALSE])
  <2>1. me.log \o me.new_writes \in Seq(Entries)
    BY <1>4, RangeOfConcat
  <2>2. [f EXCEPT !.write_log = me.log \o me.new_writes, !.looked_up = FALSE] \in Fields
    BY <1>3, <2>1, FieldsWithList, Zenon
  <2>3. PICK locals : locals = [me EXCEPT !.at = "sort"]
    OBVIOUS
  <2>4. locals \in PullLocals /\ locals.at = "sort"
    BY <1>3, <2>3 DEF PullLocals, PullSteps, LockSteps
  <2> QED
    BY <1>5, <1>8, <2>2, <2>3, <2>4
<1>9. CASE \E l \in SortsOf(f.write_log) :
             PeriodicStep(r, "sort", [me EXCEPT !.at = "assign", !.log = l], f)
  <2>1. PICK l \in SortsOf(f.write_log) :
          PeriodicStep(r, "sort", [me EXCEPT !.at = "assign", !.log = l], f)
    BY <1>9
  <2>2. PICK locals : locals = [me EXCEPT !.at = "assign", !.log = l]
    OBVIOUS
  <2>3. l \in Seq(Entries)
    BY <1>4, SortsProperties
  <2>4. locals \in PullLocals /\ locals.at = "assign"
    BY <1>3, <2>2, <2>3 DEF PullLocals, PullSteps, LockSteps
  <2> QED
    BY <1>3, <1>5, <2>1, <2>2, <2>4
<1>10. CASE PeriodicStep(r, "assign", [me EXCEPT !.at = "replay"],
              [f EXCEPT !.write_log = me.log, !.looked_up = FALSE])
  <2>1. [f EXCEPT !.write_log = me.log, !.looked_up = FALSE] \in Fields
    BY <1>3, <1>4, FieldsWithList, Zenon
  <2>2. PICK locals : locals = [me EXCEPT !.at = "replay"]
    OBVIOUS
  <2>3. locals \in PullLocals /\ locals.at = "replay"
    BY <1>3, <2>2 DEF PullLocals, PullSteps, LockSteps
  <2> QED
    BY <1>5, <1>10, <2>1, <2>2, <2>3
<1> QED
  BY <1>1, <1>6, <1>7, <1>8, <1>9, <1>10 DEF me, f

(* The merge replaces the store and raises the clock and the time. *)
LEMMA MergeThreadInv ==
  ASSUME ThreadInv, NEW r \in Servers, Merge(r)
  PROVE  ThreadInv'
<1> DEFINE me == periodic[r]
           f  == replica[r]
<1>1. CASE MergeLog(r)
  BY <1>1, MergeLogThreadInv
<1>2. CASE RebuildStore(r)
  <2>1. me.at \in PullSteps
    BY <1>2 DEF RebuildStore, PeriodicStep, PullSteps, LockSteps
  <2>2. me \in PullLocals /\ f \in Fields /\ PullLocals \subseteq PeriodicLocals
    BY <2>1, PullerTypes
  <2>3. CASE PeriodicStep(r, "replay", [me EXCEPT !.at = "store", !.store = ReplayList(f.write_log)], f)
    <3>1. ReplayList(f.write_log) \in Stores
      BY <2>2, ReplayListType DEF Fields
    <3>2. PICK locals : locals = [me EXCEPT !.at = "store", !.store = ReplayList(f.write_log)]
      OBVIOUS
    <3>3. locals \in PullLocals /\ locals.at = "store"
      BY <2>2, <3>1, <3>2 DEF PullLocals, PullSteps, LockSteps
    <3> QED
      BY <2>2, <2>3, <3>2, <3>3, PeriodicSteps
  <2>4. CASE PeriodicStep(r, "store", [me EXCEPT !.at = "clock"], [f EXCEPT !.kv_store = me.store])
    <3>1. PICK fields : fields = [f EXCEPT !.kv_store = me.store]
      OBVIOUS
    <3>2. PICK locals : locals = [me EXCEPT !.at = "clock"]
      OBVIOUS
    <3>3. fields \in Fields
      BY <2>2, <3>1 DEF Fields, PullLocals
    <3>4. locals \in PullLocals /\ locals.at = "clock"
      BY <2>2, <3>2 DEF PullLocals, PullSteps, LockSteps
    <3> QED
      BY <2>2, <2>4, <3>1, <3>2, <3>3, <3>4, PeriodicSteps
  <2> QED
    BY <1>2, <2>3, <2>4 DEF RebuildStore
<1>3. CASE \E s \in Servers : LoadClock(r, s)
  <2>1. PICK s \in Servers : LoadClock(r, s)
    BY <1>3
  <2>2. me.at \in PullSteps
    BY <2>1 DEF LoadClock, PullSteps, LockSteps
  <2>3. me \in PullLocals /\ f \in Fields /\ PullLocals \subseteq PeriodicLocals
    BY <2>2, PullerTypes
  <2>4. PICK locals : locals = [me EXCEPT !.at = "clock_store", !.keys = @ \ {s}, !.key = s,
                                          !.loaded = f.vector_clock[s]]
    OBVIOUS
  <2>5. PICK fields : fields = [f EXCEPT !.clock_keys = @ \cup {s}]
    OBVIOUS
  <2>6. fields \in Fields /\ fields.vector_clock = f.vector_clock
    BY <2>3, <2>5 DEF Fields
  <2>7. f.vector_clock[s] \in Nat
    BY <2>3 DEF Fields, VectorClocks
  <2>8. /\ locals \in PullLocals
        /\ locals.at = "clock_store" => locals.loaded = f.vector_clock[locals.key]
    BY <2>3, <2>4, <2>7 DEF PullLocals, PullSteps, LockSteps
  <2> QED
    BY <2>1, <2>3, <2>4, <2>5, <2>6, <2>8, PeriodicSteps DEF LoadClock
<1>4. CASE StoreClock(r)
  <2>1. me.at \in PullSteps
    BY <1>4 DEF StoreClock, PullSteps, LockSteps
  <2>2. me \in PullLocals /\ f \in Fields /\ PullLocals \subseteq PeriodicLocals
    BY <2>1, PullerTypes
  <2>3. PICK locals : locals = [me EXCEPT !.at = "clock", !.key = r, !.loaded = 0]
    OBVIOUS
  <2>4. PICK fields : fields =
          [f EXCEPT !.vector_clock[me.key] = Maximum(me.loaded, me.clock[me.key])]
    OBVIOUS
  <2>5. Maximum(me.loaded, me.clock[me.key]) \in Nat
    BY <2>2 DEF PullLocals, VectorClocks, Maximum
  <2>6. fields \in Fields
    BY <2>2, <2>4, <2>5 DEF Fields, VectorClocks
  <2>7. locals \in PullLocals /\ locals.at = "clock"
    BY <2>2, <2>3 DEF PullLocals, PullSteps, LockSteps
  <2> QED
    BY <1>4, <2>2, <2>3, <2>4, <2>6, <2>7, PeriodicSteps DEF StoreClock
<1>5. CASE MergeTime(r)
  <2>1. me.at \in PullSteps
    BY <1>5 DEF MergeTime, PullSteps, LockSteps
  <2>2. me \in PullLocals /\ f \in Fields /\ PullLocals \subseteq PeriodicLocals
    BY <2>1, PullerTypes
  <2>3. CASE PeriodicStep(r, "clock", [me EXCEPT !.at = "time_store", !.loaded = f.accept_time], f)
    <3>1. PICK locals : locals = [me EXCEPT !.at = "time_store", !.loaded = f.accept_time]
      OBVIOUS
    <3>2. locals \in PullLocals /\ locals.at = "time_store"
      BY <2>2, <3>1 DEF PullLocals, PullSteps, LockSteps, Fields
    <3> QED
      BY <2>2, <2>3, <3>1, <3>2, PeriodicSteps
  <2>4. CASE PeriodicStep(r, "time_store", [at |-> "next", to_ask |-> me.to_ask],
               [f EXCEPT !.accept_time = Maximum(me.loaded, me.time)])
    <3>1. PICK fields : fields = [f EXCEPT !.accept_time = Maximum(me.loaded, me.time)]
      OBVIOUS
    <3>2. fields \in Fields
      BY <2>2, <3>1 DEF Fields, PullLocals, Maximum
    <3>3. [at |-> "next", to_ask |-> me.to_ask] \in PeriodicLocals
      BY <2>2 DEF PeriodicLocals, PullLocals
    <3> QED
      BY <2>4, <3>1, <3>2, <3>3, PeriodicSteps
  <2> QED
    BY <1>5, <2>3, <2>4 DEF MergeTime
<1> QED
  BY <1>1, <1>2, <1>3, <1>4, <1>5 DEF Merge

(* Every step preserves ThreadInv. *)
LEMMA NextThreadInv == ThreadInv /\ [Next]_vars => ThreadInv'
<1> SUFFICES ASSUME ThreadInv, [Next]_vars PROVE ThreadInv'
  OBVIOUS
<1>1. CASE UNCHANGED vars
  BY <1>1 DEF ThreadInv, ThreadTypeOK, Calls, LoadedIsCurrent, vars
<1>2. ASSUME NEW r \in Servers, ServerThread(r) PROVE ThreadInv'
  BY <1>2, AppendThreadInv, WriteStepThreadInv, ScanThreadInv, BeginCopyThreadInv,
     AnswerThreadInv DEF ServerThread
<1>3. ASSUME NEW r \in Servers, PeriodicThread(r) PROVE ThreadInv'
  BY <1>3, AskThreadInv, MergeThreadInv DEF PeriodicThread
<1> QED
  BY <1>1, <1>2, <1>3, CallThreadInv DEF Next

(***************************************************************************)
(* Type correctness at every access of both threads of each replica, in    *)
(* any topology: a thread never finds locals or fields of another kind.    *)
(***************************************************************************)
THEOREM ThreadsTypeCorrect == Spec => []ThreadTypeOK
<1>1. ThreadInv => ThreadTypeOK
  BY DEF ThreadInv
<1> QED
  BY <1>1, InitThreadInv, NextThreadInv, PTL DEF Spec

-----------------------------------------------------------------------------
(* A step that assigns no key of a clock ... *)
SameClocks == \A q \in Servers : replica'[q].vector_clock = replica[q].vector_clock

(* ... and a step in which a thread of r assigns one key of its clock. *)
KeyAssigned(r, k, v) ==
  /\ replica'[r].vector_clock = [replica[r].vector_clock EXCEPT ![k] = v]
  /\ \A q \in Servers \ {r} : replica'[q].vector_clock = replica[q].vector_clock

(* A thread of r assigns fields that have the same clock. *)
LEMMA SameClock ==
  ASSUME ThreadInv, NEW r \in Servers, NEW fields,
         replica' = [replica EXCEPT ![r] = fields],
         fields.vector_clock = replica[r].vector_clock
  PROVE  SameClocks
  BY DEF ThreadInv, ThreadTypeOK, SameClocks

(* A call only adds a key to the dictionary, which reads 0 before. *)
LEMMA CallSameClocks ==
  ASSUME ThreadInv, NEW r \in Servers, Call(r)
  PROVE  SameClocks
<1>1. replica[r] \in Fields
  BY Types
<1>2. CASE LookUpLog(r)
  <2>1. replica' = [replica EXCEPT ![r] = [replica[r] EXCEPT !.looked_up = TRUE]]
    BY <1>2, Zenon DEF LookUpLog, ServerStep
  <2>2. TRUE \in BOOLEAN
    OBVIOUS
  <2>3. [replica[r] EXCEPT !.looked_up = TRUE].vector_clock = replica[r].vector_clock
    BY <1>1, <2>2, FieldsLookedUp, Zenon
  <2> QED
    BY <2>1, <2>3, SameClock
<1>3. ASSUME NEW s \in Servers, ReadClock(r, s)
      PROVE  SameClocks
  <2>1. PICK fields : fields = [replica[r] EXCEPT !.clock_keys = @ \cup {s}]
    OBVIOUS
  <2>2. fields.vector_clock = replica[r].vector_clock
    BY <1>1, <2>1 DEF Fields
  <2> QED
    BY <1>3, <2>1, <2>2, SameClock DEF ReadClock, ServerStep
<1> QED
  BY <1>2, <1>3 DEF Call

(* The server thread assigns no key but its own replica's. *)
LEMMA ServerThreadClocks ==
  ASSUME ThreadInv, NEW r \in Servers, ServerThread(r)
  PROVE  \/ SameClocks
         \/ server[r].at = "own_clock" /\ KeyAssigned(r, r, server[r].loaded)
<1> DEFINE me == server[r]
           f  == replica[r]
<1>1. f \in Fields /\ f.vector_clock \in VectorClocks
  BY Types DEF Fields
<1>2. CASE AppendEntry(r)
  <2>1. PICK list : list = IF f.looked_up THEN Append(f.write_log, me.entry) ELSE f.write_log
    OBVIOUS
  <2>2. replica' = [replica EXCEPT ![r] = [f EXCEPT !.write_log = list, !.looked_up = FALSE]]
    BY <1>2, <2>1, Zenon DEF AppendEntry, ServerStep
  <2>3. list \in Seq(Entries)
    <3>1. server[r].at = "append"
      BY <1>2 DEF AppendEntry, ServerStep
    <3>2. me.entry \in Entries /\ f.write_log \in Seq(Entries)
      BY <3>1, Types, ServerAt DEF WriteLocals, WriteSteps, Fields
    <3> QED
      BY <2>1, <3>2, RangeOfAppend
  <2>4. [f EXCEPT !.write_log = list, !.looked_up = FALSE].vector_clock = f.vector_clock
    BY <1>1, <2>3, FieldsWithList, Zenon
  <2> QED
    BY <2>2, <2>4, SameClock
<1>3. CASE WriteStep(r)
  <2>1. PICK fields :
          /\ replica' = [replica EXCEPT ![r] = fields]
          /\ \/ fields = f
             \/ fields = [f EXCEPT !.kv_store[me.entry.key] = me.entry.value]
             \/ fields = [f EXCEPT !.accept_time = me.loaded + 1]
             \/ /\ fields = [f EXCEPT !.vector_clock[r] = me.loaded, !.clock_keys = @ \cup {r}]
                /\ me.at = "own_clock"
    BY <1>3 DEF WriteStep, ServerStep
  <2>2. CASE /\ fields = [f EXCEPT !.vector_clock[r] = me.loaded, !.clock_keys = @ \cup {r}]
             /\ me.at = "own_clock"
    <3>1. fields.vector_clock = [f.vector_clock EXCEPT ![r] = me.loaded]
      BY <1>1, <2>2 DEF Fields
    <3>2. replica'[r] = fields /\ \A q \in Servers \ {r} : replica'[q] = replica[q]
      BY <2>1 DEF ThreadInv, ThreadTypeOK
    <3> QED
      BY <2>2, <3>1, <3>2 DEF KeyAssigned
  <2>3. CASE \/ fields = f
             \/ fields = [f EXCEPT !.kv_store[me.entry.key] = me.entry.value]
             \/ fields = [f EXCEPT !.accept_time = me.loaded + 1]
    <3>1. fields.vector_clock = f.vector_clock
      BY <1>1, <2>3 DEF Fields
    <3> QED
      BY <2>1, <3>1, SameClock
  <2> QED
    BY <2>1, <2>2, <2>3
<1>4. ASSUME NEW q \in Servers, ScanLog(r, q)
      PROVE  replica' = [replica EXCEPT ![r] = f]
  BY <1>4 DEF ScanLog, ServerStep
<1>5. CASE BeginCopy(r)
  BY <1>5, SameClock DEF BeginCopy, ServerStep
<1>6. CASE Answer(r)
  <2>1. replica' = [replica EXCEPT ![r] = f]
    BY <1>6 DEF Answer, ThreadInv, ThreadTypeOK
  <2> QED
    BY <2>1, SameClock
<1> QED
  BY <1>2, <1>3, <1>4, <1>5, <1>6, SameClock DEF ServerThread

(* The merge assigns the larger of what it loaded and the answer's. *)
LEMMA MergeClocksOfOne ==
  ASSUME ThreadInv, NEW r \in Servers, Merge(r)
  PROVE  \/ SameClocks
         \/ LET me == periodic[r] IN
            /\ me.at = "clock_store" /\ me \in PullLocals
            /\ KeyAssigned(r, me.key, Maximum(me.loaded, me.clock[me.key]))
<1> DEFINE me == periodic[r]
           f  == replica[r]
<1>1. me.at \in PullSteps
  BY DEF Merge, MergeLog, RebuildStore, LoadClock, StoreClock, MergeTime, PeriodicStep,
         PullSteps, LockSteps
<1>2. /\ me \in PullLocals /\ f \in Fields /\ f.vector_clock \in VectorClocks
  BY <1>1, PullerTypes DEF Fields
<1>3. /\ me.new_writes \in Seq(Entries) /\ me.log \in Seq(Entries)
      /\ me.log \o me.new_writes \in Seq(Entries)
  BY <1>2, RangeOfConcat DEF PullLocals
<1>4. CASE StoreClock(r)
  <2>1. PICK fields :
          fields = [f EXCEPT !.vector_clock[me.key] = Maximum(me.loaded, me.clock[me.key])]
    OBVIOUS
  <2>2. replica' = [replica EXCEPT ![r] = fields] /\ me.at = "clock_store"
    BY <1>4, <2>1 DEF StoreClock, PeriodicStep
  <2>3. fields.vector_clock =
          [f.vector_clock EXCEPT ![me.key] = Maximum(me.loaded, me.clock[me.key])]
    BY <1>2, <2>1 DEF Fields
  <2>4. replica'[r] = fields /\ \A q \in Servers \ {r} : replica'[q] = replica[q]
    BY <2>2 DEF ThreadInv, ThreadTypeOK
  <2> QED
    BY <1>2, <2>2, <2>3, <2>4 DEF KeyAssigned
<1>5. ASSUME NEW list \in Seq(Entries),
             replica' = [replica EXCEPT ![r] = [f EXCEPT !.write_log = list, !.looked_up = FALSE]]
      PROVE  SameClocks
  <2>1. [f EXCEPT !.write_log = list, !.looked_up = FALSE].vector_clock = f.vector_clock
    BY <1>2, FieldsWithList, Zenon
  <2> QED
    BY <1>5, <2>1, SameClock
<1>6. CASE MergeLog(r)
  <2>1. \/ replica' = [replica EXCEPT ![r] = f]
        \/ replica' = [replica EXCEPT ![r] =
             [f EXCEPT !.write_log = me.log \o me.new_writes, !.looked_up = FALSE]]
        \/ replica' = [replica EXCEPT ![r] =
             [f EXCEPT !.write_log = me.log, !.looked_up = FALSE]]
    BY <1>6, Zenon DEF MergeLog, PeriodicStep
  <2> QED
    BY <1>3, <1>5, <2>1, SameClock
<1>7. CASE RebuildStore(r) \/ (\E s \in Servers : LoadClock(r, s)) \/ MergeTime(r)
  <2>1. PICK fields :
          /\ replica' = [replica EXCEPT ![r] = fields]
          /\ \/ fields = f
             \/ fields = [f EXCEPT !.kv_store = me.store]
             \/ \E s \in Servers : fields = [f EXCEPT !.clock_keys = @ \cup {s}]
             \/ fields = [f EXCEPT !.accept_time = Maximum(me.loaded, me.time)]
    BY <1>7 DEF RebuildStore, LoadClock, MergeTime, PeriodicStep
  <2>2. fields.vector_clock = f.vector_clock
    BY <1>2, <2>1 DEF Fields
  <2> QED
    BY <2>1, <2>2, SameClock
<1> QED
  BY <1>4, <1>6, <1>7 DEF Merge

(* Up to the merge the periodic thread assigns nothing. *)
LEMMA PeriodicThreadClocks ==
  ASSUME ThreadInv, NEW r \in Servers, PeriodicThread(r)
  PROVE  \/ SameClocks
         \/ LET me == periodic[r] IN
            /\ me.at = "clock_store" /\ me \in PullLocals
            /\ KeyAssigned(r, me.key, Maximum(me.loaded, me.clock[me.key]))
<1>1. CASE Merge(r)
  BY <1>1, MergeClocksOfOne
<1>2. ASSUME ~ Merge(r)
      PROVE  replica' = [replica EXCEPT ![r] = replica[r]]
  BY <1>2 DEF PeriodicThread, BeginRound, EndRound, SendRequest, NextPeer, PeriodicStep
<1> QED
  BY <1>1, <1>2, SameClock

(***************************************************************************)
(* stabilize() (replica_server.py:185-186) never makes a replica forget    *)
(* what it knows of another one, in any topology and whatever the threads  *)
(* do to each other in the middle of a call or a merge.                    *)
(***************************************************************************)
THEOREM OthersKnowledgeGrows == Spec => KnowledgeOfOthersGrows
<1> DEFINE Step == [\A r \in Servers : \A s \in Servers \ {r} :
                     replica[r].vector_clock[s] <= replica'[r].vector_clock[s]]_vars
<1>1. ThreadInv /\ [Next]_vars => Step
  <2> SUFFICES ASSUME ThreadInv, Next, NEW q \in Servers, NEW s \in Servers \ {q}
               PROVE  replica[q].vector_clock[s] <= replica'[q].vector_clock[s]
    OBVIOUS
  <2>1. \A r \in Servers : replica[r].vector_clock \in VectorClocks
    BY Types DEF Fields
  <2>2. CASE SameClocks
    BY <2>1, <2>2 DEF SameClocks, VectorClocks
  <2>3. ASSUME NEW r \in Servers, KeyAssigned(r, r, server[r].loaded)
        PROVE  replica[q].vector_clock[s] <= replica'[q].vector_clock[s]
    BY <2>1, <2>3 DEF KeyAssigned, VectorClocks
  <2>4. ASSUME NEW r \in Servers, NEW me, me = periodic[r],
               me.at = "clock_store", me \in PullLocals,
               KeyAssigned(r, me.key, Maximum(me.loaded, me.clock[me.key]))
        PROVE  replica[q].vector_clock[s] <= replica'[q].vector_clock[s]
    <3>1. me.key # r => me.loaded = replica[r].vector_clock[me.key]
      BY <2>4 DEF ThreadInv, LoadedIsCurrent
    <3>2. me.key \in Servers /\ me.loaded \in Nat /\ me.clock[me.key] \in Nat
      BY <2>4 DEF PullLocals, VectorClocks
    <3>3. me.loaded <= Maximum(me.loaded, me.clock[me.key])
      BY <3>2 DEF Maximum
    <3> QED
      BY <2>1, <2>4, <3>1, <3>2, <3>3 DEF KeyAssigned, VectorClocks
  <2> QED
    BY <2>2, <2>3, <2>4, CallSameClocks, ServerThreadClocks, PeriodicThreadClocks DEF Next
<1> QED
  BY <1>1, InitThreadInv, NextThreadInv, PTL DEF Spec, KnowledgeOfOthersGrows

-----------------------------------------------------------------------------
(* An entry is held by a log that has it or one that overwrites it. *)
Held(w, log) == w \in log \/ Superseded(w, log)

(* A store is as fresh as an entry: it has its value or a later one's. *)
Fresh(w, store, E) ==
  \E x \in E : x.key = w.key /\ x.value = store[w.key] /\ (x = w \/ Before(w, x))

(* What a clock covers of the entries made so far is held by a log. *)
Keeps(clock, log, E) == \A w \in E : Covers(clock, w) => Held(w, log)

(* The entries a clock covers. *)
CoveredBy(clock, E) == {w \in E : Covers(clock, w)}

(* A store is as fresh as all entries of a log. *)
AllFresh(log, store, E) == \A w \in log : Fresh(w, store, E)

(***************************************************************************)
(* At every access: a log has only entries write() made, no clock is ahead *)
(* of the times the replicas are at, and what the clock covers is held;    *)
(* and so is all the replica has written itself.                           *)
(***************************************************************************)
CoreOK(r, f, E, T) ==
  LET log == Range(f.write_log) IN
  /\ log \subseteq E
  /\ ClockLeq(f.vector_clock, T)
  /\ Keeps(f.vector_clock, log, E)
  /\ \A w \in E : w.replica_id = r => Held(w, log)

(***************************************************************************)
(* The entry that write() has appended, before it is in the store or       *)
(* before the accept time has left its stamp.                              *)
(***************************************************************************)
InHand(srv, w) == srv.at \in {"store", "load_time", "store_time"} /\ w = srv.entry

(***************************************************************************)
(* Where write() is: what it has stamped and loaded is still current, and  *)
(* the list it looked up is still the log, as nothing merges meanwhile.    *)
(***************************************************************************)
WriteOK(r, srv, f, E) ==
  /\ srv.at \in {"stamp", "append"} => f.looked_up
  /\ srv.at \in WriteSteps => srv.entry.replica_id = r
  /\ srv.at \in {"append", "store", "load_time", "store_time"} =>
       srv.entry.accept_time = f.accept_time
  /\ srv.at \in {"store_time", "own_clock"} => srv.loaded = f.accept_time
  /\ srv.at = "store" => srv.entry \in Range(f.write_log)
  /\ \A w \in E : w.replica_id = r => w.accept_time < f.accept_time \/ InHand(srv, w)

(***************************************************************************)
(* Outside the merge, entries in the log are older than the accept time    *)
(* and the store is as fresh as they are, except for the one in hand.      *)
(***************************************************************************)
SettledOK(srv, f, E) ==
  \A w \in Range(f.write_log) :
    /\ w.accept_time < f.accept_time \/ InHand(srv, w)
    /\ Fresh(w, f.kv_store, E) \/ (srv.at = "store" /\ w = srv.entry)

(***************************************************************************)
(* Where the merge is.  Before it has the lock, the answer's clock is made *)
(* up for by its entries and those the replica's own clock covers; from    *)
(* the swap on, by the log.  The store stays fresh enough for what the     *)
(* clock covers, and for all of the log once it is replayed.               *)
(***************************************************************************)
PullOK(me, f, E, T) ==
  LET new == Range(me.new_writes)
      log == Range(f.write_log)
  IN
  /\ ClockLeq(me.clock, T) /\ new \subseteq E
  /\ \A w \in new : w.accept_time < me.time
  /\ me.at # "answered" =>
       \A w \in log : w.accept_time < f.accept_time \/ w.accept_time < me.time
  /\ me.at = "answered" => Keeps(me.clock, CoveredBy(f.vector_clock, E) \cup new, E)
  /\ me.at \in {"prune_log", "swap"} =>
       Keeps(me.clock, log \cup new, E) /\ AllFresh(log, f.kv_store, E)
  /\ me.at = "swap" => /\ Range(me.log) \subseteq log
                       /\ \A w \in log : Held(w, Range(me.log) \cup new)
  /\ me.at \in {"sort", "assign", "replay", "store", "clock", "clock_store"} =>
       Keeps(me.clock, log, E)
  /\ me.at \in {"sort", "assign", "replay", "store"} =>
       \A w \in E : Covers(f.vector_clock, w) => Superseded(w, log) \/ Fresh(w, f.kv_store, E)
  /\ me.at = "assign" => Range(me.log) = log /\ Sorted(me.log)
  /\ me.at = "replay" => Sorted(f.write_log)
  /\ me.at = "store" => AllFresh(log, me.store, E)
  /\ me.at \in {"clock", "clock_store", "time_store"} => AllFresh(log, f.kv_store, E)
  /\ me.at = "clock_store" => me.loaded = f.vector_clock[me.key]
  /\ me.at = "time_store" => me.loaded = f.accept_time

(***************************************************************************)
(* One replica with fields f, its threads at srv and me, the entries made  *)
(* so far E and the accept times T of all replicas.                        *)
(***************************************************************************)
ReplicaOK(r, srv, me, f, E, T) ==
  /\ CoreOK(r, f, E, T)
  /\ WriteOK(r, srv, f, E)
  /\ me.at \notin LockSteps => SettledOK(srv, f, E)
  /\ me.at = "called" => ClockLeq(me.clock, f.vector_clock)
  /\ me.at \in PullSteps => PullOK(me, f, E, T)

(* Time goes on, and entries are made that no clock covers yet. *)
Later(E, T, E2, T2) ==
  /\ E2 \subseteq Entries /\ E \subseteq E2
  /\ T \in [Servers -> Nat] /\ T2 \in [Servers -> Nat] /\ ClockLeq(T, T2)
  /\ \A w \in E2 \ E : T[w.replica_id] <= w.accept_time

(* The order of the clocks is transitive. *)
LEMMA ClockLeqTransitive ==
  ASSUME NEW c \in VectorClocks, NEW d \in VectorClocks, NEW e \in VectorClocks,
         ClockLeq(c, d), ClockLeq(d, e)
  PROVE  ClockLeq(c, e)
<1> SUFFICES ASSUME NEW s \in Servers PROVE c[s] <= e[s]
  BY DEF ClockLeq
<1>1. c[s] \in Nat /\ d[s] \in Nat /\ e[s] \in Nat
  BY DEF VectorClocks
<1>2. c[s] <= d[s] /\ d[s] <= e[s]
  BY DEF ClockLeq
<1> QED
  BY <1>1, <1>2

(***************************************************************************)
(* A clock that no accept time was behind covers none of the new entries.  *)
(***************************************************************************)
LEMMA LaterClocks ==
  ASSUME NEW E, NEW T, NEW E2, NEW T2, Later(E, T, E2, T2),
         NEW c \in VectorClocks, ClockLeq(c, T)
  PROVE  /\ ClockLeq(c, T2)
         /\ \A w \in E2 : Covers(c, w) => w \in E
         /\ \A log : Keeps(c, log, E) => Keeps(c, log, E2)
         /\ CoveredBy(c, E2) = CoveredBy(c, E)
<1>1. ClockLeq(c, T2)
  BY ClockLeqTransitive DEF VectorClocks, Later
<1>2. ASSUME NEW w \in E2, Covers(c, w) PROVE w \in E
  <2> SUFFICES ASSUME w \notin E PROVE FALSE
    OBVIOUS
  <2>1. T[w.replica_id] <= w.accept_time /\ w.accept_time \in Nat /\ w.replica_id \in Servers
    BY EntryNumbers DEF Later
  <2> QED
    BY <1>2, <2>1 DEF ClockLeq, VectorClocks, Covers, Later
<1>3. \A log : Keeps(c, log, E) => Keeps(c, log, E2)
  BY <1>2 DEF Keeps
<1>4. CoveredBy(c, E2) = CoveredBy(c, E)
  BY <1>2 DEF CoveredBy, Later
<1> QED
  BY <1>1, <1>2, <1>3, <1>4

(* A fresh store stays fresh when entries are made. *)
LEMMA FreshLater ==
  ASSUME NEW E, NEW T, NEW E2, NEW T2, Later(E, T, E2, T2)
  PROVE  \A w, store : Fresh(w, store, E) => Fresh(w, store, E2)
  BY DEF Later, Fresh

(* A merge goes on when entries are made elsewhere. *)
LEMMA PullLater ==
  ASSUME NEW E, NEW T, NEW E2, NEW T2, Later(E, T, E2, T2),
         NEW f \in Fields, NEW me \in PullLocals,
         ClockLeq(f.vector_clock, T), PullOK(me, f, E, T)
  PROVE  PullOK(me, f, E2, T2)
<1> DEFINE new == Range(me.new_writes)
           log == Range(f.write_log)
           vc == f.vector_clock
<1>1. me.clock \in VectorClocks /\ ClockLeq(me.clock, T) /\ vc \in VectorClocks
  BY DEF PullLocals, Fields, PullOK
<1>2. /\ ClockLeq(me.clock, T2)
      /\ \A l : Keeps(me.clock, l, E) => Keeps(me.clock, l, E2)
      /\ CoveredBy(vc, E2) = CoveredBy(vc, E)
      /\ \A w \in E2 : Covers(vc, w) => w \in E
  BY <1>1, LaterClocks
<1>3. \A w, store : Fresh(w, store, E) => Fresh(w, store, E2)
  BY FreshLater
<1>4. new \subseteq E2 /\ \A w \in new : w.accept_time < me.time
  BY DEF PullOK, Later
<1>5. me.at = "answered" => Keeps(me.clock, CoveredBy(vc, E2) \cup new, E2)
  BY <1>2 DEF PullOK
<1>6. /\ me.at \in {"prune_log", "swap"} =>
           Keeps(me.clock, log \cup new, E2) /\ AllFresh(log, f.kv_store, E2)
      /\ me.at \in {"sort", "assign", "replay", "store", "clock", "clock_store"} =>
           Keeps(me.clock, log, E2)
  BY <1>2, <1>3 DEF PullOK, AllFresh
<1>7. me.at \in {"sort", "assign", "replay", "store"} =>
        \A w \in E2 : Covers(vc, w) => Superseded(w, log) \/ Fresh(w, f.kv_store, E2)
  BY <1>2, <1>3 DEF PullOK
<1>8. /\ me.at = "store" => AllFresh(log, me.store, E2)
      /\ me.at \in {"clock", "clock_store", "time_store"} => AllFresh(log, f.kv_store, E2)
  BY <1>3 DEF PullOK, AllFresh
<1> QED
  BY <1>2, <1>4, <1>5, <1>6, <1>7, <1>8 DEF PullOK

(* What the other replicas do changes nothing for r. *)
LEMMA OthersGoOn ==
  ASSUME NEW E, NEW T, NEW E2, NEW T2, Later(E, T, E2, T2),
         NEW r \in Servers, \A w \in E2 \ E : w.replica_id # r,
         NEW f \in Fields, NEW me \in PeriodicLocals, NEW srv,
         ReplicaOK(r, srv, me, f, E, T)
  PROVE  ReplicaOK(r, srv, me, f, E2, T2)
<1>1. f.vector_clock \in VectorClocks /\ ClockLeq(f.vector_clock, T)
  BY DEF Fields, ReplicaOK, CoreOK
<1>2. CoreOK(r, f, E2, T2)
  BY <1>1, LaterClocks DEF ReplicaOK, CoreOK, Later
<1>3. WriteOK(r, srv, f, E2)
  BY DEF ReplicaOK, WriteOK, Later
<1>4. me.at \notin LockSteps => SettledOK(srv, f, E2)
  BY FreshLater DEF ReplicaOK, SettledOK
<1>5. me.at \in PullSteps => PullOK(me, f, E2, T2)
  BY <1>1, PullLater, LocalsAt DEF ReplicaOK
<1> QED
  BY <1>2, <1>3, <1>4, <1>5 DEF ReplicaOK

-----------------------------------------------------------------------------
(* The parts that do not look at the server thread. *)
LEMMA SameData ==
  ASSUME NEW r, NEW me, NEW f, NEW E, NEW T, NEW f2,
         f2.write_log = f.write_log, f2.vector_clock = f.vector_clock,
         f2.accept_time = f.accept_time, f2.kv_store = f.kv_store
  PROVE  /\ CoreOK(r, f, E, T) => CoreOK(r, f2, E, T)
         /\ PullOK(me, f, E, T) => PullOK(me, f2, E, T)
<1>1. CoreOK(r, f, E, T) => CoreOK(r, f2, E, T)
  BY DEF CoreOK
<1>2. PullOK(me, f, E, T) => PullOK(me, f2, E, T)
  BY DEF PullOK
<1> QED
  BY <1>1, <1>2

(* A step of the server thread that assigns nothing but looked_up. *)
LEMMA QuietStep ==
  ASSUME NEW r, NEW srv, NEW me, NEW f, NEW E, NEW T, ReplicaOK(r, srv, me, f, E, T),
         NEW srv2, NEW f2,
         f2.write_log = f.write_log, f2.vector_clock = f.vector_clock,
         f2.accept_time = f.accept_time, f2.kv_store = f.kv_store,
         srv.at \notin WriteSteps,
         \/ srv2.at \notin WriteSteps
         \/ srv2.at = "stamp" /\ srv2.entry.replica_id = r /\ f2.looked_up
  PROVE  ReplicaOK(r, srv2, me, f2, E, T)
<1>1. CoreOK(r, f2, E, T) /\ (me.at \in PullSteps => PullOK(me, f2, E, T))
  BY SameData DEF ReplicaOK
<1>2. WriteOK(r, srv2, f2, E)
  BY DEF ReplicaOK, WriteOK, WriteSteps, InHand
<1>3. me.at \notin LockSteps => SettledOK(srv2, f2, E)
  BY DEF ReplicaOK, SettledOK, WriteSteps, InHand
<1> QED
  BY <1>1, <1>2, <1>3 DEF ReplicaOK

(* write() loads the accept time as the stamp. *)
LEMMA StampStep ==
  ASSUME NEW r, NEW srv \in WriteLocals, NEW me, NEW f, NEW E, NEW T,
         ReplicaOK(r, srv, me, f, E, T), NEW srv2,
         srv.at = "stamp", srv2.at = "append",
         srv2.entry = [srv.entry EXCEPT !.accept_time = f.accept_time]
  PROVE  ReplicaOK(r, srv2, me, f, E, T)
<1>1. srv2.entry.accept_time = f.accept_time /\ srv2.entry.replica_id = srv.entry.replica_id
  BY DEF WriteLocals, Entries
<1>2. WriteOK(r, srv2, f, E)
  BY <1>1 DEF ReplicaOK, WriteOK, WriteSteps, InHand
<1>3. me.at \notin LockSteps => SettledOK(srv2, f, E)
  BY DEF ReplicaOK, SettledOK, InHand
<1> QED
  BY <1>2, <1>3 DEF ReplicaOK

(* write() loads the accept time, to count up or to assign to the clock. *)
LEMMA LoadTimeStep ==
  ASSUME NEW r, NEW srv, NEW me, NEW f, NEW E, NEW T,
         ReplicaOK(r, srv, me, f, E, T), NEW srv2,
         \/ srv.at = "load_time" /\ srv2.at = "store_time"
         \/ srv.at = "own_time" /\ srv2.at = "own_clock",
         srv2.entry = srv.entry, srv2.loaded = f.accept_time
  PROVE  ReplicaOK(r, srv2, me, f, E, T)
<1>1. WriteOK(r, srv2, f, E)
  BY DEF ReplicaOK, WriteOK, WriteSteps, InHand
<1>2. me.at \notin LockSteps => SettledOK(srv2, f, E)
  BY DEF ReplicaOK, SettledOK, InHand
<1> QED
  BY <1>1, <1>2 DEF ReplicaOK

(* An answer that waits for the lock stays good while the clock grows. *)
LEMMA AnsweredGoesOn ==
  ASSUME NEW E, NEW T, NEW E2, NEW T2, Later(E, T, E2, T2),
         NEW f \in Fields, NEW f2, f2.vector_clock \in VectorClocks,
         ClockLeq(f.vector_clock, f2.vector_clock),
         NEW me \in PullLocals, me.at = "answered", PullOK(me, f, E, T)
  PROVE  PullOK(me, f2, E2, T2)
<1> DEFINE new == Range(me.new_writes)
<1>1. me.clock \in VectorClocks /\ ClockLeq(me.clock, T)
  BY DEF PullLocals, PullOK
<1>2. ClockLeq(me.clock, T2) /\ new \subseteq E2
  BY <1>1, LaterClocks DEF PullOK, Later
<1>3. CoveredBy(f.vector_clock, E) \subseteq CoveredBy(f2.vector_clock, E2)
  <2> SUFFICES ASSUME NEW w \in E, Covers(f.vector_clock, w)
               PROVE  w \in E2 /\ Covers(f2.vector_clock, w)
    BY DEF CoveredBy
  <2>1. w \in E2 /\ w.accept_time \in Nat /\ w.replica_id \in Servers
    BY EntryNumbers DEF Later
  <2> QED
    BY <2>1 DEF Covers, ClockLeq, VectorClocks, Fields
<1>4. Keeps(me.clock, CoveredBy(f.vector_clock, E) \cup new, E2)
  BY <1>1, LaterClocks DEF PullOK
<1>5. Keeps(me.clock, CoveredBy(f2.vector_clock, E2) \cup new, E2)
  BY <1>3, <1>4 DEF Keeps, Held, Superseded
<1> QED
  BY <1>2, <1>5 DEF PullOK

(* The entry goes on the log. *)
Appends(me, f, E, me2, f2, E2) ==
  /\ me \in WriteLocals /\ f \in Fields /\ E \in SUBSET Entries
  /\ E \subseteq E2 /\ me.entry \in E2 /\ E2 \subseteq E \cup {me.entry}
  /\ me.at = "append" /\ me2.at = "store" /\ me2.entry = me.entry
  /\ f2.write_log = Append(f.write_log, me.entry)
  /\ f2.vector_clock = f.vector_clock /\ f2.accept_time = f.accept_time
  /\ f2.kv_store = f.kv_store

(* write() appends: the stamp is new, no clock covers it. *)
LEMMA AppendStep ==
  ASSUME NEW r \in Servers, NEW srv, NEW me \in PeriodicLocals, NEW f, NEW E,
         NEW T \in [Servers -> Nat], T[r] = f.accept_time,
         ReplicaOK(r, srv, me, f, E, T), me.at \notin LockSteps,
         NEW srv2, NEW f2, NEW E2, Appends(srv, f, E, srv2, f2, E2),
         UniquelyStamped(E)
  PROVE  /\ ReplicaOK(r, srv2, me, f2, E2, T)
         /\ UniquelyStamped(E2)
         /\ Later(E, T, E2, T)
         /\ srv.entry.replica_id = r
<1> USE DEF Appends
<1> DEFINE e == srv.entry
           log == Range(f.write_log)
<1>1. /\ e.replica_id = r /\ e.accept_time = f.accept_time
      /\ \A w \in E : w.replica_id = r => w.accept_time < f.accept_time
      /\ \A w \in log : w.accept_time < f.accept_time /\ Fresh(w, f.kv_store, E)
  BY DEF ReplicaOK, WriteOK, SettledOK, WriteSteps, InHand
<1>2. e \in Entries /\ f.accept_time \in Nat /\ f.vector_clock \in VectorClocks
  BY DEF WriteLocals, Fields
<1>3. Later(E, T, E2, T)
  <2>1. ClockLeq(T, T)
    BY DEF ClockLeq
  <2> QED
    BY <1>1, <1>2, <2>1 DEF Later
<1>4. Range(f2.write_log) = log \cup {e}
  BY <1>2, RangeOfAppend DEF Fields
<1>5. UniquelyStamped(E2)
  <2>1. \A w \in E : w.replica_id = r => w.accept_time < e.accept_time /\ w.accept_time \in Nat
    BY <1>1, EntryNumbers
  <2> QED
    BY <1>1, <1>2, <2>1 DEF UniquelyStamped
<1>6. \A w, store : Fresh(w, store, E) => Fresh(w, store, E2)
  BY <1>3, FreshLater
<1>7. CoreOK(r, f2, E2, T)
  <2>1. CoreOK(r, f, E, T)
    BY DEF ReplicaOK
  <2>2. \A w : Held(w, log) => Held(w, Range(f2.write_log))
    BY <1>4 DEF Held, Superseded
  <2>3. Keeps(f.vector_clock, log, E2)
    BY <1>2, <1>3, <2>1, LaterClocks DEF CoreOK
  <2>4. Keeps(f2.vector_clock, Range(f2.write_log), E2)
    BY <2>2, <2>3 DEF Keeps
  <2>5. \A w \in E2 : w.replica_id = r => Held(w, Range(f2.write_log))
    BY <1>4, <2>1, <2>2 DEF CoreOK, Held
  <2>6. Range(f2.write_log) \subseteq E2
    BY <1>4, <2>1 DEF CoreOK
  <2> QED
    BY <2>1, <2>4, <2>5, <2>6 DEF CoreOK
<1>8. WriteOK(r, srv2, f2, E2)
  BY <1>1, <1>4 DEF WriteOK, WriteSteps, InHand
<1>9. SettledOK(srv2, f2, E2)
  BY <1>1, <1>4, <1>6 DEF SettledOK, InHand
<1>10. me.at \in PullSteps => PullOK(me, f2, E2, T)
  <2> SUFFICES ASSUME me.at \in PullSteps PROVE PullOK(me, f2, E2, T)
    OBVIOUS
  <2>1. me.at = "answered" /\ me \in PullLocals /\ PullOK(me, f, E, T)
    BY LocalsAt DEF PullSteps, ReplicaOK
  <2>2. ClockLeq(f.vector_clock, f2.vector_clock)
    BY <1>2 DEF ClockLeq, VectorClocks
  <2> QED
    BY <1>2, <1>3, <2>1, <2>2, AnsweredGoesOn
<1>11. me.at = "called" => ClockLeq(me.clock, f2.vector_clock)
  BY DEF ReplicaOK
<1> QED
  BY <1>1, <1>3, <1>5, <1>7, <1>8, <1>9, <1>10, <1>11 DEF ReplicaOK

(* write() assigns the key in the store. *)
LEMMA StoreStep ==
  ASSUME NEW r, NEW srv \in WriteLocals, NEW me \in PeriodicLocals, NEW f \in Fields,
         NEW E \in SUBSET Entries, NEW T,
         ReplicaOK(r, srv, me, f, E, T), me.at \notin LockSteps,
         NEW srv2, NEW f2,
         srv.at = "store", srv2.at = "load_time", srv2.entry = srv.entry,
         f2.kv_store = [f.kv_store EXCEPT ![srv.entry.key] = srv.entry.value],
         f2.write_log = f.write_log, f2.vector_clock = f.vector_clock,
         f2.accept_time = f.accept_time
  PROVE  ReplicaOK(r, srv2, me, f2, E, T)
<1> DEFINE e == srv.entry
           log == Range(f.write_log)
<1>1. /\ log \subseteq E /\ e \in log /\ e.accept_time = f.accept_time
      /\ \A w \in log : w.accept_time < f.accept_time \/ w = e
      /\ \A w \in log : w = e \/ Fresh(w, f.kv_store, E)
  BY DEF ReplicaOK, CoreOK, WriteOK, SettledOK, InHand
<1>2. e \in Entries /\ f.kv_store \in Stores /\ e.key \in Keys
  BY DEF WriteLocals, Fields, Entries
<1>3. ASSUME NEW w \in log PROVE Fresh(w, f2.kv_store, E)
  <2>1. w.key \in Keys
    BY <1>1 DEF Entries
  <2>2. CASE w.key = e.key
    <3>1. f2.kv_store[w.key] = e.value
      BY <1>2, <2>2 DEF Stores
    <3>2. w = e \/ Before(w, e)
      BY <1>1 DEF Before
    <3> QED
      BY <1>1, <2>2, <3>1, <3>2 DEF Fresh
  <2>3. CASE w.key # e.key
    <3>1. f2.kv_store[w.key] = f.kv_store[w.key] /\ w # e
      BY <1>2, <2>1, <2>3 DEF Stores
    <3> QED
      BY <1>1, <3>1 DEF Fresh
  <2> QED
    BY <2>2, <2>3
<1> HIDE DEF log, e
<1>4. CoreOK(r, f2, E, T)
  BY DEF ReplicaOK, CoreOK
<1>5. WriteOK(r, srv2, f2, E)
  BY DEF ReplicaOK, WriteOK, WriteSteps, InHand
<1>6. SettledOK(srv2, f2, E)
  BY <1>1, <1>3 DEF SettledOK, InHand, log, e
<1>7. me.at \in PullSteps => PullOK(me, f2, E, T)
  <2> SUFFICES ASSUME me.at \in PullSteps PROVE PullOK(me, f2, E, T)
    OBVIOUS
  <2>1. me.at = "answered" /\ PullOK(me, f, E, T)
    BY DEF PullSteps, ReplicaOK
  <2> QED
    BY <2>1 DEF PullOK
<1> QED
  BY <1>4, <1>5, <1>6, <1>7 DEF ReplicaOK

(***************************************************************************)
(* write() assigns the accept time, which has not moved since it was       *)
(* loaded.                                                                 *)
(***************************************************************************)
LEMMA StoreTimeStep ==
  ASSUME NEW r, NEW srv, NEW me \in PeriodicLocals, NEW f \in Fields,
         NEW E \in SUBSET Entries, NEW T, NEW T2, Later(E, T, E, T2),
         ReplicaOK(r, srv, me, f, E, T), me.at \notin LockSteps,
         NEW srv2, NEW f2,
         srv.at = "store_time", srv2.at = "own_time", srv2.entry = srv.entry,
         f2.accept_time = srv.loaded + 1,
         f2.write_log = f.write_log, f2.vector_clock = f.vector_clock,
         f2.kv_store = f.kv_store
  PROVE  ReplicaOK(r, srv2, me, f2, E, T2) /\ f.accept_time <= f2.accept_time
<1> DEFINE log == Range(f.write_log)
<1>1. srv.loaded = f.accept_time /\ f.accept_time \in Nat /\ f.vector_clock \in VectorClocks
  BY DEF ReplicaOK, WriteOK, Fields
<1>2. \A w \in E : w.accept_time \in Nat
  BY EntryNumbers
<1>3. log \subseteq E /\ ClockLeq(f.vector_clock, T)
  BY DEF ReplicaOK, CoreOK
<1>4. \A w \in E : w.accept_time < f.accept_time \/ InHand(srv, w) => w.accept_time < f2.accept_time
  BY <1>1, <1>2 DEF ReplicaOK, WriteOK, InHand
<1>5. CoreOK(r, f2, E, T2)
  BY <1>1, <1>3, LaterClocks DEF ReplicaOK, CoreOK
<1>6. WriteOK(r, srv2, f2, E)
  BY <1>4 DEF ReplicaOK, WriteOK, WriteSteps
<1>7. SettledOK(srv2, f2, E)
  BY <1>3, <1>4 DEF ReplicaOK, SettledOK
<1>8. me.at \in PullSteps => PullOK(me, f2, E, T2)
  <2> SUFFICES ASSUME me.at \in PullSteps PROVE PullOK(me, f2, E, T2)
    OBVIOUS
  <2>1. me.at = "answered" /\ me \in PullLocals /\ PullOK(me, f, E, T)
    BY LocalsAt DEF PullSteps, ReplicaOK
  <2>2. ClockLeq(f.vector_clock, f2.vector_clock)
    BY <1>1 DEF ClockLeq, VectorClocks
  <2> QED
    BY <1>1, <2>1, <2>2, AnsweredGoesOn
<1>9. me.at = "called" => ClockLeq(me.clock, f2.vector_clock)
  BY DEF ReplicaOK
<1> QED
  BY <1>1, <1>5, <1>6, <1>7, <1>8, <1>9 DEF ReplicaOK

(***************************************************************************)
(* write() assigns the replica's own key of the clock: all stamps below it *)
(* are in the log.                                                         *)
(***************************************************************************)
LEMMA OwnClockStep ==
  ASSUME NEW r \in Servers, NEW srv, NEW me \in PeriodicLocals, NEW f \in Fields,
         NEW E \in SUBSET Entries, NEW T, Later(E, T, E, T), T[r] = f.accept_time,
         ReplicaOK(r, srv, me, f, E, T), me.at \notin LockSteps,
         NEW srv2, NEW f2,
         srv.at = "own_clock", srv2.at = "idle",
         f2.vector_clock = [f.vector_clock EXCEPT ![r] = srv.loaded],
         f2.accept_time = f.accept_time, f2.write_log = f.write_log,
         f2.kv_store = f.kv_store
  PROVE  ReplicaOK(r, srv2, me, f2, E, T)
<1> DEFINE log == Range(f.write_log)
           vc  == f.vector_clock
           vc2 == f2.vector_clock
<1>1. /\ srv.loaded = f.accept_time /\ f.accept_time \in Nat /\ vc \in VectorClocks
      /\ ClockLeq(vc, T) /\ T \in [Servers -> Nat]
  BY DEF ReplicaOK, CoreOK, WriteOK, Fields, Later
<1>2. vc2 \in VectorClocks /\ vc2[r] = T[r] /\ \A s \in Servers : s # r => vc2[s] = vc[s]
  BY <1>1 DEF VectorClocks
<1>3. ClockLeq(vc2, T) /\ ClockLeq(vc, vc2)
  BY <1>1, <1>2 DEF ClockLeq, VectorClocks
<1>4. CoreOK(r, f2, E, T)
  <2>1. CoreOK(r, f, E, T)
    BY DEF ReplicaOK
  <2>2. ASSUME NEW w \in E, Covers(vc2, w) PROVE Held(w, log)
    <3>1. w.replica_id \in Servers
      BY EntryNumbers
    <3>2. w.replica_id = r \/ Covers(vc, w)
      BY <1>2, <2>2, <3>1 DEF Covers
    <3> QED
      BY <2>1, <3>2 DEF CoreOK, Keeps
  <2> QED
    BY <1>3, <2>1, <2>2 DEF CoreOK, Keeps
<1>5. WriteOK(r, srv2, f2, E)
  BY DEF ReplicaOK, WriteOK, WriteSteps, InHand
<1>6. SettledOK(srv2, f2, E)
  BY DEF ReplicaOK, SettledOK, InHand
<1>7. me.at \in PullSteps => PullOK(me, f2, E, T)
  <2> SUFFICES ASSUME me.at \in PullSteps PROVE PullOK(me, f2, E, T)
    OBVIOUS
  <2>1. me.at = "answered" /\ me \in PullLocals /\ PullOK(me, f, E, T)
    BY LocalsAt DEF PullSteps, ReplicaOK
  <2> QED
    BY <1>2, <1>3, <2>1, AnsweredGoesOn
<1>8. me.at = "called" => ClockLeq(me.clock, f2.vector_clock)
  <2> SUFFICES ASSUME me.at = "called" PROVE ClockLeq(me.clock, vc2)
    OBVIOUS
  <2>1. me.clock \in VectorClocks /\ ClockLeq(me.clock, vc)
    BY LocalsAt DEF AskLocals, ReplicaOK
  <2> QED
    BY <1>1, <1>2, <1>3, <2>1, ClockLeqTransitive
<1> QED
  BY <1>4, <1>5, <1>6, <1>7, <1>8 DEF ReplicaOK

-----------------------------------------------------------------------------
(* An entry held by a log is held by one that holds all of that log. *)
LEMMA HeldTransitive ==
  ASSUME NEW log \in SUBSET Entries, NEW log2 \in SUBSET Entries,
         \A x \in log : Held(x, log2), NEW w \in Entries
  PROVE  /\ Superseded(w, log) => Superseded(w, log2)
         /\ Held(w, log) => Held(w, log2)
<1>1. ASSUME Superseded(w, log) PROVE Superseded(w, log2)
  <2>1. PICK x \in log : Overwrites(x, w)
    BY <1>1 DEF Superseded
  <2>2. CASE x \in log2
    BY <2>1, <2>2 DEF Superseded
  <2>3. CASE x \notin log2
    <3>1. PICK y \in log2 : Overwrites(y, x)
      BY <2>3 DEF Held, Superseded
    <3>2. Overwrites(y, w)
      BY <2>1, <3>1, OverwritesTransitive
    <3> QED
      BY <3>1, <3>2 DEF Superseded
  <2> QED
    BY <2>2, <2>3
<1> QED
  BY <1>1 DEF Held

(* So is what a clock covers. *)
LEMMA KeepsCarried ==
  ASSUME NEW E \in SUBSET Entries, NEW log \in SUBSET Entries, NEW log2 \in SUBSET Entries,
         \A x \in log : Held(x, log2)
  PROVE  \A clock : Keeps(clock, log, E) => Keeps(clock, log2, E)
<1>1. ASSUME NEW w \in E PROVE Held(w, log) => Held(w, log2)
  BY HeldTransitive
<1> QED
  BY <1>1 DEF Keeps

(* A key of a sorted list has the value of the newest entry for it. *)
LEMMA ReplayFresh ==
  ASSUME NEW E \in SUBSET Entries, UniquelyStamped(E), NEW log \in Seq(Entries),
         Range(log) \subseteq E, Sorted(log), NEW w \in Range(log)
  PROVE  Fresh(w, ReplayList(log), E)
<1>1. PICK j \in DOMAIN log : w = log[j]
  BY DEF Range
<1>2. w \in Entries /\ w.key \in Keys
  BY DEF Entries
<1>3. j \in OnList(log, w.key)
  BY <1>1 DEF OnList
<1>4. PICK i \in OnList(log, w.key) :
        LastOnList(log, w.key) = log[i] /\ \A n \in OnList(log, w.key) : n <= i
  BY <1>3, LastOnListIsLast
<1>5. i \in DOMAIN log /\ log[i].key = w.key /\ j <= i
  BY <1>3, <1>4 DEF OnList
<1>6. log[i] \in E /\ log[i] \in Entries
  BY <1>5 DEF Range
<1>7. ReplayList(log)[w.key] = log[i].value
  BY <1>2, <1>3, <1>4 DEF ReplayList
<1>8. log[i] = w \/ Before(w, log[i])
  <2>1. DOMAIN log = 1 .. Len(log) /\ Len(log) \in Nat
    BY LenProperties
  <2>2. CASE j = i
    BY <1>1, <2>2
  <2>3. CASE j < i
    <3>1. ~ Before(log[i], w)
      BY <1>1, <1>5, <2>3 DEF Sorted
    <3>2. /\ w.accept_time \in Nat /\ log[i].accept_time \in Nat
          /\ w.replica_id \in Nat /\ log[i].replica_id \in Nat
      BY <1>2, <1>6, EntryNumbers
    <3>3. w.accept_time = log[i].accept_time /\ w.replica_id = log[i].replica_id
            => log[i] = w
      BY <1>6 DEF UniquelyStamped
    <3> QED
      BY <3>1, <3>2, <3>3 DEF Before
  <2> QED
    BY <1>1, <1>5, <2>1, <2>2, <2>3
<1> QED
  BY <1>5, <1>6, <1>7, <1>8 DEF Fresh

(* A replica in the middle of a merge. *)
Pulling(r, me, f, E, T) ==
  /\ me \in PullLocals /\ f \in Fields
  /\ E \in SUBSET Entries /\ UniquelyStamped(E) /\ T \in [Servers -> Nat]
  /\ CoreOK(r, f, E, T) /\ PullOK(me, f, E, T)

(* The types of what the merge works on. *)
LEMMA PullingTypes ==
  ASSUME NEW r, NEW me, NEW f, NEW E, NEW T, Pulling(r, me, f, E, T)
  PROVE  /\ me.new_writes \in Seq(Entries) /\ me.log \in Seq(Entries)
         /\ me.clock \in VectorClocks /\ me.store \in Stores /\ me.key \in Servers
         /\ me.loaded \in Nat /\ me.time \in Nat
         /\ f.write_log \in Seq(Entries) /\ f.vector_clock \in VectorClocks
         /\ f.accept_time \in Nat
         /\ Range(f.write_log) \subseteq E /\ Range(me.new_writes) \subseteq E
         /\ E \subseteq Entries
  BY DEF Pulling, PullLocals, Fields, CoreOK, PullOK

(* The merge has the lock and prunes the answer's entries by the log. *)
LEMMA PruneNew ==
  ASSUME NEW r, NEW me, NEW f, NEW E, NEW T, Pulling(r, me, f, E, T), NEW me2, NEW srv,
         me.at = "answered", srv.at = "idle", SettledOK(srv, f, E),
         me2.at = IF me.new_writes = <<>> THEN "clock" ELSE "prune_log",
         me2.new_writes = Pruned(me.new_writes, f.write_log), me2.clock = me.clock,
         me2.time = me.time
  PROVE  PullOK(me2, f, E, T)
<1> DEFINE new == Range(me.new_writes)
           kept == Range(me2.new_writes)
           log == Range(f.write_log)
           old == CoveredBy(f.vector_clock, E)
<1>1. /\ ClockLeq(me.clock, T) /\ new \subseteq E
      /\ \A w \in new : w.accept_time < me.time
      /\ Keeps(me.clock, old \cup new, E)
      /\ \A w \in old : Held(w, log)
      /\ E \in SUBSET Entries /\ log \subseteq E
  BY DEF Pulling, PullOK, CoreOK, Keeps, CoveredBy
<1>2. kept = {w \in new : ~ Superseded(w, log)}
  BY PullingTypes, PrunedType
<1>3. \A w \in log : w.accept_time < f.accept_time /\ Fresh(w, f.kv_store, E)
  BY DEF SettledOK, InHand
<1>4. Keeps(me.clock, log \cup kept, E)
  <2>1. \A w \in old \cup new : Held(w, log \cup kept)
    BY <1>1, <1>2 DEF Held, Superseded
  <2>2. old \cup new \in SUBSET Entries /\ log \cup kept \in SUBSET Entries
    BY <1>1, <1>2 DEF CoveredBy
  <2> HIDE DEF old, new, log, kept
  <2> QED
    BY <1>1, <2>1, <2>2, KeepsCarried
<1>5. CASE me.new_writes = <<>>
  <2>1. kept = {} /\ me2.at = "clock"
    BY <1>2, <1>5 DEF Range
  <2>2. Keeps(me.clock, log, E)
    BY <1>4, <2>1
  <2> QED
    BY <1>1, <1>2, <1>3, <2>1, <2>2 DEF PullOK, AllFresh
<1>6. CASE me.new_writes # <<>>
  <2>1. me2.at = "prune_log"
    BY <1>6
  <2> QED
    BY <1>1, <1>2, <1>3, <1>4, <2>1 DEF PullOK, AllFresh
<1> QED
  BY <1>5, <1>6

(* It prunes the log by what is left of them. *)
LEMMA PruneLog ==
  ASSUME NEW r, NEW me, NEW f, NEW E, NEW T, Pulling(r, me, f, E, T), NEW me2,
         me.at = "prune_log", me2.at = "swap",
         me2.new_writes = me.new_writes, me2.clock = me.clock, me2.time = me.time,
         me2.log = Pruned(f.write_log, me.new_writes)
  PROVE  PullOK(me2, f, E, T)
<1> DEFINE new == Range(me.new_writes)
           log == Range(f.write_log)
<1>1. Range(me2.log) = {w \in log : ~ Superseded(w, new)}
  BY PullingTypes, PrunedType
<1>2. \A w \in log : Held(w, Range(me2.log) \cup new)
  BY <1>1 DEF Held, Superseded
<1> QED
  BY <1>1, <1>2 DEF Pulling, PullOK

(* It puts the two together in place of the log. *)
LEMMA SwapLog ==
  ASSUME NEW r, NEW me, NEW f, NEW E, NEW T, Pulling(r, me, f, E, T), NEW me2, NEW f2,
         me.at = "swap", me2.at = "sort",
         me2.new_writes = me.new_writes, me2.clock = me.clock, me2.time = me.time,
         f2.write_log = me.log \o me.new_writes, f2.accept_time = f.accept_time,
         f2.vector_clock = f.vector_clock, f2.kv_store = f.kv_store
  PROVE  CoreOK(r, f2, E, T) /\ PullOK(me2, f2, E, T)
<1> DEFINE new == Range(me.new_writes)
           log == Range(f.write_log)
           log2 == Range(f2.write_log)
<1>1. /\ ClockLeq(me.clock, T) /\ new \subseteq E /\ Keeps(me.clock, log \cup new, E)
      /\ \A w \in new : w.accept_time < me.time
      /\ \A w \in log : w.accept_time < f.accept_time \/ w.accept_time < me.time
      /\ Range(me.log) \subseteq log /\ \A w \in log : Held(w, Range(me.log) \cup new)
      /\ \A w \in log : Fresh(w, f.kv_store, E)
  BY DEF Pulling, PullOK, AllFresh
<1>2. /\ log \subseteq E /\ ClockLeq(f.vector_clock, T) /\ Keeps(f.vector_clock, log, E)
      /\ \A w \in E : w.replica_id = r => Held(w, log)
  BY DEF Pulling, CoreOK
<1>3. log2 = Range(me.log) \cup new
  BY PullingTypes, RangeOfConcat
<1>4. E \in SUBSET Entries
  BY PullingTypes
<1>5. \A w \in log : Held(w, log2)
  BY <1>1, <1>3
<1>6. \A w \in log \cup new : Held(w, log2)
  BY <1>3, <1>5 DEF Held
<1>7. log2 \subseteq E /\ log2 \subseteq log \cup new
  BY <1>1, <1>2, <1>3
<1> HIDE DEF new, log, log2
<1>8. log \in SUBSET Entries /\ log2 \in SUBSET Entries /\ log \cup new \in SUBSET Entries
  BY <1>1, <1>2, <1>4, <1>7
<1>9. Keeps(f.vector_clock, log2, E)
  BY <1>2, <1>4, <1>5, <1>8, KeepsCarried
<1>10. Keeps(me.clock, log2, E)
  BY <1>1, <1>4, <1>6, <1>8, KeepsCarried
<1>11. \A w \in E : w.replica_id = r => Held(w, log2)
  BY <1>2, <1>4, <1>5, <1>8, HeldTransitive
<1>12. ASSUME NEW w \in E, Covers(f.vector_clock, w)
       PROVE  Superseded(w, log2) \/ Fresh(w, f.kv_store, E)
  <2>1. Held(w, log)
    BY <1>2, <1>12 DEF Keeps
  <2> QED
    BY <1>1, <1>4, <1>5, <1>8, <2>1, HeldTransitive DEF Held
<1>13. \A w \in log2 : w.accept_time < f.accept_time \/ w.accept_time < me.time
  BY <1>1, <1>7
<1> QED
  BY <1>1, <1>2, <1>7, <1>9, <1>10, <1>11, <1>12, <1>13 DEF CoreOK, PullOK, new, log2

(* It sorts a copy of the log. *)
LEMMA SortLog ==
  ASSUME NEW r, NEW me, NEW f, NEW E, NEW T, Pulling(r, me, f, E, T), NEW me2,
         me.at = "sort", me2.at = "assign",
         me2.new_writes = me.new_writes, me2.clock = me.clock, me2.time = me.time,
         me2.log \in SortsOf(f.write_log)
  PROVE  PullOK(me2, f, E, T)
<1>1. Range(me2.log) = Range(f.write_log) /\ Sorted(me2.log)
  BY PullingTypes, SortsProperties
<1> QED
  BY <1>1 DEF Pulling, PullOK

(* It puts the sorted copy in place of the log. *)
LEMMA AssignLog ==
  ASSUME NEW r, NEW me, NEW f, NEW E, NEW T, Pulling(r, me, f, E, T), NEW me2, NEW f2,
         me.at = "assign", me2.at = "replay",
         me2.new_writes = me.new_writes, me2.clock = me.clock, me2.time = me.time,
         f2.write_log = me.log, f2.accept_time = f.accept_time,
         f2.vector_clock = f.vector_clock, f2.kv_store = f.kv_store
  PROVE  CoreOK(r, f2, E, T) /\ PullOK(me2, f2, E, T)
<1>1. Range(f2.write_log) = Range(f.write_log) /\ Sorted(f2.write_log)
  BY DEF Pulling, PullOK
<1> QED
  BY <1>1 DEF Pulling, PullOK, CoreOK

(* It replays the log. *)
LEMMA ReplayLog ==
  ASSUME NEW r, NEW me, NEW f, NEW E, NEW T, Pulling(r, me, f, E, T), NEW me2,
         me.at = "replay", me2.at = "store",
         me2.new_writes = me.new_writes, me2.clock = me.clock, me2.time = me.time,
         me2.store = ReplayList(f.write_log)
  PROVE  PullOK(me2, f, E, T)
<1>1. /\ Sorted(f.write_log) /\ UniquelyStamped(E)
  BY DEF Pulling, PullOK
<1>2. AllFresh(Range(f.write_log), me2.store, E)
  BY <1>1, PullingTypes, ReplayFresh DEF AllFresh
<1> QED
  BY <1>2 DEF Pulling, PullOK

(* It puts the replayed store in place of the store. *)
LEMMA SetStore ==
  ASSUME NEW r, NEW me, NEW f, NEW E, NEW T, Pulling(r, me, f, E, T), NEW me2, NEW f2,
         me.at = "store", me2.at = "clock",
         me2.new_writes = me.new_writes, me2.clock = me.clock, me2.time = me.time,
         f2.kv_store = me.store, f2.accept_time = f.accept_time,
         f2.write_log = f.write_log, f2.vector_clock = f.vector_clock
  PROVE  CoreOK(r, f2, E, T) /\ PullOK(me2, f2, E, T)
  BY DEF Pulling, PullOK, CoreOK

(* It loads a key of its clock. *)
LEMMA LoadKey ==
  ASSUME NEW r, NEW me, NEW f, NEW E, NEW T, Pulling(r, me, f, E, T), NEW me2, NEW f2,
         me.at = "clock", me2.at = "clock_store",
         me2.new_writes = me.new_writes, me2.clock = me.clock, me2.time = me.time,
         me2.loaded = f.vector_clock[me2.key],
         f2.write_log = f.write_log, f2.vector_clock = f.vector_clock,
         f2.kv_store = f.kv_store, f2.accept_time = f.accept_time
  PROVE  CoreOK(r, f2, E, T) /\ PullOK(me2, f2, E, T)
  BY DEF Pulling, PullOK, CoreOK

(* It assigns the larger of that and the answer's. *)
LEMMA StoreKey ==
  ASSUME NEW r, NEW me, NEW f, NEW E, NEW T, Pulling(r, me, f, E, T), NEW me2, NEW f2,
         me.at = "clock_store", me2.at = "clock",
         me2.new_writes = me.new_writes, me2.clock = me.clock, me2.time = me.time,
         f2.vector_clock =
           [f.vector_clock EXCEPT ![me.key] = Maximum(me.loaded, me.clock[me.key])],
         f2.write_log = f.write_log, f2.kv_store = f.kv_store,
         f2.accept_time = f.accept_time
  PROVE  CoreOK(r, f2, E, T) /\ PullOK(me2, f2, E, T)
<1> DEFINE log == Range(f.write_log)
<1>1. /\ Keeps(me.clock, log, E) /\ ClockLeq(me.clock, T) /\ ClockLeq(f.vector_clock, T)
      /\ me.loaded = f.vector_clock[me.key] /\ Keeps(f.vector_clock, log, E)
      /\ E \in SUBSET Entries
  BY DEF Pulling, PullOK, CoreOK
<1>2. /\ f.vector_clock \in VectorClocks /\ me.clock \in VectorClocks /\ me.key \in Servers
  BY PullingTypes
<1>3. \A s \in Servers : f2.vector_clock[s] = f.vector_clock[s] \/ f2.vector_clock[s] = me.clock[s]
  BY <1>1, <1>2 DEF VectorClocks, Maximum
<1>4. ClockLeq(f2.vector_clock, T)
  BY <1>1, <1>3 DEF ClockLeq
<1>5. \A w \in E : Covers(f2.vector_clock, w) => Covers(f.vector_clock, w) \/ Covers(me.clock, w)
  BY <1>1, <1>3, EntryNumbers DEF Covers
<1>6. Keeps(f2.vector_clock, log, E)
  BY <1>1, <1>5 DEF Keeps
<1> QED
  BY <1>1, <1>4, <1>6 DEF Pulling, PullOK, CoreOK

(* It loads the accept time. *)
LEMMA LoadAcceptTime ==
  ASSUME NEW r, NEW me, NEW f, NEW E, NEW T, Pulling(r, me, f, E, T), NEW me2,
         me.at = "clock", me2.at = "time_store",
         me2.new_writes = me.new_writes, me2.clock = me.clock, me2.time = me.time,
         me2.loaded = f.accept_time
  PROVE  PullOK(me2, f, E, T)
  BY DEF Pulling, PullOK

(***************************************************************************)
(* It assigns the larger of that and the answer's: the entries it has      *)
(* taken in are older than the accept time again.                          *)
(***************************************************************************)
LEMMA StoreAcceptTime ==
  ASSUME NEW r, NEW me, NEW f, NEW E, NEW T, NEW T2, Pulling(r, me, f, E, T),
         Later(E, T, E, T2), NEW srv, NEW f2,
         me.at = "time_store", srv.at = "idle", WriteOK(r, srv, f, E),
         f2.accept_time = Maximum(me.loaded, me.time),
         f2.write_log = f.write_log, f2.vector_clock = f.vector_clock,
         f2.kv_store = f.kv_store
  PROVE  CoreOK(r, f2, E, T2) /\ WriteOK(r, srv, f2, E) /\ SettledOK(srv, f2, E)
<1> DEFINE log == Range(f.write_log)
<1>1. /\ \A w \in log : w.accept_time < f.accept_time \/ w.accept_time < me.time
      /\ AllFresh(log, f.kv_store, E) /\ me.loaded = f.accept_time
      /\ log \subseteq E /\ E \in SUBSET Entries
      /\ ClockLeq(f.vector_clock, T)
  BY DEF Pulling, PullOK, CoreOK
<1>2. f.accept_time \in Nat /\ me.time \in Nat /\ f.vector_clock \in VectorClocks
  BY PullingTypes
<1>3. \A w \in E : w.accept_time \in Nat
  BY <1>1, EntryNumbers
<1>4. \A w \in E : w.accept_time < f.accept_time \/ w.accept_time < me.time
                     => w.accept_time < f2.accept_time
  BY <1>1, <1>2, <1>3 DEF Maximum
<1>5. CoreOK(r, f2, E, T2)
  BY <1>1, <1>2, LaterClocks DEF Pulling, CoreOK
<1>6. WriteOK(r, srv, f2, E)
  BY <1>4 DEF WriteOK, WriteSteps, InHand
<1>7. SettledOK(srv, f2, E)
  BY <1>1, <1>4 DEF SettledOK, AllFresh
<1> QED
  BY <1>5, <1>6, <1>7

-----------------------------------------------------------------------------
(* The accept times of all replicas. *)
Times == [s \in Servers |-> replica[s].accept_time]

(* ReplicaOK, in a state. *)
ReplicaInv(r) ==
  ReplicaOK(r, server[r], periodic[r], replica[r], accepted, Times)

(***************************************************************************)
(* What a call is going to send is in the log, and is all there that the   *)
(* asker's clock does not cover.                                           *)
(***************************************************************************)
AnswerInv(s) ==
  server[s].at \in {"unlocked", "copying"} =>
    LET sent == Range(server[s].new_writes) IN
    /\ sent \subseteq Log(s)
    /\ \A w \in Log(s) : Covers(periodic[server[s].asker].clock, w) \/ w \in sent

(***************************************************************************)
(* The inductive invariant of the behaviours in which calls and merges are *)
(* Serialized.                                                             *)
(***************************************************************************)
SerialInv ==
  /\ ThreadInv
  /\ UniquelyStamped(accepted)
  /\ \A r \in Servers : ReplicaInv(r) /\ AnswerInv(r)

(* It holds before anything was written. *)
LEMMA InitSerialInv == Init => SerialInv
<1> SUFFICES ASSUME Init PROVE SerialInv
  OBVIOUS
<1>1. ThreadInv
  BY InitThreadInv
<1>2. UniquelyStamped(accepted)
  BY DEF Init, UniquelyStamped
<1>3. ASSUME NEW r \in Servers PROVE ReplicaInv(r) /\ AnswerInv(r)
  <2>1. /\ replica[r].write_log = <<>> /\ replica[r].vector_clock = NoClock
        /\ replica[r].accept_time = 0 /\ server[r].at = "idle"
        /\ periodic[r].at = "asleep" /\ accepted = {}
    BY <1>3 DEF Init, Idle
  <2>2. Range(replica[r].write_log) = {}
    BY <2>1 DEF Range
  <2>3. ClockLeq(NoClock, Times)
    BY <1>1, Types DEF ClockLeq, NoClock, Times, Fields
  <2>4. /\ CoreOK(r, replica[r], {}, Times) /\ WriteOK(r, server[r], replica[r], {})
        /\ SettledOK(server[r], replica[r], {})
    BY <2>1, <2>2, <2>3 DEF CoreOK, Keeps, WriteOK, WriteSteps, SettledOK
  <2>5. ReplicaInv(r)
    BY <2>1, <2>4 DEF ReplicaInv, ReplicaOK, PullSteps, LockSteps
  <2>6. AnswerInv(r)
    BY <2>1 DEF AnswerInv
  <2> QED
    BY <2>5, <2>6
<1> QED
  BY <1>1, <1>2, <1>3 DEF SerialInv

(* What SerialInv says of one replica. *)
LEMMA SerialTypes ==
  ASSUME SerialInv, NEW r \in Servers
  PROVE  /\ ThreadInv /\ UniquelyStamped(accepted) /\ accepted \in SUBSET Entries
         /\ replica[r] \in Fields /\ server[r] \in ServerLocals /\ periodic[r] \in PeriodicLocals
         /\ replica[r].accept_time \in Nat /\ replica[r].vector_clock \in VectorClocks
         /\ Times \in [Servers -> Nat] /\ Times[r] = replica[r].accept_time
         /\ ReplicaOK(r, server[r], periodic[r], replica[r], accepted, Times) /\ AnswerInv(r)
<1>1. ThreadInv /\ ReplicaInv(r)
  BY DEF SerialInv
<1>2. \A s \in Servers : replica[s] \in Fields
  BY <1>1, Types
<1> QED
  BY <1>1, <1>2, Types DEF SerialInv, ReplicaInv, Fields, Times

(* A step of a thread of r makes time go on. *)
LEMMA TimeGoesOn ==
  ASSUME SerialInv, ThreadInv', NEW r \in Servers, NEW fields,
         replica' = [replica EXCEPT ![r] = fields],
         replica[r].accept_time <= fields.accept_time,
         accepted \subseteq accepted',
         \A w \in accepted' \ accepted :
           w.replica_id = r /\ replica[r].accept_time <= w.accept_time
  PROVE  /\ Later(accepted, Times, accepted', Times')
         /\ Times'[r] = fields.accept_time
<1>1. /\ replica'[r] = fields
      /\ \A q \in Servers \ {r} : replica'[q] = replica[q]
  BY SerialTypes DEF ThreadInv, ThreadTypeOK
<1>2. /\ \A q \in Servers : Times[q] = replica[q].accept_time /\ Times[q] \in Nat
      /\ Times \in [Servers -> Nat]
  BY SerialTypes
<1>3. Times' \in [Servers -> Nat] /\ \A q \in Servers : Times'[q] = replica'[q].accept_time
  BY DEF ThreadInv, ThreadTypeOK, Fields, Times
<1>4. ClockLeq(Times, Times')
  <2> SUFFICES ASSUME NEW q \in Servers PROVE Times[q] <= Times'[q]
    BY DEF ClockLeq
  <2>1. Times[q] \in Nat /\ Times'[q] \in Nat
    BY <1>2, <1>3
  <2>2. CASE q = r
    BY <1>1, <1>2, <1>3, <2>2
  <2>3. CASE q # r
    BY <1>1, <1>2, <1>3, <2>1, <2>3
  <2> QED
    BY <2>2, <2>3
<1>5. \A w \in accepted' \ accepted : Times[w.replica_id] <= w.accept_time
  BY <1>2
<1>6. accepted' \subseteq Entries
  BY DEF ThreadInv, ThreadTypeOK
<1> QED
  BY <1>1, <1>2, <1>3, <1>4, <1>5, <1>6 DEF Later

(***************************************************************************)
(* A step of the server thread preserves SerialInv if the replica stays in *)
(* order and no other replica sees but that time goes on.                  *)
(***************************************************************************)
LEMMA SerialServerSteps ==
  ASSUME SerialInv, ThreadInv', NEW r \in Servers, NEW locals, NEW fields,
         replica' = [replica EXCEPT ![r] = fields],
         server' = [server EXCEPT ![r] = locals],
         periodic' = periodic,
         Later(accepted, Times, accepted', Times'),
         UniquelyStamped(accepted'),
         \A w \in accepted' \ accepted : w.replica_id = r,
         ReplicaOK(r, locals, periodic[r], fields, accepted', Times'),
         AnswerInv(r)'
  PROVE  SerialInv'
<1>1. /\ replica'[r] = fields /\ server'[r] = locals
      /\ \A q \in Servers \ {r} : replica'[q] = replica[q] /\ server'[q] = server[q]
  BY SerialTypes DEF ThreadInv, ThreadTypeOK
<1>2. ASSUME NEW q \in Servers PROVE ReplicaInv(q)'
  <2>1. CASE q = r
    BY <1>1, <2>1 DEF ReplicaInv
  <2>2. CASE q # r
    <3>1. ReplicaOK(q, server[q], periodic[q], replica[q], accepted', Times')
      BY <2>2, SerialTypes, OthersGoOn
    <3> QED
      BY <1>1, <2>2, <3>1 DEF ReplicaInv
  <2> QED
    BY <2>1, <2>2
<1>3. ASSUME NEW q \in Servers PROVE AnswerInv(q)'
  <2>1. CASE q = r
    BY <2>1
  <2>2. CASE q # r
    BY <1>1, <2>2, SerialTypes DEF AnswerInv, Log
  <2> QED
    BY <2>1, <2>2
<1> QED
  BY <1>2, <1>3 DEF SerialInv

(* The same for one that makes no entry and lets no time pass. *)
LEMMA SerialQuietSteps ==
  ASSUME SerialInv, ThreadInv', NEW r \in Servers, NEW locals, NEW fields,
         replica' = [replica EXCEPT ![r] = fields],
         server' = [server EXCEPT ![r] = locals],
         periodic' = periodic, accepted' = accepted,
         fields.accept_time = replica[r].accept_time,
         ReplicaOK(r, locals, periodic[r], fields, accepted, Times),
         AnswerInv(r)'
  PROVE  SerialInv'
<1>1. Later(accepted, Times, accepted', Times')
  <2>1. replica[r].accept_time <= fields.accept_time /\ accepted \subseteq accepted'
    BY SerialTypes
  <2>2. \A w \in accepted' \ accepted :
          w.replica_id = r /\ replica[r].accept_time <= w.accept_time
    OBVIOUS
  <2> QED
    BY <2>1, <2>2, TimeGoesOn
<1>2. Times' = Times
  <2>1. replica'[r] = fields /\ \A q \in Servers \ {r} : replica'[q] = replica[q]
    BY SerialTypes DEF ThreadInv, ThreadTypeOK
  <2>2. \A q \in Servers : replica'[q].accept_time = replica[q].accept_time
    BY <2>1
  <2> QED
    BY <2>2 DEF Times
<1>3. UniquelyStamped(accepted')
  BY SerialTypes
<1> QED
  BY <1>1, <1>2, <1>3, SerialServerSteps

(***************************************************************************)
(* A step of the periodic thread does, too, if it leaves the log to the    *)
(* calls that are under way.                                               *)
(***************************************************************************)
LEMMA SerialPeriodicSteps ==
  ASSUME SerialInv, ThreadInv', NEW r \in Servers, NEW locals, NEW fields,
         replica' = [replica EXCEPT ![r] = fields],
         periodic' = [periodic EXCEPT ![r] = locals],
         server' = server, accepted' = accepted,
         periodic[r].at # "called",
         replica[r].accept_time <= fields.accept_time,
         server[r].at = "idle" \/ fields.write_log = replica[r].write_log,
         ReplicaOK(r, server[r], locals, fields, accepted, Times')
  PROVE  SerialInv'
<1>1. Later(accepted, Times, accepted', Times')
  BY TimeGoesOn
<1>2. /\ replica'[r] = fields /\ periodic'[r] = locals
      /\ \A q \in Servers \ {r} : replica'[q] = replica[q] /\ periodic'[q] = periodic[q]
  BY SerialTypes DEF ThreadInv, ThreadTypeOK
<1>3. ASSUME NEW q \in Servers PROVE ReplicaInv(q)'
  <2>1. CASE q = r
    BY <1>2, <2>1 DEF ReplicaInv
  <2>2. CASE q # r
    <3>1. ReplicaOK(q, server[q], periodic[q], replica[q], accepted', Times')
      BY <1>1, SerialTypes, OthersGoOn
    <3> QED
      BY <1>2, <2>2, <3>1 DEF ReplicaInv
  <2> QED
    BY <2>1, <2>2
<1>4. ASSUME NEW q \in Servers PROVE AnswerInv(q)'
  <2>1. SUFFICES ASSUME server[q].at \in {"unlocked", "copying"} PROVE AnswerInv(q)'
    BY DEF AnswerInv
  <2>2. periodic[server[q].asker].at = "called" /\ server[q].asker \in Servers
    BY <2>1, SerialTypes, ServerAt DEF ThreadInv, Calls, AnswerLocals
  <2>3. periodic'[server[q].asker] = periodic[server[q].asker]
    BY <1>2, <2>2
  <2>4. replica'[q].write_log = replica[q].write_log
    BY <1>2, <2>1
  <2> QED
    BY <2>1, <2>3, <2>4, SerialTypes DEF AnswerInv, Log
<1>5. UniquelyStamped(accepted')
  BY SerialTypes
<1> QED
  BY <1>3, <1>4, <1>5 DEF SerialInv

(* A call starts. *)
LEMMA CallSerialInv ==
  ASSUME SerialInv, ThreadInv', NEW r \in Servers, Call(r)
  PROVE  SerialInv'
<1>1. ReplicaOK(r, server[r], periodic[r], replica[r], accepted, Times) /\ replica[r] \in Fields
  BY SerialTypes
<1>2. ASSUME NEW locals, NEW fields,
             server[r].at = "idle", server' = [server EXCEPT ![r] = locals],
             replica' = [replica EXCEPT ![r] = fields],
             periodic' = periodic, accepted' = accepted,
             fields.write_log = replica[r].write_log,
             fields.vector_clock = replica[r].vector_clock,
             fields.kv_store = replica[r].kv_store,
             fields.accept_time = replica[r].accept_time,
             \/ locals.at = "idle"
             \/ locals.at = "stamp" /\ locals.entry.replica_id = r /\ fields.looked_up
      PROVE  SerialInv'
  <2>1. ReplicaOK(r, locals, periodic[r], fields, accepted, Times)
    <3>1. "idle" \notin WriteSteps
      BY DEF WriteSteps
    <3> QED
      BY <1>1, <1>2, <3>1, QuietStep
  <2>2. server'[r] = locals
    BY <1>2, SerialTypes DEF ThreadInv, ThreadTypeOK
  <2>3. AnswerInv(r)'
    BY <1>2, <2>2 DEF AnswerInv
  <2> QED
    BY <1>2, <2>1, <2>3, SerialQuietSteps
<1>3. CASE LookUpLog(r)
  <2>1. PICK w \in [key : Keys, value : Values, accept_time : {0}, replica_id : {r},
                    client_id : Clients, client_time : ClientTimes] :
          ServerStep(r, "idle", [at |-> "stamp", entry |-> w, loaded |-> 0],
                     [replica[r] EXCEPT !.looked_up = TRUE])
    BY <1>3 DEF LookUpLog
  <2>2. accepted' = accepted
    BY <1>3 DEF LookUpLog
  <2>3. PICK locals : locals = [at |-> "stamp", entry |-> w, loaded |-> 0]
    OBVIOUS
  <2>4. PICK fields : fields = [replica[r] EXCEPT !.looked_up = TRUE]
    OBVIOUS
  <2>5. /\ server[r].at = "idle" /\ server' = [server EXCEPT ![r] = locals]
        /\ replica' = [replica EXCEPT ![r] = fields] /\ periodic' = periodic
    BY <2>1, <2>3, <2>4 DEF ServerStep
  <2>6. TRUE \in BOOLEAN
    OBVIOUS
  <2>7. /\ fields.write_log = replica[r].write_log
        /\ fields.vector_clock = replica[r].vector_clock
        /\ fields.kv_store = replica[r].kv_store
        /\ fields.accept_time = replica[r].accept_time /\ fields.looked_up = TRUE
    BY <1>1, <2>4, <2>6, FieldsLookedUp, Zenon
  <2>8. fields.looked_up
    BY <2>7, Zenon
  <2>9. locals.at = "stamp" /\ locals.entry.replica_id = r
    BY <2>3
  <2>10. PICK f : f = replica[r]
    OBVIOUS
  <2>11. /\ fields.write_log = f.write_log /\ fields.vector_clock = f.vector_clock
         /\ fields.kv_store = f.kv_store /\ fields.accept_time = f.accept_time
    BY <2>7, <2>10, Zenon
  <2> HIDE <2>7
  <2> QED
    BY <1>2, <2>2, <2>5, <2>8, <2>9, <2>10, <2>11
<1>4. ASSUME NEW s \in Servers, ReadClock(r, s) PROVE SerialInv'
  <2>1. PICK fields : fields = [replica[r] EXCEPT !.clock_keys = @ \cup {s}]
    OBVIOUS
  <2>2. /\ server[r].at = "idle" /\ server' = [server EXCEPT ![r] = Idle]
        /\ replica' = [replica EXCEPT ![r] = fields]
        /\ periodic' = periodic /\ accepted' = accepted
    BY <1>4, <2>1 DEF ReadClock, ServerStep
  <2>3. /\ fields.write_log = replica[r].write_log
        /\ fields.vector_clock = replica[r].vector_clock
        /\ fields.kv_store = replica[r].kv_store
        /\ fields.accept_time = replica[r].accept_time
    BY <1>1, <2>1 DEF Fields
  <2>4. Idle.at = "idle"
    BY DEF Idle
  <2> QED
    BY <1>2, <2>2, <2>3, <2>4
<1> QED
  BY <1>3, <1>4 DEF Call

(* write() appends its entry. *)
LEMMA AppendSerialInv ==
  ASSUME SerialInv, ThreadInv', Serialized, NEW r \in Servers, AppendEntry(r)
  PROVE  SerialInv'
<1> DEFINE me == server[r]
           f  == replica[r]
<1>1. PICK list : list = IF f.looked_up THEN Append(f.write_log, me.entry) ELSE f.write_log
  OBVIOUS
<1>2. PICK fields : fields = [f EXCEPT !.write_log = list, !.looked_up = FALSE]
  OBVIOUS
<1>3. PICK locals : locals = [me EXCEPT !.at = "store"]
  OBVIOUS
<1>4. /\ me.at = "append" /\ server' = [server EXCEPT ![r] = locals]
      /\ replica' = [replica EXCEPT ![r] = fields] /\ periodic' = periodic
      /\ accepted' = accepted \cup {me.entry}
  BY <1>1, <1>2, <1>3, Zenon DEF AppendEntry, ServerStep
<1>5. me \in WriteLocals /\ f \in Fields /\ me.entry \in Entries /\ f.write_log \in Seq(Entries)
  BY <1>4, SerialTypes, ServerAt DEF WriteLocals, WriteSteps, Fields
<1>6. /\ ReplicaOK(r, me, periodic[r], f, accepted, Times)
      /\ UniquelyStamped(accepted) /\ accepted \in SUBSET Entries
      /\ Times \in [Servers -> Nat] /\ Times[r] = f.accept_time
      /\ periodic[r] \in PeriodicLocals /\ f.accept_time \in Nat
  BY SerialTypes
<1>7. periodic[r].at \notin LockSteps
  BY <1>4 DEF Serialized, LockHeld
<1>8. locals.at = "store" /\ locals.entry = me.entry
  BY <1>3, <1>5 DEF WriteLocals
<1>9. list = Append(f.write_log, me.entry)
  BY <1>1, <1>4, <1>6 DEF ReplicaOK, WriteOK
<1>10. list \in Seq(Entries)
  BY <1>5, <1>9, RangeOfAppend
<1>11. /\ fields.write_log = list
       /\ fields.vector_clock = f.vector_clock /\ fields.kv_store = f.kv_store
       /\ fields.accept_time = f.accept_time
  BY <1>2, <1>5, <1>10, FieldsWithList, Zenon
<1>12. /\ ReplicaOK(r, locals, periodic[r], fields, accepted', Times)
       /\ UniquelyStamped(accepted')
       /\ Later(accepted, Times, accepted', Times)
       /\ me.entry.replica_id = r
  <2>1. Appends(me, f, accepted, locals, fields, accepted')
    BY <1>4, <1>5, <1>6, <1>8, <1>9, <1>11 DEF Appends
  <2> HIDE DEF me, f
  <2> QED
    BY <1>6, <1>7, <2>1, AppendStep
<1>13. /\ replica'[r] = fields /\ server'[r] = locals
       /\ \A q \in Servers \ {r} : replica'[q] = replica[q]
  BY <1>4, SerialTypes DEF ThreadInv, ThreadTypeOK
<1>14. Times' = Times
  <2>1. \A q \in Servers : replica'[q].accept_time = replica[q].accept_time
    BY <1>11, <1>13
  <2> QED
    BY <2>1 DEF Times
<1>15. AnswerInv(r)'
  BY <1>8, <1>13 DEF AnswerInv
<1> QED
  BY <1>4, <1>12, <1>14, <1>15, SerialServerSteps

(* The other accesses of write(). *)
LEMMA WriteStepSerialInv ==
  ASSUME SerialInv, ThreadInv', Serialized, NEW r \in Servers, WriteStep(r)
  PROVE  SerialInv'
<1> DEFINE me == server[r]
           f  == replica[r]
<1>1. /\ \/ ServerStep(r, "stamp",
              [me EXCEPT !.at = "append", !.entry.accept_time = f.accept_time], f)
         \/ ServerStep(r, "store", [me EXCEPT !.at = "load_time"],
              [f EXCEPT !.kv_store[me.entry.key] = me.entry.value])
         \/ ServerStep(r, "load_time",
              [me EXCEPT !.at = "store_time", !.loaded = f.accept_time], f)
         \/ ServerStep(r, "store_time", [me EXCEPT !.at = "own_time"],
              [f EXCEPT !.accept_time = me.loaded + 1])
         \/ ServerStep(r, "own_time",
              [me EXCEPT !.at = "own_clock", !.loaded = f.accept_time], f)
         \/ ServerStep(r, "own_clock", Idle,
              [f EXCEPT !.vector_clock[r] = me.loaded, !.clock_keys = @ \cup {r}])
      /\ accepted' = accepted
  BY DEF WriteStep
<1>2. me.at \in WriteSteps
  BY <1>1 DEF ServerStep, WriteSteps
<1>3. /\ me \in WriteLocals /\ f \in Fields
      /\ ReplicaOK(r, me, periodic[r], f, accepted, Times)
      /\ accepted \in SUBSET Entries /\ Times \in [Servers -> Nat]
      /\ Times[r] = f.accept_time /\ f.accept_time \in Nat
      /\ periodic[r] \in PeriodicLocals
  BY <1>2, SerialTypes, ServerAt
<1>4. periodic[r].at \notin LockSteps
  BY <1>2 DEF Serialized, LockHeld, WriteSteps
<1>5. \A locals : server' = [server EXCEPT ![r] = locals] /\ locals.at \notin {"unlocked", "copying"}
                    => AnswerInv(r)'
  BY SerialTypes DEF AnswerInv, ThreadInv, ThreadTypeOK
<1>6. ASSUME NEW locals, NEW fields, NEW at, ServerStep(r, at, locals, fields),
             fields.accept_time = f.accept_time,
             ReplicaOK(r, locals, periodic[r], fields, accepted, Times),
             locals.at \notin {"unlocked", "copying"}
      PROVE  SerialInv'
  BY <1>1, <1>5, <1>6, SerialQuietSteps DEF ServerStep
<1>7. PICK E, T, pull : E = accepted /\ T = Times /\ pull = periodic[r]
  OBVIOUS
<1>8. /\ ReplicaOK(r, me, pull, f, E, T) /\ E \in SUBSET Entries /\ T \in [Servers -> Nat]
      /\ pull \in PeriodicLocals /\ pull.at \notin LockSteps
  BY <1>3, <1>4, <1>7
<1> HIDE DEF me, f
<1>9. CASE ServerStep(r, "stamp",
             [me EXCEPT !.at = "append", !.entry.accept_time = f.accept_time], f)
  <2>1. PICK locals : locals = [me EXCEPT !.at = "append", !.entry.accept_time = f.accept_time]
    OBVIOUS
  <2>2. /\ me.at = "stamp" /\ locals.at = "append"
        /\ locals.entry = [me.entry EXCEPT !.accept_time = f.accept_time]
    BY <1>3, <1>9, <2>1 DEF ServerStep, WriteLocals, me
  <2>3. ReplicaOK(r, locals, pull, f, E, T)
    BY <1>3, <1>8, <2>2, StampStep
  <2> QED
    BY <1>6, <1>7, <1>9, <2>1, <2>2, <2>3
<1>10. CASE ServerStep(r, "store", [me EXCEPT !.at = "load_time"],
              [f EXCEPT !.kv_store[me.entry.key] = me.entry.value])
  <2>1. PICK locals : locals = [me EXCEPT !.at = "load_time"]
    OBVIOUS
  <2>2. PICK fields : fields = [f EXCEPT !.kv_store[me.entry.key] = me.entry.value]
    OBVIOUS
  <2>3. me.at = "store" /\ locals.at = "load_time" /\ locals.entry = me.entry
    BY <1>3, <1>10, <2>1 DEF ServerStep, WriteLocals, me
  <2>4. /\ fields.kv_store = [f.kv_store EXCEPT ![me.entry.key] = me.entry.value]
        /\ fields.write_log = f.write_log /\ fields.vector_clock = f.vector_clock
        /\ fields.accept_time = f.accept_time
    BY <1>3, <2>2 DEF Fields
  <2>5. ReplicaOK(r, locals, pull, fields, E, T)
    BY <1>3, <1>8, <2>3, <2>4, StoreStep
  <2> QED
    BY <1>6, <1>7, <1>10, <2>1, <2>2, <2>3, <2>4, <2>5
<1>11. CASE \/ ServerStep(r, "load_time",
                 [me EXCEPT !.at = "store_time", !.loaded = f.accept_time], f)
            \/ ServerStep(r, "own_time",
                 [me EXCEPT !.at = "own_clock", !.loaded = f.accept_time], f)
  <2>1. PICK at, locals :
          /\ ServerStep(r, at, locals, f)
          /\ \/ at = "load_time" /\ locals = [me EXCEPT !.at = "store_time", !.loaded = f.accept_time]
             \/ at = "own_time" /\ locals = [me EXCEPT !.at = "own_clock", !.loaded = f.accept_time]
    BY <1>11
  <2>2. me.at = at
    BY <2>1 DEF ServerStep, me
  <2>3. /\ \/ me.at = "load_time" /\ locals.at = "store_time"
           \/ me.at = "own_time" /\ locals.at = "own_clock"
        /\ locals.entry = me.entry /\ locals.loaded = f.accept_time
    BY <1>3, <2>1, <2>2 DEF WriteLocals
  <2>4. ReplicaOK(r, locals, pull, f, E, T)
    BY <1>8, <2>3, LoadTimeStep
  <2> QED
    BY <1>6, <1>7, <2>1, <2>3, <2>4
<1>12. CASE ServerStep(r, "store_time", [me EXCEPT !.at = "own_time"],
              [f EXCEPT !.accept_time = me.loaded + 1])
  <2>1. PICK locals : locals = [me EXCEPT !.at = "own_time"]
    OBVIOUS
  <2>2. PICK fields : fields = [f EXCEPT !.accept_time = me.loaded + 1]
    OBVIOUS
  <2>3. /\ me.at = "store_time" /\ locals.at = "own_time" /\ locals.entry = me.entry
        /\ me.loaded = f.accept_time
    BY <1>3, <1>12, <2>1 DEF ServerStep, WriteLocals, ReplicaOK, WriteOK, me
  <2>4. /\ fields.accept_time = me.loaded + 1
        /\ fields.write_log = f.write_log /\ fields.vector_clock = f.vector_clock
        /\ fields.kv_store = f.kv_store
    BY <1>3, <2>2 DEF Fields
  <2>5. /\ replica' = [replica EXCEPT ![r] = fields] /\ periodic' = periodic
        /\ server' = [server EXCEPT ![r] = locals]
    BY <1>12, <2>1, <2>2 DEF ServerStep
  <2>6. Later(accepted, Times, accepted', Times')
    <3>1. replica[r].accept_time <= fields.accept_time
      BY <1>3, <2>3, <2>4 DEF f
    <3>2. accepted \subseteq accepted' /\ \A w \in accepted' \ accepted :
            w.replica_id = r /\ replica[r].accept_time <= w.accept_time
      BY <1>1
    <3> QED
      BY <2>5, <3>1, <3>2, TimeGoesOn
  <2>7. PICK T2 : T2 = Times'
    OBVIOUS
  <2>8. Later(E, T, E, T2)
    BY <1>1, <1>7, <2>6, <2>7
  <2>9. ReplicaOK(r, locals, pull, fields, E, T2)
    BY <1>3, <1>8, <2>3, <2>4, <2>8, StoreTimeStep
  <2>10. UniquelyStamped(accepted') /\ \A w \in accepted' \ accepted : w.replica_id = r
    BY <1>1, SerialTypes
  <2>11. AnswerInv(r)'
    BY <1>5, <2>3, <2>5
  <2> QED
    BY <1>1, <1>7, <2>5, <2>6, <2>7, <2>9, <2>10, <2>11, SerialServerSteps
<1>13. CASE ServerStep(r, "own_clock", Idle,
              [f EXCEPT !.vector_clock[r] = me.loaded, !.clock_keys = @ \cup {r}])
  <2>1. PICK fields : fields =
          [f EXCEPT !.vector_clock[r] = me.loaded, !.clock_keys = @ \cup {r}]
    OBVIOUS
  <2>2. me.at = "own_clock" /\ Idle.at = "idle"
    BY <1>13 DEF ServerStep, me, Idle
  <2>3. /\ fields.vector_clock = [f.vector_clock EXCEPT ![r] = me.loaded]
        /\ fields.accept_time = f.accept_time /\ fields.write_log = f.write_log
        /\ fields.kv_store = f.kv_store
    BY <1>3, <2>1 DEF Fields
  <2>4. Later(E, T, E, T) /\ T[r] = f.accept_time
    BY <1>3, <1>7, <1>8 DEF Later, ClockLeq
  <2>5. ReplicaOK(r, Idle, pull, fields, E, T)
    BY <1>3, <1>8, <2>2, <2>3, <2>4, OwnClockStep
  <2> QED
    BY <1>6, <1>7, <1>13, <2>1, <2>2, <2>3, <2>5
<1> QED
  BY <1>1, <1>9, <1>10, <1>11, <1>12, <1>13 DEF me, f

(* antiEntropyRequest() goes through the log. *)
LEMMA ScanSerialInv ==
  ASSUME SerialInv, ThreadInv', NEW s \in Servers, NEW r \in Servers, ScanLog(s, r)
  PROVE  SerialInv'
<1>1. PICK new : new = NewWritesIn(replica[s].write_log, periodic[r].clock)
  OBVIOUS
<1>2. PICK locals : locals = [at |-> "unlocked", asker |-> r, new_writes |-> new, keys |-> {}]
  OBVIOUS
<1>3. /\ server[s].at = "idle" /\ server' = [server EXCEPT ![s] = locals]
      /\ replica' = [replica EXCEPT ![s] = replica[s]]
      /\ periodic' = periodic /\ accepted' = accepted
  BY <1>1, <1>2 DEF ScanLog, ServerStep
<1>4. /\ ReplicaOK(s, server[s], periodic[s], replica[s], accepted, Times)
      /\ replica[s].write_log \in Seq(Entries)
  BY SerialTypes DEF Fields
<1>5. locals.at = "unlocked" /\ locals.asker = r /\ locals.new_writes = new
  BY <1>2
<1>6. ReplicaOK(s, locals, periodic[s], replica[s], accepted, Times)
  <2>1. "idle" \notin WriteSteps /\ "unlocked" \notin WriteSteps
    BY DEF WriteSteps
  <2> QED
    BY <1>3, <1>4, <1>5, <2>1, QuietStep
<1>7. Range(new) = {w \in Log(s) : ~ Covers(periodic[r].clock, w)}
  BY <1>1, <1>4, TakenProperties DEF NewWritesIn, NewWritesFor, Log
<1>8. server'[s] = locals /\ replica'[s] = replica[s]
  BY <1>3, SerialTypes DEF ThreadInv, ThreadTypeOK
<1>9. AnswerInv(s)'
  BY <1>3, <1>5, <1>7, <1>8 DEF AnswerInv, Log
<1> QED
  BY <1>3, <1>6, <1>9, SerialQuietSteps

(* antiEntropyRequest() begins to copy its clock. *)
LEMMA BeginCopySerialInv ==
  ASSUME SerialInv, ThreadInv', NEW s \in Servers, BeginCopy(s)
  PROVE  SerialInv'
<1>1. PICK locals : locals = [server[s] EXCEPT !.at = "copying", !.keys = replica[s].clock_keys]
  OBVIOUS
<1>2. /\ server[s].at = "unlocked" /\ server' = [server EXCEPT ![s] = locals]
      /\ replica' = [replica EXCEPT ![s] = replica[s]]
      /\ periodic' = periodic /\ accepted' = accepted
  BY <1>1 DEF BeginCopy, ServerStep
<1>3. server[s] \in AnswerLocals
  BY <1>2, SerialTypes, ServerAt
<1>4. /\ locals.at = "copying" /\ locals.asker = server[s].asker
      /\ locals.new_writes = server[s].new_writes
  BY <1>1, <1>3 DEF AnswerLocals
<1>5. ReplicaOK(s, server[s], periodic[s], replica[s], accepted, Times) /\ AnswerInv(s)
  BY SerialTypes
<1>6. ReplicaOK(s, locals, periodic[s], replica[s], accepted, Times)
  <2>1. "unlocked" \notin WriteSteps /\ "copying" \notin WriteSteps
    BY DEF WriteSteps
  <2> QED
    BY <1>2, <1>4, <1>5, <2>1, QuietStep
<1>7. server'[s] = locals /\ replica'[s] = replica[s]
  BY <1>2, SerialTypes DEF ThreadInv, ThreadTypeOK
<1>8. AnswerInv(s)'
  BY <1>2, <1>4, <1>5, <1>7 DEF AnswerInv, Log
<1> QED
  BY <1>2, <1>6, <1>8, SerialQuietSteps

(* What an answer promises the replica that asked. *)
LEMMA AnswerKeeps ==
  ASSUME NEW E \in SUBSET Entries, NEW log \in SUBSET E, NEW old \in SUBSET E, NEW sent,
         NEW clock, Keeps(clock, log, E), \A w \in log : w \in old \/ w \in sent
  PROVE  Keeps(clock, old \cup sent, E)
  BY DEF Keeps, Held, Superseded

(***************************************************************************)
(* The clock that is sent is the one the entries were chosen under, as     *)
(* nothing has merged since: this is where Serialized is needed for the    *)
(* answer.                                                                 *)
(***************************************************************************)
LEMMA AnswerSerialInv ==
  ASSUME SerialInv, ThreadInv', Serialized, NEW s \in Servers, Answer(s)
  PROVE  SerialInv'
<1>1. PICK r : r = server[s].asker
  OBVIOUS
<1>2. PICK locals : locals =
        IF replica[s].clock_keys # server[s].keys THEN Dead
        ELSE [at |-> "answered", to_ask |-> periodic[r].to_ask,
              new_writes |-> server[s].new_writes, clock |-> replica[s].vector_clock,
              keys |-> replica[s].clock_keys, time |-> replica[s].accept_time,
              log |-> <<>>, store |-> NoStore, key |-> r, loaded |-> 0]
  OBVIOUS
<1>3. /\ server[s].at = "copying"
      /\ server' = [server EXCEPT ![s] = Idle]
      /\ periodic' = [periodic EXCEPT ![r] = locals]
      /\ replica' = replica /\ accepted' = accepted
  BY <1>1, <1>2 DEF Answer
<1>4. server[s] \in AnswerLocals /\ r \in Servers
  BY <1>1, <1>3, SerialTypes, ServerAt DEF AnswerLocals
<1>5. periodic[r].at = "called" /\ periodic[r] \in AskLocals
  BY <1>1, <1>3, <1>4, SerialTypes, LocalsAt DEF ThreadInv, Calls
<1>6. /\ server'[s] = Idle /\ periodic'[r] = locals
      /\ \A q \in Servers \ {s} : server'[q] = server[q]
      /\ \A q \in Servers \ {r} : periodic'[q] = periodic[q]
  BY <1>3, <1>4, SerialTypes DEF ThreadInv, ThreadTypeOK
<1>7. Times' = Times
  BY <1>3 DEF Times
<1>8. \/ locals = Dead
      \/ /\ locals.at = "answered" /\ locals.new_writes = server[s].new_writes
         /\ locals.clock = replica[s].vector_clock /\ locals.time = replica[s].accept_time
  BY <1>2
<1>9. PICK E, T : E = accepted /\ T = Times
  OBVIOUS
<1>10. /\ ReplicaOK(s, server[s], periodic[s], replica[s], E, T)
       /\ ReplicaOK(r, server[r], periodic[r], replica[r], E, T)
       /\ E \in SUBSET Entries
  BY <1>4, <1>9, SerialTypes
<1>11. locals.at = "answered" => PullOK(locals, replica[r], E, T)
  <2> SUFFICES ASSUME locals.at = "answered" PROVE PullOK(locals, replica[r], E, T)
    OBVIOUS
  <2> DEFINE sent == Range(server[s].new_writes)
             old == CoveredBy(replica[r].vector_clock, E)
  <2>1. /\ locals.new_writes = server[s].new_writes
        /\ locals.clock = replica[s].vector_clock
        /\ locals.time = replica[s].accept_time
    BY <1>8 DEF Dead
  <2>2. /\ Log(s) \subseteq E /\ ClockLeq(replica[s].vector_clock, T)
        /\ Keeps(replica[s].vector_clock, Log(s), E)
    BY <1>10 DEF ReplicaOK, CoreOK, Log
  <2>3. sent \subseteq Log(s) /\ \A w \in Log(s) : Covers(periodic[r].clock, w) \/ w \in sent
    BY <1>1, <1>3, SerialTypes DEF AnswerInv
  <2>4. \A w \in sent : w.accept_time < locals.time
    <3>1. periodic[s].at \notin LockSteps
      BY <1>3 DEF Serialized, LockHeld
    <3>2. \A w \in Log(s) : w.accept_time < replica[s].accept_time
      BY <1>3, <1>10, <3>1 DEF ReplicaOK, SettledOK, InHand, Log
    <3> QED
      BY <2>1, <2>3, <3>2
  <2>5. ASSUME NEW w \in E, Covers(periodic[r].clock, w)
        PROVE  Covers(replica[r].vector_clock, w)
    <3>1. w.accept_time \in Nat /\ w.replica_id \in Servers
      BY <1>10, EntryNumbers
    <3>2. ClockLeq(periodic[r].clock, replica[r].vector_clock)
      BY <1>5, <1>10 DEF ReplicaOK
    <3>3. periodic[r].clock \in VectorClocks /\ replica[r].vector_clock \in VectorClocks
      BY <1>4, <1>5, SerialTypes DEF AskLocals
    <3> QED
      BY <2>5, <3>1, <3>2, <3>3 DEF Covers, ClockLeq, VectorClocks
  <2>6. \A w \in Log(s) : w \in old \/ w \in sent
    BY <2>2, <2>3, <2>5 DEF CoveredBy
  <2>7. Keeps(replica[s].vector_clock, old \cup sent, E)
    <3>1. old \in SUBSET E
      BY DEF CoveredBy
    <3> HIDE DEF old, sent
    <3> QED
      BY <1>10, <2>2, <2>6, <3>1, AnswerKeeps
  <2> QED
    BY <2>1, <2>2, <2>3, <2>4, <2>7 DEF PullOK
<1>12. ReplicaOK(s, Idle, periodic[s], replica[s], E, T)
  <2>1. "copying" \notin WriteSteps /\ Idle.at \notin WriteSteps
    BY DEF WriteSteps, Idle
  <2> QED
    BY <1>3, <1>10, <2>1, QuietStep
<1>13. ASSUME NEW q \in Servers PROVE ReplicaInv(q)'
  <2>1. ReplicaOK(q, server'[q], periodic[q], replica[q], E, T)
    <3>1. CASE q = s
      BY <1>6, <1>12, <3>1
    <3>2. CASE q # s
      BY <1>6, <1>9, <3>2, SerialTypes
    <3> QED
      BY <3>1, <3>2
  <2>2. ReplicaOK(q, server'[q], periodic'[q], replica[q], E, T)
    <3>1. CASE q = r
      <4>1. SettledOK(server'[q], replica[q], E)
        BY <1>5, <2>1, <3>1 DEF ReplicaOK, LockSteps
      <4>2. /\ locals.at # "called"
            /\ locals.at \in PullSteps => locals.at = "answered"
        BY <1>8 DEF Dead, PullSteps, LockSteps
      <4>3. locals.at \in PullSteps => PullOK(locals, replica[q], E, T)
        BY <1>11, <3>1, <4>2
      <4>4. CoreOK(q, replica[q], E, T) /\ WriteOK(q, server'[q], replica[q], E)
        BY <2>1 DEF ReplicaOK
      <4>5. ReplicaOK(q, server'[q], locals, replica[q], E, T)
        BY <4>1, <4>2, <4>3, <4>4 DEF ReplicaOK
      <4> QED
        BY <1>6, <3>1, <4>5
    <3>2. CASE q # r
      BY <1>6, <2>1, <3>2
    <3> QED
      BY <3>1, <3>2
  <2> QED
    BY <1>3, <1>7, <1>9, <2>2 DEF ReplicaInv
<1>14. ASSUME NEW q \in Servers PROVE AnswerInv(q)'
  <2>1. SUFFICES ASSUME server'[q].at \in {"unlocked", "copying"} PROVE AnswerInv(q)'
    BY DEF AnswerInv
  <2>2. q # s /\ server'[q] = server[q]
    BY <1>6, <2>1 DEF Idle
  <2>3. /\ periodic[server[q].asker].peer = q /\ server[q].asker \in Servers
    BY <2>1, <2>2, SerialTypes, ServerAt DEF ThreadInv, Calls, AnswerLocals
  <2>4. periodic[r].peer = s
    BY <1>1, <1>3, SerialTypes DEF ThreadInv, Calls
  <2>5. periodic'[server[q].asker] = periodic[server[q].asker]
    BY <1>6, <2>2, <2>3, <2>4
  <2> QED
    BY <1>3, <2>1, <2>2, <2>5, SerialTypes DEF AnswerInv, Log
<1>15. UniquelyStamped(accepted')
  BY <1>3, SerialTypes
<1> QED
  BY <1>13, <1>14, <1>15 DEF SerialInv

(* The periodic thread asks, with a clock its own only grows away from. *)
LEMMA AskSerialInv ==
  ASSUME SerialInv, ThreadInv', NEW r \in Servers,
         BeginRound(r) \/ EndRound(r) \/ SendRequest(r) \/ \E s \in Servers : NextPeer(r, s)
  PROVE  SerialInv'
<1> DEFINE me == periodic[r]
           f == replica[r]
<1>1. PICK locals :
        /\ periodic' = [periodic EXCEPT ![r] = locals]
        /\ replica' = [replica EXCEPT ![r] = f]
        /\ server' = server /\ accepted' = accepted
        /\ me.at \in {"asleep", "next", "copying"}
        /\ \/ locals = [at |-> "next", to_ask |-> Reachable[r]]
           \/ locals = [at |-> "asleep"]
           \/ locals = Dead
           \/ /\ locals = [me EXCEPT !.at = "called", !.clock = f.vector_clock, !.keys = {}]
              /\ me.at = "copying"
           \/ \E s \in Servers :
                locals = [at |-> "copying", to_ask |-> me.to_ask \ {s}, peer |-> s,
                          clock |-> NoClock, keys |-> f.clock_keys]
  <2>1. CASE BeginRound(r)
    BY <2>1 DEF BeginRound, PeriodicStep
  <2>2. CASE EndRound(r)
    BY <2>2 DEF EndRound, PeriodicStep
  <2>3. CASE SendRequest(r)
    BY <2>3 DEF SendRequest, PeriodicStep
  <2>4. CASE \E s \in Servers : NextPeer(r, s)
    BY <2>4 DEF NextPeer, PeriodicStep
  <2> QED
    BY <2>1, <2>2, <2>3, <2>4
<1>2. /\ me \in PeriodicLocals /\ f.vector_clock \in VectorClocks /\ f.accept_time \in Nat
      /\ ReplicaOK(r, server[r], me, f, accepted, Times)
  BY SerialTypes
<1>3. replica' = replica
  BY <1>1, SerialTypes DEF ThreadInv, ThreadTypeOK
<1>4. /\ locals.at \notin PullSteps
      /\ locals.at = "called" => locals.clock = f.vector_clock
  <2> HIDE DEF me, f
  <2>1. CASE locals = [me EXCEPT !.at = "called", !.clock = f.vector_clock, !.keys = {}]
             /\ me.at = "copying"
    <3>1. me \in AskLocals
      BY <1>2, <2>1, LocalsAt
    <3>2. locals.at = "called" /\ locals.clock = f.vector_clock
      BY <2>1, <3>1 DEF AskLocals
    <3> QED
      BY <3>2 DEF PullSteps, LockSteps
  <2>2. CASE locals.at \in {"next", "asleep", "dead", "copying"}
    BY <2>2 DEF PullSteps, LockSteps
  <2>3. \/ locals.at \in {"next", "asleep", "dead", "copying"}
        \/ /\ locals = [me EXCEPT !.at = "called", !.clock = f.vector_clock, !.keys = {}]
           /\ me.at = "copying"
    BY <1>1 DEF Dead, me, f
  <2> QED
    BY <2>1, <2>2, <2>3
<1>5. ClockLeq(f.vector_clock, f.vector_clock)
  BY <1>2 DEF ClockLeq, VectorClocks
<1>6. SettledOK(server[r], f, accepted)
  BY <1>1, <1>2 DEF ReplicaOK, LockSteps
<1>7. ReplicaOK(r, server[r], locals, f, accepted, Times)
  BY <1>2, <1>4, <1>5, <1>6 DEF ReplicaOK
<1>8. Times' = Times
  BY <1>3 DEF Times
<1>9. ReplicaOK(r, server[r], locals, f, accepted, Times') /\ me.at # "called"
  BY <1>1, <1>7, <1>8
<1>10. replica[r].accept_time <= f.accept_time /\ f.write_log = replica[r].write_log
  BY <1>2
<1> QED
  BY <1>1, <1>9, <1>10, SerialPeriodicSteps

(* SerialInv at a replica that has its answer. *)
LEMMA PullingNow ==
  ASSUME SerialInv, NEW r \in Servers, periodic[r].at \in PullSteps
  PROVE  /\ Pulling(r, periodic[r], replica[r], accepted, Times)
         /\ periodic[r].at # "called"
<1>1. periodic[r].at # "called"
  BY DEF PullSteps, LockSteps
<1>2. /\ CoreOK(r, replica[r], accepted, Times)
      /\ PullOK(periodic[r], replica[r], accepted, Times)
  BY SerialTypes DEF ReplicaOK
<1>3. periodic[r] \in PullLocals
  BY SerialTypes, LocalsAt
<1> QED
  BY <1>1, <1>2, <1>3, SerialTypes DEF Pulling

(* A merge runs while the server thread waits. *)
LEMMA MergeAlone ==
  ASSUME SerialInv, Serialized', NEW r \in Servers, NEW at, NEW locals, NEW fields,
         PeriodicStep(r, at, locals, fields), locals.at \in LockSteps
  PROVE  server[r].at = "idle"
<1>1. server' = server /\ periodic'[r] = locals
  BY SerialTypes DEF PeriodicStep, ThreadInv, ThreadTypeOK
<1> QED
  BY <1>1 DEF Serialized, LockHeld

(* A step that stays in the merge and lets no time pass. *)
LEMMA PullStep ==
  ASSUME SerialInv, ThreadInv', Serialized', NEW r \in Servers, NEW at, NEW locals, NEW fields,
         periodic[r].at \in PullSteps,
         PeriodicStep(r, at, locals, fields),
         locals.at \in LockSteps, fields.accept_time = replica[r].accept_time,
         CoreOK(r, fields, accepted, Times),
         PullOK(locals, fields, accepted, Times)
  PROVE  SerialInv'
<1>1. /\ replica' = [replica EXCEPT ![r] = fields]
      /\ periodic' = [periodic EXCEPT ![r] = locals]
      /\ server' = server /\ accepted' = accepted
  BY DEF PeriodicStep
<1>2. /\ periodic'[r] = locals /\ replica'[r] = fields
      /\ \A q \in Servers \ {r} : replica'[q] = replica[q]
  BY <1>1, SerialTypes DEF ThreadInv, ThreadTypeOK
<1>3. server[r].at = "idle"
  BY MergeAlone
<1>4. Times' = Times
  <2>1. \A q \in Servers : replica'[q].accept_time = replica[q].accept_time
    BY <1>2
  <2> QED
    BY <2>1 DEF Times
<1>5. WriteOK(r, server[r], fields, accepted)
  <2>1. WriteOK(r, server[r], replica[r], accepted)
    BY SerialTypes DEF ReplicaOK
  <2> QED
    BY <1>3, <2>1 DEF WriteOK, WriteSteps, InHand
<1>6. ReplicaOK(r, server[r], locals, fields, accepted, Times)
  BY <1>5 DEF ReplicaOK, LockSteps
<1>7. ReplicaOK(r, server[r], locals, fields, accepted, Times')
  BY <1>4, <1>6
<1>8. replica[r].accept_time <= fields.accept_time /\ periodic[r].at # "called"
  BY SerialTypes, PullingNow
<1> QED
  BY <1>1, <1>3, <1>7, <1>8, SerialPeriodicSteps

(* The merge replaces the log. *)
LEMMA MergeLogSerialInv ==
  ASSUME SerialInv, ThreadInv', Serialized', NEW r \in Servers, MergeLog(r)
  PROVE  SerialInv'
<1> DEFINE me == periodic[r]
           f  == replica[r]
<1>1. \/ PeriodicStep(r, "answered",
           [me EXCEPT !.at = IF me.new_writes = <<>> THEN "clock" ELSE "prune_log",
              !.new_writes = Pruned(@, f.write_log)], f)
      \/ PeriodicStep(r, "prune_log",
           [me EXCEPT !.at = "swap", !.log = Pruned(f.write_log, me.new_writes)], f)
      \/ PeriodicStep(r, "swap", [me EXCEPT !.at = "sort"],
           [f EXCEPT !.write_log = me.log \o me.new_writes, !.looked_up = FALSE])
      \/ \E l \in SortsOf(f.write_log) :
           PeriodicStep(r, "sort", [me EXCEPT !.at = "assign", !.log = l], f)
      \/ PeriodicStep(r, "assign", [me EXCEPT !.at = "replay"],
           [f EXCEPT !.write_log = me.log, !.looked_up = FALSE])
  BY DEF MergeLog
<1>2. me.at \in PullSteps
  BY <1>1 DEF PeriodicStep, PullSteps, LockSteps
<1>3. PICK E, T : E = accepted /\ T = Times
  OBVIOUS
<1>4. Pulling(r, me, f, E, T) /\ CoreOK(r, f, E, T)
  BY <1>2, <1>3, PullingNow DEF Pulling
<1>5. /\ me \in PullLocals /\ f \in Fields
      /\ me.log \in Seq(Entries) /\ me.log \o me.new_writes \in Seq(Entries)
  BY <1>4, PullingTypes, RangeOfConcat DEF Pulling
<1>6. ASSUME NEW locals, NEW fields, NEW at, PeriodicStep(r, at, locals, fields),
             locals.at \in LockSteps, fields.accept_time = f.accept_time,
             CoreOK(r, fields, E, T), PullOK(locals, fields, E, T)
      PROVE  SerialInv'
  BY <1>2, <1>3, <1>6, PullStep
<1>7. {"clock", "prune_log", "swap", "sort", "assign", "replay"} \subseteq LockSteps
  BY DEF LockSteps
<1>8. \A at, locals, fields : PeriodicStep(r, at, locals, fields) => me.at = at
  BY DEF PeriodicStep
<1> HIDE DEF me, f
<1>9. CASE PeriodicStep(r, "answered",
             [me EXCEPT !.at = IF me.new_writes = <<>> THEN "clock" ELSE "prune_log",
                !.new_writes = Pruned(@, f.write_log)], f)
  <2>1. PICK locals : locals =
          [me EXCEPT !.at = IF me.new_writes = <<>> THEN "clock" ELSE "prune_log",
                     !.new_writes = Pruned(@, f.write_log)]
    OBVIOUS
  <2>2. /\ me.at = "answered" /\ locals.time = me.time
        /\ locals.at = IF me.new_writes = <<>> THEN "clock" ELSE "prune_log"
        /\ locals.new_writes = Pruned(me.new_writes, f.write_log) /\ locals.clock = me.clock
    BY <1>5, <1>8, <1>9, <2>1 DEF PullLocals
  <2>3. PeriodicStep(r, "answered", locals, f) /\ locals.at \in LockSteps
    BY <1>7, <1>9, <2>1, <2>2
  <2>4. server[r].at = "idle"
    BY <2>3, MergeAlone
  <2>5. SettledOK(server[r], f, E)
    <3>1. ReplicaOK(r, server[r], me, f, E, T)
      BY <1>3, SerialTypes DEF me, f
    <3> QED
      BY <2>2, <3>1 DEF ReplicaOK, LockSteps
  <2>6. PullOK(locals, f, E, T)
    BY <1>4, <2>2, <2>4, <2>5, PruneNew
  <2> QED
    BY <1>4, <1>6, <2>3, <2>6
<1>10. CASE PeriodicStep(r, "prune_log",
             [me EXCEPT !.at = "swap", !.log = Pruned(f.write_log, me.new_writes)], f)
  <2>1. PICK locals : locals =
          [me EXCEPT !.at = "swap", !.log = Pruned(f.write_log, me.new_writes)]
    OBVIOUS
  <2>2. /\ me.at = "prune_log" /\ locals.time = me.time /\ locals.at = "swap"
        /\ locals.new_writes = me.new_writes /\ locals.clock = me.clock
        /\ locals.log = Pruned(f.write_log, me.new_writes)
    BY <1>5, <1>8, <1>10, <2>1 DEF PullLocals
  <2>3. PullOK(locals, f, E, T)
    BY <1>4, <2>2, PruneLog
  <2> QED
    BY <1>4, <1>6, <1>7, <1>10, <2>1, <2>2, <2>3
<1>11. CASE PeriodicStep(r, "swap", [me EXCEPT !.at = "sort"],
              [f EXCEPT !.write_log = me.log \o me.new_writes, !.looked_up = FALSE])
  <2>1. PICK locals : locals = [me EXCEPT !.at = "sort"]
    OBVIOUS
  <2>2. PICK fields :
          fields = [f EXCEPT !.write_log = me.log \o me.new_writes, !.looked_up = FALSE]
    OBVIOUS
  <2>3. /\ me.at = "swap" /\ locals.time = me.time /\ locals.at = "sort"
        /\ locals.new_writes = me.new_writes /\ locals.clock = me.clock
    BY <1>5, <1>8, <1>11, <2>1 DEF PullLocals
  <2>4. /\ fields.write_log = me.log \o me.new_writes
        /\ fields.vector_clock = f.vector_clock /\ fields.kv_store = f.kv_store
        /\ fields.accept_time = f.accept_time
    BY <1>5, <2>2, FieldsWithList, Zenon
  <2>5. CoreOK(r, fields, E, T) /\ PullOK(locals, fields, E, T)
    BY <1>4, <2>3, <2>4, SwapLog
  <2>6. PeriodicStep(r, "swap", locals, fields)
    BY <1>11, <2>1, <2>2, Zenon
  <2> QED
    BY <1>6, <1>7, <2>3, <2>4, <2>5, <2>6
<1>12. CASE \E l \in SortsOf(f.write_log) :
              PeriodicStep(r, "sort", [me EXCEPT !.at = "assign", !.log = l], f)
  <2>1. PICK l \in SortsOf(f.write_log) :
          PeriodicStep(r, "sort", [me EXCEPT !.at = "assign", !.log = l], f)
    BY <1>12
  <2>2. PICK locals : locals = [me EXCEPT !.at = "assign", !.log = l]
    OBVIOUS
  <2>3. /\ me.at = "sort" /\ locals.time = me.time /\ locals.at = "assign"
        /\ locals.new_writes = me.new_writes /\ locals.clock = me.clock /\ locals.log = l
    BY <1>5, <1>8, <2>1, <2>2 DEF PullLocals
  <2>4. PullOK(locals, f, E, T)
    BY <1>4, <2>1, <2>3, SortLog
  <2> QED
    BY <1>4, <1>6, <1>7, <2>1, <2>2, <2>3, <2>4
<1>13. CASE PeriodicStep(r, "assign", [me EXCEPT !.at = "replay"],
              [f EXCEPT !.write_log = me.log, !.looked_up = FALSE])
  <2>1. PICK locals : locals = [me EXCEPT !.at = "replay"]
    OBVIOUS
  <2>2. PICK fields : fields = [f EXCEPT !.write_log = me.log, !.looked_up = FALSE]
    OBVIOUS
  <2>3. /\ me.at = "assign" /\ locals.time = me.time /\ locals.at = "replay"
        /\ locals.new_writes = me.new_writes /\ locals.clock = me.clock
    BY <1>5, <1>8, <1>13, <2>1 DEF PullLocals
  <2>4. /\ fields.write_log = me.log
        /\ fields.vector_clock = f.vector_clock /\ fields.kv_store = f.kv_store
        /\ fields.accept_time = f.accept_time
    BY <1>5, <2>2, FieldsWithList, Zenon
  <2>5. CoreOK(r, fields, E, T) /\ PullOK(locals, fields, E, T)
    BY <1>4, <2>3, <2>4, AssignLog
  <2>6. PeriodicStep(r, "assign", locals, fields)
    BY <1>13, <2>1, <2>2, Zenon
  <2> QED
    BY <1>6, <1>7, <2>3, <2>4, <2>5, <2>6
<1> QED
  BY <1>1, <1>9, <1>10, <1>11, <1>12, <1>13 DEF me, f

(* The merge replaces the store and raises the clock and the time. *)
LEMMA MergeSerialInv ==
  ASSUME SerialInv, ThreadInv', Serialized, Serialized', NEW r \in Servers, Merge(r)
  PROVE  SerialInv'
<1> DEFINE me == periodic[r]
           f  == replica[r]
<1>1. CASE MergeLog(r)
  BY <1>1, MergeLogSerialInv
<1>2. ASSUME me.at \in PullSteps
      PROVE  /\ Pulling(r, me, f, accepted, Times) /\ CoreOK(r, f, accepted, Times)
             /\ me \in PullLocals /\ f \in Fields
  BY <1>2, PullingNow DEF Pulling
<1>3. /\ {"replay", "store", "clock", "clock_store", "time_store"} \subseteq LockSteps
      /\ LockSteps \subseteq PullSteps
  BY DEF PullSteps, LockSteps
<1>4. PICK E, T : E = accepted /\ T = Times
  OBVIOUS
<1>5. CASE RebuildStore(r)
  <2>1. me.at \in PullSteps
    BY <1>3, <1>5 DEF RebuildStore, PeriodicStep
  <2>2. Pulling(r, me, f, E, T) /\ CoreOK(r, f, E, T) /\ me \in PullLocals /\ f \in Fields
    BY <1>2, <1>4, <2>1
  <2>3. CASE PeriodicStep(r, "replay", [me EXCEPT !.at = "store", !.store = ReplayList(f.write_log)], f)
    <3>1. PICK locals : locals = [me EXCEPT !.at = "store", !.store = ReplayList(f.write_log)]
      OBVIOUS
    <3>2. /\ me.at = "replay" /\ locals.time = me.time /\ locals.at = "store"
          /\ locals.new_writes = me.new_writes /\ locals.clock = me.clock
          /\ locals.store = ReplayList(f.write_log)
      BY <2>2, <2>3, <3>1 DEF PullLocals, PeriodicStep
    <3>3. PullOK(locals, f, E, T)
      BY <2>2, <3>2, ReplayLog
    <3> QED
      BY <1>3, <1>4, <2>1, <2>2, <2>3, <3>1, <3>2, <3>3, PullStep
  <2>4. CASE PeriodicStep(r, "store", [me EXCEPT !.at = "clock"], [f EXCEPT !.kv_store = me.store])
    <3>1. PICK locals : locals = [me EXCEPT !.at = "clock"]
      OBVIOUS
    <3>2. PICK fields : fields = [f EXCEPT !.kv_store = me.store]
      OBVIOUS
    <3>3. /\ me.at = "store" /\ locals.time = me.time /\ locals.at = "clock"
          /\ locals.new_writes = me.new_writes /\ locals.clock = me.clock
      BY <2>2, <2>4, <3>1 DEF PullLocals, PeriodicStep
    <3>4. /\ fields.kv_store = me.store
          /\ fields.write_log = f.write_log /\ fields.vector_clock = f.vector_clock
          /\ fields.accept_time = f.accept_time
      BY <2>2, <3>2 DEF Fields
    <3>5. CoreOK(r, fields, E, T) /\ PullOK(locals, fields, E, T)
      BY <2>2, <3>3, <3>4, SetStore
    <3> QED
      BY <1>3, <1>4, <2>1, <2>4, <3>1, <3>2, <3>3, <3>4, <3>5, PullStep
  <2> QED
    BY <1>5, <2>3, <2>4 DEF RebuildStore
<1>6. CASE \E s \in Servers : LoadClock(r, s)
  <2>1. PICK s \in Servers : LoadClock(r, s)
    BY <1>6
  <2>2. PICK locals : locals = [me EXCEPT !.at = "clock_store", !.keys = @ \ {s}, !.key = s,
                                          !.loaded = f.vector_clock[s]]
    OBVIOUS
  <2>3. PICK fields : fields = [f EXCEPT !.clock_keys = @ \cup {s}]
    OBVIOUS
  <2>4. me.at = "clock" /\ PeriodicStep(r, "clock", locals, fields)
    BY <2>1, <2>2, <2>3 DEF LoadClock
  <2>5. me.at \in PullSteps
    BY <1>3, <2>4
  <2>6. Pulling(r, me, f, E, T) /\ CoreOK(r, f, E, T) /\ me \in PullLocals /\ f \in Fields
    BY <1>2, <1>4, <2>5
  <2>7. /\ locals.time = me.time /\ locals.at = "clock_store"
        /\ locals.new_writes = me.new_writes /\ locals.clock = me.clock
        /\ locals.loaded = f.vector_clock[locals.key]
    BY <2>2, <2>6 DEF PullLocals
  <2>8. /\ fields.write_log = f.write_log /\ fields.vector_clock = f.vector_clock
        /\ fields.kv_store = f.kv_store /\ fields.accept_time = f.accept_time
    BY <2>3, <2>6 DEF Fields
  <2>9. CoreOK(r, fields, E, T) /\ PullOK(locals, fields, E, T)
    BY <2>4, <2>6, <2>7, <2>8, LoadKey
  <2> QED
    BY <1>3, <1>4, <2>4, <2>5, <2>7, <2>8, <2>9, PullStep
<1>7. CASE StoreClock(r)
  <2>1. PICK locals : locals = [me EXCEPT !.at = "clock", !.key = r, !.loaded = 0]
    OBVIOUS
  <2>2. PICK fields : fields =
          [f EXCEPT !.vector_clock[me.key] = Maximum(me.loaded, me.clock[me.key])]
    OBVIOUS
  <2>3. me.at = "clock_store" /\ PeriodicStep(r, "clock_store", locals, fields)
    BY <1>7, <2>1, <2>2 DEF StoreClock
  <2>4. me.at \in PullSteps
    BY <1>3, <2>3
  <2>5. Pulling(r, me, f, E, T) /\ CoreOK(r, f, E, T) /\ me \in PullLocals /\ f \in Fields
    BY <1>2, <1>4, <2>4
  <2>6. /\ locals.time = me.time /\ locals.at = "clock"
        /\ locals.new_writes = me.new_writes /\ locals.clock = me.clock
    BY <2>1, <2>5 DEF PullLocals
  <2>7. /\ fields.vector_clock =
             [f.vector_clock EXCEPT ![me.key] = Maximum(me.loaded, me.clock[me.key])]
        /\ fields.write_log = f.write_log /\ fields.kv_store = f.kv_store
        /\ fields.accept_time = f.accept_time
    BY <2>2, <2>5 DEF Fields
  <2>8. CoreOK(r, fields, E, T) /\ PullOK(locals, fields, E, T)
    BY <2>3, <2>5, <2>6, <2>7, StoreKey
  <2> QED
    BY <1>3, <1>4, <2>3, <2>4, <2>6, <2>7, <2>8, PullStep
<1>8. CASE MergeTime(r)
  <2>1. me.at \in PullSteps
    BY <1>3, <1>8 DEF MergeTime
  <2>2. Pulling(r, me, f, E, T) /\ CoreOK(r, f, E, T) /\ me \in PullLocals /\ f \in Fields
    BY <1>2, <1>4, <2>1
  <2>3. CASE PeriodicStep(r, "clock", [me EXCEPT !.at = "time_store", !.loaded = f.accept_time], f)
    <3>1. PICK locals : locals = [me EXCEPT !.at = "time_store", !.loaded = f.accept_time]
      OBVIOUS
    <3>2. /\ locals.time = me.time /\ locals.at = "time_store"
          /\ locals.new_writes = me.new_writes /\ locals.clock = me.clock
      BY <2>2, <3>1 DEF PullLocals
    <3>3. me.at = "clock" /\ locals.loaded = f.accept_time
      BY <2>2, <2>3, <3>1 DEF PullLocals, PeriodicStep
    <3>4. PullOK(locals, f, E, T)
      BY <2>2, <3>2, <3>3, LoadAcceptTime
    <3> QED
      BY <1>3, <1>4, <2>1, <2>2, <2>3, <3>1, <3>2, <3>4, PullStep
  <2>4. CASE PeriodicStep(r, "time_store", [at |-> "next", to_ask |-> me.to_ask],
               [f EXCEPT !.accept_time = Maximum(me.loaded, me.time)])
    <3>1. PICK locals : locals = [at |-> "next", to_ask |-> me.to_ask]
      OBVIOUS
    <3>2. PICK fields : fields = [f EXCEPT !.accept_time = Maximum(me.loaded, me.time)]
      OBVIOUS
    <3>3. /\ fields.write_log = f.write_log /\ fields.vector_clock = f.vector_clock
          /\ fields.kv_store = f.kv_store
          /\ fields.accept_time = Maximum(me.loaded, me.time)
      BY <2>2, <3>2 DEF Fields
    <3>4. /\ replica' = [replica EXCEPT ![r] = fields]
          /\ periodic' = [periodic EXCEPT ![r] = locals]
          /\ server' = server /\ accepted' = accepted /\ me.at = "time_store"
      BY <2>4, <3>1, <3>2 DEF PeriodicStep
    <3>5. server[r].at = "idle"
      BY <3>4 DEF Serialized, LockHeld, LockSteps
    <3>6. me.loaded = f.accept_time /\ f.accept_time \in Nat /\ me.time \in Nat
      BY <2>2, <3>4, PullingTypes DEF Pulling, PullOK
    <3>7. replica[r].accept_time <= fields.accept_time
      BY <3>3, <3>6 DEF Maximum
    <3>8. PICK T2 : T2 = Times'
      OBVIOUS
    <3>9. Later(E, T, E, T2)
      BY <1>4, <3>4, <3>7, <3>8, TimeGoesOn
    <3>10. WriteOK(r, server[r], f, E)
      BY <1>4, SerialTypes DEF ReplicaOK
    <3>11. CoreOK(r, fields, E, T2) /\ WriteOK(r, server[r], fields, E)
           /\ SettledOK(server[r], fields, E)
      <4> HIDE DEF me, f
      <4> QED
        BY <2>2, <3>3, <3>4, <3>5, <3>9, <3>10, StoreAcceptTime
    <3>12. locals.at = "next" /\ locals.at \notin PullSteps
      BY <3>1 DEF PullSteps, LockSteps
    <3>13. ReplicaOK(r, server[r], locals, fields, accepted, Times')
      BY <1>4, <3>8, <3>11, <3>12 DEF ReplicaOK
    <3> QED
      BY <3>4, <3>5, <3>7, <3>13, SerialPeriodicSteps
  <2> QED
    BY <1>8, <2>3, <2>4 DEF MergeTime
<1> QED
  BY <1>1, <1>5, <1>6, <1>7, <1>8 DEF Merge

-----------------------------------------------------------------------------
(* Every step between Serialized states preserves SerialInv. *)
LEMMA NextSerialInv ==
  SerialInv /\ Serialized /\ Serialized' /\ [Next]_vars => SerialInv'
<1> SUFFICES ASSUME SerialInv, Serialized, Serialized', [Next]_vars PROVE SerialInv'
  OBVIOUS
<1>1. ThreadInv'
  BY NextThreadInv DEF SerialInv
<1>2. CASE UNCHANGED vars
  BY <1>1, <1>2 DEF SerialInv, ReplicaInv, AnswerInv, Times, Log, vars
<1>3. ASSUME NEW r \in Servers, ServerThread(r) PROVE SerialInv'
  BY <1>1, <1>3, AppendSerialInv, WriteStepSerialInv, ScanSerialInv, BeginCopySerialInv,
     AnswerSerialInv DEF ServerThread
<1>4. ASSUME NEW r \in Servers, PeriodicThread(r) PROVE SerialInv'
  BY <1>1, <1>4, AskSerialInv, MergeSerialInv DEF PeriodicThread
<1> QED
  BY <1>1, <1>2, <1>3, <1>4, CallSerialInv DEF Next

(***************************************************************************)
(* SerialInv says more than both properties, but for the entry in hand,    *)
(* which no clock covers yet.                                              *)
(***************************************************************************)
LEMMA SerialInvSafe == SerialInv /\ Serialized => ClaimedIsHeld /\ ReadsAreFresh
<1> SUFFICES ASSUME SerialInv, Serialized, NEW r \in Servers, NEW w \in accepted,
                    Covers(replica[r].vector_clock, w)
             PROVE  /\ w \in Log(r) \/ Superseded(w, Log(r))
                    /\ ~ Superseded(w, Log(r)) => Fresh(w, replica[r].kv_store, accepted)
  BY DEF ClaimedIsHeld, ReadsAreFresh, Fresh
<1>1. PICK f, srv, me : f = replica[r] /\ srv = server[r] /\ me = periodic[r]
  OBVIOUS
<1>2. ReplicaOK(r, srv, me, f, accepted, Times)
  BY <1>1, SerialTypes
<1>3. w \in Log(r) \/ Superseded(w, Log(r))
  BY <1>1, <1>2 DEF ReplicaOK, CoreOK, Keeps, Held, Log
<1>4. ASSUME w \in Log(r) PROVE Fresh(w, f.kv_store, accepted) \/ Superseded(w, Log(r))
  <2>1. CASE me.at \in LockSteps
    <3>1. PullOK(me, f, accepted, Times)
      BY <1>2, <2>1 DEF ReplicaOK, PullSteps
    <3> QED
      BY <1>1, <1>4, <2>1, <3>1 DEF PullOK, AllFresh, Log, LockSteps
  <2>2. CASE me.at \notin LockSteps
    <3>1. SettledOK(srv, f, accepted) /\ WriteOK(r, srv, f, accepted)
      BY <1>2, <2>2 DEF ReplicaOK
    <3>2. ~ (srv.at = "store" /\ w = srv.entry)
      <4> SUFFICES ASSUME srv.at = "store", w = srv.entry PROVE FALSE
        OBVIOUS
      <4>1. w.replica_id = r /\ w.accept_time = f.accept_time
        BY <3>1 DEF WriteOK, WriteSteps
      <4>2. f.vector_clock[r] <= f.accept_time
        BY <1>1, <1>2, SerialTypes DEF ReplicaOK, CoreOK, ClockLeq
      <4>3. f.accept_time \in Nat /\ f.vector_clock \in VectorClocks
        BY <1>1, SerialTypes
      <4> QED
        BY <1>1, <4>1, <4>2, <4>3 DEF Covers, VectorClocks
    <3> QED
      BY <1>1, <1>4, <3>1, <3>2 DEF SettledOK, Log
  <2> QED
    BY <2>1, <2>2
<1> QED
  BY <1>1, <1>3, <1>4

(***************************************************************************)
(* In any topology, however the accesses of the threads of different       *)
(* replicas interleave and however old an answer is: as long as no call is *)
(* under way at a replica during its merge, what a clock covers is in the  *)
(* log or overwritten there.  The overlap of a call with a merge, which    *)
(* replica_server.py:98-111 and 150 do not lock out, is the only way to    *)
(* lose an entry.                                                          *)
(***************************************************************************)
THEOREM SerialCallsKeepWhatTheyClaim == Spec => ClaimsKeptIfSerial
<1>1. SerialInv /\ Serialized /\ Serialized' /\ [Next]_vars => SerialInv'
  BY NextSerialInv
<1>2. SerialInv /\ Serialized => ClaimedIsHeld
  BY SerialInvSafe
<1> QED
  BY <1>1, <1>2, InitSerialInv, PTL DEF Spec, ClaimsKeptIfSerial

(***************************************************************************)
(* Under the same condition a read() that a clock lets in is answered with *)
(* the value of the last entry it covers or a later one, although the      *)
(* merge puts the store and the keys of the clock in place one by one.     *)
(***************************************************************************)
THEOREM SerialCallsServeFreshReads == Spec => FreshIfSerial
<1>1. SerialInv /\ Serialized /\ Serialized' /\ [Next]_vars => SerialInv'
  BY NextSerialInv
<1>2. SerialInv /\ Serialized => ReadsAreFresh
  BY SerialInvSafe
<1> QED
  BY <1>1, <1>2, InitSerialInv, PTL DEF Spec, FreshIfSerial

(* No clock goes back, its own replica's key included. *)
KnowledgeGrows ==
  \A r \in Servers : ClockLeq(replica[r].vector_clock, replica'[r].vector_clock)

(***************************************************************************)
(* Under the same condition a replica's own key of the clock, which both   *)
(* threads assign (replica_server.py:110 and 186), never goes back either. *)
(***************************************************************************)
THEOREM SerialKnowledgeGrows == Spec /\ []Serialized => [][KnowledgeGrows]_vars
<1> DEFINE Step == [KnowledgeGrows]_vars
<1>1. SerialInv /\ Serialized /\ Serialized' /\ [Next]_vars => SerialInv'
  BY NextSerialInv
<1>2. SerialInv /\ [Next]_vars => Step
  <2> SUFFICES ASSUME SerialInv, Next, NEW q \in Servers, NEW s \in Servers
               PROVE  replica[q].vector_clock[s] <= replica'[q].vector_clock[s]
    BY DEF KnowledgeGrows, ClockLeq
  <2>1. ThreadInv /\ \A r \in Servers : replica[r].vector_clock \in VectorClocks
    BY SerialTypes DEF SerialInv
  <2>2. CASE SameClocks
    BY <2>1, <2>2 DEF SameClocks, VectorClocks
  <2>3. ASSUME NEW r \in Servers, server[r].at = "own_clock",
               KeyAssigned(r, r, server[r].loaded)
        PROVE  replica[q].vector_clock[s] <= replica'[q].vector_clock[s]
    <3>1. server[r].loaded = replica[r].accept_time
      BY <2>3, SerialTypes DEF ReplicaOK, WriteOK
    <3>2. replica[r].vector_clock[r] <= replica[r].accept_time
      BY SerialTypes DEF ReplicaOK, CoreOK, ClockLeq
    <3> QED
      BY <2>1, <2>3, <3>1, <3>2 DEF KeyAssigned, VectorClocks
  <2>4. ASSUME NEW r \in Servers, NEW me, me = periodic[r],
               me.at = "clock_store", me \in PullLocals,
               KeyAssigned(r, me.key, Maximum(me.loaded, me.clock[me.key]))
        PROVE  replica[q].vector_clock[s] <= replica'[q].vector_clock[s]
    <3>1. me.loaded = replica[r].vector_clock[me.key]
      BY <2>4, SerialTypes DEF ReplicaOK, PullOK, PullSteps, LockSteps
    <3>2. me.key \in Servers /\ me.loaded \in Nat /\ me.clock[me.key] \in Nat
      BY <2>4 DEF PullLocals, VectorClocks
    <3>3. me.loaded <= Maximum(me.loaded, me.clock[me.key])
      BY <3>2 DEF Maximum
    <3> QED
      BY <2>1, <2>4, <3>1, <3>2, <3>3 DEF KeyAssigned, VectorClocks
  <2> QED
    BY <2>1, <2>2, <2>3, <2>4, CallSameClocks, ServerThreadClocks, PeriodicThreadClocks DEF Next
<1> QED
  BY <1>1, <1>2, InitSerialInv, PTL DEF Spec
=============================================================================
