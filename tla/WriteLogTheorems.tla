-------------------------- MODULE WriteLogTheorems --------------------------
(***************************************************************************)
(* Facts about the functions of WriteLog, for logs of any size.            *)
(***************************************************************************)
EXTENDS WriteLog, TLAPS, WellFoundedInduction

(* The fields of an entry that are compared as numbers are numbers. *)
LEMMA EntryNumbers ==
  ASSUME NEW w \in Entries
  PROVE  /\ w.accept_time \in Nat
         /\ w.client_time \in Nat
         /\ w.replica_id \in Servers /\ w.replica_id \in Nat
<1>1. w.client_time \in ClientTimes /\ w.replica_id \in Servers /\ w.accept_time \in Nat
  BY DEF Entries
<1> QED
  BY <1>1, IdAssumption DEF IdAssumption

(* Being overwritten is transitive: client_time is a number. *)
LEMMA OverwritesTransitive ==
  ASSUME NEW x \in Entries, NEW y \in Entries, NEW z \in Entries,
         Overwrites(x, y), Overwrites(y, z)
  PROVE  Overwrites(x, z)
  BY EntryNumbers DEF Overwrites

(* No two entries are each before the other. *)
LEMMA BeforeAsymmetric ==
  ASSUME NEW x \in Entries, NEW y \in Entries, Before(x, y)
  PROVE  ~ Before(y, x)
  BY EntryNumbers DEF Before

(***************************************************************************)
(* addNewWritesToWriteLog invents nothing and drops an entry, received or  *)
(* old, only for one that overwrites it and stays.                         *)
(***************************************************************************)
LEMMA AddNewWritesComplete ==
  ASSUME NEW log \in SUBSET Entries, NEW new \in SUBSET Entries
  PROVE  /\ AddNewWrites(log, new) \subseteq log \cup new
         /\ \A w \in log \cup new :
              w \in AddNewWrites(log, new) \/ Superseded(w, AddNewWrites(log, new))
<1> DEFINE kept == {w \in new : ~ Superseded(w, log)}
           old == {w \in log : ~ Superseded(w, kept)}
<1>1. AddNewWrites(log, new) = old \cup kept
  BY DEF AddNewWrites
<1>2. \A w \in log : w \in old \/ Superseded(w, kept)
  OBVIOUS
<1>3. \A w \in new : w \in kept \/ Superseded(w, old \cup kept)
  <2> SUFFICES ASSUME NEW w \in new, w \notin kept
               PROVE  Superseded(w, old \cup kept)
    OBVIOUS
  <2>1. PICK x \in log : Overwrites(x, w)
    BY DEF Superseded
  <2>2. CASE x \in old
    BY <2>1, <2>2 DEF Superseded
  <2>3. CASE x \notin old
    <3>1. PICK y \in kept : Overwrites(y, x)
      BY <1>2, <2>3 DEF Superseded
    <3>2. Overwrites(y, w)
      BY <2>1, <3>1, OverwritesTransitive
    <3> QED
      BY <3>1, <3>2 DEF Superseded
  <2> QED
    BY <2>2, <2>3
<1> QED
  BY <1>1, <1>2, <1>3 DEF Superseded

(* Pruning each side against the other keeps the union in session order.   *)
InSessionOrder(log) == \A x, y \in log : Overwrites(x, y) => Before(y, x)

LEMMA AddNewWritesInSessionOrder ==
  ASSUME NEW log \in SUBSET Entries, NEW new \in SUBSET Entries,
         InSessionOrder(log), InSessionOrder(new)
  PROVE  InSessionOrder(AddNewWrites(log, new))
  BY DEF AddNewWrites, InSessionOrder, Superseded

-----------------------------------------------------------------------------
(***************************************************************************)
(* A non-empty set of natural numbers has a least element.                 *)
(***************************************************************************)
LEMMA LeastElement ==
  ASSUME NEW T \in SUBSET Nat, T # {}
  PROVE  \E m \in T : \A n \in T : m <= n
<1>1. PICK m \in T : \A n \in T : ~ (<<n, m>> \in OpToRel(<, Nat))
  BY NatLessThanWellFounded, WFMin
<1>2. \A n \in T : ~ (n < m)
  BY <1>1 DEF OpToRel
<1> QED
  BY <1>2

(***************************************************************************)
(* A log whose accept times are bounded and whose stamps are unique has a  *)
(* last entry, and Last picks it.                                          *)
(***************************************************************************)
UniquelyStamped(log) ==
  \A x, y \in log :
    x.accept_time = y.accept_time /\ x.replica_id = y.replica_id => x = y

LEMMA LastExists ==
  ASSUME NEW log \in SUBSET Entries, log # {}, NEW bound \in Nat,
         \A w \in log : w.accept_time < bound,
         UniquelyStamped(log)
  PROVE  IsLast(Last(log), log)
<1> DEFINE Gaps == {bound - w.accept_time : w \in log}
<1>1. Gaps \in SUBSET Nat /\ Gaps # {}
  BY EntryNumbers
<1>2. PICK d \in Gaps : \A n \in Gaps : d <= n
  BY <1>1, LeastElement
<1> DEFINE Newest == {w \in log : bound - w.accept_time = d}
           Ids == {w.replica_id : w \in Newest}
<1>3. Ids \in SUBSET Nat /\ Ids # {}
  BY EntryNumbers
<1>4. PICK i \in Ids : \A n \in Ids : i <= n
  <2> HIDE DEF Ids
  <2> QED
    BY <1>3, LeastElement
<1>5. PICK m \in Newest : m.replica_id = i
  OBVIOUS
<1>6. ASSUME NEW x \in log
      PROVE  x = m \/ Before(x, m)
  <2>1. d <= bound - x.accept_time /\ bound - m.accept_time = d
    BY <1>2
  <2>2. x.accept_time <= m.accept_time
    BY <2>1, EntryNumbers
  <2>3. CASE x.accept_time < m.accept_time
    BY <2>3 DEF Before
  <2>4. CASE x.accept_time = m.accept_time
    <3>1. x.replica_id \in Ids
      BY <2>1, <2>4
    <3>2. m.replica_id <= x.replica_id
      BY <1>4, <1>5, <3>1
    <3> QED
      BY <2>4, <3>2, EntryNumbers DEF Before, UniquelyStamped
  <2> QED
    BY <2>2, <2>3, <2>4, EntryNumbers
<1>7. IsLast(m, log)
  BY <1>6 DEF IsLast
<1> QED
  BY <1>7 DEF Last

(* A log has at most one last entry. *)
LEMMA LastIsUnique ==
  ASSUME NEW log \in SUBSET Entries, NEW m, IsLast(m, log)
  PROVE  Last(log) = m
<1>1. IsLast(Last(log), log)
  BY DEF Last, IsLast
<1>2. Last(log) = m \/ (Before(Last(log), m) /\ Before(m, Last(log)))
  BY <1>1 DEF IsLast
<1>3. m \in Entries /\ Last(log) \in Entries
  BY <1>1 DEF IsLast
<1> QED
  BY <1>2, <1>3, BeforeAsymmetric

(* Replaying such a log gives a store. *)
LEMMA ReplayType ==
  ASSUME NEW log \in SUBSET Entries, NEW bound \in Nat,
         \A w \in log : w.accept_time < bound,
         UniquelyStamped(log)
  PROVE  Replay(log) \in Stores
<1>1. ASSUME NEW k \in Keys, OnKey(log, k) # {}
      PROVE  Last(OnKey(log, k)).value \in Values
  <2>1. IsLast(Last(OnKey(log, k)), OnKey(log, k))
    BY <1>1, LastExists DEF OnKey, UniquelyStamped
  <2>2. Last(OnKey(log, k)) \in Entries
    BY <2>1 DEF IsLast, OnKey
  <2> QED
    BY <2>2 DEF Entries
<1> QED
  BY <1>1 DEF Replay, Stores

(***************************************************************************)
(* write() may patch the store: an entry that sorts after the whole log    *)
(* replays to the old store with its own key changed.                      *)
(***************************************************************************)
LEMMA ReplayAppend ==
  ASSUME NEW log \in SUBSET Entries, NEW w \in Entries,
         \A x \in log : Before(x, w)
  PROVE  Replay(log \cup {w}) = [Replay(log) EXCEPT ![w.key] = w.value]
<1>1. ASSUME NEW k \in Keys, k # w.key
      PROVE  OnKey(log \cup {w}, k) = OnKey(log, k)
  BY <1>1 DEF OnKey
<1>2. IsLast(w, OnKey(log \cup {w}, w.key))
  BY DEF IsLast, OnKey
<1>3. Last(OnKey(log \cup {w}, w.key)) = w
  BY <1>2, LastIsUnique DEF OnKey
<1>4. OnKey(log \cup {w}, w.key) # {}
  BY DEF OnKey
<1>5. w.key \in Keys
  BY DEF Entries
<1> QED
  BY <1>1, <1>3, <1>4, <1>5 DEF Replay

(***************************************************************************)
(* A log that covers the set C (it has every entry of C or one that        *)
(* overwrites it) and is in session order replays to what is current in C. *)
(* Nothing else about the order in which it was built matters.             *)
(***************************************************************************)
LEMMA ReplayOfCover ==
  ASSUME NEW C \in SUBSET Entries, NEW log \in SUBSET C, NEW bound \in Nat,
         \A w \in C : w.accept_time < bound,
         UniquelyStamped(C),
         \A w \in C : w \in log \/ Superseded(w, log),
         InSessionOrder(log)
  PROVE  Replay(log) = Replay({w \in C : ~ Superseded(w, C)})
<1> DEFINE current == {w \in C : ~ Superseded(w, C)}
<1>1. current \subseteq log
  BY DEF Superseded
<1>2. ASSUME NEW k \in Keys, OnKey(log, k) # {}
      PROVE  /\ OnKey(current, k) # {}
             /\ Last(OnKey(current, k)) = Last(OnKey(log, k))
  <2> DEFINE m == Last(OnKey(log, k))
  <2>1. IsLast(m, OnKey(log, k))
    BY <1>2, LastExists DEF OnKey, UniquelyStamped
  <2> HIDE DEF m
  <2>2. m \in log /\ m \in Entries /\ m.key = k
    BY <2>1 DEF IsLast, OnKey
  <2>3. ~ \E y \in log : Overwrites(y, m)
    <3> SUFFICES ASSUME NEW y \in log, Overwrites(y, m) PROVE FALSE
      OBVIOUS
    <3>1. Before(m, y)
      BY <2>2 DEF InSessionOrder
    <3>2. y \in OnKey(log, k)
      BY <2>2 DEF OnKey, Overwrites
    <3>3. y = m \/ Before(y, m)
      BY <2>1, <3>2 DEF IsLast
    <3> QED
      BY <2>2, <3>1, <3>3, BeforeAsymmetric
  <2>4. ~ Superseded(m, C)
    <3> SUFFICES ASSUME NEW x \in C, Overwrites(x, m) PROVE FALSE
      BY DEF Superseded
    <3>1. PICK y \in log : Overwrites(y, x)
      BY <2>3 DEF Superseded
    <3>2. Overwrites(y, m)
      BY <2>2, <3>1, OverwritesTransitive
    <3> QED
      BY <2>3, <3>2
  <2>5. m \in OnKey(current, k)
    BY <2>2, <2>4 DEF OnKey
  <2>6. IsLast(m, OnKey(current, k))
    BY <2>1, <2>5, <1>1 DEF IsLast, OnKey
  <2> QED
    BY <2>5, <2>6, LastIsUnique DEF OnKey, m
<1>3. ASSUME NEW k \in Keys, OnKey(log, k) = {}
      PROVE  OnKey(current, k) = {}
  BY <1>1, <1>3 DEF OnKey
<1> HIDE DEF current
<1>4. Replay(log) = Replay(current)
  BY <1>2, <1>3 DEF Replay
<1> QED
  BY <1>4 DEF current
=============================================================================
