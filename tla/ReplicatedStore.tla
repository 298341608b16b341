--------------------------- MODULE ReplicatedStore ---------------------------
(***************************************************************************)
(* What the replicas promise, without logs that are pruned, vector clocks, *)
(* or anti-entropy messages: every replica has SEEN a set of the accepted  *)
(* entries, the set only grows, and the replica's store is a function of   *)
(* the set alone.                                                          *)
(*                                                                         *)
(* README: "The pair (replica accept time, replica ID) defines a total     *)
(* ordering"; "If two writes in the write log have the same client ID and  *)
(* key, then the entry with the lower client time has been overwritten."   *)
(***************************************************************************)
EXTENDS WriteLog

VARIABLES
  accepted,   \* every entry any replica has accepted
  seen,       \* [Servers -> SUBSET accepted]
  store       \* [Servers -> store]

vars == <<accepted, seen, store>>

Init ==
  /\ accepted = {}
  /\ seen = [r \in Servers |-> {}]
  /\ store = [r \in Servers |-> [k \in Keys |-> NoValue]]

(* Of the entries seen, those no later write of the same client overwrote. *)
Current(entries) == {w \in entries : ~ Superseded(w, entries)}

(* A store: under each key the value of the last current entry. *)
StoreOf(entries) == Replay(Current(entries))

(***************************************************************************)
(* A replica accepts a write: a new entry that sorts after all it has seen *)
(* and that no entry seen anywhere has overwritten.                        *)
(***************************************************************************)
Accept(r, w) ==
  /\ w \in Entries /\ w.replica_id = r
  /\ \A x \in seen[r] : Before(x, w)
  /\ \A x \in accepted : ~ Overwrites(x, w) /\ x # w
  /\ accepted' = accepted \cup {w}
  /\ seen' = [seen EXCEPT ![r] = @ \cup {w}]
  /\ store' = [store EXCEPT ![r] = StoreOf(seen'[r])]

(***************************************************************************)
(* A replica learns entries another one accepted or learned.  It learns    *)
(* the entries of each replica in the order that replica accepted them,    *)
(* without a gap, and serves them all at once.                             *)
(***************************************************************************)
GapFree(entries) ==
  \A w \in entries : \A x \in accepted :
    x.replica_id = w.replica_id /\ x.accept_time < w.accept_time => x \in entries

Learn(r, entries) ==
  /\ GapFree(seen[r] \cup entries)
  /\ seen' = [seen EXCEPT ![r] = @ \cup entries]
  /\ store' = [store EXCEPT ![r] = StoreOf(seen'[r])]
  /\ UNCHANGED accepted

Next ==
  \E r \in Servers :
    \/ \E w \in accepted' : Accept(r, w)
    \/ \E entries \in SUBSET accepted : Learn(r, entries)

Spec == Init /\ [][Next]_vars
=============================================================================
