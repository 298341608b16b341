-------------------------- MODULE ReplicaInvariants --------------------------
(***************************************************************************)
(* The inductive invariant behind the properties of ReplicaServer.  Each   *)
(* property about a replica's log and clock needs its counterpart about    *)
(* the answer a replica has been sent and has not merged yet.              *)
(*                                                                         *)
(* Where it speaks of entries it speaks of those of a set E.  That is      *)
(* accepted as long as no process ends; in Rejoin it is what is left of    *)
(* accepted when one has taken with it what nobody else had heard of.      *)
(***************************************************************************)
EXTENDS ReplicaServer

(* Logs and answers have entries of E only. *)
LogsFrom(E) ==
  \A r \in Servers : write_log[r] \subseteq E /\ response[r].new_writes \subseteq E

(* UniqueStamps, of E. *)
StampsApart(E) ==
  \A x, y \in E :
    x.accept_time = y.accept_time /\ x.replica_id = y.replica_id => x = y

(* The clock copied into a request is never ahead of the requester's. *)
RequestBehind == \A r \in Servers : ClockLeq(request_clock[r], vector_clock[r])

(* The accept time in an answer is past all that comes with it. *)
AnswerAhead ==
  \A r \in Servers :
    /\ \A w \in response[r].new_writes : w.accept_time < response[r].accept_time
    /\ \A s \in Servers : response[r].vector_clock[s] <= response[r].accept_time

(* What a replica has it claims to have, and so does every answer. *)
LogCovered ==
  \A r \in Servers :
    /\ \A w \in write_log[r] : Covers(vector_clock[r], w)
    /\ \A w \in response[r].new_writes : Covers(response[r].vector_clock, w)

(* NoWriteLost, of E. *)
NoneLost(E) ==
  \A r \in Servers : \A w \in E :
    Covers(vector_clock[r], w) =>
      w \in write_log[r] \/ Superseded(w, write_log[r])

(***************************************************************************)
(* An entry the answer's clock covers comes with it, unless the requester  *)
(* covers it already or a newer write of the same client is at hand.       *)
(***************************************************************************)
AnswerComplete(E) ==
  \A r \in Servers : \A w \in E :
    Covers(response[r].vector_clock, w) =>
      \/ Covers(vector_clock[r], w)
      \/ w \in response[r].new_writes
      \/ Superseded(w, response[r].new_writes \cup write_log[r])

(* The entries of an answer are in session order among themselves. *)
AnswerSessionOrder ==
  \A r \in Servers : \A x, y \in response[r].new_writes : Overwrites(x, y) => Before(y, x)

ClockInv(E) ==
  /\ LogsFrom(E)
  /\ StampsApart(E)
  /\ RequestBehind
  /\ AcceptTimeAhead
  /\ AnswerAhead
  /\ LogCovered

LogInv(E) ==
  /\ NoneLost(E)
  /\ AnswerComplete(E)
  /\ SessionOrder
  /\ AnswerSessionOrder

Core(E) ==
  /\ TypeOK
  /\ E \subseteq accepted
  /\ ClockInv(E)
  /\ LogInv(E)
  /\ KvStoreIsReplay

(***************************************************************************)
(* A replica's own clock entry is past all it accepted and ahead of what   *)
(* any other replica or answer says of it.  (This is what a process that   *)
(* ends takes from its successor.)                                         *)
(***************************************************************************)
OwnClockAhead ==
  /\ \A w \in accepted : Covers(vector_clock[w.replica_id], w)
  /\ \A r, s \in Servers :
       /\ vector_clock[r][s] <= vector_clock[s][s]
       /\ response[r].vector_clock[s] <= vector_clock[s][s]

(* The inductive invariant. *)
IInv == Core(accepted) /\ OwnClockAhead
=============================================================================
