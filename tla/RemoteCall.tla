----------------------------- MODULE RemoteCall -----------------------------
(***************************************************************************)
(* What a remote call promises its caller: the handler is run at most once *)
(* and with the caller's own arguments; a call that returns, returns what  *)
(* the handler returned; a call that raises does so because the handler    *)
(* raised or because something is wrong between the two.  After an error   *)
(* the handler may have been run or not.                                   *)
(***************************************************************************)
EXTENDS Sequences

CONSTANTS
  Arguments,   \* [methods -> set of arguments]
  Values       \* [methods -> set of values]; {} for a method without a value

VARIABLES
  request,    \* the call under way: <<>> or <<request>>
  runs,       \* how the handler was run for it, in order
  outcome,    \* what the caller has: <<>>, <<how it ended>> or <<Error>>
  faulty      \* something is wrong with the way or with what was to be sent

vars == <<request, runs, outcome, faulty>>

Error == [ends |-> "error"]

Exceptions == {"TTransportException", "TApplicationException", "Exception"}

Endings(m) ==
  [ends : Exceptions]
  \cup IF Values[m] = {} THEN [ends : {"returns"}] ELSE [ends : {"returns"}, value : Values[m]]

Returns(ending) == ending.ends = "returns"

Init == request = <<>> /\ runs = <<>> /\ outcome = <<>> /\ faulty \in BOOLEAN

(* The caller may find out at once that it cannot send. *)
Call(m, args) ==
  /\ request = <<>>
  /\ request' = <<[method |-> m, args |-> args]>>
  /\ faulty => faulty'
  /\ \/ outcome' = <<>>
     \/ faulty' /\ outcome' = <<Error>>
  /\ UNCHANGED runs

Run ==
  /\ request # <<>> /\ outcome = <<>> /\ runs = <<>>
  /\ \E e \in Endings(request[1].method) :
       runs' = <<[request |-> request[1], ending |-> e]>>
  /\ faulty => faulty'
  /\ UNCHANGED <<request, outcome>>

Break ==
  /\ faulty'
  /\ UNCHANGED <<request, runs, outcome>>

Return ==
  /\ outcome = <<>> /\ runs # <<>>
  /\ Returns(runs[1].ending)
  /\ outcome' = <<runs[1].ending>>
  /\ UNCHANGED <<request, runs, faulty>>

Raise ==
  /\ request # <<>> /\ outcome = <<>>
  /\ \/ faulty
     \/ runs # <<>> /\ ~ Returns(runs[1].ending)
  /\ outcome' = <<Error>>
  /\ UNCHANGED <<request, runs, faulty>>

(* The caller goes on with the value. *)
GoOn ==
  /\ outcome # <<>> /\ outcome # <<Error>>
  /\ request' = <<>> /\ runs' = <<>> /\ outcome' = <<>>
  /\ faulty' \in BOOLEAN

Next ==
  \/ \E m \in DOMAIN Arguments : \E args \in Arguments[m] : Call(m, args)
  \/ Run \/ Break \/ Return \/ Raise \/ GoOn

Spec == Init /\ [][Next]_vars
=============================================================================
