-------------------------------- MODULE Rpc --------------------------------
(***************************************************************************)
(* One connection between a generated Client and a generated Processor:    *)
(* send_* and recv_* of the caller, process() and process_* of the server, *)
(* the handler as a choice of endings, the end of the server process.      *)
(*                                                                         *)
(* The connection is open, and is kept for several calls, as joinServer    *)
(* does (master.py:93-105).  seqid is 0 in every message and no end looks  *)
(* at it.  After an error the caller is done: no caller of this system     *)
(* catches one.  What TSimpleServer and TBufferedTransport do is taken     *)
(* from how the code uses them: a server serves one connection until it    *)
(* ends, drops it when the processor raises, and a transport sends nothing *)
(* before flush().                                                         *)
(***************************************************************************)
EXTENDS ThriftStructs, Sequences

CONSTANTS
  Arguments,   \* [methods -> set of objects]: the arguments callers give
  Values,      \* [methods -> set of values]: what handlers return
  MaxCalls     \* bound: calls on the connection

ASSUME MaxCallsAssumption == MaxCalls \in Nat

Replica == INSTANCE ReplicaStubs
Client  == INSTANCE ClientStubs

Services == {Replica!processMap, Client!processMap}

Void(service, m) == service[m].result = NoFields

(* All the system's callers fill their arguments with objects of the right *)
(* classes, and only the void handlers return nothing.                     *)
ASSUME ArgumentsAssumption ==
  \A service \in Services : \A m \in DOMAIN service :
    /\ m \in DOMAIN Arguments
    /\ \A args \in Arguments[m] : IsObject(service[m].args, args)

ASSUME ValuesAssumption ==
  \A service \in Services : \A m \in DOMAIN service :
    /\ (Values[m] = {}) <=> Void(service, m)
    /\ \A v \in Values[m] : IsObject(service[m].result, [success |-> v])

VARIABLES
  stub,        \* the service whose Client class the caller has
  serves,      \* the service whose Processor has the port
  caller,      \* "idle", "waiting", "returned" or "raised"
  request,     \* its call: <<>> or <<[method, args]>>
  outcome,     \* <<>> or <<how the call ended for it>>
  to_server,   \* messages on the connection
  to_caller,
  server,      \* where the server is: "reading", "handling", "replying", "dropped", "gone"
  received,    \* the call it is at: <<>> or <<[method, args]>>
  runs,        \* history: how the handler was run for the caller's call
  calls        \* calls so far

vars == <<stub, serves, caller, request, outcome, to_server, to_caller, server,
          received, runs, calls>>

Nothing == [n \in {} |-> 0]

Exceptions == {"TTransportException", "TApplicationException", "Exception"}

(* Any stub at any port: the system's own connections are of one kind, the *)
(* generated Replica-remote and Client-remote scripts take any port.       *)
Init ==
  /\ stub \in Services /\ serves \in Services
  /\ caller = "idle" /\ request = <<>> /\ outcome = <<>>
  /\ to_server = <<>> /\ to_caller = <<>>
  /\ server = "reading" /\ received = <<>>
  /\ runs = <<>> /\ calls = 0

-----------------------------------------------------------------------------
(* send_*: an argument that cannot be written raises before the flush. *)
Send(m, args) ==
  /\ caller = "idle" /\ calls < MaxCalls
  /\ calls' = calls + 1
  /\ request' = <<[method |-> m, args |-> args]>>
  /\ IF CanWrite(stub[m].args, args)
       THEN /\ to_server' = Append(to_server,
                 [name |-> m, type |-> "CALL", body |-> WriteStruct(stub[m].args, args)])
            /\ caller' = "waiting"
            /\ UNCHANGED outcome
       ELSE /\ caller' = "raised" /\ outcome' = <<[ends |-> "not sent"]>>
            /\ UNCHANGED to_server
  /\ UNCHANGED <<stub, serves, to_caller, server, received, runs>>

(* process(): a method that is not in the map is answered, any other read. *)
Process ==
  LET message == Head(to_server)
      m == message.name
  IN
  /\ server = "reading" /\ to_server # <<>>
  /\ to_server' = Tail(to_server)
  /\ IF m \notin DOMAIN serves
       THEN /\ to_caller' = Append(to_caller,
                 [name |-> m, type |-> "EXCEPTION", body |-> "UNKNOWN_METHOD"])
            /\ UNCHANGED <<server, received>>
       ELSE /\ server' = "handling"
            /\ received' = <<[method |-> m, args |-> ReadStruct(serves[m].args, message.body)]>>
            /\ UNCHANGED to_caller
  /\ UNCHANGED <<stub, serves, caller, request, outcome, runs, calls>>

Handle(ending) ==
  /\ server = "handling"
  /\ runs' = Append(runs, [request |-> received[1], ending |-> ending])
  /\ server' = "replying"
  /\ UNCHANGED <<stub, serves, caller, request, outcome, to_server, to_caller, received, calls>>

HandlerReturns ==
  /\ server = "handling"
  /\ \E v \in Values[received[1].method] : Handle([ends |-> "returns", value |-> v])

HandlerEnds ==
  /\ server = "handling" /\ Void(serves, received[1].method)
  /\ Handle([ends |-> "returns"])

HandlerRaises == \E e \in Exceptions : Handle([ends |-> e])

Handler == HandlerReturns \/ HandlerEnds \/ HandlerRaises

-----------------------------------------------------------------------------
(***************************************************************************)
(* The end of process_*.  A void method's result has no field to fill.     *)
(* The result is written outside of the try: what cannot be written leaves *)
(* process() as TTransportException does, and the connection is dropped.   *)
(***************************************************************************)
ResultOf(m, ending) ==
  IF Void(serves, m) THEN Nothing ELSE [success |-> ending.value]

Reply(m, type, body) ==
  /\ to_caller' = Append(to_caller, [name |-> m, type |-> type, body |-> body])
  /\ server' = "reading"

ReplyOrDrop(m, ending) ==
  CASE ending.ends = "TTransportException" -> server' = "dropped" /\ UNCHANGED to_caller
    [] ending.ends = "TApplicationException" -> Reply(m, "EXCEPTION", "TApplicationException")
    [] ending.ends = "Exception" -> Reply(m, "EXCEPTION", "INTERNAL_ERROR")
    [] ending.ends = "returns" ->
         IF CanWrite(serves[m].result, ResultOf(m, ending))
           THEN Reply(m, "REPLY", WriteStruct(serves[m].result, ResultOf(m, ending)))
           ELSE server' = "dropped" /\ UNCHANGED to_caller

FinishNoReply ==   \* mutant: nothing is sent for an exception of the handler
  /\ server = "replying"
  /\ IF runs[Len(runs)].ending.ends \in {"Exception", "TApplicationException"}
       THEN server' = "reading" /\ UNCHANGED to_caller
       ELSE ReplyOrDrop(received[1].method, runs[Len(runs)].ending)
  /\ received' = <<>>
  /\ UNCHANGED <<stub, serves, caller, request, outcome, to_server, runs, calls>>

FinishKeepsCall ==   \* mutant: the call is kept
  /\ server = "replying"
  /\ ReplyOrDrop(received[1].method, runs[Len(runs)].ending)
  /\ UNCHANGED <<stub, serves, caller, request, outcome, to_server, received, runs, calls>>

Finish ==
  /\ server = "replying"
  /\ ReplyOrDrop(received[1].method, runs[Len(runs)].ending)
  /\ received' = <<>>
  /\ UNCHANGED <<stub, serves, caller, request, outcome, to_server, runs, calls>>

(* The process is terminated; what it has sent may arrive or not. *)
Stop ==
  /\ server # "gone"
  /\ server' = "gone"
  /\ to_caller' \in {to_caller, <<>>}
  /\ received' = <<>>
  /\ UNCHANGED <<stub, serves, caller, request, outcome, to_server, runs, calls>>

-----------------------------------------------------------------------------
(* recv_*: raise what came as an exception; without a result, raise too. *)
Received(m, message) ==
  LET result == ReadStruct(stub[m].result, message.body) IN
  IF message.type = "EXCEPTION" THEN [ends |-> message.body]
  ELSE IF Void(stub, m) THEN [ends |-> "returns"]
  ELSE IF "success" \in DOMAIN result THEN [ends |-> "returns", value |-> result.success]
  ELSE [ends |-> "MISSING_RESULT"]

Receive ==
  LET ending == Received(request[1].method, Head(to_caller)) IN
  /\ caller = "waiting" /\ to_caller # <<>>
  /\ to_caller' = Tail(to_caller)
  /\ outcome' = <<ending>>
  /\ caller' = IF ending.ends = "returns" THEN "returned" ELSE "raised"
  /\ UNCHANGED <<stub, serves, request, to_server, server, received, runs, calls>>

(* The connection has ended before an answer came. *)
EndOfFile ==
  /\ caller = "waiting" /\ to_caller = <<>> /\ server \in {"dropped", "gone"}
  /\ outcome' = <<[ends |-> "TTransportException"]>>
  /\ caller' = "raised"
  /\ UNCHANGED <<stub, serves, request, to_server, to_caller, server, received, runs, calls>>

(* The stub has returned; the next call starts from nothing. *)
GoOn ==
  /\ caller = "returned"
  /\ caller' = "idle" /\ request' = <<>> /\ outcome' = <<>> /\ runs' = <<>>
  /\ UNCHANGED <<stub, serves, to_server, to_caller, server, received, calls>>

Next ==
  \/ \E m \in DOMAIN stub : \E args \in Arguments[m] : Send(m, args)
  \/ Process
  \/ Handler
  \/ Finish \/ Stop
  \/ Receive \/ EndOfFile \/ GoOn

Spec == Init /\ [][Next]_vars

(***************************************************************************)
(* Both processes run, and a handler that has begun ends: what handlers    *)
(* wait for is the matter of Cluster and ReplicaThreads.                   *)
(***************************************************************************)
FairSpec ==
  /\ Spec
  /\ WF_vars(Process) /\ WF_vars(Finish)
  /\ WF_vars(Handler)
  /\ WF_vars(Receive) /\ WF_vars(EndOfFile)

-----------------------------------------------------------------------------
(* What each end holds fits where it is. *)
RpcTypeOK ==
  /\ stub \in Services /\ serves \in Services
  /\ caller \in {"idle", "waiting", "returned", "raised"}
  /\ server \in {"reading", "handling", "replying", "dropped", "gone"}
  /\ Len(to_server) <= 1 /\ Len(to_caller) <= 1
  /\ (request = <<>>) <=> (caller = "idle")
  /\ (outcome = <<>>) <=> (caller \in {"idle", "waiting"})
  /\ (received = <<>>) <=> (server \in {"reading", "dropped", "gone"})
  /\ calls \in 0 .. MaxCalls

(***************************************************************************)
(* The promises of RemoteCall.  The way is faulty if the server has ended, *)
(* has no such method, or one of the two structs cannot be written.        *)
(***************************************************************************)
Faulty ==
  \/ server = "gone"
  \/ /\ request # <<>>
     /\ \/ request[1].method \notin DOMAIN serves
        \/ ~ CanWrite(stub[request[1].method].args, request[1].args)
  \/ /\ runs # <<>>
     /\ LET m == runs[1].request.method
            ending == runs[1].ending
        IN  ending.ends = "returns" /\ ~ CanWrite(serves[m].result, ResultOf(m, ending))

Outcome ==
  IF outcome # <<>> /\ outcome[1].ends # "returns" THEN <<[ends |-> "error"]>> ELSE outcome

Abstract == INSTANCE RemoteCall WITH outcome <- Outcome, faulty <- Faulty

(***************************************************************************)
(* A stub gives its caller what the handler returned, or raises for a      *)
(* reason, and the handler has been run at most once, with the caller's    *)
(* arguments: also for {}, FALSE and 0, which Python takes for false, and  *)
(* though no reply says which call it belongs to.                          *)
(***************************************************************************)
ImplementsRemoteCall == Abstract!Spec

(***************************************************************************)
(* No caller is left waiting: a handler's exception is answered or ends    *)
(* the connection, and so does an answer that cannot be written.           *)
(***************************************************************************)
EveryCallEnds == caller = "waiting" ~> caller # "waiting"
=============================================================================
