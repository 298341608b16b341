------------------------------ MODULE RpcProofs ------------------------------
(***************************************************************************)
(* A struct comes out of read() as it went into write(), and a stub keeps  *)
(* the promises of RemoteCall: for all arguments, values and endings of    *)
(* handlers, any integers that fit, any number of calls.                   *)
(***************************************************************************)
EXTENDS Rpc, TLAPS

(***************************************************************************)
(* The classes.                                                            *)
(***************************************************************************)
Distinct(fields) ==
  \A f, g \in fields : (f.id = g.id \/ f.name = g.name) => f = g

(* Fields have numbers and names of their own, in structs in them too. *)
WellFormed(fields) ==
  /\ Distinct(fields)
  /\ \A f \in fields : f.type.ttype = "STRUCT" => Distinct(f.type.fields)

(* One class, without the structs in it.                                   *)
LEMMA FlatRoundTrip ==
  ASSUME NEW fields, NEW obj, Distinct(fields), IsFlatObject(fields, obj)
  PROVE  ReadFlat(fields, WriteFlat(fields, obj)) = obj
<1> DEFINE sent == {f \in fields : Written(obj, f)}
           wire == WriteFlat(fields, obj)
           got == {f \in fields : f.id \in DOMAIN wire /\ wire[f.id].ttype = f.type.ttype}
<1>1. /\ DOMAIN wire = {f.id : f \in sent}
      /\ \A f \in sent : wire[f.id].ttype = f.type.ttype /\ wire[f.id].body = obj[f.name]
  <2>1. ASSUME NEW f \in sent PROVE (CHOOSE g \in sent : g.id = f.id) = f
    BY <2>1 DEF Distinct
  <2>2. wire = [i \in {f.id : f \in sent} |->
                  [ttype |-> (CHOOSE g \in sent : g.id = i).type.ttype,
                   body |-> obj[(CHOOSE g \in sent : g.id = i).name]]]
    BY DEF WriteFlat
  <2> HIDE DEF sent, wire
  <2>3. ASSUME NEW f \in sent
        PROVE  wire[f.id].ttype = f.type.ttype /\ wire[f.id].body = obj[f.name]
    <3>1. wire[f.id] = [ttype |-> f.type.ttype, body |-> obj[f.name]]
      BY <2>1, <2>2
    <3> QED
      BY <3>1
  <2> QED
    BY <2>2, <2>3
<1>2. {f.name : f \in sent} = DOMAIN obj /\ sent \subseteq fields
  BY DEF IsFlatObject, Written
<1>3. got = sent
  <2> HIDE DEF sent, wire
  <2>1. ASSUME NEW f \in sent PROVE f \in got
    <3>1. f \in fields /\ f.id \in DOMAIN wire
      BY <1>1, <1>2
    <3>2. wire[f.id].ttype = f.type.ttype
      BY <1>1
    <3> QED
      BY <3>1, <3>2
  <2>2. ASSUME NEW f \in got PROVE f \in sent
    BY <1>1, <1>2 DEF Distinct
  <2> QED
    BY <2>1, <2>2
<1>4. ASSUME NEW f \in sent PROVE (CHOOSE g \in sent : g.name = f.name) = f
  BY <1>2, <1>4 DEF Distinct
<1> HIDE DEF sent, wire
<1>5. ASSUME NEW n \in DOMAIN obj
      PROVE  wire[(CHOOSE f \in got : f.name = n).id].body = obj[n]
  <2>1. PICK f \in sent : f.name = n
    BY <1>2
  <2>2. (CHOOSE g \in got : g.name = n) = f
    BY <2>1, <1>3, <1>4
  <2>3. wire[f.id].body = obj[n]
    BY <2>1, <1>1
  <2> QED
    BY <2>2, <2>3
<1>6. ReadFlat(fields, wire) =
        [n \in DOMAIN obj |-> wire[(CHOOSE f \in got : f.name = n).id].body]
  <2>1. {f.name : f \in got} = DOMAIN obj
    BY <1>2, <1>3
  <2> HIDE DEF got
  <2>2. ReadFlat(fields, wire) =
          [n \in {f.name : f \in got} |-> wire[(CHOOSE f \in got : f.name = n).id].body]
    BY Zenon DEF ReadFlat, got
  <2> QED
    BY <2>1, <2>2
<1>7. ReadFlat(fields, wire) = [n \in DOMAIN obj |-> obj[n]]
  BY <1>5, <1>6
<1> QED
  BY <1>7 DEF wire, IsFlatObject

(***************************************************************************)
(* What read() makes of the bytes of write() is the object written, with   *)
(* the structs in it.                                                      *)
(***************************************************************************)
THEOREM RoundTrip ==
  ASSUME NEW fields, NEW obj, WellFormed(fields), IsObject(fields, obj)
  PROVE  ReadStruct(fields, WriteStruct(fields, obj)) = obj
<1> DEFINE nested == [n \in DOMAIN obj |-> WriteNested(TypeOf(fields, n), obj[n])]
<1>1. IsFlatObject(fields, nested)
  BY DEF IsObject, IsFlatObject
<1>2. ReadFlat(fields, WriteStruct(fields, obj)) = nested
  BY <1>1, FlatRoundTrip DEF WriteStruct, WellFormed
<1>3. ASSUME NEW n \in DOMAIN obj
      PROVE  ReadNested(TypeOf(fields, n), nested[n]) = obj[n]
  <2>1. CASE TypeOf(fields, n).ttype = "STRUCT"
    <3>1. \E f \in fields : f.name = n
      BY DEF IsObject, IsFlatObject
    <3>2. PICK f \in fields : TypeOf(fields, n) = f.type
      BY <3>1 DEF TypeOf
    <3>3. Distinct(TypeOf(fields, n).fields)
      BY <2>1, <3>2 DEF WellFormed
    <3>4. IsFlatObject(TypeOf(fields, n).fields, obj[n])
      BY <2>1 DEF IsObject
    <3> QED
      BY <2>1, <3>3, <3>4, FlatRoundTrip DEF WriteNested, ReadNested
  <2>2. CASE TypeOf(fields, n).ttype # "STRUCT"
    BY <2>2 DEF WriteNested, ReadNested
  <2> QED
    BY <2>1, <2>2
<1>4. ReadStruct(fields, WriteStruct(fields, obj)) = [n \in DOMAIN obj |-> obj[n]]
  <2>1. ReadStruct(fields, WriteStruct(fields, obj)) =
          [n \in DOMAIN nested |-> ReadNested(TypeOf(fields, n), nested[n])]
    BY <1>2, Zenon DEF ReadStruct
  <2> QED
    BY <2>1, <1>3
<1> QED
  BY <1>4 DEF IsObject, IsFlatObject

(***************************************************************************)
(* The structs of gen-py/replica.                                          *)
(***************************************************************************)
LEMMA ReplicaStructs ==
  \A m \in DOMAIN Replica!processMap :
    WellFormed(Replica!processMap[m].args) /\ WellFormed(Replica!processMap[m].result)
<1> USE DEF Replica!Field, Replica!Int32, Replica!Bool, Replica!Text, Replica!Clock,
            Replica!TextMap, Replica!ListOf, Replica!Struct, Replica!Success,
            Replica!NoFields, WellFormed, Distinct
<1>1. /\ WellFormed(Replica!setID_args) /\ WellFormed(Replica!setID_result)
      /\ WellFormed(Replica!getStore_args) /\ WellFormed(Replica!getStore_result)
      /\ WellFormed(Replica!stabilize_args) /\ WellFormed(Replica!stabilize_result)
  BY DEF Replica!setID_args, Replica!setID_result, Replica!getStore_args,
         Replica!getStore_result, Replica!stabilize_args, Replica!stabilize_result
<1>2. /\ WellFormed(Replica!addConnection_args) /\ WellFormed(Replica!addConnection_result)
      /\ WellFormed(Replica!removeConnection_args) /\ WellFormed(Replica!removeConnection_result)
  BY DEF Replica!addConnection_args, Replica!addConnection_result,
         Replica!removeConnection_args, Replica!removeConnection_result
<1>3. WellFormed(Replica!write_args) /\ WellFormed(Replica!write_result)
  BY DEF Replica!write_args, Replica!write_result
<1>4. WellFormed(Replica!read_args) /\ WellFormed(Replica!read_result)
  BY DEF Replica!read_args, Replica!read_result, Replica!ReadResult
<1>5. WellFormed(Replica!antiEntropyRequest_args)
  BY DEF Replica!antiEntropyRequest_args
<1>6. WellFormed(Replica!antiEntropyRequest_result)
  BY DEF Replica!antiEntropyRequest_result, Replica!AntiEntropyResult
<1> HIDE DEF WellFormed
<1> QED
  BY <1>1, <1>2, <1>3, <1>4, <1>5, <1>6
     DEF Replica!processMap, Replica!setID, Replica!getStore, Replica!stabilize,
         Replica!addConnection, Replica!removeConnection, Replica!write, Replica!read,
         Replica!antiEntropyRequest

(* The structs of gen-py/client.                                           *)
LEMMA ClientStructs ==
  \A m \in DOMAIN Client!processMap :
    WellFormed(Client!processMap[m].args) /\ WellFormed(Client!processMap[m].result)
<1> USE DEF Client!Field, Client!Int32, Client!Bool, Client!Text, Client!Success,
            Client!NoFields, WellFormed, Distinct
<1>1. /\ WellFormed(Client!setID_args) /\ WellFormed(Client!setID_result)
      /\ WellFormed(Client!addConnection_args) /\ WellFormed(Client!addConnection_result)
      /\ WellFormed(Client!removeConnection_args) /\ WellFormed(Client!removeConnection_result)
  BY DEF Client!setID_args, Client!setID_result, Client!addConnection_args,
         Client!addConnection_result, Client!removeConnection_args,
         Client!removeConnection_result
<1>2. /\ WellFormed(Client!requestWrite_args) /\ WellFormed(Client!requestWrite_result)
      /\ WellFormed(Client!requestRead_args) /\ WellFormed(Client!requestRead_result)
  BY DEF Client!requestWrite_args, Client!requestWrite_result, Client!requestRead_args,
         Client!requestRead_result
<1> HIDE DEF WellFormed
<1> QED
  BY <1>1, <1>2
     DEF Client!processMap, Client!setID, Client!addConnection, Client!removeConnection,
         Client!requestWrite, Client!requestRead

(* A method of both services has the same structs in both.                 *)
LEMMA SameStructs ==
  \A m \in DOMAIN Replica!processMap \cap DOMAIN Client!processMap :
    Replica!processMap[m] = Client!processMap[m]
<1>1. DOMAIN Replica!processMap \cap DOMAIN Client!processMap =
        {"setID", "addConnection", "removeConnection"}
  BY DEF Replica!processMap, Client!processMap
<1>2. /\ Replica!processMap["setID"] = Replica!setID
      /\ Replica!processMap["addConnection"] = Replica!addConnection
      /\ Replica!processMap["removeConnection"] = Replica!removeConnection
      /\ Client!processMap["setID"] = Client!setID
      /\ Client!processMap["addConnection"] = Client!addConnection
      /\ Client!processMap["removeConnection"] = Client!removeConnection
  BY DEF Replica!processMap, Client!processMap
<1>3. /\ Replica!setID = Client!setID
      /\ Replica!addConnection = Client!addConnection
      /\ Replica!removeConnection = Client!removeConnection
  BY Zenon DEF Replica!setID, Replica!addConnection, Replica!removeConnection, Client!setID,
         Client!addConnection, Client!removeConnection,
         Replica!setID_args, Replica!setID_result, Replica!addConnection_args,
         Replica!addConnection_result, Replica!removeConnection_args,
         Replica!removeConnection_result, Client!setID_args, Client!setID_result,
         Client!addConnection_args, Client!addConnection_result,
         Client!removeConnection_args, Client!removeConnection_result,
         Replica!Field, Replica!Int32, Replica!Bool, Replica!Success, Replica!NoFields,
         Client!Field, Client!Int32, Client!Bool, Client!Success, Client!NoFields
<1> QED
  BY <1>1, <1>2, <1>3

(* Both ends agree on the structs of a method both have, and its call and  *)
(* its result come out of the connection as they went in.                  *)
LEMMA Agreement ==
  ASSUME stub \in Services, serves \in Services,
         NEW m \in DOMAIN stub, m \in DOMAIN serves
  PROVE  /\ stub[m] = serves[m]
         /\ WellFormed(stub[m].args) /\ WellFormed(stub[m].result)
  BY SameStructs, ReplicaStructs, ClientStructs DEF Services

-----------------------------------------------------------------------------
(***************************************************************************)
(* The inductive invariant: where a call is, and what that says of the two *)
(* ends and of the connection.  m and args are the call's.                 *)
(***************************************************************************)
Quiet == to_server = <<>> /\ to_caller = <<>>

NoCall ==
  /\ caller = "idle" /\ request = <<>> /\ outcome = <<>> /\ received = <<>> /\ runs = <<>>
  /\ server \in {"reading", "gone"} /\ Quiet

(* The handler has been run once, for this call.                           *)
Ran(m, args) ==
  /\ m \in DOMAIN serves
  /\ \E ending \in Abstract!Endings(m) :
       runs = <<[request |-> [method |-> m, args |-> args], ending |-> ending]>>

Unwritable(m, ending) ==
  ending.ends = "returns" /\ ~ CanWrite(serves[m].result, ResultOf(m, ending))

Sent(m, args) ==
  /\ caller = "waiting" /\ server \in {"reading", "gone"} /\ received = <<>> /\ runs = <<>>
  /\ to_server =
       <<[name |-> m, type |-> "CALL", body |-> WriteStruct(stub[m].args, args)]>>
  /\ to_caller = <<>>

Handling(m, args) ==
  /\ caller = "waiting" /\ server = "handling" /\ received = request /\ runs = <<>> /\ Quiet
  /\ m \in DOMAIN serves

Replying(m, args) ==
  /\ caller = "waiting" /\ server = "replying" /\ received = request /\ Quiet
  /\ Ran(m, args)

(* What a message on its way to the caller may say.                        *)
AnswerTo(m, args, message) ==
  \/ /\ m \notin DOMAIN serves /\ runs = <<>>
     /\ message.type = "EXCEPTION" /\ message.body = "UNKNOWN_METHOD"
  \/ /\ Ran(m, args) /\ runs[1].ending.ends # "returns"
     /\ message.type = "EXCEPTION" /\ message.body \in {"TApplicationException", "INTERNAL_ERROR"}
  \/ /\ Ran(m, args) /\ runs[1].ending.ends = "returns"
     /\ message.type = "REPLY"
     /\ message.body = WriteStruct(serves[m].result, ResultOf(m, runs[1].ending))

Answered(m, args) ==
  /\ caller = "waiting" /\ server \in {"reading", "gone"} /\ received = <<>>
  /\ to_server = <<>>
  /\ \E message : to_caller = <<message>> /\ AnswerTo(m, args, message)

Broken(m, args) ==
  /\ caller = "waiting" /\ server \in {"dropped", "gone"} /\ received = <<>> /\ Quiet
  /\ runs = <<>> \/ Ran(m, args)
  /\ server = "dropped" =>
       /\ Ran(m, args)
       /\ runs[1].ending.ends # "returns" \/ Unwritable(m, runs[1].ending)

Returned(m, args) ==
  /\ caller = "returned" /\ server \in {"reading", "gone"} /\ received = <<>> /\ Quiet
  /\ Ran(m, args) /\ runs[1].ending.ends = "returns"
  /\ outcome = <<runs[1].ending>>

Raised ==
  /\ caller = "raised" /\ received = <<>>
  /\ server \in {"reading", "dropped", "gone"}
  /\ Len(to_server) <= 1 /\ (server # "gone" => to_server = <<>>)
  /\ to_caller = <<>>
  /\ outcome # <<>> /\ outcome[1].ends # "returns"

Waiting(m, args) ==
  /\ outcome = <<>>
  /\ \/ Sent(m, args) \/ Handling(m, args) \/ Replying(m, args)
     \/ Answered(m, args) \/ Broken(m, args)

InCall(m, args) ==
  /\ request = <<[method |-> m, args |-> args]>>
  /\ Waiting(m, args) \/ Returned(m, args) \/ Raised

IInv ==
  /\ stub \in Services /\ serves \in Services /\ calls \in 0 .. MaxCalls
  /\ NoCall \/ \E m \in DOMAIN stub : \E args \in Arguments[m] : InCall(m, args)

(* Sequences of one element.                                               *)
LEMMA One ==
  ASSUME NEW x
  PROVE  /\ <<x>> # <<>> /\ Len(<<x>>) = 1 /\ <<x>>[1] = x /\ Head(<<x>>) = x
         /\ Tail(<<x>>) = <<>> /\ Append(<<>>, x) = <<x>> /\ Len(<<>>) = 0
  OBVIOUS

(* No call is under way at first.                                          *)
LEMMA InitIInv == Init => IInv
  BY MaxCallsAssumption DEF Init, IInv, NoCall, Quiet, MaxCallsAssumption

(* Every phase of a call fits the types.                                   *)
LEMMA IInvTypes == IInv => RpcTypeOK
<1> SUFFICES ASSUME IInv PROVE RpcTypeOK
  OBVIOUS
<1>1. CASE NoCall
  BY <1>1 DEF IInv, NoCall, Quiet, RpcTypeOK
<1>2. ASSUME NEW m \in DOMAIN stub, NEW args \in Arguments[m], InCall(m, args)
      PROVE  RpcTypeOK
  <2>1. request # <<>>
    BY <1>2 DEF InCall
  <2> USE DEF RpcTypeOK, IInv, Quiet
  <2>2. CASE Sent(m, args) /\ outcome = <<>>
    BY <2>1, <2>2, One DEF Sent
  <2>3. CASE (Handling(m, args) \/ Replying(m, args)) /\ outcome = <<>>
    BY <2>1, <2>3 DEF Handling, Replying
  <2>4. CASE Answered(m, args) /\ outcome = <<>>
    BY <2>1, <2>4, One DEF Answered
  <2>5. CASE Broken(m, args) /\ outcome = <<>>
    BY <2>1, <2>5 DEF Broken
  <2>6. CASE Returned(m, args)
    BY <2>1, <2>6, One DEF Returned
  <2>7. CASE Raised
    BY <2>1, <2>7 DEF Raised
  <2> QED
    BY <1>2, <2>2, <2>3, <2>4, <2>5, <2>6, <2>7 DEF InCall, Waiting
<1> QED
  BY <1>1, <1>2 DEF IInv

-----------------------------------------------------------------------------
(***************************************************************************)
(* Each step keeps the invariant and is a step of RemoteCall or none.      *)
(***************************************************************************)
(* A connection starts with no call in either specification.               *)
LEMMA InitRefines == Init => Abstract!Init
  BY DEF Init, Abstract!Init, Outcome, Faulty

(* What RemoteCall does not see.                                           *)
LEMMA StutterRefines ==
  ASSUME UNCHANGED <<request, runs, outcome, stub, serves>>,
         (server' = "gone") <=> (server = "gone")
  PROVE  UNCHANGED Abstract!vars
  BY DEF Abstract!vars, Faulty, Outcome, ResultOf, Void

(* A call is begun, or raises at once because it cannot be written.        *)
LEMMA SendStep ==
  ASSUME IInv, NEW m \in DOMAIN stub, NEW args \in Arguments[m], Send(m, args)
  PROVE  IInv' /\ Abstract!Next
<1> DEFINE message ==
      [name |-> m, type |-> "CALL", body |-> WriteStruct(stub[m].args, args)]
<1>1. /\ caller = "idle" /\ calls < MaxCalls /\ calls' = calls + 1
      /\ request' = <<[method |-> m, args |-> args]>>
      /\ UNCHANGED <<stub, serves, to_caller, server, received, runs>>
  BY Zenon DEF Send
<1>2. NoCall
  BY <1>1 DEF IInv, InCall, Waiting, Sent, Handling, Replying, Answered, Broken, Returned, Raised
<1>3. /\ m \in DOMAIN stub' /\ m \in DOMAIN Arguments
      /\ stub' \in Services /\ serves' \in Services /\ calls' \in 0 .. MaxCalls
  <2>1. m \in DOMAIN Arguments
    BY ArgumentsAssumption DEF IInv, ArgumentsAssumption
  <2>2. calls' \in 0 .. MaxCalls
    BY <1>1, MaxCallsAssumption DEF IInv, MaxCallsAssumption
  <2> QED
    BY <1>1, <2>1, <2>2 DEF IInv
<1>4. Outcome = <<>> /\ runs = <<>> /\ request = <<>>
  BY <1>2 DEF NoCall, Outcome
<1>5. Faulty => Faulty'
  BY <1>1, <1>2 DEF NoCall, Faulty
<1>6. CASE CanWrite(stub[m].args, args)
  <2>1. to_server' = <<message>> /\ caller' = "waiting" /\ outcome' = <<>>
    <3>1. to_server' = Append(to_server, message) /\ caller' = "waiting" /\ outcome' = outcome
      BY <1>6, Zenon DEF Send
    <3> QED
      BY <3>1, <1>2, One DEF NoCall, Quiet
  <2>2. Sent(m, args)'
    BY <1>1, <1>2, <2>1 DEF NoCall, Quiet, Sent
  <2>3. IInv'
    BY <1>1, <1>3, <2>1, <2>2 DEF IInv, InCall, Waiting
  <2>4. Abstract!Call(m, args)
    BY <1>1, <1>4, <1>5, <2>1 DEF Abstract!Call, Outcome
  <2> QED
    BY <1>3, <2>3, <2>4 DEF Abstract!Next
<1>7. CASE ~ CanWrite(stub[m].args, args)
  <2>1. caller' = "raised" /\ to_server' = to_server /\ outcome' = <<[ends |-> "not sent"]>>
    BY <1>7, Zenon DEF Send
  <2>2. Raised'
    <3>1. outcome' # <<>> /\ outcome'[1].ends # "returns"
      BY <2>1
    <3>2. /\ to_server' = <<>> /\ to_caller' = <<>> /\ received' = <<>>
          /\ server' \in {"reading", "gone"}
      BY <1>1, <1>2, <2>1 DEF NoCall, Quiet
    <3>3. Len(to_server') <= 1
      BY <3>2
    <3> QED
      BY <2>1, <3>1, <3>2, <3>3 DEF Raised
  <2>3. IInv'
    BY <1>1, <1>3, <2>2 DEF IInv, InCall
  <2>4. Faulty'
    <3>1. request' # <<>> /\ request'[1] = [method |-> m, args |-> args]
      BY <1>1
    <3> QED
      BY <1>1, <1>7, <3>1 DEF Faulty
  <2>5. Outcome' = <<Abstract!Error>>
    BY <2>1 DEF Outcome, Abstract!Error
  <2>6. Abstract!Call(m, args)
    BY <1>1, <1>4, <1>5, <2>4, <2>5 DEF Abstract!Call
  <2> QED
    BY <1>3, <2>3, <2>6 DEF Abstract!Next
<1> QED
  BY <1>6, <1>7

(* The arguments arrive as the caller gave them.                           *)
LEMMA ProcessStep ==
  ASSUME IInv, Process
  PROVE  IInv' /\ UNCHANGED Abstract!vars
<1>1. /\ server = "reading" /\ to_server # <<>> /\ to_server' = Tail(to_server)
      /\ UNCHANGED <<stub, serves, caller, request, outcome, runs, calls>>
  BY Zenon DEF Process
<1>call. PICK m \in DOMAIN stub : \E args \in Arguments[m] : InCall(m, args)
  BY <1>1 DEF IInv, NoCall, Quiet
<1>2. PICK args \in Arguments[m] : InCall(m, args)
  BY <1>call
<1>3. Sent(m, args) /\ outcome = <<>>
  BY <1>1, <1>2
     DEF InCall, Waiting, Handling, Replying, Answered, Broken, Returned, Raised, Quiet
<1> DEFINE wire == WriteStruct(stub[m].args, args)
           message == [name |-> m, type |-> "CALL", body |-> wire]
<1>4. /\ Head(to_server) = message /\ message.name = m /\ message.body = wire
      /\ to_server' = <<>>
  BY <1>1, <1>3, One DEF Sent
<1>5. IInv'
  <2> SUFFICES Answered(m, args)' \/ Handling(m, args)'
    BY <1>1, <1>2, <1>3 DEF IInv, InCall, Waiting
  <2>1. CASE m \notin DOMAIN serves
    <3> DEFINE answer == [name |-> m, type |-> "EXCEPTION", body |-> "UNKNOWN_METHOD"]
    <3>1. to_caller' = Append(to_caller, answer) /\ UNCHANGED <<server, received>>
      BY <1>4, <2>1, Zenon DEF Process
    <3>2. to_caller' = <<answer>>
      BY <1>3, <3>1, One DEF Sent
    <3>3. AnswerTo(m, args, answer)'
      BY <1>1, <1>3, <2>1 DEF AnswerTo, Sent
    <3> HIDE DEF answer
    <3> QED
      BY <1>1, <1>3, <1>4, <3>1, <3>2, <3>3 DEF Answered, Sent
  <2>2. CASE m \in DOMAIN serves
    <3>1. /\ server' = "handling" /\ UNCHANGED to_caller
          /\ received' = <<[method |-> m, args |-> ReadStruct(serves[m].args, wire)]>>
      BY <1>4, <2>2, Zenon DEF Process
    <3>2. ReadStruct(serves[m].args, wire) = args
      BY <2>2, Agreement, RoundTrip, ArgumentsAssumption DEF IInv, ArgumentsAssumption
    <3>3. received' = request'
      BY <1>1, <1>2, <3>1, <3>2 DEF InCall
    <3> QED
      BY <1>1, <1>3, <1>4, <2>2, <3>1, <3>3 DEF Handling, Sent, Quiet
  <2> QED
    BY <2>1, <2>2
<1>6. UNCHANGED Abstract!vars
  <2>1. server' # "gone"
    BY <1>4, <1>1, Zenon DEF Process
  <2> QED
    BY <1>1, <2>1, StutterRefines
<1> QED
  BY <1>5, <1>6

(* The handler ends in one of the ways RemoteCall allows.                  *)
LEMMA HandlerStep ==
  ASSUME IInv, Handler
  PROVE  IInv' /\ Abstract!Next
<1>1. PICK ending :
        /\ Handle(ending)
        /\ \/ \E e \in Exceptions : ending = [ends |-> e]
           \/ \E v \in Values[received[1].method] : ending = [ends |-> "returns", value |-> v]
           \/ Void(serves, received[1].method) /\ ending = [ends |-> "returns"]
  BY Zenon DEF Handler, HandlerReturns, HandlerEnds, HandlerRaises
<1>2. /\ server = "handling" /\ server' = "replying"
      /\ runs' = Append(runs, [request |-> received[1], ending |-> ending])
      /\ UNCHANGED <<stub, serves, caller, request, outcome, to_server, to_caller, received, calls>>
  BY <1>1, Zenon DEF Handle
<1>call. PICK m \in DOMAIN stub : \E args \in Arguments[m] : InCall(m, args)
  BY <1>2 DEF IInv, NoCall
<1>3. PICK args \in Arguments[m] : InCall(m, args)
  BY <1>call
<1>4. Handling(m, args) /\ outcome = <<>>
  BY <1>2, <1>3
     DEF InCall, Waiting, Sent, Replying, Answered, Broken, Returned, Raised
<1>5. /\ received[1] = [method |-> m, args |-> args] /\ received[1].method = m
      /\ request # <<>> /\ request[1] = received[1] /\ m \in DOMAIN serves
  BY <1>3, <1>4 DEF InCall, Handling
<1>6. ending \in Abstract!Endings(m)
  <2>1. Void(serves, m) => Values[m] = {}
    BY <1>5, ValuesAssumption DEF IInv, ValuesAssumption
  <2> QED
    BY <1>1, <1>5, <2>1 DEF Abstract!Endings, Exceptions, Abstract!Exceptions
<1>7. runs' = <<[request |-> request[1], ending |-> ending]>> /\ runs = <<>>
  BY <1>2, <1>4, <1>5, One DEF Handling
<1>8. IInv'
  <2>1. Ran(m, args)'
    BY <1>2, <1>5, <1>6, <1>7 DEF Ran, Abstract!Endings
  <2>2. Replying(m, args)'
    BY <1>2, <1>4, <2>1 DEF Handling, Replying, Quiet
  <2> QED
    BY <1>2, <1>3, <1>4, <2>2 DEF IInv, InCall, Waiting
<1>9. Abstract!Run
  <2>1. Outcome = <<>> /\ Outcome' = Outcome
    BY <1>2, <1>4 DEF Outcome
  <2>2. Faulty => Faulty'
    BY <1>2, <1>5, <1>7 DEF Faulty
  <2> QED
    BY <1>2, <1>5, <1>6, <1>7, <2>1, <2>2 DEF Abstract!Run
<1> QED
  BY <1>8, <1>9 DEF Abstract!Next

(* The result is sent as the handler returned it; what is not sent ends    *)
(* the connection.                                                         *)
LEMMA FinishStep ==
  ASSUME IInv, Finish
  PROVE  IInv' /\ UNCHANGED Abstract!vars
<1> DEFINE ending == runs[1].ending
<1>1. /\ server = "replying" /\ received' = <<>>
      /\ ReplyOrDrop(received[1].method, runs[Len(runs)].ending)
      /\ UNCHANGED <<stub, serves, caller, request, outcome, to_server, runs, calls>>
  BY Zenon DEF Finish
<1>2. PICK m \in DOMAIN stub : \E args \in Arguments[m] : InCall(m, args)
  BY <1>1 DEF IInv, NoCall
<1>3. PICK args \in Arguments[m] : InCall(m, args)
  BY <1>2
<1>4. Replying(m, args) /\ outcome = <<>>
  BY <1>1, <1>3
     DEF InCall, Waiting, Sent, Handling, Answered, Broken, Returned, Raised
<1>5. /\ received[1].method = m /\ runs[Len(runs)].ending = ending
      /\ ending \in Abstract!Endings(m) /\ Ran(m, args)'
  <2>1. PICK e \in Abstract!Endings(m) :
          runs = <<[request |-> [method |-> m, args |-> args], ending |-> e]>>
    BY <1>4 DEF Replying, Ran
  <2>2. runs[Len(runs)] = runs[1] /\ ending = e
    BY <2>1
  <2>3. received[1].method = m
    BY <1>3, <1>4 DEF InCall, Replying
  <2>4. Ran(m, args)'
    BY <1>1, <1>4 DEF Replying, Ran, Abstract!Endings
  <2> QED
    BY <2>2, <2>3, <2>4
<1>6. \/ ending.ends \in Exceptions
      \/ ending.ends = "returns"
  BY <1>5 DEF Abstract!Endings, Abstract!Exceptions, Exceptions
<1>7. ReplyOrDrop(m, ending)
  BY <1>1, <1>5, Zenon
<1> HIDE DEF ending
<1>8. /\ ending.ends = "TTransportException" => server' = "dropped" /\ UNCHANGED to_caller
      /\ ending.ends = "TApplicationException" => Reply(m, "EXCEPTION", "TApplicationException")
      /\ ending.ends = "Exception" => Reply(m, "EXCEPTION", "INTERNAL_ERROR")
      /\ ending.ends = "returns" /\ ~ Unwritable(m, ending) =>
           Reply(m, "REPLY", WriteStruct(serves[m].result, ResultOf(m, ending)))
      /\ ending.ends = "returns" /\ Unwritable(m, ending) =>
           server' = "dropped" /\ UNCHANGED to_caller
  BY <1>7 DEF ReplyOrDrop, Unwritable
<1>9. (Answered(m, args)' \/ Broken(m, args)') /\ server' # "gone"
  <2>1. ASSUME NEW type, NEW body, Reply(m, type, body),
               AnswerTo(m, args, [name |-> m, type |-> type, body |-> body])'
        PROVE  Answered(m, args)' /\ server' # "gone"
    <3> DEFINE answer == [name |-> m, type |-> type, body |-> body]
    <3>1. to_caller' = Append(to_caller, answer) /\ server' = "reading"
      BY <2>1 DEF Reply
    <3>2. AnswerTo(m, args, answer)'
      BY <2>1
    <3> HIDE DEF answer
    <3>3. to_caller' = <<answer>>
      BY <3>1, <1>4, One DEF Replying, Quiet
    <3> QED
      BY <1>1, <1>4, <3>1, <3>2, <3>3 DEF Answered, Replying, Quiet
  <2>2. ASSUME server' = "dropped", UNCHANGED to_caller,
               ending.ends # "returns" \/ Unwritable(m, ending)
        PROVE  Broken(m, args)' /\ server' # "gone"
    BY <1>1, <1>4, <1>5, <2>2 DEF Broken, Replying, Quiet, ending, Unwritable, ResultOf, Void
  <2>3. CASE ending.ends \in {"TApplicationException", "Exception"}
    BY <1>1, <1>5, <1>8, <2>1, <2>3 DEF AnswerTo, ending
  <2>4. CASE ending.ends = "returns" /\ ~ Unwritable(m, ending)
    BY <1>1, <1>5, <1>8, <2>1, <2>4 DEF AnswerTo, ending, ResultOf, Void
  <2> QED
    BY <1>6, <1>8, <2>2, <2>3, <2>4 DEF Exceptions
<1>10. IInv'
  BY <1>1, <1>3, <1>4, <1>9 DEF IInv, InCall, Waiting
<1> QED
  BY <1>1, <1>9, <1>10, StutterRefines

(* A server that ends breaks the call it is at, and what was sent for it   *)
(* may be lost; it changes nothing that has been decided.                  *)
LEMMA StopStep ==
  ASSUME IInv, Stop
  PROVE  IInv' /\ Abstract!Next
<1>1. /\ server' = "gone" /\ to_caller' \in {to_caller, <<>>} /\ received' = <<>>
      /\ UNCHANGED <<stub, serves, caller, request, outcome, to_server, runs, calls>>
  BY Zenon DEF Stop
<1>2. ASSUME NoCall PROVE IInv'
  BY <1>1, <1>2 DEF IInv, NoCall, Quiet
<1>3. ASSUME NEW m \in DOMAIN stub, NEW args \in Arguments[m], InCall(m, args)
      PROVE  IInv'
  <2>1. Ran(m, args) => Ran(m, args)'
    BY <1>1 DEF Ran, Abstract!Endings
  <2>2. CASE Sent(m, args) /\ outcome = <<>>
    <3>1. Sent(m, args)'
      BY <1>1, <2>2 DEF Sent
    <3> QED
      BY <1>1, <1>3, <2>2, <3>1 DEF IInv, InCall, Waiting
  <2>3. CASE /\ Handling(m, args) \/ Replying(m, args) \/ Broken(m, args)
             /\ outcome = <<>>
    <3>1. Broken(m, args)'
      BY <1>1, <2>1, <2>3 DEF Handling, Replying, Broken, Quiet
    <3> QED
      BY <1>1, <1>3, <2>3, <3>1 DEF IInv, InCall, Waiting
  <2>4. CASE Answered(m, args) /\ outcome = <<>>
    <3>1. PICK message : to_caller = <<message>> /\ AnswerTo(m, args, message)
      BY <2>4 DEF Answered
    <3>2. AnswerTo(m, args, message)'
      BY <1>1, <2>1, <3>1 DEF AnswerTo, ResultOf, Void
    <3>3. runs = <<>> \/ Ran(m, args)
      BY <3>1 DEF AnswerTo
    <3>4. Answered(m, args)' \/ Broken(m, args)'
      BY <1>1, <2>1, <2>4, <3>1, <3>2, <3>3 DEF Answered, Broken, Quiet
    <3> QED
      BY <1>1, <1>3, <2>4, <3>4 DEF IInv, InCall, Waiting
  <2>5. CASE Returned(m, args)
    <3>1. Returned(m, args)'
      BY <1>1, <2>1, <2>5 DEF Returned, Quiet
    <3> QED
      BY <1>1, <1>3, <3>1 DEF IInv, InCall
  <2>6. CASE Raised
    <3>1. Raised'
      BY <1>1, <2>6 DEF Raised
    <3> QED
      BY <1>1, <1>3, <3>1 DEF IInv, InCall
  <2> QED
    BY <1>3, <2>2, <2>3, <2>4, <2>5, <2>6 DEF InCall, Waiting
<1>4. IInv'
  BY <1>2, <1>3 DEF IInv
<1>5. Abstract!Break
  BY <1>1 DEF Abstract!Break, Faulty, Outcome
<1> QED
  BY <1>4, <1>5 DEF Abstract!Next

(* The caller gets what the handler returned, or an error for a reason.    *)
LEMMA ReceiveStep ==
  ASSUME IInv, Receive
  PROVE  IInv' /\ Abstract!Next
<1> DEFINE ending == Received(request[1].method, Head(to_caller))
<1>1. /\ caller = "waiting" /\ to_caller # <<>>
      /\ to_caller' = Tail(to_caller) /\ outcome' = <<ending>>
      /\ caller' = IF ending.ends = "returns" THEN "returned" ELSE "raised"
      /\ UNCHANGED <<stub, serves, request, to_server, server, received, runs, calls>>
  BY Zenon DEF Receive
<1>2. PICK m \in DOMAIN stub : \E args \in Arguments[m] : InCall(m, args)
  BY <1>1 DEF IInv, NoCall
<1>3. PICK args \in Arguments[m] : InCall(m, args)
  BY <1>2
<1>4. Answered(m, args) /\ outcome = <<>>
  BY <1>1, <1>3
     DEF InCall, Waiting, Sent, Handling, Replying, Broken, Returned, Raised, Quiet
<1>5. PICK message : to_caller = <<message>> /\ AnswerTo(m, args, message)
  BY <1>4 DEF Answered
<1>6. ending = Received(m, message) /\ to_caller' = <<>>
  BY <1>1, <1>3, <1>5, One DEF InCall
<1> HIDE DEF ending
<1>7. /\ request # <<>> /\ request[1] = [method |-> m, args |-> args]
      /\ Outcome = <<>> /\ UNCHANGED Faulty
  BY <1>1, <1>3, <1>4 DEF InCall, Outcome, Faulty, ResultOf, Void
<1>8. CASE Ran(m, args) /\ runs[1].ending.ends = "returns"
  <2> DEFINE run == runs[1].ending
  <2>1. m \in DOMAIN serves /\ run \in Abstract!Endings(m) /\ runs # <<>>
    BY <1>8 DEF Ran
  <2>2. stub[m] = serves[m] /\ WellFormed(stub[m].result)
    BY <2>1, Agreement DEF IInv
  <2>3. /\ message.type = "REPLY"
        /\ message.body = WriteStruct(serves[m].result, ResultOf(m, run))
    BY <1>5, <1>8, <2>1 DEF AnswerTo
  <2>4. ending = run
    <3>1. CASE Void(serves, m)
      <4>1. Values[m] = {}
        BY <2>1, <3>1, ValuesAssumption DEF IInv, ValuesAssumption
      <4>2. run = [ends |-> "returns"]
        BY <1>8, <2>1, <4>1 DEF Abstract!Endings, Abstract!Exceptions
      <4>3. Void(stub, m)
        BY <2>2, <3>1 DEF Void
      <4>4. Received(m, message) = [ends |-> "returns"]
        BY <2>3, <4>3 DEF Received
      <4> QED
        BY <1>6, <4>2, <4>4
    <3>2. CASE ~ Void(serves, m)
      <4>1. PICK v \in Values[m] : run = [ends |-> "returns", value |-> v]
        <5>1. Values[m] # {}
          BY <2>1, <3>2, ValuesAssumption DEF IInv, ValuesAssumption
        <5> QED
          BY <1>8, <2>1, <5>1 DEF Abstract!Endings, Abstract!Exceptions
      <4>2. ~ Void(stub, m)
        BY <2>2, <3>2 DEF Void
      <4>3. ResultOf(m, run) = [success |-> v]
        BY <3>2, <4>1 DEF ResultOf
      <4>4. ReadStruct(stub[m].result, message.body) = [success |-> v]
        <5>1. IsObject(serves[m].result, [success |-> v])
          BY <2>1, ValuesAssumption DEF IInv, ValuesAssumption
        <5> QED
          BY <2>2, <2>3, <4>3, <5>1, RoundTrip
      <4>5. Received(m, message) = [ends |-> "returns", value |-> v]
        BY <2>3, <4>2, <4>4 DEF Received
      <4> QED
        BY <1>6, <4>1, <4>5
    <3> QED
      BY <3>1, <3>2
  <2>5. Returned(m, args)'
    <3>1. Ran(m, args)' /\ caller' = "returned" /\ outcome' = <<run>>
      BY <1>1, <1>8, <2>4 DEF Ran, Abstract!Endings
    <3> QED
      BY <1>1, <1>4, <1>6, <1>8, <3>1 DEF Returned, Answered, Quiet
  <2>6. IInv'
    BY <1>1, <1>3, <2>5 DEF IInv, InCall
  <2>7. Outcome' = <<run>>
    BY <1>1, <1>8, <2>4 DEF Outcome
  <2>8. Abstract!Return
    BY <1>1, <1>7, <1>8, <2>1, <2>7 DEF Abstract!Return, Abstract!Returns
  <2> QED
    BY <2>6, <2>8 DEF Abstract!Next
<1>9. CASE ~ (Ran(m, args) /\ runs[1].ending.ends = "returns")
  <2>1. /\ message.type = "EXCEPTION"
        /\ message.body \in {"UNKNOWN_METHOD", "TApplicationException", "INTERNAL_ERROR"}
        /\ \/ m \notin DOMAIN serves
           \/ Ran(m, args) /\ runs[1].ending.ends # "returns"
    BY <1>5, <1>9 DEF AnswerTo
  <2>2. ending = [ends |-> message.body] /\ ending.ends # "returns"
    BY <1>6, <2>1 DEF Received
  <2>3. outcome' # <<>> /\ outcome'[1].ends # "returns" /\ caller' = "raised"
    BY <1>1, <2>2
  <2>4. Raised'
    BY <1>1, <1>4, <1>6, <2>3 DEF Raised, Answered
  <2>5. IInv'
    BY <1>1, <1>3, <2>4 DEF IInv, InCall
  <2>6. Outcome' = <<Abstract!Error>>
    BY <2>3 DEF Outcome, Abstract!Error
  <2>7. Faulty \/ (runs # <<>> /\ ~ Abstract!Returns(runs[1].ending))
    BY <1>7, <2>1 DEF Faulty, Ran, Abstract!Returns
  <2>8. Abstract!Raise
    BY <1>1, <1>7, <2>6, <2>7 DEF Abstract!Raise
  <2> QED
    BY <2>5, <2>8 DEF Abstract!Next
<1> QED
  BY <1>8, <1>9

(* A connection ends without an answer for a reason.                       *)
LEMMA EndOfFileStep ==
  ASSUME IInv, EndOfFile
  PROVE  IInv' /\ Abstract!Next
<1>1. /\ caller = "waiting" /\ to_caller = <<>> /\ server \in {"dropped", "gone"}
      /\ outcome' = <<[ends |-> "TTransportException"]>> /\ caller' = "raised"
      /\ UNCHANGED <<stub, serves, request, to_server, to_caller, server, received, runs, calls>>
  BY Zenon DEF EndOfFile
<1>2. PICK m \in DOMAIN stub : \E args \in Arguments[m] : InCall(m, args)
  BY <1>1 DEF IInv, NoCall
<1>3. PICK args \in Arguments[m] : InCall(m, args)
  BY <1>2
<1>4. (Sent(m, args) \/ Broken(m, args)) /\ outcome = <<>>
  BY <1>1, <1>3
     DEF InCall, Waiting, Handling, Replying, Answered, Returned, Raised
<1>5. outcome' # <<>> /\ outcome'[1].ends # "returns"
  BY <1>1
<1>6. IInv'
  <2>1. Len(to_server) <= 1 /\ received = <<>> /\ (server = "dropped" => to_server = <<>>)
    <3>1. CASE Sent(m, args)
      BY <1>1, <3>1, One DEF Sent
    <3>2. CASE Broken(m, args)
      BY <3>2, One DEF Broken, Quiet
    <3> QED
      BY <1>4, <3>1, <3>2
  <2>2. Raised'
    BY <1>1, <1>5, <2>1 DEF Raised
  <2> QED
    BY <1>1, <1>3, <2>2 DEF IInv, InCall
<1>7. Faulty \/ (runs # <<>> /\ ~ Abstract!Returns(runs[1].ending))
  <2>1. CASE server = "gone"
    BY <2>1 DEF Faulty
  <2>2. CASE server = "dropped"
    <3>1. /\ Ran(m, args)
          /\ runs[1].ending.ends # "returns" \/ Unwritable(m, runs[1].ending)
      BY <1>4, <2>2 DEF Sent, Broken
    <3>2. runs # <<>> /\ runs[1].request.method = m
      BY <3>1 DEF Ran
    <3> QED
      BY <3>1, <3>2 DEF Faulty, Unwritable, Abstract!Returns
  <2> QED
    BY <1>1, <2>1, <2>2
<1>8. Abstract!Raise
  <2>1. request # <<>> /\ Outcome = <<>>
    BY <1>3, <1>4 DEF InCall, Outcome
  <2>2. Outcome' = <<Abstract!Error>>
    BY <1>1, <1>5 DEF Outcome, Abstract!Error
  <2>3. UNCHANGED Faulty
    BY <1>1 DEF Faulty, ResultOf, Void
  <2> QED
    BY <1>1, <1>7, <2>1, <2>2, <2>3 DEF Abstract!Raise
<1> QED
  BY <1>6, <1>8 DEF Abstract!Next

(* The next call starts from nothing, in RemoteCall too.                   *)
LEMMA GoOnStep ==
  ASSUME IInv, GoOn
  PROVE  IInv' /\ Abstract!Next
<1>1. /\ caller = "returned" /\ caller' = "idle"
      /\ request' = <<>> /\ outcome' = <<>> /\ runs' = <<>>
      /\ UNCHANGED <<stub, serves, to_server, to_caller, server, received, calls>>
  BY Zenon DEF GoOn
<1>2. PICK m \in DOMAIN stub : \E args \in Arguments[m] : InCall(m, args)
  BY <1>1 DEF IInv, NoCall
<1>3. PICK args \in Arguments[m] : InCall(m, args)
  BY <1>2
<1>4. Returned(m, args)
  BY <1>1, <1>3
     DEF InCall, Waiting, Sent, Handling, Replying, Answered, Broken, Raised
<1>5. NoCall'
  BY <1>1, <1>4 DEF NoCall, Returned, Quiet
<1>6. IInv'
  BY <1>1, <1>5 DEF IInv
<1>7. Outcome = outcome /\ outcome # <<>> /\ outcome # <<Abstract!Error>>
  <2>1. outcome = <<runs[1].ending>> /\ runs[1].ending.ends = "returns"
    BY <1>4 DEF Returned
  <2>2. outcome # <<>> /\ outcome[1].ends = "returns"
    BY <2>1
  <2>3. <<Abstract!Error>>[1].ends = "error"
    BY DEF Abstract!Error
  <2> QED
    BY <2>2, <2>3 DEF Outcome
<1>8. Outcome' = <<>> /\ Faulty' \in BOOLEAN
  BY <1>1 DEF Outcome, Faulty
<1>9. Abstract!GoOn
  BY <1>1, <1>7, <1>8 DEF Abstract!GoOn
<1> QED
  BY <1>6, <1>9 DEF Abstract!Next

(* All steps together.                                                     *)
LEMMA NextStep == IInv /\ [Next]_vars => IInv' /\ [Abstract!Next]_(Abstract!vars)
<1> SUFFICES ASSUME IInv, [Next]_vars
             PROVE  IInv' /\ [Abstract!Next]_(Abstract!vars)
  OBVIOUS
<1>1. CASE \E m \in DOMAIN stub : \E args \in Arguments[m] : Send(m, args)
  BY <1>1, SendStep
<1>2. CASE Process
  BY <1>2, ProcessStep
<1>3. CASE Handler
  BY <1>3, HandlerStep
<1>4. CASE Finish
  BY <1>4, FinishStep
<1>5. CASE Stop
  BY <1>5, StopStep
<1>6. CASE Receive
  BY <1>6, ReceiveStep
<1>7. CASE EndOfFile
  BY <1>7, EndOfFileStep
<1>8. CASE GoOn
  BY <1>8, GoOnStep
<1>9. CASE UNCHANGED vars
  <2>1. UNCHANGED Abstract!vars
    BY <1>9, StutterRefines DEF vars
  <2>2. IInv'
    BY <1>9 DEF vars, IInv, NoCall, InCall, Waiting, Sent, Handling, Replying, Answered,
                Broken, Returned, Raised, Ran, AnswerTo, Unwritable, ResultOf, Void, Quiet,
                Abstract!Endings
  <2> QED
    BY <2>1, <2>2
<1> QED
  BY <1>1, <1>2, <1>3, <1>4, <1>5, <1>6, <1>7, <1>8, <1>9 DEF Next

(***************************************************************************)
(* A call is always in one of these phases: sent, handled, being replied   *)
(* to, answered, broken, returned or raised, and each says what is on the  *)
(* connection and how often the handler has been run.                      *)
(***************************************************************************)
THEOREM InductiveInvariant == Spec => []IInv
  BY InitIInv, NextStep, PTL DEF Spec

(***************************************************************************)
(* What each end holds fits where it is: no call is answered twice, and no *)
(* answer is left on the connection for the next call.                     *)
(***************************************************************************)
THEOREM RpcTypeCorrect == Spec => []RpcTypeOK
  BY InductiveInvariant, IInvTypes, PTL

(***************************************************************************)
(* A stub gives its caller what the handler returned, or raises for a      *)
(* reason, and the handler has been run at most once, with the caller's    *)
(* arguments: for all arguments, values and integers that fit.             *)
(***************************************************************************)
THEOREM StubsKeepPromises == Spec => ImplementsRemoteCall
  BY InitRefines, NextStep, InductiveInvariant, PTL
     DEF Spec, ImplementsRemoteCall, Abstract!Spec
=============================================================================
