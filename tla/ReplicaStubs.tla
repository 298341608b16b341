---------------------------- MODULE ReplicaStubs ----------------------------
(***************************************************************************)
(* gen-py/replica: the structs and the methods of the service Replica.     *)
(***************************************************************************)
EXTENDS ThriftStructs

ReadResult == Struct({Field(1, Text, "value"), Field(2, Clock, "vector_clock")})
AntiEntropyResult ==
  Struct({Field(1, ListOf(TextMap), "new_writes"), Field(2, Clock, "vector_clock"),
          Field(3, Int32, "accept_time")})
setID_args == {Field(1, Int32, "id")}
setID_result == NoFields
addConnection_args == {Field(1, Int32, "id"), Field(2, Int32, "port")}
addConnection_result == Success(Bool)
removeConnection_args == {Field(1, Int32, "id")}
removeConnection_result == Success(Bool)
getStore_args == NoFields
getStore_result == Success(TextMap)
stabilize_args == NoFields
stabilize_result == NoFields
write_args ==
  {Field(1, Text, "key"), Field(2, Text, "value"), Field(3, Int32, "cid"),
   Field(4, Int32, "client_time")}
write_result == Success(Clock)
read_args == {Field(1, Text, "key"), Field(2, Int32, "cid"), Field(3, Clock, "vector_clock")}
read_result == Success(ReadResult)
antiEntropyRequest_args == {Field(1, Int32, "id"), Field(2, Clock, "vector_clock")}
antiEntropyRequest_result == Success(AntiEntropyResult)

-----------------------------------------------------------------------------
(***************************************************************************)
(* The stub of a method: send_* fills in the args and sends them, recv_*   *)
(* reads the result.                                                       *)
(***************************************************************************)
setID == [args |-> setID_args, result |-> setID_result]
addConnection == [args |-> addConnection_args, result |-> addConnection_result]
removeConnection == [args |-> removeConnection_args, result |-> removeConnection_result]
getStore == [args |-> getStore_args, result |-> getStore_result]
stabilize == [args |-> stabilize_args, result |-> stabilize_result]
write == [args |-> write_args, result |-> write_result]
read == [args |-> read_args, result |-> read_result]
antiEntropyRequest == [args |-> antiEntropyRequest_args, result |-> antiEntropyRequest_result]

(* _processMap of the Processor. *)
processMap ==
  [setID |-> setID, addConnection |-> addConnection,
   removeConnection |-> removeConnection, getStore |-> getStore,
   stabilize |-> stabilize, write |-> write,
   read |-> read, antiEntropyRequest |-> antiEntropyRequest]
=============================================================================
