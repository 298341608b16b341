----------------------------- MODULE ClientStubs -----------------------------
(***************************************************************************)
(* gen-py/client: the structs and the methods of the service Client.       *)
(***************************************************************************)
EXTENDS ThriftStructs

setID_args == {Field(1, Int32, "id")}
setID_result == NoFields
addConnection_args == {Field(1, Int32, "id"), Field(2, Int32, "port")}
addConnection_result == Success(Bool)
removeConnection_args == {Field(1, Int32, "id")}
removeConnection_result == Success(Bool)
requestWrite_args == {Field(1, Text, "key"), Field(2, Text, "value")}
requestWrite_result == NoFields
requestRead_args == {Field(1, Text, "key")}
requestRead_result == Success(Text)

-----------------------------------------------------------------------------
(***************************************************************************)
(* The stub of a method: send_* fills in the args and sends them, recv_*   *)
(* reads the result.                                                       *)
(***************************************************************************)
setID == [args |-> setID_args, result |-> setID_result]
addConnection == [args |-> addConnection_args, result |-> addConnection_result]
removeConnection == [args |-> removeConnection_args, result |-> removeConnection_result]
requestWrite == [args |-> requestWrite_args, result |-> requestWrite_result]
requestRead == [args |-> requestRead_args, result |-> requestRead_result]

(* _processMap of the Processor. *)
processMap ==
  [setID |-> setID, addConnection |-> addConnection,
   removeConnection |-> removeConnection, requestWrite |-> requestWrite,
   requestRead |-> requestRead]
=============================================================================
