------------------------------- MODULE MCRpc -------------------------------
EXTENDS Rpc, TLC

(* 0 .. 2 stand for 32 bits and 3 for a counter that has outgrown them. *)
MCI32   == 0 .. 2
MCTexts == {"k", "ERR_KEY"}

Ids    == {0, 3}
Texts1 == {"k", "not ASCII"}
Clocks == {Nothing, 0 :> 1, 0 :> 3}
Stores1 == {Nothing, "k" :> "k"}

ReadResults ==
  {[value |-> v, vector_clock |-> c] : v \in {"k", "ERR_KEY"}, c \in {Nothing, 0 :> 1}}

MCArguments ==
  [setID |-> {[id |-> i] : i \in Ids},
   addConnection |-> {[id |-> i, port |-> 2] : i \in Ids},
   removeConnection |-> {[id |-> 1]},
   getStore |-> {Nothing}, stabilize |-> {Nothing},
   write |-> {[key |-> "k", value |-> "k", cid |-> 0, client_time |-> t] : t \in Ids},
   read |-> {[key |-> "k", cid |-> 1, vector_clock |-> c] : c \in Clocks},
   antiEntropyRequest |-> {[id |-> 0, vector_clock |-> c] : c \in Clocks},
   requestWrite |-> {[key |-> k, value |-> "k"] : k \in Texts1},
   requestRead |-> {[key |-> k] : k \in Texts1}]

MCValues ==
  [setID |-> {}, stabilize |-> {}, requestWrite |-> {},
   addConnection |-> BOOLEAN, removeConnection |-> {TRUE},
   getStore |-> Stores1, write |-> {0 :> 1, 0 :> 3}, read |-> ReadResults,
   requestRead |-> {"k", "ERR_KEY"},
   antiEntropyRequest |->
     {[new_writes |-> w, vector_clock |-> c, accept_time |-> 1] :
        w \in {<<>>, <<"k" :> "k">>}, c \in {Nothing, 0 :> 1, 0 :> 3}}]
=============================================================================
