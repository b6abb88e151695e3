--------------------------- MODULE RpcProperties ---------------------------
(***************************************************************************)
(* What the methods of DigiDollarRPC promise, over samples of calls: the   *)
(* name of a method and the optional parameters that are given.            *)
(***************************************************************************)
EXTENDS Sample, RpcMethods

\* The calls are of methods that there are.
ASSUME CallsAssumption == \A call \in Samples["rpc"] : call.name \in DOMAIN DigiDollarRPC

Parameters(method) ==
  method.required \o [i \in DOMAIN method.optional |-> method.optional[i].name]

Required(method) == ToSet(method.required)

(* The node reads parameters by their position, so each one that is given   *)
(* arrives at its own whatever else is given or not, none arrives that was  *)
(* not given, and the node's own defaults stand behind the last that was;   *)
(* and no two methods of the client, made of seven groups, are one RPC.     *)
ArgumentsArrive ==
  Is("rpc") =>
    LET method == DigiDollarRPC[item.name]
        names  == Parameters(method)
        params == Call(method, item.given).params
        sent   == Required(method) \cup item.given
    IN  /\ Len(params) <= Len(names)
        /\ \A i \in DOMAIN names :
             /\ names[i] \in sent <=> i \in DOMAIN params /\ params[i] = Given(names[i])
             /\ i \in DOMAIN params => \E j \in i .. Len(names) : names[j] \in sent
        /\ \A other \in DOMAIN DigiDollarRPC :
             DigiDollarRPC[other].rpc = method.rpc => other = item.name
=============================================================================
