------------------------ MODULE TransportProperties ------------------------
(***************************************************************************)
(* What the transport promises to the code above it.                       *)
(***************************************************************************)
EXTENDS Transport

SdkErrors == {"TimeoutError", "ConnectionError", "AuthenticationError", "RPCError"}

RawErrors == {"DOMException", "TypeError", "SyntaxError"}

Value(c) == {<<c, i>> : i \in Parts(c)}

Member(c) == [id : Nat, value : Value(c), ok : BOOLEAN]

Outcomes(c) ==
  [kind : SdkErrors \union RawErrors \union {"none"}, results : {<< >>}]
    \union [kind : {"results"}, results : [Parts(c) -> Value(c)]]

ClientTypes ==
  /\ nextId \in Nat /\ header \in Nat
  /\ pc \in [Calls -> {"idle", "waiting", "reading", "ended"}]
  /\ DOMAIN ids = Calls
  /\ \A c \in Calls : ids[c] \in {<< >>} \union [Parts(c) -> Nat]
  /\ auth \in [Calls -> Nat]
  /\ DOMAIN outcome = Calls
  /\ \A c \in Calls : outcome[c] \in Outcomes(c)

WireTypes ==
  /\ wire \in [Calls -> {"none", "sent", "answered", "lost"}]
  /\ DOMAIN reply = Calls
  /\ \A c \in Calls : /\ DOMAIN reply[c] = {"status", "body"}
                      /\ reply[c].status \in {0, 200, 401, 503}
                      /\ reply[c].body \in Seq(Member(c))

NodeTypes ==
  /\ starts \in Nat /\ up \in BOOLEAN
  /\ at \in [Calls -> Nat]
  /\ \A c \in Calls : at[c] <= Size[c]
  /\ DOMAIN executed = Calls
  /\ \A c \in Calls : executed[c] \in [Parts(c) -> Nat]
  /\ failures \subseteq UNION {Value(c) : c \in Calls}

(* Type invariant: an outcome with results has one for every part of the    *)
(* call, an error has none, and the node executes no part beyond the last.  *)
TypeOK == ClientTypes /\ WireTypes /\ NodeTypes

(* "Returns results in the same order as the input calls": whatever order   *)
(* the node answers in and whatever it leaves out, result i is the answer   *)
(* to method i of this very call, and a result is only returned when every  *)
(* method succeeded (Transport.batch, the map by id; Transport.call).       *)
ResultsMatch ==
  \A c \in Calls :
    /\ outcome[c].kind = "results" =>
         \A i \in Parts(c) : /\ outcome[c].results[i] = <<c, i>>
                             /\ <<c, i>> \notin failures
    /\ outcome[c].kind = "RPCError" => \E i \in Parts(c) : <<c, i>> \in failures

(* Every call and batch settles, with the node up, down or silent: the      *)
(* abort timer covers the request and the reading of its body.              *)
CallsSettle == \A c \in Calls : pc[c] \in {"waiting", "reading"} ~> pc[c] = "ended"

Status(c) ==
  CASE pc[c] = "idle" -> "idle"
    [] pc[c] \in {"waiting", "reading"} -> "waiting"
    [] pc[c] = "ended" /\ outcome[c].kind \in {"results", "RPCError"} -> "answered"
    [] pc[c] = "ended" /\ outcome[c].kind = "AuthenticationError" -> "refused"
    [] OTHER -> "unknown"

Abstract == INSTANCE RemoteCall WITH status <- [c \in Calls |-> Status(c)]

(* The transport implements RemoteCall: no method is executed twice, what   *)
(* is answered was executed, and what AuthenticationError refused was not   *)
(* and never will be, over timeouts, restarts and lost replies.             *)
ImplementsRemoteCall == Abstract!Spec
=============================================================================
