----------------------------- MODULE RemoteCall -----------------------------
(***************************************************************************)
(* What a caller of the RPC client may rely on.  A call has parts (one, or *)
(* the members of a batch).  Each part is executed at most once, and only  *)
(* after the call began.  An answer means that every part was executed; a  *)
(* refusal that none was, nor ever will be; an unknown end tells nothing.  *)
(***************************************************************************)
EXTENDS Naturals

CONSTANTS Calls, Size

VARIABLES status, executed

vars == <<status, executed>>

Parts(c) == 1..Size[c]

Init ==
  /\ status = [c \in Calls |-> "idle"]
  /\ executed = [c \in Calls |-> [i \in Parts(c) |-> 0]]

Begin(c) ==
  /\ status[c] = "idle"
  /\ status' = [status EXCEPT ![c] = "waiting"]
  /\ UNCHANGED executed

Execute(c, i) ==
  /\ status[c] \in {"waiting", "unknown"}
  /\ executed[c][i] = 0
  /\ executed' = [executed EXCEPT ![c][i] = 1]
  /\ UNCHANGED status

End(c, end) ==
  /\ status[c] = "waiting"
  /\ end = "answered" => \A i \in Parts(c) : executed[c][i] = 1
  /\ end = "refused" => \A i \in Parts(c) : executed[c][i] = 0
  /\ status' = [status EXCEPT ![c] = end]
  /\ UNCHANGED executed

Next ==
  \E c \in Calls :
    \/ Begin(c)
    \/ \E i \in Parts(c) : Execute(c, i)
    \/ \E end \in {"answered", "refused", "unknown"} : End(c, end)

Spec == Init /\ [][Next]_vars
=============================================================================
