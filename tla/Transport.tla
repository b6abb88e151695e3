----------------------------- MODULE Transport -----------------------------
(***************************************************************************)
(* The JSON-RPC transport of rpc-client: concurrent single calls and       *)
(* batches over one Transport object, cookie authentication that is read   *)
(* once and refreshed on request, a node that restarts with a new cookie,  *)
(* and the abort timer, which covers both the wait for the response and    *)
(* the reading of its body.                                                *)
(***************************************************************************)
EXTENDS Naturals, Sequences, FiniteSets

CONSTANTS
  Calls,      \* the invocations of call and batch
  Batches,    \* those that are batches
  Size,       \* the number of methods each one invokes
  MaxStarts   \* the node starts at most so often

ASSUME CallsAssumption ==
  /\ Batches \subseteq Calls
  /\ Size \in [Calls -> Nat \ {0}]
  /\ \A c \in Calls \ Batches : Size[c] = 1

VARIABLES
  nextId,     \* the id of the next request
  header,     \* the cookie authHeader was built from
  starts,     \* how often the node started; names its cookie
  up,         \* whether the node runs (and the cookie file exists)
  pc,         \* "idle", "waiting" for fetch, "reading" the body, "ended"
  ids,        \* the ids in the body that was sent
  auth,       \* the cookie that was sent
  wire,       \* "none", "sent", "answered" or "lost"
  at,         \* how many methods the node has executed for this request
  executed,   \* how often it executed each of them, for any request
  failures,   \* the methods that failed
  reply,      \* the node's response
  outcome     \* what the caller gets

vars == <<nextId, header, starts, up, pc, ids, auth, wire, at, executed,
          failures, reply, outcome>>

Parts(c) == 1..Size[c]

NoReply == [status |-> 0, body |-> << >>]

Outcome(kind) == [kind |-> kind, results |-> << >>]

Init ==
  /\ nextId = 1 /\ header = 1 /\ starts = 1 /\ up = TRUE
  /\ pc = [c \in Calls |-> "idle"]
  /\ ids = [c \in Calls |-> << >>]
  /\ auth = [c \in Calls |-> 0]
  /\ wire = [c \in Calls |-> "none"]
  /\ at = [c \in Calls |-> 0]
  /\ executed = [c \in Calls |-> [i \in Parts(c) |-> 0]]
  /\ failures = {}
  /\ reply = [c \in Calls |-> NoReply]
  /\ outcome = [c \in Calls |-> Outcome("none")]

----------------------------------------------------------------------------
(* The client *)

Sends(c) ==
  /\ pc[c] = "idle"
  /\ pc' = [pc EXCEPT ![c] = "waiting"]
  /\ ids' = [ids EXCEPT ![c] = [i \in Parts(c) |-> nextId + i - 1]]
  /\ nextId' = nextId + Size[c]
  /\ auth' = [auth EXCEPT ![c] = header]
  /\ wire' = [wire EXCEPT ![c] = IF up THEN "sent" ELSE "lost"]
  /\ UNCHANGED <<header, starts, up, at, executed, failures, reply, outcome>>

Ends(c, result) ==
  /\ pc' = [pc EXCEPT ![c] = "ended"]
  /\ outcome' = [outcome EXCEPT ![c] = result]

RetriesFetch(c) ==                        \* mutant: a timed-out fetch is sent again
  /\ pc[c] = "waiting"
  /\ wire' = [wire EXCEPT ![c] = "sent"]
  /\ at' = [at EXCEPT ![c] = 0]
  /\ UNCHANGED <<nextId, header, starts, up, pc, ids, auth, executed, failures,
                 reply, outcome>>

FetchFails(c) ==
  /\ pc[c] = "waiting"
  /\ \E kind \in {"TimeoutError", "ConnectionError"} : Ends(c, Outcome(kind))
  /\ UNCHANGED <<nextId, header, starts, up, ids, auth, wire, at, executed,
                 failures, reply>>

(* A batch does not look at response.ok. *)
ResponseArrives(c) ==
  /\ pc[c] = "waiting" /\ wire[c] = "answered"
  /\ CASE reply[c].status = 401 -> Ends(c, Outcome("AuthenticationError"))
       [] reply[c].status = 503 /\ c \notin Batches -> Ends(c, Outcome("ConnectionError"))
       [] OTHER -> pc' = [pc EXCEPT ![c] = "reading"] /\ UNCHANGED outcome
  /\ UNCHANGED <<nextId, header, starts, up, ids, auth, wire, at, executed,
                 failures, reply>>

(* Reading the body is outside the try: these errors are not the SDK's. *)
BodyFails(c) ==
  /\ pc[c] = "reading"
  /\ \E kind \in {"DOMException", "TypeError"} : Ends(c, Outcome(kind))
  /\ UNCHANGED <<nextId, header, starts, up, ids, auth, wire, at, executed,
                 failures, reply>>

WithId(body, id) == {k \in DOMAIN body : body[k].id = id}

ByPosition(c, i) ==                       \* mutant: answers taken in their order
  {k \in DOMAIN reply[c].body : k = i}

(* A single call takes the response whatever its id. *)
Responses(c, i) ==
  IF c \in Batches THEN WithId(reply[c].body, ids[c][i]) ELSE {1}

Response(c, i) == reply[c].body[CHOOSE k \in Responses(c, i) : TRUE]

Unusable(c) ==
  {i \in Parts(c) : Responses(c, i) = {} \/ ~Response(c, i).ok}

Results(c) == [i \in Parts(c) |-> Response(c, i).value]

SkipsFailures(c) ==                       \* mutant: failed members are left out
  [kind |-> "results",
   results |-> [i \in Parts(c) \ Unusable(c) |-> Response(c, i).value]]

Collected(c) ==
  IF Unusable(c) = {} THEN [kind |-> "results", results |-> Results(c)]
  ELSE LET first == CHOOSE i \in Unusable(c) : \A j \in Unusable(c) : i <= j
       IN  IF Responses(c, first) = {} THEN Outcome("ConnectionError")
           ELSE Outcome("RPCError")

BodyArrives(c) ==
  /\ pc[c] = "reading"
  /\ Ends(c, IF reply[c].status = 503 THEN Outcome("SyntaxError") ELSE Collected(c))
  /\ UNCHANGED <<nextId, header, starts, up, ids, auth, wire, at, executed,
                 failures, reply>>

(* Without a cookie file readFileSync throws and the header stays. *)
RefreshAuth ==
  /\ up
  /\ header' = starts
  /\ UNCHANGED <<nextId, starts, up, pc, ids, auth, wire, at, executed, failures,
                 reply, outcome>>

----------------------------------------------------------------------------
(* The node *)

Answers(c, response) ==
  /\ wire' = [wire EXCEPT ![c] = "answered"]
  /\ reply' = [reply EXCEPT ![c] = response]
  /\ UNCHANGED <<nextId, header, starts, up, pc, ids, auth, at, executed,
                 failures, outcome>>

NodeRefuses(c) ==
  /\ up /\ wire[c] = "sent" /\ auth[c] # starts
  /\ Answers(c, [status |-> 401, body |-> << >>])

(* 503 stands for every status but 200, 401, 403 and 500; 403 is as 401, and *)
(* 500, which comes with the JSON of an error, as 200.                       *)
NodeIsBusy(c) ==
  /\ up /\ wire[c] = "sent" /\ auth[c] = starts /\ at[c] = 0
  /\ Answers(c, [status |-> 503, body |-> << >>])

NodeExecutes(c) ==
  /\ up /\ wire[c] = "sent" /\ auth[c] = starts
  /\ at[c] < Size[c]
  /\ at' = [at EXCEPT ![c] = @ + 1]
  /\ executed' = [executed EXCEPT ![c][at[c] + 1] = @ + 1]
  /\ failures' \in {failures, failures \union {<<c, at[c] + 1>>}}
  /\ UNCHANGED <<nextId, header, starts, up, pc, ids, auth, wire, reply, outcome>>

(* The value of a response tells which method of which call it answers. *)
Answer(c, i) ==
  [id |-> ids[c][i], value |-> <<c, i>>, ok |-> <<c, i>> \notin failures]

(* The members of a batch may be answered in any order and may be missing. *)
Orders(c) ==
  IF c \in Batches
  THEN UNION {{s \in [1..n -> Parts(c)] :
                 \A j, k \in 1..n : s[j] = s[k] => j = k} : n \in 0..Size[c]}
  ELSE {<<1>>}

NodeAnswers(c) ==
  /\ up /\ wire[c] = "sent" /\ at[c] = Size[c]
  /\ \E order \in Orders(c) :
       Answers(c, [status |-> 200,
                   body |-> [k \in DOMAIN order |-> Answer(c, order[k])]])

NodeStops ==
  /\ up /\ up' = FALSE
  /\ wire' = [c \in Calls |-> IF wire[c] = "sent" THEN "lost" ELSE wire[c]]
  /\ UNCHANGED <<nextId, header, starts, pc, ids, auth, at, executed, failures,
                 reply, outcome>>

NodeStarts ==
  /\ ~up /\ starts < MaxStarts
  /\ up' = TRUE
  /\ starts' = starts + 1
  /\ UNCHANGED <<nextId, header, pc, ids, auth, wire, at, executed, failures,
                 reply, outcome>>

----------------------------------------------------------------------------
Client(c) ==
  \/ Sends(c) \/ FetchFails(c) \/ ResponseArrives(c) \/ BodyFails(c) \/ BodyArrives(c)

Node(c) == NodeRefuses(c) \/ NodeIsBusy(c) \/ NodeExecutes(c) \/ NodeAnswers(c)

Next == (\E c \in Calls : Client(c) \/ Node(c)) \/ RefreshAuth \/ NodeStops \/ NodeStarts

Spec == Init /\ [][Next]_vars

(* A call that waits or reads is resumed, by the response or by the timer. *)
Resumes(c) == FetchFails(c) \/ ResponseArrives(c) \/ BodyFails(c) \/ BodyArrives(c)

FairSpec == Spec /\ \A c \in Calls : WF_vars(Resumes(c))
=============================================================================
