-------------------------- MODULE TransportProofs --------------------------
(***************************************************************************)
(* For any calls, batch sizes and numbers of restarts: the transport is    *)
(* type correct, its results match the calls, and it implements RemoteCall.*)
(***************************************************************************)
EXTENDS TransportProperties, WellFoundedInduction, TLAPS

HasFailed(c) == {i \in Parts(c) : <<c, i>> \in failures}

(* A request that has not left the client. *)
Idle(c) ==
  /\ wire[c] = "none" /\ at[c] = 0 /\ outcome[c].kind = "none"

(* A request that has: its ids tell its methods apart. *)
Started(c) ==
  /\ wire[c] # "none"
  /\ ids[c] \in [Parts(c) -> Nat]
  /\ \A i, j \in Parts(c) : ids[c][i] = ids[c][j] => i = j

(* The response speaks of this call, and of all of its methods or of none. *)
ReplyOK(c) ==
  \/ reply[c].status \in {401, 503} /\ at[c] = 0
  \/ /\ reply[c].status = 200 /\ at[c] = Size[c]
     /\ \A k \in DOMAIN reply[c].body :
          \E i \in Parts(c) : reply[c].body[k] = Answer(c, i)
     /\ c \notin Batches => DOMAIN reply[c].body = {1}

OutcomeOK(c) ==
  /\ outcome[c].kind = "AuthenticationError" => wire[c] = "answered" /\ at[c] = 0
  /\ outcome[c].kind \in {"results", "RPCError"} =>
       wire[c] = "answered" /\ at[c] = Size[c]
  /\ outcome[c].kind = "results" =>
       \A i \in Parts(c) : outcome[c].results[i] = <<c, i>> /\ i \notin HasFailed(c)
  /\ outcome[c].kind = "RPCError" => HasFailed(c) # {}

CallInv(c) ==
  /\ pc[c] = "idle" => Idle(c)
  /\ pc[c] # "idle" => Started(c)
  /\ pc[c] \in {"waiting", "reading"} => outcome[c].kind = "none"
  /\ pc[c] = "ended" => outcome[c].kind # "none"
  /\ pc[c] = "reading" => wire[c] = "answered" /\ reply[c].status \in {200, 503}
  /\ wire[c] = "answered" => ReplyOK(c)
  /\ wire[c] = "sent" => up
  /\ wire[c] = "sent" /\ at[c] > 0 => auth[c] = starts
  /\ \A i \in Parts(c) : executed[c][i] = IF i <= at[c] THEN 1 ELSE 0
  /\ \A i \in HasFailed(c) : i <= at[c]
  /\ OutcomeOK(c)

(* The inductive invariant. *)
IInv == TypeOK /\ \A c \in Calls : CallInv(c)

----------------------------------------------------------------------------
(* What belongs to call d is as it was. *)
Same(d) ==
  /\ pc'[d] = pc[d] /\ ids'[d] = ids[d] /\ auth'[d] = auth[d]
  /\ wire'[d] = wire[d] /\ at'[d] = at[d] /\ executed'[d] = executed[d]
  /\ reply'[d] = reply[d] /\ outcome'[d] = outcome[d]
  /\ \A i \in Parts(d) : <<d, i>> \in failures' <=> <<d, i>> \in failures

(* A step that leaves a call and the node's life alone keeps its invariant. *)
LEMMA Frame ==
  ASSUME NEW d \in Calls, CallInv(d), Same(d), UNCHANGED <<starts, up>>
  PROVE  CallInv(d)'
<1>1. HasFailed(d)' = HasFailed(d)
  BY DEF Same, HasFailed, Parts
<1>2. \A i \in Parts(d) : Answer(d, i)' = Answer(d, i)
  BY DEF Same, Answer
<1>3. ReplyOK(d) => ReplyOK(d)'
  BY <1>2 DEF Same, ReplyOK, Parts
<1>4. OutcomeOK(d)'
  BY <1>1 DEF Same, OutcomeOK, CallInv, Parts
<1>5. Started(d) => Started(d)'
  BY DEF Same, Started, Parts
<1>6. Idle(d) => Idle(d)'
  BY DEF Same, Idle
<1> QED
  BY <1>1, <1>3, <1>4, <1>5, <1>6 DEF Same, CallInv, Parts

(* The initial state satisfies the invariant. *)
LEMMA InitInv == Init => IInv
<1> SUFFICES ASSUME Init PROVE IInv
  OBVIOUS
<1>1. \A c \in Calls : Size[c] \in Nat \ {0}
  BY CallsAssumption
<1>2. ClientTypes
  <2>1. \A c \in Calls : outcome[c] \in Outcomes(c)
    BY DEF Init, Outcome, Outcomes
  <2> QED
    BY <2>1 DEF Init, ClientTypes
<1>3. WireTypes
  <2>1. \A c \in Calls : reply[c] = NoReply
    BY DEF Init
  <2>2. << >> \in Seq({}) /\ \A c \in Calls : Seq({}) \subseteq Seq(Member(c))
    OBVIOUS
  <2>3. DOMAIN NoReply = {"status", "body"} /\ NoReply.status = 0 /\ NoReply.body = << >>
    BY DEF NoReply
  <2> QED
    BY <2>1, <2>2, <2>3 DEF Init, WireTypes
<1>4. NodeTypes
  BY <1>1 DEF Init, NodeTypes
<1>5. ASSUME NEW c \in Calls PROVE CallInv(c)
  BY <1>1 DEF Init, CallInv, Idle, OutcomeOK, HasFailed, Outcome, Parts
<1> QED
  BY <1>2, <1>3, <1>4, <1>5 DEF IInv, TypeOK

----------------------------------------------------------------------------
(* Sending takes ids that no other method of the call gets. *)
LEMMA SendsInv == ASSUME IInv, NEW c \in Calls, Sends(c) PROVE IInv'
<1>1. Size[c] \in Nat \ {0} /\ nextId \in Nat /\ header \in Nat
  BY CallsAssumption DEF IInv, TypeOK, ClientTypes
<1>2. CallInv(c) /\ Idle(c)
  BY DEF IInv, CallInv, Sends
<1>3. ids'[c] = [i \in Parts(c) |-> nextId + i - 1]
  BY DEF IInv, TypeOK, ClientTypes, WireTypes, Sends
<1>4. ids'[c] \in [Parts(c) -> Nat]
  BY <1>1, <1>3 DEF Parts
<1>5. ASSUME NEW i \in Parts(c), NEW j \in Parts(c), ids'[c][i] = ids'[c][j]
      PROVE  i = j
  BY <1>1, <1>3, <1>5 DEF Parts
<1>6. TypeOK'
  <2> USE DEF IInv, TypeOK
  <2>1. ClientTypes'
    <3>1. \A d \in Calls : ids'[d] \in {<< >>} \union [Parts(d) -> Nat]
      BY <1>4 DEF ClientTypes, Sends
    <3>2. nextId' \in Nat /\ auth' \in [Calls -> Nat]
      BY <1>1 DEF ClientTypes, Sends
    <3> QED
      BY <3>1, <3>2 DEF ClientTypes, Sends
  <2>2. WireTypes'
    BY DEF WireTypes, Sends
  <2>3. NodeTypes'
    BY DEF NodeTypes, Sends
  <2> QED
    BY <2>1, <2>2, <2>3
<1>7. pc'[c] = "waiting" /\ wire'[c] \in {"sent", "lost"} /\ (wire'[c] = "sent" => up)
  BY DEF IInv, TypeOK, ClientTypes, WireTypes, Sends
<1>8. CallInv(c)'
  <2>1. at'[c] = 0 /\ outcome'[c].kind = "none" /\ HasFailed(c)' = HasFailed(c)
    BY <1>2 DEF Sends, Idle, HasFailed, Parts
  <2>2. Started(c)'
    BY <1>4, <1>5, <1>7 DEF Started, Parts
  <2>3. OutcomeOK(c)'
    BY <2>1 DEF OutcomeOK
  <2>4. \A i \in Parts(c)' : executed'[c][i] = IF i <= at'[c] THEN 1 ELSE 0
    BY <1>2 DEF Sends, CallInv, Parts
  <2>5. \A i \in HasFailed(c)' : i <= at'[c]
    BY <1>2, <2>1 DEF Sends, CallInv
  <2> QED
    BY <1>7, <2>1, <2>2, <2>3, <2>4, <2>5 DEF CallInv, Sends
<1>9. ASSUME NEW d \in Calls \ {c} PROVE CallInv(d)'
  <2>1. Same(d)
    BY DEF IInv, TypeOK, ClientTypes, WireTypes, Sends, Same
  <2> QED
    BY <2>1, Frame DEF IInv, Sends
<1> QED
  BY <1>6, <1>8, <1>9 DEF IInv

(* A call that ends without touching the wire. *)
LEMMA EndsInv ==
  ASSUME IInv, NEW c \in Calls, pc[c] \in {"waiting", "reading"},
         NEW result \in Outcomes(c), Ends(c, result), result.kind # "none",
         UNCHANGED <<nextId, header, starts, up, ids, auth, wire, at, executed,
                     failures, reply>>,
         OutcomeOK(c)'
  PROVE  IInv'
<1>1. outcome'[c] = result /\ pc'[c] = "ended"
  BY DEF IInv, TypeOK, ClientTypes, Ends
<1>2. TypeOK'
  <2>1. ClientTypes'
    BY DEF IInv, TypeOK, ClientTypes, Ends
  <2>2. WireTypes' /\ NodeTypes'
    BY DEF IInv, TypeOK, WireTypes, NodeTypes
  <2> QED
    BY <2>1, <2>2 DEF TypeOK
<1>3. CallInv(c)'
  <2>1. CallInv(c) /\ Started(c)
    BY DEF IInv, CallInv
  <2>2. HasFailed(c)' = HasFailed(c) /\ Started(c)' /\ (ReplyOK(c) => ReplyOK(c)')
    BY <2>1 DEF HasFailed, Started, ReplyOK, Answer, Parts
  <2> QED
    BY <1>1, <2>1, <2>2 DEF CallInv, Parts
<1>4. ASSUME NEW d \in Calls \ {c} PROVE CallInv(d)'
  <2>1. Same(d)
    BY DEF IInv, TypeOK, ClientTypes, Ends, Same
  <2> QED
    BY <2>1, Frame DEF IInv
<1> QED
  BY <1>2, <1>3, <1>4 DEF IInv

(* A lost request ends in an error that claims nothing. *)
LEMMA FetchFailsInv == ASSUME IInv, NEW c \in Calls, FetchFails(c) PROVE IInv'
<1>1. PICK kind \in {"TimeoutError", "ConnectionError"} : Ends(c, Outcome(kind))
  BY DEF FetchFails
<1>2. Outcome(kind) \in Outcomes(c) /\ Outcome(kind).kind = kind
  BY DEF Outcome, Outcomes, SdkErrors
<1>3. outcome'[c].kind = kind
  BY <1>1, <1>2 DEF IInv, TypeOK, ClientTypes, Ends
<1>4. OutcomeOK(c)'
  BY <1>3 DEF OutcomeOK
<1> QED
  BY <1>1, <1>2, <1>4, EndsInv DEF FetchFails

(* So does a body that cannot be read. *)
LEMMA BodyFailsInv == ASSUME IInv, NEW c \in Calls, BodyFails(c) PROVE IInv'
<1>1. PICK kind \in {"DOMException", "TypeError"} : Ends(c, Outcome(kind))
  BY DEF BodyFails
<1>2. Outcome(kind) \in Outcomes(c) /\ Outcome(kind).kind = kind
  BY DEF Outcome, Outcomes, RawErrors
<1>3. outcome'[c].kind = kind
  BY <1>1, <1>2 DEF IInv, TypeOK, ClientTypes, Ends
<1>4. OutcomeOK(c)'
  BY <1>3 DEF OutcomeOK
<1> QED
  BY <1>1, <1>2, <1>4, EndsInv DEF BodyFails

(* The status line alone ends a call that was refused or not served; then   *)
(* none of its methods was executed.                                        *)
LEMMA ResponseArrivesInv ==
  ASSUME IInv, NEW c \in Calls, ResponseArrives(c) PROVE IInv'
<1>1. CallInv(c) /\ ReplyOK(c) /\ Started(c)
  BY DEF IInv, CallInv, ResponseArrives
<1>2. CASE reply[c].status = 401
  <2>1. Ends(c, Outcome("AuthenticationError"))
    BY <1>2 DEF ResponseArrives
  <2>2. /\ Outcome("AuthenticationError") \in Outcomes(c)
        /\ Outcome("AuthenticationError").kind = "AuthenticationError"
    BY DEF Outcome, Outcomes, SdkErrors
  <2>3. outcome'[c].kind = "AuthenticationError"
    BY <2>1, <2>2 DEF IInv, TypeOK, ClientTypes, Ends
  <2>4. OutcomeOK(c)'
    BY <1>1, <1>2, <2>3 DEF OutcomeOK, ReplyOK, ResponseArrives
  <2> QED
    BY <2>1, <2>2, <2>4, EndsInv DEF ResponseArrives
<1>3. CASE reply[c].status = 503 /\ c \notin Batches
  <2>1. Ends(c, Outcome("ConnectionError"))
    BY <1>3 DEF ResponseArrives
  <2>2. /\ Outcome("ConnectionError") \in Outcomes(c)
        /\ Outcome("ConnectionError").kind = "ConnectionError"
    BY DEF Outcome, Outcomes, SdkErrors
  <2>3. outcome'[c].kind = "ConnectionError"
    BY <2>1, <2>2 DEF IInv, TypeOK, ClientTypes, Ends
  <2>4. OutcomeOK(c)'
    BY <2>3 DEF OutcomeOK
  <2> QED
    BY <2>1, <2>2, <2>4, EndsInv DEF ResponseArrives
<1>4. CASE reply[c].status # 401 /\ ~(reply[c].status = 503 /\ c \notin Batches)
  <2>1. pc' = [pc EXCEPT ![c] = "reading"] /\ UNCHANGED outcome
    BY <1>4 DEF ResponseArrives
  <2>2. reply[c].status \in {200, 503}
    BY <1>1, <1>4 DEF ReplyOK
  <2>3. TypeOK'
    <3>1. ClientTypes'
      BY <2>1 DEF IInv, TypeOK, ClientTypes, ResponseArrives
    <3>2. WireTypes' /\ NodeTypes'
      BY DEF IInv, TypeOK, WireTypes, NodeTypes, ResponseArrives
    <3> QED
      BY <3>1, <3>2 DEF TypeOK
  <2>4. CallInv(c)'
    <3>1. HasFailed(c)' = HasFailed(c)
      BY DEF ResponseArrives, HasFailed, Parts
    <3>2. Started(c)'
      BY <1>1 DEF ResponseArrives, Started, Parts
    <3>3. \A i \in Parts(c) : Answer(c, i)' = Answer(c, i)
      BY DEF ResponseArrives, Answer
    <3>4. ReplyOK(c)'
      BY <1>1, <3>3 DEF ResponseArrives, ReplyOK, Parts
    <3>5. OutcomeOK(c)'
      BY <1>1, <2>1, <3>1 DEF CallInv, ResponseArrives, OutcomeOK, Parts
    <3>6. pc'[c] = "reading"
      BY <2>1 DEF IInv, TypeOK, ClientTypes
    <3> QED
      BY <1>1, <2>1, <2>2, <3>1, <3>6, <3>5, <3>2, <3>4 DEF CallInv, ResponseArrives, Parts
  <2>5. ASSUME NEW d \in Calls \ {c} PROVE CallInv(d)'
    <3>1. Same(d)
      BY <2>1 DEF IInv, TypeOK, ClientTypes, ResponseArrives, Same
    <3> QED
      BY <3>1, Frame DEF IInv, ResponseArrives
  <2> QED
    BY <2>3, <2>4, <2>5 DEF IInv
<1> QED
  BY <1>2, <1>3, <1>4

(* What is found under the id of a method is the answer to that method, and *)
(* a call that collects an RPCError has a method that failed.               *)
LEMMA Collects ==
  ASSUME IInv, NEW c \in Calls, pc[c] = "reading", reply[c].status = 200
  PROVE  /\ Collected(c) \in Outcomes(c) /\ Collected(c).kind # "none"
         /\ Collected(c).kind # "AuthenticationError"
         /\ Collected(c).kind = "results" =>
              \A i \in Parts(c) : Collected(c).results[i] = <<c, i>> /\ i \notin HasFailed(c)
         /\ Collected(c).kind = "RPCError" => HasFailed(c) # {}
<1>1. CallInv(c) /\ Started(c) /\ ReplyOK(c)
  BY DEF IInv, CallInv
<1>2. \A k \in DOMAIN reply[c].body : \E i \in Parts(c) : reply[c].body[k] = Answer(c, i)
  BY <1>1 DEF ReplyOK
<1>3. ASSUME NEW i \in Parts(c), Responses(c, i) # {}
      PROVE  Response(c, i) = Answer(c, i)
  <2>1. PICK k : k = (CHOOSE l \in Responses(c, i) : TRUE) /\ k \in Responses(c, i)
    BY <1>3
  <2>2. CASE c \in Batches
    <3>1. k \in DOMAIN reply[c].body /\ reply[c].body[k].id = ids[c][i]
      BY <2>1, <2>2 DEF Responses, WithId
    <3>2. PICK j \in Parts(c) : reply[c].body[k] = Answer(c, j)
      BY <1>2, <3>1
    <3>3. j = i
      BY <1>1, <3>1, <3>2 DEF Started, Answer
    <3> QED
      BY <2>1, <3>2, <3>3 DEF Response
  <2>3. CASE c \notin Batches
    <3>1. Parts(c) = {1} /\ i = 1
      BY <2>3, CallsAssumption DEF Parts
    <3>2. k = 1
      BY <2>1, <2>3 DEF Responses
    <3>3. 1 \in DOMAIN reply[c].body
      BY <1>1, <2>3 DEF ReplyOK
    <3>4. PICK j \in Parts(c) : reply[c].body[1] = Answer(c, j)
      BY <1>2, <3>3
    <3>5. j = i
      BY <3>1
    <3> QED
      BY <2>1, <3>2, <3>4, <3>5 DEF Response
  <2> QED
    BY <2>2, <2>3
<1>4. ASSUME NEW i \in Parts(c), i \notin Unusable(c)
      PROVE  Response(c, i).value = <<c, i>> /\ i \notin HasFailed(c)
  <2>1. Responses(c, i) # {} /\ Response(c, i).ok
    BY <1>4 DEF Unusable
  <2>2. Response(c, i) = Answer(c, i)
    BY <1>3, <2>1
  <2>3. Answer(c, i).value = <<c, i>> /\ Answer(c, i).ok = (<<c, i>> \notin failures)
    BY DEF Answer
  <2>4. <<c, i>> \notin failures
    BY <2>1, <2>2, <2>3, Zenon
  <2> QED
    BY <2>2, <2>3, <2>4 DEF HasFailed
<1>5. CASE Unusable(c) = {}
  <2>1. Collected(c) = [kind |-> "results", results |-> Results(c)]
    BY <1>5 DEF Collected
  <2>2. \A i \in Parts(c) : Results(c)[i] = <<c, i>> /\ i \notin HasFailed(c)
    BY <1>4, <1>5 DEF Results
  <2>3. Results(c) \in [Parts(c) -> Value(c)]
    BY <1>4, <1>5, ZenonT(60) DEF Results, Value
  <2> QED
    BY <2>1, <2>2, <2>3 DEF Outcomes
<1>6. CASE Unusable(c) # {}
  <2> DEFINE first == CHOOSE i \in Unusable(c) : \A j \in Unusable(c) : i <= j
  <2>1. \E i \in Unusable(c) : \A j \in Unusable(c) : i <= j
    <3>1. Unusable(c) \subseteq Nat
      BY DEF Unusable, Parts
    <3>2. \E i \in Unusable(c) : \A j \in Unusable(c) : <<j, i>> \notin OpToRel(<, Nat)
      BY <1>6, <3>1, WFMin, NatLessThanWellFounded, Zenon
    <3>3. \A j, i \in Nat : j < i => <<j, i>> \in OpToRel(<, Nat)
      BY Zenon DEF OpToRel
    <3>4. PICK i \in Unusable(c) : \A j \in Unusable(c) : <<j, i>> \notin OpToRel(<, Nat)
      BY <3>2, Zenon
    <3>5. \A j \in Unusable(c) : ~(j < i)
      BY <3>1, <3>3, <3>4, Zenon
    <3> QED
      BY <3>1, <3>5
  <2>2. first \in Unusable(c) /\ first \in Parts(c)
    BY <2>1 DEF Unusable
  <2>3. Collected(c) = IF Responses(c, first) = {} THEN Outcome("ConnectionError")
                       ELSE Outcome("RPCError")
    BY <1>6 DEF Collected
  <2>4. Responses(c, first) # {} => HasFailed(c) # {}
    <3> SUFFICES ASSUME Responses(c, first) # {} PROVE first \in HasFailed(c)
      OBVIOUS
    <3>1. Response(c, first) = Answer(c, first) /\ ~Response(c, first).ok
      BY <1>3, <2>2 DEF Unusable
    <3>2. Answer(c, first).ok = (<<c, first>> \notin failures)
      BY DEF Answer
    <3>3. <<c, first>> \in failures
      BY <3>1, <3>2, Zenon
    <3> QED
      BY <2>2, <3>3 DEF HasFailed
  <2> HIDE DEF first
  <2>5. CASE Responses(c, first) = {}
    BY <2>3, <2>5 DEF Outcome, Outcomes, SdkErrors
  <2>6. CASE Responses(c, first) # {}
    BY <2>3, <2>4, <2>6 DEF Outcome, Outcomes, SdkErrors
  <2> QED
    BY <2>5, <2>6
<1> QED
  BY <1>5, <1>6

(* Reading the body ends the call with what it collected. *)
LEMMA BodyArrivesInv == ASSUME IInv, NEW c \in Calls, BodyArrives(c) PROVE IInv'
<1>1. CallInv(c) /\ ReplyOK(c) /\ reply[c].status \in {200, 503} /\ wire[c] = "answered"
  BY DEF IInv, CallInv, BodyArrives
<1>2. CASE reply[c].status = 503
  <2>1. Ends(c, Outcome("SyntaxError"))
    BY <1>2 DEF BodyArrives
  <2>2. Outcome("SyntaxError") \in Outcomes(c) /\ Outcome("SyntaxError").kind = "SyntaxError"
    BY DEF Outcome, Outcomes, RawErrors
  <2>3. outcome'[c].kind = "SyntaxError"
    BY <2>1, <2>2 DEF IInv, TypeOK, ClientTypes, Ends
  <2>4. OutcomeOK(c)'
    BY <2>3 DEF OutcomeOK
  <2> QED
    BY <2>1, <2>2, <2>4, EndsInv DEF BodyArrives
<1>3. CASE reply[c].status = 200
  <2>1. Ends(c, Collected(c))
    BY <1>3 DEF BodyArrives
  <2>2. outcome'[c] = Collected(c) /\ at'[c] = at[c] /\ wire'[c] = wire[c]
    BY <2>1 DEF IInv, TypeOK, ClientTypes, Ends, BodyArrives
  <2>3. HasFailed(c)' = HasFailed(c) /\ at[c] = Size[c]
    BY <1>1, <1>3 DEF BodyArrives, HasFailed, ReplyOK, Parts
  <2>4. OutcomeOK(c)'
    BY <1>1, <1>3, <2>2, <2>3, Collects DEF OutcomeOK, BodyArrives, Parts
  <2> QED
    BY <1>3, <2>1, <2>4, Collects, EndsInv DEF BodyArrives
<1> QED
  BY <1>1, <1>2, <1>3

(* Refreshing the header concerns later calls only. *)
LEMMA RefreshInv == ASSUME IInv, RefreshAuth PROVE IInv'
<1>1. TypeOK'
  <2>1. ClientTypes'
    BY DEF IInv, TypeOK, ClientTypes, NodeTypes, RefreshAuth
  <2>2. WireTypes' /\ NodeTypes'
    BY DEF IInv, TypeOK, WireTypes, NodeTypes, RefreshAuth
  <2> QED
    BY <2>1, <2>2 DEF TypeOK
<1>2. ASSUME NEW d \in Calls PROVE CallInv(d)'
  <2>1. Same(d)
    BY DEF RefreshAuth, Same
  <2> QED
    BY <2>1, Frame DEF IInv, RefreshAuth
<1> QED
  BY <1>1, <1>2 DEF IInv

----------------------------------------------------------------------------
(* The node's response is about the call it answers. *)
LEMMA AnswersInv ==
  ASSUME IInv, NEW c \in Calls, wire[c] = "sent",
         NEW response \in [status : {200, 401, 503}, body : Seq(Member(c))],
         Answers(c, response), ReplyOK(c)'
  PROVE  IInv'
<1>1. reply'[c] = response /\ wire'[c] = "answered"
  BY DEF IInv, TypeOK, WireTypes, Answers
<1>2. /\ DOMAIN response = {"status", "body"}
      /\ response.status \in {0, 200, 401, 503} /\ response.body \in Seq(Member(c))
  OBVIOUS
<1>3. TypeOK'
  <2>1. WireTypes'
    <3>1. wire' \in [Calls -> {"none", "sent", "answered", "lost"}] /\ DOMAIN reply' = Calls
      BY DEF IInv, TypeOK, WireTypes, Answers
    <3>2. \A d \in Calls : d # c => reply'[d] = reply[d]
      BY DEF IInv, TypeOK, WireTypes, Answers
    <3> QED
      BY <1>1, <1>2, <3>1, <3>2, SMTT(60) DEF IInv, TypeOK, WireTypes
  <2>2. ClientTypes' /\ NodeTypes'
    BY DEF IInv, TypeOK, ClientTypes, NodeTypes, Answers
  <2> QED
    BY <2>1, <2>2 DEF TypeOK
<1>4. CallInv(c)'
  <2>1. CallInv(c) /\ Started(c) /\ pc[c] # "reading"
    BY DEF IInv, CallInv, Idle
  <2>2. HasFailed(c)' = HasFailed(c)
    BY DEF Answers, HasFailed, Parts
  <2>3. Started(c)'
    BY <1>1, <2>1 DEF Answers, Started, Parts
  <2>4. OutcomeOK(c)'
    BY <1>1, <2>1, <2>2 DEF CallInv, OutcomeOK, Answers, Parts
  <2> QED
    BY <1>1, <2>1, <2>2, <2>3, <2>4 DEF CallInv, Answers, Idle, Parts
<1>5. ASSUME NEW d \in Calls \ {c} PROVE CallInv(d)'
  <2>1. Same(d)
    BY DEF IInv, TypeOK, WireTypes, Answers, Same
  <2> QED
    BY <2>1, Frame DEF IInv, Answers
<1> QED
  BY <1>3, <1>4, <1>5 DEF IInv

(* A refused request has had none of its methods executed: the cookie that  *)
(* is wrong now was wrong when the request came.                            *)
LEMMA NodeRefusesInv == ASSUME IInv, NEW c \in Calls, NodeRefuses(c) PROVE IInv'
<1>1. at[c] = 0
  BY DEF IInv, TypeOK, NodeTypes, CallInv, NodeRefuses
<1>2. reply'[c].status = 401 /\ at'[c] = 0
  BY <1>1 DEF IInv, TypeOK, WireTypes, NodeRefuses, Answers
<1>3. ReplyOK(c)'
  BY <1>2 DEF ReplyOK
<1> DEFINE response == [status |-> 401, body |-> << >>]
<1>4. response \in [status : {200, 401, 503}, body : Seq(Member(c))]
  <2>1. << >> \in Seq(Member(c))
    OBVIOUS
  <2> QED
    BY <2>1
<1>5. wire[c] = "sent" /\ Answers(c, response)
  BY DEF NodeRefuses
<1> HIDE DEF response
<1> QED
  BY <1>3, <1>4, <1>5, AnswersInv

(* A node that is busy has executed nothing. *)
LEMMA NodeIsBusyInv == ASSUME IInv, NEW c \in Calls, NodeIsBusy(c) PROVE IInv'
<1>1. reply'[c].status = 503 /\ at'[c] = 0
  BY DEF IInv, TypeOK, WireTypes, NodeIsBusy, Answers
<1>2. ReplyOK(c)'
  BY <1>1 DEF ReplyOK
<1> DEFINE response == [status |-> 503, body |-> << >>]
<1>3. response \in [status : {200, 401, 503}, body : Seq(Member(c))]
  <2>1. << >> \in Seq(Member(c))
    OBVIOUS
  <2> QED
    BY <2>1
<1>4. wire[c] = "sent" /\ Answers(c, response)
  BY DEF NodeIsBusy
<1> HIDE DEF response
<1> QED
  BY <1>2, <1>3, <1>4, AnswersInv

(* In whatever order the node answers, each response is to one method. *)
LEMMA NodeAnswersInv == ASSUME IInv, NEW c \in Calls, NodeAnswers(c) PROVE IInv'
<1>1. PICK order \in Orders(c) :
        Answers(c, [status |-> 200, body |-> [k \in DOMAIN order |-> Answer(c, order[k])]])
  BY DEF NodeAnswers
<1> DEFINE body == [k \in DOMAIN order |-> Answer(c, order[k])]
<1>2. Size[c] \in Nat \ {0} /\ 1 \in Parts(c)
  BY CallsAssumption DEF Parts
<1>3. \E n \in Nat : order \in [1..n -> Parts(c)]
  <2>1. CASE c \in Batches
    BY <1>2, <2>1 DEF Orders
  <2>2. CASE c \notin Batches
    <3>1. order = <<1>> /\ <<1>> \in [1..1 -> Parts(c)]
      BY <1>2, <2>2 DEF Orders
    <3> QED
      BY <3>1
  <2> QED
    BY <2>1, <2>2
<1>4. Started(c)
  BY DEF IInv, CallInv, Idle, NodeAnswers
<1>5. ASSUME NEW i \in Parts(c) PROVE Answer(c, i) \in Member(c)
  <2>1. ids[c][i] \in Nat /\ <<c, i>> \in Value(c)
    BY <1>4 DEF Started, Value
  <2>2. (<<c, i>> \notin failures) \in BOOLEAN
    OBVIOUS
  <2> QED
    BY <2>1, <2>2, Zenon DEF Answer, Member
<1>6. body \in Seq(Member(c))
  <2>1. PICK n \in Nat : order \in [1..n -> Parts(c)]
    BY <1>3
  <2>2. body \in [1..n -> Member(c)]
    BY <1>5, <2>1
  <2> QED
    BY <2>2
<1>7. ReplyOK(c)'
  <2>1. reply'[c] = [status |-> 200, body |-> body]
    BY <1>1 DEF IInv, TypeOK, WireTypes, Answers
  <2>2. ASSUME NEW k \in DOMAIN body PROVE \E i \in Parts(c) : body[k] = Answer(c, i)'
    <3>1. order[k] \in Parts(c)
      BY <1>3
    <3>2. Answer(c, order[k])' = Answer(c, order[k])
      BY <1>1 DEF Answers, Answer
    <3> QED
      BY <3>1, <3>2
  <2>3. c \notin Batches => DOMAIN body = {1}
    BY DEF Orders
  <2>4. at'[c] = Size[c]
    BY <1>1 DEF NodeAnswers, Answers
  <2> HIDE DEF body
  <2> QED
    BY <2>1, <2>2, <2>3, <2>4 DEF ReplyOK, Parts
<1>8. [status |-> 200, body |-> body] \in [status : {200, 401, 503}, body : Seq(Member(c))]
  BY <1>6
<1> QED
  BY <1>1, <1>7, <1>8, AnswersInv DEF NodeAnswers

(* The node executes the methods of a request in turn, each once. *)
LEMMA NodeExecutesInv == ASSUME IInv, NEW c \in Calls, NodeExecutes(c) PROVE IInv'
<1> DEFINE next == at[c] + 1
<1>1. Size[c] \in Nat /\ at[c] \in Nat /\ next \in Parts(c) /\ at'[c] = next
  <2>1. Size[c] \in Nat
    BY CallsAssumption
  <2>2. at \in [Calls -> Nat] /\ at[c] \in Nat
    BY DEF IInv, TypeOK, NodeTypes
  <2> QED
    BY <2>1, <2>2 DEF NodeExecutes, Parts
<1>2. CallInv(c) /\ Started(c) /\ pc[c] # "reading"
  BY DEF IInv, CallInv, Idle, NodeExecutes
<1>3. executed[c] \in [Parts(c) -> Nat] /\ executed[c][next] = 0
  BY <1>1, <1>2 DEF IInv, TypeOK, NodeTypes, CallInv
<1>4. executed'[c] = [i \in Parts(c) |-> IF i = next THEN 1 ELSE executed[c][i]]
  <2>1. executed' = [executed EXCEPT ![c] = [executed[c] EXCEPT ![next] = executed[c][next] + 1]]
    BY DEF NodeExecutes
  <2>2. executed'[c] = [executed[c] EXCEPT ![next] = 1]
    BY <1>3, <2>1 DEF IInv, TypeOK, NodeTypes
  <2> QED
    BY <1>3, <2>2
<1>5. TypeOK'
  <2>1. NodeTypes'
    <3>1. failures' \subseteq UNION {Value(d) : d \in Calls}
      BY <1>1 DEF IInv, TypeOK, NodeTypes, NodeExecutes, Value
    <3>2. at' \in [Calls -> Nat] /\ \A d \in Calls : at'[d] <= Size[d]
      BY <1>1 DEF IInv, TypeOK, NodeTypes, NodeExecutes, Parts
    <3>3. DOMAIN executed' = Calls /\ \A d \in Calls : executed'[d] \in [Parts(d) -> Nat]
      <4>1. executed'[c] \in [Parts(c) -> Nat]
        BY <1>3, <1>4
      <4>2. DOMAIN executed = Calls /\ executed' = [executed EXCEPT ![c][next] = @ + 1]
        BY DEF IInv, TypeOK, NodeTypes, NodeExecutes
      <4>3. DOMAIN executed' = Calls /\ \A d \in Calls : d # c => executed'[d] = executed[d]
        BY <4>2
      <4> QED
        BY <4>1, <4>3 DEF IInv, TypeOK, NodeTypes
    <3> QED
      BY <3>1, <3>2, <3>3 DEF IInv, TypeOK, NodeTypes, NodeExecutes
  <2>2. ClientTypes' /\ WireTypes'
    BY DEF IInv, TypeOK, ClientTypes, WireTypes, NodeExecutes
  <2> QED
    BY <2>1, <2>2 DEF TypeOK
<1>6. CallInv(c)'
  <2>1. Started(c)'
    BY <1>2 DEF NodeExecutes, Started, Parts
  <2>2. \A i \in Parts(c)' : executed'[c][i] = IF i <= at'[c] THEN 1 ELSE 0
    BY <1>1, <1>2, <1>3, <1>4 DEF CallInv, Parts
  <2>3. \A i \in HasFailed(c)' : i <= at'[c]
    BY <1>1, <1>2 DEF NodeExecutes, HasFailed, CallInv, Parts
  <2>4. OutcomeOK(c)'
    BY <1>2 DEF CallInv, OutcomeOK, NodeExecutes
  <2> QED
    BY <1>2, <2>1, <2>2, <2>3, <2>4 DEF CallInv, NodeExecutes, Idle
<1>7. ASSUME NEW d \in Calls \ {c} PROVE CallInv(d)'
  <2>1. Same(d)
    BY DEF IInv, TypeOK, NodeTypes, NodeExecutes, Same
  <2> QED
    BY <2>1, Frame DEF IInv, NodeExecutes
<1> QED
  BY <1>5, <1>6, <1>7 DEF IInv

(* A stop loses the requests the node has not answered. *)
LEMMA NodeStopsInv == ASSUME IInv, NodeStops PROVE IInv'
<1>1. TypeOK'
  <2>1. WireTypes'
    BY DEF IInv, TypeOK, WireTypes, NodeStops
  <2>2. ClientTypes'
    BY DEF IInv, TypeOK, ClientTypes, NodeStops
  <2>3. NodeTypes'
    BY DEF IInv, TypeOK, NodeTypes, NodeStops
  <2> QED
    BY <2>1, <2>2, <2>3 DEF TypeOK
<1>2. ASSUME NEW d \in Calls PROVE CallInv(d)'
  <2>1. CallInv(d)
    BY DEF IInv
  <2>2. wire'[d] = IF wire[d] = "sent" THEN "lost" ELSE wire[d]
    BY DEF NodeStops
  <2>3. HasFailed(d)' = HasFailed(d)
    BY DEF NodeStops, HasFailed, Parts
  <2>4. Started(d) => Started(d)'
    BY <2>2 DEF NodeStops, Started, Parts
  <2>5. Idle(d) => Idle(d)'
    BY <2>2 DEF NodeStops, Idle
  <2>6. ReplyOK(d) => ReplyOK(d)'
    BY DEF NodeStops, ReplyOK, Answer, Parts
  <2>7. OutcomeOK(d)'
    BY <2>1, <2>2, <2>3 DEF NodeStops, CallInv, OutcomeOK, Parts
  <2> QED
    BY <2>1, <2>2, <2>3, <2>4, <2>5, <2>6, <2>7 DEF NodeStops, CallInv, Parts
<1> QED
  BY <1>1, <1>2 DEF IInv

(* A start changes the cookie when no request is on its way. *)
LEMMA NodeStartsInv == ASSUME IInv, NodeStarts PROVE IInv'
<1>1. TypeOK'
  <2>1. NodeTypes'
    BY DEF IInv, TypeOK, NodeTypes, NodeStarts
  <2>2. WireTypes' /\ ClientTypes'
    BY DEF IInv, TypeOK, WireTypes, ClientTypes, NodeStarts
  <2> QED
    BY <2>1, <2>2 DEF TypeOK
<1>2. ASSUME NEW d \in Calls PROVE CallInv(d)'
  <2>1. CallInv(d)
    BY DEF IInv
  <2>2. wire[d] # "sent"
    BY <2>1 DEF CallInv, NodeStarts
  <2>3. HasFailed(d)' = HasFailed(d)
    BY DEF NodeStarts, HasFailed, Parts
  <2>4. (Started(d) => Started(d)') /\ (Idle(d) => Idle(d)')
    BY DEF NodeStarts, Started, Idle, Parts
  <2>5. ReplyOK(d) => ReplyOK(d)'
    BY DEF NodeStarts, ReplyOK, Answer, Parts
  <2>6. OutcomeOK(d)'
    BY <2>1, <2>3 DEF NodeStarts, CallInv, OutcomeOK, Parts
  <2> QED
    BY <2>1, <2>2, <2>3, <2>4, <2>5, <2>6 DEF NodeStarts, CallInv, Parts
<1> QED
  BY <1>1, <1>2 DEF IInv

(* A stuttering step changes nothing. *)
LEMMA StutterInv == ASSUME IInv, UNCHANGED vars PROVE IInv'
<1>1. TypeOK'
  BY DEF IInv, TypeOK, ClientTypes, WireTypes, NodeTypes, vars
<1>2. ASSUME NEW d \in Calls PROVE CallInv(d)'
  <2>1. Same(d)
    BY DEF Same, vars
  <2> QED
    BY <2>1, Frame DEF IInv, vars
<1> QED
  BY <1>1, <1>2 DEF IInv

(* The invariant is inductive. *)
LEMMA Inductive == IInv /\ [Next]_vars => IInv'
<1> SUFFICES ASSUME IInv, [Next]_vars PROVE IInv'
  OBVIOUS
<1>1. ASSUME NEW c \in Calls, Client(c) PROVE IInv'
  BY <1>1, SendsInv, FetchFailsInv, ResponseArrivesInv, BodyFailsInv, BodyArrivesInv
     DEF Client
<1>2. ASSUME NEW c \in Calls, Node(c) PROVE IInv'
  BY <1>2, NodeRefusesInv, NodeIsBusyInv, NodeExecutesInv, NodeAnswersInv DEF Node
<1> QED
  BY <1>1, <1>2, RefreshInv, NodeStopsInv, NodeStartsInv, StutterInv DEF Next

(* The invariant holds in every reachable state. *)
THEOREM Invariant == Spec => []IInv
  BY InitInv, Inductive, PTL DEF Spec

(* Transport.call and Transport.batch are type correct: what a caller gets  *)
(* has a result for every method, or none.                                  *)
THEOREM TypeCorrect == Spec => []TypeOK
<1>1. IInv => TypeOK
  BY DEF IInv
<1> QED
  BY <1>1, Invariant, PTL

(* For any number of calls, batches of any size, and responses in any order *)
(* and with gaps: result i is the answer to method i of this call, and is   *)
(* only returned when all of them succeeded.                                *)
THEOREM ResultsCorrect == Spec => []ResultsMatch
<1>1. IInv => ResultsMatch
  <2> SUFFICES ASSUME IInv, NEW c \in Calls
               PROVE  /\ outcome[c].kind = "results" =>
                           \A i \in Parts(c) : /\ outcome[c].results[i] = <<c, i>>
                                               /\ <<c, i>> \notin failures
                      /\ outcome[c].kind = "RPCError" =>
                           \E i \in Parts(c) : <<c, i>> \in failures
    BY DEF ResultsMatch
  <2>1. OutcomeOK(c)
    BY DEF IInv, CallInv
  <2> QED
    BY <2>1 DEF OutcomeOK, HasFailed
<1> QED
  BY <1>1, Invariant, PTL

----------------------------------------------------------------------------
(* The refinement.  Only the steps that end or begin a call, and those in   *)
(* which the node executes a method, are seen by RemoteCall.                *)

(* Nothing has been called.                                                 *)
LEMMA InitRefines == ASSUME Init PROVE Abstract!Init
  BY CallsAssumption DEF Init, Abstract!Init, Status, Parts, Abstract!Parts

(* A step that changes the status of one call only. *)
LEMMA StatusStep ==
  ASSUME NEW c \in Calls, \A d \in Calls \ {c} : Status(d)' = Status(d)
  PROVE  [d \in Calls |-> Status(d)]' =
           [[d \in Calls |-> Status(d)] EXCEPT ![c] = Status(c)']
  OBVIOUS

(* A call that ends: an answer was executed as a whole, a refusal not at all.*)
LEMMA EndRefines ==
  ASSUME IInv, IInv', NEW c \in Calls, pc[c] \in {"waiting", "reading"},
         NEW result, Ends(c, result), UNCHANGED <<at, executed>>
  PROVE  Abstract!Next
<1> DEFINE end == Status(c)'
<1>1. Status(c) = "waiting"
  BY DEF Status
<1>2. pc'[c] = "ended"
  BY DEF IInv, TypeOK, ClientTypes, Ends
<1>3. end \in {"answered", "refused", "unknown"}
  BY <1>2 DEF Status
<1>4. OutcomeOK(c)' /\ Size[c] \in Nat
  BY CallsAssumption DEF IInv, CallInv
<1>5. ASSUME end = "answered", NEW i \in Parts(c) PROVE executed[c][i] = 1
  <2>1. at[c] = Size[c]
    BY <1>2, <1>4, <1>5 DEF Status, OutcomeOK
  <2> QED
    BY <1>4, <2>1 DEF IInv, CallInv, Parts
<1>6. ASSUME end = "refused", NEW i \in Parts(c) PROVE executed[c][i] = 0
  <2>1. at[c] = 0
    BY <1>2, <1>4, <1>6 DEF Status, OutcomeOK
  <2> QED
    BY <1>4, <2>1 DEF IInv, CallInv, Parts
<1>7. \A d \in Calls \ {c} : Status(d)' = Status(d)
  BY DEF IInv, TypeOK, ClientTypes, Ends, Status
<1>8. [d \in Calls |-> Status(d)]' = [[d \in Calls |-> Status(d)] EXCEPT ![c] = end]
  BY <1>7, StatusStep
<1> HIDE DEF end
<1>9. Abstract!End(c, end)
  BY <1>1, <1>5, <1>6, <1>8 DEF Abstract!End, Abstract!Parts, Parts
<1> QED
  BY <1>3, <1>9 DEF Abstract!Next

(* A step that only concerns the wire, the header or the node's life. *)
LEMMA StutterRefines ==
  ASSUME \A c \in Calls : Status(c)' = Status(c), UNCHANGED executed
  PROVE  UNCHANGED Abstract!vars
  BY DEF Abstract!vars

(* Every step is a step of the remote calls, or none.                       *)
LEMMA StepRefines ==
  ASSUME IInv, IInv', [Next]_vars PROVE [Abstract!Next]_(Abstract!vars)
<1>1. ASSUME NEW c \in Calls, Sends(c) PROVE Abstract!Next
  <2>1. Status(c) = "idle"
    BY <1>1 DEF Sends, Status
  <2>2. Status(c)' = "waiting"
    BY <1>1 DEF IInv, TypeOK, ClientTypes, Sends, Status
  <2>3. \A d \in Calls \ {c} : Status(d)' = Status(d)
    BY <1>1 DEF IInv, TypeOK, ClientTypes, Sends, Status
  <2>4. [d \in Calls |-> Status(d)]' = [[d \in Calls |-> Status(d)] EXCEPT ![c] = "waiting"]
    BY <2>2, <2>3, StatusStep
  <2>5. Abstract!Begin(c)
    BY <1>1, <2>1, <2>4 DEF Abstract!Begin, Sends
  <2> QED
    BY <2>5 DEF Abstract!Next
<1>2. ASSUME NEW c \in Calls, FetchFails(c) PROVE Abstract!Next
  BY <1>2, EndRefines DEF FetchFails
<1>3. ASSUME NEW c \in Calls, BodyFails(c) PROVE Abstract!Next
  BY <1>3, EndRefines DEF BodyFails
<1>4. ASSUME NEW c \in Calls, BodyArrives(c) PROVE Abstract!Next
  BY <1>4, EndRefines DEF BodyArrives
<1>5. ASSUME NEW c \in Calls, ResponseArrives(c) PROVE [Abstract!Next]_(Abstract!vars)
  <2>1. (\E result : Ends(c, result)) \/ (pc' = [pc EXCEPT ![c] = "reading"] /\ UNCHANGED outcome)
    BY <1>5 DEF ResponseArrives
  <2>2. CASE \E result : Ends(c, result)
    BY <1>5, <2>2, EndRefines DEF ResponseArrives
  <2>3. CASE pc' = [pc EXCEPT ![c] = "reading"] /\ UNCHANGED outcome
    <3>1. \A d \in Calls : Status(d)' = Status(d)
      BY <1>5, <2>3 DEF IInv, TypeOK, ClientTypes, ResponseArrives, Status
    <3> QED
      BY <1>5, <3>1, StutterRefines DEF ResponseArrives
  <2> QED
    BY <2>1, <2>2, <2>3
<1>6. ASSUME NEW c \in Calls, NodeExecutes(c) PROVE Abstract!Next
  <2> DEFINE i == at[c] + 1
  <2>1. i \in Parts(c) /\ executed[c][i] = 0 /\ executed[c] \in [Parts(c) -> Nat]
    <3>1. Size[c] \in Nat /\ at[c] \in Nat
      BY CallsAssumption DEF IInv, TypeOK, NodeTypes
    <3>2. i \in Parts(c)
      BY <1>6, <3>1 DEF NodeExecutes, Parts
    <3> QED
      BY <3>1, <3>2 DEF IInv, TypeOK, NodeTypes, CallInv
  <2>2. executed' = [executed EXCEPT ![c][i] = 1]
    BY <1>6, <2>1 DEF NodeExecutes
  <2>3. Status(c) \in {"waiting", "unknown"}
    BY <1>6, <2>1, CallsAssumption
       DEF IInv, CallInv, Idle, OutcomeOK, NodeExecutes, Status, TypeOK, ClientTypes
  <2>4. UNCHANGED [d \in Calls |-> Status(d)]
    BY <1>6 DEF NodeExecutes, Status
  <2> HIDE DEF i
  <2>5. Abstract!Execute(c, i)
    BY <2>1, <2>2, <2>3, <2>4 DEF Abstract!Execute
  <2> QED
    BY <2>1, <2>5 DEF Abstract!Next, Abstract!Parts, Parts
<1>7. ASSUME UNCHANGED <<pc, outcome, executed>> PROVE UNCHANGED Abstract!vars
  BY <1>7, StutterRefines DEF Status
<1>8. ASSUME NEW c \in Calls, NodeRefuses(c) \/ NodeIsBusy(c) \/ NodeAnswers(c)
      PROVE  UNCHANGED <<pc, outcome, executed>>
  BY <1>8 DEF NodeRefuses, NodeIsBusy, NodeAnswers, Answers
<1>9. ASSUME RefreshAuth \/ NodeStops \/ NodeStarts \/ UNCHANGED vars
      PROVE  UNCHANGED <<pc, outcome, executed>>
  BY <1>9 DEF RefreshAuth, NodeStops, NodeStarts, vars
<1> QED
  BY <1>1, <1>2, <1>3, <1>4, <1>5, <1>6, <1>7, <1>8, <1>9 DEF Next, Client, Node

(* The transport implements RemoteCall, for any calls, batches and restarts: *)
(* each method is executed at most once, all of them when there is an        *)
(* answer, and none, now or later, when there is an AuthenticationError.     *)
THEOREM Refines == Spec => ImplementsRemoteCall
<1>1. Init => Abstract!Init
  BY InitRefines
<1>2. IInv /\ IInv' /\ [Next]_vars => [Abstract!Next]_(Abstract!vars)
  BY StepRefines
<1> QED
  BY <1>1, <1>2, Invariant, PTL DEF Spec, ImplementsRemoteCall, Abstract!Spec
=============================================================================
