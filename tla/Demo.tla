-------------------------------- MODULE Demo --------------------------------
(***************************************************************************)
(* The demo application: one browser tab with its five pages and their     *)
(* hooks useEstimate, useMutation, usePositions, useBalance and useStatus, *)
(* the REST server behind its rate limiters, and what the wallet has at    *)
(* the node.  Requests of the tab are answered in any order, or fail; the  *)
(* user may leave a page while its requests are on their way.              *)
(***************************************************************************)
EXTENDS RateLimiter

CONSTANTS
  Slots,        \* requests that may be on their way at once
  Positions,    \* the positions there are or may be minted
  Unlocked,     \* those whose lock has expired; they are open from the start
  Inputs,       \* what can be in a form: an amount and a tier, or a recipient
  None,         \* no amount in the form
  MaxActs,      \* the user edits, submits, redeems or goes elsewhere so often
  MaxFailures,  \* requests that fail on the way or at the node
  MaxOthers     \* requests of other tabs of the same address per tick

ASSUME DemoAssumption ==
  /\ \E s, t \in Slots : s # t
  /\ Unlocked \subseteq Positions
  /\ None \notin Inputs

VARIABLES
  screen,       \* the page that is mounted
  form,         \* Mint, Transfer: what is in the form; the state of useEstimate
  view,         \* what a page polls: the state of its hook; the address
  mutation,     \* the state of useMutation on the mounted page
  requests,     \* the requests on their way
  book,         \* the node: each position is "none", "open" or "closed"
  held,         \* the node: the wallet's DD, a token for each mint
  spent         \* how much of each bound is used up

pageVars == <<screen, form, view, mutation>>
nodeVars == <<book, held>>

vars == <<limiterVars, pageVars, requests, nodeVars, spent>>

NewForm == [input |-> None, timer |-> FALSE, estimating |-> FALSE, estimate |-> None]

NewView == [shown |-> {}, loading |-> TRUE, address |-> FALSE]

NewMutation == [loading |-> FALSE, result |-> {}]

(* live: the page that sent the request is still mounted. *)
Request(kind, arg, live) ==
  [kind |-> kind, arg |-> arg, live |-> live, stage |-> "sent", ok |-> FALSE, value |-> {}]

NoRequest == Request("none", None, FALSE)

Pages == {"dashboard", "mint", "transfer", "positions", "docs"}

(* What a page asks for when it is mounted, and at every interval. *)
PolledBy == [dashboard |-> "status", transfer |-> "balance", positions |-> "positions"]

Free(reqs) == {s \in Slots : reqs[s].kind = "none"}

Sending(reqs, kind, arg) ==
  [reqs EXCEPT ![CHOOSE s \in Free(reqs) : TRUE] = Request(kind, arg, TRUE)]

Polling(page, reqs) ==
  IF page \in DOMAIN PolledBy THEN Sending(reqs, PolledBy[page], None) ELSE reqs

(* The Dashboard asks for an address too, once. *)
Mounting(page, reqs) ==
  IF page = "dashboard" THEN Sending(Polling(page, reqs), "address", None)
  ELSE Polling(page, reqs)

CanMount(page, reqs) ==
  /\ Free(reqs) # {}
  /\ page = "dashboard" => Free(Polling(page, reqs)) # {}

Init ==
  /\ LimiterInit
  /\ screen \in Pages
  /\ form = NewForm /\ view = NewView /\ mutation = NewMutation
  /\ requests = Mounting(screen, [s \in Slots |-> NoRequest])
  /\ book = [p \in Positions |-> IF p \in Unlocked THEN "open" ELSE "none"]
  /\ held = Unlocked
  /\ spent = [acts |-> 0, failures |-> 0, others |-> 0]

Open == {p \in Positions : book[p] = "open"}

Spends(what, max) ==
  /\ spent[what] < max
  /\ spent' = [spent EXCEPT ![what] = @ + 1]

----------------------------------------------------------------------------
(* The user *)

Uncancelled == requests                   \* mutant: answers outlive their page

Orphans == [s \in Slots |-> [requests[s] EXCEPT !.live = FALSE]]

(* React unmounts one page, clearing its timers, and mounts the other. *)
Opens(page) ==
  /\ page # screen /\ Spends("acts", MaxActs)
  /\ screen' = page
  /\ form' = NewForm /\ view' = NewView /\ mutation' = NewMutation
  /\ CanMount(page, Orphans) /\ requests' = Mounting(page, Orphans)
  /\ UNCHANGED <<limiterVars, nodeVars>>

(* Another amount or tier resets the mutation; the effect of useEstimate *)
(* clears the old timer and, with an amount, starts a new one.           *)
Edits(input) ==
  /\ screen = "mint" /\ input # form.input /\ Spends("acts", MaxActs)
  /\ form' = IF input = None
             THEN [form EXCEPT !.input = None, !.timer = FALSE, !.estimate = None]
             ELSE [form EXCEPT !.input = input, !.timer = TRUE, !.estimating = TRUE]
  /\ mutation' = [mutation EXCEPT !.result = {}]
  /\ UNCHANGED <<limiterVars, screen, view, requests, nodeVars>>

EditsTransfer(input) ==
  /\ screen = "transfer" /\ input # form.input /\ Spends("acts", MaxActs)
  /\ form' = [form EXCEPT !.input = input]
  /\ mutation' = [mutation EXCEPT !.result = {}]
  /\ UNCHANGED <<limiterVars, screen, view, requests, nodeVars>>

SubmitsTwice(kind, arg) ==                \* mutant: buttons stay enabled
  /\ Free(requests) # {} /\ Spends("acts", MaxActs)
  /\ mutation' = [loading |-> TRUE, result |-> {}]
  /\ requests' = Sending(requests, kind, arg)
  /\ UNCHANGED <<limiterVars, screen, form, view, nodeVars>>

Mutates(kind, arg) ==
  /\ ~mutation.loading /\ Free(requests) # {} /\ Spends("acts", MaxActs)
  /\ mutation' = [loading |-> TRUE, result |-> {}]
  /\ requests' = Sending(requests, kind, arg)
  /\ UNCHANGED <<limiterVars, screen, form, view, nodeVars>>

SubmitsMint == screen = "mint" /\ form.input # None /\ Mutates("mint", form.input)

SubmitsTransfer ==
  screen = "transfer" /\ form.input # None /\ Mutates("transfer", form.input)

ClicksRedeem(p) ==
  /\ screen = "positions" /\ p \in view.shown \intersect Unlocked
  /\ Mutates("redeem", p)

----------------------------------------------------------------------------
(* Timers *)

EstimateFires ==
  /\ form.timer /\ Free(requests) # {}
  /\ form' = [form EXCEPT !.timer = FALSE]
  /\ requests' = Sending(requests, "estimate", form.input)
  /\ UNCHANGED <<limiterVars, screen, view, mutation, nodeVars, spent>>

NeverPolls ==                             \* mutant: pages ask only when mounted
  /\ ~form.timer
  /\ Elapses
  /\ spent' = [spent EXCEPT !.others = 0]
  /\ UNCHANGED <<pageVars, requests, nodeVars>>

(* One interval of the hooks that poll; a debounce is far shorter. *)
Tick ==
  /\ ~form.timer
  /\ Elapses
  /\ spent' = [spent EXCEPT !.others = 0]
  /\ Free(requests) # {} /\ requests' = Polling(screen, requests)
  /\ UNCHANGED <<pageVars, nodeVars>>

----------------------------------------------------------------------------
(* The server and the node *)

Answered(s, ok, value) ==
  requests' = [requests EXCEPT ![s] =
                 [@ EXCEPT !.stage = "answered", !.ok = ok, !.value = value]]

(* errorHandler, and what the client makes of it. *)
Refused(s) == Answered(s, FALSE, {})

IsSent(s) == requests[s].kind # "none" /\ requests[s].stage = "sent"

(* 429 *)
ServerRefuses(s) ==
  /\ IsSent(s) /\ ~Admitted(requests[s].kind)
  /\ Limits(requests[s].kind)
  /\ Refused(s)
  /\ UNCHANGED <<pageVars, nodeVars, spent>>

(* The routes that have a wallet behind them: what the node does, and answers. *)
GetPositions(ok, value) == ok /\ value = Open /\ UNCHANGED nodeVars

GetEstimate(ok, value) == ok /\ value = {} /\ UNCHANGED nodeVars

GetAddress(ok, value) == ok /\ value = {} /\ UNCHANGED nodeVars

GetBalance(ok, value) == ok /\ value = held /\ UNCHANGED nodeVars

(* The balance is one of its four answers; the others are not the wallet's. *)
GetStatus(ok, value) == ok /\ value = held /\ UNCHANGED nodeVars

Fails(ok, value) == ~ok /\ value = {} /\ UNCHANGED nodeVars

PostMint(ok, value) ==
  \/ \E p \in Positions :
       /\ book[p] = "none" /\ ok /\ value = {p}
       /\ book' = [book EXCEPT ![p] = "open"] /\ held' = held \union {p}
  \/ (\A p \in Positions : book[p] # "none") /\ Fails(ok, value)

(* The wallet gives a token away, for good; one is like another. *)
Loses(token) == token = (CHOOSE t \in held : TRUE) /\ held' = held \ {token}

PostTransfer(ok, value) ==
  \/ \E t \in held : Loses(t) /\ ok /\ value = {t} /\ UNCHANGED book
  \/ held = {} /\ Fails(ok, value)

PostRedeem(p, ok, value) ==
  \/ /\ book[p] = "open" /\ ok /\ value = {p}
     /\ book' = [book EXCEPT ![p] = "closed"]
     /\ \E t \in held : Loses(t)
  \/ (book[p] # "open" \/ held = {}) /\ Fails(ok, value)

Handles(kind, arg, ok, value) ==
  \/ kind = "positions" /\ GetPositions(ok, value)
  \/ kind = "estimate" /\ GetEstimate(ok, value)
  \/ kind = "address" /\ GetAddress(ok, value)
  \/ kind = "balance" /\ GetBalance(ok, value)
  \/ kind = "status" /\ GetStatus(ok, value)
  \/ kind = "mint" /\ PostMint(ok, value)
  \/ kind = "transfer" /\ PostTransfer(ok, value)
  \/ kind = "redeem" /\ PostRedeem(arg, ok, value)

ServerServes(s) ==
  /\ IsSent(s) /\ Admitted(requests[s].kind)
  /\ Limits(requests[s].kind)
  /\ \E ok \in BOOLEAN, value \in SUBSET Positions :
       /\ Handles(requests[s].kind, requests[s].arg, ok, value)
       /\ Answered(s, ok, value)
  /\ UNCHANGED <<pageVars, spent>>

(* The RPC fails: the node refused the request, or its answer was lost. *)
RpcFails(s) ==
  /\ IsSent(s) /\ Admitted(requests[s].kind) /\ Spends("failures", MaxFailures)
  /\ Limits(requests[s].kind)
  /\ \/ UNCHANGED nodeVars
     \/ \E ok \in BOOLEAN, value \in SUBSET Positions :
          Handles(requests[s].kind, requests[s].arg, ok, value)
  /\ Refused(s)
  /\ UNCHANGED pageVars

(* fetch rejects in the browser, before the server was reached or after. *)
FetchFails(s) ==
  /\ requests[s].kind # "none" /\ Spends("failures", MaxFailures)
  /\ Answered(s, FALSE, {})
  /\ UNCHANGED <<limiterVars, pageVars, nodeVars>>

OtherTab ==
  /\ Spends("others", MaxOthers)
  /\ Limits("status")
  /\ UNCHANGED <<pageVars, requests, nodeVars>>

----------------------------------------------------------------------------
(* Answers *)

Arrives(s, kind) ==
  /\ requests[s].kind = kind /\ requests[s].stage = "answered" /\ requests[s].live
  /\ requests' = [requests EXCEPT ![s] = NoRequest]

(* Whatever is in the form by now. *)
EstimateArrives(s) ==
  /\ Arrives(s, "estimate")
  /\ form' = [form EXCEPT !.estimating = FALSE,
                          !.estimate = IF requests[s].ok THEN requests[s].arg ELSE None]
  /\ UNCHANGED <<limiterVars, screen, view, mutation, nodeVars, spent>>

(* The hooks that poll. *)
Shows(s) ==
  /\ view' = [view EXCEPT !.shown = IF requests[s].ok THEN requests[s].value ELSE @,
                          !.loading = FALSE]
  /\ UNCHANGED <<limiterVars, screen, form, mutation, nodeVars, spent>>

PositionsArrive(s) == Arrives(s, "positions") /\ Shows(s)

BalanceArrives(s) == Arrives(s, "balance") /\ Shows(s)

StatusArrives(s) == Arrives(s, "status") /\ Shows(s)

AddressArrives(s) ==
  /\ Arrives(s, "address")
  /\ view' = [view EXCEPT !.address = @ \/ requests[s].ok]
  /\ UNCHANGED <<limiterVars, screen, form, mutation, nodeVars, spent>>

LoadsOnError(s) ==                        \* mutant: setLoading(false) is not in finally
  /\ Arrives(s, "mint") \/ Arrives(s, "transfer")
  /\ mutation' = [loading |-> ~requests[s].ok, result |-> requests[s].value]
  /\ UNCHANGED <<limiterVars, screen, form, view, nodeVars, spent>>

(* A mint or a transfer *)
MutationArrives(s) ==
  /\ Arrives(s, "mint") \/ Arrives(s, "transfer")
  /\ mutation' = [loading |-> FALSE, result |-> requests[s].value]
  /\ UNCHANGED <<limiterVars, screen, form, view, nodeVars, spent>>

(* A redeem that succeeded is followed by a refetch, even if the page that *)
(* asked for it is gone.                                                   *)
Refetches(s) ==
  requests' = [requests EXCEPT ![s] =
                 IF requests[s].ok
                 THEN Request("positions", None, requests[s].live) ELSE NoRequest]

RedeemArrives(s) ==
  /\ requests[s].kind = "redeem" /\ requests[s].stage = "answered"
  /\ Refetches(s)
  /\ mutation' = IF requests[s].live
                 THEN [loading |-> FALSE, result |-> requests[s].value] ELSE mutation
  /\ UNCHANGED <<limiterVars, screen, form, view, nodeVars, spent>>

OrphanArrives(s) ==
  /\ requests[s].kind \notin {"none", "redeem"}
  /\ requests[s].stage = "answered" /\ ~requests[s].live
  /\ requests' = [requests EXCEPT ![s] = NoRequest]
  /\ UNCHANGED <<limiterVars, pageVars, nodeVars, spent>>

----------------------------------------------------------------------------
Serves(s) == ServerRefuses(s) \/ ServerServes(s) \/ RpcFails(s) \/ FetchFails(s)

Resumes(s) ==
  \/ EstimateArrives(s) \/ PositionsArrive(s) \/ BalanceArrives(s) \/ StatusArrives(s)
  \/ AddressArrives(s) \/ MutationArrives(s) \/ RedeemArrives(s) \/ OrphanArrives(s)

User ==
  \/ \E page \in Pages : Opens(page)
  \/ \E input \in Inputs \union {None} : Edits(input) \/ EditsTransfer(input)
  \/ SubmitsMint \/ SubmitsTransfer
  \/ \E p \in Positions : ClicksRedeem(p)

Next ==
  \/ User \/ EstimateFires \/ Tick \/ OtherTab
  \/ \E s \in Slots : Serves(s) \/ Resumes(s)

Spec == Init /\ [][Next]_vars

(* Timers fire, a request is answered or fails, and its answer arrives. *)
FairSpec ==
  /\ Spec
  /\ WF_vars(Tick) /\ WF_vars(EstimateFires)
  /\ \A s \in Slots : WF_vars(ServerRefuses(s) \/ ServerServes(s)) /\ WF_vars(Resumes(s))
=============================================================================
