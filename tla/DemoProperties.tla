--------------------------- MODULE DemoProperties ---------------------------
(***************************************************************************)
(* What the pages of the demo promise to their user.                       *)
(***************************************************************************)
EXTENDS Demo

Mutations == {"mint", "transfer", "redeem"}

Kinds == {"none", "estimate", "address", "positions", "balance", "status"} \union Mutations

RequestType ==
  [kind : Kinds, arg : Positions \union Inputs \union {None}, live : BOOLEAN,
   stage : {"sent", "answered"}, ok : BOOLEAN, value : SUBSET Positions]

LimiterTypes ==
  /\ DOMAIN buckets = Limiters
  /\ \A l \in Limiters :
       /\ buckets[l] \in [count : 0..(MaxRequests[l] + 1), left : 0..Window]
       /\ buckets[l].left = 0 => buckets[l].count = 0
  /\ passed \in [Limiters -> [Ages -> Nat]]

PageTypes ==
  /\ screen \in Pages
  /\ form \in [input : Inputs \union {None}, timer : BOOLEAN, estimating : BOOLEAN,
               estimate : Inputs \union {None}]
  /\ view \in [shown : SUBSET Positions, loading : BOOLEAN, address : BOOLEAN]
  /\ mutation \in [loading : BOOLEAN, result : SUBSET Positions]
  /\ screen # "mint" => form = [NewForm EXCEPT !.input = form.input]
  /\ screen \notin {"mint", "transfer"} => form = NewForm
  /\ screen \notin DOMAIN PolledBy => view = NewView
  /\ form.timer => form.input # None

(* Type invariant.  A page that is not mounted has the state of a new one;  *)
(* only the mounted page and what it asked for can change what is shown     *)
(* (cancelled, clearTimeout and clearInterval in the hooks' cleanups).      *)
TypeOK ==
  /\ LimiterTypes
  /\ PageTypes
  /\ requests \in [Slots -> RequestType]
  /\ book \in [Positions -> {"none", "open", "closed"}]
  /\ held \subseteq {p \in Positions : book[p] # "none"}

Pending(kinds) == {s \in Slots : requests[s].live /\ requests[s].kind \in kinds}

(* A button is disabled exactly while one request of this page is on its    *)
(* way, never two, and a spinner beside an amount is never left behind by a *)
(* timer that was cleared or an answer that was dropped                     *)
(* (useMutation, useEstimate, over edits and changes of the page).          *)
SpinnersAreHonest ==
  /\ mutation.loading <=> Pending(Mutations) # {}
  /\ \A s, t \in Pending(Mutations) : s = t
  /\ form.input # None /\ form.estimating => form.timer \/ Pending({"estimate"}) # {}

(* Every wait ends: buttons are enabled again, estimates arrive or fail,    *)
(* and what a page polls is there, although requests may be refused, fail   *)
(* or be overtaken.                                                         *)
WaitsEnd ==
  /\ []<>~mutation.loading
  /\ []<>(form.input # None => ~form.estimating)
  /\ []<>(screen \in DOMAIN PolledBy => ~view.loading)

(* Once the user and the node leave the wallet alone, the page shows the    *)
(* positions or the balance as they are, although older answers may have    *)
(* overtaken the refetch that follows a redeem, no refetch follows a        *)
(* transfer, and polls may have been refused by the limiter.                *)
PagesCatchUp ==
  <>[](screen \in DOMAIN PolledBy =>
         view.shown = IF screen = "positions" THEN Open ELSE held)
=============================================================================
