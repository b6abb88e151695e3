----------------------------- MODULE DemoProofs -----------------------------
(***************************************************************************)
(* For any window, any maxima and any traffic: what the limiters let        *)
(* through stays within twice the maximum in every period of a window, and *)
(* what the pages show as pending is pending.                              *)
(***************************************************************************)
EXTENDS DemoProperties, TLAPS

(* A bucket b and what its limiter let through, p: hits of the bucket's own *)
(* time are counted in it; before it, there is one full bucket at most that *)
(* a window still reaches.  Without a bucket nothing came in this tick.     *)
WindowInv(b, p, max) ==
  /\ b \in [count : 0..(max + 1), left : 0..Window]
  /\ p \in [Ages -> Nat]
  /\ b.left = 0 => b.count = 0 /\ p[0] = 0 /\ \A k \in Ages : p[k] <= max
  /\ b.left > 0 =>
       \A k \in Ages :
         /\ k <= Window - b.left => p[k] <= b.count /\ p[k] <= max
         /\ k > Window - b.left => p[k] <= p[Window - b.left] + max

LimiterInv ==
  /\ DOMAIN buckets = Limiters /\ passed = [l \in Limiters |-> passed[l]]
  /\ \A l \in Limiters : WindowInv(buckets[l], passed[l], MaxRequests[l])

(* A limiter that runs for some hits keeps the invariant. *)
LEMMA HitsKeepInv ==
  ASSUME NEW l \in Limiters, NEW hits \in Nat,
         WindowInv(buckets[l], passed[l], MaxRequests[l])
  PROVE  WindowInv(Counted(l, hits),
                   IF Passes(l, hits) THEN LetThrough(l, hits) ELSE passed[l],
                   MaxRequests[l])
<1> DEFINE b == Bucket(l)
           p == passed[l]
           max == MaxRequests[l]
           c == Counted(l, hits)
           q == IF Passes(l, hits) THEN LetThrough(l, hits) ELSE p
<1>1. Window \in Nat \ {0} /\ max \in Nat /\ 0 \in Ages
  BY LimiterAssumption DEF Ages
<1>2. /\ b \in [count : 0..(max + 1), left : 1..Window] /\ p \in [Ages -> Nat]
      /\ \A k \in Ages :
           /\ k <= Window - b.left => p[k] <= b.count /\ p[k] <= max
           /\ k > Window - b.left => p[k] <= p[Window - b.left] + max
  <2>1. CASE buckets[l].left = 0
    BY <1>1, <2>1 DEF Bucket, WindowInv, Ages
  <2>2. CASE buckets[l].left # 0
    BY <1>1, <2>2 DEF Bucket, WindowInv, Ages
  <2> QED
    BY <2>1, <2>2
<1>3. Window - b.left \in Ages
  BY <1>1, <1>2 DEF Ages
<1>4. CASE Passes(l, hits)
  <2>1. b.count + hits <= max /\ c = [count |-> b.count + hits, left |-> b.left]
    BY <1>2, <1>4 DEF Passes, Counted
  <2>2. q \in [Ages -> Nat] /\ \A k \in Ages : q[k] = p[k] + hits
    BY <1>2, <1>4 DEF LetThrough
  <2> HIDE DEF b, p, max, c, q
  <2> QED
    BY <1>1, <1>2, <1>3, <2>1, <2>2 DEF WindowInv, c, q, max, p
<1>5. CASE ~Passes(l, hits)
  <2>1. c = [count |-> max + 1, left |-> b.left] /\ q = p
    BY <1>2, <1>5 DEF Counted
  <2> QED
    BY <1>1, <1>2, <1>3, <2>1 DEF WindowInv
<1> QED
  BY <1>4, <1>5

(* One tick keeps it: what is left of a bucket shrinks as its hits age. *)
LEMMA TickKeepsInv ==
  ASSUME LimiterInv, Elapses
  PROVE  LimiterInv'
<1> SUFFICES ASSUME NEW l \in Limiters
             PROVE  WindowInv(buckets'[l], passed'[l], MaxRequests[l])
  BY DEF Elapses, LimiterInv
<1> DEFINE b == buckets[l]
           p == passed[l]
           max == MaxRequests[l]
           q == passed'[l]
<1>1. Window \in Nat \ {0} /\ max \in Nat /\ 0 \in Ages
  BY LimiterAssumption DEF Ages
<1>2. WindowInv(b, p, max)
  BY DEF LimiterInv
<1>3. q = [k \in Ages |-> IF k = 0 THEN 0 ELSE p[k - 1]]
  BY DEF Elapses
<1>4. \A k \in Ages : k # 0 => k - 1 \in Ages
  BY <1>1 DEF Ages
<1>5. q \in [Ages -> Nat]
  BY <1>1, <1>2, <1>3, <1>4 DEF WindowInv
<1>6. CASE b.left <= 1
  <2>1. buckets'[l] = NoBucket
    BY <1>6 DEF Elapses
  <2>2. \A k \in Ages : k - 1 \in Ages => p[k - 1] <= max
    BY <1>1, <1>2, <1>6 DEF WindowInv, Ages
  <2> QED
    BY <1>1, <1>3, <1>4, <1>5, <2>1, <2>2 DEF WindowInv, NoBucket
<1>7. CASE b.left > 1
  <2>1. buckets'[l] = [count |-> b.count, left |-> b.left - 1]
    BY <1>1, <1>2, <1>7 DEF Elapses, WindowInv
  <2>2. Window - b.left \in Ages /\ Window - (b.left - 1) \in Ages
    BY <1>1, <1>2, <1>7 DEF WindowInv, Ages
  <2>a. /\ Window - (b.left - 1) # 0
        /\ (Window - (b.left - 1)) - 1 = Window - b.left
    BY <1>1, <1>2, <1>7 DEF WindowInv
  <2>3. q[Window - (b.left - 1)] = p[Window - b.left]
    BY <1>3, <2>2, <2>a
  <2>4. ASSUME NEW k \in Ages
        PROVE  /\ k <= Window - (b.left - 1) => q[k] <= b.count /\ q[k] <= max
               /\ k > Window - (b.left - 1) => q[k] <= p[Window - b.left] + max
    <3>1. CASE k = 0
      BY <1>1, <1>2, <1>3, <1>7, <3>1 DEF WindowInv, Ages
    <3>2. CASE k # 0
      <4>1. q[k] = p[k - 1] /\ k - 1 \in Ages /\ k \in Nat
        BY <1>1, <1>3, <1>4, <3>2 DEF Ages
      <4>2. /\ k - 1 <= Window - b.left => p[k - 1] <= b.count /\ p[k - 1] <= max
            /\ k - 1 > Window - b.left => p[k - 1] <= p[Window - b.left] + max
        BY <1>2, <1>7, <4>1 DEF WindowInv
      <4>3. b.left \in Nat
        BY <1>2 DEF WindowInv
      <4> QED
        BY <1>1, <4>1, <4>2, <4>3
    <3> QED
      BY <3>1, <3>2
  <2> HIDE DEF b, p, q, max
  <2>5. b.left - 1 > 0 /\ b.left - 1 \in 0..Window /\ b.count \in 0..(max + 1)
    BY <1>1, <1>2, <1>7 DEF WindowInv
  <2> QED
    BY <1>5, <2>1, <2>3, <2>4, <2>5 DEF WindowInv, q, max
<1> QED
  BY <1>1, <1>2, <1>6, <1>7 DEF WindowInv

(* A request keeps it, wherever the limiters stop it. *)
LEMMA RequestKeepsInv ==
  ASSUME LimiterInv, NEW kind, Limits(kind)
  PROVE  LimiterInv'
<1>1. ReadHits(kind) \in Nat /\ WriteHits(kind) \in Nat
  BY DEF ReadHits, WriteHits
<1>2. "read" \in Limiters /\ "write" \in Limiters
  BY DEF Limiters
<1>3. WindowInv(buckets'["read"], passed'["read"], MaxRequests["read"])
  <2>1. /\ buckets'["read"] = Counted("read", ReadHits(kind))
        /\ passed'["read"] = IF Passes("read", ReadHits(kind))
                             THEN LetThrough("read", ReadHits(kind)) ELSE passed["read"]
    BY <1>2 DEF Limits, LimiterInv, ReadPasses
  <2> QED
    BY <1>1, <1>2, <2>1, HitsKeepInv DEF LimiterInv
<1>4. WindowInv(buckets'["write"], passed'["write"], MaxRequests["write"])
  <2>1. CASE WriteReached(kind)
    <3>1. /\ buckets'["write"] = Counted("write", WriteHits(kind))
          /\ passed'["write"] = IF Passes("write", WriteHits(kind))
                                THEN LetThrough("write", WriteHits(kind))
                                ELSE passed["write"]
      BY <1>2, <2>1 DEF Limits, LimiterInv
    <3> QED
      BY <1>1, <1>2, <3>1, HitsKeepInv DEF LimiterInv
  <2>2. CASE ~WriteReached(kind)
    BY <1>2, <2>2 DEF Limits, LimiterInv
  <2> QED
    BY <2>1, <2>2
<1> QED
  BY <1>3, <1>4 DEF Limits, LimiterInv, Limiters

(* Every step of the demo is one of the two for the limiters, or neither. *)
LEMMA StepLimits ==
  ASSUME [Next]_vars
  PROVE  Elapses \/ (\E kind : Limits(kind)) \/ UNCHANGED limiterVars
<1>1. CASE User
  BY <1>1 DEF User, Opens, Edits, EditsTransfer, SubmitsMint, SubmitsTransfer, ClicksRedeem,
             Mutates
<1>2. CASE EstimateFires \/ Tick \/ OtherTab
  BY <1>2 DEF EstimateFires, Tick, OtherTab
<1>3. ASSUME NEW s \in Slots, Serves(s) \/ Resumes(s)
      PROVE  (\E kind : Limits(kind)) \/ UNCHANGED limiterVars
  <2>1. CASE ServerRefuses(s) \/ ServerServes(s) \/ RpcFails(s)
    BY <2>1 DEF ServerRefuses, ServerServes, RpcFails
  <2>2. CASE FetchFails(s)
    BY <2>2 DEF FetchFails
  <2>3. CASE Resumes(s)
    BY <2>3 DEF Resumes, EstimateArrives, PositionsArrive, BalanceArrives, StatusArrives,
                Shows, AddressArrives, MutationArrives, RedeemArrives, OrphanArrives
  <2> QED
    BY <1>3, <2>1, <2>2, <2>3 DEF Serves
<1>4. CASE UNCHANGED vars
  BY <1>4 DEF vars
<1> QED
  BY <1>1, <1>2, <1>3, <1>4 DEF Next

(* The limiters keep their invariant, whatever asks them.                   *)
LEMMA LimiterInductive == Spec => []LimiterInv
<1>1. Init => LimiterInv
  BY LimiterAssumption
     DEF Init, LimiterInit, LimiterInv, WindowInv, NoBucket, Ages, Limiters
<1>2. LimiterInv /\ [Next]_vars => LimiterInv'
  <2> SUFFICES ASSUME LimiterInv, [Next]_vars
               PROVE  LimiterInv'
    OBVIOUS
  <2>1. CASE UNCHANGED limiterVars
    BY <2>1 DEF LimiterInv, limiterVars
  <2> QED
    BY <2>1, StepLimits, TickKeepsInv, RequestKeepsInv
<1> QED
  BY <1>1, <1>2, PTL DEF Spec

(* In no period of the length of a window more than twice the maximum of    *)
(* hits passes a limiter, for any window and any maxima (createLimiter).    *)
THEOREM Bounded == Spec => []SlidingBound
<1>1. LimiterInv => SlidingBound
  <2> SUFFICES ASSUME LimiterInv, NEW l \in Limiters
               PROVE  passed[l][Window - 1] <= 2 * MaxRequests[l]
    BY DEF SlidingBound
  <2>1. Window \in Nat \ {0} /\ MaxRequests[l] \in Nat
    BY LimiterAssumption
  <2>2. Window - 1 \in Ages
    BY <2>1 DEF Ages
  <2>3. WindowInv(buckets[l], passed[l], MaxRequests[l])
    BY DEF LimiterInv
  <2>4. buckets[l].left \in 0..Window /\ passed[l][Window - 1] \in Nat
    BY <2>2, <2>3 DEF WindowInv
  <2>5. CASE buckets[l].left = 0
    BY <2>1, <2>2, <2>3, <2>4, <2>5 DEF WindowInv
  <2>6. CASE buckets[l].left > 0
    <3>1. Window - buckets[l].left \in Ages
      BY <2>1, <2>4, <2>6 DEF Ages
    <3>2. passed[l][Window - buckets[l].left] \in Nat
      BY <2>3, <3>1 DEF WindowInv
    <3>3. passed[l][Window - buckets[l].left] <= MaxRequests[l]
      BY <2>1, <2>3, <2>4, <2>6, <3>1 DEF WindowInv
    <3>4. \/ passed[l][Window - 1] <= MaxRequests[l]
          \/ passed[l][Window - 1] <= passed[l][Window - buckets[l].left] + MaxRequests[l]
      BY <2>1, <2>2, <2>3, <2>4, <2>6 DEF WindowInv
    <3> QED
      BY <2>1, <2>4, <3>2, <3>3, <3>4
  <2> QED
    BY <2>4, <2>5, <2>6
<1> QED
  BY <1>1, LimiterInductive, PTL

----------------------------------------------------------------------------
(* Who sends requests of a kind. *)
Belongs(kind, page) ==
  /\ kind \in {"estimate", "mint"} => page = "mint"
  /\ kind \in {"balance", "transfer"} => page = "transfer"
  /\ kind \in {"positions", "redeem"} => page = "positions"
  /\ kind \in {"status", "address"} => page = "dashboard"

(* An answer that still matters belongs to the page that is mounted. *)
LiveBelongs ==
  \A s \in Slots :
    requests[s].live =>
      /\ Belongs(requests[s].kind, screen)
      /\ requests[s].kind = "estimate" => requests[s].arg \in Inputs \union {None}

RequestTypes == requests \in [Slots -> RequestType]

BookTypes ==
  /\ book \in [Positions -> {"none", "open", "closed"}]
  /\ held \subseteq {p \in Positions : book[p] # "none"}

(* The inductive invariant of the pages. *)
PageInv == RequestTypes /\ BookTypes /\ PageTypes /\ LiveBelongs /\ SpinnersAreHonest

Args == Positions \union Inputs \union {None}

(* A request that is made has the type of one.                              *)
LEMMA NewRequest ==
  ASSUME NEW kind \in Kinds, NEW arg \in Args, NEW live \in BOOLEAN
  PROVE  Request(kind, arg, live) \in RequestType
BY DEF Request, RequestType, Args, Kinds

(* A request is put into a slot that is free. *)
LEMMA SendsInto ==
  ASSUME NEW reqs, Free(reqs) # {}, NEW kind, NEW arg
  PROVE  \E s \in Slots :
           /\ reqs[s].kind = "none"
           /\ Sending(reqs, kind, arg) = [reqs EXCEPT ![s] = Request(kind, arg, TRUE)]
<1>1. (CHOOSE s \in Free(reqs) : TRUE) \in Free(reqs)
  OBVIOUS
<1> QED
  BY <1>1 DEF Free, Sending

Asks == {"positions", "balance", "status", "address"}

(* The requests of a page that was just mounted. *)
Fresh(reqs, page) ==
  /\ reqs \in [Slots -> RequestType]
  /\ \A s \in Slots : reqs[s].live => reqs[s].kind \in Asks /\ Belongs(reqs[s].kind, page)

(* A page that asks for something has asked for nothing but its own.        *)
LEMMA AskingIsFresh ==
  ASSUME NEW reqs, NEW page, Fresh(reqs, page), Free(reqs) # {}, NEW kind \in Asks,
         Belongs(kind, page)
  PROVE  Fresh(Sending(reqs, kind, None), page)
<1>1. PICK s \in Slots : Sending(reqs, kind, None)
                           = [reqs EXCEPT ![s] = Request(kind, None, TRUE)]
  BY SendsInto
<1>2. Request(kind, None, TRUE) \in RequestType /\ Request(kind, None, TRUE).kind = kind
  BY DEF Request, RequestType, Asks, Kinds
<1> QED
  BY <1>1, <1>2 DEF Fresh

(* So is what a page polls.                                                 *)
LEMMA PollingIsFresh ==
  ASSUME NEW reqs, NEW page \in Pages, Fresh(reqs, page), Free(reqs) # {}
  PROVE  Fresh(Polling(page, reqs), page)
<1>1. CASE page \in DOMAIN PolledBy
  <2>1. PolledBy[page] \in Asks /\ Belongs(PolledBy[page], page)
    BY <1>1 DEF PolledBy, Asks, Belongs
  <2>2. Polling(page, reqs) = Sending(reqs, PolledBy[page], None)
    BY <1>1 DEF Polling
  <2> QED
    BY <2>1, <2>2, AskingIsFresh
<1>2. CASE page \notin DOMAIN PolledBy
  BY <1>2 DEF Polling
<1> QED
  BY <1>1, <1>2

(* And what it asks for when it is mounted.                                 *)
LEMMA MountingIsFresh ==
  ASSUME NEW reqs, NEW page \in Pages, Fresh(reqs, page), CanMount(page, reqs)
  PROVE  Fresh(Mounting(page, reqs), page)
<1>1. Fresh(Polling(page, reqs), page)
  BY PollingIsFresh DEF CanMount
<1>2. CASE page = "dashboard"
  <2>1. /\ Mounting(page, reqs) = Sending(Polling(page, reqs), "address", None)
        /\ Free(Polling(page, reqs)) # {}
    BY <1>2 DEF Mounting, CanMount
  <2>2. "address" \in Asks /\ Belongs("address", page)
    BY <1>2 DEF Asks, Belongs
  <2> QED
    BY <1>1, <2>1, <2>2, AskingIsFresh
<1>3. CASE page # "dashboard"
  BY <1>1, <1>3 DEF Mounting
<1> QED
  BY <1>2, <1>3

(* A page that was just mounted has nothing to wait for but what it asked. *)
JustMounted ==
  /\ screen \in Pages /\ Fresh(requests, screen) /\ BookTypes
  /\ form = NewForm /\ view = NewView /\ mutation = NewMutation

(* A page that was just mounted keeps the invariant.                        *)
LEMMA MountedKeepsInv == JustMounted => PageInv
<1> SUFFICES ASSUME JustMounted PROVE PageInv
  OBVIOUS
<1> USE DEF JustMounted
<1>1. PageTypes
  BY DEF PageTypes, NewForm, NewView, NewMutation
<1>2. RequestTypes /\ LiveBelongs
  BY DEF RequestTypes, LiveBelongs, Fresh, Asks
<1>3. Pending(Mutations) = {}
  BY DEF Pending, Fresh, Asks, Mutations
<1>4. SpinnersAreHonest
  BY <1>3 DEF SpinnersAreHonest, NewForm, NewMutation
<1> QED
  BY <1>1, <1>2, <1>4 DEF PageInv

(* The user leaves a page: its requests matter no longer. *)
LEMMA OpensKeepsInv ==
  ASSUME PageInv, NEW page \in Pages, Opens(page)
  PROVE  PageInv'
<1>1. Fresh(Orphans, page)
  BY DEF Orphans, PageInv, RequestTypes, RequestType, Fresh
<1>2. /\ screen' = page /\ form' = NewForm /\ view' = NewView
      /\ mutation' = NewMutation /\ UNCHANGED nodeVars
      /\ CanMount(page, Orphans) /\ requests' = Mounting(page, Orphans)
  BY DEF Opens
<1>3. Fresh(requests', screen')
  BY <1>1, <1>2, MountingIsFresh
<1>4. BookTypes'
  BY <1>2 DEF PageInv, BookTypes, nodeVars
<1>5. JustMounted'
  BY <1>2, <1>3, <1>4 DEF JustMounted
<1> QED
  BY <1>5, MountedKeepsInv, PTL

(* A page sends a request of its own; what it waits for says so. *)
LEMMA SendingKeepsInv ==
  ASSUME PageInv, PageTypes', NEW kind \in Kinds \ {"none"}, NEW arg \in Args,
         Free(requests) # {}, requests' = Sending(requests, kind, arg),
         UNCHANGED <<screen, nodeVars>>,
         Belongs(kind, screen),
         kind = "estimate" => arg \in Inputs \union {None},
         IF kind \in Mutations THEN ~mutation.loading /\ mutation'.loading
         ELSE mutation'.loading = mutation.loading,
         form'.input # None /\ form'.estimating =>
           \/ kind = "estimate" \/ form'.timer
           \/ form.input # None /\ form.estimating /\ (form.timer => form'.timer)
  PROVE  PageInv'
<1>a. \E s \in Slots :
        /\ requests[s].kind = "none"
        /\ Sending(requests, kind, arg) = [requests EXCEPT ![s] = Request(kind, arg, TRUE)]
  BY ONLY SendsInto, Free(requests) # {}
<1>1. PICK s \in Slots :
        /\ requests[s].kind = "none"
        /\ requests' = [requests EXCEPT ![s] = Request(kind, arg, TRUE)]
  BY <1>a
<1>2. Request(kind, arg, TRUE) \in RequestType
  BY DEF Request, RequestType, Args, Kinds
<1>3. /\ requests'[s].live /\ requests'[s].kind = kind /\ requests'[s].arg = arg
      /\ \A t \in Slots : t # s => requests'[t] = requests[t]
  BY <1>1 DEF PageInv, RequestTypes, Request
<1>4. RequestTypes' /\ BookTypes'
  BY <1>1, <1>2 DEF PageInv, RequestTypes, BookTypes, nodeVars
<1>5. LiveBelongs'
  BY <1>3 DEF PageInv, LiveBelongs
<1>6. SpinnersAreHonest'
  <2>1. CASE kind \in Mutations
    <3>1. Pending(Mutations) = {}
      BY <2>1 DEF PageInv, SpinnersAreHonest
    <3>2. Pending(Mutations)' = {s}
      BY <1>1, <1>3, <2>1, <3>1 DEF Pending, Mutations
    <3>3. Pending({"estimate"})' = Pending({"estimate"})
      BY <1>1, <1>3, <2>1 DEF Pending, Mutations
    <3>4. kind # "estimate"
      BY <2>1 DEF Mutations
    <3>5. Pending(Mutations)' # {} /\ \A t, u \in Pending(Mutations)' : t = u
      BY <3>2
    <3>6. form'.input # None /\ form'.estimating => form'.timer \/ Pending({"estimate"})' # {}
      BY <3>3, <3>4 DEF PageInv, SpinnersAreHonest
    <3> QED
      BY <2>1, <3>5, <3>6 DEF SpinnersAreHonest
  <2>2. CASE kind \notin Mutations
    <3>1. Pending(Mutations)' = Pending(Mutations)
      BY <1>1, <1>3, <2>2 DEF Pending, Mutations
    <3>2. Pending({"estimate"})' = IF kind = "estimate" THEN Pending({"estimate"}) \union {s}
                                  ELSE Pending({"estimate"})
      BY <1>1, <1>3 DEF Pending
    <3> QED
      BY <2>2, <3>1, <3>2 DEF PageInv, SpinnersAreHonest
  <2> QED
    BY <2>1, <2>2
<1> QED
  BY <1>4, <1>5, <1>6 DEF PageInv

(* What the user and the timers do on a page. *)
LEMMA UserKeepsInv ==
  ASSUME PageInv, User
  PROVE  PageInv'
<1>1. CASE \E page \in Pages : Opens(page)
  BY <1>1, OpensKeepsInv
<1>2. ASSUME NEW input \in Inputs \union {None}, Edits(input)
      PROVE  PageInv'
  <2>1. /\ form' = [input |-> input, timer |-> input # None,
                    estimating |-> IF input = None THEN form.estimating ELSE TRUE,
                    estimate |-> IF input = None THEN None ELSE form.estimate]
        /\ mutation' = [loading |-> mutation.loading, result |-> {}]
        /\ screen = "mint" /\ UNCHANGED <<screen, view, requests, nodeVars>>
    BY <1>2 DEF Edits, PageInv, PageTypes
  <2>2. PageTypes'
    BY <2>1 DEF PageTypes, PageInv
  <2> QED
    BY <2>1, <2>2
       DEF PageInv, RequestTypes, BookTypes, LiveBelongs, SpinnersAreHonest, Pending,
           nodeVars
<1>a. ASSUME NEW input \in Inputs \union {None}, EditsTransfer(input)
      PROVE  PageInv'
  <2>1. /\ form' = [form EXCEPT !.input = input]
        /\ mutation' = [loading |-> mutation.loading, result |-> {}]
        /\ screen = "transfer" /\ UNCHANGED <<screen, view, requests, nodeVars>>
    BY <1>a DEF EditsTransfer, PageInv, PageTypes
  <2>2. form = [NewForm EXCEPT !.input = form.input]
    BY <2>1 DEF PageInv, PageTypes
  <2>3. /\ form' = [NewForm EXCEPT !.input = input]
        /\ form'.input = input /\ ~form'.estimating /\ ~form'.timer
    BY <2>1, <2>2 DEF NewForm
  <2>4. PageTypes'
    BY <2>1, <2>3 DEF PageTypes, PageInv, NewForm
  <2>5. SpinnersAreHonest'
    BY <2>1, <2>3 DEF PageInv, SpinnersAreHonest, Pending
  <2> QED
    BY <2>1, <2>4, <2>5 DEF PageInv, RequestTypes, BookTypes, LiveBelongs, nodeVars
<1>3. ASSUME NEW kind \in Mutations, NEW arg \in Args, Mutates(kind, arg),
             Belongs(kind, screen)
      PROVE  PageInv'
  <2>1. /\ ~mutation.loading /\ Free(requests) # {}
        /\ mutation' = [loading |-> TRUE, result |-> {}]
        /\ requests' = Sending(requests, kind, arg)
        /\ UNCHANGED <<screen, form, view, nodeVars>>
    BY <1>3 DEF Mutates
  <2>2. PageTypes'
    BY <2>1 DEF PageInv, PageTypes
  <2>3. kind \in Kinds \ {"none"} /\ kind # "estimate"
    BY DEF Kinds, Mutations
  <2> QED
    BY <1>3, <2>1, <2>2, <2>3, SendingKeepsInv
<1>4. CASE SubmitsMint \/ SubmitsTransfer
  <2>1. form.input \in Args
    BY DEF PageInv, PageTypes, Args
  <2> QED
    BY <1>3, <1>4, <2>1 DEF SubmitsMint, SubmitsTransfer, Belongs, Mutations
<1>5. CASE \E p \in Positions : ClicksRedeem(p)
  BY <1>3, <1>5 DEF ClicksRedeem, Args, Belongs, Mutations
<1> QED
  BY <1>1, <1>2, <1>a, <1>4, <1>5 DEF User

(* Timers start requests that are not mutations.                            *)
LEMMA TimersKeepInv ==
  ASSUME PageInv, EstimateFires \/ Tick
  PROVE  PageInv'
<1>1. CASE EstimateFires
  <2>1. /\ form.timer /\ Free(requests) # {}
        /\ form' = [form EXCEPT !.timer = FALSE]
        /\ requests' = Sending(requests, "estimate", form.input)
        /\ UNCHANGED <<screen, view, mutation, nodeVars>>
    BY <1>1 DEF EstimateFires
  <2>2. screen = "mint" /\ Belongs("estimate", screen)
    BY <2>1 DEF PageInv, PageTypes, NewForm, Belongs
  <2>a. PageTypes' /\ form.input \in Args /\ form.input \in Inputs \union {None}
    BY <2>1, <2>2 DEF PageInv, PageTypes, Args
  <2>3. "estimate" \in Kinds \ {"none"} /\ "estimate" \notin Mutations
    BY DEF Kinds, Mutations
  <2> QED
    BY <2>1, <2>2, <2>a, <2>3, SendingKeepsInv
<1>2. CASE Tick
  <2>1. /\ Free(requests) # {} /\ requests' = Polling(screen, requests)
        /\ UNCHANGED <<screen, form, view, mutation, nodeVars>>
    BY <1>2 DEF Tick, pageVars
  <2>2. PageTypes'
    BY <2>1 DEF PageInv, PageTypes
  <2>3. CASE screen \in DOMAIN PolledBy
    <3> DEFINE kind == PolledBy[screen]
    <3>1. requests' = Sending(requests, kind, None)
      BY <2>1, <2>3 DEF Polling
    <3>2. kind \in Asks /\ Belongs(kind, screen)
      BY <2>3 DEF PolledBy, Asks, Belongs
    <3>3. None \in Args
      BY DEF Args
    <3> HIDE DEF kind
    <3>4. kind \in Kinds \ {"none"} /\ kind \notin Mutations /\ kind # "estimate"
      BY <3>2 DEF Kinds, Mutations, Asks
    <3> QED
      BY <2>1, <2>2, <3>1, <3>2, <3>3, <3>4, SendingKeepsInv
  <2>4. CASE screen \notin DOMAIN PolledBy
    BY <2>1, <2>2, <2>4
       DEF Polling, PageInv, RequestTypes, BookTypes, LiveBelongs, SpinnersAreHonest, Pending,
           nodeVars
  <2> QED
    BY <2>3, <2>4
<1> QED
  BY <1>1, <1>2

(* An answer on its way changes nothing of the pages. *)
LEMMA AnsweringKeepsInv ==
  ASSUME PageInv, NEW s \in Slots, NEW ok \in BOOLEAN, NEW value \in SUBSET Positions,
         Answered(s, ok, value), UNCHANGED pageVars, BookTypes'
  PROVE  PageInv'
<1>1. requests' = [requests EXCEPT ![s] =
                    [requests[s] EXCEPT !.stage = "answered", !.ok = ok, !.value = value]]
  BY DEF Answered
<1>2. RequestTypes'
  BY <1>1 DEF PageInv, RequestTypes, RequestType
<1>3. \A t \in Slots : /\ requests'[t].live = requests[t].live
                       /\ requests'[t].kind = requests[t].kind
                       /\ requests'[t].arg = requests[t].arg
  BY <1>1 DEF PageInv, RequestTypes, RequestType
<1>4. \A kinds : Pending(kinds)' = Pending(kinds)
  BY <1>3 DEF Pending
<1>5. PageTypes' /\ LiveBelongs'
  BY <1>3 DEF PageInv, PageTypes, LiveBelongs, pageVars
<1>6. SpinnersAreHonest'
  BY <1>4 DEF PageInv, SpinnersAreHonest, pageVars
<1> QED
  BY <1>2, <1>5, <1>6 DEF PageInv

(* What the routes do keeps the types of the wallet at the node.            *)
LEMMA NodeTypes ==
  ASSUME BookTypes, NEW kind, NEW arg, NEW ok, NEW value, Handles(kind, arg, ok, value)
  PROVE  BookTypes'
<1>1. CASE UNCHANGED nodeVars
  BY <1>1 DEF BookTypes, nodeVars
<1>2. CASE PostMint(ok, value)
  BY <1>1, <1>2 DEF PostMint, Fails, BookTypes
<1>3. CASE PostTransfer(ok, value)
  BY <1>1, <1>3 DEF PostTransfer, Fails, Loses, BookTypes
<1>4. CASE PostRedeem(arg, ok, value)
  BY <1>1, <1>4 DEF PostRedeem, Fails, Loses, BookTypes
<1> QED
  BY <1>1, <1>2, <1>3, <1>4
     DEF Handles, GetPositions, GetEstimate, GetAddress, GetBalance, GetStatus

(* An answer on its way does not change what is pending.                    *)
LEMMA ServerKeepsInv ==
  ASSUME PageInv, NEW s \in Slots, Serves(s)
  PROVE  PageInv'
<1>1. CASE ServerRefuses(s)
  <2>1. Answered(s, FALSE, {}) /\ UNCHANGED pageVars /\ BookTypes'
    BY <1>1 DEF ServerRefuses, Refused, PageInv, BookTypes, nodeVars
  <2> QED
    BY <2>1, AnsweringKeepsInv
<1>2. CASE ServerServes(s)
  <2>1. PICK ok \in BOOLEAN, value \in SUBSET Positions :
          /\ Handles(requests[s].kind, requests[s].arg, ok, value)
          /\ Answered(s, ok, value)
    BY <1>2 DEF ServerServes
  <2>2. BookTypes'
    BY <2>1, NodeTypes DEF PageInv
  <2>3. UNCHANGED pageVars
    BY <1>2 DEF ServerServes
  <2> QED
    BY <2>1, <2>2, <2>3, AnsweringKeepsInv
<1>3. CASE RpcFails(s)
  <2>1. BookTypes'
    <3>1. CASE UNCHANGED nodeVars
      BY <3>1 DEF PageInv, BookTypes, nodeVars
    <3>2. CASE \E ok \in BOOLEAN, value \in SUBSET Positions :
                 Handles(requests[s].kind, requests[s].arg, ok, value)
      BY <3>2, NodeTypes DEF PageInv
    <3> QED
      BY <1>3, <3>1, <3>2 DEF RpcFails
  <2>2. Answered(s, FALSE, {}) /\ UNCHANGED pageVars
    BY <1>3 DEF RpcFails, Refused
  <2> QED
    BY <2>1, <2>2, AnsweringKeepsInv
<1>4. CASE FetchFails(s)
  <2>1. Answered(s, FALSE, {}) /\ UNCHANGED pageVars /\ BookTypes'
    BY <1>4 DEF FetchFails, PageInv, BookTypes, nodeVars
  <2> QED
    BY <2>1, AnsweringKeepsInv
<1> QED
  BY <1>1, <1>2, <1>3, <1>4 DEF Serves

(* A request ends, or gives way to a refetch, and so does what waited for it. *)
LEMMA EndingKeepsInv ==
  ASSUME PageInv, PageTypes', UNCHANGED <<screen, nodeVars>>,
         NEW s \in Slots, NEW r \in RequestType, r.kind \in {"none", "positions"},
         r.live => r.kind = "positions" /\ screen = "positions",
         requests' = [requests EXCEPT ![s] = r],
         IF s \in Pending(Mutations) THEN ~mutation'.loading
         ELSE mutation'.loading = mutation.loading,
         IF s \in Pending({"estimate"}) THEN ~form'.estimating ELSE form' = form
  PROVE  PageInv'
<1>1. requests'[s] = r /\ \A t \in Slots : t # s => requests'[t] = requests[t]
  BY DEF PageInv, RequestTypes
<1>2. RequestTypes' /\ BookTypes'
  BY DEF PageInv, RequestTypes, BookTypes, nodeVars
<1>3. LiveBelongs'
  BY <1>1 DEF PageInv, LiveBelongs, Belongs
<1>4. /\ Pending(Mutations)' = Pending(Mutations) \ {s}
      /\ Pending({"estimate"})' = Pending({"estimate"}) \ {s}
  BY <1>1 DEF Pending, Mutations
<1>5. SpinnersAreHonest'
  <2>1. mutation'.loading <=> Pending(Mutations)' # {}
    BY <1>4 DEF PageInv, SpinnersAreHonest
  <2>2. \A t, u \in Pending(Mutations)' : t = u
    BY <1>4 DEF PageInv, SpinnersAreHonest
  <2>3. form'.input # None /\ form'.estimating => form'.timer \/ Pending({"estimate"})' # {}
    BY <1>4 DEF PageInv, SpinnersAreHonest
  <2> QED
    BY <2>1, <2>2, <2>3 DEF SpinnersAreHonest
<1> QED
  BY <1>2, <1>3, <1>5 DEF PageInv

(* An answer that arrives ends what it answers, and nothing else.           *)
LEMMA ArrivalKeepsInv ==
  ASSUME PageInv, NEW s \in Slots, Resumes(s)
  PROVE  PageInv'
<1>1. NoRequest \in RequestType /\ NoRequest.kind = "none" /\ ~NoRequest.live
  BY DEF NoRequest, Request, RequestType, Kinds
<1>2. requests[s] \in RequestType
  BY DEF PageInv, RequestTypes
<1>3. CASE EstimateArrives(s)
  <2>1. /\ requests' = [requests EXCEPT ![s] = NoRequest]
        /\ s \in Pending({"estimate"}) /\ s \notin Pending(Mutations)
        /\ form' = [form EXCEPT !.estimating = FALSE,
                               !.estimate = IF requests[s].ok THEN requests[s].arg ELSE None]
        /\ UNCHANGED <<screen, view, mutation, nodeVars>>
    BY <1>3 DEF EstimateArrives, Arrives, Pending, Mutations
  <2>2. screen = "mint"
    BY <2>1 DEF PageInv, LiveBelongs, Belongs, Pending
  <2>3. requests[s].ok => requests[s].arg \in Inputs \union {None}
    BY <2>1 DEF PageInv, LiveBelongs, Pending
  <2>4. PageTypes'
    BY <1>2, <2>1, <2>2, <2>3 DEF PageInv, PageTypes
  <2>5. ~form'.estimating /\ mutation'.loading = mutation.loading
    BY <2>1 DEF PageInv, PageTypes
  <2> QED
    BY <1>1, <2>1, <2>4, <2>5, EndingKeepsInv
<1>4. CASE PositionsArrive(s) \/ BalanceArrives(s) \/ StatusArrives(s) \/ AddressArrives(s)
  <2>1. /\ requests' = [requests EXCEPT ![s] = NoRequest]
        /\ requests[s].live /\ requests[s].kind \in Asks
        /\ UNCHANGED <<screen, form, mutation, nodeVars>>
    BY <1>4 DEF PositionsArrive, BalanceArrives, StatusArrives, AddressArrives, Shows,
                Arrives, Asks
  <2>2. view' \in [shown : SUBSET Positions, loading : BOOLEAN, address : BOOLEAN]
    <3>1. view \in [shown : SUBSET Positions, loading : BOOLEAN, address : BOOLEAN]
      BY DEF PageInv, PageTypes
    <3>2. requests[s].value \in SUBSET Positions /\ requests[s].ok \in BOOLEAN
      BY <1>2 DEF RequestType
    <3>3. CASE AddressArrives(s)
      BY <3>1, <3>2, <3>3 DEF AddressArrives
    <3>4. CASE Shows(s)
      BY <3>1, <3>2, <3>4 DEF Shows
    <3> QED
      BY <1>4, <3>3, <3>4 DEF PositionsArrive, BalanceArrives, StatusArrives
  <2>3. screen \in DOMAIN PolledBy
    BY <2>1 DEF PageInv, LiveBelongs, Belongs, Asks, PolledBy
  <2>4. PageTypes'
    BY <2>1, <2>2, <2>3 DEF PageInv, PageTypes
  <2>5. s \notin Pending(Mutations) /\ s \notin Pending({"estimate"})
    BY <2>1 DEF Pending, Mutations, Asks
  <2> QED
    BY <1>1, <2>1, <2>4, <2>5, EndingKeepsInv
<1>5. CASE MutationArrives(s)
  <2>1. /\ requests' = [requests EXCEPT ![s] = NoRequest]
        /\ s \in Pending(Mutations) /\ s \notin Pending({"estimate"})
        /\ mutation' = [loading |-> FALSE, result |-> requests[s].value]
        /\ UNCHANGED <<screen, form, view, nodeVars>>
    BY <1>5 DEF MutationArrives, Arrives, Pending, Mutations
  <2>2. PageTypes'
    BY <1>2, <2>1 DEF PageInv, PageTypes, RequestType
  <2> QED
    BY <1>1, <2>1, <2>2, EndingKeepsInv
<1>6. CASE RedeemArrives(s)
  <2> DEFINE r == IF requests[s].ok THEN Request("positions", None, requests[s].live)
                  ELSE NoRequest
  <2>1. /\ requests[s].kind = "redeem" /\ requests' = [requests EXCEPT ![s] = r]
        /\ mutation' = IF requests[s].live
                       THEN [loading |-> FALSE, result |-> requests[s].value] ELSE mutation
        /\ UNCHANGED <<screen, form, view, nodeVars>>
    BY <1>6 DEF RedeemArrives, Refetches
  <2>2. r \in RequestType /\ r.kind \in {"none", "positions"}
    BY <1>1, <1>2 DEF Request, RequestType, Kinds
  <2>3. r.live => r.kind = "positions" /\ screen = "positions"
    BY <1>1, <2>1 DEF Request, PageInv, LiveBelongs, Belongs
  <2>4. PageTypes'
    BY <1>2, <2>1 DEF PageInv, PageTypes, RequestType
  <2>5. /\ s \notin Pending({"estimate"})
        /\ s \in Pending(Mutations) <=> requests[s].live
    BY <2>1 DEF Pending, Mutations
  <2>6. IF s \in Pending(Mutations) THEN ~mutation'.loading
        ELSE mutation'.loading = mutation.loading
    BY <2>1, <2>5
  <2> HIDE DEF r
  <2> QED
    BY <2>1, <2>2, <2>3, <2>4, <2>5, <2>6, EndingKeepsInv
<1>7. CASE OrphanArrives(s)
  <2>1. /\ requests' = [requests EXCEPT ![s] = NoRequest]
        /\ ~requests[s].live /\ UNCHANGED pageVars /\ UNCHANGED nodeVars
    BY <1>7 DEF OrphanArrives
  <2>2. PageTypes' /\ UNCHANGED <<screen, form, mutation, nodeVars>>
    BY <2>1 DEF pageVars, PageInv, PageTypes
  <2>3. s \notin Pending(Mutations) /\ s \notin Pending({"estimate"})
    BY <2>1 DEF Pending
  <2> QED
    BY <1>1, <2>1, <2>2, <2>3, EndingKeepsInv
<1> QED
  BY <1>3, <1>4, <1>5, <1>6, <1>7 DEF Resumes

(* The pages keep their invariant.                                          *)
LEMMA PagesInductive == Spec => []PageInv
<1>1. Init => PageInv
  <2> SUFFICES ASSUME Init PROVE PageInv
    OBVIOUS
  <2> DEFINE none == [s \in Slots |-> NoRequest]
  <2>1. NoRequest \in RequestType /\ NoRequest.kind = "none" /\ ~NoRequest.live
    BY DEF NoRequest, Request, RequestType, Kinds
  <2>2. Fresh(none, screen) /\ screen \in Pages
    BY <2>1 DEF Init, Fresh
  <2>3. CanMount(screen, none)
    <3>1. PICK s \in Slots, t \in Slots : s # t
      BY DemoAssumption
    <3>2. s \in Free(none) /\ t \in Free(none)
      BY <2>1, <3>1 DEF Free
    <3>3. CASE screen = "dashboard"
      <4>a. Polling(screen, none) = Sending(none, "status", None) /\ Free(none) # {}
        BY <3>2, <3>3 DEF Polling, PolledBy
      <4>b. \E u \in Slots : Sending(none, "status", None)
                               = [none EXCEPT ![u] = Request("status", None, TRUE)]
        BY ONLY <4>a, SendsInto, ZenonT(60)
      <4>1. PICK u \in Slots :
              Polling(screen, none) = [none EXCEPT ![u] = Request("status", None, TRUE)]
        BY <4>a, <4>b
      <4>2. PICK v \in {s, t} : v # u
        BY <3>1
      <4>3. v \in Free(Polling(screen, none))
        BY <2>1, <3>1, <4>1, <4>2 DEF Free
      <4> QED
        BY <3>2, <4>3 DEF CanMount
    <3> QED
      BY <3>2, <3>3 DEF CanMount
  <2>4. BookTypes
    BY DemoAssumption DEF Init, BookTypes
  <2>5. Fresh(requests, screen)
    BY <2>2, <2>3, MountingIsFresh DEF Init
  <2> QED
    BY <2>2, <2>4, <2>5, MountedKeepsInv DEF Init, JustMounted
<1>2. PageInv /\ [Next]_vars => PageInv'
  <2> SUFFICES ASSUME PageInv, [Next]_vars PROVE PageInv'
    OBVIOUS
  <2>1. CASE UNCHANGED <<pageVars, requests, nodeVars>>
    BY <2>1 DEF PageInv, RequestTypes, BookTypes, PageTypes, LiveBelongs, SpinnersAreHonest,
                Pending, pageVars, nodeVars
  <2>2. CASE OtherTab
    BY <2>1, <2>2 DEF OtherTab
  <2>3. CASE UNCHANGED vars
    BY <2>1, <2>3 DEF vars
  <2> QED
    BY <2>2, <2>3, UserKeepsInv, TimersKeepInv, ServerKeepsInv, ArrivalKeepsInv DEF Next
<1> QED
  BY <1>1, <1>2, PTL DEF Spec

(* Buckets, pages, requests and positions keep their types, and a page that *)
(* is not mounted keeps the state of a new one (createLimiter and the hooks' *)
(* cleanups).                                                               *)
THEOREM TypesKept == Spec => []TypeOK
<1>1. LimiterInv /\ PageInv => TypeOK
  <2> SUFFICES ASSUME LimiterInv, PageInv PROVE LimiterTypes
    BY DEF TypeOK, PageInv, RequestTypes, BookTypes
  <2>1. ASSUME NEW l \in Limiters
        PROVE  /\ buckets[l] \in [count : 0..(MaxRequests[l] + 1), left : 0..Window]
               /\ buckets[l].left = 0 => buckets[l].count = 0
               /\ passed[l] \in [Ages -> Nat]
    BY DEF LimiterInv, WindowInv
  <2> QED
    BY <2>1 DEF LimiterTypes, LimiterInv
<1> QED
  BY <1>1, LimiterInductive, PagesInductive, PTL

(* A button is disabled exactly while the one request of its page is on its *)
(* way, and no spinner is left behind, for any number of requests, edits    *)
(* and failures (useMutation, useEstimate).                                 *)
THEOREM Honest == Spec => []SpinnersAreHonest
<1>1. PageInv => SpinnersAreHonest
  BY DEF PageInv
<1> QED
  BY <1>1, PagesInductive, PTL
=============================================================================
