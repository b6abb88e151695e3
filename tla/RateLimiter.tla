---------------------------- MODULE RateLimiter ----------------------------
(***************************************************************************)
(* The rate limiters of the demo server, as requests of one address see    *)
(* them, and the order in which the routers are mounted: readLimiter stands *)
(* before each of the five read routers and writeLimiter before each of the *)
(* three write routers, so a request counts once for every router that it   *)
(* reaches until one of them handles it.                                    *)
(***************************************************************************)
EXTENDS Naturals

CONSTANTS
  Window,       \* the length of a window, in ticks of the clock
  MaxRequests   \* maxRequests of each limiter

Limiters == {"read", "write"}

ASSUME LimiterAssumption ==
  /\ Window \in Nat \ {0}
  /\ MaxRequests \in [Limiters -> Nat]

VARIABLES
  buckets,      \* count and time left until resetAt; no time left is no bucket
  passed        \* history: hits let through in this tick and the k before it

limiterVars == <<buckets, passed>>

Ages == 0..(Window - 1)

NoBucket == [count |-> 0, left |-> 0]

LimiterInit ==
  /\ buckets = [l \in Limiters |-> NoBucket]
  /\ passed = [l \in Limiters |-> [k \in Ages |-> 0]]

(* How often a limiter runs for a request. *)
ReadHits(kind) ==
  CASE kind = "status" -> 1
    [] kind = "balance" -> 2
    [] kind = "positions" -> 3
    [] kind = "address" -> 4
    [] OTHER -> 5

WriteHits(kind) ==
  CASE kind = "mint" -> 1
    [] kind = "transfer" -> 2
    [] kind = "redeem" -> 3
    [] OTHER -> 0

Bucket(l) ==
  IF buckets[l].left = 0 THEN [count |-> 0, left |-> Window] ELSE buckets[l]

Passes(l, hits) == Bucket(l).count + hits <= MaxRequests[l]

ForgetsCount(l, hits) ==                  \* mutant: a new bucket for each request
  [count |-> hits, left |-> 0]

(* The first hit above the maximum ends the request; later ones only raise a *)
(* count that is above the maximum already.                                 *)
Counted(l, hits) ==
  [Bucket(l) EXCEPT !.count =
     IF Passes(l, hits) THEN @ + hits ELSE MaxRequests[l] + 1]

ReadPasses(kind) == Passes("read", ReadHits(kind))

WriteReached(kind) == ReadPasses(kind) /\ WriteHits(kind) > 0

Admitted(kind) ==
  ReadPasses(kind) /\ (WriteReached(kind) => Passes("write", WriteHits(kind)))

LetThrough(l, hits) == [k \in Ages |-> passed[l][k] + hits]

(* A request passes through the limiters, as far as it gets. *)
Limits(kind) ==
  /\ buckets' =
       [buckets EXCEPT
          !["read"] = Counted("read", ReadHits(kind)),
          !["write"] = IF WriteReached(kind)
                       THEN Counted("write", WriteHits(kind)) ELSE @]
  /\ passed' =
       [passed EXCEPT
          !["read"] = IF ReadPasses(kind) THEN LetThrough("read", ReadHits(kind)) ELSE @,
          !["write"] = IF WriteReached(kind) /\ Passes("write", WriteHits(kind))
                       THEN LetThrough("write", WriteHits(kind)) ELSE @]

(* One tick. The cleanup timer only deletes buckets that count as none. *)
Elapses ==
  /\ buckets' = [l \in Limiters |->
                   IF buckets[l].left <= 1 THEN NoBucket
                   ELSE [buckets[l] EXCEPT !.left = @ - 1]]
  /\ passed' = [l \in Limiters |->
                  [k \in Ages |-> IF k = 0 THEN 0 ELSE passed[l][k - 1]]]

(* However the windows of the limiter fall, no period of the length of one  *)
(* window sees more than twice maxRequests hits let through: a full one at  *)
(* the end of a bucket and a full one at the start of the next              *)
(* (createLimiter: the bucket starts with its first request).               *)
SlidingBound == \A l \in Limiters : passed[l][Window - 1] <= 2 * MaxRequests[l]
=============================================================================
