---------------------------- MODULE PositionBook ----------------------------
(***************************************************************************)
(* What the SDK's users are promised, without transactions: a book of      *)
(* positions and a supply of DigiDollars.  Minting opens a position and    *)
(* issues its amount; redeeming closes one whose lock has expired and      *)
(* burns exactly that amount; transfers, failed calls and timeouts leave   *)
(* no trace.  An entry never changes; a position closes once and never     *)
(* reopens; and the supply is always what the open positions back.         *)
(***************************************************************************)
EXTENDS Naturals, FiniteSetsExt

VARIABLES
  now,       \* the height of the chain
  open,      \* open positions: id -> [cents, unlock]
  closed,    \* ids of closed positions
  supply     \* DigiDollar cents in existence

vars == <<now, open, closed, supply>>

Init ==
  /\ now = 0
  /\ closed = {}
  /\ supply = SumFunction([id \in DOMAIN open |-> open[id].cents])

(***************************************************************************)
(* The lock of a new position may lie in the past: a mint may be accepted  *)
(* long after it read the height.                                          *)
(***************************************************************************)
Open ==
  /\ now' = now /\ closed' = closed
  /\ \E id \in DOMAIN open' \ (DOMAIN open \union closed) :
        /\ open'[id].cents > 0
        /\ open' = [p \in DOMAIN open \union {id} |->
                      IF p = id THEN open'[id] ELSE open[p]]
        /\ supply' = supply + open'[id].cents

Close ==
  /\ now' = now
  /\ \E id \in DOMAIN open :
        /\ open[id].unlock <= now
        /\ closed' = closed \union {id}
        /\ open' = [p \in DOMAIN open \ {id} |-> open[p]]
        /\ supply' = supply - open[id].cents

Tick ==
  /\ now' = now + 1
  /\ open' = open /\ closed' = closed /\ supply' = supply

Next == Open \/ Close \/ Tick

Spec == Init /\ [][Next]_vars
=============================================================================
