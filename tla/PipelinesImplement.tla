------------------------- MODULE PipelinesImplement -------------------------
(***************************************************************************)
(* The concurrent pipelines, with whole positions redeemed, implement the  *)
(* position book: the refinement mapping reads the book off the ledger.    *)
(***************************************************************************)
EXTENDS PipelineProperties

MintTxs == {id \in Accepted : ledger[id].version = "mint"}

Entry(id) ==
  LET data == OpReturnData(ledger[id])
  IN  [cents |-> data.amounts[1], unlock |-> data.lockHeight]

OpenPositions == [id \in {m \in MintTxs : <<m, 0>> \notin SpentOuts} |-> Entry(id)]

ClosedPositions == {id \in MintTxs : <<id, 0>> \in SpentOuts}

Book == INSTANCE PositionBook WITH
  now    <- height,
  open   <- OpenPositions,
  closed <- ClosedPositions,
  supply <- DDIn(Unspent)

(***************************************************************************)
(* Redeems burn what their position minted: the caller leaves the amount   *)
(* out (RedeemRequest.ddAmountCents).  A redeem that burns less takes the  *)
(* whole collateral all the same, and the book would not balance.          *)
(***************************************************************************)
WholeRedeems == \A r \in RedeemRequests : r.burn = {}

(***************************************************************************)
(* What the wallet receives is plain coins and positions of its own: all   *)
(* DigiDollars it is given are backed by a position in the book.           *)
(***************************************************************************)
BackedOthers ==
  \A id \in Others :
    LET tx     == OtherTx[id]
        cents  == OpReturnData(tx).amounts[1]
        tokens == SumFunction([v \in Vouts(tx) |-> DDAmountCents(tx, v)])
    IN  /\ tx.version = "mint" => cents > 0 /\ tokens = cents
        /\ tx.version # "mint" => tokens = 0

(***************************************************************************)
(* Every behaviour of the pipelines, whatever they interleave and whenever *)
(* the node answers, is one of the book: no step issues DigiDollars        *)
(* without a position, burns more or less than the position it closes,     *)
(* closes one before its lock has expired, changes one or reopens one.     *)
(***************************************************************************)
ImplementsBook == Book!Spec
=============================================================================
