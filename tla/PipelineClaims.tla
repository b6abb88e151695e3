--------------------------- MODULE PipelineClaims ---------------------------
(***************************************************************************)
(* Statements of the repository's comments and types which the code does   *)
(* not keep.  Each is refuted by a run of its own.                         *)
(***************************************************************************)
EXTENDS PipelinesImplement

(***************************************************************************)
(* "DD collateral UTXOs -- locked DGB backing positions"                   *)
(* (packages/core/src/utxo/types.ts:9): whatever the SDK puts aside as     *)
(* collateral is time-locked.                                              *)
(***************************************************************************)
CollateralIsLocked ==
  \A u \in Classified("dd_collateral") : OutputOf(u.out).script.leaves # {}

(***************************************************************************)
(* "Whether the full position was closed"                                  *)
(* (packages/core/src/pipeline/types.ts:79): a redeem that took the        *)
(* collateral of a position reports the position closed.                   *)
(***************************************************************************)
ClosedIsReported ==
  \A c \in RedeemCalls :
     pc[c] = "done" => (PositionClosed(c) <=> <<req[c].positionId, 0>> \in SpentOuts)

(***************************************************************************)
(* "Compute sighashes (script-path for collateral, key-path for others)",  *)
(* "Sign + inject witness" (packages/core/src/pipeline/redeem.ts:10-11)    *)
(* with the "default BIP86Signer (BIP-86 Taproot HD)" (README.md:215):     *)
(* every input sent to the node has a signature that verifies.             *)
(***************************************************************************)
SignaturesVerify ==
  \A c \in Calls : wire[c] = "toNode" => Overtaken(c) \/ InputsSigned(c)

(***************************************************************************)
(* "Recipient's bech32m address" (packages/core/src/pipeline/types.ts:29): *)
(* the tokens of a recipient go to the script of the recipient's address.  *)
(***************************************************************************)
RecipientsArePaid ==
  \A c \in TransferCalls :
     Sent(c) =>
       \A i \in DOMAIN req[c].recipients :
          Output(sent[c].tx, i - 1).script = ScriptOfAddress(req[c].recipients[i].to)
=============================================================================
