------------------------------ MODULE TxParser ------------------------------
(***************************************************************************)
(* packages/tx-parser: telling the outputs of a transaction apart.         *)
(*                                                                         *)
(* A transaction is a record with a version ("plain" for anything that is  *)
(* not a DigiDollar transaction), its inputs, the sequence of its outputs  *)
(* and a locktime.  An output has a value in sats and a script; output     *)
(* number vout of the code is element vout + 1 of the sequence.            *)
(***************************************************************************)
EXTENDS Integers, Sequences, FiniteSets

OpReturn(data) == [type |-> "op_return", data |-> data]

IsDigiDollarTx(tx) == tx.version # "plain"

IsP2TR(output)  == output.script.type = "p2tr"
IsToken(output) == IsP2TR(output) /\ output.value = 0

Vouts(tx) == 0 .. Len(tx.outputs) - 1

Output(tx, vout) == tx.outputs[vout + 1]

(***************************************************************************)
(* What parseOpReturn accepts: an OP_RETURN with the DD marker and the     *)
(* payload of its type.  Transfers need one amount at least.               *)
(***************************************************************************)
Parses(output) ==
  output.script.type = "op_return" /\ output.script.data.amounts # << >>

(***************************************************************************)
(* classifyTransaction reads the first output that parses, if there is one.*)
(***************************************************************************)
MetadataVout(tx) ==
  {v \in Vouts(tx) : /\ Parses(Output(tx, v))
                     /\ \A w \in 0 .. v - 1 : ~Parses(Output(tx, w))}

OpReturnData(tx) ==
  Output(tx, CHOOSE v \in MetadataVout(tx) : TRUE).script.data

TokenIndexFromOne(tx, vout) ==            \* mutant: counted before it is used
  Cardinality({v \in Vouts(tx) : v <= vout /\ IsToken(Output(tx, v))})

(***************************************************************************)
(* ddTokenIndex: how many zero-value P2TR outputs come before vout.        *)
(***************************************************************************)
TokenIndex(tx, vout) ==
  Cardinality({v \in Vouts(tx) : v < vout /\ IsToken(Output(tx, v))})

ClassifyTokensOnly(tx, vout) ==           \* mutant: no class for collateral
  CASE IsDigiDollarTx(tx) /\ Output(tx, vout).script.type = "op_return" -> "dd_metadata"
    [] IsDigiDollarTx(tx) /\ IsToken(Output(tx, vout))                  -> "dd_token"
    [] OTHER                                                            -> "standard"

(***************************************************************************)
(* The class of an output.  The script of a DigiDollar change output is    *)
(* P2TR as well, so "dd_collateral" takes in more than collateral.         *)
(***************************************************************************)
Classify(tx, vout) ==
  LET output == Output(tx, vout)
  IN  CASE ~IsDigiDollarTx(tx)               -> "standard"
        [] IsDigiDollarTx(tx) /\ output.script.type = "op_return"
                                             -> "dd_metadata"
        [] IsDigiDollarTx(tx) /\ IsToken(output)
                                             -> "dd_token"
        [] IsDigiDollarTx(tx) /\ IsP2TR(output) /\ output.value > 0
                                             -> "dd_collateral"
        [] OTHER                             -> "standard"

(***************************************************************************)
(* ddAmountCents of a token output; UTXOManager reads an undefined amount  *)
(* as zero.  A transfer's amounts belong to its tokens by position, a      *)
(* mint's or redeem's single amount to its first token.                    *)
(***************************************************************************)
DDAmountCents(tx, vout) ==
  LET amounts == OpReturnData(tx).amounts
      index   == TokenIndex(tx, vout)
  IN  CASE Classify(tx, vout) # "dd_token" \/ MetadataVout(tx) = {} -> 0
        [] OTHER -> IF /\ OpReturnData(tx).txType = "transfer" \/ index = 0
                       /\ index < Len(amounts)
                    THEN amounts[index + 1]
                    ELSE 0
=============================================================================
