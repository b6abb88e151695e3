----------------------------- MODULE TxBuilder -----------------------------
(***************************************************************************)
(* packages/tx-builder: the fee estimate, the collateral formula, coin     *)
(* selection and the three builders, with the coin choice of the pipelines.*)
(*                                                                         *)
(* A builder is modelled as the set of results it may return: a choice     *)
(* among equal coins is settled by the order in which the node lists them, *)
(* which the SDK does not control.  The empty set stands for a thrown      *)
(* error.  A UTXO is [out, value, cents], out being <<txid, vout>>.        *)
(***************************************************************************)
EXTENDS Taproot, TxParser, FiniteSetsExt

CONSTANTS
  LOCK_TIERS,        \* tier -> [blocks, ratio]
  COIN,              \* sats per DGB, in the unit of the instance
  MAX_MONEY,
  MAX_TX_INPUTS

ASSUME TiersAssumption ==
  \A t \in DOMAIN LOCK_TIERS :
     LOCK_TIERS[t].blocks \in Nat \ {0} /\ LOCK_TIERS[t].ratio \in Nat \ {0}

MIN_DD_FEE     == 10000000
MIN_REDEEM_FEE == 50000
DUST_THRESHOLD == 1000
MIN_FEE_RATE   == 100
MAX_FEE_RATE   == 100000

ValueOf(utxos) == SumFunction([u \in utxos |-> u.value])
CentsOf(utxos) == SumFunction([u \in utxos |-> u.cents])

CeilDiv(a, b) == (a + b - 1) \div b

(***************************************************************************)
(* Math.ceil(vsize * 1.35).  The double next to 1.35 is larger by 0.8 of   *)
(* half a unit in its last place, which lifts some whole products.         *)
(***************************************************************************)
IsLifted(vsize, product) ==
  /\ vsize % 20 = 0
  /\ \E k \in 0 .. 24 : 2^k <= product /\ product < 2^(k + 1) /\ 4 * vsize > 5 * 2^k

WithSafetyMargin(vsize) ==
  LET product == CeilDiv(vsize * 135, 100)
  IN  IF IsLifted(vsize, product) THEN product + 1 ELSE product

EstimateWithoutWitness(inputs, outputs, opReturns) ==   \* mutant: no signatures
  WithSafetyMargin(12 + inputs * 41 + (outputs - opReturns) * 43 + opReturns * 69)

EstimateWithoutMargin(inputs, outputs, opReturns) ==    \* mutant: no 35%
  CeilDiv((12 + inputs * 41 + (outputs - opReturns) * 43 + opReturns * 69) * 4
            + inputs * 110, 4)

(***************************************************************************)
(* estimateVsize: 12 bytes of overhead, 41 per input, 43 per plain output  *)
(* and 69 per OP_RETURN; 110 witness bytes per input count a quarter; then *)
(* the 35% margin.  The third argument of the code is not used by it.      *)
(***************************************************************************)
EstimateVsize(inputs, outputs, opReturns) ==
  LET base == 12 + inputs * 41 + (outputs - opReturns) * 43 + opReturns * 69
  IN  WithSafetyMargin(CeilDiv(base * 3 + base + inputs * 110, 4))

FeeRateOK(rate) == MIN_FEE_RATE <= rate /\ rate <= MAX_FEE_RATE

CalculateFee(vsize, rate) == vsize * rate

CollateralSats(cents, price, ratio) == (cents * COIN * ratio * 100) \div price

----------------------------------------------------------------------------
(***************************************************************************)
(* Taking coins largest first until the target is met.  S is such a prefix *)
(* when nothing left out is larger than something taken, the target is met *)
(* and it was not met before the last coin, one of the smallest, was added.*)
(***************************************************************************)
LargestFirst(coins, unit, target) ==          \* unit: the field that is added up
  {S \in (SUBSET coins) \ {{}} :
     LET total == SumFunction([u \in S |-> u[unit]])
     IN  /\ \A u \in S, v \in coins \ S : v[unit] <= u[unit]
         /\ total >= target
         /\ \A u \in S :
              (\A v \in S : u[unit] <= v[unit])
                 => S = {u} \/ total - u[unit] < target}

SelectAllCoins(utxos, target) ==          \* mutant: a shortfall is no error
  {{u \in utxos : u.value > 0}}

SelectCoins(utxos, target) ==
  {S \in LargestFirst({u \in utxos : u.value > 0}, "value", target) :
     Cardinality(S) <= MAX_TX_INPUTS}

(***************************************************************************)
(* selectDDUtxos, which both DD pipelines call after they have checked     *)
(* that all tokens together reach the target.                              *)
(***************************************************************************)
SelectDD(tokens, target) == LargestFirst(tokens, "cents", target)

----------------------------------------------------------------------------
FinalInputs(utxos, sequence) ==           \* mutant: one sequence for all inputs
  {[out |-> u.out, sequence |-> "FINAL"] : u \in utxos}

Inputs(utxos, sequence) == {[out |-> u.out, sequence |-> sequence] : u \in utxos}

Paying(value, script) == [value |-> value, script |-> script]

Metadata(data) == Paying(0, OpReturn(data))

FeeBeforeDust(fee, change) == fee         \* mutant: absorbed dust not reported

(***************************************************************************)
(* The change rule of the builders: change below the dust threshold is     *)
(* left to the miner and reported as fee.                                  *)
(***************************************************************************)
ChangeOutputs(change, script) ==
  IF change >= DUST_THRESHOLD THEN <<Paying(change, script)>> ELSE << >>

FeePaid(fee, change) == IF change >= DUST_THRESHOLD THEN fee ELSE fee + change

(***************************************************************************)
(* MintBuilder.build.  The fee used to pick coins assumes three inputs;    *)
(* the fee charged counts the coins picked.  A shortfall between the two   *)
(* is not an error: the change is then below dust, even negative.          *)
(***************************************************************************)
MintTarget(collateral, rate) ==
  collateral + Max({MIN_DD_FEE, CalculateFee(EstimateVsize(3, 4, 1), rate)})

MintFee(coins, rate) ==
  Max({MIN_DD_FEE, CalculateFee(EstimateVsize(Cardinality(coins), 4, 1), rate)})

MintTx(req, coins, collateral, lockHeight, owner, changeScript) ==
  LET fee    == MintFee(coins, req.feeRate)
      change == ValueOf(coins) - collateral - fee
      data   == [txType |-> "mint", amounts |-> <<req.ddAmountCents>>,
                 lockHeight |-> lockHeight, lockTier |-> req.lockTier]
  IN  [tx  |-> [version  |-> "mint",
                inputs   |-> Inputs(coins, "FINAL"),
                outputs  |-> <<Paying(collateral, CollateralMAST(owner, lockHeight)),
                               Paying(0, TokenP2TR(owner)),
                               Metadata(data)>>
                             \o ChangeOutputs(change, changeScript),
                locktime |-> 0],
       fee |-> FeePaid(fee, change)]

MintBuilds(req, price, height, utxos, owner, changeScript) ==
  LET tier       == LOCK_TIERS[req.lockTier]
      collateral == CollateralSats(req.ddAmountCents, price, tier.ratio)
  IN  IF /\ req.ddAmountCents > 0
         /\ req.lockTier \in DOMAIN LOCK_TIERS
         /\ price > 0
         /\ collateral <= MAX_MONEY
         /\ FeeRateOK(req.feeRate)
      THEN {MintTx(req, coins, collateral, height + tier.blocks, owner, changeScript) :
              coins \in SelectCoins(utxos, MintTarget(collateral, req.feeRate))}
      ELSE {}

----------------------------------------------------------------------------
(***************************************************************************)
(* TransferBuilder.build.  Every standard UTXO becomes a fee input.        *)
(* Recipients are [to, cents]: the witness program of the address is used  *)
(* as the recipient's key, which the token script tweaks.                  *)
(***************************************************************************)
RecipientCents(recipients) ==
  SumFunction([i \in DOMAIN recipients |-> recipients[i].cents])

ChangeAmountFirst(recipients, back) ==    \* mutant: amounts in another order
  back \o [i \in DOMAIN recipients |-> recipients[i].cents]

\* ddAmountsForOpReturn: one amount per token output, in their order.
TokenAmounts(recipients, back) ==
  [i \in DOMAIN recipients |-> recipients[i].cents] \o back

TransferTx(req, tokens, feeUtxos, owner, changeScript) ==
  LET ddChange  == CentsOf(tokens) - RecipientCents(req.recipients)
      back      == IF ddChange > 0 THEN <<ddChange>> ELSE << >>
      cents     == TokenAmounts(req.recipients, back)
      toOthers  == [i \in DOMAIN req.recipients |->
                      Paying(0, TokenP2TR(DecodeAddress(req.recipients[i].to)))]
      toSelf    == [i \in DOMAIN back |-> Paying(0, TokenP2TR(owner))]
      n         == Cardinality(tokens) + Cardinality(feeUtxos)
      fee       == Max({MIN_DD_FEE,
                        CalculateFee(EstimateVsize(n, Len(cents) + 2, 1), req.feeRate)})
      change    == ValueOf(feeUtxos) - fee
  IN  [tx     |-> [version  |-> "transfer",
                   inputs   |-> Inputs(tokens \union feeUtxos, "FINAL"),
                   outputs  |-> toOthers \o toSelf
                                \o ChangeOutputs(change, changeScript)
                                \o <<Metadata([txType |-> "transfer", amounts |-> cents])>>,
                   locktime |-> 0],
       fee    |-> FeePaid(fee, change),
       change |-> change]

TransferBuilds(req, ddTokens, feeUtxos, owner, changeScript) ==
  IF /\ req.recipients # << >>
     /\ \A i \in DOMAIN req.recipients : req.recipients[i].cents > 0
     /\ FeeRateOK(req.feeRate)
  THEN {b \in {TransferTx(req, tokens, feeUtxos, owner, changeScript) :
                 tokens \in SelectDD(ddTokens, RecipientCents(req.recipients))} :
          b.change >= 0}
  ELSE {}

----------------------------------------------------------------------------
ChangeWithoutMetadata(ddChange, owner) == \* mutant: the amount is not recorded
  IF ddChange > 0 THEN <<Paying(0, TokenP2TR(owner))>> ELSE << >>

(***************************************************************************)
(* What a redeem gives back of the DD it spends: a token and the metadata  *)
(* that tells its amount.                                                  *)
(***************************************************************************)
DDChangeOutputs(ddChange, owner) ==
  IF ddChange > 0
  THEN <<Paying(0, TokenP2TR(owner)),
         Metadata([txType |-> "redeem", amounts |-> <<ddChange>>])>>
  ELSE << >>

(***************************************************************************)
(* RedeemBuilder.build.  The whole collateral goes back to the wallet,     *)
(* whatever part of the position's DD is burned.                           *)
(***************************************************************************)
RedeemTx(cents, unlockHeight, collateral, tokens, feeUtxos, feeRate, owner, changeScript) ==
  LET ddChange == CentsOf(tokens) - cents
      back     == DDChangeOutputs(ddChange, owner)
      n        == 1 + Cardinality(tokens) + Cardinality(feeUtxos)
      vsize    == EstimateVsize(n, Len(back) + 2, IF ddChange > 0 THEN 1 ELSE 0)
      fee      == Max({MIN_REDEEM_FEE, CalculateFee(vsize, feeRate)})
      change   == ValueOf(feeUtxos) - fee
  IN  [tx     |-> [version  |-> "redeem",
                   inputs   |-> Inputs({collateral} \union tokens, "CLTV_ENABLED")
                                \union Inputs(feeUtxos, "FINAL"),
                   outputs  |-> <<Paying(collateral.value, changeScript)>> \o back
                                \o ChangeOutputs(change, changeScript),
                   locktime |-> unlockHeight],
       fee    |-> FeePaid(fee, change),
       change |-> change]

RedeemBuilds(cents, height, unlockHeight, collateral, ddTokens, fees, feeRate, owner, dest) ==
  IF /\ cents > 0
     /\ height >= unlockHeight
     /\ collateral.value > 0
     /\ FeeRateOK(feeRate)
  THEN {b \in {RedeemTx(cents, unlockHeight, collateral, tokens, fees, feeRate,
                        owner, dest) :
                 tokens \in SelectDD(ddTokens, cents)} :
          b.change >= 0}
  ELSE {}
=============================================================================
