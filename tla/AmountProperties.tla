-------------------------- MODULE AmountProperties --------------------------
(***************************************************************************)
(* What the arithmetic of coins, sizes, fees and prices promises.          *)
(***************************************************************************)
EXTENDS Sample, OracleWrapper

ASSUME CoinAssumption == COIN \in Nat \ {0}
Coins(utxos) == IsFiniteSet(utxos) /\ \A u \in utxos : u.value \in Nat

\* Coins as the node lists them, each outpoint once.
Listed(utxos) == Coins(utxos) /\ \A u, v \in utxos : u.out = v.out => u = v

ASSUME SamplesAssumption ==
  /\ MAX_TX_INPUTS \in Nat
  /\ \A s \in Samples["coins"] : Coins(s.utxos) /\ s.target \in Nat \ {0}
  /\ \A s \in Samples["size"] : s.inputs \in Nat /\ s.tokens \in Nat
  /\ \A s \in Samples["mint"] :
       /\ Listed(s.utxos)
       /\ s.req.feeRate \in Int /\ s.req.ddAmountCents \in Int /\ s.price \in Int
  /\ \A s \in Samples["transfer"] :
       /\ Listed(s.tokens \union s.utxos) /\ s.tokens \intersect s.utxos = {}
       /\ s.req.feeRate \in Int
       /\ s.req.recipients \in Seq({s.req.recipients[i] : i \in DOMAIN s.req.recipients})
  /\ \A s \in Samples["redeem"] :
       /\ Listed({s.collateral} \union s.tokens) /\ s.collateral \notin s.tokens
       /\ Listed(s.utxos) /\ s.req.feeRate \in Int
  /\ \A s \in Samples["price"] : s.cents \in Nat /\ s.ratio \in Nat /\ s.price \in Nat \ {0}
  /\ \A s \in Samples["decimal"] : s.dollars \in Nat /\ s.cents \in Nat
  /\ Samples["coin"] \subseteq Nat

Reaches(coins, target) == ValueOf(coins) >= target

(* selectCoins takes as few coins as can reach the target, and gives up     *)
(* only when no choice of coins within the limit does: largest first is     *)
(* never the reason why a mint is refused.                                  *)
SelectionIsBest ==
  Is("coins") =>
    LET choices  == SUBSET item.utxos
        selected == SelectCoins(item.utxos, item.target)
    IN  /\ \A chosen \in selected :
             /\ chosen \in choices /\ Reaches(chosen, item.target)
             /\ \A other \in choices :
                  Cardinality(other) < Cardinality(chosen) => ~Reaches(other, item.target)
        /\ selected = {} =>
             \A other \in choices :
               Reaches(other, item.target) => Cardinality(other) > MAX_TX_INPUTS

----------------------------------------------------------------------------
(* The size the node charges for (BIP-141), for the longest numbers the     *)
(* parser reads: eight bytes and their length.                              *)

CompactSize(n) ==                         \* 5 below 2^32: 9 is safe
  IF n < 253 THEN 1 ELSE IF n < 65536 THEN 3 ELSE 9

\* OP_RETURN, the marker and the type; numbers and keys with their lengths.
MetadataSize(numbers, keys) == 1 + 3 + 2 + 9 * numbers + 33 * keys

MetadataOutput(size) == 8 + CompactSize(size) + size

KeyPathWitnessSize == 1 + 65

\* The leaf is a number, two opcodes, a key and an opcode.
ScriptPathWitnessSize == 1 + 65 + (1 + 9 + 2 + 33 + 1) + 66

Vsize(keyPaths, scriptPaths, p2trs, metadataOutputs, metadata) ==
  LET inputs  == keyPaths + scriptPaths
      base    == 8 + CompactSize(inputs) + 41 * inputs
                   + CompactSize(p2trs + metadataOutputs) + 43 * p2trs + metadata
      witness == 2 + KeyPathWitnessSize * keyPaths + ScriptPathWitnessSize * scriptPaths
  IN  CeilDiv(4 * base + witness, 4)

(* The builders' estimates are at least the size of what they build, for    *)
(* any number of inputs and tokens: the margin makes up for the witness of  *)
(* a script path, metadata that grows with the recipients, and counts that  *)
(* need more than a byte (fee.ts).                                          *)
EstimateCovers ==
  Is("size") =>
    LET n == item.inputs
        k == item.tokens
    IN  /\ Vsize(n, 0, 3, 1, MetadataOutput(MetadataSize(3, 1))) <= EstimateVsize(n, 4, 1)
        /\ Vsize(n, 0, k + 1, 1, MetadataOutput(MetadataSize(k, 0)))
             <= EstimateVsize(n, k + 2, 1)
        /\ Vsize(n, 1, 3, 1, MetadataOutput(MetadataSize(1, 0)))
             <= EstimateVsize(n + 1, 4, 1)
        /\ Vsize(n, 1, 2, 0, 0) <= EstimateVsize(n + 1, 2, 0)

ScriptPaths(tx) == IF tx.version = "redeem" THEN 1 ELSE 0

MetadataVouts(tx) == {v \in Vouts(tx) : ~IsP2TR(Output(tx, v))}

MetadataOf(tx, v) ==
  LET numbers == Len(Output(tx, v).script.data.amounts)
  IN  MetadataOutput(IF tx.version = "mint" THEN MetadataSize(numbers + 2, 1)
                     ELSE MetadataSize(numbers, 0))

VsizeOf(tx) ==
  Vsize(Cardinality(tx.inputs) - ScriptPaths(tx), ScriptPaths(tx),
        Cardinality(Vouts(tx) \ MetadataVouts(tx)), Cardinality(MetadataVouts(tx)),
        SumFunction([v \in MetadataVouts(tx) |-> MetadataOf(tx, v)]))

Owner == PubKey(Wallet)
Payee == TokenP2TR(Owner)

Builds ==
  CASE Is("mint") ->
         MintBuilds(item.req, item.price, item.height, item.utxos, Owner, Payee)
    [] Is("transfer") ->
         TransferBuilds(item.req, item.tokens, item.utxos, Owner, Payee)
    [] Is("redeem") ->
         RedeemBuilds(item.cents, item.unlockHeight, item.unlockHeight, item.collateral,
                      item.tokens, item.utxos, item.req.feeRate, Owner, Payee)
    [] OTHER -> {}

Floor == IF Is("redeem") THEN MIN_REDEEM_FEE ELSE MIN_DD_FEE

(* Whatever the coins, a transaction pays the fee rate that was asked for   *)
(* its real size or the minimum fee if that is more, and but for dust no    *)
(* more than twice that; a transfer pays for a change output whether it has *)
(* one or not.  A mint of more than six inputs may pay less than its rate,  *)
(* though no less than for the estimated size of three.                     *)
FeesAreFair ==
  \A b \in Builds :
    LET rate  == item.req.feeRate
        size  == VsizeOf(b.tx)
        spare == IF Is("transfer") THEN 43 ELSE 0
        Due(vsize) == Max({Floor, rate * vsize})
    IN  /\ Is("mint") /\ Cardinality(b.tx.inputs) > 6
             => b.fee >= rate * EstimateVsize(3, 4, 1)
        /\ ~(Is("mint") /\ Cardinality(b.tx.inputs) > 6) => b.fee >= Due(size)
        /\ b.fee < 2 * Due(size + spare) + DUST_THRESHOLD

----------------------------------------------------------------------------
(* Prices. *)

Backs(sats, price, cents) ==              \* worth that many cents, or one less
  SatsToDDCents(sats, price) \in {cents - 1, cents}

(* At any price up to a million dollars, cents that are turned into sats    *)
(* and back lose at most one and never gain (OracleWrapper), and the        *)
(* collateral of a mint is worth, by the same conversion, the tier's ratio  *)
(* of the tokens: the two formulas, in two packages, agree.                 *)
ConversionsAgree ==
  Is("price") =>
    LET cents == item.cents
        price == item.price
    IN  price <= COIN * 10000 =>
          /\ Backs(DdToSats(cents, price), price, cents)
          /\ Backs(CollateralSats(cents, price, item.ratio), price,
                   (cents * item.ratio) \div 100)

(* What the node writes as a decimal fraction survives the binary one, with *)
(* the rounding errors of a division and a product: the cents of a redeem   *)
(* are the position's, in dollars and two digits, and the sats of a coin,   *)
(* which the builders balance and every signature commits to, are those of  *)
(* its DGB; both up to a quarter of what a number can count.                *)
AmountsSurvive ==
  LET counted == 2^(Precision - 2)
  IN  /\ Is("decimal") =>
           LET cents == item.dollars * 100 + item.cents
           IN  cents < counted => DdMintedCents(item) = cents
      /\ Is("coin") /\ item < counted => DgbToSats(item) = item
=============================================================================
