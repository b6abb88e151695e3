----------------------------- MODULE WireFormat -----------------------------
(***************************************************************************)
(* A transaction as the SDK writes it for the node: the broadcast format,  *)
(* the format its txid is the hash of, and the message that the signature  *)
(* of an input signs.  An amount, a version or an index is written with a  *)
(* fixed number of bytes, two's complement; a hash keeps what it hashes,   *)
(* which is as good as a hash without collisions.                          *)
(***************************************************************************)
EXTENDS Bytes

EncodeVarint(n) ==
  CASE n < Base - 3                      -> <<n>>
    [] n >= Base - 3 /\ n < Power[2]     -> <<Base - 3>> \o LE[2][n]
    [] n >= Power[2] /\ n < Power[4]     -> <<Base - 2>> \o LE[4][n]
    [] OTHER                             -> <<Base - 1>> \o LE[8][n]

Prefixed(bytes) == EncodeVarint(Len(bytes)) \o bytes

(* The concatenation of what Write returns for each element. *)
Each(s, Write(_)) == FlattenSeq([i \in DOMAIN s |-> Write(s[i])])

Outpoint(input) == Reverse(input.txid) \o LE[4][input.vout]

SerializeInput(input) ==
  Outpoint(input) \o Prefixed(input.scriptSig) \o LE[4][input.sequence]

SerializeOutput(output) == LE[8][output.value] \o Prefixed(output.scriptPubKey)

SerializeWitness(input) ==
  EncodeVarint(Len(input.witness)) \o Each(input.witness, Prefixed)

HasWitness(tx) == \E i \in DOMAIN tx.inputs : tx.inputs[i].witness # << >>

Body(tx) ==
  EncodeVarint(Len(tx.inputs)) \o Each(tx.inputs, SerializeInput)
    \o EncodeVarint(Len(tx.outputs)) \o Each(tx.outputs, SerializeOutput)

SerializeForTxid(tx) == LE[4][tx.version] \o Body(tx) \o LE[4][tx.locktime]

WitnessOfSigned(tx) ==                    \* mutant: unsigned inputs are skipped
  IF ~HasWitness(tx) THEN SerializeForTxid(tx)
  ELSE LE[4][tx.version] \o <<0, 1>> \o Body(tx)
         \o Each(SelectSeq(tx.inputs, LAMBDA input : input.witness # << >>),
                 SerializeWitness)
         \o LE[4][tx.locktime]

SerializeTransaction(tx) ==
  IF ~HasWitness(tx) THEN SerializeForTxid(tx)
  ELSE LE[4][tx.version] \o <<0, 1>> \o Body(tx)
         \o Each(tx.inputs, SerializeWitness) \o LE[4][tx.locktime]

----------------------------------------------------------------------------
(* Signing. *)

PrevoutByTxid(input, utxos) ==            \* mutant: the index is not compared
  utxos[CHOOSE j \in DOMAIN utxos :
          /\ utxos[j].txid = input.txid
          /\ \A k \in 1 .. j - 1 : utxos[k].txid # input.txid]

(* The first of the coins that has the outpoint of the input. *)
Prevout(input, utxos) ==
  LET Matches(j) == utxos[j].txid = input.txid /\ utxos[j].vout = input.vout
  IN  utxos[CHOOSE j \in DOMAIN utxos : Matches(j) /\ \A k \in 1 .. j - 1 : ~Matches(k)]

Prevouts(tx, utxos) == [i \in DOMAIN tx.inputs |-> Prevout(tx.inputs[i], utxos)]

Amount(coin) == LE[8][coin.value]

BareScript(coin) == coin.scriptPubKey     \* mutant: no length before the script

CoinScript(coin) == Prefixed(coin.scriptPubKey)

Sequence(input) == LE[4][input.sequence]

(* What a signature signs: a record of what is hashed.  `leafHash` holds the *)
(* hash of the leaf that is run, nothing when the key is used.               *)
Message(tx, index, prevouts, leafHash) ==
  [epoch         |-> 0,
   sighashType   |-> 0,
   version       |-> LE[4][tx.version],
   locktime      |-> LE[4][tx.locktime],
   prevouts      |-> Each(prevouts, Outpoint),
   amounts       |-> Each(prevouts, Amount),
   scriptPubKeys |-> Each(prevouts, CoinScript),
   sequences     |-> Each(tx.inputs, Sequence),
   outputs       |-> Each(tx.outputs, SerializeOutput),
   spendType     |-> IF leafHash = {} THEN 0 ELSE 1,
   index         |-> LE[4][index - 1],
   extension     |-> {[leaf |-> leaf, keyVersion |-> 0, codesep |-> LE[4][-1]] :
                        leaf \in leafHash}]

(* The message the node checks a signature against (BIP-341 and BIP-342): it *)
(* takes the coins from its own set, and spend_type is twice the extension   *)
(* flag when no annex is given.                                              *)
NodeMessage(tx, index, coins, leafHash) ==
  LET Coin(input) == coins[<<input.txid, input.vout>>]
      AmountOf(input) == Amount(Coin(input))
      ScriptOf(input) == LET script == Coin(input).scriptPubKey
                         IN  EncodeVarint(Len(script)) \o script
  IN  [epoch         |-> 0,
       sighashType   |-> 0,
       version       |-> LE[4][tx.version],
       locktime      |-> LE[4][tx.locktime],
       prevouts      |-> Each(tx.inputs, Outpoint),
       amounts       |-> Each(tx.inputs, AmountOf),
       scriptPubKeys |-> Each(tx.inputs, ScriptOf),
       sequences     |-> Each(tx.inputs, Sequence),
       outputs       |-> Each(tx.outputs, SerializeOutput),
       spendType     |-> IF leafHash = {} THEN 0 ELSE 2,
       index         |-> LE[4][index - 1],
       extension     |-> {[leaf |-> leaf, keyVersion |-> 0, codesep |-> LE[4][-1]] :
                            leaf \in leafHash}]
=============================================================================
