-------------------------- MODULE CodecProperties --------------------------
(***************************************************************************)
(* What the encodings promise, over samples of what they encode: numbers,  *)
(* byte strings, metadata, transactions, and inputs to sign, which are     *)
(* [tx, index, utxos, leafHash].                                           *)
(***************************************************************************)
EXTENDS Sample, Script, WireFormat

Spends == Samples["spend"]

OutpointOf(coin) == <<coin.txid, coin.vout>>

\* Nothing is longer than four bytes can say.
Short == {s \in Seq(Byte) : Len(s) < Power[4]}

(* What the builders encode: numbers of at most eight bytes, none of the      *)
(* amounts of a transfer zero, and keys of the length of a hash.              *)
Encodable(n) == n \in Int /\ Len(EncodeScriptNum(n)) <= MaxNumSize

MintData(m) ==
  /\ m \in [txType : {"mint"}, ddAmountCents : Int, lockHeight : Int, lockTier : Int,
            ownerPubKey : Seq(Byte)]
  /\ Encodable(m.ddAmountCents) /\ Encodable(m.lockHeight) /\ Encodable(m.lockTier)
  /\ Len(m.ownerPubKey) = HashSize

TransferData(m) ==
  /\ m \in [txType : {"transfer"}, amounts : Seq(Int \ {0})]
  /\ m.amounts # << >>
  /\ \A i \in DOMAIN m.amounts : Encodable(m.amounts[i])

RedeemData(m) ==
  m \in [txType : {"redeem"}, ddAmountCents : Int] /\ Encodable(m.ddAmountCents)

(* The transactions: every field fits into the bytes it is written with.      *)
Unsigned(width) == {n \in Nat : n < Power[width]}

Signed(width) == {n \in Int : -Power[width] <= 2 * n /\ 2 * n < Power[width]}

Txids == {s \in Seq(Byte) : Len(s) = HashSize}

InputData ==
  [txid : Txids, vout : Unsigned(4), scriptSig : Short, sequence : Unsigned(4),
   witness : {w \in Seq(Short) : Len(w) < Power[4]}]

OutputData == [value : Signed(8), scriptPubKey : Short]

CoinData == [txid : Txids, vout : Unsigned(4), value : Signed(8), scriptPubKey : Short]

TxData ==
  {tx \in [version : Signed(4), locktime : Unsigned(4), inputs : Seq(InputData),
           outputs : Seq(OutputData)] :
     tx.inputs # << >> /\ Len(tx.inputs) < Power[4] /\ Len(tx.outputs) < Power[4]}

ASSUME EncodedAssumption ==
  /\ Samples["number"] \subseteq Int
  /\ Samples["string"] \subseteq Short
  /\ HashSize < Power[4]
  /\ \A m \in Samples["metadata"] : MintData(m) \/ TransferData(m) \/ RedeemData(m)
  /\ Samples["tx"] \subseteq TxData

\* Every input spends one of the coins, and the node lists no coin twice.
ASSUME SpendsAssumption ==
  \A spend \in Spends :
    /\ spend.tx \in TxData /\ spend.index \in DOMAIN spend.tx.inputs
    /\ spend.utxos \in Seq(CoinData)
    /\ \A j, k \in DOMAIN spend.utxos :
         OutpointOf(spend.utxos[j]) = OutpointOf(spend.utxos[k]) => j = k
    /\ \A i \in DOMAIN spend.tx.inputs : \E j \in DOMAIN spend.utxos :
         OutpointOf(spend.utxos[j]) = OutpointOf(spend.tx.inputs[i])

----------------------------------------------------------------------------
(* A number is read back as it was written if its encoding has at most eight *)
(* bytes, and no shorter string stands for the same number: encodeScriptNum  *)
(* and decodeScriptNum of tx-parser.  A sign that lands on the highest bit   *)
(* of the magnitude needs a byte of its own.                                 *)
NumbersSurvive ==
  /\ Is("number") =>
       DecodeScriptNum(EncodeScriptNum(item)) =
         {n \in {item} : Len(EncodeScriptNum(item)) <= MaxNumSize}
  /\ Is("string") =>
       \A n \in DecodeScriptNum(item) : Len(EncodeScriptNum(n)) <= Len(item)

(* iterScript of tx-parser reads back what pushData of tx-builder pushed, and *)
(* finds the operation after it, whatever the length of the data: the two     *)
(* sides agree where one form of push ends and the next begins.               *)
PushesAreRead ==
  Is("string") =>
    LET ops == Ops[PushData(item) \o <<OP_RETURN>>]
    IN  /\ Len(ops) = 2
        /\ ops[1].data = {item}
        /\ ops[2] = [opcode |-> OP_RETURN, data |-> {}]

(* parseOpReturn is the inverse of the encoders of the three kinds of        *)
(* metadata for what the builders encode: op-return-encode.ts:2.             *)
EncodeOpReturn(m) ==
  CASE m.txType = "mint"     -> EncodeMintOpReturn(m)
    [] m.txType = "transfer" -> EncodeTransferOpReturn(m)
    [] m.txType = "redeem"   -> EncodeRedeemOpReturn(m)

MetadataSurvives ==
  Is("metadata") => ParseOpReturn(EncodeOpReturn(item)) = {item}

----------------------------------------------------------------------------
(* A reader of the node's transaction format.  It goes over the bytes with a *)
(* cursor, and reads less when they end early.                               *)
Read(value, rest) == [value |-> value, rest |-> rest]

Drop(bytes, n) == SubSeq(bytes, n + 1, Len(bytes))

Take(bytes, n) == SubSeq(bytes, 1, IF n < Len(bytes) THEN n ELSE Len(bytes))

ReadNumber(width, bytes) == Read(Value[Take(bytes, width)], Drop(bytes, width))

ReadSigned(width, bytes) ==
  LET number == ReadNumber(width, bytes)
  IN  IF number.value < Power[width] \div 2 THEN number
      ELSE [number EXCEPT !.value = @ - Power[width]]

ReadVarint[bytes \in Seq(Byte)] ==
  CASE Take(bytes, 1) = <<Base - 3>> -> ReadNumber(2, Tail(bytes))
    [] Take(bytes, 1) = <<Base - 2>> -> ReadNumber(4, Tail(bytes))
    [] Take(bytes, 1) = <<Base - 1>> -> ReadNumber(8, Tail(bytes))
    [] OTHER -> ReadNumber(1, bytes)

ReadPrefixed[bytes \in Seq(Byte)] ==
  LET length == ReadVarint[bytes]
  IN  Read(Take(length.rest, length.value), Drop(length.rest, length.value))

(* `count` times what the function `readOne` reads. *)
Times(count, readOne, bytes) ==
  LET read[n \in 0 .. count] ==
        IF n = 0 THEN Read(<< >>, bytes)
        ELSE LET one == readOne[read[n - 1].rest]
             IN  Read(Append(read[n - 1].value, one.value), one.rest)
  IN  read[count]

ReadMany(readOne, bytes) ==
  LET count == ReadVarint[bytes] IN Times(count.value, readOne, count.rest)

ReadInput[bytes \in Seq(Byte)] ==
  LET vout     == ReadNumber(4, Drop(bytes, HashSize))
      script   == ReadPrefixed[vout.rest]
      sequence == ReadNumber(4, script.rest)
  IN  Read([txid |-> Reverse(Take(bytes, HashSize)), vout |-> vout.value,
            scriptSig |-> script.value, sequence |-> sequence.value,
            witness |-> << >>], sequence.rest)

ReadOutput[bytes \in Seq(Byte)] ==
  LET value  == ReadSigned(8, bytes)
      script == ReadPrefixed[value.rest]
  IN  Read([value |-> value.value, scriptPubKey |-> script.value], script.rest)

ReadWitness[bytes \in Seq(Byte)] == ReadMany(ReadPrefixed, bytes)

ReadTx(bytes) ==
  LET version   == ReadSigned(4, bytes)
      segwit    == Take(version.rest, 2) = <<0, 1>>
      inputs    == ReadMany(ReadInput, Drop(version.rest, IF segwit THEN 2 ELSE 0))
      outputs   == ReadMany(ReadOutput, inputs.rest)
      count     == Len(inputs.value)
      witnesses == IF segwit THEN Times(count, ReadWitness, outputs.rest)
                   ELSE Read([i \in 1 .. count |-> << >>], outputs.rest)
      locktime  == ReadNumber(4, witnesses.rest)
  IN  Read([version |-> version.value, locktime |-> locktime.value,
            outputs |-> outputs.value,
            inputs |-> [i \in 1 .. count |->
                          [inputs.value[i] EXCEPT !.witness = witnesses.value[i]]]],
           locktime.rest)

WithoutWitnesses(tx) ==
  [tx EXCEPT !.inputs = [i \in DOMAIN tx.inputs |->
                           [tx.inputs[i] EXCEPT !.witness = << >>]]]

(* The node reads, from the bytes that serializeTransaction returns, the      *)
(* transaction that was built, to the last byte and with every witness at its *)
(* input; and what the txid is a hash of is that transaction without its      *)
(* witnesses.  Some inputs may have a witness and others none, and lengths    *)
(* and counts may be where one form of CompactSize ends.                      *)
NodeReadsTx ==
  Is("tx") => /\ ReadTx(SerializeTransaction(item)) = Read(item, << >>)
              /\ ReadTx(SerializeForTxid(item)) = Read(WithoutWitnesses(item), << >>)

----------------------------------------------------------------------------
(* The coins of the node, by outpoint. *)
CoinsOf(utxos) ==
  [outpoint \in {OutpointOf(utxos[j]) : j \in DOMAIN utxos} |->
     utxos[CHOOSE j \in DOMAIN utxos : OutpointOf(utxos[j]) = outpoint]]

MessageOf(spend) ==
  Message(spend.tx, spend.index, Prevouts(spend.tx, spend.utxos), spend.leafHash)

NodeMessageOf(spend) ==
  NodeMessage(spend.tx, spend.index, CoinsOf(spend.utxos), spend.leafHash)

(* For a spend with the key, what computeTaprootSighash hashes, over the      *)
(* prevouts the pipelines collect from their coins, is what the node hashes,  *)
(* whatever the order of the coins and however many are not spent.            *)
KeyPathAgrees ==
  Is("spend") /\ item.leafHash = {} => MessageOf(item) = NodeMessageOf(item)

(* What a signature is about. *)
Committed(spend) ==
  [version  |-> spend.tx.version, locktime |-> spend.tx.locktime,
   inputs   |-> [i \in DOMAIN spend.tx.inputs |->
                   <<Prevout(spend.tx.inputs[i], spend.utxos),
                     spend.tx.inputs[i].sequence>>],
   outputs  |-> spend.tx.outputs, index |-> spend.index, leafHash |-> spend.leafHash]

(* A signature is good for one spend: two spends with the same message spend  *)
(* the same coins, with their amounts and scripts, into the same outputs, at  *)
(* the same input and with the same leaf.                                     *)
MessageBinds ==
  Is("spend") =>
    \A other \in Spends :
       MessageOf(other) = MessageOf(item) => Committed(other) = Committed(item)

(* "BIP-341 Taproot sighash computation." (sighash.ts:2), of the script path  *)
(* as of the key path: what the SDK hashes for a spend through a leaf is what *)
(* the node hashes.                                                           *)
ScriptPathAgrees ==
  Is("spend") => MessageOf(item) = NodeMessageOf(item)
=============================================================================
