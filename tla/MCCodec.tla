------------------------------ MODULE MCCodec ------------------------------
(***************************************************************************)
(* Samples for TLC.                                                        *)
(*                                                                         *)
(* A byte has eight values and a direct push holds three bytes, so that    *)
(* pushes, numbers and CompactSize change form between lengths of 3, 4, 5, *)
(* 8 and 64, where the code does at 75, 127, 253, 256 and 65536.           *)
(***************************************************************************)
EXTENDS CodecProperties, AmountProperties, RpcProperties

MCMarker == <<1, 1>>

Limit == (Base ^ MaxNumSize) \div 2

MCNumbers == -520 .. 520 \cup {s * (Limit + d) : s \in {-1, 1}, d \in {-2, -1, 0, 1}}

Zeros(n) == [i \in 1 .. n |-> 0]

Ones(n) == [i \in 1 .. n |-> 1]

MCStrings == UNION {[1 .. n -> Byte] : n \in 0 .. 3} \cup {Ones(n) : n \in 4 .. 66}

Cents == {1, 3, 4, 31, 32, 255, 256, 2047, 2048}

MCMetadata ==
  [txType : {"mint"}, ddAmountCents : Cents, lockHeight : {0, 1, 4, 2048},
   lockTier : {0, 1, 7}, ownerPubKey : {<<0, 0, 0>>, <<7, 4, 0>>}]
    \cup [txType : {"redeem"}, ddAmountCents : Cents]
    \cup [txType : {"transfer"}, amounts : UNION {[1 .. n -> {1, 4, 2048}] : n \in 1 .. 3}]

Id(a) == <<a, 0, 2>>

In(id, vout, witness) ==
  [txid |-> id, vout |-> vout, scriptSig |-> << >>, sequence |-> 4095, witness |-> witness]

Out(value, script) == [value |-> value, scriptPubKey |-> script]

MCWitnesses == {<< >>, <<Ones(5)>>, <<Ones(64), << >>, Ones(4)>>}

MCTxs ==
  {[version |-> v, locktime |-> l, inputs |-> ins, outputs |-> outs] :
     v \in {2, -1}, l \in {0, 4095},
     ins \in {<<In(Id(1), 9, w)>> : w \in MCWitnesses}
       \cup {<<In(Id(1), 0, w), In(Id(3), 1, x)>> : w, x \in MCWitnesses}
       \cup {[i \in 1 .. n |-> [In(Id(i), i, << >>) EXCEPT !.scriptSig = Ones(i)]] :
               n \in 4 .. 6},
     outs \in {<<Out(Limit - 1, Ones(n))>> : n \in {0, 4, 5, 7, 8, 63, 64}}
       \cup {[i \in 1 .. n |-> Out(i, << >>)] : n \in {0, 2, 5, 6}}}

(* The coins of a wallet: two of one transaction, and one of another. *)
Coin(id, vout, value, script) ==
  [txid |-> id, vout |-> vout, value |-> value, scriptPubKey |-> script]

MCUtxos ==
  {<<Coin(Id(1), 1, 5, s1), Coin(Id(1), 0, 6, s2), Coin(Id(3), 0, 5, << >>)>> :
     s1, s2 \in {<< >>, <<1>>, <<1, 1>>}}

ListsOf(order) ==
  {[i \in 1 .. 3 |-> utxos[order[i]]] : utxos \in MCUtxos}

MCSpends ==
  {[tx |-> [version |-> 2, locktime |-> l, inputs |-> ins, outputs |-> outs],
    index |-> i, utxos |-> utxos, leafHash |-> leaf] :
     l \in {0, 9},
     ins \in {<<In(Id(1), 0, << >>), In(Id(1), 1, << >>)>>,
              <<In(Id(1), 1, << >>), In(Id(1), 0, << >>)>>},
     outs \in {<<Out(7, <<1>>)>>, <<Out(7, << >>), Out(1, << >>)>>},
     i \in 1 .. 2,
     utxos \in ListsOf(<<1, 2, 3>>) \cup ListsOf(<<2, 3, 1>>),
     leaf \in {{}, {<<1, 1, 1>>}}}

----------------------------------------------------------------------------
(***************************************************************************)
(* Amounts.  Fees, dust and sizes are the code's; a dollar per DGB is as   *)
(* many millionths, but a DGB has ten sats, and at most seven inputs go    *)
(* into a mint.                                                            *)
(***************************************************************************)
MCTiers == <<[blocks |-> 240, ratio |-> 1000], [blocks |-> 172800, ratio |-> 500]>>

(* A set of coins with these values. *)
CoinsWorth(values) ==
  {[out |-> i, value |-> values[i], cents |-> 0] : i \in DOMAIN values}

TokensWorth(cents) ==
  {[out |-> -i, value |-> 0, cents |-> cents[i]] : i \in DOMAIN cents}

MCCoins ==
  {[utxos |-> CoinsWorth(values), target |-> target] :
     values \in UNION {[1 .. n -> 0 .. 3] : n \in 0 .. 4}
       \cup {<<9, 8, 1, 2, 3, 1, 5, 1, 1>>, <<1, 1, 1, 1, 1, 1, 1, 1, 1>>},
     target \in {1, 4, 6, 7, 8, 29}}

MCSizes ==
  [inputs : 1 .. 40 \cup {252, 253, 254, 400, 65535, 65536},
   tokens : 1 .. 40 \cup {251, 252, 253, 1000, 65535}]

Rates == {MIN_FEE_RATE, 17000, 40000, MAX_FEE_RATE}

Equal(n, value) == CoinsWorth([i \in 1 .. n |-> value])

MCMints ==
  {[req |-> [ddAmountCents |-> cents, lockTier |-> 1, feeRate |-> rate],
    price |-> 10, height |-> 0, utxos |-> utxos] :
     cents \in {1, 100}, rate \in Rates,
     utxos \in {Equal(n, value) : n \in {1, 2, 4, 7, 8},
                  value \in {8150000, 10100500, 15000000, 22000000, 33000000, 67000000}}}

Pay(cents) == [to |-> GetAddress(Wallet), cents |-> cents]

MCTransfers ==
  {[req |-> [recipients |-> recipients, feeRate |-> rate],
    tokens |-> TokensWorth(tokens), utxos |-> utxos] :
     recipients \in {<<Pay(3)>>, <<Pay(1), Pay(2), Pay(4)>>, [i \in 1 .. 9 |-> Pay(1)]},
     rate \in Rates,
     tokens \in {<<3>>, <<9>>, <<3, 3, 1>>, <<1, 1, 1>>, [i \in 1 .. 9 |-> 1]},
     utxos \in {Equal(n, value) :
                   n \in {1, 3, 6}, value \in {10000500, 34000000, 41100000, 99000000}}}

MCRedeems ==
  {[req |-> [feeRate |-> rate], cents |-> cents, unlockHeight |-> 7,
    collateral |-> [out |-> 0, value |-> 5, cents |-> 0],
    tokens |-> TokensWorth(tokens), utxos |-> utxos] :
     rate \in Rates, cents \in {1, 3},
     tokens \in {<<9>>, <<3, 3, 1>>, <<1, 1, 1>>},
     utxos \in {Equal(n, value) : n \in {1, 3, 6}, value \in {50000, 99000, 34000000}}}

MCPrices ==
  [cents : {1, 2, 3, 7, 99, 100, 199}, ratio : {200, 212, 275, 1000},
   price : 1 .. 30 \cup {99, 101, 3333, 9999, 40001, 66667, 99999, 100000}]

MCDecimals == [dollars : 0 .. 11, cents : 0 .. 99]

\* Half of what a double counts.
MCSats == 0 .. 2047

(* Every method, with every choice of its optional parameters. *)
MCCalls ==
  UNION {[name : {n},
          given : SUBSET {o.name : o \in ToSet(DigiDollarRPC[n].optional)}] :
           n \in DOMAIN DigiDollarRPC}

MCSamples ==
  [number |-> MCNumbers, string |-> MCStrings, metadata |-> MCMetadata, tx |-> MCTxs,
   spend |-> MCSpends, coins |-> MCCoins, size |-> MCSizes, mint |-> MCMints,
   transfer |-> MCTransfers, redeem |-> MCRedeems, price |-> MCPrices,
   decimal |-> MCDecimals, coin |-> MCSats, rpc |-> MCCalls]
=============================================================================
