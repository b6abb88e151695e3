---------------------------- MODULE MCPipelines ----------------------------
(***************************************************************************)
(* Small instances of Pipelines.  All fee and dust constants are the       *)
(* code's; locks are 1 and 2 blocks, and sats per DGB and the oracle price *)
(* are scaled down together, which leaves the collateral formula's result  *)
(* as it is while its product fits TLC's integers.                         *)
(***************************************************************************)
EXTENDS PipelineClaims, TLC

CONSTANTS m1, p1, p2, f1, f2, f3, d1, Friend, Second

MCTiers == (0 :> [blocks |-> 1, ratio |-> 1000]) @@ (1 :> [blocks |-> 2, ratio |-> 500])

PaymentTo(script, sats) ==
  [version |-> "plain", inputs |-> {},
   outputs |-> <<Paying(sats, script)>>, locktime |-> 0]

Payment(sats) == PaymentTo(ChangeScript, sats)

\* To an address of deriveNextAddress, the key of the signer's second path.
DerivedPayment(sats) == PaymentTo(ScriptOfAddress([program |-> PubKey(Second)]), sats)

Mint(cents, tier) == [ddAmountCents |-> cents, lockTier |-> tier, feeRate |-> 1000]

\* A position the wallet opened before.
OldPosition(cents, unlock) ==
  [MintTx(Mint(cents, 0), {[out |-> <<f1, 0>>, value |-> 40000000, cents |-> 0]},
          30000000, unlock, WalletKey, ChangeScript).tx EXCEPT !.inputs = {}]

\* A mint of two cents that spends f1 leaves a change below dust.
MCOtherTx ==
  (f1 :> Payment(30000400)) @@ (f2 :> Payment(25000000)) @@ (f3 :> Payment(11000000))
    @@ (d1 :> DerivedPayment(11000000))
    @@ (p1 :> OldPosition(3, 1)) @@ (p2 :> OldPosition(2, 2))

Price(p)  == [price |-> p, isStale |-> FALSE]
OnePrice  == {Price(1)}
AllPrices == {Price(1), Price(0), [price |-> 1, isStale |-> TRUE]}

OneMint == {Mint(2, 0)}
Mints   == {Mint(2, 0), Mint(1, 1)}

Pays(cents) == [recipients |-> <<[to |-> GetAddress(Friend), cents |-> cents]>>,
                feeRate |-> 1000]
PaysTwo(a, b) == [recipients |-> <<[to |-> GetAddress(Friend), cents |-> a],
                                   [to |-> GetAddress(Wallet), cents |-> b]>>,
                  feeRate |-> 1000]

(* Calls of transfers are alike: nothing but their requests, all of them     *)
(* from one set, tells them apart.                                          *)
Symmetry == Permutations(TransferCalls)

OneTransfer == {Pays(1)}
Transfers   == {Pays(2), PaysTwo(1, 1)}

AtRate(request, rate) == [request EXCEPT !.feeRate = rate]

\* The same at another rate, which the floor of the fee replaces.
TwinTransfers == Transfers \union {AtRate(Pays(2), 2000)}

Redeem(id, burn) == [positionId |-> id, burn |-> burn, feeRate |-> 1000]

FullRedeems    == {Redeem(id, {}) : id \in {p1, m1}}
PartialRedeems == {Redeem(p1, {1})}
AnyRedeems     == {Redeem(p1, {}), Redeem(p1, {1}), Redeem(p2, {})}

\* All three cents of p1, by asking for them.
TwinRedeems    == AnyRedeems \union {Redeem(p1, {3})}
=============================================================================
