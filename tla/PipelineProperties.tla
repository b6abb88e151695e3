------------------------- MODULE PipelineProperties -------------------------
(***************************************************************************)
(* What mint, transfer and redeem promise, stated over Pipelines.          *)
(***************************************************************************)
EXTENDS Pipelines

Waiting == {"idle", "height", "utxos", "trackerHeight", "trackerPosition", "send"}

(***************************************************************************)
(* The type invariant: the node's sets nest, a call holds a transaction    *)
(* exactly when it went as far as sending, and only then has an answer.    *)
(***************************************************************************)
TypeOK ==
  /\ height \in 0 .. MaxHeight
  /\ oracle \in OraclePrices
  /\ Accepted \subseteq Txids
  /\ Earlier \subseteq confirmed
  /\ confirmed \subseteq Accepted
  /\ pc \in [Calls -> Waiting \union Ended]
  /\ req \in [Calls -> MintRequests \union TransferRequests \union RedeemRequests \union {None}]
  /\ DOMAIN price = Calls
  /\ atHeight \in [Calls -> 0 .. MaxHeight]
  /\ DOMAIN position = Calls
  /\ DOMAIN sent = Calls
  /\ wire \in [Calls -> {"none", "toNode", "accepted", "rejected"}]
  /\ \A c \in Calls :
       /\ Sent(c) => pc[c] \in {"send"} \union Ended
       /\ pc[c] \in {"send", "done", "unknown"} => Sent(c)
       /\ c \in Accepted => wire[c] = "accepted" /\ ledger[c] = sent[c].tx

(***************************************************************************)
(* A call that throws anything but a transport error while sending has no  *)
(* effect: its transaction is not on the ledger and is not on its way, so  *)
(* calling again is safe.                                                  *)
(***************************************************************************)
FailureHasNoEffect ==
  \A c \in Calls : pc[c] = "failed" => c \notin Accepted /\ wire[c] # "toNode"

RespectsLock(c) ==
  LET tx         == sent[c].tx
      collateral == <<req[c].positionId, 0>>
  IN  /\ tx.locktime <= height
      /\ [out |-> collateral, sequence |-> "CLTV_ENABLED"] \in tx.inputs
      /\ OutputOf(collateral).script = CollateralMAST(WalletKey, tx.locktime)

(***************************************************************************)
(* Whatever the node does between the calls' reads, a redeem that is sent  *)
(* is not premature: its locktime has come, it is the lock of the script   *)
(* it spends, and the sequence number lets the script see it.              *)
(***************************************************************************)
RedeemRespectsLock == \A c \in RedeemCalls : Sent(c) => RespectsLock(c)

----------------------------------------------------------------------------
TimeLocked(output) == IsP2TR(output) /\ output.script.leaves # {}

(***************************************************************************)
(* Collateral is worth something -- classify.ts takes a zero-value output  *)
(* for a token -- and only DigiDollar transactions make time locks.        *)
(***************************************************************************)
Recognized(tx) ==
  \A v \in Vouts(tx) :
     TimeLocked(Output(tx, v)) => IsDigiDollarTx(tx) /\ Output(tx, v).value > 0

ASSUME RecognizedAssumption == \A id \in Others : Recognized(OtherTx[id])

(***************************************************************************)
(* Not even the highest price makes the collateral of a mint nothing.      *)
(***************************************************************************)
ASSUME PricesAssumption ==
  \A r \in MintRequests, o \in OraclePrices :
     r.ddAmountCents > 0 /\ r.lockTier \in DOMAIN LOCK_TIERS /\ o.price > 0 =>
       CollateralSats(r.ddAmountCents, o.price, LOCK_TIERS[r.lockTier].ratio) > 0

ASSUME RecipientsAssumption ==
  \A r \in TransferRequests :
     r.recipients \in Seq({r.recipients[i] : i \in DOMAIN r.recipients})

(***************************************************************************)
(* Amounts, fee rates and prices are bigints, and burn is an amount.       *)
(***************************************************************************)
ASSUME NumbersAssumption ==
  /\ \A r \in MintRequests : r.ddAmountCents \in Int /\ r.feeRate \in Int
  /\ \A r \in TransferRequests :
       r.feeRate \in Int /\ \A i \in DOMAIN r.recipients : r.recipients[i].cents \in Int
  /\ \A r \in RedeemRequests : r.feeRate \in Int /\ r.burn \subseteq Int
  /\ \A o \in OraclePrices : o.price \in Int
  /\ COIN \in Nat

(***************************************************************************)
(* A transaction as consensus and the DigiDollar rules have it: no amount  *)
(* is negative, and a mint says what it mints.                             *)
(***************************************************************************)
Sound(tx) ==
  /\ Len(tx.outputs) \in Nat /\ DOMAIN tx.outputs = 1 .. Len(tx.outputs)
  /\ \A v \in Vouts(tx) : Output(tx, v).value \in Nat /\ DDAmountCents(tx, v) \in Nat
  /\ tx.version = "mint" => OpReturnData(tx).amounts[1] \in Nat

(***************************************************************************)
(* What the wallet receives comes from coins it never had.                 *)
(***************************************************************************)
ASSUME ReceivedAssumption ==
  /\ IsFiniteSet(Earlier)
  /\ \A id \in Others :
       /\ Sound(OtherTx[id])
       /\ \A out \in Spends(OtherTx[id]) : out[1] \notin Txids

(***************************************************************************)
(* Time-locked collateral is never taken for a coin: the only transaction  *)
(* the SDK sends that spends it is the redeem of its own position.         *)
(***************************************************************************)
CollateralLeavesByRedeemOnly ==
  \A c \in Calls :
     Sent(c) =>
       \A out \in Spends(sent[c].tx) :
          TimeLocked(OutputOf(out)) =>
            c \in RedeemCalls /\ out = <<req[c].positionId, 0>>

(***************************************************************************)
(* The witness of an input fits the coin it spends: the default key signs  *)
(* for a coin of its own address, and the script path reveals the leaves   *)
(* of locked collateral, to their owner, after their lock.  Two things are *)
(* left out that the code gets wrong (Missigned).                          *)
(***************************************************************************)
PaysDefaultKey(script) == script.key = Tweaked(WalletKey)

WitnessFits(c, i) ==
  LET script  == OutputOf(i.out).script
      witness == sent[c].witness[i.out]
  IN  IF TimeLocked(OutputOf(i.out))
      THEN ScriptPathFits(script, witness, i.sequence, sent[c].tx.locktime)
      ELSE PaysDefaultKey(script) => KeyPathOK(script, witness)

(***************************************************************************)
(* Inputs whose signatures the node does not take: coins of other keys     *)
(* than the default one, which signs for all, and collateral, the message  *)
(* of whose signature has the SDK's own spend_type.                        *)
(***************************************************************************)
Missigned(c) ==
  {i \in sent[c].tx.inputs :
     IF TimeLocked(OutputOf(i.out))
     THEN SpendType(TRUE) \notin ScriptSpendTypes
     ELSE ~PaysDefaultKey(OutputOf(i.out).script)}

Fits(c) ==
  /\ Spends(sent[c].tx) # {}
  /\ Spends(sent[c].tx) \subseteq Outs(Accepted)
  /\ \A i \in sent[c].tx.inputs : WitnessFits(c, i)
  /\ Final(sent[c].tx)

(***************************************************************************)
(* Whatever was sent, overtaken or not: it spends something, all of it     *)
(* coins that exist, its witnesses fit them, and the locktime has come.    *)
(* What a pipeline reads at different moments -- coins, position, height   *)
(* -- fits together by the time it sends.  Nothing is said of two kinds of *)
(* signature: of those for coins of other than the default key, and of the *)
(* message of a script path's, which no BIP-341 node takes.                *)
(***************************************************************************)
SentFits == \A c \in Calls : Sent(c) => Fits(c)

(***************************************************************************)
(* What is on its way to the node brings in what it pays out, and breaks   *)
(* the rules of consensus for one of two reasons only: another call took   *)
(* its coins first, or it has an input that the SDK signs wrongly.         *)
(***************************************************************************)
OnlySignaturesFail ==
  \A c \in Calls :
     wire[c] = "toNode" =>
       /\ InputSats(sent[c].tx) >= OutputSats(sent[c].tx)
       /\ Overtaken(c) \/ (Acceptable(c) <=> Missigned(c) = {})

Burned(c) == ToRedeem(req[c], ReadPosition(c))

Received == Others \intersect Accepted

DDIn(outs)   == SumFunction([out \in outs |-> DDAmountCents(ledger[out[1]], out[2])])
SatsIn(outs) == SumFunction([out \in outs |-> OutputOf(out).value])

(***************************************************************************)
(* DigiDollars on the ledger, as the SDK itself reads them off unspent     *)
(* outputs, are those received and minted less those reported burned: none *)
(* is lost in a change output, counted twice or given to the wrong token.  *)
(***************************************************************************)
DDConserved ==
  DDIn(Unspent)
    = DDIn(Outs(Received))
      + SumFunction([c \in MintCalls \intersect Accepted |-> req[c].ddAmountCents])
      - SumFunction([c \in RedeemCalls \intersect Accepted |-> Burned(c)])

(***************************************************************************)
(* Sats on the ledger and the fees reported to callers add up to what the  *)
(* wallet received: the fee reported is the fee paid.                      *)
(***************************************************************************)
SatsConserved ==
  SatsIn(Unspent) + SumFunction([c \in Calls \intersect Accepted |-> sent[c].fee])
    = SatsIn(Outs(Received))

----------------------------------------------------------------------------
(* Results the calls report. *)

(***************************************************************************)
(* The txid a call reports: that of its content on the ledger.             *)
(***************************************************************************)
TxidOf(c) == CHOOSE id \in Accepted : SameTx(c, id)

MintResultHolds(c) ==
  LET id     == TxidOf(c)
      report == MintReport(c)
  IN  /\ OutputOf(<<id, 0>>) =
           [script |-> CollateralMAST(WalletKey, report.unlockHeight),
            value  |-> report.collateralSats]
      /\ PositionOf(id).unlock_height = report.unlockHeight
      /\ DDAmountCents(ledger[id], 1) = report.ddMintedCents
      /\ report.feeSats = InputSats(ledger[id]) - OutputSats(ledger[id])

TransferResultHolds(c) ==
  LET id     == TxidOf(c)
      report == TransferReport(c)
      n      == Len(report.recipients)
  IN  /\ \A i \in 1 .. n :
           DDAmountCents(ledger[id], i - 1) = report.recipients[i].cents
      /\ report.ddChangeCents >= 0
      /\ report.ddChangeCents > 0 =>
           /\ DDAmountCents(ledger[id], n) = report.ddChangeCents
           /\ OutputOf(<<id, n>>).script = ChangeScript
      /\ report.feeSats = InputSats(ledger[id]) - OutputSats(ledger[id])

RedeemResultHolds(c) ==
  LET report     == RedeemReport(c)
      collateral == <<report.positionId, 0>>
  IN  /\ collateral \in SpentOuts
      /\ OutputOf(<<TxidOf(c), 0>>) =
           [script |-> ChangeScript, value |-> report.dgbReturnedSats]
      /\ report.ddRedeemedCents <= SelectedDD(c)
      /\ report.feeSats = InputSats(ledger[TxidOf(c)]) - OutputSats(ledger[TxidOf(c)])

(***************************************************************************)
(* A call that returns tells the truth: its transaction is on the ledger   *)
(* and has the outputs the result describes -- the collateral locked until *)
(* the reported height, the tokens of each recipient and the change, the   *)
(* collateral back in the wallet, the burned tokens among those spent --   *)
(* and the fee reported is the fee it pays.                                *)
(***************************************************************************)
ResultsHold ==
  \A c \in Calls :
     pc[c] = "done" =>
       /\ \E id \in Accepted : SameTx(c, id)
       /\ c \in MintCalls     => MintResultHolds(c)
       /\ c \in TransferCalls => TransferResultHolds(c)
       /\ c \in RedeemCalls   => RedeemResultHolds(c)

(***************************************************************************)
(* Who gets which tokens, as a transfer reports it: its recipients, and    *)
(* the wallet's own token for the change.                                  *)
(***************************************************************************)
ReportedTokens(c) ==
  LET report == TransferReport(c)
      Token(program, cents) == [script |-> TokenP2TR(program), cents |-> cents]
  IN  [i \in DOMAIN report.recipients |->
         Token(DecodeAddress(report.recipients[i].to), report.recipients[i].cents)]
      \o (IF report.ddChangeCents > 0
          THEN <<Token(WalletKey, report.ddChangeCents)>> ELSE << >>)

Twins(c, d) == c # d /\ Sent(c) /\ Sent(d) /\ sent[c].tx = sent[d].tx

(***************************************************************************)
(* The node answers a transaction it knows like a new one, so that two     *)
(* calls may succeed with one transaction.  Whatever they were asked and   *)
(* whenever they read, they then report the same: of the results with one  *)
(* txid, any one tells it all, and counting them twice would be wrong.     *)
(***************************************************************************)
OneTransactionOneResult ==
  \A c, d \in Calls :
     Twins(c, d) =>
       \/ /\ {c, d} \subseteq MintCalls
          /\ MintReport(c) = MintReport(d)
       \/ /\ {c, d} \subseteq RedeemCalls
          /\ RedeemReport(c) = RedeemReport(d)
       \/ /\ {c, d} \subseteq TransferCalls
          /\ ReportedTokens(c) = ReportedTokens(d)
          /\ TransferReport(c).feeSats = TransferReport(d).feeSats

(***************************************************************************)
(* Every call that starts comes back to its caller, however the node       *)
(* behaves.                                                                *)
(***************************************************************************)
CallsEnd ==
  \A c \in Calls : (pc[c] # "idle") ~> (pc[c] \in Ended)
=============================================================================
