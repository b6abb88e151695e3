----------------------------- MODULE Pipelines -----------------------------
(***************************************************************************)
(* dd.mint(), dd.transfer() and dd.redeem() of packages/core, running      *)
(* concurrently against one DigiByte node.                                 *)
(*                                                                         *)
(* A call is an async function.  It runs without interruption from one     *)
(* await to the next, so each action below is the stretch of code between  *)
(* two answers of the node; what is read in one stretch and used in a      *)
(* later one may be stale by then.  Nothing reserves a coin: calls only    *)
(* meet at the node, which takes the first transaction that spends it.     *)
(*                                                                         *)
(* The node (ledger, blocks, oracle) is external and modelled from what    *)
(* the SDK asks of it.  A transaction is identified by its content, like a *)
(* txid, here by the first call that got it accepted.                      *)
(***************************************************************************)
EXTENDS TxBuilder

CONSTANTS
  MintCalls, TransferCalls, RedeemCalls,  \* the calls an application makes
  MintRequests, TransferRequests,         \* the requests it may make
  RedeemRequests,                         \* burn: {} or {ddAmountCents}
  Others,              \* txids of transactions these calls did not make
  OtherTx,             \* [Others -> transaction]
  Earlier,             \* those in the chain at the start; the rest may come
  OraclePrices,        \* what the oracle may say: [price, isStale]
  SignerTweaks,        \* does the signer tweak its key for key-path inputs?
  Derived,             \* owners of the signer's keys beyond the default path
  ScriptSpendTypes,    \* what the node has in the message of a script path:
                       \* {2} is BIP-341; with 1 it takes the SDK's as well
  MaxHeight,           \* bound on the chain's height
  None

Calls == MintCalls \union TransferCalls \union RedeemCalls
Txids == Calls \union Others

ASSUME CallsAssumption ==
  /\ MintCalls \intersect TransferCalls = {}
  /\ MintCalls \intersect RedeemCalls = {}
  /\ TransferCalls \intersect RedeemCalls = {}
  /\ Calls \intersect Others = {}
ASSUME NoneAssumption   == None \notin Txids
ASSUME EarlierAssumption == Earlier \subseteq Others
ASSUME HeightAssumption == MaxHeight \in Nat

VARIABLES
  height,       \* the node's block count
  oracle,       \* the oracle's answer at this moment
  ledger,       \* the transactions the node accepted, by txid
  confirmed,    \* those in a block
  pc,           \* per call: what it waits for, or how it ended
  req,          \* per call: its request
  price,        \* per mint: the price it read
  atHeight,     \* per call: the height it read
  position,     \* per redeem: the position it read
  sent,         \* per call: the transaction it built, with witnesses and fee
  wire          \* per call: where its sendrawtransaction is

nodeVars == <<height, oracle, ledger, confirmed>>
callVars == <<pc, req, price, atHeight, position, sent, wire>>
vars     == <<nodeVars, callVars>>

Ended == {"done", "failed", "unknown"}

Sent(c) == wire[c] # "none"

----------------------------------------------------------------------------
(* The ledger. *)

WalletKey    == PubKey(Wallet)
ChangeScript == TokenP2TR(WalletKey)       \* signer.getScriptPubKey()

Accepted == DOMAIN ledger                  \* mempool and chain

Spends(tx) == {i.out : i \in tx.inputs}

SpentOuts == UNION {Spends(ledger[id]) : id \in Accepted}

Outs(ids) == UNION {{<<id, v>> : v \in Vouts(ledger[id])} : id \in ids}

OutputOf(out) == Output(ledger[out[1]], out[2])

Unspent == Outs(Accepted) \ SpentOuts

(***************************************************************************)
(* What the node's wallet watches: the scripts of the keys the signer      *)
(* gives out -- deriveNextAddress encodes a key as it is, getAddress and   *)
(* getScriptPubKey tweak it -- and the positions of the default key.       *)
(***************************************************************************)
Mine(script) ==
  /\ script.type = "p2tr"
  /\ \/ \E owner \in {Wallet} \union Derived :
          script.key \in {PubKey(owner), Tweaked(PubKey(owner))}
     \/ \E leaf \in script.leaves : leaf.owner = WalletKey

ListUnspent ==
  {out \in Outs(confirmed) \ SpentOuts : Mine(OutputOf(out).script)}

(***************************************************************************)
(* listdigidollarpositions: one per confirmed mint, as its metadata says.  *)
(* dd_minted is a decimal string, whole dollars and two digits of cents.   *)
(***************************************************************************)
DecimalDD(cents) == [dollars |-> cents \div 100, cents |-> cents % 100]

PositionOf(id) ==
  LET data == OpReturnData(ledger[id])
  IN  [unlock_height |-> data.lockHeight,
       dd_minted     |-> DecimalDD(data.amounts[1]),
       unlocked      |-> data.lockHeight <= height]

OpensPosition(tx) ==
  /\ OpReturnData(tx).lockHeight \in Nat
  /\ Output(tx, 0).script = CollateralMAST(WalletKey, OpReturnData(tx).lockHeight)

(***************************************************************************)
(* The node lists positions the wallet owns: their collateral is the       *)
(* wallet's, locked until the height their metadata tells.                 *)
(***************************************************************************)
ASSUME OthersAssumption ==
  \A id \in Others : OtherTx[id].version = "mint" => OpensPosition(OtherTx[id])

ListPositions == {id \in confirmed : ledger[id].version = "mint"}

(***************************************************************************)
(* sendrawtransaction's own checks.                                        *)
(***************************************************************************)
SameTx(c, id) == ledger[id] = sent[c].tx

Overtaken(c) == Spends(sent[c].tx) \intersect SpentOuts # {}

InputsSigned(c) ==
  \A i \in sent[c].tx.inputs :
     InputOK(OutputOf(i.out).script, sent[c].witness[i.out], i.sequence,
             sent[c].tx.locktime, ScriptSpendTypes)

InputSats(tx)  == SumFunction([out \in Spends(tx) |-> OutputOf(out).value])
OutputSats(tx) == SumFunction([v \in Vouts(tx) |-> Output(tx, v).value])

Final(tx) == tx.locktime <= height \/ \A i \in tx.inputs : i.sequence = "FINAL"

Valid(c) ==
  /\ Spends(sent[c].tx) # {}
  /\ Spends(sent[c].tx) \subseteq Outs(Accepted)
  /\ InputsSigned(c)
  /\ Final(sent[c].tx)

Acceptable(c) ==
  /\ Valid(c)
  /\ ~Overtaken(c)
  /\ InputSats(sent[c].tx) >= OutputSats(sent[c].tx)

----------------------------------------------------------------------------
(* What a call reads. *)

UTXO(out) == [out |-> out, value |-> OutputOf(out).value,
              cents |-> DDAmountCents(ledger[out[1]], out[2])]

(***************************************************************************)
(* getClassifiedUTXOs: the wallet's confirmed coins of one class.          *)
(***************************************************************************)
Classified(class) ==
  {UTXO(out) : out \in {o \in ListUnspent : Classify(ledger[o[1]], o[2]) = class}}

ParseCents(decimal) == decimal.dollars * 100 + decimal.cents

(***************************************************************************)
(* PositionTracker.enrich: the node's word or the height read beside it.   *)
(***************************************************************************)
CanRedeemNow(pos, h) == pos.unlocked \/ pos.unlock_height <= h

(***************************************************************************)
(* RedeemRequest.ddAmountCents (burn), or the position when it is left out. *)
(***************************************************************************)
ToRedeem(r, pos) ==
  IF r.burn = {} THEN ParseCents(pos.dd_minted)
  ELSE CHOOSE n \in r.burn : TRUE

----------------------------------------------------------------------------
(* Signing and sending.  Every input is signed with the default key, *)
(* whatever key its coin is locked to.                                *)

Signature(isScriptPath) ==
  SignatureBy(IF SignerTweaks /\ ~isScriptPath THEN Tweaked(WalletKey) ELSE WalletKey,
              isScriptPath)

KeyPath(tx) == [out \in Spends(tx) |-> KeyPathWitness(Signature(FALSE))]

CollateralPath(unlock) ==
  ScriptPathWitness(Signature(TRUE), NormalLeaf(WalletKey, unlock),
                    ERRLeaf(WalletKey, unlock))

Goes(c, from, to) == pc[c] = from /\ pc' = [pc EXCEPT ![c] = to]

Fails(c, from) ==
  /\ Goes(c, from, "failed")
  /\ UNCHANGED <<req, price, atHeight, position, sent, wire>>

Sends(c, from, build, witness) ==
  /\ Goes(c, from, "send")
  /\ sent' = [sent EXCEPT ![c] = [tx |-> build.tx, fee |-> build.fee, witness |-> witness]]
  /\ wire' = [wire EXCEPT ![c] = "toNode"]

----------------------------------------------------------------------------
(* executeMint *)

MintReadsPrice(c) ==
  /\ c \in MintCalls
  /\ ~oracle.isStale /\ oracle.price # 0
  /\ Goes(c, "idle", "height")
  /\ \E r \in MintRequests : req' = [req EXCEPT ![c] = r]
  /\ price' = [price EXCEPT ![c] = oracle.price]
  /\ UNCHANGED <<nodeVars, atHeight, position, sent, wire>>

MintRefusesPrice(c) ==
  /\ c \in MintCalls
  /\ oracle.isStale \/ oracle.price = 0
  /\ Fails(c, "idle")
  /\ UNCHANGED nodeVars

MintReadsHeight(c) ==
  /\ c \in MintCalls
  /\ Goes(c, "height", "utxos")
  /\ atHeight' = [atHeight EXCEPT ![c] = height]
  /\ UNCHANGED <<nodeVars, req, price, position, sent, wire>>

MintResults(c) ==
  MintBuilds(req[c], price[c], atHeight[c], Classified("standard"), WalletKey, ChangeScript)

MintSends(c) ==
  /\ c \in MintCalls
  /\ pc[c] = "utxos"
  /\ \E b \in MintResults(c) : Sends(c, "utxos", b, KeyPath(b.tx))
  /\ UNCHANGED <<nodeVars, req, price, atHeight, position>>

MintHidesBuildError(c) ==                 \* mutant: the error is swallowed
  /\ c \in MintCalls
  /\ pc[c] = "utxos" /\ MintResults(c) = {}
  /\ Goes(c, "utxos", "done")
  /\ UNCHANGED <<nodeVars, req, price, atHeight, position, sent, wire>>

MintCannotBuild(c) ==
  /\ c \in MintCalls
  /\ pc[c] = "utxos" /\ MintResults(c) = {}
  /\ Fails(c, "utxos")
  /\ UNCHANGED nodeVars

----------------------------------------------------------------------------
(* executeTransfer *)

TransferResults(r) ==
  TransferBuilds(r, Classified("dd_token"), Classified("standard"), WalletKey, ChangeScript)

TransferSends(c) ==
  /\ c \in TransferCalls
  /\ pc[c] = "idle"
  /\ \E r \in TransferRequests :
        /\ req' = [req EXCEPT ![c] = r]
        /\ \E b \in TransferResults(r) : Sends(c, "idle", b, KeyPath(b.tx))
  /\ UNCHANGED <<nodeVars, price, atHeight, position>>

TransferCannotBuild(c) ==
  /\ c \in TransferCalls
  /\ pc[c] = "idle"
  /\ \E r \in TransferRequests : TransferResults(r) = {}
  /\ Fails(c, "idle")
  /\ UNCHANGED nodeVars

----------------------------------------------------------------------------
(* executeRedeem *)

Lookup(id) == IF id \in ListPositions THEN {PositionOf(id)} ELSE {}

(***************************************************************************)
(* getPosition asks for the positions and the height together; either      *)
(* answer may come first, from different moments.                          *)
(***************************************************************************)
RedeemReadsPosition(c) ==
  /\ c \in RedeemCalls
  /\ Goes(c, "idle", "trackerHeight")
  /\ \E r \in RedeemRequests :
        /\ req' = [req EXCEPT ![c] = r]
        /\ position' = [position EXCEPT ![c] = Lookup(r.positionId)]
  /\ UNCHANGED <<nodeVars, price, atHeight, sent, wire>>

RedeemReadsTrackerHeight(c) ==
  /\ c \in RedeemCalls
  /\ Goes(c, "idle", "trackerPosition")
  /\ \E r \in RedeemRequests : req' = [req EXCEPT ![c] = r]
  /\ atHeight' = [atHeight EXCEPT ![c] = height]
  /\ UNCHANGED <<nodeVars, price, position, sent, wire>>

Redeemable(pos, h) == \E p \in pos : CanRedeemNow(p, h)

RedeemTracked(c, from, pos, h) ==
  /\ c \in RedeemCalls
  /\ Goes(c, from, IF Redeemable(pos, h) THEN "height" ELSE "failed")
  /\ position' = [position EXCEPT ![c] = pos]
  /\ UNCHANGED <<nodeVars, req, price, atHeight, sent, wire>>

RedeemGetsTrackerHeight(c) ==
  RedeemTracked(c, "trackerHeight", position[c], height)

RedeemGetsPosition(c) ==
  /\ pc[c] = "trackerPosition"
  /\ RedeemTracked(c, "trackerPosition", Lookup(req[c].positionId), atHeight[c])

ReadPosition(c) == CHOOSE p \in position[c] : TRUE

RedeemReadsHeight(c) ==
  /\ c \in RedeemCalls
  /\ pc[c] = "height"
  /\ Goes(c, "height", IF height < ReadPosition(c).unlock_height
                       THEN "failed" ELSE "utxos")
  /\ atHeight' = [atHeight EXCEPT ![c] = height]
  /\ UNCHANGED <<nodeVars, req, price, position, sent, wire>>

CollateralUTXOs(id) == {u \in Classified("dd_collateral") : u.out = <<id, 0>>}

RedeemResults(c) ==
  UNION {RedeemBuilds(ToRedeem(req[c], ReadPosition(c)), atHeight[c],
                      ReadPosition(c).unlock_height, collateral,
                      Classified("dd_token"), Classified("standard"),
                      req[c].feeRate, WalletKey, ChangeScript) :
           collateral \in CollateralUTXOs(req[c].positionId)}

KeyPathOnly(c, tx) == KeyPath(tx)         \* mutant: collateral signed like a coin

RedeemWitness(c, tx) ==
  [KeyPath(tx) EXCEPT ![<<req[c].positionId, 0>>] =
     CollateralPath(ReadPosition(c).unlock_height)]

RedeemSends(c) ==
  /\ c \in RedeemCalls
  /\ pc[c] = "utxos"
  /\ \E b \in RedeemResults(c) : Sends(c, "utxos", b, RedeemWitness(c, b.tx))
  /\ UNCHANGED <<nodeVars, req, price, atHeight, position>>

RedeemCannotBuild(c) ==
  /\ c \in RedeemCalls
  /\ pc[c] = "utxos" /\ RedeemResults(c) = {}
  /\ Fails(c, "utxos")
  /\ UNCHANGED nodeVars

ClosedUnlessAsked(c) == req[c].burn = {}  \* mutant: an amount given is a part

PositionClosed(c) ==
  ToRedeem(req[c], ReadPosition(c)) >= ParseCents(ReadPosition(c).dd_minted)

----------------------------------------------------------------------------
(* What a call that succeeds returns, besides its txid. *)

MintReport(c) ==
  [ddMintedCents  |-> req[c].ddAmountCents,
   collateralSats |-> Output(sent[c].tx, 0).value,
   feeSats        |-> sent[c].fee,
   unlockHeight   |-> atHeight[c] + LOCK_TIERS[req[c].lockTier].blocks]

\* A coin that is no token counts nothing.
SelectedDD(c) ==
  SumFunction([out \in Spends(sent[c].tx) |-> DDAmountCents(ledger[out[1]], out[2])])

TransferReportsEstimate(c) ==             \* mutant: the fee of the request, no floor
  [recipients    |-> req[c].recipients,
   feeSats       |-> CalculateFee(EstimateVsize(Cardinality(sent[c].tx.inputs),
                                                Len(sent[c].tx.outputs), 1), req[c].feeRate),
   ddChangeCents |-> SelectedDD(c) - RecipientCents(req[c].recipients)]

TransferReport(c) ==
  [recipients    |-> req[c].recipients,
   feeSats       |-> sent[c].fee,
   ddChangeCents |-> SelectedDD(c) - RecipientCents(req[c].recipients)]

RedeemReport(c) ==
  [positionId      |-> req[c].positionId,
   ddRedeemedCents |-> ToRedeem(req[c], ReadPosition(c)),
   dgbReturnedSats |-> OutputOf(<<req[c].positionId, 0>>).value,
   feeSats         |-> sent[c].fee,
   positionClosed  |-> PositionClosed(c)]

----------------------------------------------------------------------------
(* Answers, errors and timeouts of the transport. *)

(***************************************************************************)
(* Any read may end in a transport or node error.  Nothing was sent yet.   *)
(***************************************************************************)
FirstReadFails(c) ==
  /\ Fails(c, "idle")
  /\ UNCHANGED nodeVars

ReadFails(c) ==
  /\ \E from \in {"height", "utxos", "trackerHeight", "trackerPosition"} : Fails(c, from)
  /\ UNCHANGED nodeVars

SendHidesRejection(c) ==                  \* mutant: the node's error is swallowed
  /\ wire[c] \in {"accepted", "rejected"}
  /\ Goes(c, "send", "done")
  /\ UNCHANGED <<nodeVars, req, price, atHeight, position, sent, wire>>

(***************************************************************************)
(* sendRawTransaction returns the txid, or the node's error is thrown.     *)
(***************************************************************************)
SendReturns(c) ==
  /\ wire[c] \in {"accepted", "rejected"}
  /\ Goes(c, "send", IF wire[c] = "accepted" THEN "done" ELSE "failed")
  /\ UNCHANGED <<nodeVars, req, price, atHeight, position, sent, wire>>

TimeoutIsFailure(c) ==                    \* mutant: as if nothing were sent
  /\ Goes(c, "send", "failed")
  /\ UNCHANGED <<nodeVars, req, price, atHeight, position, sent, wire>>

SendsAgain(c) ==                          \* mutant: retries instead of giving up
  /\ pc[c] = "send" /\ wire[c] # "rejected"
  /\ wire' = [wire EXCEPT ![c] = "toNode"]
  /\ UNCHANGED <<nodeVars, pc, req, price, atHeight, position, sent>>

(***************************************************************************)
(* The transport gives up waiting; the request may still reach the node.   *)
(***************************************************************************)
SendTimesOut(c) ==
  /\ Goes(c, "send", "unknown")
  /\ UNCHANGED <<nodeVars, req, price, atHeight, position, sent, wire>>

----------------------------------------------------------------------------
(* The node (external). *)

WithTx(id, tx) ==
  [i \in Accepted \union {id} |-> IF i = id THEN tx ELSE ledger[i]]

NodeAnswers(c, answer) ==
  /\ wire[c] = "toNode"
  /\ wire' = [wire EXCEPT ![c] = answer]
  /\ UNCHANGED <<height, oracle, confirmed, pc, req, price, atHeight, position, sent>>

NodeAccepts(c) ==
  /\ NodeAnswers(c, "accepted")
  /\ Acceptable(c)
  /\ ledger' = WithTx(c, sent[c].tx)

(***************************************************************************)
(* A transaction it has already is answered like a new one, or refused.    *)
(***************************************************************************)
NodeKnows(c) ==
  /\ NodeAnswers(c, "accepted")
  /\ \E id \in Accepted : SameTx(c, id)
  /\ UNCHANGED ledger

(***************************************************************************)
(* It may refuse any transaction, by rules of its own as well.             *)
(***************************************************************************)
NodeRejects(c) ==
  /\ NodeAnswers(c, "rejected")
  /\ UNCHANGED ledger

(***************************************************************************)
(* Somebody pays the wallet.                                               *)
(***************************************************************************)
PaymentArrives ==
  /\ \E id \in Others \ Accepted : ledger' = WithTx(id, OtherTx[id])
  /\ UNCHANGED <<height, oracle, confirmed, callVars>>

NodeMines ==
  /\ height < MaxHeight
  /\ height' = height + 1
  /\ \E block \in SUBSET (Accepted \ confirmed) : confirmed' = confirmed \union block
  /\ UNCHANGED <<oracle, ledger, callVars>>

OracleMoves ==
  /\ \E answer \in OraclePrices \ {oracle} : oracle' = answer
  /\ UNCHANGED <<height, ledger, confirmed, callVars>>

----------------------------------------------------------------------------
Init ==
  /\ height = 0
  /\ oracle \in OraclePrices
  /\ ledger = [id \in Earlier |-> OtherTx[id]]
  /\ confirmed = Earlier
  /\ pc = [c \in Calls |-> "idle"]
  /\ req = [c \in Calls |-> None]
  /\ price = [c \in Calls |-> 0]
  /\ atHeight = [c \in Calls |-> 0]
  /\ position = [c \in Calls |-> {}]
  /\ sent = [c \in Calls |-> None]
  /\ wire = [c \in Calls |-> "none"]

Starts(c) ==
  \/ MintReadsPrice(c) \/ MintRefusesPrice(c)
  \/ TransferSends(c) \/ TransferCannotBuild(c)
  \/ RedeemReadsPosition(c) \/ RedeemReadsTrackerHeight(c)
  \/ FirstReadFails(c)

Continues(c) ==
  \/ ReadFails(c) \/ SendReturns(c) \/ SendTimesOut(c)
  \/ MintReadsHeight(c) \/ MintSends(c) \/ MintCannotBuild(c)
  \/ RedeemGetsTrackerHeight(c) \/ RedeemGetsPosition(c) \/ RedeemReadsHeight(c)
  \/ RedeemSends(c) \/ RedeemCannotBuild(c)

Node(c) == NodeAccepts(c) \/ NodeKnows(c) \/ NodeRejects(c)

Next ==
  \/ \E c \in Calls : Starts(c) \/ Continues(c) \/ Node(c)
  \/ PaymentArrives
  \/ NodeMines
  \/ OracleMoves

Spec == Init /\ [][Next]_vars

(***************************************************************************)
(* A call that waits is resumed: by the answer, or by the transport's      *)
(* AbortSignal timer.  The node owes nothing, and nobody has to start  *)
(* a call.                                                                 *)
(***************************************************************************)
FairSpec == Spec /\ \A c \in Calls : WF_vars(Continues(c))
=============================================================================
