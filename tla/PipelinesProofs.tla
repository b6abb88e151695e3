-------------------------- MODULE PipelinesProofs ---------------------------
(***************************************************************************)
(* Machine-checked proofs about the pipelines, for every number of calls,  *)
(* every request, tier table, coin set and height.                         *)
(*                                                                         *)
(* The first part proves the type invariant.  It is inductive as it        *)
(* stands, because it ties the stage of a call to the whereabouts of its   *)
(* transaction: nothing is sent before stage "send", and the ledger only   *)
(* holds transactions whose acceptance was answered.                       *)
(***************************************************************************)
EXTENDS PipelineProperties, TLAPS

(***************************************************************************)
(* Before any call is made, the state has its shape.                       *)
(***************************************************************************)
LEMMA TypeOKInit == Init => TypeOK
  BY CallsAssumption, EarlierAssumption, HeightAssumption
  DEF Init, TypeOK, Waiting, Ended, Sent, Accepted, Calls, Txids

(***************************************************************************)
(* The first stretch of a call keeps the shape of the state: only a        *)
(* transfer sends in it.                                                   *)
(***************************************************************************)
LEMMA TypeOKStarts ==
  ASSUME TypeOK, NEW c \in Calls, Starts(c)
  PROVE  TypeOK'
<1> USE DEF TypeOK, Waiting, Ended, Sent, Accepted, nodeVars, Goes, Fails
<1>1. CASE MintReadsPrice(c)
  BY <1>1 DEF MintReadsPrice
<1>2. CASE MintRefusesPrice(c)
  BY <1>2 DEF MintRefusesPrice
<1>3. CASE TransferSends(c)
  BY <1>3 DEF TransferSends, Sends
<1>4. CASE TransferCannotBuild(c)
  BY <1>4 DEF TransferCannotBuild
<1>5. CASE RedeemReadsPosition(c)
  BY <1>5 DEF RedeemReadsPosition
<1>6. CASE RedeemReadsTrackerHeight(c)
  BY <1>6 DEF RedeemReadsTrackerHeight
<1>7. CASE FirstReadFails(c)
  BY <1>7 DEF FirstReadFails
<1> QED
  BY <1>1, <1>2, <1>3, <1>4, <1>5, <1>6, <1>7 DEF Starts

(***************************************************************************)
(* So do the later stretches of a call, its errors and its timeout.        *)
(***************************************************************************)
LEMMA TypeOKContinues ==
  ASSUME TypeOK, NEW c \in Calls, Continues(c)
  PROVE  TypeOK'
<1> USE DEF TypeOK, Waiting, Ended, Sent, Accepted, nodeVars, Goes, Fails
<1>1. CASE MintReadsHeight(c)
  BY <1>1 DEF MintReadsHeight
<1>2. CASE MintSends(c)
  BY <1>2 DEF MintSends, Sends
<1>3. CASE MintCannotBuild(c)
  BY <1>3 DEF MintCannotBuild
<1>4. CASE RedeemGetsTrackerHeight(c)
  BY <1>4 DEF RedeemGetsTrackerHeight, RedeemTracked
<1>5. CASE RedeemGetsPosition(c)
  BY <1>5 DEF RedeemGetsPosition, RedeemTracked
<1>6. CASE RedeemReadsHeight(c)
  BY <1>6 DEF RedeemReadsHeight
<1>7. CASE RedeemSends(c)
  BY <1>7 DEF RedeemSends, Sends
<1>8. CASE RedeemCannotBuild(c)
  BY <1>8 DEF RedeemCannotBuild
<1>9. CASE ReadFails(c)
  BY <1>9 DEF ReadFails
<1>10. CASE SendReturns(c)
  BY <1>10 DEF SendReturns
<1>11. CASE SendTimesOut(c)
  BY <1>11 DEF SendTimesOut
<1> QED
  BY <1>1, <1>2, <1>3, <1>4, <1>5, <1>6, <1>7, <1>8, <1>9, <1>10, <1>11 DEF Continues

(***************************************************************************)
(* So does each answer of the node to sendrawtransaction: what it puts on  *)
(* the ledger is what the call sent.                                       *)
(***************************************************************************)
LEMMA TypeOKNode ==
  ASSUME TypeOK, NEW c \in Calls, Node(c)
  PROVE  TypeOK'
<1> USE DEF TypeOK, Waiting, Ended, Sent, Accepted, NodeAnswers
<1>1. CASE NodeAccepts(c)
  BY <1>1 DEF NodeAccepts, WithTx, Txids
<1>2. CASE NodeKnows(c)
  BY <1>2 DEF NodeKnows
<1>3. CASE NodeRejects(c)
  BY <1>3 DEF NodeRejects
<1> QED
  BY <1>1, <1>2, <1>3 DEF Node

(***************************************************************************)
(* So do payments, blocks and oracle updates, which no call waits for.     *)
(***************************************************************************)
LEMMA TypeOKEnvironment ==
  ASSUME TypeOK, PaymentArrives \/ NodeMines \/ OracleMoves
  PROVE  TypeOK'
<1> USE DEF TypeOK, Waiting, Ended, Sent, Accepted, callVars
<1>1. CASE PaymentArrives
  BY <1>1, CallsAssumption DEF PaymentArrives, WithTx, Txids
<1>2. CASE NodeMines
  BY <1>2, HeightAssumption DEF NodeMines
<1>3. CASE OracleMoves
  BY <1>3 DEF OracleMoves
<1> QED
  BY <1>1, <1>2, <1>3

(***************************************************************************)
(* The type invariant is inductive.                                        *)
(***************************************************************************)
LEMMA TypeOKNext == TypeOK /\ [Next]_vars => TypeOK'
<1> SUFFICES ASSUME TypeOK, [Next]_vars PROVE TypeOK'
  OBVIOUS
<1>1. ASSUME NEW c \in Calls, Starts(c) \/ Continues(c) \/ Node(c) PROVE TypeOK'
  BY <1>1, TypeOKStarts, TypeOKContinues, TypeOKNode
<1>2. CASE PaymentArrives \/ NodeMines \/ OracleMoves
  BY <1>2, TypeOKEnvironment
<1>3. CASE UNCHANGED vars
  BY <1>3 DEF TypeOK, Sent, Accepted, vars, nodeVars, callVars
<1> QED
  BY <1>1, <1>2, <1>3 DEF Next

(***************************************************************************)
(* The state of the node and of every call keeps its shape, and a call's   *)
(* stage tells where its transaction is.                                   *)
(***************************************************************************)
THEOREM TypeCorrect == Spec => []TypeOK
  BY TypeOKInit, TypeOKNext, PTL DEF Spec

----------------------------------------------------------------------------
(***************************************************************************)
(* A call that fails has had no effect.  With the type invariant this is   *)
(* inductive: an error thrown before "send" finds nothing sent, the only   *)
(* error thrown in "send" is the node's refusal, and the node's answer to  *)
(* a refused request cannot be revised.                                    *)
(***************************************************************************)
LEMMA FailureNext ==
  TypeOK /\ FailureHasNoEffect /\ [Next]_vars => FailureHasNoEffect'
<1> SUFFICES ASSUME TypeOK, FailureHasNoEffect, [Next]_vars
             PROVE  FailureHasNoEffect'
  OBVIOUS
<1> USE DEF FailureHasNoEffect, TypeOK, Ended, Sent, Accepted, nodeVars, Goes, Fails
<1>1. ASSUME NEW c \in Calls, Starts(c) PROVE FailureHasNoEffect'
  BY <1>1 DEF Starts, MintReadsPrice, MintRefusesPrice, TransferSends, Sends,
     TransferCannotBuild, RedeemReadsPosition, RedeemReadsTrackerHeight, FirstReadFails
<1>2. ASSUME NEW c \in Calls, Continues(c) PROVE FailureHasNoEffect'
  <2>1. CASE MintReadsHeight(c) \/ MintSends(c) \/ MintCannotBuild(c)
    BY <2>1 DEF MintReadsHeight, MintSends, MintCannotBuild, Sends
  <2>2. CASE RedeemGetsTrackerHeight(c) \/ RedeemGetsPosition(c) \/ RedeemReadsHeight(c)
    BY <2>2 DEF RedeemGetsTrackerHeight, RedeemGetsPosition, RedeemTracked,
       RedeemReadsHeight
  <2>3. CASE RedeemSends(c) \/ RedeemCannotBuild(c)
    BY <2>3 DEF RedeemSends, RedeemCannotBuild, Sends
  <2>4. CASE ReadFails(c)
    BY <2>4 DEF ReadFails
  <2>5. CASE SendReturns(c)
    BY <2>5 DEF SendReturns
  <2>6. CASE SendTimesOut(c)
    BY <2>6 DEF SendTimesOut
  <2> QED
    BY <1>2, <2>1, <2>2, <2>3, <2>4, <2>5, <2>6 DEF Continues
<1>3. ASSUME NEW c \in Calls, Node(c) PROVE FailureHasNoEffect'
  BY <1>3 DEF Node, NodeAnswers, NodeAccepts, NodeKnows, NodeRejects, WithTx
<1>4. CASE PaymentArrives
  BY <1>4, CallsAssumption DEF PaymentArrives, WithTx, callVars
<1>5. CASE NodeMines \/ OracleMoves \/ UNCHANGED vars
  BY <1>5 DEF NodeMines, OracleMoves, callVars, vars
<1> QED
  BY <1>1, <1>2, <1>3, <1>4, <1>5 DEF Next

(***************************************************************************)
(* A mint, transfer or redeem that throws an error of its own or of the    *)
(* node leaves nothing on the ledger and nothing on its way there.         *)
(***************************************************************************)
THEOREM FailuresAreClean == Spec => []FailureHasNoEffect
<1>1. Init => FailureHasNoEffect
  BY DEF Init, FailureHasNoEffect
<1> QED
  BY <1>1, FailureNext, TypeCorrect, PTL DEF Spec

-----------------------------------------------------------------------------
(***************************************************************************)
(* A redeem never goes out before its lock: proved for every interleaving  *)
(* of calls, every request and every height.                               *)
(*                                                                         *)
(* RedeemRespectsLock speaks of a sent transaction and the script it       *)
(* spends.  The invariant that carries it follows the lock height through  *)
(* every place it is copied to: from the height a mint read into the       *)
(* script and the metadata of its transaction, from there onto the ledger, *)
(* from the ledger into the position a redeem reads, and from there into   *)
(* the locktime of the transaction it sends.                               *)
(***************************************************************************)

MintsOpenPositions ==
  \A id \in Accepted : ledger[id].version = "mint" => OpensPosition(ledger[id])

IsPositionOf(p, id) ==
  /\ id \in Accepted /\ ledger[id].version = "mint"
  /\ p.unlock_height = OpReturnData(ledger[id]).lockHeight

(***************************************************************************)
(* What a redeem knows of its position, stage by stage.                    *)
(***************************************************************************)
RedeemInv(c) ==
  /\ pc[c] = "idle" => position[c] = {}
  /\ pc[c] \in {"height", "utxos"} => position[c] # {}
  /\ \A p \in position[c] : IsPositionOf(p, req[c].positionId)
  /\ Sent(c) => /\ req[c].positionId \in Accepted
                /\ sent[c].tx.locktime \in Nat
                /\ RespectsLock(c)

CallInv(c) ==
  /\ atHeight[c] <= height
  /\ Sent(c) /\ sent[c].tx.version = "mint" => OpensPosition(sent[c].tx)
  /\ c \in RedeemCalls => RedeemInv(c)

LockInv ==
  /\ TypeOK
  /\ MintsOpenPositions
  /\ \A c \in Calls : CallInv(c)

----------------------------------------------------------------------------
(***************************************************************************)
(* MintBuilder: the lock height is the same in the metadata and in the     *)
(* script of output 0, whatever the coins and with or without change.      *)
(***************************************************************************)
LEMMA MintTxOpens ==
  ASSUME NEW r, NEW coins, NEW collateral, NEW lock \in Nat, NEW script
  PROVE  OpensPosition(MintTx(r, coins, collateral, lock, WalletKey, script).tx)
<1> DEFINE tx     == MintTx(r, coins, collateral, lock, WalletKey, script).tx
           change == ValueOf(coins) - collateral - MintFee(coins, r.feeRate)
           data   == [txType |-> "mint", amounts |-> <<r.ddAmountCents>>,
                      lockHeight |-> lock, lockTier |-> r.lockTier]
           first  == <<Paying(collateral, CollateralMAST(WalletKey, lock)),
                       Paying(0, TokenP2TR(WalletKey)), Metadata(data)>>
           last   == ChangeOutputs(change, script)
<1>1. tx.outputs = first \o last
  BY DEF MintTx
<1>2. last = << >> \/ last = <<Paying(change, script)>>
  BY DEF ChangeOutputs
<1> HIDE DEF tx, last
<1>3. /\ Len(tx.outputs) \in {3, 4}
      /\ \A i \in 1 .. 3 : tx.outputs[i] = first[i]
  BY <1>1, <1>2
<1> HIDE DEF first
<1>4. first[1] = Paying(collateral, CollateralMAST(WalletKey, lock))
  BY DEF first
<1>5. first[2] = Paying(0, TokenP2TR(WalletKey))
  BY DEF first
<1>6. first[3] = Metadata(data)
  BY DEF first
<1>7. /\ ~Parses(Output(tx, 0)) /\ ~Parses(Output(tx, 1)) /\ Parses(Output(tx, 2))
      /\ Output(tx, 2).script.data = data
      /\ Output(tx, 0).script = CollateralMAST(WalletKey, lock)
  <2>1. Output(tx, 0) = first[1] /\ Output(tx, 1) = first[2] /\ Output(tx, 2) = first[3]
    BY <1>3 DEF Output
  <2>2. Output(tx, 0).script = CollateralMAST(WalletKey, lock)
    BY <2>1, <1>4 DEF Paying
  <2>3. CollateralMAST(WalletKey, lock).type = "p2tr" /\ TokenP2TR(WalletKey).type = "p2tr"
    BY DEF CollateralMAST, TokenP2TR, P2TR
  <2>4. Output(tx, 1).script = TokenP2TR(WalletKey)
    BY <2>1, <1>5 DEF Paying
  <2>5. Output(tx, 2).script = OpReturn(data)
    BY <2>1, <1>6 DEF Paying, Metadata
  <2>6. OpReturn(data).type = "op_return" /\ OpReturn(data).data = data
        /\ data.amounts # << >>
    BY DEF OpReturn
  <2> HIDE DEF data
  <2> QED
    BY <2>2, <2>3, <2>4, <2>5, <2>6 DEF Parses
<1>8. MetadataVout(tx) = {2}
  BY <1>3, <1>7 DEF MetadataVout, Vouts
<1>9. OpReturnData(tx) = data
  BY <1>7, <1>8 DEF OpReturnData
<1> QED
  BY <1>7, <1>9 DEF OpensPosition, tx

(***************************************************************************)
(* What a mint sends opens a position.                                     *)
(***************************************************************************)
LEMMA MintResultOpens ==
  ASSUME TypeOK, NEW c \in MintCalls, NEW b \in MintResults(c)
  PROVE  OpensPosition(b.tx)
<1> DEFINE tier == LOCK_TIERS[req[c].lockTier]
           collateral == CollateralSats(req[c].ddAmountCents, price[c], tier.ratio)
           lock == atHeight[c] + tier.blocks
<1>1. /\ req[c].lockTier \in DOMAIN LOCK_TIERS
      /\ \E coins : b = MintTx(req[c], coins, collateral, lock, WalletKey, ChangeScript)
  BY DEF MintResults, MintBuilds
<1>2. atHeight[c] \in Nat
  BY DEF TypeOK, Calls
<1>3. lock \in Nat
  BY <1>1, <1>2, TiersAssumption
<1> HIDE DEF lock, collateral
<1> QED
  BY <1>1, <1>3, MintTxOpens

(***************************************************************************)
(* Transfers and redeems open no positions.                                *)
(***************************************************************************)
LEMMA TransferVersion ==
  ASSUME NEW r, NEW b \in TransferResults(r)
  PROVE  b.tx.version = "transfer"
<1>1. PICK tokens : b = TransferTx(r, tokens, Classified("standard"), WalletKey, ChangeScript)
  BY DEF TransferResults, TransferBuilds
<1> QED
  BY <1>1 DEF TransferTx

(***************************************************************************)
(* RedeemBuilder and the pipeline around it: the redeem of a position      *)
(* spends output 0 of its mint with a sequence number that enables the     *)
(* lock, and carries the position's unlock height, which has come.         *)
(***************************************************************************)
LEMMA RedeemResultLocks ==
  ASSUME NEW c \in RedeemCalls, NEW b \in RedeemResults(c)
  PROVE  /\ b.tx.version = "redeem"
         /\ b.tx.locktime = ReadPosition(c).unlock_height
         /\ atHeight[c] >= ReadPosition(c).unlock_height
         /\ [out |-> <<req[c].positionId, 0>>, sequence |-> "CLTV_ENABLED"] \in b.tx.inputs
<1> DEFINE lock == ReadPosition(c).unlock_height
<1>1. PICK collateral \in CollateralUTXOs(req[c].positionId) :
        b \in RedeemBuilds(ToRedeem(req[c], ReadPosition(c)), atHeight[c], lock,
                           collateral, Classified("dd_token"), Classified("standard"),
                           req[c].feeRate, WalletKey, ChangeScript)
  BY DEF RedeemResults
<1>2. collateral.out = <<req[c].positionId, 0>>
  BY DEF CollateralUTXOs
<1>3. atHeight[c] >= lock
  BY <1>1 DEF RedeemBuilds
<1>4. PICK tokens :
        b = RedeemTx(ToRedeem(req[c], ReadPosition(c)), lock, collateral, tokens,
                     Classified("standard"), req[c].feeRate, WalletKey, ChangeScript)
  BY <1>1 DEF RedeemBuilds
<1>5. /\ b.tx.version = "redeem" /\ b.tx.locktime = lock
      /\ Inputs({collateral} \union tokens, "CLTV_ENABLED") \subseteq b.tx.inputs
  BY <1>4 DEF RedeemTx
<1>6. [out |-> collateral.out, sequence |-> "CLTV_ENABLED"]
        \in Inputs({collateral} \union tokens, "CLTV_ENABLED")
  BY DEF Inputs
<1> QED
  BY <1>2, <1>3, <1>5, <1>6

----------------------------------------------------------------------------
(***************************************************************************)
(* What no step takes back: accepted transactions stay what they are and   *)
(* blocks are not undone.                                                  *)
(***************************************************************************)
Grows ==
  /\ Accepted \subseteq Accepted'
  /\ \A id \in Accepted : ledger'[id] = ledger[id]
  /\ height <= height'

(***************************************************************************)
(* A call is undisturbed by a step that leaves what it knows, or only ends *)
(* it.                                                                     *)
(***************************************************************************)
Undisturbed(c) ==
  /\ req'[c] = req[c] /\ atHeight'[c] = atHeight[c] /\ position'[c] = position[c]
  /\ sent'[c] = sent[c] /\ Sent(c)' = Sent(c)
  /\ pc'[c] = pc[c] \/ pc'[c] \in Ended

(***************************************************************************)
(* What is known of an undisturbed call stays known.                       *)
(***************************************************************************)
LEMMA CallKept ==
  ASSUME LockInv, TypeOK', Grows, NEW c \in Calls, Undisturbed(c)
  PROVE  CallInv(c)'
<1>1. CallInv(c)
  BY DEF LockInv
<1>2. height \in Nat /\ height' \in Nat /\ atHeight[c] \in Nat
  BY DEF LockInv, TypeOK
<1>3. atHeight'[c] <= height'
  BY <1>1, <1>2 DEF CallInv, Grows, Undisturbed
<1>4. (Sent(c) /\ sent[c].tx.version = "mint" => OpensPosition(sent[c].tx))'
  BY <1>1 DEF CallInv, Undisturbed, OpensPosition, Sent
<1>5. ASSUME c \in RedeemCalls PROVE RedeemInv(c)'
  <2>1. RedeemInv(c)
    BY <1>1, <1>5 DEF CallInv
  <2>2. /\ (pc[c] = "idle" => position[c] = {})'
        /\ (pc[c] \in {"height", "utxos"} => position[c] # {})'
    BY <2>1 DEF RedeemInv, Undisturbed, Ended
  <2>3. (\A p \in position[c] : IsPositionOf(p, req[c].positionId))'
    BY <2>1 DEF RedeemInv, Undisturbed, IsPositionOf, Grows
  <2>4. ASSUME Sent(c)'
        PROVE  (/\ req[c].positionId \in Accepted
                /\ sent[c].tx.locktime \in Nat
                /\ RespectsLock(c))'
    <3>1. /\ Sent(c) /\ req[c].positionId \in Accepted /\ RespectsLock(c)
          /\ sent[c].tx.locktime \in Nat
      BY <2>1, <2>4 DEF RedeemInv, Undisturbed
    <3>2. OutputOf(<<req[c].positionId, 0>>)' = OutputOf(<<req[c].positionId, 0>>)
      BY <3>1 DEF OutputOf, Undisturbed, Grows
    <3>3. sent[c].tx.locktime <= height'
      BY <3>1, <1>2 DEF RespectsLock, Grows
    <3> QED
      BY <3>1, <3>2, <3>3 DEF RespectsLock, Undisturbed, Grows
  <2> QED
    BY <2>2, <2>3, <2>4 DEF RedeemInv
<1> QED
  BY <1>3, <1>4, <1>5 DEF CallInv

(***************************************************************************)
(* The chain only grows, on every step.                                    *)
(***************************************************************************)
LEMMA LedgerGrows ==
  ASSUME TypeOK, [Next]_vars
  PROVE  Grows
<1> USE DEF Grows, Accepted, TypeOK
<1>1. ASSUME NEW c \in Calls, Starts(c) PROVE Grows
  BY <1>1 DEF Starts, MintReadsPrice, MintRefusesPrice, TransferSends,
     TransferCannotBuild, RedeemReadsPosition, RedeemReadsTrackerHeight, FirstReadFails,
     nodeVars
<1>2. ASSUME NEW c \in Calls, Continues(c) PROVE Grows
  BY <1>2 DEF Continues, MintReadsHeight, MintSends, MintCannotBuild,
     RedeemGetsTrackerHeight, RedeemGetsPosition, RedeemTracked, RedeemReadsHeight,
     RedeemSends, RedeemCannotBuild, ReadFails, SendReturns, SendTimesOut, nodeVars
<1>3. ASSUME NEW c \in Calls, Node(c) PROVE Grows
  BY <1>3 DEF Node, NodeAnswers, NodeAccepts, NodeKnows, NodeRejects, WithTx
<1>4. CASE PaymentArrives
  BY <1>4 DEF PaymentArrives, WithTx
<1>5. CASE NodeMines \/ OracleMoves \/ UNCHANGED vars
  BY <1>5 DEF NodeMines, OracleMoves, vars, nodeVars
<1> QED
  BY <1>1, <1>2, <1>3, <1>4, <1>5 DEF Next

(***************************************************************************)
(* Every mint on the ledger opens a position: the wallet's own were sent   *)
(* so, the others are assumed to.                                          *)
(***************************************************************************)
LEMMA MintsKeepOpening ==
  ASSUME LockInv, [Next]_vars
  PROVE  MintsOpenPositions'
<1> USE DEF MintsOpenPositions, OpensPosition, Accepted, LockInv
<1>1. CASE UNCHANGED ledger
  BY <1>1
<1>2. ASSUME NEW c \in Calls, NodeAccepts(c) PROVE MintsOpenPositions'
  BY <1>2 DEF NodeAccepts, NodeAnswers, WithTx, CallInv, Sent
<1>3. CASE PaymentArrives
  BY <1>3, OthersAssumption DEF PaymentArrives, WithTx
<1> QED
  BY <1>1, <1>2, <1>3
  DEF Next, Starts, MintReadsPrice, MintRefusesPrice, TransferSends,
     TransferCannotBuild, RedeemReadsPosition, RedeemReadsTrackerHeight, FirstReadFails,
     Continues, MintReadsHeight, MintSends, MintCannotBuild, RedeemGetsTrackerHeight,
     RedeemGetsPosition, RedeemTracked, RedeemReadsHeight, RedeemSends,
     RedeemCannotBuild, ReadFails, SendReturns, SendTimesOut, nodeVars,
     Node, NodeKnows, NodeRejects, NodeMines, OracleMoves, vars

----------------------------------------------------------------------------
(***************************************************************************)
(* A call does not disturb another.                                        *)
(***************************************************************************)
LEMMA OthersUndisturbed ==
  ASSUME TypeOK, NEW c \in Calls, Starts(c) \/ Continues(c) \/ Node(c),
         NEW d \in Calls, d # c
  PROVE  Undisturbed(d)
<1> USE DEF TypeOK, Undisturbed, Sent, Goes, Fails, Sends
<1>1. CASE Starts(c)
  BY <1>1 DEF Starts, MintReadsPrice, MintRefusesPrice, TransferSends,
     TransferCannotBuild, RedeemReadsPosition, RedeemReadsTrackerHeight, FirstReadFails
<1>2. CASE Continues(c)
  BY <1>2 DEF Continues, MintReadsHeight, MintSends, MintCannotBuild,
     RedeemGetsTrackerHeight, RedeemGetsPosition, RedeemTracked, RedeemReadsHeight,
     RedeemSends, RedeemCannotBuild, ReadFails, SendReturns, SendTimesOut
<1>3. CASE Node(c)
  BY <1>3 DEF Node, NodeAnswers, NodeAccepts, NodeKnows, NodeRejects
<1> QED
  BY <1>1, <1>2, <1>3

(***************************************************************************)
(* Errors, answers and timeouts end a call and leave what it knows.        *)
(***************************************************************************)
LEMMA EndingsDisturbNothing ==
  ASSUME TypeOK, NEW c \in Calls,
         \/ MintRefusesPrice(c) \/ TransferCannotBuild(c) \/ FirstReadFails(c)
         \/ MintCannotBuild(c) \/ RedeemCannotBuild(c) \/ ReadFails(c)
         \/ SendReturns(c) \/ SendTimesOut(c)
  PROVE  Undisturbed(c)
  BY DEF MintRefusesPrice, TransferCannotBuild, FirstReadFails, MintCannotBuild,
     RedeemCannotBuild, ReadFails, SendReturns, SendTimesOut, Fails, Goes, Undisturbed,
     Sent, Ended, TypeOK

(***************************************************************************)
(* The steps of a mint: what it sends opens a position.                    *)
(***************************************************************************)
LEMMA MintStep ==
  ASSUME LockInv, NEW c \in MintCalls,
         MintReadsPrice(c) \/ MintReadsHeight(c) \/ MintSends(c)
  PROVE  CallInv(c)'
<1>1. height \in Nat /\ CallInv(c) /\ c \notin RedeemCalls
  BY CallsAssumption DEF LockInv, TypeOK, Calls
<1>2. CASE MintReadsPrice(c)
  BY <1>1, <1>2 DEF MintReadsPrice, CallInv, Sent, OpensPosition, nodeVars
<1>3. CASE MintReadsHeight(c)
  BY <1>1, <1>3 DEF MintReadsHeight, CallInv, Sent, OpensPosition, LockInv, TypeOK,
     nodeVars
<1>4. CASE MintSends(c)
  <2>1. PICK b \in MintResults(c) : Sends(c, "utxos", b, KeyPath(b.tx))
    BY <1>4 DEF MintSends
  <2>2. OpensPosition(b.tx)
    BY MintResultOpens DEF LockInv
  <2>3. sent'[c].tx = b.tx /\ height' = height /\ atHeight' = atHeight
    BY <1>4, <2>1 DEF MintSends, Sends, LockInv, TypeOK, nodeVars, Calls
  <2> QED
    BY <1>1, <2>2, <2>3 DEF CallInv, OpensPosition
<1> QED
  BY <1>2, <1>3, <1>4

(***************************************************************************)
(* The step of a transfer: what it sends opens none.                       *)
(***************************************************************************)
LEMMA TransferStep ==
  ASSUME LockInv, NEW c \in TransferCalls, TransferSends(c)
  PROVE  CallInv(c)'
<1>1. CallInv(c) /\ c \notin RedeemCalls
  BY CallsAssumption DEF LockInv, Calls
<1>2. PICK r \in TransferRequests :
        \E b \in TransferResults(r) : Sends(c, "idle", b, KeyPath(b.tx))
  BY DEF TransferSends
<1>3. PICK b \in TransferResults(r) : Sends(c, "idle", b, KeyPath(b.tx))
  BY <1>2
<1>4. b.tx.version = "transfer"
  BY TransferVersion
<1>5. sent'[c].tx = b.tx /\ height' = height /\ atHeight' = atHeight
  BY <1>3 DEF TransferSends, Sends, LockInv, TypeOK, nodeVars, Calls
<1> QED
  BY <1>1, <1>4, <1>5 DEF CallInv

(***************************************************************************)
(* The position a redeem is told of is that of a mint on the ledger, and   *)
(* its unlock height is a height.                                          *)
(***************************************************************************)
LEMMA LookupReads ==
  ASSUME LockInv, NEW id, NEW p \in Lookup(id)
  PROVE  IsPositionOf(p, id)
  BY DEF Lookup, ListPositions, PositionOf, IsPositionOf, LockInv, TypeOK

(***************************************************************************)
(* Sending a redeem: its locktime is the lock of the script it spends, and *)
(* that height was reached when the height was read.                       *)
(***************************************************************************)
LEMMA RedeemSendStep ==
  ASSUME LockInv, NEW c \in RedeemCalls, RedeemSends(c)
  PROVE  CallInv(c)'
<1> DEFINE id == req[c].positionId
           p  == ReadPosition(c)
<1>1. PICK b \in RedeemResults(c) : Sends(c, "utxos", b, RedeemWitness(c, b.tx))
  BY DEF RedeemSends
<1>2. /\ UNCHANGED <<height, ledger, req, atHeight, position>>
      /\ sent'[c].tx = b.tx /\ pc[c] = "utxos" /\ pc'[c] = "send"
      /\ height \in Nat /\ atHeight[c] \in Nat
  BY <1>1 DEF RedeemSends, Sends, Goes, LockInv, TypeOK, nodeVars, Calls
<1>3. CallInv(c) /\ RedeemInv(c)
  BY DEF LockInv, CallInv, Calls
<1>4. p \in position[c]
  BY <1>2, <1>3 DEF RedeemInv, ReadPosition
<1>5. /\ id \in Accepted /\ OpensPosition(ledger[id])
      /\ p.unlock_height = OpReturnData(ledger[id]).lockHeight
  BY <1>3, <1>4 DEF RedeemInv, IsPositionOf, LockInv, MintsOpenPositions
<1>6. /\ p.unlock_height \in Nat
      /\ OutputOf(<<id, 0>>).script = CollateralMAST(WalletKey, p.unlock_height)
  BY <1>5 DEF OpensPosition, OutputOf
<1>7. /\ b.tx.version = "redeem" /\ b.tx.locktime = p.unlock_height
      /\ atHeight[c] >= p.unlock_height
      /\ [out |-> <<id, 0>>, sequence |-> "CLTV_ENABLED"] \in b.tx.inputs
  BY RedeemResultLocks
<1>8. b.tx.locktime \in Nat /\ b.tx.locktime <= height
  BY <1>2, <1>3, <1>6, <1>7 DEF CallInv
<1>9. RespectsLock(c)'
  BY <1>2, <1>6, <1>7, <1>8 DEF RespectsLock, OutputOf
<1>10. (\A q \in position[c] : IsPositionOf(q, req[c].positionId))'
  BY <1>2, <1>3 DEF RedeemInv, IsPositionOf, Accepted
<1>11. RedeemInv(c)'
  BY <1>2, <1>5, <1>8, <1>9, <1>10 DEF RedeemInv, Accepted
<1> QED
  BY <1>2, <1>3, <1>7, <1>11 DEF CallInv

(***************************************************************************)
(* The reads of a redeem: it goes on only with a position it was told of.  *)
(***************************************************************************)
LEMMA RedeemReadStep ==
  ASSUME LockInv, NEW c \in RedeemCalls,
         \/ RedeemReadsPosition(c) \/ RedeemReadsTrackerHeight(c)
         \/ RedeemGetsTrackerHeight(c) \/ RedeemGetsPosition(c) \/ RedeemReadsHeight(c)
  PROVE  CallInv(c)'
<1>1. /\ CallInv(c) /\ RedeemInv(c) /\ c \in Calls
      /\ height \in Nat /\ atHeight[c] \in Nat
  BY DEF LockInv, TypeOK, CallInv, Calls
<1>2. ~Sent(c) /\ UNCHANGED <<height, ledger, sent, wire>>
  BY <1>1 DEF RedeemReadsPosition, RedeemReadsTrackerHeight, RedeemGetsTrackerHeight,
     RedeemGetsPosition, RedeemTracked, RedeemReadsHeight, Goes, nodeVars, LockInv,
     TypeOK, Ended
<1>3. ~Sent(c)'
  BY <1>2 DEF Sent
<1>4. SUFFICES /\ atHeight'[c] <= height'
               /\ pc'[c] = "idle" => position'[c] = {}
               /\ pc'[c] \in {"height", "utxos"} => position'[c] # {}
               /\ \A p \in position'[c] : IsPositionOf(p, req'[c].positionId)
  BY <1>2, <1>3 DEF CallInv, RedeemInv, IsPositionOf, Accepted
<1> USE DEF Goes, CallInv, RedeemInv, LockInv, TypeOK
<1>5. CASE RedeemReadsPosition(c)
  BY <1>1, <1>2, <1>5, LookupReads DEF RedeemReadsPosition
<1>6. CASE RedeemReadsTrackerHeight(c)
  BY <1>1, <1>2, <1>6 DEF RedeemReadsTrackerHeight
<1>7. CASE RedeemGetsTrackerHeight(c)
  BY <1>1, <1>2, <1>7 DEF RedeemGetsTrackerHeight, RedeemTracked, Redeemable
<1>8. CASE RedeemGetsPosition(c)
  BY <1>1, <1>2, <1>8, LookupReads DEF RedeemGetsPosition, RedeemTracked, Redeemable
<1>9. CASE RedeemReadsHeight(c)
  BY <1>1, <1>2, <1>9 DEF RedeemReadsHeight
<1> QED
  BY <1>5, <1>6, <1>7, <1>8, <1>9

----------------------------------------------------------------------------
(***************************************************************************)
(* No call has read anything or sent anything before it starts, and the    *)
(* mints in the chain then are assumed to open positions.                  *)
(***************************************************************************)
LEMMA LockInvInit == Init => LockInv
<1> SUFFICES ASSUME Init PROVE LockInv
  OBVIOUS
<1>1. TypeOK
  BY TypeOKInit
<1>2. MintsOpenPositions
  BY EarlierAssumption, OthersAssumption DEF Init, MintsOpenPositions, Accepted
<1>3. ASSUME NEW c \in Calls PROVE CallInv(c)
  BY <1>3 DEF Init, CallInv, RedeemInv, Sent, Calls
<1> QED
  BY <1>1, <1>2, <1>3 DEF LockInv

(***************************************************************************)
(* A step of a call keeps what is known of it.                             *)
(***************************************************************************)
LEMMA CallStep ==
  ASSUME LockInv, TypeOK', Grows, NEW c \in Calls, Starts(c) \/ Continues(c) \/ Node(c)
  PROVE  CallInv(c)'
<1>1. CASE MintReadsPrice(c) \/ MintReadsHeight(c) \/ MintSends(c)
  BY <1>1, MintStep DEF MintReadsPrice, MintReadsHeight, MintSends
<1>2. CASE TransferSends(c)
  BY <1>2, TransferStep DEF TransferSends
<1>3. CASE RedeemSends(c)
  BY <1>3, RedeemSendStep DEF RedeemSends
<1>4. CASE \/ RedeemReadsPosition(c) \/ RedeemReadsTrackerHeight(c)
           \/ RedeemGetsTrackerHeight(c) \/ RedeemGetsPosition(c)
           \/ RedeemReadsHeight(c)
  BY <1>4, RedeemReadStep DEF RedeemReadsPosition, RedeemReadsTrackerHeight,
     RedeemGetsTrackerHeight, RedeemGetsPosition, RedeemTracked, RedeemReadsHeight
<1>5. CASE \/ MintRefusesPrice(c) \/ TransferCannotBuild(c) \/ FirstReadFails(c)
           \/ MintCannotBuild(c) \/ RedeemCannotBuild(c) \/ ReadFails(c)
           \/ SendReturns(c) \/ SendTimesOut(c)
  BY <1>5, EndingsDisturbNothing, CallKept DEF LockInv
<1>6. CASE Node(c)
  <2>1. Undisturbed(c)
    BY <1>6 DEF Node, NodeAnswers, NodeAccepts, NodeKnows, NodeRejects, Undisturbed,
       Sent, LockInv, TypeOK
  <2> QED
    BY <2>1, CallKept
<1> QED
  BY <1>1, <1>2, <1>3, <1>4, <1>5, <1>6 DEF Starts, Continues

(***************************************************************************)
(* The strengthened invariant is inductive.                                *)
(***************************************************************************)
LEMMA LockInvNext == LockInv /\ [Next]_vars => LockInv'
<1> SUFFICES ASSUME LockInv, [Next]_vars PROVE LockInv'
  OBVIOUS
<1>1. TypeOK' /\ Grows /\ MintsOpenPositions'
  BY TypeOKNext, LedgerGrows, MintsKeepOpening DEF LockInv
<1>2. ASSUME NEW c \in Calls PROVE CallInv(c)'
  <2>1. CASE Starts(c) \/ Continues(c) \/ Node(c)
    BY <1>1, <2>1, CallStep
  <2>2. CASE \E d \in Calls : d # c /\ (Starts(d) \/ Continues(d) \/ Node(d))
    BY <1>1, <2>2, OthersUndisturbed, CallKept DEF LockInv
  <2>3. CASE PaymentArrives \/ NodeMines \/ OracleMoves \/ UNCHANGED vars
    <3>1. Undisturbed(c)
      BY <2>3 DEF PaymentArrives, NodeMines, OracleMoves, vars, callVars, Undisturbed, Sent
    <3> QED
      BY <1>1, <3>1, CallKept
  <2> QED
    BY <2>1, <2>2, <2>3 DEF Next
<1> QED
  BY <1>1, <1>2 DEF LockInv

(***************************************************************************)
(* Whatever calls run at once and whatever the node does between their     *)
(* reads, a redeem that is sent carries the lock of the script it spends,  *)
(* and that height has come.                                               *)
(***************************************************************************)
THEOREM RedeemsWait == Spec => []RedeemRespectsLock
<1>1. LockInv => RedeemRespectsLock
  BY DEF LockInv, CallInv, RedeemInv, RedeemRespectsLock, Calls
<1> QED
  BY <1>1, LockInvInit, LockInvNext, PTL DEF Spec

-----------------------------------------------------------------------------
(***************************************************************************)
(* Time-locked collateral leaves by the redeem of its position only:       *)
(* proved for every interleaving of calls, every request and every coin.   *)
(*                                                                         *)
(* UTXOManager tells collateral from coins by what the parser makes of the *)
(* transaction that pays it.  The invariant therefore follows the outputs: *)
(* whatever is on the ledger or on its way there is recognized, that is, a *)
(* time lock is never an output the parser would call a coin or a token.   *)
(***************************************************************************)

(***************************************************************************)
(* What a call spends is on the ledger, and collateral only as it may be.  *)
(***************************************************************************)
SpendsRightly(c) ==
  \A out \in Spends(sent[c].tx) :
    /\ out \in Outs(Accepted)
    /\ TimeLocked(OutputOf(out)) => c \in RedeemCalls /\ out = <<req[c].positionId, 0>>

(***************************************************************************)
(* What a mint has asked for and read by the time it builds.               *)
(***************************************************************************)
MintKnows(c) ==
  c \in MintCalls /\ pc[c] \in {"height", "utxos"} =>
    /\ req[c] \in MintRequests
    /\ \E o \in OraclePrices : price[c] = o.price

CollateralInv ==
  /\ TypeOK
  /\ \A id \in Accepted : Recognized(ledger[id])
  /\ \A c \in Calls : Sent(c) => Recognized(sent[c].tx) /\ SpendsRightly(c)
  /\ \A c \in Calls : MintKnows(c)

----------------------------------------------------------------------------
(* Sequences of outputs without a time lock, put together. *)

Open(outputs) == \A i \in DOMAIN outputs : ~TimeLocked(outputs[i])

(***************************************************************************)
(* Behind the first of two sequences, the outputs of the second follow.    *)
(***************************************************************************)
LEMMA OpenAfter ==
  ASSUME NEW S, NEW a \in Seq(S), NEW T, NEW b \in Seq(T), Open(b),
         NEW i \in DOMAIN (a \o b), i > Len(a)
  PROVE  ~TimeLocked((a \o b)[i])
<1>1. i - Len(a) \in DOMAIN b /\ (a \o b)[i] = b[i - Len(a)]
  OBVIOUS
<1> QED
  BY <1>1 DEF Open

(***************************************************************************)
(* Two sequences without a time lock have none when put together.          *)
(***************************************************************************)
LEMMA OpenConcat ==
  ASSUME NEW S, NEW a \in Seq(S), NEW T, NEW b \in Seq(T), Open(a), Open(b)
  PROVE  a \o b \in Seq(S \union T) /\ Open(a \o b)
<1>1. a \in Seq(S \union T) /\ b \in Seq(S \union T)
  OBVIOUS
<1>2. a \o b \in Seq(S \union T)
  BY <1>1
<1>3. ASSUME NEW i \in DOMAIN (a \o b) PROVE ~TimeLocked((a \o b)[i])
  <2>1. CASE i <= Len(a)
    BY <2>1 DEF Open
  <2>2. CASE i > Len(a)
    BY <2>2, OpenAfter
  <2> QED
    BY <2>1, <2>2
<1> QED
  BY <1>2, <1>3 DEF Open

(***************************************************************************)
(* Tokens, change and metadata carry no time lock.                         *)
(***************************************************************************)
LEMMA PlainOutputs ==
  ASSUME NEW value, NEW key, NEW data
  PROVE  /\ ~TimeLocked(Paying(value, TokenP2TR(key)))
         /\ ~TimeLocked(Metadata(data))
  BY DEF TimeLocked, IsP2TR, Paying, Metadata, TokenP2TR, P2TR, OpReturn

(***************************************************************************)
(* Nor has the change a builder adds, if it adds any.                      *)
(***************************************************************************)
LEMMA ChangeIsOpen ==
  ASSUME NEW change
  PROVE  /\ ChangeOutputs(change, ChangeScript) \in Seq({Paying(change, ChangeScript)})
         /\ Open(ChangeOutputs(change, ChangeScript))
<1>1. ~TimeLocked(Paying(change, ChangeScript))
  BY PlainOutputs DEF ChangeScript
<1>2. CASE change >= DUST_THRESHOLD
  BY <1>1, <1>2 DEF ChangeOutputs, Open
<1>3. CASE ~(change >= DUST_THRESHOLD)
  BY <1>3 DEF ChangeOutputs, Open
<1> QED
  BY <1>2, <1>3

----------------------------------------------------------------------------
(***************************************************************************)
(* MintBuilder makes one time lock, in output 0, and puts the collateral   *)
(* there.                                                                  *)
(***************************************************************************)
LEMMA MintTxRecognized ==
  ASSUME NEW r, NEW coins, NEW collateral, collateral > 0, NEW lock
  PROVE  Recognized(MintTx(r, coins, collateral, lock, WalletKey, ChangeScript).tx)
<1> DEFINE tx     == MintTx(r, coins, collateral, lock, WalletKey, ChangeScript).tx
           change == ValueOf(coins) - collateral - MintFee(coins, r.feeRate)
           data   == [txType |-> "mint", amounts |-> <<r.ddAmountCents>>,
                      lockHeight |-> lock, lockTier |-> r.lockTier]
           locked == Paying(collateral, CollateralMAST(WalletKey, lock))
           token  == Paying(0, TokenP2TR(WalletKey))
           meta   == Metadata(data)
           last   == ChangeOutputs(change, ChangeScript)
<1>1. tx.outputs = <<locked, token, meta>> \o last /\ tx.version = "mint"
  BY DEF MintTx
<1>2. last \in Seq({Paying(change, ChangeScript)}) /\ Open(last)
  BY ChangeIsOpen
<1>3. ~TimeLocked(token) /\ ~TimeLocked(meta) /\ locked.value > 0
  BY PlainOutputs DEF Paying
<1> DEFINE first == <<locked, token, meta>>
<1> HIDE DEF tx, change, last, locked, token, meta
<1>4. first \in Seq({locked, token, meta}) /\ Len(first) = 3
  OBVIOUS
<1>5. ASSUME NEW v \in Vouts(tx), v # 0 PROVE ~TimeLocked(Output(tx, v))
  <2>1. v + 1 \in DOMAIN (first \o last) /\ v + 1 > 1 /\ v + 1 \in Nat
    BY <1>1, <1>2, <1>5, <1>4 DEF Vouts
  <2>2. CASE v + 1 \in {2, 3}
    <3>1. tx.outputs[v + 1] \in {token, meta}
      BY <1>1, <1>2, <2>2
    <3> QED
      BY <1>3, <3>1 DEF Output
  <2>3. CASE v + 1 > 3
    <3> HIDE DEF first
    <3>1. ~TimeLocked((first \o last)[v + 1])
      BY <1>2, <1>4, <2>1, <2>3, OpenAfter, SMTT(60)
    <3> QED
      BY <1>1, <3>1 DEF Output, first
  <2> QED
    BY <2>1, <2>2, <2>3
<1>6. Output(tx, 0) = locked
  BY <1>1, <1>2 DEF Output
<1>7. IsDigiDollarTx(tx)
  BY <1>1 DEF IsDigiDollarTx
<1> QED
  BY <1>3, <1>5, <1>6, <1>7 DEF Recognized, tx

(***************************************************************************)
(* A transaction without a time lock has nothing to recognize.             *)
(***************************************************************************)
LEMMA OpenIsRecognized ==
  ASSUME NEW tx, NEW S, tx.outputs \in Seq(S), Open(tx.outputs)
  PROVE  Recognized(tx)
<1>1. ASSUME NEW v \in Vouts(tx) PROVE v + 1 \in DOMAIN tx.outputs
  BY DEF Vouts
<1> QED
  BY <1>1 DEF Recognized, Output, Open

(***************************************************************************)
(* TransferBuilder makes no time lock, whatever the recipients, the change *)
(* and the coins.                                                          *)
(***************************************************************************)
LEMMA TransferTxRecognized ==
  ASSUME NEW r \in TransferRequests, NEW tokens, NEW coins
  PROVE  Recognized(TransferTx(r, tokens, coins, WalletKey, ChangeScript).tx)
<1> DEFINE tx       == TransferTx(r, tokens, coins, WalletKey, ChangeScript).tx
           ddChange == CentsOf(tokens) - RecipientCents(r.recipients)
           back     == IF ddChange > 0 THEN <<ddChange>> ELSE << >>
           cents    == TokenAmounts(r.recipients, back)
           toOther(i) == Paying(0, TokenP2TR(DecodeAddress(r.recipients[i].to)))
           toOthers == [i \in DOMAIN r.recipients |-> toOther(i)]
           toSelf   == [i \in DOMAIN back |-> Paying(0, TokenP2TR(WalletKey))]
           n        == Cardinality(tokens) + Cardinality(coins)
           fee      == Max({MIN_DD_FEE,
                            CalculateFee(EstimateVsize(n, Len(cents) + 2, 1), r.feeRate)})
           change   == ValueOf(coins) - fee
           rest     == ChangeOutputs(change, ChangeScript)
           meta     == Metadata([txType |-> "transfer", amounts |-> cents])
           A        == {toOther(i) : i \in DOMAIN r.recipients}
           B        == {Paying(0, TokenP2TR(WalletKey))}
           D        == {Paying(change, ChangeScript)}
<1>1. tx.outputs = toOthers \o toSelf \o rest \o <<meta>>
  BY DEF TransferTx
<1>2. PICK k \in Nat : DOMAIN r.recipients = 1 .. k
  <2> DEFINE R == {r.recipients[i] : i \in DOMAIN r.recipients}
  <2>1. r.recipients \in Seq(R)
    BY RecipientsAssumption
  <2> HIDE DEF R
  <2>2. Len(r.recipients) \in Nat /\ DOMAIN r.recipients = 1 .. Len(r.recipients)
    BY <2>1
  <2> QED
    BY <2>2
<1>3. toOthers \in Seq(A) /\ Open(toOthers)
  <2>1. \A i \in DOMAIN r.recipients : ~TimeLocked(toOther(i))
    BY PlainOutputs
  <2> HIDE DEF toOther
  <2> QED
    BY <1>2, <2>1, SMTT(60) DEF Open
<1>4. toSelf \in Seq(B) /\ Open(toSelf)
  <2>1. ~TimeLocked(Paying(0, TokenP2TR(WalletKey)))
    BY PlainOutputs
  <2>2. DOMAIN back = 1 .. 1 \/ DOMAIN back = 1 .. 0
    OBVIOUS
  <2> HIDE DEF back
  <2> QED
    BY <2>1, <2>2 DEF Open
<1>5. rest \in Seq(D) /\ Open(rest)
  BY ChangeIsOpen
<1>6. <<meta>> \in Seq({meta}) /\ Open(<<meta>>)
  <2>1. ~TimeLocked(meta)
    BY PlainOutputs
  <2> HIDE DEF meta
  <2> QED
    BY <2>1 DEF Open
<1> HIDE DEF tx, toOthers, toSelf, rest, meta, A, B, D
<1>7. toOthers \o toSelf \in Seq(A \union B) /\ Open(toOthers \o toSelf)
  BY <1>3, <1>4, OpenConcat
<1>8. /\ toOthers \o toSelf \o rest \in Seq(A \union B \union D)
      /\ Open(toOthers \o toSelf \o rest)
  BY <1>5, <1>7, OpenConcat
<1>9. /\ toOthers \o toSelf \o rest \o <<meta>> \in Seq(A \union B \union D \union {meta})
      /\ Open(toOthers \o toSelf \o rest \o <<meta>>)
  BY <1>6, <1>8, OpenConcat
<1>10. tx.outputs \in Seq(A \union B \union D \union {meta}) /\ Open(tx.outputs)
  BY <1>1, <1>9
<1> QED
  BY <1>10, OpenIsRecognized, SMTT(60) DEF tx

(***************************************************************************)
(* Nor does RedeemBuilder: what comes back is the wallet's at once.        *)
(***************************************************************************)
LEMMA RedeemTxRecognized ==
  ASSUME NEW cents, NEW unlock, NEW collateral, NEW tokens, NEW coins, NEW rate
  PROVE  Recognized(RedeemTx(cents, unlock, collateral, tokens, coins, rate,
                             WalletKey, ChangeScript).tx)
<1> DEFINE tx       == RedeemTx(cents, unlock, collateral, tokens, coins, rate,
                                WalletKey, ChangeScript).tx
           ddChange == CentsOf(tokens) - cents
           back     == DDChangeOutputs(ddChange, WalletKey)
           n        == 1 + Cardinality(tokens) + Cardinality(coins)
           vsize    == EstimateVsize(n, Len(back) + 2, IF ddChange > 0 THEN 1 ELSE 0)
           fee      == Max({MIN_REDEEM_FEE, CalculateFee(vsize, rate)})
           change   == ValueOf(coins) - fee
           first    == Paying(collateral.value, ChangeScript)
           token    == Paying(0, TokenP2TR(WalletKey))
           meta     == Metadata([txType |-> "redeem", amounts |-> <<ddChange>>])
           rest     == ChangeOutputs(change, ChangeScript)
           D        == {Paying(change, ChangeScript)}
<1>1. tx.outputs = <<first>> \o back \o rest
  BY DEF RedeemTx
<1>2. /\ ~TimeLocked(first) /\ ~TimeLocked(token) /\ ~TimeLocked(meta)
      /\ back = <<token, meta>> \/ back = << >>
  BY PlainOutputs DEF DDChangeOutputs, ChangeScript
<1>3. rest \in Seq(D) /\ Open(rest)
  BY ChangeIsOpen
<1> HIDE DEF tx, first, token, meta, back, rest, D
<1>4. <<first>> \in Seq({first}) /\ Open(<<first>>)
  BY <1>2 DEF Open
<1>5. back \in Seq({token, meta}) /\ Open(back)
  <2>1. CASE back = <<token, meta>>
    BY <1>2, <2>1 DEF Open
  <2>2. CASE back = << >>
    BY <2>2 DEF Open
  <2> QED
    BY <1>2, <2>1, <2>2
<1>6. <<first>> \o back \in Seq({first} \union {token, meta}) /\ Open(<<first>> \o back)
  BY <1>4, <1>5, OpenConcat
<1>7. /\ <<first>> \o back \o rest \in Seq({first} \union {token, meta} \union D)
      /\ Open(<<first>> \o back \o rest)
  BY <1>3, <1>6, OpenConcat
<1>8. tx.outputs \in Seq({first} \union {token, meta} \union D) /\ Open(tx.outputs)
  BY <1>1, <1>7
<1> QED
  BY <1>8, OpenIsRecognized DEF tx

----------------------------------------------------------------------------
(***************************************************************************)
(* UTXOManager: what it lists is on the ledger, and no coin or token it    *)
(* lists is time-locked.                                                   *)
(***************************************************************************)
LEMMA ListedIsUnlocked ==
  ASSUME CollateralInv, NEW class, NEW u \in Classified(class)
  PROVE  /\ u.out \in Outs(Accepted)
         /\ class \in {"standard", "dd_token"} => ~TimeLocked(OutputOf(u.out))
<1>1. PICK out \in ListUnspent : u = UTXO(out) /\ Classify(ledger[out[1]], out[2]) = class
  BY DEF Classified
<1>2. u.out = out
  BY <1>1 DEF UTXO
<1>3. PICK id \in confirmed : \E v \in Vouts(ledger[id]) : out = <<id, v>>
  BY DEF ListUnspent, Outs
<1>4. PICK v \in Vouts(ledger[id]) : out = <<id, v>>
  BY <1>3
<1>5. id \in Accepted /\ Recognized(ledger[id])
  BY DEF CollateralInv, TypeOK
<1>6. out \in Outs(Accepted)
  BY <1>4, <1>5 DEF Outs
<1>7. ASSUME TimeLocked(OutputOf(out)) PROVE class = "dd_collateral"
  <2>1. /\ IsDigiDollarTx(ledger[id]) /\ Output(ledger[id], v).value > 0
        /\ Output(ledger[id], v).script.type = "p2tr"
    BY <1>4, <1>5, <1>7 DEF Recognized, OutputOf, TimeLocked, IsP2TR
  <2>2. ~IsToken(Output(ledger[id], v)) /\ IsP2TR(Output(ledger[id], v))
    BY <2>1 DEF IsToken, IsP2TR
  <2>3. Classify(ledger[id], v) = "dd_collateral"
    BY <2>1, <2>2 DEF Classify
  <2> QED
    BY <1>1, <1>4, <2>3
<1> QED
  BY <1>2, <1>6, <1>7

(***************************************************************************)
(* Coins and tokens of a builder are among those it was given.             *)
(***************************************************************************)
LEMMA ChosenAreListed ==
  ASSUME NEW utxos, NEW target
  PROVE  /\ \A coins \in SelectCoins(utxos, target) : coins \subseteq utxos
         /\ \A tokens \in SelectDD(utxos, target) : tokens \subseteq utxos
  BY DEF SelectCoins, SelectDD, LargestFirst

(***************************************************************************)
(* An input of a builder spends one of the coins it was made from.         *)
(***************************************************************************)
LEMMA SpentByInputs ==
  ASSUME NEW utxos, NEW sequence, NEW i \in Inputs(utxos, sequence)
  PROVE  \E u \in utxos : i.out = u.out
  BY DEF Inputs

(***************************************************************************)
(* What a mint sends is recognized and spends coins that are not locked.   *)
(***************************************************************************)
LEMMA MintSendsRightly ==
  ASSUME CollateralInv, NEW c \in MintCalls, pc[c] = "utxos", NEW b \in MintResults(c)
  PROVE  /\ Recognized(b.tx)
         /\ \A out \in Spends(b.tx) :
              out \in Outs(Accepted) /\ ~TimeLocked(OutputOf(out))
<1> DEFINE tier       == LOCK_TIERS[req[c].lockTier]
           collateral == CollateralSats(req[c].ddAmountCents, price[c], tier.ratio)
           target     == MintTarget(collateral, req[c].feeRate)
           lock       == atHeight[c] + tier.blocks
<1>1. /\ req[c].ddAmountCents > 0 /\ req[c].lockTier \in DOMAIN LOCK_TIERS /\ price[c] > 0
      /\ \E coins \in SelectCoins(Classified("standard"), target) :
           b = MintTx(req[c], coins, collateral, lock, WalletKey, ChangeScript)
  BY DEF MintResults, MintBuilds
<1>2. req[c] \in MintRequests /\ \E o \in OraclePrices : price[c] = o.price
  BY DEF CollateralInv, MintKnows, Calls
<1>3. collateral > 0
  BY <1>1, <1>2, PricesAssumption
<1> HIDE DEF collateral, target, lock
<1>4. PICK coins \in SelectCoins(Classified("standard"), target) :
        b = MintTx(req[c], coins, collateral, lock, WalletKey, ChangeScript)
  BY <1>1
<1>5. Recognized(b.tx)
  BY <1>3, <1>4, MintTxRecognized
<1>6. b.tx.inputs = Inputs(coins, "FINAL")
  BY <1>4 DEF MintTx
<1>7. \A out \in Spends(b.tx) : \E u \in coins : out = u.out
  BY <1>6, SpentByInputs DEF Spends
<1> QED
  BY <1>5, <1>7, ChosenAreListed, ListedIsUnlocked

(***************************************************************************)
(* So it is with what a transfer sends.                                    *)
(***************************************************************************)
LEMMA TransferSendsRightly ==
  ASSUME CollateralInv, NEW r \in TransferRequests, NEW b \in TransferResults(r)
  PROVE  /\ Recognized(b.tx)
         /\ \A out \in Spends(b.tx) :
              out \in Outs(Accepted) /\ ~TimeLocked(OutputOf(out))
<1> DEFINE coins == Classified("standard")
<1>1. PICK tokens \in SelectDD(Classified("dd_token"), RecipientCents(r.recipients)) :
        b = TransferTx(r, tokens, coins, WalletKey, ChangeScript)
  BY DEF TransferResults, TransferBuilds
<1>2. Recognized(b.tx)
  BY <1>1, TransferTxRecognized
<1>3. b.tx.inputs = Inputs(tokens \union coins, "FINAL")
  BY <1>1 DEF TransferTx
<1>4. \A out \in Spends(b.tx) : \E u \in tokens \union coins : out = u.out
  BY <1>3, SpentByInputs DEF Spends
<1> QED
  BY <1>2, <1>4, ChosenAreListed, ListedIsUnlocked

(***************************************************************************)
(* What a redeem sends spends no lock but that of its position.            *)
(***************************************************************************)
LEMMA RedeemSendsRightly ==
  ASSUME CollateralInv, NEW c \in RedeemCalls, NEW b \in RedeemResults(c)
  PROVE  /\ Recognized(b.tx)
         /\ \A out \in Spends(b.tx) :
              /\ out \in Outs(Accepted)
              /\ TimeLocked(OutputOf(out)) => out = <<req[c].positionId, 0>>
<1> DEFINE coins == Classified("standard")
           cents == ToRedeem(req[c], ReadPosition(c))
           lock  == ReadPosition(c).unlock_height
<1>1. PICK collateral \in CollateralUTXOs(req[c].positionId) :
        b \in RedeemBuilds(cents, atHeight[c], lock, collateral, Classified("dd_token"),
                           coins, req[c].feeRate, WalletKey, ChangeScript)
  BY DEF RedeemResults
<1>2. PICK tokens \in SelectDD(Classified("dd_token"), cents) :
        b = RedeemTx(cents, lock, collateral, tokens, coins, req[c].feeRate,
                     WalletKey, ChangeScript)
  BY <1>1 DEF RedeemBuilds
<1>3. Recognized(b.tx)
  BY <1>2, RedeemTxRecognized
<1>4. b.tx.inputs = Inputs({collateral} \union tokens, "CLTV_ENABLED")
                       \union Inputs(coins, "FINAL")
  BY <1>2 DEF RedeemTx
<1>5. \A out \in Spends(b.tx) :
        \E u \in {collateral} \union tokens \union coins : out = u.out
  <2>1. \A i \in b.tx.inputs : \E u \in {collateral} \union tokens \union coins : i.out = u.out
    BY <1>4, SpentByInputs
  <2> QED
    BY <2>1 DEF Spends
<1>6. collateral \in Classified("dd_collateral") /\ collateral.out = <<req[c].positionId, 0>>
  BY DEF CollateralUTXOs
<1> QED
  BY <1>3, <1>5, <1>6, ChosenAreListed, ListedIsUnlocked

----------------------------------------------------------------------------
(***************************************************************************)
(* The three places where a call sends.                                    *)
(***************************************************************************)
LEMMA SendingKeeps ==
  ASSUME CollateralInv, NEW c \in Calls, MintSends(c) \/ TransferSends(c) \/ RedeemSends(c)
  PROVE  (Recognized(sent[c].tx) /\ SpendsRightly(c))'
<1>1. CASE MintSends(c)
  <2>1. PICK b \in MintResults(c) : Sends(c, "utxos", b, KeyPath(b.tx))
    BY <1>1 DEF MintSends
  <2>2. sent'[c].tx = b.tx /\ UNCHANGED <<ledger, req>>
    BY <1>1, <2>1 DEF MintSends, Sends, CollateralInv, TypeOK, nodeVars
  <2> QED
    BY <1>1, <2>2, MintSendsRightly
    DEF MintSends, SpendsRightly, Recognized, Spends, Outs, Accepted, OutputOf
<1>2. CASE TransferSends(c)
  <2>1. PICK r \in TransferRequests :
          req' = [req EXCEPT ![c] = r]
          /\ \E b \in TransferResults(r) : Sends(c, "idle", b, KeyPath(b.tx))
    BY <1>2 DEF TransferSends
  <2>2. PICK b \in TransferResults(r) : Sends(c, "idle", b, KeyPath(b.tx))
    BY <2>1
  <2>3. sent'[c].tx = b.tx /\ UNCHANGED ledger
    BY <1>2, <2>2 DEF TransferSends, Sends, CollateralInv, TypeOK, nodeVars
  <2> QED
    BY <2>3, TransferSendsRightly
    DEF SpendsRightly, Recognized, Spends, Outs, Accepted, OutputOf
<1>3. CASE RedeemSends(c)
  <2>1. PICK b \in RedeemResults(c) : Sends(c, "utxos", b, RedeemWitness(c, b.tx))
    BY <1>3 DEF RedeemSends
  <2>2. sent'[c].tx = b.tx /\ UNCHANGED <<ledger, req>>
    BY <1>3, <2>1 DEF RedeemSends, Sends, CollateralInv, TypeOK, nodeVars
  <2> QED
    BY <1>3, <2>2, RedeemSendsRightly
    DEF RedeemSends, SpendsRightly, Recognized, Spends, Outs, Accepted, OutputOf
<1> QED
  BY <1>1, <1>2, <1>3

(***************************************************************************)
(* What a call has sent stays right while the ledger grows, and every step *)
(* that does not send leaves it alone.                                     *)
(***************************************************************************)
LEMMA SentKept ==
  ASSUME Grows, NEW c \in Calls, SpendsRightly(c), req'[c] = req[c], sent'[c] = sent[c]
  PROVE  SpendsRightly(c)'
<1> SUFFICES ASSUME NEW out \in Spends(sent[c].tx)
             PROVE  /\ out \in Outs(Accepted)'
                    /\ OutputOf(out)' = OutputOf(out)
  BY DEF SpendsRightly, TimeLocked, IsP2TR, Spends
<1>1. PICK id \in Accepted : \E v \in Vouts(ledger[id]) : out = <<id, v>>
  BY DEF SpendsRightly, Outs
<1> QED
  BY <1>1 DEF Grows, Outs, OutputOf

(***************************************************************************)
(* A step of a call that does not send leaves what it sent, and for what.  *)
(***************************************************************************)
LEMMA QuietSteps ==
  ASSUME TypeOK, NEW c \in Calls,
         Starts(c) \/ Continues(c) \/ Node(c),
         ~MintSends(c), ~TransferSends(c), ~RedeemSends(c)
  PROVE  Sent(c)' = Sent(c) /\ (Sent(c) => req'[c] = req[c]) /\ sent'[c] = sent[c]
<1> USE DEF TypeOK, Sent, Goes, Fails, Ended
<1>1. CASE Starts(c)
  BY <1>1 DEF Starts, MintReadsPrice, MintRefusesPrice, TransferCannotBuild,
     RedeemReadsPosition, RedeemReadsTrackerHeight, FirstReadFails
<1>2. CASE Continues(c)
  BY <1>2 DEF Continues, MintReadsHeight, MintCannotBuild, RedeemGetsTrackerHeight,
     RedeemGetsPosition, RedeemTracked, RedeemReadsHeight, RedeemCannotBuild, ReadFails,
     SendReturns, SendTimesOut
<1>3. CASE Node(c)
  BY <1>3 DEF Node, NodeAnswers, NodeAccepts, NodeKnows, NodeRejects
<1> QED
  BY <1>1, <1>2, <1>3

(***************************************************************************)
(* On every step, what a call has sent is recognized and spends rightly.   *)
(***************************************************************************)
LEMMA SentRightly ==
  ASSUME CollateralInv, TypeOK', Grows, [Next]_vars, NEW c \in Calls
  PROVE  (Sent(c) => Recognized(sent[c].tx) /\ SpendsRightly(c))'
<1>1. TypeOK /\ (Sent(c) => Recognized(sent[c].tx) /\ SpendsRightly(c))
  BY DEF CollateralInv
<1>2. CASE MintSends(c) \/ TransferSends(c) \/ RedeemSends(c)
  BY <1>2, SendingKeeps
<1>3. CASE /\ Starts(c) \/ Continues(c) \/ Node(c)
           /\ ~MintSends(c) /\ ~TransferSends(c) /\ ~RedeemSends(c)
  <2>1. Sent(c)' = Sent(c) /\ (Sent(c) => req'[c] = req[c]) /\ sent'[c] = sent[c]
    BY <1>1, <1>3, QuietSteps
  <2> QED
    BY <1>1, <2>1, SentKept DEF Recognized
<1>4. CASE \E d \in Calls : d # c /\ (Starts(d) \/ Continues(d) \/ Node(d))
  <2>1. Undisturbed(c)
    BY <1>1, <1>4, OthersUndisturbed
  <2> QED
    BY <1>1, <2>1, SentKept DEF Recognized, Undisturbed
<1>5. CASE PaymentArrives \/ NodeMines \/ OracleMoves \/ UNCHANGED vars
  <2>1. Sent(c)' = Sent(c) /\ req'[c] = req[c] /\ sent'[c] = sent[c]
    BY <1>5 DEF PaymentArrives, NodeMines, OracleMoves, vars, callVars, Sent
  <2> QED
    BY <1>1, <2>1, SentKept DEF Recognized
<1> QED
  BY <1>2, <1>3, <1>4, <1>5 DEF Next

----------------------------------------------------------------------------
(***************************************************************************)
(* The ledger takes what was sent, and payments from elsewhere.            *)
(***************************************************************************)
LEMMA LedgerRecognized ==
  ASSUME CollateralInv, [Next]_vars
  PROVE  (\A id \in Accepted : Recognized(ledger[id]))'
<1> USE DEF Accepted, CollateralInv, Recognized
<1>1. CASE UNCHANGED ledger
  BY <1>1
<1>2. ASSUME NEW c \in Calls, NodeAccepts(c)
      PROVE  (\A id \in Accepted : Recognized(ledger[id]))'
  BY <1>2 DEF NodeAccepts, NodeAnswers, WithTx, Sent
<1>3. CASE PaymentArrives
  BY <1>3, RecognizedAssumption DEF PaymentArrives, WithTx
<1> QED
  BY <1>1, <1>2, <1>3
  DEF Next, Starts, MintReadsPrice, MintRefusesPrice, TransferSends,
     TransferCannotBuild, RedeemReadsPosition, RedeemReadsTrackerHeight, FirstReadFails,
     Continues, MintReadsHeight, MintSends, MintCannotBuild, RedeemGetsTrackerHeight,
     RedeemGetsPosition, RedeemTracked, RedeemReadsHeight, RedeemSends,
     RedeemCannotBuild, ReadFails, SendReturns, SendTimesOut, nodeVars,
     Node, NodeKnows, NodeRejects, NodeMines, OracleMoves, vars

(***************************************************************************)
(* A mint keeps its request and the price it read, which the oracle told.  *)
(***************************************************************************)
LEMMA MintKeepsKnowing ==
  ASSUME TypeOK, [Next]_vars, NEW c \in Calls, MintKnows(c)
  PROVE  MintKnows(c)'
<1> USE DEF MintKnows, TypeOK, Goes, Fails, Sends, Ended, nodeVars
<1>1. ASSUME NEW d \in Calls, Starts(d) PROVE MintKnows(c)'
  BY <1>1, CallsAssumption DEF Starts, MintReadsPrice, MintRefusesPrice, TransferSends,
     TransferCannotBuild, RedeemReadsPosition, RedeemReadsTrackerHeight, FirstReadFails
<1>2. ASSUME NEW d \in Calls, Continues(d) PROVE MintKnows(c)'
  BY <1>2, CallsAssumption DEF Continues, MintReadsHeight, MintSends, MintCannotBuild,
     RedeemGetsTrackerHeight, RedeemGetsPosition, RedeemTracked, RedeemReadsHeight,
     RedeemSends, RedeemCannotBuild, ReadFails, SendReturns, SendTimesOut
<1>3. ASSUME NEW d \in Calls, Node(d) PROVE MintKnows(c)'
  BY <1>3 DEF Node, NodeAnswers, NodeAccepts, NodeKnows, NodeRejects
<1>4. CASE PaymentArrives \/ NodeMines \/ OracleMoves \/ UNCHANGED vars
  BY <1>4 DEF PaymentArrives, NodeMines, OracleMoves, vars, callVars
<1> QED
  BY <1>1, <1>2, <1>3, <1>4 DEF Next

(***************************************************************************)
(* The strengthened invariant is inductive.                                *)
(***************************************************************************)
LEMMA CollateralInvInit == Init => CollateralInv
<1> SUFFICES ASSUME Init PROVE CollateralInv
  OBVIOUS
<1>1. TypeOK
  BY TypeOKInit
<1>2. \A id \in Accepted : Recognized(ledger[id])
  BY EarlierAssumption, RecognizedAssumption DEF Init, Accepted
<1>3. \A c \in Calls : ~Sent(c) /\ MintKnows(c)
  BY DEF Init, Sent, MintKnows
<1> QED
  BY <1>1, <1>2, <1>3 DEF CollateralInv

(***************************************************************************)
(* Every step keeps it.                                                    *)
(***************************************************************************)
LEMMA CollateralInvNext == CollateralInv /\ [Next]_vars => CollateralInv'
<1> SUFFICES ASSUME CollateralInv, [Next]_vars PROVE CollateralInv'
  OBVIOUS
<1>1. TypeOK' /\ Grows
  BY TypeOKNext, LedgerGrows DEF CollateralInv
<1>2. (\A id \in Accepted : Recognized(ledger[id]))'
  BY LedgerRecognized
<1>3. \A c \in Calls : (Sent(c) => Recognized(sent[c].tx) /\ SpendsRightly(c))'
  BY <1>1, SentRightly
<1>4. \A c \in Calls : MintKnows(c)'
  BY MintKeepsKnowing DEF CollateralInv
<1> QED
  BY <1>1, <1>2, <1>3, <1>4 DEF CollateralInv

(***************************************************************************)
(* However calls and the node interleave, nothing the SDK sends spends     *)
(* time-locked collateral but the redeem of its position.                  *)
(***************************************************************************)
THEOREM CollateralStays == Spec => []CollateralLeavesByRedeemOnly
<1>1. CollateralInv => CollateralLeavesByRedeemOnly
  BY DEF CollateralInv, SpendsRightly, CollateralLeavesByRedeemOnly
<1> QED
  BY <1>1, CollateralInvInit, CollateralInvNext, PTL DEF Spec

----------------------------------------------------------------------------
(***************************************************************************)
(* What is sent is made of coins that exist, each with the one witness the *)
(* SDK has for its kind: the default key's for a coin that is not locked,  *)
(* whatever its key, and the script path's for the collateral that the     *)
(* position's mint locked.  Whether the signer tweaks its key decides what *)
(* that first witness is, and nothing of how transactions are made.        *)
(***************************************************************************)
InputMade(output, witness, sequence, locktime) ==
  /\ IsP2TR(output)
  /\ IF TimeLocked(output)
     THEN /\ ScriptPathFits(output.script, witness, sequence, locktime)
          /\ witness.signature.spendType = SpendType(TRUE)
     ELSE witness = KeyPathWitness(Signature(FALSE))

Made(c) ==
  /\ Spends(sent[c].tx) # {}
  /\ Spends(sent[c].tx) \subseteq Outs(Accepted)
  /\ \A i \in sent[c].tx.inputs :
       InputMade(OutputOf(i.out), sent[c].witness[i.out], i.sequence, sent[c].tx.locktime)
  /\ Final(sent[c].tx)

MadeInv ==
  /\ CollateralInv /\ LockInv
  /\ \A c \in Calls : Sent(c) => Made(c) /\ sent[c].tx.locktime \in Nat

(***************************************************************************)
(* A coin or token of the wallet has the default key's witness.            *)
(***************************************************************************)
LEMMA KeyPathMade ==
  ASSUME NEW class, NEW u \in Classified(class), ~TimeLocked(OutputOf(u.out)),
         NEW sequence, NEW locktime
  PROVE  InputMade(OutputOf(u.out), KeyPathWitness(Signature(FALSE)), sequence, locktime)
<1>1. IsP2TR(OutputOf(u.out))
  BY DEF Classified, ListUnspent, UTXO, Mine, IsP2TR
<1> QED
  BY <1>1 DEF InputMade

(***************************************************************************)
(* The script path fits the collateral once its lock is the locktime.      *)
(***************************************************************************)
LEMMA ScriptPathMade ==
  ASSUME NEW lock \in Nat, NEW output, output.script = CollateralMAST(WalletKey, lock)
  PROVE  InputMade(output, CollateralPath(lock), "CLTV_ENABLED", lock)
<1> DEFINE normal == NormalLeaf(WalletKey, lock)
           err    == ERRLeaf(WalletKey, lock)
<1>1. /\ CollateralMAST(WalletKey, lock).type = "p2tr"
      /\ CollateralMAST(WalletKey, lock).leaves = {normal, err}
  BY DEF CollateralMAST, P2TR
<1>2. /\ CollateralPath(lock).leaf = {normal} /\ CollateralPath(lock).sibling = {err}
      /\ CollateralPath(lock).signature = [key |-> WalletKey, spendType |-> SpendType(TRUE)]
  BY DEF CollateralPath, ScriptPathWitness, Signature, SignatureBy
<1>3. normal.owner = WalletKey /\ normal.lock = lock
  BY DEF NormalLeaf
<1> HIDE DEF normal, err
<1> QED
  BY <1>1, <1>2, <1>3 DEF InputMade, ScriptPathFits, IsP2TR, TimeLocked

(***************************************************************************)
(* A selection is never empty.                                             *)
(***************************************************************************)
LEMMA ChosenAreSome ==
  ASSUME NEW utxos, NEW target
  PROVE  /\ \A coins \in SelectCoins(utxos, target) : coins # {}
         /\ \A tokens \in SelectDD(utxos, target) : tokens # {}
<1>1. \A coins, unit : \A S \in LargestFirst(coins, unit, target) : S # {}
  <2> SUFFICES ASSUME NEW coins, NEW unit, NEW S \in LargestFirst(coins, unit, target)
               PROVE  S # {}
    OBVIOUS
  <2>1. S \in (SUBSET coins) \ {{}}
    BY DEF LargestFirst
  <2> QED
    BY <2>1
<1>2. SelectCoins(utxos, target)
        \subseteq LargestFirst({u \in utxos : u.value > 0}, "value", target)
  BY DEF SelectCoins
<1>3. SelectDD(utxos, target) = LargestFirst(utxos, "cents", target)
  BY DEF SelectDD
<1> QED
  BY <1>1, <1>2, <1>3

(***************************************************************************)
(* One input for every coin.                                               *)
(***************************************************************************)
LEMMA InputsOfSome ==
  ASSUME NEW utxos, utxos # {}, NEW sequence
  PROVE  Inputs(utxos, sequence) # {}
  BY DEF Inputs

(***************************************************************************)
(* A transaction of key paths only.                                        *)
(***************************************************************************)
LEMMA KeyPathsMade ==
  ASSUME CollateralInv, NEW tx,
         NEW coins \in SUBSET Classified("standard"),
         NEW tokens \in SUBSET Classified("dd_token"),
         tx.inputs = Inputs(tokens \union coins, "FINAL"),
         NEW i \in tx.inputs
  PROVE  InputMade(OutputOf(i.out), KeyPath(tx)[i.out], i.sequence, tx.locktime)
<1>1. PICK u \in tokens \union coins : i.out = u.out
  BY SpentByInputs
<1>2. KeyPath(tx)[i.out] = KeyPathWitness(Signature(FALSE))
  BY DEF KeyPath, Spends
<1>3. u \in Classified("standard") \/ u \in Classified("dd_token")
  BY <1>1
<1>4. ~TimeLocked(OutputOf(u.out))
  BY <1>3, ListedIsUnlocked
<1> QED
  BY <1>1, <1>2, <1>3, <1>4, KeyPathMade

(***************************************************************************)
(* Mints are made so.                                                      *)
(***************************************************************************)
LEMMA MintIsMade ==
  ASSUME MadeInv, NEW c \in MintCalls, MintSends(c)
  PROVE  (Made(c) /\ sent[c].tx.locktime \in Nat)'
<1>1. PICK b \in MintResults(c) : Sends(c, "utxos", b, KeyPath(b.tx))
  BY DEF MintSends
<1>2. /\ sent'[c].tx = b.tx /\ sent'[c].witness = KeyPath(b.tx)
      /\ UNCHANGED <<ledger, height>> /\ height \in Nat /\ pc[c] = "utxos"
  BY <1>1 DEF MintSends, Sends, MadeInv, CollateralInv, TypeOK, nodeVars, Calls
<1>3. \E coins, lock, collateral, target :
        /\ coins \in SelectCoins(Classified("standard"), target)
        /\ b = MintTx(req[c], coins, collateral, lock, WalletKey, ChangeScript)
  BY DEF MintResults, MintBuilds
<1>4. PICK coins : /\ coins \subseteq Classified("standard") /\ coins # {}
                   /\ b.tx.inputs = Inputs(coins, "FINAL") /\ b.tx.locktime = 0
  <2>1. PICK coins, lock, collateral, target :
          /\ coins \in SelectCoins(Classified("standard"), target)
          /\ b = MintTx(req[c], coins, collateral, lock, WalletKey, ChangeScript)
    BY <1>3
  <2>2. b.tx.inputs = Inputs(coins, "FINAL") /\ b.tx.locktime = 0
    BY <2>1 DEF MintTx
  <2> QED
    BY <2>1, <2>2, ChosenAreListed, ChosenAreSome
<1>5. \A i \in b.tx.inputs :
        InputMade(OutputOf(i.out), KeyPath(b.tx)[i.out], i.sequence, b.tx.locktime)
  <2>1. {} \union coins = coins /\ {} \in SUBSET Classified("dd_token")
    OBVIOUS
  <2> QED
    BY <1>4, <2>1, KeyPathsMade DEF MadeInv
<1>6. b.tx.inputs # {}
  BY <1>4, InputsOfSome
<1>7. Spends(b.tx) # {} /\ Spends(b.tx) \subseteq Outs(Accepted)
  BY <1>2, <1>6, MintSendsRightly DEF Spends, MadeInv
<1> QED
  BY <1>2, <1>4, <1>5, <1>7
  DEF Made, Final, Spends, Outs, Accepted, OutputOf

(***************************************************************************)
(* Transfers are made so.                                                  *)
(***************************************************************************)
LEMMA TransferIsMade ==
  ASSUME MadeInv, NEW c \in TransferCalls, TransferSends(c)
  PROVE  (Made(c) /\ sent[c].tx.locktime \in Nat)'
<1>1. PICK r \in TransferRequests :
        \E b \in TransferResults(r) : Sends(c, "idle", b, KeyPath(b.tx))
  BY DEF TransferSends
<1>2. PICK b \in TransferResults(r) : Sends(c, "idle", b, KeyPath(b.tx))
  BY <1>1
<1>3. /\ sent'[c].tx = b.tx /\ sent'[c].witness = KeyPath(b.tx)
      /\ UNCHANGED <<ledger, height>> /\ height \in Nat
  BY <1>2 DEF TransferSends, Sends, MadeInv, CollateralInv, TypeOK, nodeVars, Calls
<1>4. PICK tokens \in SelectDD(Classified("dd_token"), RecipientCents(r.recipients)) :
        b = TransferTx(r, tokens, Classified("standard"), WalletKey, ChangeScript)
  BY DEF TransferResults, TransferBuilds
<1>5. /\ tokens \subseteq Classified("dd_token") /\ tokens # {}
      /\ b.tx.inputs = Inputs(tokens \union Classified("standard"), "FINAL")
      /\ b.tx.locktime = 0
  BY <1>4, ChosenAreListed, ChosenAreSome DEF TransferTx
<1>6. \A i \in b.tx.inputs :
        InputMade(OutputOf(i.out), KeyPath(b.tx)[i.out], i.sequence, b.tx.locktime)
  BY <1>5, KeyPathsMade DEF MadeInv
<1>7. b.tx.inputs # {}
  BY <1>5, InputsOfSome
<1>8. Spends(b.tx) # {} /\ Spends(b.tx) \subseteq Outs(Accepted)
  BY <1>7, TransferSendsRightly DEF Spends, MadeInv
<1>9. sent'[c].tx.locktime <= height' /\ sent'[c].tx.locktime \in Nat
  BY <1>3, <1>5
<1>10. (\A i \in sent[c].tx.inputs :
           InputMade(OutputOf(i.out), sent[c].witness[i.out], i.sequence,
                     sent[c].tx.locktime))'
  BY <1>3, <1>6 DEF OutputOf
<1>11. (Spends(sent[c].tx) # {} /\ Spends(sent[c].tx) \subseteq Outs(Accepted))'
  BY <1>3, <1>8 DEF Spends, Outs, Accepted
<1> QED
  BY <1>9, <1>10, <1>11 DEF Made, Final

(***************************************************************************)
(* So does a redeem.  Its collateral is locked and its coins and tokens    *)
(* are not, so that no coin has the collateral's witness.                  *)
(***************************************************************************)
LEMMA RedeemIsMade ==
  ASSUME MadeInv, NEW c \in RedeemCalls, RedeemSends(c)
  PROVE  (Made(c) /\ sent[c].tx.locktime \in Nat)'
<1> DEFINE out   == <<req[c].positionId, 0>>
           coins == Classified("standard")
           cents == ToRedeem(req[c], ReadPosition(c))
           lock  == ReadPosition(c).unlock_height
<1>1. PICK b \in RedeemResults(c) : Sends(c, "utxos", b, RedeemWitness(c, b.tx))
  BY DEF RedeemSends
<1>2. /\ sent'[c].tx = b.tx /\ sent'[c].witness = RedeemWitness(c, b.tx)
      /\ wire'[c] = "toNode"
      /\ UNCHANGED <<ledger, height, req>> /\ height \in Nat /\ c \in Calls
  BY <1>1 DEF RedeemSends, Sends, MadeInv, CollateralInv, TypeOK, nodeVars, Calls
<1>3. /\ OutputOf(out).script = CollateralMAST(WalletKey, lock)
      /\ lock \in Nat /\ lock <= height /\ b.tx.locktime = lock
  <2>1. CallInv(c)'
    BY RedeemSendStep DEF MadeInv
  <2>2. RespectsLock(c)' /\ sent'[c].tx.locktime \in Nat
    BY <1>2, <2>1 DEF CallInv, RedeemInv, Sent
  <2>3. b.tx.locktime = lock
    BY RedeemResultLocks
  <2> QED
    BY <1>2, <2>2, <2>3 DEF RespectsLock, OutputOf
<1>4. PICK collateral \in CollateralUTXOs(req[c].positionId) :
        b \in RedeemBuilds(cents, atHeight[c], lock, collateral, Classified("dd_token"),
                           coins, req[c].feeRate, WalletKey, ChangeScript)
  BY DEF RedeemResults
<1>5. PICK tokens \in SelectDD(Classified("dd_token"), cents) :
        b = RedeemTx(cents, lock, collateral, tokens, coins, req[c].feeRate,
                     WalletKey, ChangeScript)
  BY <1>4 DEF RedeemBuilds
<1>6. /\ b.tx.inputs = Inputs({collateral} \union tokens, "CLTV_ENABLED")
                         \union Inputs(coins, "FINAL")
      /\ tokens \subseteq Classified("dd_token") /\ collateral.out = out
  BY <1>5, ChosenAreListed DEF RedeemTx, CollateralUTXOs
<1>7. TimeLocked(OutputOf(out))
  BY <1>3 DEF TimeLocked, IsP2TR, CollateralMAST, P2TR
<1>8. \A u \in tokens \union coins : ~TimeLocked(OutputOf(u.out)) /\ u.out # out
  BY <1>6, <1>7, ListedIsUnlocked DEF MadeInv
<1>9. ASSUME NEW i \in b.tx.inputs
      PROVE  InputMade(OutputOf(i.out), RedeemWitness(c, b.tx)[i.out], i.sequence, lock)
  <2>1. i.out \in Spends(b.tx)
    BY DEF Spends
  <2>2. CASE i.out = out
    <3>1. i \notin Inputs(tokens \union coins, "FINAL")
      BY <1>8, <2>2, SpentByInputs
    <3>2. i.sequence = "CLTV_ENABLED"
      BY <1>6, <3>1 DEF Inputs
    <3>3. RedeemWitness(c, b.tx)[i.out] = CollateralPath(lock)
      BY <2>1, <2>2 DEF RedeemWitness, KeyPath
    <3> QED
      BY <1>3, <2>2, <3>2, <3>3, ScriptPathMade
  <2>3. CASE i.out # out
    <3>1. PICK u \in tokens \union coins : i.out = u.out
      BY <1>6, <2>3, SpentByInputs
    <3>2. RedeemWitness(c, b.tx)[i.out] = KeyPathWitness(Signature(FALSE))
      BY <2>1, <2>3 DEF RedeemWitness, KeyPath
    <3>3. u \in Classified("standard") \/ u \in Classified("dd_token")
      BY <1>6
    <3> QED
      BY <1>8, <3>1, <3>2, <3>3, KeyPathMade
  <2> QED
    BY <2>2, <2>3
<1>10. out \in Spends(b.tx) /\ Spends(b.tx) \subseteq Outs(Accepted)
  <2>1. [out |-> out, sequence |-> "CLTV_ENABLED"] \in b.tx.inputs
    BY RedeemResultLocks
  <2> QED
    BY <2>1, RedeemSendsRightly DEF Spends, MadeInv
<1> QED
  BY <1>2, <1>3, <1>9, <1>10
  DEF Made, Final, Spends, Outs, Accepted, OutputOf

(***************************************************************************)
(* What was made so stays so: coins keep their scripts, heights grow.      *)
(***************************************************************************)
LEMMA MadeKept ==
  ASSUME Grows, height \in Nat, height' \in Nat, NEW c, Made(c), sent'[c] = sent[c],
         sent[c].tx.locktime \in Int
  PROVE  (Made(c) /\ sent[c].tx.locktime \in Int)'
<1>1. ASSUME NEW out \in Spends(sent[c].tx)
      PROVE  out \in Outs(Accepted)' /\ OutputOf(out)' = OutputOf(out)
  <2>1. PICK id \in Accepted : \E v \in Vouts(ledger[id]) : out = <<id, v>>
    BY DEF Made, Outs
  <2> QED
    BY <2>1 DEF Grows, Outs, OutputOf
<1>2. Final(sent[c].tx)'
  BY DEF Made, Final, Grows
<1>3. \A i \in sent[c].tx.inputs : OutputOf(i.out)' = OutputOf(i.out)
  BY <1>1 DEF Spends
<1> QED
  BY <1>1, <1>2, <1>3 DEF Made, Spends

----------------------------------------------------------------------------
(***************************************************************************)
(* Before anything is sent nothing has to fit.                             *)
(***************************************************************************)
LEMMA MadeInvInit == Init => MadeInv
<1> SUFFICES ASSUME Init PROVE MadeInv
  OBVIOUS
<1>1. \A c \in Calls : ~Sent(c)
  BY DEF Init, Sent
<1> QED
  BY <1>1, CollateralInvInit, LockInvInit DEF MadeInv

(***************************************************************************)
(* On every step, what a call has sent is made so.                         *)
(***************************************************************************)
LEMMA SentStaysMade ==
  ASSUME MadeInv, TypeOK', Grows, [Next]_vars, NEW c \in Calls, Sent(c)'
  PROVE  (Made(c) /\ sent[c].tx.locktime \in Nat)'
<1>1. /\ TypeOK /\ height \in Nat /\ height' \in Nat
      /\ Sent(c) => Made(c) /\ sent[c].tx.locktime \in Nat
  BY DEF MadeInv, LockInv, TypeOK
<1>2. SUFFICES ASSUME ~MintSends(c), ~TransferSends(c), ~RedeemSends(c)
               PROVE  Sent(c) /\ sent'[c] = sent[c]
  <2>1. ASSUME Sent(c), sent'[c] = sent[c]
        PROVE  (Made(c) /\ sent[c].tx.locktime \in Nat)'
    BY <1>1, <2>1, MadeKept
  <2>2. CASE MintSends(c)
    BY <2>2, MintIsMade DEF MintSends
  <2>3. CASE TransferSends(c)
    BY <2>3, TransferIsMade DEF TransferSends
  <2>4. CASE RedeemSends(c)
    BY <2>4, RedeemIsMade DEF RedeemSends
  <2> QED
    BY <2>1, <2>2, <2>3, <2>4
<1>3. CASE Starts(c) \/ Continues(c) \/ Node(c)
  BY <1>1, <1>2, <1>3, QuietSteps
<1>4. CASE \E d \in Calls : d # c /\ (Starts(d) \/ Continues(d) \/ Node(d))
  BY <1>1, <1>4, OthersUndisturbed DEF Undisturbed
<1>5. CASE PaymentArrives \/ NodeMines \/ OracleMoves \/ UNCHANGED vars
  BY <1>5 DEF PaymentArrives, NodeMines, OracleMoves, vars, callVars, Sent
<1> QED
  BY <1>3, <1>4, <1>5 DEF Next

(***************************************************************************)
(* The invariant is inductive.                                             *)
(***************************************************************************)
LEMMA MadeInvNext == MadeInv /\ [Next]_vars => MadeInv'
<1> SUFFICES ASSUME MadeInv, [Next]_vars PROVE MadeInv'
  OBVIOUS
<1>1. CollateralInv' /\ LockInv'
  BY CollateralInvNext, LockInvNext DEF MadeInv
<1>2. TypeOK' /\ Grows
  BY <1>1, LedgerGrows DEF MadeInv, LockInv
<1>3. ASSUME NEW c \in Calls
      PROVE  (Sent(c) => Made(c) /\ sent[c].tx.locktime \in Nat)'
  BY <1>2, SentStaysMade
<1> QED
  BY <1>1, <1>3 DEF MadeInv

(***************************************************************************)
(* The default key's witness opens the coins of its address, and only      *)
(* those, if the signer tweaks its key.                                    *)
(***************************************************************************)
LEMMA DefaultKeyOpens ==
  ASSUME SignerTweaks, NEW script
  PROVE  KeyPathOK(script, KeyPathWitness(Signature(FALSE))) <=> PaysDefaultKey(script)
<1>1. Signature(FALSE) = [key |-> Tweaked(WalletKey), spendType |-> 0]
  BY DEF Signature, SignatureBy, SpendType
<1>2. \A key, other : [key |-> key, spendType |-> 0] = [key |-> other, spendType |-> 0]
                      => key = other
  <2> SUFFICES ASSUME NEW key, NEW other,
                      [key |-> key, spendType |-> 0] = [key |-> other, spendType |-> 0]
               PROVE  key = other
    OBVIOUS
  <2>1. [key |-> key, spendType |-> 0].key = [key |-> other, spendType |-> 0].key
    OBVIOUS
  <2> QED
    BY <2>1
<1>3. /\ KeyPathWitness(Signature(FALSE)).leaf = {}
      /\ KeyPathWitness(Signature(FALSE)).signature = [key |-> Tweaked(WalletKey), spendType |-> 0]
  BY <1>1 DEF KeyPathWitness
<1> QED
  BY <1>2, <1>3 DEF KeyPathOK, PaysDefaultKey

(***************************************************************************)
(* With a signer that tweaks its key, everything the SDK ever sends is     *)
(* made of coins that exist, with witnesses that fit those it can sign     *)
(* for, and a locktime that has come: other calls and the node may         *)
(* overtake it, but nothing that was read too early misfits.               *)
(***************************************************************************)
THEOREM WhatIsSentFits ==
  ASSUME SignerTweaks
  PROVE  Spec => []SentFits
<1>1. ASSUME MadeInv, NEW c \in Calls, Sent(c), NEW i \in sent[c].tx.inputs
      PROVE  WitnessFits(c, i)
  <2>1. InputMade(OutputOf(i.out), sent[c].witness[i.out], i.sequence, sent[c].tx.locktime)
    BY <1>1 DEF MadeInv, Made
  <2> QED
    BY <2>1, DefaultKeyOpens DEF InputMade, WitnessFits
<1>2. MadeInv => SentFits
  BY <1>1 DEF SentFits, Fits, MadeInv, Made
<1> QED
  BY <1>2, MadeInvInit, MadeInvNext, PTL DEF Spec
=============================================================================
