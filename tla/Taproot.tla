------------------------------ MODULE Taproot ------------------------------
(***************************************************************************)
(* Keys, P2TR scripts and witnesses, as packages/tx-builder/src/taproot    *)
(* and packages/core/src/pipeline/{sighash,witness}.ts build them.         *)
(*                                                                         *)
(* Cryptography is symbolic: a key is its owner and the number of times a  *)
(* Taproot tweak without a script tree was applied to it.  A signature is  *)
(* the key that made it and the spend_type of the message it signs, the    *)
(* one field in which that message may not be the node's (WireFormat).  A  *)
(* hash is the value hashed.                                               *)
(***************************************************************************)
EXTENDS Naturals

CONSTANTS
  Wallet,      \* the owner of the keys the SDK's signer holds
  Nobody       \* "owner" of NUMS_POINT: nobody knows its private key

(***************************************************************************)
(* The x-only public key of the signer's default derivation path.          *)
(***************************************************************************)
PubKey(owner) == [owner |-> owner, tweaks |-> 0]

(***************************************************************************)
(* tweakPublicKey(key) with no merkle root: the output key of a key-path   *)
(* only P2TR output.                                                       *)
(***************************************************************************)
Tweaked(key) == [key EXCEPT !.tweaks = @ + 1]

(***************************************************************************)
(* The two leaves of a collateral tree: normal redemption and the          *)
(* emergency (ERR) one.  Both start with <lock> CHECKLOCKTIMEVERIFY.       *)
(***************************************************************************)
NormalLeaf(owner, lock) == [kind |-> "normal", owner |-> owner, lock |-> lock]
ERRLeaf(owner, lock)    == [kind |-> "err",    owner |-> owner, lock |-> lock]

(***************************************************************************)
(* scriptPubKey of a P2TR output: its internal-key part and its leaves.    *)
(***************************************************************************)
P2TR(key, leaves) == [type |-> "p2tr", key |-> key, leaves |-> leaves]

TokenP2TR(owner) == P2TR(Tweaked(owner), {})

CollateralMAST(owner, lock) ==
  P2TR(PubKey(Nobody), {NormalLeaf(owner, lock), ERRLeaf(owner, lock)})

(***************************************************************************)
(* An address carries the output key of a P2TR script and nothing else:    *)
(* encodeBech32m/decodeBech32m move the 32-byte program unchanged.         *)
(***************************************************************************)
GetAddress(owner)         == [program |-> Tweaked(PubKey(owner))]
DecodeAddress(address)    == address.program
ScriptOfAddress(address)  == P2TR(address.program, {})

(***************************************************************************)
(* Signatures.  computeTaprootSighash puts 1 for an input with a leaf      *)
(* hash, where BIP-341 has 2 * ext_flag = 2.                               *)
(***************************************************************************)
SpendType(isScriptPath) == IF isScriptPath THEN 1 ELSE 0

SignatureBy(key, isScriptPath) == [key |-> key, spendType |-> SpendType(isScriptPath)]

(***************************************************************************)
(* Witnesses.  A key-path witness is one signature; a script-path witness  *)
(* also reveals the leaf and, in the control block, the sibling's hash.    *)
(***************************************************************************)
KeyPathWitness(signature) ==
  [signature |-> signature, leaf |-> {}, sibling |-> {}]

ScriptPathWitness(signature, leaf, sibling) ==
  [signature |-> signature, leaf |-> {leaf}, sibling |-> {sibling}]

(***************************************************************************)
(* What consensus demands of one input (external: BIP-341, BIP-342 and     *)
(* BIP-65), with the spend types for which the node takes the signature of *)
(* a script path.  The SDK only reveals normal leaves.                     *)
(***************************************************************************)
KeyPathOK(script, witness) ==
  witness.leaf = {} /\ witness.signature = [key |-> script.key, spendType |-> 0]

(* Everything about a script path but the message of its signature.        *)
ScriptPathFits(script, witness, sequence, locktime) ==
  /\ witness.leaf # {}
  /\ witness.leaf \union witness.sibling = script.leaves
  /\ \A leaf \in witness.leaf :
        /\ witness.signature.key = leaf.owner
        /\ sequence # "FINAL"
        /\ leaf.lock <= locktime

InputOK(script, witness, sequence, locktime, spendTypes) ==
  /\ script.type = "p2tr"
  /\ \/ KeyPathOK(script, witness)
     \/ /\ ScriptPathFits(script, witness, sequence, locktime)
        /\ witness.signature.spendType \in spendTypes
=============================================================================
