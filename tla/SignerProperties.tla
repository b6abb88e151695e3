-------------------------- MODULE SignerProperties --------------------------
(***************************************************************************)
(* What an application may rely on when it uses several addresses of one   *)
(* mnemonic.                                                               *)
(***************************************************************************)
EXTENDS Signer

Given ==
  [address : [program : [owner : OnChains, tweaks : Nat]], path : OnChains]

(* Type invariant: the indices count what was derived since the start, and  *)
(* nothing was derived that is not public.                                  *)
TypeOK ==
  /\ nextExternal \in [Processes -> Nat] /\ nextInternal \in [Processes -> Nat]
  /\ addresses \in [Processes -> Seq(Given)]
  /\ changePaths \in [Processes -> Seq(OnChains)]
  /\ public \subseteq OnChains \union OtherPaths
  /\ DefaultPath \in public
  /\ \A p \in Processes :
       /\ nextExternal[p] = Len(addresses[p])
       /\ nextInternal[p] = Len(changePaths[p])
       /\ \A k \in DOMAIN addresses[p] : addresses[p][k].path \in public
       /\ \A k \in DOMAIN changePaths[p] : changePaths[p][k] \in public

Signs(p, path) ==
  \A hint \in {{}, {path}} : Sign(p, PubKey(path), hint) = PubKey(path)

Spendable(p, address, path) ==
  KeyPathOK(ScriptOfAddress(address),
            KeyPathWitness(SignatureBy(Sign(p, PubKey(path), {}), FALSE)))

(* "32-byte x-only public key expected to produce the signature"            *)
(* (signer/interface.ts:7): asked to sign with the key of an address or a   *)
(* change path it has derived since it started, however many of the other   *)
(* chain came before or since, a signer does so, with or without the hint;  *)
(* and that signature spends what was paid to the address.                  *)
OwnKeysSign ==
  \A p \in Processes :
    /\ \A k \in DOMAIN addresses[p] :
         /\ Signs(p, addresses[p][k].path)
         /\ Spendable(p, addresses[p][k].address, addresses[p][k].path)
    /\ \A k \in DOMAIN changePaths[p] : Signs(p, changePaths[p][k])

(* After a restart, and in every process: the keys within the gap that      *)
(* anybody was ever told are still signed for.  Beyond it the default key   *)
(* signs in their place, without an error (findPathForPubKey).              *)
EarlyKeysSign ==
  \A p \in Processes : \A path \in public \intersect OnChains :
    path.index <= Gap => Signs(p, path)

(* One process gives no address twice, and what it gives as its k-th is     *)
(* what every other gives, or gave before its restart, as its k-th: a       *)
(* wallet made anew from the mnemonic walks over the old addresses before   *)
(* it gives out a new one.  So it is with the paths for change, which never *)
(* share a key with an address.                                             *)
AddressesRecur ==
  \A p, q \in Processes :
    /\ \A j \in DOMAIN addresses[p], k \in DOMAIN addresses[q] :
         addresses[p][j] = addresses[q][k] <=> j = k
    /\ \A j \in DOMAIN changePaths[p], k \in DOMAIN changePaths[q] :
         changePaths[p][j] = changePaths[q][k] <=> j = k
    /\ \A j \in DOMAIN changePaths[p], k \in DOMAIN addresses[q] :
         changePaths[p][j] # addresses[q][k].path
=============================================================================
