------------------------------- MODULE Signer -------------------------------
(***************************************************************************)
(* BIP86Signer of packages/core: the keys derived from one mnemonic, held  *)
(* by several processes that start, stop and start again.                  *)
(*                                                                         *)
(* A key is named by its derivation path: different paths have different   *)
(* keys, and every process derives the same one.  The next indices live in *)
(* memory.  What a process has told the world about its keys outlives it.  *)
(***************************************************************************)
EXTENDS Sequences, FiniteSetsExt

CONSTANTS
  Processes,    \* programs that made a signer from the mnemonic
  Gap,          \* findPathForPubKey looks so far beyond the next index
  OtherPaths,   \* paths outside the two chains of the account
  AskedPaths,   \* paths that applications use of their own accord
  Nobody,       \* see Taproot
  MaxIndex      \* bound: a process derives so many addresses of a chain

External(index) == [chain |-> "external", index |-> index]
Internal(index) == [chain |-> "internal", index |-> index]

DefaultPath == External(0)

INSTANCE Taproot WITH Wallet <- DefaultPath

OnChains == [chain : {"external", "internal"}, index : Nat]

ASSUME GapAssumption   == Gap \in Nat
ASSUME BoundAssumption == MaxIndex \in Nat
ASSUME PathsAssumption ==
  /\ OtherPaths \intersect OnChains = {}
  /\ AskedPaths \subseteq OtherPaths \union OnChains

VARIABLES
  nextExternal,   \* of each process
  nextInternal,   \* of each process
  addresses,      \* per process: the [address, path] it derived since it started
  changePaths,    \* per process: the paths for change it derived since it started
  public          \* the paths whose keys some process ever told somebody

vars == <<nextExternal, nextInternal, addresses, changePaths, public>>

----------------------------------------------------------------------------
(* deriveNextAddress encodes the key itself, getAddress the tweaked one. *)
AddressOf(path) == [program |-> PubKey(path)]

SharedIndex(p) ==                         \* mutant: one index for both chains
  External(nextExternal[p] + nextInternal[p])

NextAddressPath(p) == External(nextExternal[p])

DeriveNextAddress(p) ==
  /\ nextExternal[p] < MaxIndex
  /\ nextExternal' = [nextExternal EXCEPT ![p] = @ + 1]
  /\ LET path == NextAddressPath(p)
     IN  /\ addresses' = [addresses EXCEPT
              ![p] = Append(@, [address |-> AddressOf(path), path |-> path])]
         /\ public' = public \union {path}
  /\ UNCHANGED <<nextInternal, changePaths>>

DeriveNextChangePath(p) ==
  /\ nextInternal[p] < MaxIndex
  /\ nextInternal' = [nextInternal EXCEPT ![p] = @ + 1]
  /\ LET path == Internal(nextInternal[p])
     IN  /\ changePaths' = [changePaths EXCEPT ![p] = Append(@, path)]
         /\ public' = public \union {path}
  /\ UNCHANGED <<nextExternal, addresses>>

(* getPublicKey, getScriptPubKey and getAddress with a path of the caller's. *)
GetPublicKey(path) ==
  /\ public' = public \union {path}
  /\ UNCHANGED <<nextExternal, nextInternal, addresses, changePaths>>

KeepsIndex(p) ==                          \* mutant: one index survives
  /\ nextInternal' = [nextInternal EXCEPT ![p] = 0]
  /\ addresses' = [addresses EXCEPT ![p] = << >>]
  /\ changePaths' = [changePaths EXCEPT ![p] = << >>]
  /\ UNCHANGED <<nextExternal, public>>

(* A new object from the same mnemonic: fromMnemonic. *)
Restart(p) ==
  /\ nextExternal' = [nextExternal EXCEPT ![p] = 0]
  /\ nextInternal' = [nextInternal EXCEPT ![p] = 0]
  /\ addresses' = [addresses EXCEPT ![p] = << >>]
  /\ changePaths' = [changePaths EXCEPT ![p] = << >>]
  /\ UNCHANGED public

----------------------------------------------------------------------------
(* Signing changes nothing. *)

LimitOfExternal(p) ==                     \* mutant: the other chain is forgotten
  Max({nextExternal[p], 1}) + Gap

LimitWithoutOne(p) ==                     \* mutant: a new signer searches less
  Max({nextExternal[p], nextInternal[p]}) + Gap

SearchLimit(p) == Max({nextExternal[p], nextInternal[p], 1}) + Gap

Searched(p) ==
  {External(i) : i \in 0 .. SearchLimit(p) - 1}
    \union {Internal(i) : i \in 0 .. SearchLimit(p) - 1}

(* The key that is not found is signed for with the default one. *)
FindPathForPubKey(p, key) ==
  IF \E path \in Searched(p) : PubKey(path) = key
  THEN CHOOSE path \in Searched(p) : PubKey(path) = key
  ELSE DefaultPath

(* hint: {} or the derivationPath of the context. *)
SigningPath(p, key, hint) ==
  IF hint = {} THEN FindPathForPubKey(p, key) ELSE CHOOSE path \in hint : TRUE

Sign(p, key, hint) == PubKey(SigningPath(p, key, hint))

----------------------------------------------------------------------------
Init ==
  /\ nextExternal = [p \in Processes |-> 0]
  /\ nextInternal = [p \in Processes |-> 0]
  /\ addresses = [p \in Processes |-> << >>]
  /\ changePaths = [p \in Processes |-> << >>]
  /\ public = {DefaultPath}                \* the key of the pipelines

Next ==
  \/ \E p \in Processes :
       DeriveNextAddress(p) \/ DeriveNextChangePath(p) \/ Restart(p)
  \/ \E path \in AskedPaths : GetPublicKey(path)

Spec == Init /\ [][Next]_vars
=============================================================================
