---------------------------- MODULE SignerProofs ----------------------------
(***************************************************************************)
(* For any number of processes, any gap and any indices: a signer signs    *)
(* with the keys it gave out, and gives out the same ones after a restart. *)
(***************************************************************************)
EXTENDS SignerProperties, TLAPS

(* What was derived since the start is the chain up to the next index. *)
Chains(p) ==
  /\ \A k \in DOMAIN addresses[p] :
       addresses[p][k] = [address |-> AddressOf(External(k - 1)), path |-> External(k - 1)]
  /\ \A k \in DOMAIN changePaths[p] : changePaths[p][k] = Internal(k - 1)

(* The inductive invariant. *)
IInv == TypeOK /\ \A p \in Processes : Chains(p)

----------------------------------------------------------------------------
(* Appending keeps the elements and adds one at the end. *)
LEMMA Appended ==
  ASSUME NEW S, NEW s \in Seq(S), NEW e \in S
  PROVE  /\ Append(s, e) \in Seq(S)
         /\ Len(Append(s, e)) = Len(s) + 1
         /\ DOMAIN Append(s, e) = 1 .. Len(s) + 1
         /\ \A k \in 1 .. Len(s) + 1 :
              Append(s, e)[k] = IF k = Len(s) + 1 THEN e ELSE s[k]
  OBVIOUS

(* The paths of the two chains, and the addresses of the first. *)
LEMMA PathTypes ==
  ASSUME NEW n \in Nat
  PROVE  /\ External(n) \in OnChains /\ Internal(n) \in OnChains
         /\ [address |-> AddressOf(External(n)), path |-> External(n)] \in Given
  BY DEF External, Internal, OnChains, Given, AddressOf, PubKey

(* At the start nothing was derived. *)
LEMMA InitInv == Init => IInv
<1> SUFFICES ASSUME Init PROVE IInv
  OBVIOUS
<1>1. DefaultPath \in OnChains
  BY PathTypes DEF DefaultPath
<1>2. TypeOK
  BY <1>1 DEF Init, TypeOK
<1>3. \A p \in Processes : Chains(p)
  BY DEF Init, Chains
<1> QED
  BY <1>2, <1>3 DEF IInv

(* A derived address is the next of its chain. *)
LEMMA AddressStep ==
  ASSUME IInv, NEW p \in Processes, DeriveNextAddress(p)
  PROVE  IInv'
<1> DEFINE n == nextExternal[p]
           given == [address |-> AddressOf(External(n)), path |-> External(n)]
<1>1. n \in Nat /\ n = Len(addresses[p]) /\ addresses[p] \in Seq(Given)
  BY DEF IInv, TypeOK
<1>2. given \in Given /\ External(n) \in OnChains
  BY <1>1, PathTypes
<1>3. /\ addresses' = [addresses EXCEPT ![p] = Append(@, given)]
      /\ public' = public \union {External(n)}
      /\ nextExternal' = [nextExternal EXCEPT ![p] = n + 1]
      /\ UNCHANGED <<nextInternal, changePaths>>
  BY DEF DeriveNextAddress, NextAddressPath
<1>4. /\ addresses'[p] \in Seq(Given)
      /\ Len(addresses'[p]) = n + 1
      /\ DOMAIN addresses'[p] = 1 .. n + 1
      /\ \A k \in 1 .. n + 1 :
           addresses'[p][k] = IF k = n + 1 THEN given ELSE addresses[p][k]
  <2>1. addresses'[p] = Append(addresses[p], given)
    BY <1>3 DEF IInv, TypeOK
  <2> QED
    BY <2>1, <1>1, <1>2, Appended
<1>5. \A q \in Processes \ {p} : addresses'[q] = addresses[q]
  BY <1>3 DEF IInv, TypeOK
<1>6. DOMAIN addresses[p] = 1 .. n
  BY <1>1
<1>7. addresses' \in [Processes -> Seq(Given)]
  BY <1>3, <1>4, <1>5 DEF IInv, TypeOK
<1>8. \A q \in Processes : nextExternal'[q] = Len(addresses'[q])
  BY <1>1, <1>3, <1>4, <1>5 DEF IInv, TypeOK
<1>9. \A q \in Processes : \A k \in DOMAIN addresses'[q] : addresses'[q][k].path \in public'
  BY <1>3, <1>4, <1>5, <1>6 DEF IInv, TypeOK
<1>10. TypeOK'
  BY <1>1, <1>2, <1>3, <1>7, <1>8, <1>9 DEF IInv, TypeOK
<1>11. \A q \in Processes : Chains(q)'
  BY <1>1, <1>3, <1>4, <1>5, <1>6 DEF IInv, Chains
<1> QED
  BY <1>10, <1>11 DEF IInv

(* So is a path for change. *)
LEMMA ChangeStep ==
  ASSUME IInv, NEW p \in Processes, DeriveNextChangePath(p)
  PROVE  IInv'
<1> DEFINE n == nextInternal[p]
<1>1. n \in Nat /\ n = Len(changePaths[p]) /\ changePaths[p] \in Seq(OnChains)
  BY DEF IInv, TypeOK
<1>2. Internal(n) \in OnChains
  BY <1>1, PathTypes
<1>3. /\ changePaths' = [changePaths EXCEPT ![p] = Append(@, Internal(n))]
      /\ public' = public \union {Internal(n)}
      /\ nextInternal' = [nextInternal EXCEPT ![p] = n + 1]
      /\ UNCHANGED <<nextExternal, addresses>>
  BY DEF DeriveNextChangePath
<1>4. /\ changePaths'[p] \in Seq(OnChains)
      /\ Len(changePaths'[p]) = n + 1
      /\ DOMAIN changePaths'[p] = 1 .. n + 1
      /\ \A k \in 1 .. n + 1 :
           changePaths'[p][k] = IF k = n + 1 THEN Internal(n) ELSE changePaths[p][k]
  <2>1. changePaths'[p] = Append(changePaths[p], Internal(n))
    BY <1>3 DEF IInv, TypeOK
  <2> QED
    BY <2>1, <1>1, <1>2, Appended
<1>5. \A q \in Processes \ {p} : changePaths'[q] = changePaths[q]
  BY <1>3 DEF IInv, TypeOK
<1>6. DOMAIN changePaths[p] = 1 .. n
  BY <1>1
<1>7. changePaths' \in [Processes -> Seq(OnChains)]
  BY <1>3, <1>4, <1>5 DEF IInv, TypeOK
<1>8. \A q \in Processes : nextInternal'[q] = Len(changePaths'[q])
  BY <1>1, <1>3, <1>4, <1>5 DEF IInv, TypeOK
<1>9. \A q \in Processes : \A k \in DOMAIN changePaths'[q] : changePaths'[q][k] \in public'
  BY <1>3, <1>4, <1>5, <1>6 DEF IInv, TypeOK
<1>10. TypeOK'
  BY <1>1, <1>2, <1>3, <1>7, <1>8, <1>9 DEF IInv, TypeOK
<1>11. \A q \in Processes : Chains(q)'
  BY <1>1, <1>3, <1>4, <1>5, <1>6 DEF IInv, Chains
<1> QED
  BY <1>10, <1>11 DEF IInv

(* A restart forgets what was derived, not what is public. *)
LEMMA RestartStep ==
  ASSUME IInv, NEW p \in Processes, Restart(p)
  PROVE  IInv'
<1>1. TypeOK'
  BY DEF IInv, TypeOK, Restart
<1>2. \A q \in Processes : Chains(q)'
  BY DEF IInv, TypeOK, Chains, Restart
<1> QED
  BY <1>1, <1>2 DEF IInv

(* The invariant is inductive. *)
LEMMA NextInv == IInv /\ [Next]_vars => IInv'
<1> SUFFICES ASSUME IInv, [Next]_vars PROVE IInv'
  OBVIOUS
<1>1. ASSUME NEW p \in Processes,
             DeriveNextAddress(p) \/ DeriveNextChangePath(p) \/ Restart(p)
      PROVE  IInv'
  BY <1>1, AddressStep, ChangeStep, RestartStep
<1>2. ASSUME NEW path \in AskedPaths, GetPublicKey(path) PROVE IInv'
  BY <1>2, PathsAssumption DEF GetPublicKey, IInv, TypeOK, Chains
<1>3. CASE UNCHANGED vars
  BY <1>3 DEF vars, IInv, TypeOK, Chains
<1> QED
  BY <1>1, <1>2, <1>3 DEF Next

(* Every state a signer can be in satisfies the invariant. *)
LEMMA Invariant == Spec => []IInv
  BY InitInv, NextInv, PTL DEF Spec

(* The indices count what was derived since the start, and nothing was      *)
(* derived that is not public.                                              *)
THEOREM TypeCorrect == Spec => []TypeOK
<1>1. IInv => TypeOK
  BY DEF IInv
<1> QED
  BY <1>1, Invariant, PTL

----------------------------------------------------------------------------
(* The search reaches Gap beyond the next index of either chain. *)
LEMMA LimitReaches ==
  ASSUME TypeOK, NEW p \in Processes
  PROVE  /\ SearchLimit(p) \in Nat
         /\ SearchLimit(p) >= nextExternal[p] + Gap
         /\ SearchLimit(p) >= nextInternal[p] + Gap
         /\ SearchLimit(p) >= 1 + Gap
<1> DEFINE S == {nextExternal[p], nextInternal[p], 1}
<1>1. nextExternal[p] \in Nat /\ nextInternal[p] \in Nat
  BY DEF TypeOK
<1>2. \E x \in S : \A y \in S : x >= y
  BY <1>1
<1>3. Max(S) \in S /\ \A y \in S : Max(S) >= y
  BY <1>2 DEF Max
<1> QED
  BY <1>1, <1>3, GapAssumption DEF SearchLimit

(* A key is found if its index is below the limit. *)
LEMMA Found ==
  ASSUME NEW p \in Processes, SearchLimit(p) \in Nat,
         NEW path \in OnChains, path.index < SearchLimit(p)
  PROVE  Signs(p, path)
<1>1. path \in Searched(p)
  <2>1. /\ path.index \in 0 .. SearchLimit(p) - 1
        /\ path.chain \in {"external", "internal"}
        /\ path = [chain |-> path.chain, index |-> path.index]
    BY DEF OnChains
  <2>2. path = External(path.index) \/ path = Internal(path.index)
    BY <2>1 DEF External, Internal
  <2> QED
    BY <2>1, <2>2 DEF Searched
<1>2. \A other : PubKey(other) = PubKey(path) => other = path
  BY DEF PubKey
<1>3. FindPathForPubKey(p, PubKey(path)) = path
  BY <1>1, <1>2 DEF FindPathForPubKey
<1> QED
  BY <1>3 DEF Signs, Sign, SigningPath

(* In every state, a signer signs with the keys of the addresses and change *)
(* paths it derived since it started, and so spends what they were paid.    *)
THEOREM OwnKeys == Spec => []OwnKeysSign
<1>1. ASSUME IInv, NEW p \in Processes, NEW k \in DOMAIN addresses[p]
      PROVE  /\ Signs(p, addresses[p][k].path)
             /\ Spendable(p, addresses[p][k].address, addresses[p][k].path)
  <2>1. k \in 1 .. nextExternal[p] /\ nextExternal[p] \in Nat
    BY <1>1 DEF IInv, TypeOK
  <2>2. /\ addresses[p][k].path = External(k - 1)
        /\ addresses[p][k].address = AddressOf(External(k - 1))
    <3>1. Chains(p)
      BY <1>1 DEF IInv
    <3>2. addresses[p][k] =
            [address |-> AddressOf(External(k - 1)), path |-> External(k - 1)]
      BY <1>1, <3>1 DEF Chains
    <3> QED
      BY <3>2
  <2>3. External(k - 1) \in OnChains /\ External(k - 1).index < SearchLimit(p)
    <3>1. k - 1 \in Nat /\ k - 1 < nextExternal[p]
      BY <2>1
    <3>2. k - 1 < SearchLimit(p)
      BY <1>1, <2>1, <3>1, LimitReaches, GapAssumption DEF IInv
    <3> QED
      BY <3>1, <3>2, PathTypes DEF External
  <2>4. Signs(p, External(k - 1))
    BY <1>1, <2>3, Found, LimitReaches DEF IInv
  <2>5. Spendable(p, AddressOf(External(k - 1)), External(k - 1))
    BY <2>4 DEF Signs, Spendable, KeyPathOK, ScriptOfAddress, P2TR, KeyPathWitness, AddressOf,
               SignatureBy, SpendType
  <2> QED
    BY <2>2, <2>4, <2>5
<1>2. ASSUME IInv, NEW p \in Processes, NEW k \in DOMAIN changePaths[p]
      PROVE  Signs(p, changePaths[p][k])
  <2>1. k \in 1 .. nextInternal[p] /\ nextInternal[p] \in Nat
    BY <1>2 DEF IInv, TypeOK
  <2>2. changePaths[p][k] = Internal(k - 1)
    BY <1>2 DEF IInv, Chains
  <2>3. Internal(k - 1) \in OnChains /\ Internal(k - 1).index < SearchLimit(p)
    <3>1. k - 1 \in Nat /\ k - 1 < nextInternal[p]
      BY <2>1
    <3>2. k - 1 < SearchLimit(p)
      BY <1>2, <2>1, <3>1, LimitReaches, GapAssumption DEF IInv
    <3> QED
      BY <3>1, <3>2, PathTypes DEF Internal
  <2> QED
    BY <1>2, <2>2, <2>3, Found, LimitReaches DEF IInv
<1>3. IInv => OwnKeysSign
  BY <1>1, <1>2 DEF OwnKeysSign
<1> QED
  BY <1>3, Invariant, PTL

(* Every process signs for every key within the gap, whoever gave it out    *)
(* and whenever.                                                            *)
THEOREM EarlyKeys == Spec => []EarlyKeysSign
<1>1. ASSUME IInv, NEW p \in Processes, NEW path \in public \intersect OnChains,
             path.index <= Gap
      PROVE  Signs(p, path)
  <2>1. path.index < SearchLimit(p)
    BY <1>1, LimitReaches, GapAssumption DEF IInv, OnChains
  <2> QED
    BY <1>1, <2>1, Found, LimitReaches DEF IInv
<1>2. IInv => EarlyKeysSign
  BY <1>1 DEF EarlyKeysSign
<1> QED
  BY <1>2, Invariant, PTL

(* All processes walk over the same addresses, and each gives one only once.*)
THEOREM Recurrence == Spec => []AddressesRecur
<1>1. ASSUME IInv, NEW p \in Processes
      PROVE  /\ DOMAIN addresses[p] \subseteq Nat
             /\ DOMAIN changePaths[p] \subseteq Nat
             /\ Chains(p)
  BY <1>1 DEF IInv, TypeOK
<1>2. IInv => AddressesRecur
  <2> SUFFICES ASSUME IInv, NEW p \in Processes, NEW q \in Processes
               PROVE  /\ \A j \in DOMAIN addresses[p], k \in DOMAIN addresses[q] :
                           addresses[p][j] = addresses[q][k] <=> j = k
                      /\ \A j \in DOMAIN changePaths[p], k \in DOMAIN changePaths[q] :
                           changePaths[p][j] = changePaths[q][k] <=> j = k
                      /\ \A j \in DOMAIN changePaths[p], k \in DOMAIN addresses[q] :
                           changePaths[p][j] # addresses[q][k].path
    BY DEF AddressesRecur
  <2>1. ASSUME NEW r \in Processes, NEW k \in DOMAIN addresses[r]
        PROVE  /\ k \in Nat
               /\ addresses[r][k] =
                    [address |-> AddressOf(External(k - 1)), path |-> External(k - 1)]
    BY <1>1, <2>1 DEF Chains
  <2>2. ASSUME NEW r \in Processes, NEW k \in DOMAIN changePaths[r]
        PROVE  k \in Nat /\ changePaths[r][k] = Internal(k - 1)
    BY <1>1, <2>2 DEF Chains
  <2>3. \A m, n \in Nat : External(m - 1) = External(n - 1) => m = n
    BY DEF External
  <2>4. \A m, n \in Nat : Internal(m - 1) = Internal(n - 1) => m = n
    BY DEF Internal
  <2>5. \A m, n \in Nat : Internal(m - 1) # External(n - 1)
    BY DEF Internal, External
  <2>6. ASSUME NEW j \in DOMAIN addresses[p], NEW k \in DOMAIN addresses[q]
        PROVE  addresses[p][j] = addresses[q][k] <=> j = k
    <3>1. /\ j \in Nat
          /\ addresses[p][j] =
               [address |-> AddressOf(External(j - 1)), path |-> External(j - 1)]
      BY <2>1, <2>6
    <3>2. /\ k \in Nat
          /\ addresses[q][k] =
               [address |-> AddressOf(External(k - 1)), path |-> External(k - 1)]
      BY <2>1, <2>6
    <3>3. addresses[p][j] = addresses[q][k] => External(j - 1) = External(k - 1)
      BY <3>1, <3>2
    <3>4. j = k => addresses[p][j] = addresses[q][k]
      BY <3>1, <3>2
    <3> QED
      BY <2>3, <3>1, <3>2, <3>3, <3>4
  <2>7. ASSUME NEW j \in DOMAIN changePaths[p], NEW k \in DOMAIN changePaths[q]
        PROVE  changePaths[p][j] = changePaths[q][k] <=> j = k
    BY <2>2, <2>4, <2>7
  <2>8. ASSUME NEW j \in DOMAIN changePaths[p], NEW k \in DOMAIN addresses[q]
        PROVE  changePaths[p][j] # addresses[q][k].path
    <3>1. j \in Nat /\ changePaths[p][j] = Internal(j - 1)
      BY <2>2, <2>8
    <3>2. /\ k \in Nat
          /\ addresses[q][k] =
               [address |-> AddressOf(External(k - 1)), path |-> External(k - 1)]
      BY <2>1, <2>8
    <3>3. addresses[q][k].path = External(k - 1)
      BY <3>2
    <3> QED
      BY <2>5, <3>1, <3>2, <3>3
  <2> QED
    BY <2>6, <2>7, <2>8
<1> QED
  BY <1>2, Invariant, PTL
=============================================================================
