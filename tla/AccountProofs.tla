--------------------------- MODULE AccountProofs ----------------------------
(***************************************************************************)
(* The books of the ledger balance: sats and DigiDollars are conserved,    *)
(* what a call has sent can be paid for, what a call reports is so, and    *)
(* calls that sent one transaction report the same, for any number of      *)
(* calls and any interleaving of them with the node.                       *)
(*                                                                         *)
(* The invariant is that the ledger is sound -- it is finite, and whatever *)
(* was spent is one of its outputs or was never the wallet's --, that what *)
(* each call has sent takes from the ledger what it gives back, with the   *)
(* fee and the amount that the call reports, and that the two sums hold.   *)
(* A transaction that balances keeps the sums when the node takes it; one  *)
(* that was built on stale coins is not taken.                             *)
(***************************************************************************)
EXTENDS PipelinesProofs, BuilderProofs, PipelinesImplement

----------------------------------------------------------------------------
(* Sums over the outputs of a ledger. *)

OutsIn(l, ids) == UNION {{<<id, v>> : v \in Vouts(l[id])} : id \in ids}

SoundLedger(l) == IsFiniteSet(DOMAIN l) /\ \A id \in DOMAIN l : Sound(l[id])

Extends(m, l) == DOMAIN l \subseteq DOMAIN m /\ \A id \in DOMAIN l : m[id] = l[id]

SatsAt(l, S) == [o \in S |-> Output(l[o[1]], o[2]).value]
DDAt(l, S)   == [o \in S |-> DDAmountCents(l[o[1]], o[2])]

Sats(l, S) == SumFunctionOnSet(SatsAt(l, S), S)
DD(l, S)   == SumFunctionOnSet(DDAt(l, S), S)

(***************************************************************************)
(* An outpoint names a transaction of the set and one of its outputs.      *)
(***************************************************************************)
LEMMA OutIs ==
  ASSUME NEW l, NEW ids, NEW out
  PROVE  out \in OutsIn(l, ids) <=> \E id \in ids : \E v \in Vouts(l[id]) : out = <<id, v>>
BY DEF OutsIn

(***************************************************************************)
(* A transaction has finitely many outputs,                                *)
(***************************************************************************)
LEMMA VoutsFinite ==
  ASSUME NEW tx, Sound(tx)
  PROVE  IsFiniteSet(Vouts(tx))
<1>1. Vouts(tx) = 0 .. Len(tx.outputs) - 1 /\ Len(tx.outputs) - 1 \in Int
  BY DEF Vouts, Sound
<1> QED
  BY <1>1, FS_Interval

(***************************************************************************)
(* finitely many outpoints,                                                *)
(***************************************************************************)
LEMMA NewOuts ==
  ASSUME NEW id, NEW V, IsFiniteSet(V)
  PROVE  IsFiniteSet({<<id, v>> : v \in V})
<1> DEFINE h == [v \in V |-> <<id, v>>]
<1>1. {<<id, v>> : v \in V} = {h[v] : v \in V}
  OBVIOUS
<1> HIDE DEF h
<1> QED
  BY <1>1, ImageIsFinite

(***************************************************************************)
(* and so has the ledger.                                                  *)
(***************************************************************************)
LEMMA OutsFinite ==
  ASSUME NEW l, SoundLedger(l), NEW ids, ids \subseteq DOMAIN l
  PROVE  IsFiniteSet(OutsIn(l, ids))
<1> DEFINE h == [id \in ids |-> {<<id, v>> : v \in Vouts(l[id])}]
           T == {h[id] : id \in ids}
<1>1. IsFiniteSet(ids) /\ \A id \in ids : Sound(l[id])
  BY FS_Subset DEF SoundLedger
<1>2. \A id \in ids : IsFiniteSet({<<id, v>> : v \in Vouts(l[id])})
  BY <1>1, VoutsFinite, NewOuts
<1>3. \A id \in ids : IsFiniteSet(h[id])
  BY <1>2
<1>4. OutsIn(l, ids) = UNION T
  BY DEF OutsIn
<1> HIDE DEF h
<1>5. IsFiniteSet(T) /\ \A V \in T : IsFiniteSet(V)
  BY <1>1, <1>3, ImageIsFinite
<1> HIDE DEF T
<1> QED
  BY <1>4, <1>5, FS_UNION

(***************************************************************************)
(* Amounts on a sound ledger are not negative.                             *)
(***************************************************************************)
LEMMA OutTyped ==
  ASSUME NEW l, SoundLedger(l), NEW out \in OutsIn(l, DOMAIN l)
  PROVE  /\ Output(l[out[1]], out[2]).value \in Nat
         /\ DDAmountCents(l[out[1]], out[2]) \in Nat
<1>1. PICK id \in DOMAIN l : \E v \in Vouts(l[id]) : out = <<id, v>>
  BY OutIs
<1>2. PICK v \in Vouts(l[id]) : out = <<id, v>>
  BY <1>1
<1> QED
  BY <1>2 DEF SoundLedger, Sound

(***************************************************************************)
(* Outputs of the ledger can be added up.                                  *)
(***************************************************************************)
LEMMA OutsSubset ==
  ASSUME NEW l, SoundLedger(l), NEW S, S \subseteq OutsIn(l, DOMAIN l)
  PROVE  /\ IsFiniteSet(S)
         /\ \A o \in S : SatsAt(l, S)[o] \in Nat /\ DDAt(l, S)[o] \in Nat
<1>1. IsFiniteSet(OutsIn(l, DOMAIN l))
  BY OutsFinite
<1>2. IsFiniteSet(S)
  BY <1>1, FS_Subset
<1>3. ASSUME NEW o \in S PROVE SatsAt(l, S)[o] \in Nat /\ DDAt(l, S)[o] \in Nat
  BY OutTyped DEF SatsAt, DDAt
<1> QED
  BY <1>2, <1>3

(***************************************************************************)
(* What they are worth is not negative.                                    *)
(***************************************************************************)
LEMMA SumsTyped ==
  ASSUME NEW l, SoundLedger(l), NEW S, S \subseteq OutsIn(l, DOMAIN l)
  PROVE  Sats(l, S) \in Nat /\ DD(l, S) \in Nat
BY OutsSubset, SumOfNats DEF Sats, DD

(***************************************************************************)
(* A sum over two sets that share nothing, each with its own function.     *)
(***************************************************************************)
LEMMA SumSplit ==
  ASSUME NEW A, IsFiniteSet(A), NEW B, IsFiniteSet(B), A \intersect B = {},
         NEW f, NEW g, NEW h, \A o \in A \union B : f[o] \in Int,
         \A o \in A : g[o] = f[o], \A o \in B : h[o] = f[o]
  PROVE  SumFunctionOnSet(f, A \union B) = SumFunctionOnSet(g, A) + SumFunctionOnSet(h, B)
<1>1. SumFunctionOnSet(f, A \union B) = SumFunctionOnSet(f, A) + SumFunctionOnSet(f, B)
  BY SumUnion
<1>2. SumFunctionOnSet(g, A) = SumFunctionOnSet(f, A)
  BY SumEqual
<1>3. SumFunctionOnSet(h, B) = SumFunctionOnSet(f, B)
  BY SumEqual
<1> QED
  BY <1>1, <1>2, <1>3

(***************************************************************************)
(* Outputs that are put together are worth what both were.                 *)
(***************************************************************************)
LEMMA SumsAdd ==
  ASSUME NEW l, SoundLedger(l), NEW A, NEW B,
         A \subseteq OutsIn(l, DOMAIN l), B \subseteq OutsIn(l, DOMAIN l),
         A \intersect B = {}
  PROVE  /\ Sats(l, A \union B) = Sats(l, A) + Sats(l, B)
         /\ DD(l, A \union B) = DD(l, A) + DD(l, B)
<1> DEFINE S == A \union B
<1>1. S \subseteq OutsIn(l, DOMAIN l)
  OBVIOUS
<1>2. IsFiniteSet(A) /\ IsFiniteSet(B)
  BY OutsSubset
<1>4. \A o \in S : SatsAt(l, S)[o] \in Int /\ DDAt(l, S)[o] \in Int
  BY <1>1, OutsSubset
<1>5. /\ \A o \in A : SatsAt(l, A)[o] = SatsAt(l, S)[o] /\ DDAt(l, A)[o] = DDAt(l, S)[o]
      /\ \A o \in B : SatsAt(l, B)[o] = SatsAt(l, S)[o] /\ DDAt(l, B)[o] = DDAt(l, S)[o]
  BY DEF SatsAt, DDAt
<1> HIDE DEF S
<1>6. Sats(l, S) = Sats(l, A) + Sats(l, B)
  <2> DEFINE f == SatsAt(l, S)
             g == SatsAt(l, A)
             h == SatsAt(l, B)
  <2>1. /\ \A o \in A \union B : f[o] \in Int
        /\ \A o \in A : g[o] = f[o]
        /\ \A o \in B : h[o] = f[o]
    BY <1>4, <1>5 DEF S
  <2> HIDE DEF f, g, h
  <2>2. SumFunctionOnSet(f, A \union B) = SumFunctionOnSet(g, A) + SumFunctionOnSet(h, B)
    BY <1>2, <2>1, SumSplit
  <2> QED
    BY <2>2 DEF Sats, S, f, g, h
<1>7. DD(l, S) = DD(l, A) + DD(l, B)
  <2> DEFINE f == DDAt(l, S)
             g == DDAt(l, A)
             h == DDAt(l, B)
  <2>1. /\ \A o \in A \union B : f[o] \in Int
        /\ \A o \in A : g[o] = f[o]
        /\ \A o \in B : h[o] = f[o]
    BY <1>4, <1>5 DEF S
  <2> HIDE DEF f, g, h
  <2>2. SumFunctionOnSet(f, A \union B) = SumFunctionOnSet(g, A) + SumFunctionOnSet(h, B)
    BY <1>2, <2>1, SumSplit
  <2> QED
    BY <2>2 DEF DD, S, f, g, h
<1> QED
  BY <1>6, <1>7 DEF S

(***************************************************************************)
(* A ledger that grows changes nothing about the outputs it had.           *)
(***************************************************************************)
LEMMA SumsKept ==
  ASSUME NEW l, NEW m, Extends(m, l), NEW S, S \subseteq OutsIn(l, DOMAIN l)
  PROVE  Sats(m, S) = Sats(l, S) /\ DD(m, S) = DD(l, S)
<1>1. ASSUME NEW o \in S PROVE m[o[1]] = l[o[1]]
  <2>1. PICK id \in DOMAIN l : \E v \in Vouts(l[id]) : o = <<id, v>>
    BY OutIs
  <2> QED
    BY <2>1 DEF Extends
<1>2. SatsAt(m, S) = SatsAt(l, S) /\ DDAt(m, S) = DDAt(l, S)
  BY <1>1 DEF SatsAt, DDAt
<1> QED
  BY <1>2 DEF Sats, DD

(***************************************************************************)
(* The outputs of a transaction are worth what its builder put in them.    *)
(***************************************************************************)
LEMMA SumsOfNew ==
  ASSUME NEW l, SoundLedger(l), NEW id \in DOMAIN l
  PROVE  /\ Sats(l, OutsIn(l, {id})) = OutputSats(l[id])
         /\ DD(l, OutsIn(l, {id})) = Tokens(l[id])
<1> DEFINE V == Vouts(l[id])
           N == OutsIn(l, {id})
           h == [v \in V |-> <<id, v>>]
           p == [v \in V |-> Output(l[id], v).value]
           q == [v \in V |-> DDAmountCents(l[id], v)]
           f == SatsAt(l, N)
           g == DDAt(l, N)
<1>1. Sound(l[id]) /\ IsFiniteSet(V)
  BY VoutsFinite DEF SoundLedger
<1>2. N = {h[v] : v \in V}
  BY DEF OutsIn
<1>3. \A x, y \in V : h[x] = h[y] => x = y
  OBVIOUS
<1>4. \A v \in V : h[v] \in N /\ h[v][1] = id /\ h[v][2] = v
  BY <1>2
<1>5. \A v \in V : p[v] = f[h[v]] /\ p[v] \in Int /\ q[v] = g[h[v]] /\ q[v] \in Int
  <2>1. ASSUME NEW v \in V PROVE p[v] \in Int /\ q[v] \in Int
    BY <1>1 DEF Sound
  <2>2. \A o \in N : /\ f[o] = Output(l[o[1]], o[2]).value
                    /\ g[o] = DDAmountCents(l[o[1]], o[2])
    BY DEF SatsAt, DDAt
  <2> HIDE DEF N, h, f, g
  <2> QED
    BY <1>4, <2>1, <2>2
<1>6. OutputSats(l[id]) = SumFunctionOnSet(p, V) /\ Tokens(l[id]) = SumFunctionOnSet(q, V)
  BY DEF OutputSats, Tokens, SumFunction
<1> HIDE DEF V, N, h, p, q, f, g
<1>7. SumFunctionOnSet(f, N) = SumFunctionOnSet(p, V)
  BY <1>1, <1>2, <1>3, <1>5, SumOfImage
<1>8. SumFunctionOnSet(g, N) = SumFunctionOnSet(q, V)
  BY <1>1, <1>2, <1>3, <1>5, SumOfImage
<1> QED
  BY <1>6, <1>7, <1>8 DEF Sats, DD, f, g, N
----------------------------------------------------------------------------
(* A transaction is added to the ledger. *)

SpentIn(l) == UNION {Spends(l[id]) : id \in DOMAIN l}

UnspentIn(l) == OutsIn(l, DOMAIN l) \ SpentIn(l)

SpentKnown(l) == \A out \in SpentIn(l) : out \in OutsIn(l, DOMAIN l) \/ out[1] \notin Txids

Adds(m, l, id, tx) ==
  /\ SoundLedger(l) /\ SpentKnown(l) /\ Sound(tx)
  /\ id \in Txids \ DOMAIN l
  /\ DOMAIN m = DOMAIN l \union {id} /\ m[id] = tx
  /\ \A i \in DOMAIN l : m[i] = l[i]

(***************************************************************************)
(* A ledger stays sound when a sound transaction is added.                 *)
(***************************************************************************)
LEMMA LedgerExtended ==
  ASSUME NEW m, NEW l, NEW id, NEW tx, Adds(m, l, id, tx)
  PROVE  SoundLedger(l) /\ SoundLedger(m) /\ Extends(m, l) /\ id \in DOMAIN m /\ m[id] = tx
<1> USE DEF Adds
<1>1. SoundLedger(m)
  BY FS_AddElement DEF SoundLedger
<1>2. Extends(m, l) /\ id \in DOMAIN m
  BY DEF Extends
<1> QED
  BY <1>1, <1>2

(***************************************************************************)
(* The transactions that were there keep their outputs.                    *)
(***************************************************************************)
LEMMA OutsOfSome ==
  ASSUME NEW m, NEW l, NEW id, NEW tx, Adds(m, l, id, tx), NEW R, R \subseteq DOMAIN l
  PROVE  /\ OutsIn(m, R) = OutsIn(l, R)
         /\ OutsIn(m, R \union {id}) = OutsIn(l, R) \union OutsIn(m, {id})
BY DEF OutsIn, Adds

(***************************************************************************)
(* What a transaction that is taken adds to what is spent.                 *)
(***************************************************************************)
LEMMA SpentExtended ==
  ASSUME NEW m, NEW l, NEW id, NEW tx, Adds(m, l, id, tx)
  PROVE  SpentIn(m) = SpentIn(l) \union Spends(tx)
BY DEF SpentIn, Adds

(***************************************************************************)
(* The outputs of the new transaction, and those it spends, come on top.   *)
(***************************************************************************)
LEMMA OutsExtended ==
  ASSUME NEW m, NEW l, NEW id, NEW tx, Adds(m, l, id, tx)
  PROVE  /\ OutsIn(m, DOMAIN m) = OutsIn(l, DOMAIN l) \union OutsIn(m, {id})
         /\ OutsIn(l, DOMAIN l) \intersect OutsIn(m, {id}) = {}
         /\ SpentIn(m) = SpentIn(l) \union Spends(tx)
<1> USE DEF Adds
<1>1. OutsIn(m, DOMAIN m) = OutsIn(l, DOMAIN l) \union OutsIn(m, {id})
  BY OutsOfSome
<1>2. OutsIn(l, DOMAIN l) \intersect OutsIn(m, {id}) = {}
  <2>1. \A out \in OutsIn(l, DOMAIN l) : out[1] \in DOMAIN l
    BY OutIs
  <2>2. \A out \in OutsIn(m, {id}) : out[1] = id
    BY OutIs
  <2> QED
    BY <2>1, <2>2
<1>3. SpentIn(m) = SpentIn(l) \union Spends(tx)
  BY SpentExtended, ZenonT(60)
<1> QED
  BY <1>1, <1>2, <1>3

(***************************************************************************)
(* Nothing can have spent the outputs of a transaction that is new: it     *)
(* takes coins off the unspent ones and adds its own.                      *)
(***************************************************************************)
LEMMA NewIsUnspent ==
  ASSUME NEW m, NEW l, NEW id, NEW tx, Adds(m, l, id, tx),
         \A out \in Spends(tx) : out \in UnspentIn(l) \/ out[1] \notin Txids
  PROVE  /\ UnspentIn(m) = (UnspentIn(l) \ Spends(tx)) \union OutsIn(m, {id})
         /\ SpentKnown(m)
<1> DEFINE U == OutsIn(l, DOMAIN l)
           N == OutsIn(m, {id})
           S == SpentIn(l)
<1>1. /\ OutsIn(m, DOMAIN m) = U \union N /\ U \intersect N = {}
      /\ SpentIn(m) = S \union Spends(tx)
  <2>1. /\ OutsIn(m, DOMAIN m) = OutsIn(l, DOMAIN l) \union OutsIn(m, {id})
        /\ OutsIn(l, DOMAIN l) \intersect OutsIn(m, {id}) = {}
    BY OutsExtended, ZenonT(60)
  <2>2. SpentIn(m) = SpentIn(l) \union Spends(tx)
    BY SpentExtended, ZenonT(60)
  <2> QED
    BY <2>1, <2>2
<1>2. \A out \in N : out[1] = id /\ id \in Txids
  BY OutIs DEF Adds
<1>3. \A out \in S \union Spends(tx) : out \in U \/ out[1] \notin Txids
  BY DEF Adds, SpentKnown, UnspentIn
<1>4. N \intersect (S \union Spends(tx)) = {}
  BY <1>1, <1>2, <1>3
<1>5. SpentKnown(m)
  BY <1>1, <1>3 DEF SpentKnown
<1>6. UnspentIn(l) = U \ S
  BY DEF UnspentIn
<1>7. UnspentIn(m) = (U \union N) \ (S \union Spends(tx))
  BY <1>1 DEF UnspentIn
<1> HIDE DEF U, N, S
<1>8. UnspentIn(m) = ((U \ S) \ Spends(tx)) \union N
  BY <1>1, <1>4, <1>7
<1> QED
  BY <1>5, <1>6, <1>8 DEF N

(***************************************************************************)
(* A transaction that spends unspent coins of the ledger: what it spends   *)
(* leaves, what it makes comes in.                                         *)
(***************************************************************************)
LEMMA Spending ==
  ASSUME NEW m, NEW l, NEW id, NEW tx, Adds(m, l, id, tx), Spends(tx) \subseteq UnspentIn(l)
  PROVE  /\ SpentKnown(m)
         /\ Sats(m, UnspentIn(m)) = Sats(l, UnspentIn(l)) - Sats(l, Spends(tx)) + OutputSats(tx)
         /\ DD(m, UnspentIn(m)) = DD(l, UnspentIn(l)) - DD(l, Spends(tx)) + Tokens(tx)
<1> DEFINE U == OutsIn(l, DOMAIN l)
           N == OutsIn(m, {id})
           S == Spends(tx)
           X == UnspentIn(l) \ S
<1>1. /\ SoundLedger(l) /\ SoundLedger(m) /\ Extends(m, l) /\ id \in DOMAIN m
      /\ OutsIn(m, DOMAIN m) = U \union N /\ U \intersect N = {} /\ m[id] = tx
  BY LedgerExtended, OutsExtended
<1>2. UnspentIn(m) = X \union N /\ SpentKnown(m)
  BY NewIsUnspent
<1>3. X \subseteq U /\ S \subseteq U /\ X \intersect S = {} /\ UnspentIn(l) = X \union S
      /\ N \subseteq U \union N /\ X \intersect N = {} /\ X \subseteq U \union N
  BY <1>1 DEF UnspentIn
<1> HIDE DEF N, X, U, S
<1>4. /\ Sats(l, X \union S) = Sats(l, X) + Sats(l, S)
      /\ DD(l, X \union S) = DD(l, X) + DD(l, S)
  BY <1>1, <1>3, SumsAdd DEF U
<1>5. /\ Sats(m, X \union N) = Sats(m, X) + Sats(m, N)
      /\ DD(m, X \union N) = DD(m, X) + DD(m, N)
  BY <1>1, <1>3, SumsAdd
<1>6. Sats(m, X) = Sats(l, X) /\ DD(m, X) = DD(l, X)
  BY <1>1, <1>3, SumsKept DEF U
<1>7. Sats(m, N) = OutputSats(tx) /\ DD(m, N) = Tokens(tx)
  BY <1>1, SumsOfNew DEF N
<1>8. /\ Sats(l, X) \in Nat /\ Sats(l, S) \in Nat /\ Sats(m, N) \in Nat
      /\ DD(l, X) \in Nat /\ DD(l, S) \in Nat /\ DD(m, N) \in Nat
  BY <1>1, <1>3, SumsTyped DEF U
<1>9. Sats(m, X \union N) = Sats(l, X \union S) - Sats(l, S) + OutputSats(tx)
  BY <1>4, <1>5, <1>6, <1>7, <1>8
<1>10. DD(m, X \union N) = DD(l, X \union S) - DD(l, S) + Tokens(tx)
  BY <1>4, <1>5, <1>6, <1>7, <1>8
<1> QED
  BY <1>2, <1>3, <1>9, <1>10 DEF S

(***************************************************************************)
(* A payment to the wallet spends none of the ledger's coins: what is      *)
(* unspent and what was received grow by the same.                         *)
(***************************************************************************)
LEMMA Receiving ==
  ASSUME NEW m, NEW l, NEW id, NEW tx, Adds(m, l, id, tx),
         \A out \in Spends(tx) : out[1] \notin Txids, DOMAIN l \subseteq Txids,
         NEW R, R \subseteq DOMAIN l
  PROVE  /\ SpentKnown(m)
         /\ Sats(m, UnspentIn(m)) = Sats(l, UnspentIn(l)) + OutputSats(tx)
         /\ DD(m, UnspentIn(m)) = DD(l, UnspentIn(l)) + Tokens(tx)
         /\ Sats(m, OutsIn(m, R \union {id})) = Sats(l, OutsIn(l, R)) + OutputSats(tx)
         /\ DD(m, OutsIn(m, R \union {id})) = DD(l, OutsIn(l, R)) + Tokens(tx)
<1> DEFINE U == OutsIn(l, DOMAIN l)
           N == OutsIn(m, {id})
<1>1. /\ SoundLedger(l) /\ SoundLedger(m) /\ Extends(m, l) /\ id \in DOMAIN m
      /\ OutsIn(m, DOMAIN m) = U \union N /\ U \intersect N = {} /\ m[id] = tx
      /\ OutsIn(m, R \union {id}) = OutsIn(l, R) \union N
  BY LedgerExtended, OutsExtended, OutsOfSome
<1>2. UnspentIn(m) = (UnspentIn(l) \ Spends(tx)) \union N /\ SpentKnown(m)
  BY NewIsUnspent
<1>3. UnspentIn(l) \subseteq U /\ OutsIn(l, R) \subseteq U
  BY DEF UnspentIn, OutsIn
<1>4. \A out \in U : out[1] \in Txids
  BY OutIs
<1>5. UnspentIn(m) = UnspentIn(l) \union N
  BY <1>2, <1>3, <1>4
<1> HIDE DEF N, U
<1>6. ASSUME NEW X, X \subseteq U
      PROVE  /\ Sats(m, X \union N) = Sats(l, X) + OutputSats(tx)
             /\ DD(m, X \union N) = DD(l, X) + Tokens(tx)
  <2>1. X \subseteq U \union N /\ N \subseteq U \union N /\ X \intersect N = {}
    BY <1>1, <1>6
  <2>2. /\ Sats(m, X \union N) = Sats(m, X) + Sats(m, N)
        /\ DD(m, X \union N) = DD(m, X) + DD(m, N)
    BY <1>1, <2>1, SumsAdd
  <2>3. Sats(m, X) = Sats(l, X) /\ DD(m, X) = DD(l, X)
    BY <1>1, <1>6, SumsKept DEF U
  <2>4. Sats(m, N) = OutputSats(tx) /\ DD(m, N) = Tokens(tx)
    BY <1>1, SumsOfNew DEF N
  <2> QED
    BY <2>2, <2>3, <2>4
<1> QED
  BY <1>1, <1>2, <1>3, <1>5, <1>6

----------------------------------------------------------------------------
(* What coins are worth. *)

IsCoin(u) ==
  /\ u = UTXO(u.out) /\ u.out \in Unspent
  /\ u.value \in Nat /\ u.cents \in Nat

(***************************************************************************)
(* The operators of Pipelines, said of the ledger of the moment.           *)
(***************************************************************************)
LEMMA LedgerNames ==
  /\ \A ids : Outs(ids) = OutsIn(ledger, ids)
  /\ SpentOuts = SpentIn(ledger) /\ Unspent = UnspentIn(ledger)
  /\ \A S : SatsIn(S) = Sats(ledger, S) /\ DDIn(S) = DD(ledger, S)
<1>1. \A ids : Outs(ids) = OutsIn(ledger, ids)
  BY DEF Outs, OutsIn
<1>2. SpentOuts = SpentIn(ledger)
  BY DEF SpentOuts, SpentIn, Accepted
<1>3. Unspent = UnspentIn(ledger)
  BY <1>1, <1>2 DEF Unspent, UnspentIn, Accepted
<1>4. ASSUME NEW S PROVE SatsIn(S) = Sats(ledger, S) /\ DDIn(S) = DD(ledger, S)
  BY DEF SatsIn, DDIn, Sats, DD, SatsAt, DDAt, SumFunction, OutputOf
<1> QED
  BY <1>1, <1>2, <1>3, <1>4

(***************************************************************************)
(* Only a token has DigiDollars, and it has no sats.                       *)
(***************************************************************************)
LEMMA ClassDecides ==
  ASSUME NEW tx, NEW v
  PROVE  /\ Classify(tx, v) # "dd_token" => DDAmountCents(tx, v) = 0
         /\ Classify(tx, v) = "dd_token" => Output(tx, v).value = 0
<1>1. Classify(tx, v) # "dd_token" => DDAmountCents(tx, v) = 0
  BY Zenon DEF DDAmountCents
<1>2. ASSUME ~IsToken(Output(tx, v)) PROVE Classify(tx, v) # "dd_token"
  BY <1>2, Zenon DEF Classify
<1>3. IsToken(Output(tx, v)) => Output(tx, v).value = 0
  BY DEF IsToken
<1> QED
  BY <1>1, <1>2, <1>3

(***************************************************************************)
(* getClassifiedUTXOs lists finitely many coins: unspent outputs with      *)
(* their sats and DigiDollars; only tokens have the latter and only they   *)
(* lack the former.                                                        *)
(***************************************************************************)
LEMMA ListedCoins ==
  ASSUME TypeOK, SoundLedger(ledger), NEW class
  PROVE  /\ IsFiniteSet(Classified(class))
         /\ \A u \in Classified(class) :
              /\ IsCoin(u)
              /\ Classify(ledger[u.out[1]], u.out[2]) = class
              /\ class # "dd_token" => u.cents = 0
              /\ class = "dd_token" => u.value = 0
<1> DEFINE listed == {o \in ListUnspent : Classify(ledger[o[1]], o[2]) = class}
<1>1. listed \subseteq Unspent
  <2>1. Outs(confirmed) \subseteq Outs(Accepted)
    BY DEF Outs, TypeOK
  <2> QED
    BY <2>1 DEF ListUnspent, Unspent
<1>2. Unspent \subseteq OutsIn(ledger, DOMAIN ledger)
  BY LedgerNames DEF UnspentIn
<1>3. IsFiniteSet(listed)
  BY <1>1, <1>2, OutsSubset
<1>4. IsFiniteSet(Classified(class))
  <2> DEFINE h == [o \in listed |-> UTXO(o)]
  <2>1. Classified(class) = {h[o] : o \in listed}
    BY DEF Classified
  <2> HIDE DEF h, listed
  <2> QED
    BY <1>3, <2>1, ImageIsFinite
<1>5. ASSUME NEW u \in Classified(class)
      PROVE  /\ IsCoin(u)
             /\ Classify(ledger[u.out[1]], u.out[2]) = class
             /\ class # "dd_token" => u.cents = 0
             /\ class = "dd_token" => u.value = 0
  <2>1. PICK o \in listed : u = UTXO(o)
    BY DEF Classified
  <2>2. /\ u.out = o /\ u.value = Output(ledger[o[1]], o[2]).value
        /\ u.cents = DDAmountCents(ledger[o[1]], o[2])
    BY <2>1 DEF UTXO, OutputOf
  <2>3. o \in Unspent /\ o \in OutsIn(ledger, DOMAIN ledger)
    BY <1>1, <1>2
  <2>4. u.value \in Nat /\ u.cents \in Nat
    BY <2>2, <2>3, OutTyped
  <2>5. Classify(ledger[o[1]], o[2]) = class
    OBVIOUS
  <2>6. IsCoin(u)
    BY <2>1, <2>2, <2>3, <2>4 DEF IsCoin
  <2> QED
    BY <2>2, <2>5, <2>6, ClassDecides
<1> QED
  BY <1>4, <1>5

\* h names each member of U by one of S, and f says of the name what p says.
Renames(h, U, S, p, f) ==
  /\ S = {h[u] : u \in U}
  /\ \A x, y \in U : h[x] = h[y] => x = y
  /\ \A u \in U : p[u] = f[h[u]] /\ p[u] \in Nat

(***************************************************************************)
(* Adding up over the coins is adding up over their outpoints, if no two   *)
(* have the same.                                                          *)
(***************************************************************************)
LEMMA SumOfOuts ==
  ASSUME NEW U, IsFiniteSet(U), NEW S, NEW h, NEW p, NEW f, Renames(h, U, S, p, f)
  PROVE  SumFunctionOnSet(f, S) = SumFunctionOnSet(p, U)
<1>1. /\ S = {h[u] : u \in U}
      /\ \A x, y \in U : h[x] = h[y] => x = y
      /\ \A u \in U : p[u] = f[h[u]] /\ p[u] \in Int
  BY DEF Renames
<1> QED
  BY <1>1, SumOfImage

(***************************************************************************)
(* What a builder adds up over its coins is what the ledger holds under    *)
(* their outpoints.                                                        *)
(***************************************************************************)
LEMMA SpentSums ==
  ASSUME NEW U, IsFiniteSet(U), \A u \in U : IsCoin(u),
         NEW S, S = {u.out : u \in U}
  PROVE  /\ SatsIn(S) = ValueOf(U) /\ DDIn(S) = CentsOf(U)
         /\ ValueOf(U) \in Nat /\ CentsOf(U) \in Nat
<1> DEFINE h == [u \in U |-> u.out]
           p == [u \in U |-> u.value]
           q == [u \in U |-> u.cents]
           f == SatsAt(ledger, S)
           g == DDAt(ledger, S)
<1>1. \A x, y \in U : h[x] = h[y] => x = y
  <2>1. ASSUME NEW x \in U, NEW y \in U, x.out = y.out PROVE x = y
    <3>1. x = UTXO(x.out) /\ y = UTXO(y.out)
      BY DEF IsCoin
    <3> QED
      BY <2>1, <3>1
  <2> QED
    BY <2>1
<1>2. S = {h[u] : u \in U}
  OBVIOUS
<1>3. \A u \in U : h[u] = u.out /\ h[u] \in S
  OBVIOUS
<1>4. ASSUME NEW u \in U
      PROVE  /\ p[u] = f[h[u]] /\ p[u] \in Nat
             /\ q[u] = g[h[u]] /\ q[u] \in Nat
  <2> DEFINE o == u.out
  <2>1. u = UTXO(o) /\ u.value \in Nat /\ u.cents \in Nat
    BY DEF IsCoin
  <2>2. u.value = Output(ledger[o[1]], o[2]).value /\ u.cents = DDAmountCents(ledger[o[1]], o[2])
    BY <2>1 DEF UTXO, OutputOf
  <2>3. f[o] = Output(ledger[o[1]], o[2]).value /\ g[o] = DDAmountCents(ledger[o[1]], o[2])
    BY <1>3 DEF SatsAt, DDAt
  <2>4. p[u] = u.value /\ q[u] = u.cents /\ h[u] = o
    OBVIOUS
  <2> HIDE DEF p, q, h, f, g
  <2> QED
    BY <2>1, <2>2, <2>3, <2>4
<1>5. /\ ValueOf(U) = SumFunctionOnSet(p, U) /\ CentsOf(U) = SumFunctionOnSet(q, U)
      /\ SatsIn(S) = SumFunctionOnSet(f, S) /\ DDIn(S) = SumFunctionOnSet(g, S)
  BY LedgerNames DEF ValueOf, CentsOf, SumFunction, Sats, DD
<1> HIDE DEF h, p, q, f, g
<1>6. SumFunctionOnSet(f, S) = SumFunctionOnSet(p, U)
  <2>1. Renames(h, U, S, p, f)
    BY <1>1, <1>2, <1>4 DEF Renames
  <2> QED
    BY <2>1, SumOfOuts
<1>7. SumFunctionOnSet(g, S) = SumFunctionOnSet(q, U)
  <2>1. Renames(h, U, S, q, g)
    BY <1>1, <1>2, <1>4 DEF Renames
  <2> QED
    BY <2>1, SumOfOuts
<1>8. SumFunctionOnSet(p, U) \in Nat /\ SumFunctionOnSet(q, U) \in Nat
  BY <1>4, SumOfNats
<1> QED
  BY <1>5, <1>6, <1>7, <1>8

(***************************************************************************)
(* Two selections that share no coin are worth what both are.              *)
(***************************************************************************)
LEMMA CoinsJoined ==
  ASSUME NEW A, IsFiniteSet(A), NEW B, IsFiniteSet(B), A \intersect B = {},
         \A u \in A \union B : IsCoin(u)
  PROVE  /\ ValueOf(A \union B) = ValueOf(A) + ValueOf(B)
         /\ CentsOf(A \union B) = CentsOf(A) + CentsOf(B)
<1> DEFINE C == A \union B
           fv == [u \in C |-> u.value]  gv == [u \in A |-> u.value]  hv == [u \in B |-> u.value]
           fc == [u \in C |-> u.cents]  gc == [u \in A |-> u.cents]  hc == [u \in B |-> u.cents]
<1>1. \A u \in A \union B : fv[u] \in Int /\ fc[u] \in Int
  BY DEF IsCoin
<1>2. /\ \A u \in A : gv[u] = fv[u] /\ gc[u] = fc[u]
      /\ \A u \in B : hv[u] = fv[u] /\ hc[u] = fc[u]
  OBVIOUS
<1>3. /\ ValueOf(C) = SumFunctionOnSet(fv, C) /\ CentsOf(C) = SumFunctionOnSet(fc, C)
      /\ ValueOf(A) = SumFunctionOnSet(gv, A) /\ CentsOf(A) = SumFunctionOnSet(gc, A)
      /\ ValueOf(B) = SumFunctionOnSet(hv, B) /\ CentsOf(B) = SumFunctionOnSet(hc, B)
  BY DEF ValueOf, CentsOf, SumFunction
<1> HIDE DEF fv, gv, hv, fc, gc, hc
<1>4. SumFunctionOnSet(fv, A \union B) = SumFunctionOnSet(gv, A) + SumFunctionOnSet(hv, B)
  BY <1>1, <1>2, SumSplit
<1>5. SumFunctionOnSet(fc, A \union B) = SumFunctionOnSet(gc, A) + SumFunctionOnSet(hc, B)
  BY <1>1, <1>2, SumSplit
<1> QED
  BY <1>3, <1>4, <1>5

(***************************************************************************)
(* Tokens are worth no sats, other coins no DigiDollars.                   *)
(***************************************************************************)
LEMMA CoinsWithout ==
  ASSUME NEW U, IsFiniteSet(U)
  PROVE  /\ (\A u \in U : u.value = 0) => ValueOf(U) = 0
         /\ (\A u \in U : u.cents = 0) => CentsOf(U) = 0
<1> DEFINE p == [u \in U |-> u.value]
           q == [u \in U |-> u.cents]
<1>1. ValueOf(U) = SumFunctionOnSet(p, U) /\ CentsOf(U) = SumFunctionOnSet(q, U)
  BY DEF ValueOf, CentsOf, SumFunction
<1>2. \A u \in U : p[u] = u.value /\ q[u] = u.cents
  OBVIOUS
<1> HIDE DEF p, q
<1>3. (\A u \in U : p[u] = 0) => SumFunctionOnSet(p, U) = 0
  BY SumOfZeros
<1>4. (\A u \in U : q[u] = 0) => SumFunctionOnSet(q, U) = 0
  BY SumOfZeros
<1> QED
  BY <1>1, <1>2, <1>3, <1>4

(***************************************************************************)
(* A selection reaches its target.                                         *)
(***************************************************************************)
LEMMA TargetMet ==
  ASSUME NEW utxos, NEW target
  PROVE  /\ \A coins \in SelectCoins(utxos, target) : ValueOf(coins) >= target
         /\ \A tokens \in SelectDD(utxos, target) : CentsOf(tokens) >= target
<1>1. ASSUME NEW coins \in SelectCoins(utxos, target) PROVE ValueOf(coins) >= target
  BY DEF SelectCoins, LargestFirst, ValueOf
<1>2. ASSUME NEW tokens \in SelectDD(utxos, target) PROVE CentsOf(tokens) >= target
  BY DEF SelectDD, LargestFirst, CentsOf
<1> QED
  BY <1>1, <1>2

-----------------------------------------------------------------------------
(* What a transaction takes from a ledger, and what it gives. *)
Balances(l, tx, fee, minted, burned) ==
  /\ Sound(tx)
  /\ fee \in Nat /\ minted \in Int /\ burned \in Int
  /\ Sats(l, Spends(tx)) = OutputSats(tx) + fee
  /\ DD(l, Spends(tx)) + minted = Tokens(tx) + burned

MintReported(tx, lock, cents) ==
  /\ tx.version = "mint" /\ cents > 0 /\ OpReturnData(tx).amounts[1] = cents
  /\ Output(tx, 0) = Paying(Output(tx, 0).value, CollateralMAST(WalletKey, lock))
  /\ OpReturnData(tx).lockHeight = lock
  /\ DDAmountCents(tx, 1) = cents

TransferReported(tx, recipients, spent) ==
  LET n    == Len(recipients)
      back == spent - RecipientCents(recipients)
  IN  /\ tx.version = "transfer"
      /\ \A i \in 1 .. n : DDAmountCents(tx, i - 1) = recipients[i].cents
      /\ back >= 0
      /\ back > 0 => /\ DDAmountCents(tx, n) = back
                     /\ Output(tx, n).script = TokenP2TR(WalletKey)
      /\ n \in Nat /\ DOMAIN recipients = 1 .. n /\ back \in Int
      /\ Len(OpReturnData(tx).amounts) = IF back > 0 THEN n + 1 ELSE n
      /\ \A i \in 1 .. n :
           Output(tx, i - 1).script = TokenP2TR(DecodeAddress(recipients[i].to))

RedeemReported(tx, value, cents, spent) ==
  /\ tx.version = "redeem"
  /\ Output(tx, 0) = Paying(value, ChangeScript)
  /\ cents <= spent

(***************************************************************************)
(* What the node adds up of a transaction is what its builder put in it.   *)
(***************************************************************************)
LEMMA OutputsAddUp ==
  ASSUME NEW tx, Len(tx.outputs) \in Nat, DOMAIN tx.outputs = 1 .. Len(tx.outputs),
         \A v \in Vouts(tx) : Output(tx, v).value \in Nat
  PROVE  OutputSats(tx) = Value(tx.outputs)
<1> DEFINE k == Len(tx.outputs)
           V == Vouts(tx)
           f == [v \in V |-> Output(tx, v).value]
           g == [i \in DOMAIN tx.outputs |-> tx.outputs[i].value]
<1>1. V = 0 .. k - 1
  BY DEF Vouts
<1>2. ASSUME NEW i \in 1 .. k PROVE g[i] = f[i - 1] /\ g[i] \in Int
  <2>1. i - 1 \in V /\ (i - 1) + 1 = i
    BY <1>1
  <2> QED
    BY <2>1 DEF Output
<1>3. OutputSats(tx) = SumFunctionOnSet(f, V)
  BY DEF OutputSats, SumFunction
<1>4. Value(tx.outputs) = SumFunctionOnSet(g, 1 .. k)
  BY DEF Value
<1>5. k \in Nat
  OBVIOUS
<1> HIDE DEF f, g, V, k
<1>6. SumFunctionOnSet(f, 0 .. k - 1) = SumFunctionOnSet(g, 1 .. k)
  BY <1>2, <1>5, SumShifted
<1> QED
  BY <1>1, <1>3, <1>4, <1>6

(***************************************************************************)
(* The coins a builder is given are what its transaction spends.           *)
(***************************************************************************)
LEMMA SpendsCoins ==
  ASSUME NEW tx, NEW U,
         \A i \in tx.inputs : \E u \in U : i.out = u.out,
         \A u \in U : \E i \in tx.inputs : i.out = u.out
  PROVE  Spends(tx) = {u.out : u \in U}
<1>1. ASSUME NEW out \in Spends(tx) PROVE out \in {u.out : u \in U}
  <2>1. PICK i \in tx.inputs : out = i.out
    BY DEF Spends
  <2> QED
    BY <2>1
<1>2. ASSUME NEW u \in U PROVE u.out \in Spends(tx)
  BY DEF Spends
<1> QED
  BY <1>1, <1>2

(***************************************************************************)
(* A transaction spends the coins its inputs were made of;                 *)
(***************************************************************************)
LEMMA SpendsOf ==
  ASSUME NEW tx, NEW U, NEW sequence, tx.inputs = Inputs(U, sequence)
  PROVE  Spends(tx) = {u.out : u \in U}
<1>1. \A i \in tx.inputs : \E u \in U : i.out = u.out
  BY DEF Inputs
<1>2. ASSUME NEW u \in U PROVE \E i \in tx.inputs : i.out = u.out
  <2>1. [out |-> u.out, sequence |-> sequence] \in tx.inputs
    BY DEF Inputs
  <2> QED
    BY <2>1
<1> QED
  BY <1>1, <1>2, SpendsCoins

(***************************************************************************)
(* two kinds of them if they have different sequence numbers.              *)
(***************************************************************************)
LEMMA SpendsOfBoth ==
  ASSUME NEW tx, NEW A, NEW B, NEW sequence, NEW other,
         tx.inputs = Inputs(A, sequence) \union Inputs(B, other),
         NEW U, U = A \union B
  PROVE  Spends(tx) = {u.out : u \in U}
<1>1. \A i \in tx.inputs : \E u \in U : i.out = u.out
  BY SpentByInputs
<1>2. ASSUME NEW u \in A PROVE \E i \in tx.inputs : i.out = u.out
  <2>1. [out |-> u.out, sequence |-> sequence] \in tx.inputs
    BY DEF Inputs
  <2> QED
    BY <2>1
<1>3. ASSUME NEW u \in B PROVE \E i \in tx.inputs : i.out = u.out
  <2>1. [out |-> u.out, sequence |-> other] \in tx.inputs
    BY DEF Inputs
  <2> QED
    BY <2>1
<1> QED
  BY <1>1, <1>2, <1>3, SpendsCoins

(***************************************************************************)
(* Coins of different classes are different coins.                         *)
(***************************************************************************)
LEMMA ClassesDisjoint ==
  ASSUME TypeOK, SoundLedger(ledger), NEW class, NEW other, class # other
  PROVE  Classified(class) \intersect Classified(other) = {}
<1>1. ASSUME NEW u, u \in Classified(class), u \in Classified(other) PROVE FALSE
  BY <1>1, ListedCoins
<1> QED
  BY <1>1

(***************************************************************************)
(* Coins picked among those of a class.                                    *)
(***************************************************************************)
LEMMA PickedCoins ==
  ASSUME TypeOK, SoundLedger(ledger), NEW class, NEW U, U \subseteq Classified(class)
  PROVE  /\ IsFiniteSet(U) /\ \A u \in U : IsCoin(u) /\ u.value \in Int
         /\ class # "dd_token" => CentsOf(U) = 0
         /\ class = "dd_token" => ValueOf(U) = 0
<1>1. IsFiniteSet(U)
  BY ListedCoins, FS_Subset
<1>2. \A u \in U : /\ IsCoin(u)
                   /\ class # "dd_token" => u.cents = 0
                   /\ class = "dd_token" => u.value = 0
  BY ListedCoins
<1>3. \A u \in U : u.value \in Int
  BY <1>2 DEF IsCoin
<1>4. class # "dd_token" => CentsOf(U) = 0
  BY <1>1, <1>2, CoinsWithout
<1>5. class = "dd_token" => ValueOf(U) = 0
  BY <1>1, <1>2, CoinsWithout
<1> QED
  BY <1>1, <1>2, <1>3, <1>4, <1>5

(***************************************************************************)
(* What a transaction of given coins takes from the ledger.                *)
(***************************************************************************)
LEMMA TakenCoins ==
  ASSUME NEW U, IsFiniteSet(U), \A u \in U : IsCoin(u),
         NEW tx, Spends(tx) = {u.out : u \in U}
  PROVE  /\ Sats(ledger, Spends(tx)) = ValueOf(U) /\ DD(ledger, Spends(tx)) = CentsOf(U)
         /\ ValueOf(U) \in Nat /\ CentsOf(U) \in Nat
<1> DEFINE S == Spends(tx)
<1>1. S = {u.out : u \in U}
  OBVIOUS
<1>2. SatsIn(S) = Sats(ledger, S) /\ DDIn(S) = DD(ledger, S)
  BY LedgerNames
<1> HIDE DEF S
<1>3. /\ SatsIn(S) = ValueOf(U) /\ DDIn(S) = CentsOf(U)
      /\ ValueOf(U) \in Nat /\ CentsOf(U) \in Nat
  BY <1>1, SpentSums
<1> QED
  BY <1>2, <1>3 DEF S

----------------------------------------------------------------------------

(***************************************************************************)
(* What a mint is about to send takes from the ledger its outputs and the  *)
(* fee it will report, makes as many DigiDollars as were asked for, and    *)
(* locks the collateral until the height it will report.                   *)
(***************************************************************************)
LEMMA MintBalances ==
  ASSUME CollateralInv, SoundLedger(ledger), NEW c \in MintCalls, pc[c] = "utxos",
         NEW b \in MintResults(c)
  PROVE  /\ Balances(ledger, b.tx, b.fee, req[c].ddAmountCents, 0)
         /\ MintReported(b.tx, atHeight[c] + LOCK_TIERS[req[c].lockTier].blocks,
                         req[c].ddAmountCents)
<1> DEFINE r          == req[c]
           tier       == LOCK_TIERS[r.lockTier]
           collateral == CollateralSats(r.ddAmountCents, price[c], tier.ratio)
           target     == MintTarget(collateral, r.feeRate)
           lock       == atHeight[c] + tier.blocks
           rate       == r.feeRate
           cents      == r.ddAmountCents
<1>1. /\ cents > 0 /\ r.lockTier \in DOMAIN LOCK_TIERS /\ price[c] > 0
      /\ \E coins \in SelectCoins(Classified("standard"), target) :
           b = MintTx(r, coins, collateral, lock, WalletKey, ChangeScript)
  BY DEF MintResults, MintBuilds
<1>2. r \in MintRequests /\ \E o \in OraclePrices : price[c] = o.price
  BY DEF CollateralInv, MintKnows, Calls
<1>3. cents \in Int /\ rate \in Int /\ price[c] \in Int
  BY <1>2, NumbersAssumption
<1>4. tier.ratio \in Nat
  BY <1>1, TiersAssumption
<1>5. collateral > 0
  BY <1>1, <1>2, PricesAssumption
<1>6. collateral \in Int
  <2>1. cents * COIN * tier.ratio * 100 \in Int
    BY <1>3, <1>4, NumbersAssumption
  <2> QED
    BY <1>1, <1>3, <2>1 DEF CollateralSats
<1> HIDE DEF r, tier, collateral, target, lock, rate, cents
<1>7. PICK coins \in SelectCoins(Classified("standard"), target) :
        b = MintTx(r, coins, collateral, lock, WalletKey, ChangeScript)
  BY <1>1
<1>8. coins \subseteq Classified("standard") /\ ValueOf(coins) >= target
  BY TargetMet, ChosenAreListed
<1>9. /\ IsFiniteSet(coins) /\ \A u \in coins : IsCoin(u) /\ u.value \in Int
      /\ CentsOf(coins) = 0
  BY <1>8, PickedCoins DEF CollateralInv
<1>10. b.tx.inputs = Inputs(coins, "FINAL")
  BY <1>7 DEF MintTx
<1>11. /\ Sats(ledger, Spends(b.tx)) = ValueOf(coins)
       /\ DD(ledger, Spends(b.tx)) = CentsOf(coins) /\ ValueOf(coins) \in Nat
  <2>1. Spends(b.tx) = {u.out : u \in coins}
    BY <1>10, SpendsOf
  <2> QED
    BY <1>9, <2>1, TakenCoins
<1>12. target \in Int /\ target >= collateral + MIN_DD_FEE
  <2> DEFINE vsize == EstimateVsize(3, 4, 1)
  <2>1. vsize \in Int
    BY EstimateType
  <2>2. target = collateral + Max({MIN_DD_FEE, CalculateFee(vsize, rate)})
    BY DEF target, MintTarget, rate
  <2> HIDE DEF vsize
  <2>3. /\ Max({MIN_DD_FEE, CalculateFee(vsize, rate)}) \in Int
        /\ Max({MIN_DD_FEE, CalculateFee(vsize, rate)}) >= MIN_DD_FEE
    BY <1>3, <2>1, FeeType, FeeConstants
  <2> QED
    BY <1>6, <2>2, <2>3, FeeConstants
<1>13. /\ Value(b.tx.outputs) \in Int /\ b.fee \in Int
       /\ ValueOf(coins) = Value(b.tx.outputs) + b.fee
       /\ ValueOf(coins) >= collateral + MIN_DD_FEE => b.fee >= MIN_DD_FEE
  BY <1>3, <1>6, <1>7, <1>9, MintPays DEF rate
<1>14. b.fee \in Nat
  BY <1>6, <1>8, <1>11, <1>12, <1>13, FeeConstants
<1> DEFINE tx   == b.tx
           data == [txType |-> "mint", amounts |-> <<cents>>, lockHeight |-> lock,
                    lockTier |-> r.lockTier]
<1>15. /\ Len(tx.outputs) \in Nat /\ DOMAIN tx.outputs = 1 .. Len(tx.outputs)
       /\ \A v \in Vouts(tx) : Output(tx, v).value \in Nat
       /\ Output(tx, 0) = Paying(collateral, CollateralMAST(WalletKey, lock))
       /\ OpReturnData(tx) = data /\ tx.version = "mint"
       /\ \A v \in Vouts(tx) : v # 1 => DDAmountCents(tx, v) = 0
       /\ DDAmountCents(tx, 1) = cents
       /\ Tokens(tx) = cents
  <2>1. r.ddAmountCents \in Int /\ r.feeRate \in Int /\ \A u \in coins : u.value \in Int
    BY <1>3, <1>9 DEF rate, cents
  <2>2. MintRecorded(b.tx, r, collateral, lock, WalletKey)
    BY <1>5, <1>6, <1>7, <1>9, <2>1, MintRecords
  <2> QED
    BY <2>2 DEF MintRecorded, cents
<1>16. data.amounts[1] = cents /\ data.lockHeight = lock
  OBVIOUS
<1> HIDE DEF tx, data
<1>17. Sound(tx)
  <2>1. cents \in Nat
    BY <1>1, <1>3
  <2>2. ASSUME NEW v \in Vouts(tx) PROVE DDAmountCents(tx, v) \in Nat
    BY <1>15, <2>1
  <2> QED
    BY <1>15, <1>16, <2>1, <2>2 DEF Sound
<1>18. OutputSats(tx) = Value(tx.outputs)
  BY <1>15, OutputsAddUp
<1>19. Balances(ledger, b.tx, b.fee, cents, 0)
  BY <1>3, <1>9, <1>11, <1>13, <1>14, <1>15, <1>17, <1>18 DEF Balances, tx
<1>20. MintReported(b.tx, lock, cents)
  BY <1>1, <1>15, <1>16 DEF MintReported, tx, Paying, cents
<1> QED
  BY <1>19, <1>20 DEF cents, lock, tier, r

(***************************************************************************)
(* The recipients of a request, of whom there is one at least.             *)
(***************************************************************************)
LEMMA RecipientsTyped ==
  ASSUME NEW r \in TransferRequests, r.recipients # << >>
  PROVE  \E k \in Nat : /\ k >= 1 /\ DOMAIN r.recipients = 1 .. k /\ Len(r.recipients) = k
                        /\ RecipientCents(r.recipients) \in Int
<1> DEFINE R == {r.recipients[i] : i \in DOMAIN r.recipients}
           k == Len(r.recipients)
           f == [i \in DOMAIN r.recipients |-> r.recipients[i].cents]
<1>1. r.recipients \in Seq(R)
  BY RecipientsAssumption
<1>2. k \in Nat /\ k >= 1 /\ DOMAIN r.recipients = 1 .. k
  <2> HIDE DEF R
  <2> QED
    BY <1>1
<1>3. \A i \in 1 .. k : f[i] \in Int
  BY <1>2, NumbersAssumption
<1>4. RecipientCents(r.recipients) = SumFunctionOnSet(f, 1 .. k)
  BY <1>2 DEF RecipientCents, SumFunction
<1>5. IsFiniteSet(1 .. k)
  BY <1>2, FS_Interval
<1> HIDE DEF f, k
<1>6. RecipientCents(r.recipients) \in Int
  BY <1>3, <1>4, <1>5, SumType
<1> QED
  BY <1>2, <1>6 DEF k

(***************************************************************************)
(* What a transfer is about to send gives the DigiDollars it spends to the *)
(* recipients and back to the wallet, to the last cent.                    *)
(***************************************************************************)
LEMMA TransferBalances ==
  ASSUME CollateralInv, SoundLedger(ledger), NEW r \in TransferRequests,
         NEW b \in TransferResults(r)
  PROVE  /\ Balances(ledger, b.tx, b.fee, 0, 0)
         /\ TransferReported(b.tx, r.recipients, DD(ledger, Spends(b.tx)))
<1> DEFINE coins  == Classified("standard")
           target == RecipientCents(r.recipients)
           rate   == r.feeRate
<1>1. /\ r.recipients # << >> /\ \A i \in DOMAIN r.recipients : r.recipients[i].cents > 0
      /\ b.change >= 0
      /\ \E tokens \in SelectDD(Classified("dd_token"), target) :
           b = TransferTx(r, tokens, coins, WalletKey, ChangeScript)
  BY DEF TransferResults, TransferBuilds
<1>2. PICK k \in Nat : /\ k >= 1 /\ DOMAIN r.recipients = 1 .. k /\ Len(r.recipients) = k
                       /\ target \in Int
  BY <1>1, RecipientsTyped
<1>3. rate \in Int /\ \A i \in 1 .. k : r.recipients[i].cents \in Nat
  BY <1>1, <1>2, NumbersAssumption
<1> HIDE DEF coins, target, rate
<1>4. PICK tokens \in SelectDD(Classified("dd_token"), target) :
        b = TransferTx(r, tokens, coins, WalletKey, ChangeScript)
  BY <1>1
<1>5. tokens \subseteq Classified("dd_token") /\ CentsOf(tokens) >= target
  BY TargetMet, ChosenAreListed
<1>6. /\ IsFiniteSet(tokens) /\ \A u \in tokens : IsCoin(u) /\ u.value \in Int
      /\ ValueOf(tokens) = 0
  BY <1>5, PickedCoins DEF CollateralInv
<1>7. /\ IsFiniteSet(coins) /\ \A u \in coins : IsCoin(u) /\ u.value \in Int
      /\ CentsOf(coins) = 0
  BY PickedCoins DEF CollateralInv, coins
<1>8. tokens \intersect coins = {}
  BY <1>5, ClassesDisjoint DEF CollateralInv, coins
<1> DEFINE U == tokens \union coins
<1>9. IsFiniteSet(U) /\ \A u \in U : IsCoin(u)
  BY <1>6, <1>7, FS_Union
<1>10. ValueOf(U) = ValueOf(tokens) + ValueOf(coins) /\ CentsOf(U) = CentsOf(tokens) + CentsOf(coins)
  BY <1>6, <1>7, <1>8, <1>9, CoinsJoined
<1>11. b.tx.inputs = Inputs(U, "FINAL")
  BY <1>4 DEF TransferTx
<1> HIDE DEF U
<1>12. /\ Sats(ledger, Spends(b.tx)) = ValueOf(U) /\ DD(ledger, Spends(b.tx)) = CentsOf(U)
       /\ ValueOf(U) \in Nat /\ CentsOf(U) \in Nat
  <2>1. Spends(b.tx) = {u.out : u \in U}
    BY <1>11, SpendsOf
  <2> QED
    BY <1>9, <2>1, TakenCoins
<1>13. CentsOf(tokens) \in Nat /\ ValueOf(coins) \in Nat
  <2> DEFINE A == {u.out : u \in tokens}
             B == {u.out : u \in coins}
  <2> HIDE DEF A, B
  <2> QED
    BY <1>6, <1>7, SpentSums DEF A, B
<1>14. /\ Value(b.tx.outputs) \in Nat /\ b.fee \in Int
       /\ ValueOf(coins) = Value(b.tx.outputs) + b.fee
       /\ b.change >= 0 => b.fee >= MIN_DD_FEE
  BY <1>2, <1>3, <1>4, <1>6, <1>7, TransferPays DEF rate
<1>15. b.fee \in Nat
  BY <1>1, <1>14, FeeConstants
<1>16. ChangeScript.type = "p2tr"
  BY DEF ChangeScript, TokenP2TR, P2TR
<1>17. TransferRecorded(b.tx, r.recipients, k, CentsOf(tokens), WalletKey)
  BY <1>2, <1>3, <1>4, <1>5, <1>6, <1>7, <1>13, <1>16, TransferRecords DEF rate, target
<1>18. OutputSats(b.tx) = Value(b.tx.outputs)
  BY <1>17, OutputsAddUp DEF TransferRecorded
<1>19. Sound(b.tx) /\ Tokens(b.tx) = CentsOf(tokens)
  BY <1>17 DEF Sound, TransferRecorded
<1>20. DD(ledger, Spends(b.tx)) = CentsOf(tokens) /\ Sats(ledger, Spends(b.tx)) = ValueOf(coins)
  BY <1>6, <1>7, <1>10, <1>12, <1>13
<1>21. Balances(ledger, b.tx, b.fee, 0, 0)
  BY <1>13, <1>14, <1>15, <1>18, <1>19, <1>20 DEF Balances
<1>22. TransferReported(b.tx, r.recipients, CentsOf(tokens))
  <2> DEFINE back == CentsOf(tokens) - target
  <2>1. back \in Int /\ back >= 0
    BY <1>2, <1>5, <1>13
  <2>2. /\ b.tx.version = "transfer"
        /\ \A i \in 1 .. k : DDAmountCents(b.tx, i - 1) = r.recipients[i].cents
        /\ back > 0 => /\ DDAmountCents(b.tx, k) = back
                       /\ Output(b.tx, k).script = TokenP2TR(WalletKey)
        /\ Len(OpReturnData(b.tx).amounts) = IF back > 0 THEN k + 1 ELSE k
        /\ \A i \in 1 .. k :
             Output(b.tx, i - 1).script = TokenP2TR(DecodeAddress(r.recipients[i].to))
    BY <1>17 DEF TransferRecorded, target
  <2> QED
    BY <1>2, <2>1, <2>2 DEF TransferReported, target
<1> QED
  BY <1>20, <1>21, <1>22

(***************************************************************************)
(* What a redeem is about to send burns what it will report burned of the  *)
(* tokens it spends, and pays the collateral back.                         *)
(***************************************************************************)
LEMMA RedeemBalances ==
  ASSUME CollateralInv, SoundLedger(ledger), NEW c \in RedeemCalls, NEW b \in RedeemResults(c),
         req[c].feeRate \in Int, Burned(c) \in Int
  PROVE  /\ Balances(ledger, b.tx, b.fee, 0, Burned(c))
         /\ RedeemReported(b.tx, OutputOf(<<req[c].positionId, 0>>).value, Burned(c),
                           DD(ledger, Spends(b.tx)))
<1> DEFINE coins == Classified("standard")
           cents == ToRedeem(req[c], ReadPosition(c))
           lock  == ReadPosition(c).unlock_height
           rate  == req[c].feeRate
           out   == <<req[c].positionId, 0>>
<1>1. PICK collateral \in CollateralUTXOs(req[c].positionId) :
        b \in RedeemBuilds(cents, atHeight[c], lock, collateral, Classified("dd_token"),
                           coins, rate, WalletKey, ChangeScript)
  BY DEF RedeemResults
<1>2. /\ cents > 0 /\ collateral.value > 0 /\ b.change >= 0
      /\ \E tokens \in SelectDD(Classified("dd_token"), cents) :
           b = RedeemTx(cents, lock, collateral, tokens, coins, rate, WalletKey, ChangeScript)
  BY <1>1 DEF RedeemBuilds
<1>3. cents = Burned(c) /\ cents \in Int /\ rate \in Int
  BY DEF Burned
<1>4. collateral.out = out /\ collateral \in Classified("dd_collateral")
  BY DEF CollateralUTXOs
<1> HIDE DEF coins, cents, lock, rate, out
<1>5. PICK tokens \in SelectDD(Classified("dd_token"), cents) :
        b = RedeemTx(cents, lock, collateral, tokens, coins, rate, WalletKey, ChangeScript)
  BY <1>2
<1>6. tokens \subseteq Classified("dd_token") /\ CentsOf(tokens) >= cents
  BY TargetMet, ChosenAreListed
<1>7. /\ IsFiniteSet(tokens) /\ \A u \in tokens : IsCoin(u) /\ u.value \in Int
      /\ ValueOf(tokens) = 0
  BY <1>6, PickedCoins DEF CollateralInv
<1>8. /\ IsFiniteSet(coins) /\ \A u \in coins : IsCoin(u) /\ u.value \in Int
      /\ CentsOf(coins) = 0
  BY PickedCoins DEF CollateralInv, coins
<1>9. /\ IsFiniteSet({collateral}) /\ \A u \in {collateral} : IsCoin(u) /\ u.value \in Int
      /\ CentsOf({collateral}) = 0
  <2>1. {collateral} \subseteq Classified("dd_collateral")
    BY <1>4
  <2> QED
    BY <2>1, PickedCoins DEF CollateralInv
<1>10. /\ {collateral} \intersect tokens = {} /\ {collateral} \intersect coins = {}
       /\ tokens \intersect coins = {}
  BY <1>4, <1>6, ClassesDisjoint DEF CollateralInv, coins
<1> DEFINE A == {collateral} \union tokens
           U == A \union coins
<1>11. IsFiniteSet(A) /\ IsFiniteSet(U) /\ \A u \in U : IsCoin(u)
  BY <1>7, <1>8, <1>9, FS_Union
<1>12. /\ ValueOf(A) = ValueOf({collateral}) + ValueOf(tokens)
       /\ CentsOf(A) = CentsOf({collateral}) + CentsOf(tokens)
  <2>1. \A u \in {collateral} \union tokens : IsCoin(u)
    BY <1>11
  <2> QED
    BY <1>7, <1>9, <1>10, <2>1, CoinsJoined
<1>13. ValueOf(U) = ValueOf(A) + ValueOf(coins) /\ CentsOf(U) = CentsOf(A) + CentsOf(coins)
  <2>1. A \intersect coins = {} /\ \A u \in A \union coins : IsCoin(u)
    BY <1>10, <1>11
  <2> HIDE DEF A
  <2> QED
    BY <1>8, <1>11, <2>1, CoinsJoined
<1>14. b.tx.inputs = Inputs(A, "CLTV_ENABLED") \union Inputs(coins, "FINAL")
  BY <1>5 DEF RedeemTx
<1>15. ValueOf({collateral}) = collateral.value
  <2> DEFINE f == [u \in {collateral} |-> u.value]
  <2>1. f[collateral] = collateral.value /\ collateral.value \in Int
    BY <1>9
  <2>2. ValueOf({collateral}) = SumFunctionOnSet(f, {collateral})
    BY DEF ValueOf, SumFunction
  <2> HIDE DEF f
  <2> QED
    BY <2>1, <2>2, SumOfOne
<1> HIDE DEF U
<1>16. /\ Sats(ledger, Spends(b.tx)) = ValueOf(U) /\ DD(ledger, Spends(b.tx)) = CentsOf(U)
       /\ ValueOf(U) \in Nat /\ CentsOf(U) \in Nat
  <2> HIDE DEF A
  <2>1. Spends(b.tx) = {u.out : u \in U}
    BY <1>14, SpendsOfBoth DEF U
  <2> QED
    BY <1>11, <2>1, TakenCoins
<1>17. CentsOf(tokens) \in Nat /\ ValueOf(coins) \in Nat
  <2> DEFINE S == {u.out : u \in tokens}
             T == {u.out : u \in coins}
  <2> HIDE DEF S, T
  <2> QED
    BY <1>7, <1>8, SpentSums DEF S, T
<1>18. collateral.value \in Nat /\ collateral.value = OutputOf(out).value
  BY <1>4, <1>9 DEF IsCoin, UTXO
<1>19. /\ Value(b.tx.outputs) \in Nat /\ b.fee \in Int
       /\ collateral.value + ValueOf(coins) = Value(b.tx.outputs) + b.fee
       /\ b.change >= 0 => b.fee >= MIN_REDEEM_FEE
  BY <1>3, <1>5, <1>7, <1>8, <1>18, RedeemPays
<1>20. b.fee \in Nat
  BY <1>2, <1>19, FeeConstants
<1>21. ChangeScript.type = "p2tr"
  BY DEF ChangeScript, TokenP2TR, P2TR
<1>22. RedeemRecorded(b.tx, collateral.value, ChangeScript, CentsOf(tokens) - cents)
  BY <1>2, <1>3, <1>5, <1>6, <1>7, <1>8, <1>17, <1>18, <1>21, RedeemRecords
<1>23. OutputSats(b.tx) = Value(b.tx.outputs)
  BY <1>22, OutputsAddUp DEF RedeemRecorded
<1>24. Sound(b.tx) /\ Tokens(b.tx) = CentsOf(tokens) - cents
  BY <1>22 DEF Sound, RedeemRecorded
<1>25. /\ DD(ledger, Spends(b.tx)) = CentsOf(tokens)
       /\ Sats(ledger, Spends(b.tx)) = collateral.value + ValueOf(coins)
  BY <1>7, <1>8, <1>9, <1>12, <1>13, <1>15, <1>16, <1>17, <1>18
<1>26. Balances(ledger, b.tx, b.fee, 0, cents)
  BY <1>3, <1>17, <1>18, <1>19, <1>20, <1>23, <1>24, <1>25 DEF Balances
<1>27. RedeemReported(b.tx, OutputOf(out).value, cents, CentsOf(tokens))
  BY <1>6, <1>18, <1>22 DEF RedeemReported, RedeemRecorded
<1> QED
  BY <1>3, <1>25, <1>26, <1>27 DEF out

----------------------------------------------------------------------------
(***************************************************************************)
(* The invariant: the ledger is sound, what a call has sent balances and   *)
(* is what it will report, and the sums hold.                              *)
(***************************************************************************)
Minted(c)   == IF c \in MintCalls THEN req[c].ddAmountCents ELSE 0
Redeemed(c) == IF c \in RedeemCalls THEN Burned(c) ELSE 0

LedgerSound == SoundLedger(ledger) /\ SpentKnown(ledger)

RedeemAsks(c) ==
  c \in RedeemCalls =>
    /\ pc[c] \in {"trackerHeight", "trackerPosition", "height", "utxos"} =>
         req[c] \in RedeemRequests
    /\ \A p \in position[c] : \E cents \in Int : p.dd_minted = DecimalDD(cents)

Answered(c) ==
  /\ pc[c] = "done" => wire[c] = "accepted"
  /\ wire[c] = "accepted" => \E id \in Accepted : SameTx(c, id)

Balanced(c) == Balances(ledger, sent[c].tx, sent[c].fee, Minted(c), Redeemed(c))

Reported(c) ==
  LET tx    == sent[c].tx
      spent == DD(ledger, Spends(tx))
  IN  /\ c \in MintCalls =>
           MintReported(tx, atHeight[c] + LOCK_TIERS[req[c].lockTier].blocks,
                        req[c].ddAmountCents)
      /\ c \in TransferCalls => TransferReported(tx, req[c].recipients, spent)
      /\ c \in RedeemCalls =>
           RedeemReported(tx, OutputOf(<<req[c].positionId, 0>>).value, Burned(c), spent)

CallAccount(c) ==
  /\ RedeemAsks(c) /\ Answered(c)
  /\ Sent(c) => Balanced(c) /\ Reported(c)

Books ==
  /\ CollateralInv /\ LockInv
  /\ LedgerSound
  /\ \A c \in Calls : CallAccount(c)

AccountInv == Books /\ SatsConserved /\ DDConserved

----------------------------------------------------------------------------

(***************************************************************************)
(* dd_minted of a position is the decimal string of a whole number of      *)
(* cents.                                                                  *)
(***************************************************************************)
LEMMA LookupTells ==
  ASSUME TypeOK, LedgerSound, NEW id, NEW p \in Lookup(id)
  PROVE  \E cents \in Int : p.dd_minted = DecimalDD(cents)
<1>1. id \in confirmed /\ ledger[id].version = "mint" /\ p = PositionOf(id)
  BY DEF Lookup, ListPositions
<1>2. Sound(ledger[id])
  BY <1>1 DEF TypeOK, Accepted, LedgerSound, SoundLedger
<1>3. OpReturnData(ledger[id]).amounts[1] \in Int
  BY <1>1, <1>2 DEF Sound
<1>4. p.dd_minted = DecimalDD(OpReturnData(ledger[id]).amounts[1])
  BY <1>1 DEF PositionOf
<1> QED
  BY <1>3, <1>4

(***************************************************************************)
(* The amount to redeem, given or the whole position, is a number.         *)
(***************************************************************************)
LEMMA BurnedTyped ==
  ASSUME Books, NEW c \in RedeemCalls, pc[c] = "utxos"
  PROVE  Burned(c) \in Int /\ req[c].feeRate \in Int
<1>1. /\ req[c] \in RedeemRequests /\ position[c] # {}
      /\ \A p \in position[c] : \E cents \in Int : p.dd_minted = DecimalDD(cents)
  BY DEF Books, CallAccount, RedeemAsks, LockInv, CallInv, RedeemInv, Calls
<1>2. PICK cents \in Int : ReadPosition(c).dd_minted = DecimalDD(cents)
  BY <1>1 DEF ReadPosition
<1>3. ParseCents(ReadPosition(c).dd_minted) \in Int
  BY <1>2 DEF ParseCents, DecimalDD
<1>4. req[c].burn \subseteq Int /\ req[c].feeRate \in Int
  BY <1>1, NumbersAssumption
<1>5. req[c].burn # {} => (CHOOSE n \in req[c].burn : TRUE) \in Int
  BY <1>4
<1> QED
  BY <1>3, <1>4, <1>5 DEF Burned, ToRedeem

(***************************************************************************)
(* Every step keeps what a redeem knows of its request and position.       *)
(***************************************************************************)
LEMMA RedeemKeepsAsking ==
  ASSUME TypeOK, LedgerSound, [Next]_vars, NEW c \in Calls, RedeemAsks(c)
  PROVE  RedeemAsks(c)'
<1> USE DEF RedeemAsks, TypeOK, Goes, Fails, Sends, Ended, nodeVars
<1>1. ASSUME NEW d \in Calls, Starts(d) PROVE RedeemAsks(c)'
  BY <1>1, CallsAssumption, LookupTells
  DEF Starts, MintReadsPrice, MintRefusesPrice, TransferSends,
     TransferCannotBuild, RedeemReadsPosition, RedeemReadsTrackerHeight, FirstReadFails
<1>2. ASSUME NEW d \in Calls, Continues(d) PROVE RedeemAsks(c)'
  BY <1>2, CallsAssumption, LookupTells
  DEF Continues, MintReadsHeight, MintSends, MintCannotBuild,
     RedeemGetsTrackerHeight, RedeemGetsPosition, RedeemTracked, RedeemReadsHeight,
     RedeemSends, RedeemCannotBuild, ReadFails, SendReturns, SendTimesOut
<1>3. ASSUME NEW d \in Calls, Node(d) PROVE RedeemAsks(c)'
  BY <1>3 DEF Node, NodeAnswers, NodeAccepts, NodeKnows, NodeRejects
<1>4. CASE PaymentArrives \/ NodeMines \/ OracleMoves \/ UNCHANGED vars
  BY <1>4 DEF PaymentArrives, NodeMines, OracleMoves, vars, callVars
<1> QED
  BY <1>1, <1>2, <1>3, <1>4 DEF Next

(***************************************************************************)
(* What a call has sent, and what for, no step changes any more.           *)
(***************************************************************************)
LEMMA SentIsFixed ==
  ASSUME TypeOK, [Next]_vars, NEW c \in Calls, Sent(c)
  PROVE  /\ Sent(c)' /\ sent'[c] = sent[c] /\ req'[c] = req[c]
         /\ atHeight'[c] = atHeight[c] /\ position'[c] = position[c]
<1> USE DEF TypeOK, Goes, Fails, Sends, Ended, nodeVars, Sent
<1>1. ASSUME NEW d \in Calls, Starts(d) 
      PROVE  /\ Sent(c)' /\ sent'[c] = sent[c] /\ req'[c] = req[c]
             /\ atHeight'[c] = atHeight[c] /\ position'[c] = position[c]
  BY <1>1 
  DEF Starts, MintReadsPrice, MintRefusesPrice, TransferSends,
     TransferCannotBuild, RedeemReadsPosition, RedeemReadsTrackerHeight, FirstReadFails
<1>2. ASSUME NEW d \in Calls, Continues(d) 
      PROVE  /\ Sent(c)' /\ sent'[c] = sent[c] /\ req'[c] = req[c]
             /\ atHeight'[c] = atHeight[c] /\ position'[c] = position[c]
  BY <1>2 
  DEF Continues, MintReadsHeight, MintSends, MintCannotBuild,
     RedeemGetsTrackerHeight, RedeemGetsPosition, RedeemTracked, RedeemReadsHeight,
     RedeemSends, RedeemCannotBuild, ReadFails, SendReturns, SendTimesOut
<1>3. ASSUME NEW d \in Calls, Node(d) 
      PROVE  /\ Sent(c)' /\ sent'[c] = sent[c] /\ req'[c] = req[c]
             /\ atHeight'[c] = atHeight[c] /\ position'[c] = position[c]
  BY <1>3 DEF Node, NodeAnswers, NodeAccepts, NodeKnows, NodeRejects
<1>4. CASE PaymentArrives \/ NodeMines \/ OracleMoves \/ UNCHANGED vars
  BY <1>4 DEF PaymentArrives, NodeMines, OracleMoves, vars, callVars
<1> QED
  BY <1>1, <1>2, <1>3, <1>4 DEF Next

(***************************************************************************)
(* A transaction that balances does so on any later ledger.                *)
(***************************************************************************)
LEMMA BalancesKept ==
  ASSUME NEW l, NEW m, Extends(m, l), NEW tx, Spends(tx) \subseteq OutsIn(l, DOMAIN l)
  PROVE  /\ DD(m, Spends(tx)) = DD(l, Spends(tx))
         /\ \A fee, minted, burned :
              Balances(l, tx, fee, minted, burned) => Balances(m, tx, fee, minted, burned)
<1>1. Sats(m, Spends(tx)) = Sats(l, Spends(tx)) /\ DD(m, Spends(tx)) = DD(l, Spends(tx))
  BY SumsKept
<1> QED
  BY <1>1 DEF Balances

(***************************************************************************)
(* What a call has sent still balances and still is what it will report,   *)
(* after any step.                                                         *)
(***************************************************************************)
LEMMA AccountKept ==
  ASSUME Books, [Next]_vars, NEW c \in Calls, Sent(c)
  PROVE  (Balanced(c) /\ Reported(c))'
<1> DEFINE tx == sent[c].tx
<1>1. /\ TypeOK /\ SpendsRightly(c) /\ Balanced(c) /\ Reported(c)
      /\ c \in RedeemCalls => RedeemInv(c)
  BY DEF Books, CallAccount, CollateralInv, LockInv, CallInv
<1>2. /\ Sent(c)' /\ sent'[c] = sent[c] /\ req'[c] = req[c]
      /\ atHeight'[c] = atHeight[c] /\ position'[c] = position[c]
  BY <1>1, SentIsFixed
<1>3. Extends(ledger', ledger)
  BY <1>1, LedgerGrows DEF Grows, Extends, Accepted
<1>4. Spends(tx) \subseteq OutsIn(ledger, DOMAIN ledger)
  BY <1>1, LedgerNames DEF SpendsRightly, Accepted
<1> HIDE DEF tx
<1>5. /\ DD(ledger', Spends(tx)) = DD(ledger, Spends(tx))
      /\ \A fee, minted, burned :
           Balances(ledger, tx, fee, minted, burned)
             => Balances(ledger', tx, fee, minted, burned)
  BY <1>3, <1>4, BalancesKept
<1>6. Burned(c)' = Burned(c)
  BY <1>2 DEF Burned, ReadPosition
<1>7. Balanced(c)'
  <2>1. Minted(c)' = Minted(c) /\ Redeemed(c)' = Redeemed(c)
    BY <1>2, <1>6 DEF Minted, Redeemed
  <2>2. Balances(ledger, tx, sent[c].fee, Minted(c), Redeemed(c))
    BY <1>1 DEF Balanced, tx
  <2>3. Balances(ledger', tx, sent[c].fee, Minted(c), Redeemed(c))
    BY <1>5, <2>2
  <2> QED
    BY <1>2, <2>1, <2>3 DEF Balanced, tx
<1>8. c \in RedeemCalls =>
        OutputOf(<<req[c].positionId, 0>>)' = OutputOf(<<req[c].positionId, 0>>)
  BY <1>1, <1>2, <1>3 DEF RedeemInv, Extends, OutputOf, Accepted
<1>9. Reported(c)'
  BY <1>1, <1>2, <1>5, <1>6, <1>8 DEF Reported, tx
<1> QED
  BY <1>7, <1>9

(***************************************************************************)
(* It does when the call sends it.                                         *)
(***************************************************************************)
LEMMA SentBalances ==
  ASSUME Books, NEW c \in Calls, MintSends(c) \/ TransferSends(c) \/ RedeemSends(c)
  PROVE  (Balanced(c) /\ Reported(c))'
<1>1. TypeOK /\ CollateralInv /\ SoundLedger(ledger)
  BY DEF Books, CollateralInv, LedgerSound
<1>2. CASE MintSends(c)
  <2>1. PICK b \in MintResults(c) : Sends(c, "utxos", b, KeyPath(b.tx))
    BY <1>2 DEF MintSends
  <2>2. /\ sent'[c].tx = b.tx /\ sent'[c].fee = b.fee /\ UNCHANGED <<ledger, req, atHeight>>
        /\ c \in MintCalls /\ pc[c] = "utxos" /\ c \notin TransferCalls /\ c \notin RedeemCalls
    BY <1>1, <1>2, <2>1, CallsAssumption DEF MintSends, Sends, TypeOK, nodeVars
  <2>3. /\ Balances(ledger, b.tx, b.fee, req[c].ddAmountCents, 0)
        /\ MintReported(b.tx, atHeight[c] + LOCK_TIERS[req[c].lockTier].blocks,
                        req[c].ddAmountCents)
    BY <1>1, <2>2, MintBalances
  <2> QED
    BY <2>2, <2>3 DEF Balanced, Minted, Redeemed, Reported
<1>3. CASE TransferSends(c)
  <2>1. PICK r \in TransferRequests :
          /\ req' = [req EXCEPT ![c] = r]
          /\ \E b \in TransferResults(r) : Sends(c, "idle", b, KeyPath(b.tx))
    BY <1>3 DEF TransferSends
  <2>2. PICK b \in TransferResults(r) : Sends(c, "idle", b, KeyPath(b.tx))
    BY <2>1
  <2>3. /\ sent'[c].tx = b.tx /\ sent'[c].fee = b.fee /\ UNCHANGED ledger /\ req'[c] = r
        /\ c \in TransferCalls /\ c \notin MintCalls /\ c \notin RedeemCalls
    BY <1>1, <1>3, <2>1, <2>2, CallsAssumption DEF TransferSends, Sends, TypeOK, nodeVars
  <2>4. /\ Balances(ledger, b.tx, b.fee, 0, 0)
        /\ TransferReported(b.tx, r.recipients, DD(ledger, Spends(b.tx)))
    BY <1>1, TransferBalances
  <2> QED
    BY <2>3, <2>4 DEF Balanced, Minted, Redeemed, Reported
<1>4. CASE RedeemSends(c)
  <2>1. PICK b \in RedeemResults(c) : Sends(c, "utxos", b, RedeemWitness(c, b.tx))
    BY <1>4 DEF RedeemSends
  <2>2. /\ sent'[c].tx = b.tx /\ sent'[c].fee = b.fee /\ UNCHANGED <<ledger, req, position>>
        /\ c \in RedeemCalls /\ pc[c] = "utxos" /\ c \notin MintCalls /\ c \notin TransferCalls
    BY <1>1, <1>4, <2>1, CallsAssumption DEF RedeemSends, Sends, TypeOK, nodeVars
  <2>3. Burned(c) \in Int /\ req[c].feeRate \in Int
    BY <2>2, BurnedTyped
  <2>4. /\ Balances(ledger, b.tx, b.fee, 0, Burned(c))
        /\ RedeemReported(b.tx, OutputOf(<<req[c].positionId, 0>>).value, Burned(c),
                          DD(ledger, Spends(b.tx)))
    BY <1>1, <2>2, <2>3, RedeemBalances
  <2>5. Burned(c)' = Burned(c)
    BY <2>2 DEF Burned, ReadPosition
  <2>6. OutputOf(<<req[c].positionId, 0>>)' = OutputOf(<<req[c].positionId, 0>>)
    BY <2>2 DEF OutputOf
  <2> QED
    BY <2>2, <2>4, <2>5, <2>6 DEF Balanced, Minted, Redeemed, Reported
<1> QED
  BY <1>2, <1>3, <1>4

(***************************************************************************)
(* So it does after every step, the one that sends it or a later one.      *)
(***************************************************************************)
LEMMA SentStaysBalanced ==
  ASSUME Books, [Next]_vars, NEW c \in Calls, Sent(c)'
  PROVE  (Balanced(c) /\ Reported(c))'
<1>1. TypeOK
  BY DEF Books, CollateralInv
<1>2. CASE Sent(c)
  BY <1>2, AccountKept
<1>3. CASE MintSends(c) \/ TransferSends(c) \/ RedeemSends(c)
  BY <1>3, SentBalances
<1>4. ASSUME ~MintSends(c), ~TransferSends(c), ~RedeemSends(c) PROVE Sent(c)
  <2>1. CASE Starts(c) \/ Continues(c) \/ Node(c)
    BY <1>1, <1>4, <2>1, QuietSteps
  <2>2. CASE \E d \in Calls : d # c /\ (Starts(d) \/ Continues(d) \/ Node(d))
    BY <1>1, <2>2, OthersUndisturbed DEF Undisturbed
  <2>3. CASE PaymentArrives \/ NodeMines \/ OracleMoves \/ UNCHANGED vars
    BY <2>3 DEF PaymentArrives, NodeMines, OracleMoves, vars, callVars, Sent
  <2> QED
    BY <2>1, <2>2, <2>3 DEF Next
<1> QED
  BY <1>2, <1>3, <1>4

(***************************************************************************)
(* An answer stands for a transaction on the ledger.                       *)
(***************************************************************************)
LEMMA AnswersStand ==
  ASSUME TypeOK, [Next]_vars, NEW c \in Calls, Answered(c)
  PROVE  Answered(c)'
<1> USE DEF Answered, TypeOK, Goes, Fails, Sends, Ended, nodeVars, Sent, SameTx, Accepted
<1>1. ASSUME NEW d \in Calls, Starts(d) PROVE Answered(c)'
  BY <1>1
  DEF Starts, MintReadsPrice, MintRefusesPrice, TransferSends,
     TransferCannotBuild, RedeemReadsPosition, RedeemReadsTrackerHeight, FirstReadFails
<1>2. ASSUME NEW d \in Calls, Continues(d) PROVE Answered(c)'
  BY <1>2
  DEF Continues, MintReadsHeight, MintSends, MintCannotBuild,
     RedeemGetsTrackerHeight, RedeemGetsPosition, RedeemTracked, RedeemReadsHeight,
     RedeemSends, RedeemCannotBuild, ReadFails, SendReturns, SendTimesOut
<1>3. ASSUME NEW d \in Calls, Node(d) PROVE Answered(c)'
  BY <1>3 DEF Node, NodeAnswers, NodeAccepts, NodeKnows, NodeRejects, WithTx
<1>4. CASE PaymentArrives
  BY <1>4 DEF PaymentArrives, callVars, WithTx
<1>5. CASE NodeMines \/ OracleMoves \/ UNCHANGED vars
  BY <1>5 DEF NodeMines, OracleMoves, vars, callVars
<1> QED
  BY <1>1, <1>2, <1>3, <1>4, <1>5 DEF Next

----------------------------------------------------------------------------
(* Sums over the calls that were accepted. *)

FeesOf(ids)   == SumFunction([c \in Calls \intersect ids |-> sent[c].fee])
MintedOf(ids) == SumFunction([c \in MintCalls \intersect ids |-> req[c].ddAmountCents])
BurnedOf(ids) == SumFunction([c \in RedeemCalls \intersect ids |-> Burned(c)])

\* The sum of g over all of A with one more member is that of f and that member.
AddsOne(f, g, A, ids, x) ==
  SumFunctionOnSet(g, A \intersect (ids \union {x}))
    = SumFunctionOnSet(f, A \intersect ids) + (IF x \in A THEN g[x] ELSE 0)

AgreeOn(f, g, S) == \A y \in S : f[y] \in Int /\ g[y] = f[y]

(***************************************************************************)
(* Adding up over a set that has one more member.                          *)
(***************************************************************************)
LEMMA OneMore ==
  ASSUME NEW A, NEW ids, IsFiniteSet(ids), NEW x, x \notin ids,
         NEW f, NEW g, AgreeOn(f, g, A \intersect ids), x \in A => g[x] \in Int
  PROVE  AddsOne(f, g, A, ids, x)
<1> SUFFICES SumFunctionOnSet(g, A \intersect (ids \union {x}))
               = SumFunctionOnSet(f, A \intersect ids) + (IF x \in A THEN g[x] ELSE 0)
  BY DEF AddsOne
<1> DEFINE S == A \intersect ids
<1>0. \A y \in S : f[y] \in Int /\ g[y] = f[y]
  BY DEF AgreeOn
<1>1. IsFiniteSet(S) /\ x \notin S
  BY FS_Intersection
<1>2. SumFunctionOnSet(g, S) = SumFunctionOnSet(f, S)
  BY <1>0, <1>1, SumEqual
<1>3. SumFunctionOnSet(f, S) \in Int
  BY <1>0, <1>1, SumType
<1>4. CASE x \in A
  <2>1. A \intersect (ids \union {x}) = S \union {x} /\ \A y \in S \union {x} : g[y] \in Int
    BY <1>0, <1>4
  <2> HIDE DEF S
  <2>2. SumFunctionOnSet(g, S \union {x}) = SumFunctionOnSet(g, S) + g[x]
    BY <1>1, <2>1, SumAdd
  <2> QED
    BY <1>2, <1>4, <2>1, <2>2 DEF S
<1>5. CASE x \notin A
  <2> DEFINE T == A \intersect (ids \union {x})
  <2>1. T = S
    BY <1>5
  <2> HIDE DEF S, T
  <2>2. SumFunctionOnSet(g, T) = SumFunctionOnSet(f, S) + 0
    BY <1>2, <1>3, <2>1
  <2> QED
    BY <1>5, <2>2, Zenon DEF S, T
<1> QED
  BY <1>4, <1>5

(***************************************************************************)
(* What the sums add up is numbers.                                        *)
(***************************************************************************)
LEMMA AcceptedTyped ==
  ASSUME Books, NEW c \in Calls, Sent(c)
  PROVE  /\ sent[c].fee \in Nat
         /\ c \in MintCalls => req[c].ddAmountCents \in Int
         /\ c \in RedeemCalls => Burned(c) \in Int
BY DEF Books, CallAccount, Balanced, Balances, Minted, Redeemed

(***************************************************************************)
(* A call is on the ledger with the transaction it sent.                   *)
(***************************************************************************)
LEMMA AcceptedIsSent ==
  ASSUME TypeOK, NEW c \in Calls \intersect Accepted
  PROVE  Sent(c) /\ wire[c] = "accepted" /\ ledger[c] = sent[c].tx
BY DEF TypeOK, Sent

(***************************************************************************)
(* No step changes what the accepted calls add up to.                      *)
(***************************************************************************)
LEMMA SumsAlike ==
  ASSUME Books, [Next]_vars, NEW ids, ids \subseteq Accepted
  PROVE  FeesOf(ids)' = FeesOf(ids) /\ MintedOf(ids)' = MintedOf(ids) /\ BurnedOf(ids)' = BurnedOf(ids)
<1>1. ASSUME NEW c \in Calls \intersect ids
      PROVE  sent'[c] = sent[c] /\ req'[c] = req[c] /\ Burned(c)' = Burned(c)
  <2>1. /\ sent'[c] = sent[c] /\ req'[c] = req[c] /\ position'[c] = position[c]
    BY AcceptedIsSent, SentIsFixed DEF Books, CollateralInv
  <2> QED
    BY <2>1 DEF Burned, ReadPosition
<1>2. FeesOf(ids)' = FeesOf(ids)
  BY <1>1 DEF FeesOf
<1>3. MintedOf(ids)' = MintedOf(ids)
  BY <1>1 DEF MintedOf, Calls
<1>4. BurnedOf(ids)' = BurnedOf(ids)
  BY <1>1 DEF BurnedOf, Calls
<1> QED
  BY <1>2, <1>3, <1>4

(***************************************************************************)
(* The node takes what a call sent.                                        *)
(***************************************************************************)
LEMMA AcceptAdds ==
  ASSUME Books, NEW c \in Calls, NodeAccepts(c)
  PROVE  /\ Adds(ledger', ledger, c, sent[c].tx)
         /\ Spends(sent[c].tx) \subseteq UnspentIn(ledger)
         /\ Sent(c) /\ Balanced(c)
<1>1. /\ wire[c] = "toNode" /\ Valid(c) /\ ~Overtaken(c)
      /\ ledger' = WithTx(c, sent[c].tx)
  BY DEF NodeAccepts, NodeAnswers, Acceptable
<1>2. Sent(c) /\ Balanced(c) /\ c \notin DOMAIN ledger /\ c \in Txids
  BY <1>1 DEF Sent, Books, CallAccount, CollateralInv, TypeOK, Accepted, Txids
<1>3. Sound(sent[c].tx) /\ SoundLedger(ledger) /\ SpentKnown(ledger)
  BY <1>2 DEF Balanced, Balances, Books, LedgerSound
<1>4. /\ DOMAIN ledger' = DOMAIN ledger \union {c} /\ ledger'[c] = sent[c].tx
      /\ \A i \in DOMAIN ledger : ledger'[i] = ledger[i]
  BY <1>1, <1>2 DEF WithTx, Accepted
<1>5. Adds(ledger', ledger, c, sent[c].tx)
  BY <1>2, <1>3, <1>4 DEF Adds
<1>6. Spends(sent[c].tx) \subseteq Unspent
  BY <1>1 DEF Valid, Overtaken, Unspent
<1> QED
  BY <1>2, <1>5, <1>6, LedgerNames

(***************************************************************************)
(* Somebody's payment is taken.                                            *)
(***************************************************************************)
LEMMA PaymentAdds ==
  ASSUME Books, NEW id \in Others \ Accepted, ledger' = WithTx(id, OtherTx[id])
  PROVE  /\ Adds(ledger', ledger, id, OtherTx[id])
         /\ \A out \in Spends(OtherTx[id]) : out[1] \notin Txids
         /\ DOMAIN ledger \subseteq Txids
<1>1. /\ DOMAIN ledger' = DOMAIN ledger \union {id} /\ ledger'[id] = OtherTx[id]
      /\ \A i \in DOMAIN ledger : ledger'[i] = ledger[i]
  BY DEF WithTx, Accepted
<1>2. Sound(OtherTx[id]) /\ \A out \in Spends(OtherTx[id]) : out[1] \notin Txids
  BY ReceivedAssumption
<1>3. id \in Txids \ DOMAIN ledger /\ DOMAIN ledger \subseteq Txids
  BY DEF Txids, Accepted, Books, CollateralInv, TypeOK
<1> QED
  BY <1>1, <1>2, <1>3 DEF Adds, Books, LedgerSound

(***************************************************************************)
(* The ledger stays sound: only an accepted call or a payment changes it.  *)
(***************************************************************************)
LEMMA LedgerStaysSound ==
  ASSUME Books, [Next]_vars
  PROVE  LedgerSound'
<1>1. CASE UNCHANGED ledger
  BY <1>1 DEF Books, LedgerSound
<1>2. ASSUME NEW c \in Calls, NodeAccepts(c) PROVE LedgerSound'
  <2>1. /\ Adds(ledger', ledger, c, sent[c].tx)
        /\ Spends(sent[c].tx) \subseteq UnspentIn(ledger)
    BY <1>2, AcceptAdds
  <2> QED
    BY <2>1, LedgerExtended, Spending DEF LedgerSound
<1>3. CASE PaymentArrives
  <2>1. PICK id \in Others \ Accepted : ledger' = WithTx(id, OtherTx[id])
    BY <1>3 DEF PaymentArrives
  <2>2. /\ Adds(ledger', ledger, id, OtherTx[id])
        /\ \A out \in Spends(OtherTx[id]) : out[1] \notin Txids
        /\ DOMAIN ledger \subseteq Txids
    BY <2>1, PaymentAdds
  <2>3. {} \subseteq DOMAIN ledger
    OBVIOUS
  <2> QED
    BY <2>2, <2>3, LedgerExtended, Receiving DEF LedgerSound
<1> QED
  BY <1>1, <1>2, <1>3
  DEF Next, Starts, MintReadsPrice, MintRefusesPrice, TransferSends,
     TransferCannotBuild, RedeemReadsPosition, RedeemReadsTrackerHeight, FirstReadFails,
     Continues, MintReadsHeight, MintSends, MintCannotBuild, RedeemGetsTrackerHeight,
     RedeemGetsPosition, RedeemTracked, RedeemReadsHeight, RedeemSends,
     RedeemCannotBuild, ReadFails, SendReturns, SendTimesOut, nodeVars,
     Node, NodeKnows, NodeRejects, NodeMines, OracleMoves, vars

(***************************************************************************)
(* All but the two sums is inductive already.                              *)
(***************************************************************************)
LEMMA BooksNext == Books /\ [Next]_vars => Books'
<1> SUFFICES ASSUME Books, [Next]_vars PROVE Books'
  OBVIOUS
<1>1. CollateralInv' /\ LockInv' /\ TypeOK /\ LedgerSound
  BY CollateralInvNext, LockInvNext DEF Books, CollateralInv
<1>2. LedgerSound'
  BY LedgerStaysSound
<1>3. ASSUME NEW c \in Calls PROVE CallAccount(c)'
  <2>1. RedeemAsks(c)' /\ Answered(c)'
    BY <1>1, RedeemKeepsAsking, AnswersStand DEF Books, CallAccount
  <2>2. (Sent(c) => Balanced(c) /\ Reported(c))'
    BY SentStaysBalanced
  <2> QED
    BY <2>1, <2>2 DEF CallAccount
<1> QED
  BY <1>1, <1>2, <1>3 DEF Books

----------------------------------------------------------------------------
(* What is conserved, said of a ledger. *)

ReceivedIn(l) == Others \intersect DOMAIN l

SatsAddUp(l, fees) == Sats(l, UnspentIn(l)) + fees = Sats(l, OutsIn(l, ReceivedIn(l)))

DDAddUp(l, minted, burned) ==
  DD(l, UnspentIn(l)) = DD(l, OutsIn(l, ReceivedIn(l))) + minted - burned

(***************************************************************************)
(* The two conservation properties, said of the ledger of the moment       *)
(***************************************************************************)
LEMMA LedgerTotals ==
  /\ SatsConserved <=> SatsAddUp(ledger, FeesOf(Accepted))
  /\ DDConserved <=> DDAddUp(ledger, MintedOf(Accepted), BurnedOf(Accepted))
<1>1. Received = ReceivedIn(ledger)
  BY DEF Received, ReceivedIn, Accepted
<1>2. /\ SatsIn(Unspent) = Sats(ledger, UnspentIn(ledger))
      /\ SatsIn(Outs(Received)) = Sats(ledger, OutsIn(ledger, ReceivedIn(ledger)))
      /\ DDIn(Unspent) = DD(ledger, UnspentIn(ledger))
      /\ DDIn(Outs(Received)) = DD(ledger, OutsIn(ledger, ReceivedIn(ledger)))
  BY <1>1, LedgerNames
<1> QED
  BY <1>2 DEF SatsConserved, DDConserved, SatsAddUp, DDAddUp, FeesOf, MintedOf, BurnedOf

(***************************************************************************)
(* and of the next.                                                        *)
(***************************************************************************)
LEMMA LedgerTotalsNext ==
  /\ SatsConserved' <=> SatsAddUp(ledger', FeesOf(Accepted)')
  /\ DDConserved' <=> DDAddUp(ledger', MintedOf(Accepted)', BurnedOf(Accepted)')
<1>1. \A ids : Outs(ids)' = OutsIn(ledger', ids)
  BY DEF Outs, OutsIn
<1>2. ReceivedIn(ledger') = Received'
  BY DEF Received, ReceivedIn, Accepted
<1>3. Outs(Accepted)' = OutsIn(ledger', DOMAIN ledger')
  BY DEF Outs, OutsIn, Accepted
<1>4. SpentOuts' = SpentIn(ledger')
  BY DEF SpentOuts, SpentIn, Accepted
<1>5. Unspent' = UnspentIn(ledger')
  BY <1>3, <1>4 DEF Unspent, UnspentIn
<1>6. Outs(Received)' = OutsIn(ledger', ReceivedIn(ledger'))
  BY <1>2 DEF Outs, OutsIn
<1>7. SatsIn(Unspent)' = Sats(ledger', Unspent') /\ DDIn(Unspent)' = DD(ledger', Unspent')
  BY DEF SatsIn, DDIn, Sats, DD, SatsAt, DDAt, SumFunction, OutputOf
<1>8. /\ SatsIn(Outs(Received))' = Sats(ledger', Outs(Received)')
      /\ DDIn(Outs(Received))' = DD(ledger', Outs(Received)')
  BY DEF SatsIn, DDIn, Sats, DD, SatsAt, DDAt, SumFunction, OutputOf
<1> QED
  BY <1>5, <1>6, <1>7, <1>8
  DEF SatsConserved, DDConserved, SatsAddUp, DDAddUp, FeesOf, MintedOf, BurnedOf

(***************************************************************************)
(* A transaction that balances keeps the books: unspent sats fall by its   *)
(* fee, DigiDollars grow by what it mints and fall by what it burns.       *)
(***************************************************************************)
LEMMA AcceptAddsUp ==
  ASSUME NEW m, NEW l, NEW id, NEW tx, Adds(m, l, id, tx), Spends(tx) \subseteq UnspentIn(l),
         id \notin Others, NEW fee, NEW minted, NEW burned, Balances(l, tx, fee, minted, burned)
  PROVE  /\ \A fees \in Int : SatsAddUp(l, fees) => SatsAddUp(m, fees + fee)
         /\ \A M, B \in Int : DDAddUp(l, M, B) => DDAddUp(m, M + minted, B + burned)
<1> DEFINE R == ReceivedIn(l)
           T == OutsIn(l, R)
           U == UnspentIn(l)
           V == UnspentIn(m)
           S == Spends(tx)
<1>1. /\ Sats(m, V) = Sats(l, U) - Sats(l, S) + OutputSats(tx)
      /\ DD(m, V) = DD(l, U) - DD(l, S) + Tokens(tx)
  BY Spending
<1>2. /\ SoundLedger(l) /\ SoundLedger(m) /\ Extends(m, l) /\ id \in DOMAIN m /\ m[id] = tx
      /\ R \subseteq DOMAIN l /\ DOMAIN m = DOMAIN l \union {id}
  BY LedgerExtended DEF Adds, ReceivedIn
<1>3. ReceivedIn(m) = R
  BY <1>2 DEF ReceivedIn
<1>4. OutsIn(m, R) = T
  <2>1. \A i \in R : m[i] = l[i]
    BY <1>2 DEF Adds
  <2> QED
    BY <2>1 DEF OutsIn
<1>5. /\ T \subseteq OutsIn(l, DOMAIN l) /\ U \subseteq OutsIn(l, DOMAIN l)
      /\ S \subseteq OutsIn(l, DOMAIN l)
  BY <1>2 DEF OutsIn, UnspentIn
<1>6. /\ Sats(l, S) = OutputSats(tx) + fee /\ DD(l, S) + minted = Tokens(tx) + burned
      /\ fee \in Int /\ minted \in Int /\ burned \in Int
  BY DEF Balances
<1>7. OutputSats(tx) \in Nat /\ Tokens(tx) \in Nat
  <2>1. OutsIn(m, {id}) \subseteq OutsIn(m, DOMAIN m)
    BY <1>2 DEF OutsIn
  <2> DEFINE N == OutsIn(m, {id})
  <2> HIDE DEF N
  <2>2. Sats(m, N) \in Nat /\ DD(m, N) \in Nat
    BY <1>2, <2>1, SumsTyped DEF N
  <2>3. Sats(m, N) = OutputSats(tx) /\ DD(m, N) = Tokens(tx)
    BY <1>2, SumsOfNew DEF N
  <2> QED
    BY <2>2, <2>3
<1> HIDE DEF R, T, U, V, S
<1>8. Sats(m, T) = Sats(l, T) /\ DD(m, T) = DD(l, T)
  BY <1>2, <1>5, SumsKept
<1>9. /\ Sats(l, U) \in Nat /\ Sats(l, S) \in Nat /\ Sats(l, T) \in Nat
      /\ DD(l, U) \in Nat /\ DD(l, S) \in Nat /\ DD(l, T) \in Nat
  BY <1>2, <1>5, SumsTyped
<1>10. ASSUME NEW fees \in Int, Sats(l, U) + fees = Sats(l, T)
       PROVE  Sats(m, V) + (fees + fee) = Sats(m, T)
  BY <1>1, <1>6, <1>7, <1>8, <1>9, <1>10
<1>11. ASSUME NEW M \in Int, NEW B \in Int, DD(l, U) = DD(l, T) + M - B
       PROVE  DD(m, V) = DD(m, T) + (M + minted) - (B + burned)
  BY <1>1, <1>6, <1>7, <1>8, <1>9, <1>11
<1> QED
  BY <1>3, <1>4, <1>10, <1>11 DEF SatsAddUp, DDAddUp, R, T, U, V

(***************************************************************************)
(* A payment keeps them too: it counts as received.                        *)
(***************************************************************************)
LEMMA PaymentAddsUp ==
  ASSUME NEW m, NEW l, NEW id, NEW tx, Adds(m, l, id, tx), id \in Others,
         \A out \in Spends(tx) : out[1] \notin Txids, DOMAIN l \subseteq Txids
  PROVE  /\ \A fees \in Int : SatsAddUp(l, fees) => SatsAddUp(m, fees)
         /\ \A M, B \in Int : DDAddUp(l, M, B) => DDAddUp(m, M, B)
<1> DEFINE R == ReceivedIn(l)
           T == OutsIn(l, R)
           W == OutsIn(m, R \union {id})
           U == UnspentIn(l)
           V == UnspentIn(m)
<1>1. /\ SoundLedger(l) /\ SoundLedger(m) /\ Extends(m, l) /\ id \in DOMAIN m /\ m[id] = tx
      /\ R \subseteq DOMAIN l /\ DOMAIN m = DOMAIN l \union {id}
  BY LedgerExtended DEF Adds, ReceivedIn
<1>2. /\ Sats(m, V) = Sats(l, U) + OutputSats(tx)
      /\ DD(m, V) = DD(l, U) + Tokens(tx)
      /\ Sats(m, W) = Sats(l, T) + OutputSats(tx)
      /\ DD(m, W) = DD(l, T) + Tokens(tx)
  BY <1>1, Receiving
<1>3. ReceivedIn(m) = R \union {id}
  BY <1>1 DEF ReceivedIn
<1>4. T \subseteq OutsIn(l, DOMAIN l) /\ U \subseteq OutsIn(l, DOMAIN l)
  BY <1>1 DEF OutsIn, UnspentIn
<1>5. OutputSats(tx) \in Nat /\ Tokens(tx) \in Nat
  <2>1. OutsIn(m, {id}) \subseteq OutsIn(m, DOMAIN m)
    BY <1>1 DEF OutsIn
  <2> DEFINE N == OutsIn(m, {id})
  <2> HIDE DEF N
  <2>2. Sats(m, N) \in Nat /\ DD(m, N) \in Nat
    BY <1>1, <2>1, SumsTyped DEF N
  <2>3. Sats(m, N) = OutputSats(tx) /\ DD(m, N) = Tokens(tx)
    BY <1>1, SumsOfNew DEF N
  <2> QED
    BY <2>2, <2>3
<1> HIDE DEF R, T, U, V, W
<1>6. /\ Sats(l, U) \in Nat /\ Sats(l, T) \in Nat
      /\ DD(l, U) \in Nat /\ DD(l, T) \in Nat
  BY <1>1, <1>4, SumsTyped
<1>7. ASSUME NEW fees \in Int, Sats(l, U) + fees = Sats(l, T)
      PROVE  Sats(m, V) + fees = Sats(m, W)
  BY <1>2, <1>5, <1>6, <1>7
<1>8. ASSUME NEW M \in Int, NEW B \in Int, DD(l, U) = DD(l, T) + M - B
      PROVE  DD(m, V) = DD(m, W) + M - B
  BY <1>2, <1>5, <1>6, <1>8
<1> QED
  BY <1>3, <1>7, <1>8 DEF SatsAddUp, DDAddUp, R, T, U, V, W

(***************************************************************************)
(* The sums over the calls, when one more call is accepted.                *)
(***************************************************************************)
LEMMA SumsOfOneMore ==
  ASSUME Books, [Next]_vars, NEW c \in Calls, Sent(c), NEW ids, ids = Accepted, c \notin ids
  PROVE  /\ FeesOf(ids \union {c})' = FeesOf(ids) + sent[c].fee
         /\ MintedOf(ids \union {c})' = MintedOf(ids) + Minted(c)
         /\ BurnedOf(ids \union {c})' = BurnedOf(ids) + Redeemed(c)
         /\ FeesOf(ids) \in Int /\ MintedOf(ids) \in Int /\ BurnedOf(ids) \in Int
<1> DEFINE all == ids \union {c}
           f1 == [d \in Calls \intersect ids |-> sent[d].fee]
           g1 == [d \in Calls \intersect all |-> sent[d].fee]
           f2 == [d \in MintCalls \intersect ids |-> req[d].ddAmountCents]
           g2 == [d \in MintCalls \intersect all |-> req[d].ddAmountCents]
           f3 == [d \in RedeemCalls \intersect ids |-> Burned(d)]
           g3 == [d \in RedeemCalls \intersect all |-> Burned(d)]
<1>1. IsFiniteSet(ids) /\ TypeOK
  BY DEF Books, LedgerSound, SoundLedger, Accepted, CollateralInv
<1>2. ASSUME NEW d \in Calls \intersect all
      PROVE  /\ sent'[d] = sent[d] /\ req'[d] = req[d] /\ Burned(d)' = Burned(d)
             /\ sent[d].fee \in Int
             /\ d \in MintCalls => req[d].ddAmountCents \in Int
             /\ d \in RedeemCalls => Burned(d) \in Int
  <2>1. Sent(d)
    BY <1>1, AcceptedIsSent
  <2>2. sent'[d] = sent[d] /\ req'[d] = req[d] /\ position'[d] = position[d]
    BY <1>1, <2>1, SentIsFixed
  <2> QED
    BY <2>1, <2>2, AcceptedTyped DEF Burned, ReadPosition
<1>3. \A d \in Calls \intersect ids : f1[d] \in Int /\ g1[d] = f1[d]
  BY <1>2
<1>4. \A d \in MintCalls \intersect ids : f2[d] \in Int /\ g2[d] = f2[d]
  BY <1>2 DEF Calls
<1>5. \A d \in RedeemCalls \intersect ids : f3[d] \in Int /\ g3[d] = f3[d]
  BY <1>2 DEF Calls
<1>6. /\ g1[c] = sent[c].fee /\ g1[c] \in Int
      /\ c \in MintCalls => g2[c] = Minted(c) /\ g2[c] \in Int
      /\ c \in RedeemCalls => g3[c] = Redeemed(c) /\ g3[c] \in Int
  BY <1>2 DEF Minted, Redeemed
<1>7. /\ FeesOf(ids) = SumFunctionOnSet(f1, Calls \intersect ids)
      /\ MintedOf(ids) = SumFunctionOnSet(f2, MintCalls \intersect ids)
      /\ BurnedOf(ids) = SumFunctionOnSet(f3, RedeemCalls \intersect ids)
  BY DEF FeesOf, MintedOf, BurnedOf, SumFunction
<1>8. FeesOf(all)' = SumFunctionOnSet(g1, Calls \intersect all)
  <2>1. [d \in Calls \intersect all |-> sent'[d].fee] = g1
    BY <1>2
  <2> QED
    BY <2>1 DEF FeesOf, SumFunction
<1>9. MintedOf(all)' = SumFunctionOnSet(g2, MintCalls \intersect all)
  <2>1. [d \in MintCalls \intersect all |-> req'[d].ddAmountCents] = g2
    BY <1>2 DEF Calls
  <2> QED
    BY <2>1 DEF MintedOf, SumFunction
<1>10. BurnedOf(all)' = SumFunctionOnSet(g3, RedeemCalls \intersect all)
  <2>1. [d \in RedeemCalls \intersect all |-> Burned(d)'] = g3
    BY <1>2 DEF Calls
  <2> QED
    BY <2>1 DEF BurnedOf, SumFunction
<1>11. Calls \intersect ids = Calls \intersect ids /\ IsFiniteSet(Calls \intersect ids)
       /\ IsFiniteSet(MintCalls \intersect ids) /\ IsFiniteSet(RedeemCalls \intersect ids)
  BY <1>1, FS_Intersection
<1> HIDE DEF f1, f2, f3, g1, g2, g3
<1>12. /\ SumFunctionOnSet(f1, Calls \intersect ids) \in Int
       /\ SumFunctionOnSet(f2, MintCalls \intersect ids) \in Int
       /\ SumFunctionOnSet(f3, RedeemCalls \intersect ids) \in Int
  BY <1>3, <1>4, <1>5, <1>11, SumType
<1>13. SumFunctionOnSet(g1, Calls \intersect all)
         = SumFunctionOnSet(f1, Calls \intersect ids) + (IF c \in Calls THEN g1[c] ELSE 0)
  <2>1. AgreeOn(f1, g1, Calls \intersect ids)
    BY <1>3 DEF AgreeOn
  <2>2. c \in Calls => g1[c] \in Int
    BY <1>6
  <2>3. IsFiniteSet(ids) /\ c \notin ids
    BY <1>1
  <2>4. AddsOne(f1, g1, Calls, ids, c)
    BY <2>1, <2>2, <2>3, OneMore
  <2> QED
    BY <2>4 DEF AddsOne
<1>14. SumFunctionOnSet(g2, MintCalls \intersect all)
         = SumFunctionOnSet(f2, MintCalls \intersect ids) + (IF c \in MintCalls THEN g2[c] ELSE 0)
  <2>1. AgreeOn(f2, g2, MintCalls \intersect ids)
    BY <1>4 DEF AgreeOn
  <2>2. c \in MintCalls => g2[c] \in Int
    BY <1>6
  <2>3. IsFiniteSet(ids) /\ c \notin ids
    BY <1>1
  <2>4. AddsOne(f2, g2, MintCalls, ids, c)
    BY <2>1, <2>2, <2>3, OneMore
  <2> QED
    BY <2>4 DEF AddsOne
<1>15. SumFunctionOnSet(g3, RedeemCalls \intersect all)
         = SumFunctionOnSet(f3, RedeemCalls \intersect ids) + (IF c \in RedeemCalls THEN g3[c] ELSE 0)
  <2>1. AgreeOn(f3, g3, RedeemCalls \intersect ids)
    BY <1>5 DEF AgreeOn
  <2>2. c \in RedeemCalls => g3[c] \in Int
    BY <1>6
  <2>3. IsFiniteSet(ids) /\ c \notin ids
    BY <1>1
  <2>4. AddsOne(f3, g3, RedeemCalls, ids, c)
    BY <2>1, <2>2, <2>3, OneMore
  <2> QED
    BY <2>4 DEF AddsOne
<1>16. FeesOf(all)' = FeesOf(ids) + sent[c].fee
  BY <1>6, <1>7, <1>8, <1>13
<1>17. MintedOf(all)' = MintedOf(ids) + Minted(c)
  BY <1>6, <1>7, <1>9, <1>12, <1>14 DEF Minted
<1>18. BurnedOf(all)' = BurnedOf(ids) + Redeemed(c)
  BY <1>6, <1>7, <1>10, <1>12, <1>15 DEF Redeemed
<1> QED
  BY <1>7, <1>12, <1>16, <1>17, <1>18

(***************************************************************************)
(* The sums over the accepted calls are numbers.                           *)
(***************************************************************************)
LEMMA SumsTypedOf ==
  ASSUME Books
  PROVE  FeesOf(Accepted) \in Int /\ MintedOf(Accepted) \in Int /\ BurnedOf(Accepted) \in Int
<1> DEFINE A == Calls \intersect Accepted
           B == MintCalls \intersect Accepted
           C == RedeemCalls \intersect Accepted
           f1 == [d \in A |-> sent[d].fee]
           f2 == [d \in B |-> req[d].ddAmountCents]
           f3 == [d \in C |-> Burned(d)]
<1>1. IsFiniteSet(Accepted) /\ TypeOK
  BY DEF Books, LedgerSound, SoundLedger, Accepted, CollateralInv
<1>2. IsFiniteSet(A) /\ IsFiniteSet(B) /\ IsFiniteSet(C)
  BY <1>1, FS_Intersection
<1>3. ASSUME NEW d \in A
      PROVE  /\ sent[d].fee \in Int
             /\ d \in MintCalls => req[d].ddAmountCents \in Int
             /\ d \in RedeemCalls => Burned(d) \in Int
  BY <1>1, AcceptedIsSent, AcceptedTyped
<1>4. /\ \A d \in A : f1[d] \in Int
      /\ \A d \in B : f2[d] \in Int
      /\ \A d \in C : f3[d] \in Int
  BY <1>3 DEF Calls
<1>5. /\ FeesOf(Accepted) = SumFunctionOnSet(f1, A)
      /\ MintedOf(Accepted) = SumFunctionOnSet(f2, B)
      /\ BurnedOf(Accepted) = SumFunctionOnSet(f3, C)
  BY DEF FeesOf, MintedOf, BurnedOf, SumFunction
<1> HIDE DEF A, B, C, f1, f2, f3
<1> QED
  BY <1>2, <1>4, <1>5, SumType

(***************************************************************************)
(* The invariant is inductive: the node takes a transaction, a payment     *)
(* arrives, or the ledger and its sums stay as they are.                   *)
(***************************************************************************)
LEMMA AccountNext == AccountInv /\ [Next]_vars => AccountInv'
<1> SUFFICES ASSUME AccountInv, [Next]_vars PROVE AccountInv'
  OBVIOUS
<1>1. Books' /\ Books
  BY BooksNext DEF AccountInv
<1>2. /\ SatsAddUp(ledger, FeesOf(Accepted))
      /\ DDAddUp(ledger, MintedOf(Accepted), BurnedOf(Accepted))
  BY LedgerTotals DEF AccountInv
<1>3. FeesOf(Accepted) \in Int /\ MintedOf(Accepted) \in Int /\ BurnedOf(Accepted) \in Int
  BY <1>1, SumsTypedOf
<1>4. SUFFICES /\ SatsAddUp(ledger', FeesOf(Accepted)')
               /\ DDAddUp(ledger', MintedOf(Accepted)', BurnedOf(Accepted)')
  BY <1>1, LedgerTotalsNext DEF AccountInv
<1>5. PICK ids : ids = Accepted
  OBVIOUS
<1>6. /\ FeesOf(ids)' = FeesOf(ids) /\ MintedOf(ids)' = MintedOf(ids)
      /\ BurnedOf(ids)' = BurnedOf(ids)
  BY <1>1, <1>5, SumsAlike
<1>7. /\ FeesOf(ids) = FeesOf(Accepted) /\ MintedOf(ids) = MintedOf(Accepted)
      /\ BurnedOf(ids) = BurnedOf(Accepted)
  BY <1>5
<1>8. CASE UNCHANGED ledger
  <2>1. Accepted' = ids
    BY <1>5, <1>8 DEF Accepted
  <2>2. /\ FeesOf(Accepted)' = FeesOf(ids)' /\ MintedOf(Accepted)' = MintedOf(ids)'
        /\ BurnedOf(Accepted)' = BurnedOf(ids)'
    BY <2>1 DEF FeesOf, MintedOf, BurnedOf
  <2> QED
    BY <1>2, <1>6, <1>7, <1>8, <2>2
<1>9. ASSUME NEW c \in Calls, NodeAccepts(c)
      PROVE  /\ SatsAddUp(ledger', FeesOf(Accepted)')
             /\ DDAddUp(ledger', MintedOf(Accepted)', BurnedOf(Accepted)')
  <2>1. /\ Adds(ledger', ledger, c, sent[c].tx)
        /\ Spends(sent[c].tx) \subseteq UnspentIn(ledger)
        /\ Sent(c) /\ Balanced(c)
    BY <1>1, <1>9, AcceptAdds
  <2>2. Accepted' = ids \union {c} /\ c \notin ids
    BY <1>5, <2>1 DEF Adds, Accepted
  <2>3. /\ FeesOf(Accepted)' = FeesOf(ids \union {c})'
        /\ MintedOf(Accepted)' = MintedOf(ids \union {c})'
        /\ BurnedOf(Accepted)' = BurnedOf(ids \union {c})'
    BY <2>2 DEF FeesOf, MintedOf, BurnedOf
  <2>4. /\ FeesOf(ids \union {c})' = FeesOf(ids) + sent[c].fee
        /\ MintedOf(ids \union {c})' = MintedOf(ids) + Minted(c)
        /\ BurnedOf(ids \union {c})' = BurnedOf(ids) + Redeemed(c)
    BY <1>1, <1>5, <2>1, <2>2, SumsOfOneMore
  <2>5. c \notin Others
    BY CallsAssumption
  <2>6. /\ \A fees \in Int : SatsAddUp(ledger, fees) => SatsAddUp(ledger', fees + sent[c].fee)
        /\ \A M, B \in Int : DDAddUp(ledger, M, B)
                               => DDAddUp(ledger', M + Minted(c), B + Redeemed(c))
    BY <2>1, <2>5, AcceptAddsUp DEF Balanced
  <2>7. /\ SatsAddUp(ledger', FeesOf(Accepted) + sent[c].fee)
        /\ DDAddUp(ledger', MintedOf(Accepted) + Minted(c), BurnedOf(Accepted) + Redeemed(c))
    BY <1>2, <1>3, <2>6
  <2> QED
    BY <1>7, <2>3, <2>4, <2>7
<1>10. CASE PaymentArrives
  <2>1. PICK id \in Others \ Accepted : ledger' = WithTx(id, OtherTx[id])
    BY <1>10 DEF PaymentArrives
  <2>2. /\ Adds(ledger', ledger, id, OtherTx[id])
        /\ \A out \in Spends(OtherTx[id]) : out[1] \notin Txids
        /\ DOMAIN ledger \subseteq Txids
    BY <1>1, <2>1, PaymentAdds
  <2>3. /\ \A fees \in Int : SatsAddUp(ledger, fees) => SatsAddUp(ledger', fees)
        /\ \A M, B \in Int : DDAddUp(ledger, M, B) => DDAddUp(ledger', M, B)
    BY <2>1, <2>2, PaymentAddsUp
  <2>4. /\ SatsAddUp(ledger', FeesOf(ids))
        /\ DDAddUp(ledger', MintedOf(ids), BurnedOf(ids))
    BY <1>2, <1>3, <1>7, <2>3
  <2>5. Accepted' = Accepted \union {id} /\ id \notin Calls
    BY <2>2, CallsAssumption DEF Adds, Accepted
  <2>6. /\ Calls \intersect Accepted' = Calls \intersect ids
        /\ MintCalls \intersect Accepted' = MintCalls \intersect ids
        /\ RedeemCalls \intersect Accepted' = RedeemCalls \intersect ids
    BY <1>5, <2>5 DEF Calls
  <2>7. /\ FeesOf(Accepted)' = FeesOf(ids)' /\ MintedOf(Accepted)' = MintedOf(ids)'
        /\ BurnedOf(Accepted)' = BurnedOf(ids)'
    BY <2>6 DEF FeesOf, MintedOf, BurnedOf
  <2> QED
    BY <1>6, <2>4, <2>7
<1> QED
  BY <1>8, <1>9, <1>10
  DEF Next, Starts, MintReadsPrice, MintRefusesPrice, TransferSends,
     TransferCannotBuild, RedeemReadsPosition, RedeemReadsTrackerHeight, FirstReadFails,
     Continues, MintReadsHeight, MintSends, MintCannotBuild, RedeemGetsTrackerHeight,
     RedeemGetsPosition, RedeemTracked, RedeemReadsHeight, RedeemSends,
     RedeemCannotBuild, ReadFails, SendReturns, SendTimesOut, nodeVars,
     Node, NodeKnows, NodeRejects, NodeMines, OracleMoves, vars

-----------------------------------------------------------------------------
(***************************************************************************)
(* Nothing was spent, minted or burned before the calls begin.             *)
(***************************************************************************)
LEMMA LedgerSoundInit == Init => LedgerSound
<1> SUFFICES ASSUME Init PROVE LedgerSound
  OBVIOUS
<1>1. DOMAIN ledger = Earlier /\ \A id \in Earlier : ledger[id] = OtherTx[id]
  BY DEF Init
<1>2. SoundLedger(ledger)
  BY <1>1, EarlierAssumption, ReceivedAssumption DEF SoundLedger
<1>3. ASSUME NEW out \in SpentIn(ledger) PROVE out[1] \notin Txids
  <2>1. PICK id \in Earlier : out \in Spends(ledger[id])
    BY <1>1, <1>3 DEF SpentIn
  <2> QED
    BY <1>1, <2>1, EarlierAssumption, ReceivedAssumption
<1> QED
  BY <1>2, <1>3 DEF LedgerSound, SpentKnown

(***************************************************************************)
(* No call is on the ledger yet.                                           *)
(***************************************************************************)
LEMMA NothingAccepted ==
  ASSUME Init
  PROVE  FeesOf(Accepted) = 0 /\ MintedOf(Accepted) = 0 /\ BurnedOf(Accepted) = 0
<1>1. /\ Calls \intersect Accepted = {} /\ MintCalls \intersect Accepted = {}
      /\ RedeemCalls \intersect Accepted = {}
  BY EarlierAssumption, CallsAssumption DEF Init, Accepted, Calls
<1>2. \A f : SumFunctionOnSet(f, {}) = 0
  BY SumEmpty
<1> DEFINE f1 == [c \in Calls \intersect Accepted |-> sent[c].fee]
           f2 == [c \in MintCalls \intersect Accepted |-> req[c].ddAmountCents]
           f3 == [c \in RedeemCalls \intersect Accepted |-> Burned(c)]
<1>3. DOMAIN f1 = {} /\ DOMAIN f2 = {} /\ DOMAIN f3 = {}
  BY <1>1
<1>4. /\ FeesOf(Accepted) = SumFunctionOnSet(f1, DOMAIN f1)
      /\ MintedOf(Accepted) = SumFunctionOnSet(f2, DOMAIN f2)
      /\ BurnedOf(Accepted) = SumFunctionOnSet(f3, DOMAIN f3)
  BY DEF FeesOf, MintedOf, BurnedOf, SumFunction
<1> HIDE DEF f1, f2, f3
<1> QED
  BY <1>2, <1>3, <1>4

(***************************************************************************)
(* The books are balanced at the start.                                    *)
(***************************************************************************)
LEMMA AccountInvInit == Init => AccountInv
<1> SUFFICES ASSUME Init PROVE AccountInv
  OBVIOUS
<1>1. LedgerSound /\ CollateralInv /\ LockInv
  BY LedgerSoundInit, CollateralInvInit, LockInvInit
<1>2. \A c \in Calls : CallAccount(c)
  BY DEF Init, CallAccount, RedeemAsks, Answered, Sent
<1>3. UnspentIn(ledger) = OutsIn(ledger, ReceivedIn(ledger))
  <2>1. ReceivedIn(ledger) = DOMAIN ledger
    BY EarlierAssumption DEF Init, ReceivedIn
  <2>2. OutsIn(ledger, DOMAIN ledger) \intersect SpentIn(ledger) = {}
    <3>1. ASSUME NEW out \in OutsIn(ledger, DOMAIN ledger), out \in SpentIn(ledger)
          PROVE  FALSE
      <4>1. PICK id \in DOMAIN ledger : \E v \in Vouts(ledger[id]) : out = <<id, v>>
        BY OutIs
      <4>2. out[1] \in Txids
        BY <4>1, EarlierAssumption DEF Init, Txids
      <4>3. PICK other \in Earlier : out \in Spends(OtherTx[other])
        BY <3>1 DEF SpentIn, Init
      <4> QED
        BY <4>2, <4>3, EarlierAssumption, ReceivedAssumption
    <3> QED
      BY <3>1
  <2> QED
    BY <2>1, <2>2 DEF UnspentIn
<1>4. /\ Sats(ledger, UnspentIn(ledger)) \in Int
      /\ DD(ledger, UnspentIn(ledger)) \in Int
  <2>1. UnspentIn(ledger) \subseteq OutsIn(ledger, DOMAIN ledger)
    BY DEF UnspentIn
  <2> QED
    BY <1>1, <2>1, SumsTyped DEF LedgerSound
<1>5. /\ SatsAddUp(ledger, FeesOf(Accepted))
      /\ DDAddUp(ledger, MintedOf(Accepted), BurnedOf(Accepted))
  BY <1>3, <1>4, NothingAccepted DEF SatsAddUp, DDAddUp
<1> QED
  BY <1>1, <1>2, <1>5, LedgerTotals DEF AccountInv, Books

(***************************************************************************)
(* However the calls and the node interleave: what the wallet received is  *)
(* unspent or was paid in fees, and the fees are those reported to         *)
(* callers.                                                                *)
(***************************************************************************)
THEOREM SatsKept == Spec => []SatsConserved
<1>1. AccountInv => SatsConserved
  BY DEF AccountInv
<1> QED
  BY <1>1, AccountInvInit, AccountNext, PTL DEF Spec

(***************************************************************************)
(* However the calls and the node interleave: DigiDollars are made by      *)
(* mints and destroyed by redeems only, in the amounts these report.       *)
(***************************************************************************)
THEOREM TokensKept == Spec => []DDConserved
<1>1. AccountInv => DDConserved
  BY DEF AccountInv
<1> QED
  BY <1>1, AccountInvInit, AccountNext, PTL DEF Spec

----------------------------------------------------------------------------
(***************************************************************************)
(* What the node adds up is what the account of a call is made of.         *)
(***************************************************************************)
LEMMA FeeIsPaid ==
  ASSUME Books, NEW c \in Calls, Sent(c)
  PROVE  LET tx == sent[c].tx
         IN  /\ sent[c].fee \in Nat /\ OutputSats(tx) \in Int
             /\ InputSats(tx) = OutputSats(tx) + sent[c].fee
<1> DEFINE tx == sent[c].tx
           f  == [v \in Vouts(tx) |-> Output(tx, v).value]
<1>1. Balances(ledger, tx, sent[c].fee, Minted(c), Redeemed(c))
  BY DEF Books, CallAccount, Balanced
<1>2. InputSats(tx) = Sats(ledger, Spends(tx))
  BY DEF InputSats, Sats, SatsAt, SumFunction, OutputOf
<1>3. OutputSats(tx) = SumFunctionOnSet(f, Vouts(tx))
  BY DEF OutputSats, SumFunction
<1>4. IsFiniteSet(Vouts(tx)) /\ \A v \in Vouts(tx) : f[v] \in Int
  BY <1>1, VoutsFinite DEF Balances, Sound
<1> HIDE DEF f
<1>5. OutputSats(tx) \in Int
  BY <1>3, <1>4, SumType
<1> QED
  BY <1>1, <1>2, <1>5 DEF Balances

(***************************************************************************)
(* Consensus takes an input exactly when it is not one of those that are   *)
(* signed wrongly.                                                         *)
(***************************************************************************)
LEMMA InputsOpenUnlessMissigned ==
  ASSUME SignerTweaks, NEW c, NEW i \in sent[c].tx.inputs,
         InputMade(OutputOf(i.out), sent[c].witness[i.out], i.sequence, sent[c].tx.locktime)
  PROVE  InputOK(OutputOf(i.out).script, sent[c].witness[i.out], i.sequence,
                 sent[c].tx.locktime, ScriptSpendTypes)
           <=> i \notin Missigned(c)
<1> DEFINE script  == OutputOf(i.out).script
           witness == sent[c].witness[i.out]
<1>1. script.type = "p2tr"
  BY DEF InputMade, IsP2TR
<1>2. CASE TimeLocked(OutputOf(i.out))
  <2>1. /\ ScriptPathFits(script, witness, i.sequence, sent[c].tx.locktime)
        /\ witness.signature.spendType = SpendType(TRUE)
    BY <1>2 DEF InputMade
  <2>2. ~KeyPathOK(script, witness)
    BY <2>1 DEF ScriptPathFits, KeyPathOK
  <2> QED
    BY <1>1, <1>2, <2>1, <2>2 DEF InputOK, Missigned
<1>3. CASE ~TimeLocked(OutputOf(i.out))
  <2>1. witness = KeyPathWitness(Signature(FALSE))
    BY <1>3 DEF InputMade
  <2>2. KeyPathOK(script, witness) <=> PaysDefaultKey(script)
    BY <2>1, DefaultKeyOpens
  <2>3. ~ScriptPathFits(script, witness, i.sequence, sent[c].tx.locktime)
    BY <2>1 DEF ScriptPathFits, KeyPathWitness
  <2> QED
    BY <1>1, <1>3, <2>2, <2>3 DEF InputOK, Missigned
<1> QED
  BY <1>2, <1>3

(***************************************************************************)
(* What is on its way to the node is refused by consensus for one of two   *)
(* reasons only: another call took its coins first, or it has an input     *)
(* that the SDK signs wrongly.                                             *)
(***************************************************************************)
THEOREM NothingElseFails ==
  ASSUME SignerTweaks
  PROVE  Spec => []OnlySignaturesFail
<1>1. ASSUME MadeInv, Books, NEW c \in Calls, wire[c] = "toNode"
      PROVE  /\ InputSats(sent[c].tx) >= OutputSats(sent[c].tx)
             /\ Overtaken(c) \/ (Acceptable(c) <=> Missigned(c) = {})
  <2>1. Sent(c) /\ Made(c)
    BY <1>1 DEF Sent, MadeInv
  <2>2. InputSats(sent[c].tx) >= OutputSats(sent[c].tx)
    BY <1>1, <2>1, FeeIsPaid
  <2>3. InputsSigned(c) <=> Missigned(c) = {}
    <3>1. \A i \in sent[c].tx.inputs :
            InputOK(OutputOf(i.out).script, sent[c].witness[i.out], i.sequence,
                    sent[c].tx.locktime, ScriptSpendTypes)
              <=> i \notin Missigned(c)
      BY <2>1, InputsOpenUnlessMissigned DEF Made
    <3>2. Missigned(c) \subseteq sent[c].tx.inputs
      BY DEF Missigned
    <3> QED
      BY <3>1, <3>2 DEF InputsSigned
  <2> QED
    BY <2>1, <2>2, <2>3 DEF Acceptable, Valid, Made
<1>2. MadeInv /\ AccountInv => OnlySignaturesFail
  BY <1>1 DEF OnlySignaturesFail, AccountInv
<1> QED
  BY <1>2, MadeInvInit, MadeInvNext, AccountInvInit, AccountNext, PTL DEF Spec

----------------------------------------------------------------------------
(***************************************************************************)
(* The transaction a returned call names is the one it sent.               *)
(***************************************************************************)
LEMMA AnsweredIsThere ==
  ASSUME Books, NEW c \in Calls, pc[c] = "done"
  PROVE  /\ Sent(c) /\ TxidOf(c) \in Accepted
         /\ ledger[TxidOf(c)] = sent[c].tx
<1>1. Answered(c)
  BY DEF Books, CallAccount
<1> QED
  BY <1>1 DEF Answered, Sent, TxidOf, SameTx

(***************************************************************************)
(* The fee a call reports is the fee its transaction pays.                 *)
(***************************************************************************)
LEMMA FeeIsReported ==
  ASSUME Books, NEW c \in Calls, pc[c] = "done"
  PROVE  sent[c].fee = InputSats(ledger[TxidOf(c)]) - OutputSats(ledger[TxidOf(c)])
<1>1. Sent(c) /\ ledger[TxidOf(c)] = sent[c].tx
  BY AnsweredIsThere
<1>2. /\ sent[c].fee \in Nat /\ OutputSats(sent[c].tx) \in Int
      /\ InputSats(sent[c].tx) = OutputSats(sent[c].tx) + sent[c].fee
  BY <1>1, FeeIsPaid
<1> QED
  BY <1>1, <1>2

(***************************************************************************)
(* A mint's result: collateral, unlock height and amount are those of the  *)
(* transaction on the ledger.                                              *)
(***************************************************************************)
LEMMA MintTold ==
  ASSUME Books, NEW c \in MintCalls, pc[c] = "done"
  PROVE  MintResultHolds(c)
<1> DEFINE id == TxidOf(c)
           lock == atHeight[c] + LOCK_TIERS[req[c].lockTier].blocks
<1>1. Sent(c) /\ ledger[id] = sent[c].tx
      /\ sent[c].fee = InputSats(ledger[id]) - OutputSats(ledger[id])
  BY AnsweredIsThere, FeeIsReported DEF Calls
<1>2. MintReported(ledger[id], lock, req[c].ddAmountCents)
  BY <1>1 DEF Books, CallAccount, Reported, Calls
<1> HIDE DEF id
<1>3. OutputOf(<<id, 0>>) =
        [script |-> CollateralMAST(WalletKey, lock), value |-> Output(sent[c].tx, 0).value]
  BY <1>1, <1>2 DEF MintReported, OutputOf, Paying
<1>4. PositionOf(id).unlock_height = lock
  BY <1>2 DEF MintReported, PositionOf
<1>5. DDAmountCents(ledger[id], 1) = req[c].ddAmountCents
  BY <1>2 DEF MintReported
<1> QED
  BY <1>1, <1>3, <1>4, <1>5 DEF MintResultHolds, MintReport, id

(***************************************************************************)
(* A transfer's result: each recipient's amount, and the change, which is  *)
(* the wallet's.                                                           *)
(***************************************************************************)
LEMMA TransferTold ==
  ASSUME Books, NEW c \in TransferCalls, pc[c] = "done"
  PROVE  TransferResultHolds(c)
<1> DEFINE id == TxidOf(c)
           n  == Len(req[c].recipients)
           back == SelectedDD(c) - RecipientCents(req[c].recipients)
<1>1. Sent(c) /\ ledger[id] = sent[c].tx
      /\ sent[c].fee = InputSats(ledger[id]) - OutputSats(ledger[id])
  BY AnsweredIsThere, FeeIsReported DEF Calls
<1>2. SelectedDD(c) = DD(ledger, Spends(sent[c].tx))
  BY DEF SelectedDD, DD, DDAt, SumFunction
<1>3. TransferReported(ledger[id], req[c].recipients, SelectedDD(c))
  BY <1>1, <1>2 DEF Books, CallAccount, Reported, Calls
<1> HIDE DEF id
<1>4. /\ \A i \in 1 .. n : DDAmountCents(ledger[id], i - 1) = req[c].recipients[i].cents
      /\ back >= 0
      /\ back > 0 => /\ DDAmountCents(ledger[id], n) = back
                     /\ Output(ledger[id], n).script = TokenP2TR(WalletKey)
  BY <1>3 DEF TransferReported
<1>5. Output(ledger[id], n).script = TokenP2TR(WalletKey) => OutputOf(<<id, n>>).script = ChangeScript
  BY DEF OutputOf, ChangeScript
<1> HIDE DEF n, back
<1>6. TransferReport(c) = [recipients |-> req[c].recipients, feeSats |-> sent[c].fee,
                           ddChangeCents |-> back]
  BY DEF TransferReport, back
<1> QED
  BY <1>1, <1>4, <1>5, <1>6 DEF TransferResultHolds, id, n

(***************************************************************************)
(* A redeem's result: the collateral is spent and its sats are back in the *)
(* wallet, and the tokens spent cover what it says it burned.              *)
(***************************************************************************)
LEMMA RedeemTold ==
  ASSUME Books, NEW c \in RedeemCalls, pc[c] = "done"
  PROVE  RedeemResultHolds(c)
<1> DEFINE id == TxidOf(c)
           collateral == <<req[c].positionId, 0>>
<1>1. Sent(c) /\ ledger[id] = sent[c].tx /\ id \in Accepted
      /\ sent[c].fee = InputSats(ledger[id]) - OutputSats(ledger[id])
  BY AnsweredIsThere, FeeIsReported DEF Calls
<1>2. SelectedDD(c) = DD(ledger, Spends(sent[c].tx))
  BY DEF SelectedDD, DD, DDAt, SumFunction
<1>3. RedeemReported(ledger[id], OutputOf(collateral).value, Burned(c), SelectedDD(c))
  BY <1>1, <1>2 DEF Books, CallAccount, Reported, Calls
<1>4. collateral \in Spends(sent[c].tx)
  <2>1. RespectsLock(c)
    BY <1>1 DEF Books, LockInv, CallInv, RedeemInv, Calls
  <2>2. [out |-> collateral, sequence |-> "CLTV_ENABLED"] \in sent[c].tx.inputs
    BY <2>1 DEF RespectsLock
  <2>3. [out |-> collateral, sequence |-> "CLTV_ENABLED"].out = collateral
    OBVIOUS
  <2> QED
    BY <2>2, <2>3 DEF Spends
<1> HIDE DEF id, collateral
<1>5. collateral \in SpentOuts
  BY <1>1, <1>4 DEF SpentOuts
<1>6. OutputOf(<<id, 0>>) = [script |-> ChangeScript, value |-> OutputOf(collateral).value]
  BY <1>3 DEF RedeemReported, OutputOf, Paying
<1>7. ToRedeem(req[c], ReadPosition(c)) <= SelectedDD(c)
  BY <1>3 DEF RedeemReported, Burned
<1> QED
  BY <1>1, <1>5, <1>6, <1>7 DEF RedeemResultHolds, RedeemReport, id, collateral

(***************************************************************************)
(* What a call that returns reports is so.                                 *)
(***************************************************************************)
THEOREM ResultsAreTrue == Spec => []ResultsHold
<1>1. ASSUME Books, NEW c \in Calls, pc[c] = "done"
      PROVE  /\ \E id \in Accepted : SameTx(c, id)
             /\ c \in MintCalls     => MintResultHolds(c)
             /\ c \in TransferCalls => TransferResultHolds(c)
             /\ c \in RedeemCalls   => RedeemResultHolds(c)
  BY <1>1, AnsweredIsThere, MintTold, TransferTold, RedeemTold DEF SameTx
<1>2. AccountInv => ResultsHold
  BY <1>1 DEF AccountInv, ResultsHold
<1> QED
  BY <1>2, AccountInvInit, AccountNext, PTL DEF Spec

-----------------------------------------------------------------------------
(***************************************************************************)
(* The pipelines implement the position book. The invariant adds to the    *)
(* accounts what a redeem has read: its position is an entry of the book,  *)
(* so what it burns is what the entry says.                                *)
(***************************************************************************)

(***************************************************************************)
(* The book that a ledger writes.                                          *)
(***************************************************************************)
MintsIn(l) == {id \in DOMAIN l : l[id].version = "mint"}

EntryIn(l, id) ==
  [cents |-> OpReturnData(l[id]).amounts[1], unlock |-> OpReturnData(l[id]).lockHeight]

OpenIn(l) == {id \in MintsIn(l) : <<id, 0>> \notin SpentIn(l)}

ClosedIn(l) == {id \in MintsIn(l) : <<id, 0>> \in SpentIn(l)}

EntriesIn(l) == [id \in OpenIn(l) |-> EntryIn(l, id)]

SupplyIn(l) == DD(l, UnspentIn(l))

\* It takes no collateral but that of the positions in P.
TakesOnly(l, tx, P) == \A id \in MintsIn(l) \ P : <<id, 0>> \notin Spends(tx)

\* id is a new position of that many cents, and all others are what they were.
Opens(m, l, id, cents) ==
  /\ id \in OpenIn(m) \ (OpenIn(l) \union ClosedIn(l))
  /\ EntriesIn(m)[id].cents = cents
  /\ EntriesIn(m) = [p \in OpenIn(l) \union {id} |->
                       IF p = id THEN EntriesIn(m)[id] ELSE EntriesIn(l)[p]]

(***************************************************************************)
(* A transaction that takes no collateral closes nothing: a mint opens its *)
(* position, another one changes none.                                     *)
(***************************************************************************)
LEMMA BookKept ==
  ASSUME NEW m, NEW l, NEW id, NEW tx, Adds(m, l, id, tx), TakesOnly(l, tx, {}),
         <<id, 0>> \notin Spends(tx)
  PROVE  /\ ClosedIn(m) = ClosedIn(l)
         /\ tx.version # "mint" => EntriesIn(m) = EntriesIn(l)
         /\ tx.version = "mint" => Opens(m, l, id, OpReturnData(tx).amounts[1])
<1>1. /\ DOMAIN m = DOMAIN l \union {id} /\ m[id] = tx /\ id \notin DOMAIN l /\ id \in Txids
      /\ \A i \in DOMAIN l : m[i] = l[i]
  BY DEF Adds
<1>2. SpentIn(m) = SpentIn(l) \union Spends(tx)
  BY DEF SpentIn, Adds
<1>3. <<id, 0>> \notin SpentIn(m)
  <2>1. ASSUME <<id, 0>> \in SpentIn(l) PROVE FALSE
    <3>1. <<id, 0>> \in OutsIn(l, DOMAIN l) \/ <<id, 0>>[1] \notin Txids
      BY <2>1 DEF Adds, SpentKnown
    <3>2. <<id, 0>> \in OutsIn(l, DOMAIN l)
      BY <1>1, <3>1
    <3>3. PICK i \in DOMAIN l : \E v \in Vouts(l[i]) : <<id, 0>> = <<i, v>>
      BY <3>2, OutIs
    <3> QED
      BY <1>1, <3>3
  <2> QED
    BY <1>2, <2>1
<1>4. \A i \in MintsIn(l) : <<i, 0>> \in SpentIn(m) <=> <<i, 0>> \in SpentIn(l)
  BY <1>2 DEF TakesOnly
<1>5. MintsIn(m) = MintsIn(l) \union (IF tx.version = "mint" THEN {id} ELSE {})
  BY <1>1 DEF MintsIn
<1>6. ClosedIn(m) = ClosedIn(l)
  BY <1>3, <1>4, <1>5 DEF ClosedIn
<1>7. OpenIn(m) = OpenIn(l) \union (IF tx.version = "mint" THEN {id} ELSE {})
  BY <1>3, <1>4, <1>5 DEF OpenIn
<1>8. \A i \in OpenIn(l) : EntryIn(m, i) = EntryIn(l, i)
  BY <1>1 DEF OpenIn, MintsIn, EntryIn
<1>9. tx.version # "mint" => EntriesIn(m) = EntriesIn(l)
  BY <1>7, <1>8 DEF EntriesIn
<1>10. id \notin OpenIn(l) \union ClosedIn(l)
  BY <1>1 DEF OpenIn, ClosedIn, MintsIn
<1>11. EntryIn(m, id).cents = OpReturnData(tx).amounts[1]
  BY <1>1 DEF EntryIn
<1>12. ASSUME tx.version = "mint"
       PROVE  EntriesIn(m) = [p \in OpenIn(l) \union {id} |->
                                IF p = id THEN EntriesIn(m)[id] ELSE EntriesIn(l)[p]]
  <2>1. OpenIn(m) = OpenIn(l) \union {id}
    BY <1>7, <1>12
  <2> QED
    BY <1>8, <1>10, <2>1 DEF EntriesIn
<1> QED
  BY <1>6, <1>7, <1>9, <1>10, <1>11, <1>12 DEF EntriesIn, Opens

(***************************************************************************)
(* One that takes the collateral of one open position closes that one.     *)
(***************************************************************************)
LEMMA BookCloses ==
  ASSUME NEW m, NEW l, NEW id, NEW tx, Adds(m, l, id, tx), tx.version # "mint",
         NEW p, p \in OpenIn(l), <<p, 0>> \in Spends(tx), TakesOnly(l, tx, {p})
  PROVE  /\ ClosedIn(m) = ClosedIn(l) \union {p}
         /\ EntriesIn(m) = [q \in OpenIn(l) \ {p} |-> EntriesIn(l)[q]]
<1>1. /\ DOMAIN m = DOMAIN l \union {id} /\ m[id] = tx /\ id \notin DOMAIN l
      /\ \A i \in DOMAIN l : m[i] = l[i]
  BY DEF Adds
<1>2. SpentIn(m) = SpentIn(l) \union Spends(tx)
  BY SpentExtended
<1>3. MintsIn(m) = MintsIn(l) /\ p \in MintsIn(l)
  BY <1>1 DEF MintsIn, OpenIn
<1>4. /\ <<p, 0>> \in SpentIn(m)
      /\ \A i \in MintsIn(l) \ {p} : <<i, 0>> \in SpentIn(m) <=> <<i, 0>> \in SpentIn(l)
  BY <1>2 DEF TakesOnly
<1>5. ClosedIn(m) = ClosedIn(l) \union {p}
  BY <1>3, <1>4 DEF ClosedIn
<1>6. OpenIn(m) = OpenIn(l) \ {p}
  BY <1>3, <1>4 DEF OpenIn
<1>7. \A i \in OpenIn(l) : EntryIn(m, i) = EntryIn(l, i)
  BY <1>1 DEF OpenIn, MintsIn, EntryIn
<1> QED
  BY <1>5, <1>6, <1>7 DEF EntriesIn

----------------------------------------------------------------------------
(***************************************************************************)
(* The state of the book at this moment and at the next.                   *)
(***************************************************************************)
LEMMA BookNames ==
  /\ OpenPositions = EntriesIn(ledger) /\ DOMAIN OpenPositions = OpenIn(ledger)
  /\ ClosedPositions = ClosedIn(ledger) /\ DDIn(Unspent) = SupplyIn(ledger)
<1>1. MintTxs = MintsIn(ledger) /\ SpentOuts = SpentIn(ledger)
  BY LedgerNames DEF MintTxs, MintsIn, Accepted
<1>2. \A id : Entry(id) = EntryIn(ledger, id)
  BY DEF Entry, EntryIn
<1>3. DDIn(Unspent) = SupplyIn(ledger)
  BY LedgerNames DEF SupplyIn
<1>4. OpenPositions = EntriesIn(ledger) /\ ClosedPositions = ClosedIn(ledger)
  BY <1>1, <1>2 DEF OpenPositions, ClosedPositions, EntriesIn, OpenIn, ClosedIn
<1> QED
  BY <1>3, <1>4 DEF EntriesIn

(***************************************************************************)
(* The same of the next state.                                             *)
(***************************************************************************)
LEMMA BookNamesNext ==
  /\ OpenPositions' = EntriesIn(ledger')
  /\ ClosedPositions' = ClosedIn(ledger') /\ DDIn(Unspent)' = SupplyIn(ledger')
<1>1. Outs(Accepted)' = OutsIn(ledger', DOMAIN ledger') /\ SpentOuts' = SpentIn(ledger')
  BY DEF Outs, OutsIn, Accepted, SpentOuts, SpentIn
<1>2. Unspent' = UnspentIn(ledger')
  BY <1>1 DEF Unspent, UnspentIn
<1>3. DDIn(Unspent)' = DD(ledger', Unspent')
  BY DEF DDIn, DD, DDAt, SumFunction
<1>4. MintTxs' = MintsIn(ledger')
  BY DEF MintTxs, MintsIn, Accepted
<1>5. \A id : Entry(id)' = EntryIn(ledger', id)
  BY DEF Entry, EntryIn
<1> QED
  BY <1>1, <1>2, <1>3, <1>4, <1>5
  DEF OpenPositions, ClosedPositions, EntriesIn, OpenIn, ClosedIn, SupplyIn

(***************************************************************************)
(* A step that leaves the ledger and the height alone is none of the book. *)
(***************************************************************************)
LEMMA QuietBook ==
  ASSUME UNCHANGED <<ledger, height>>
  PROVE  UNCHANGED Book!vars
<1>1. OpenPositions' = OpenPositions /\ ClosedPositions' = ClosedPositions
      /\ DDIn(Unspent)' = DDIn(Unspent)
  BY BookNames, BookNamesNext
<1> QED
  BY <1>1 DEF Book!vars

(***************************************************************************)
(* A block is a tick of the book's clock.                                  *)
(***************************************************************************)
LEMMA MiningTicks ==
  ASSUME NodeMines
  PROVE  Book!Tick
<1>1. UNCHANGED ledger /\ height' = height + 1
  BY DEF NodeMines
<1>2. OpenPositions' = OpenPositions /\ ClosedPositions' = ClosedPositions
      /\ DDIn(Unspent)' = DDIn(Unspent)
  BY <1>1, BookNames, BookNamesNext
<1> QED
  BY <1>1, <1>2 DEF Book!Tick

(***************************************************************************)
(* A mint that is taken, of a call or of the wallet's past, opens its      *)
(* position.                                                               *)
(***************************************************************************)
LEMMA MintOpens ==
  ASSUME UNCHANGED height, NEW id, NEW tx, Adds(ledger', ledger, id, tx),
         TakesOnly(ledger, tx, {}), <<id, 0>> \notin Spends(tx), tx.version = "mint",
         OpReturnData(tx).amounts[1] > 0,
         SupplyIn(ledger') = SupplyIn(ledger) + OpReturnData(tx).amounts[1]
  PROVE  Book!Open
<1>1. /\ ClosedIn(ledger') = ClosedIn(ledger)
      /\ Opens(ledger', ledger, id, OpReturnData(tx).amounts[1])
  BY BookKept
<1>2. DOMAIN EntriesIn(ledger') = OpenIn(ledger')
  BY DEF EntriesIn
<1> QED
  BY <1>1, <1>2, BookNames, BookNamesNext DEF Book!Open, Opens

(***************************************************************************)
(* A redeem that is taken closes its position.                             *)
(***************************************************************************)
LEMMA RedeemCloses ==
  ASSUME UNCHANGED height, NEW id, NEW tx, Adds(ledger', ledger, id, tx), tx.version # "mint",
         NEW p \in OpenIn(ledger), <<p, 0>> \in Spends(tx), TakesOnly(ledger, tx, {p}),
         EntryIn(ledger, p).unlock <= height,
         SupplyIn(ledger') = SupplyIn(ledger) - EntryIn(ledger, p).cents
  PROVE  Book!Close
<1>1. /\ ClosedIn(ledger') = ClosedIn(ledger) \union {p}
      /\ EntriesIn(ledger') = [q \in OpenIn(ledger) \ {p} |-> EntriesIn(ledger)[q]]
  BY BookCloses
<1>2. EntriesIn(ledger)[p] = EntryIn(ledger, p)
  BY DEF EntriesIn
<1> QED
  BY <1>1, <1>2, BookNames, BookNamesNext DEF Book!Close

----------------------------------------------------------------------------
(***************************************************************************)
(* What a redeem knows is its position's entry in the book, which it was   *)
(* told as a decimal string, so that it burns what the entry says.         *)
(***************************************************************************)
Tells(c) ==
  /\ position[c] # {} => req[c] \in RedeemRequests
  /\ Sent(c) => position[c] # {}
  /\ \A p \in position[c] : p.dd_minted = DecimalDD(Entry(req[c].positionId).cents)

BookInv == Books /\ \A c \in RedeemCalls : Tells(c)

(***************************************************************************)
(* The tracker tells the amount of the entry,                              *)
(***************************************************************************)
LEMMA LookupTellsEntry ==
  ASSUME NEW id, NEW p \in Lookup(id)
  PROVE  p.dd_minted = DecimalDD(Entry(id).cents)
BY DEF Lookup, PositionOf, Entry

(***************************************************************************)
(* which never changes.                                                    *)
(***************************************************************************)
LEMMA EntryKept ==
  ASSUME Grows, NEW id, id \in Accepted
  PROVE  EntryIn(ledger', id) = EntryIn(ledger, id)
BY DEF Grows, EntryIn, Accepted

(***************************************************************************)
(* Steps that do not touch a redeem leave it what it knows.                *)
(***************************************************************************)
LEMMA TellsKept ==
  ASSUME LockInv, Grows, NEW c \in RedeemCalls, Tells(c), Undisturbed(c)
  PROVE  Tells(c)'
<1>1. /\ req'[c] = req[c] /\ position'[c] = position[c] /\ Sent(c)' = Sent(c)
  BY DEF Undisturbed
<1>2. ASSUME NEW p \in position[c]
      PROVE  EntryIn(ledger', req[c].positionId) = EntryIn(ledger, req[c].positionId)
  <2>1. req[c].positionId \in Accepted
    BY <1>2 DEF LockInv, CallInv, RedeemInv, IsPositionOf, Calls
  <2> QED
    BY <2>1, EntryKept
<1>3. (Entry(req[c].positionId).cents)' = EntryIn(ledger', req'[c].positionId).cents
  BY DEF Entry, EntryIn
<1>4. Entry(req[c].positionId).cents = EntryIn(ledger, req[c].positionId).cents
  BY DEF Entry, EntryIn
<1> QED
  BY <1>1, <1>2, <1>3, <1>4 DEF Tells

(***************************************************************************)
(* The reads of a redeem and its sending.                                  *)
(***************************************************************************)
LEMMA TellsStep ==
  ASSUME Books, NEW c \in RedeemCalls, Tells(c),
         \/ RedeemReadsPosition(c) \/ RedeemReadsTrackerHeight(c)
         \/ RedeemGetsTrackerHeight(c) \/ RedeemGetsPosition(c)
         \/ RedeemReadsHeight(c) \/ RedeemSends(c)
  PROVE  Tells(c)'
<1>1. /\ RedeemInv(c) /\ RedeemAsks(c) /\ c \in Calls /\ TypeOK
  BY DEF Books, CallAccount, LockInv, CallInv, Calls
<1>2. UNCHANGED ledger
  BY DEF RedeemReadsPosition, RedeemReadsTrackerHeight, RedeemGetsTrackerHeight,
     RedeemGetsPosition, RedeemTracked, RedeemReadsHeight, RedeemSends, nodeVars
<1>3. \A id : Entry(id)' = Entry(id)
  BY <1>2 DEF Entry
<1>4. ASSUME /\ position'[c] # {} => req'[c] \in RedeemRequests
             /\ Sent(c)' => position'[c] # {}
             /\ \A p \in position'[c] : p.dd_minted = DecimalDD(Entry(req'[c].positionId).cents)
      PROVE  Tells(c)'
  <2>1. Entry(req[c].positionId)' = Entry(req'[c].positionId)
    BY <1>2 DEF Entry
  <2>2. (Entry(req[c].positionId).cents)' = Entry(req'[c].positionId).cents
    BY <1>2 DEF Entry
  <2> QED
    BY <1>4, <2>1, <2>2 DEF Tells
<1> SUFFICES /\ position'[c] # {} => req'[c] \in RedeemRequests
             /\ Sent(c)' => position'[c] # {}
             /\ \A p \in position'[c] : p.dd_minted = DecimalDD(Entry(req'[c].positionId).cents)
  BY <1>4
<1> USE DEF Goes, RedeemInv, RedeemAsks, TypeOK, Ended, Sent
<1>5. CASE RedeemReadsPosition(c)
  BY <1>1, <1>5, LookupTellsEntry DEF RedeemReadsPosition, Tells
<1>6. CASE RedeemReadsTrackerHeight(c)
  BY <1>1, <1>6 DEF RedeemReadsTrackerHeight, Tells
<1>7. CASE RedeemGetsTrackerHeight(c)
  BY <1>1, <1>7 DEF RedeemGetsTrackerHeight, RedeemTracked, Tells
<1>8. CASE RedeemGetsPosition(c)
  BY <1>1, <1>8, LookupTellsEntry DEF RedeemGetsPosition, RedeemTracked, Tells
<1>9. CASE RedeemReadsHeight(c)
  BY <1>1, <1>9 DEF RedeemReadsHeight, Tells
<1>10. CASE RedeemSends(c)
  BY <1>1, <1>10 DEF RedeemSends, Sends, Tells
<1> QED
  BY <1>5, <1>6, <1>7, <1>8, <1>9, <1>10

(***************************************************************************)
(* The invariant holds at the start and is kept.                           *)
(***************************************************************************)
LEMMA BookInvInit == Init => BookInv
<1> SUFFICES ASSUME Init PROVE BookInv
  OBVIOUS
<1>1. Books
  BY AccountInvInit DEF AccountInv
<1> QED
  BY <1>1 DEF BookInv, Init, Tells, Sent, Calls

(***************************************************************************)
(* Every step keeps it: whoever has read a position holds what its entry   *)
(* says.                                                                   *)
(***************************************************************************)
LEMMA BookInvNext == BookInv /\ [Next]_vars => BookInv'
<1> SUFFICES ASSUME BookInv, [Next]_vars PROVE BookInv'
  OBVIOUS
<1>1. /\ Books /\ Books' /\ LockInv /\ TypeOK /\ Grows
  BY BooksNext, LedgerGrows DEF BookInv, Books, LockInv
<1>2. ASSUME NEW c \in RedeemCalls PROVE Tells(c)'
  <2>1. c \in Calls /\ Tells(c) /\ c \notin MintCalls /\ c \notin TransferCalls
    BY CallsAssumption DEF BookInv, Calls
  <2>2. CASE Starts(c) \/ Continues(c) \/ Node(c)
    <3>1. CASE \/ RedeemReadsPosition(c) \/ RedeemReadsTrackerHeight(c)
               \/ RedeemGetsTrackerHeight(c) \/ RedeemGetsPosition(c)
               \/ RedeemReadsHeight(c) \/ RedeemSends(c)
      BY <1>1, <2>1, <3>1, TellsStep
    <3>2. CASE Node(c)
      <4>1. Undisturbed(c)
        BY <1>1, <3>2 DEF Node, NodeAnswers, NodeAccepts, NodeKnows, NodeRejects,
           Undisturbed, Sent, TypeOK
      <4> QED
        BY <1>1, <2>1, <4>1, TellsKept
    <3>3. CASE \/ MintRefusesPrice(c) \/ TransferCannotBuild(c) \/ FirstReadFails(c)
               \/ MintCannotBuild(c) \/ RedeemCannotBuild(c) \/ ReadFails(c)
               \/ SendReturns(c) \/ SendTimesOut(c)
      <4>1. Undisturbed(c)
        BY <1>1, <2>1, <3>3, EndingsDisturbNothing
      <4> QED
        BY <1>1, <2>1, <4>1, TellsKept
    <3> QED
      BY <2>1, <2>2, <3>1, <3>2, <3>3
      DEF Starts, Continues, MintReadsPrice, MintReadsHeight, MintSends, TransferSends
  <2>3. CASE \E d \in Calls : d # c /\ (Starts(d) \/ Continues(d) \/ Node(d))
    BY <1>1, <2>1, <2>3, OthersUndisturbed, TellsKept
  <2>4. CASE PaymentArrives \/ NodeMines \/ OracleMoves \/ UNCHANGED vars
    <3>1. Undisturbed(c)
      BY <2>4 DEF PaymentArrives, NodeMines, OracleMoves, vars, callVars, Undisturbed, Sent
    <3> QED
      BY <1>1, <2>1, <3>1, TellsKept
  <2> QED
    BY <2>2, <2>3, <2>4 DEF Next
<1> QED
  BY <1>1, <1>2 DEF BookInv

----------------------------------------------------------------------------
(***************************************************************************)
(* The collateral of an entry is time-locked until the height it says.     *)
(***************************************************************************)
LEMMA CollateralIsLocked ==
  ASSUME LockInv, NEW p, p \in MintsIn(ledger)
  PROVE  /\ TimeLocked(OutputOf(<<p, 0>>))
         /\ OutputOf(<<p, 0>>).script = CollateralMAST(WalletKey, EntryIn(ledger, p).unlock)
<1>1. OpensPosition(ledger[p])
  BY DEF LockInv, MintsOpenPositions, MintsIn, Accepted
<1>2. OutputOf(<<p, 0>>).script = CollateralMAST(WalletKey, EntryIn(ledger, p).unlock)
  BY <1>1 DEF OpensPosition, OutputOf, EntryIn
<1> QED
  BY <1>2 DEF TimeLocked, IsP2TR, CollateralMAST, P2TR

(***************************************************************************)
(* A script tells its lock.                                                *)
(***************************************************************************)
LEMMA LocksDiffer ==
  ASSUME NEW a, NEW b, CollateralMAST(WalletKey, a) = CollateralMAST(WalletKey, b)
  PROVE  a = b
<1>1. NormalLeaf(WalletKey, a) \in {NormalLeaf(WalletKey, b), ERRLeaf(WalletKey, b)}
  BY DEF CollateralMAST, P2TR
<1> QED
  BY <1>1 DEF NormalLeaf, ERRLeaf

(***************************************************************************)
(* A decimal string of cents is read as the cents it was written from.     *)
(***************************************************************************)
LEMMA CentsReadBack ==
  ASSUME NEW cents \in Int
  PROVE  ParseCents(DecimalDD(cents)) = cents
BY DEF ParseCents, DecimalDD

(***************************************************************************)
(* A call takes no collateral but, if it is a redeem, its position's.      *)
(***************************************************************************)
LEMMA CallTakes ==
  ASSUME BookInv, NEW c \in Calls, Sent(c)
  PROVE  /\ c \notin RedeemCalls => TakesOnly(ledger, sent[c].tx, {})
         /\ c \in RedeemCalls => TakesOnly(ledger, sent[c].tx, {req[c].positionId})
<1>1. SpendsRightly(c) /\ LockInv
  BY DEF BookInv, Books, CollateralInv
<1>2. ASSUME NEW p, p \in MintsIn(ledger), <<p, 0>> \in Spends(sent[c].tx)
      PROVE  c \in RedeemCalls /\ p = req[c].positionId
  BY <1>1, <1>2, CollateralIsLocked DEF SpendsRightly
<1> QED
  BY <1>2 DEF TakesOnly

(***************************************************************************)
(* A redeem takes the collateral of its position when the lock has expired *)
(* and burns what the entry says.                                          *)
(***************************************************************************)
LEMMA RedeemTakes ==
  ASSUME WholeRedeems, BookInv, NEW c \in RedeemCalls, Sent(c),
         NEW p, p = req[c].positionId
  PROVE  /\ p \in MintsIn(ledger) /\ <<p, 0>> \in Spends(sent[c].tx)
         /\ EntryIn(ledger, p).unlock <= height
         /\ Burned(c) = EntryIn(ledger, p).cents
<1>1. /\ RedeemInv(c) /\ RespectsLock(c) /\ Tells(c) /\ LockInv /\ SoundLedger(ledger)
  BY DEF BookInv, Books, LedgerSound, LockInv, CallInv, RedeemInv, Calls
<1>2. /\ ReadPosition(c) \in position[c] /\ req[c] \in RedeemRequests
      /\ ReadPosition(c).dd_minted = DecimalDD(Entry(p).cents)
  BY <1>1 DEF Tells, ReadPosition
<1>3. p \in MintsIn(ledger)
  BY <1>1, <1>2 DEF RedeemInv, IsPositionOf, MintsIn, Accepted
<1>4. <<p, 0>> \in Spends(sent[c].tx)
  BY <1>1 DEF RespectsLock, Spends
<1>5. EntryIn(ledger, p).unlock <= height
  <2>1. CollateralMAST(WalletKey, EntryIn(ledger, p).unlock)
          = CollateralMAST(WalletKey, sent[c].tx.locktime)
    BY <1>1, <1>3, CollateralIsLocked DEF RespectsLock
  <2>2. EntryIn(ledger, p).unlock = sent[c].tx.locktime
    BY <2>1, LocksDiffer
  <2> QED
    BY <1>1, <2>2 DEF RespectsLock
<1>6. Entry(p).cents = EntryIn(ledger, p).cents /\ EntryIn(ledger, p).cents \in Int
  BY <1>1, <1>3 DEF Entry, EntryIn, MintsIn, SoundLedger, Sound
<1>7. Burned(c) = ParseCents(ReadPosition(c).dd_minted)
  BY <1>2 DEF Burned, ToRedeem, WholeRedeems
<1> QED
  BY <1>2, <1>3, <1>4, <1>5, <1>6, <1>7, CentsReadBack

----------------------------------------------------------------------------
(***************************************************************************)
(* The DigiDollars of a sound transaction are a number.                    *)
(***************************************************************************)
LEMMA TokensTyped ==
  ASSUME NEW tx, Sound(tx)
  PROVE  Tokens(tx) \in Int
<1> DEFINE f == [v \in Vouts(tx) |-> DDAmountCents(tx, v)]
<1>1. IsFiniteSet(Vouts(tx)) /\ \A v \in Vouts(tx) : f[v] \in Int
  BY VoutsFinite DEF Sound
<1>2. Tokens(tx) = SumFunctionOnSet(f, Vouts(tx))
  BY DEF Tokens
<1> HIDE DEF f
<1> QED
  BY <1>1, <1>2, SumType

(***************************************************************************)
(* The supply grows by what the call mints and falls by what it burns.     *)
(***************************************************************************)
LEMMA SupplyMoves ==
  ASSUME Books, NEW c \in Calls, NodeAccepts(c)
  PROVE  /\ SupplyIn(ledger') = SupplyIn(ledger) + Minted(c) - Redeemed(c)
         /\ SupplyIn(ledger) \in Int
<1> DEFINE tx == sent[c].tx
<1>1. /\ Adds(ledger', ledger, c, tx) /\ Spends(tx) \subseteq UnspentIn(ledger) /\ Balanced(c)
  BY AcceptAdds
<1>2. /\ Minted(c) \in Int /\ Redeemed(c) \in Int /\ Sound(tx)
      /\ DD(ledger, Spends(tx)) + Minted(c) = Tokens(tx) + Redeemed(c)
  BY <1>1 DEF Balanced, Balances
<1> DEFINE U == UnspentIn(ledger)
           S == Spends(tx)
<1>3. U \subseteq OutsIn(ledger, DOMAIN ledger) /\ S \subseteq OutsIn(ledger, DOMAIN ledger)
  BY <1>1 DEF UnspentIn
<1>4. SoundLedger(ledger)
  BY DEF Books, LedgerSound
<1> HIDE DEF tx
<1>5. SupplyIn(ledger') = SupplyIn(ledger) - DD(ledger, Spends(tx)) + Tokens(tx)
  BY <1>1, Spending DEF SupplyIn
<1>6. Tokens(tx) \in Int
  BY <1>2, TokensTyped
<1> HIDE DEF U, S
<1>7. DD(ledger, U) \in Nat /\ DD(ledger, S) \in Nat
  BY <1>3, <1>4, SumsTyped
<1>8. SupplyIn(ledger) \in Int /\ DD(ledger, Spends(tx)) \in Int
  BY <1>7 DEF SupplyIn, U, S
<1> QED
  BY <1>2, <1>5, <1>6, <1>8

(***************************************************************************)
(* Nothing in the book changes.                                            *)
(***************************************************************************)
LEMMA BookStays ==
  ASSUME UNCHANGED height, NEW id, NEW tx, Adds(ledger', ledger, id, tx),
         TakesOnly(ledger, tx, {}), <<id, 0>> \notin Spends(tx), tx.version # "mint",
         SupplyIn(ledger') = SupplyIn(ledger)
  PROVE  UNCHANGED Book!vars
<1>1. ClosedIn(ledger') = ClosedIn(ledger) /\ EntriesIn(ledger') = EntriesIn(ledger)
  BY BookKept
<1> QED
  BY <1>1, BookNames, BookNamesNext DEF Book!vars

(***************************************************************************)
(* The node takes what a call sent: a mint opens a position, a redeem      *)
(* closes one, a transfer leaves no trace.                                 *)
(***************************************************************************)
LEMMA AcceptRefines ==
  ASSUME WholeRedeems, BookInv, NEW c \in Calls, NodeAccepts(c)
  PROVE  [Book!Next]_(Book!vars)
<1> DEFINE tx == sent[c].tx
           p  == req[c].positionId
<1>1. /\ Books /\ SupplyIn(ledger) \in Int
      /\ SupplyIn(ledger') = SupplyIn(ledger) + Minted(c) - Redeemed(c)
  BY SupplyMoves DEF BookInv
<1>2. /\ Adds(ledger', ledger, c, tx) /\ Spends(tx) \subseteq UnspentIn(ledger)
      /\ Sent(c) /\ UNCHANGED height
  BY <1>1, AcceptAdds DEF NodeAccepts, NodeAnswers
<1>3. Reported(c) /\ Balanced(c)
  BY <1>1, <1>2 DEF Books, CallAccount
<1>4. ASSUME NEW q, <<q, 0>> \in Spends(tx) PROVE q \in DOMAIN ledger /\ <<q, 0>> \notin SpentIn(ledger)
  <2>1. <<q, 0>> \in OutsIn(ledger, DOMAIN ledger) /\ <<q, 0>> \notin SpentIn(ledger)
    BY <1>2, <1>4 DEF UnspentIn
  <2>2. PICK i \in DOMAIN ledger : \E v \in Vouts(ledger[i]) : <<q, 0>> = <<i, v>>
    BY <2>1, OutIs
  <2> QED
    BY <2>1, <2>2
<1>5. <<c, 0>> \notin Spends(tx)
  BY <1>2, <1>4 DEF Adds
<1>6. /\ c \notin RedeemCalls => TakesOnly(ledger, tx, {})
      /\ c \in RedeemCalls => TakesOnly(ledger, tx, {p})
  BY <1>2, CallTakes
<1>7. CASE c \in MintCalls
  <2>1. c \notin RedeemCalls
    BY <1>7, CallsAssumption
  <2>2. /\ tx.version = "mint" /\ req[c].ddAmountCents > 0
        /\ OpReturnData(tx).amounts[1] = req[c].ddAmountCents
    BY <1>3, <1>7 DEF Reported, MintReported
  <2>3. req[c].ddAmountCents \in Int
    BY <1>3, <1>7 DEF Balanced, Balances, Minted
  <2>4. SupplyIn(ledger') = SupplyIn(ledger) + OpReturnData(tx).amounts[1]
    BY <1>1, <1>7, <2>1, <2>2, <2>3 DEF Minted, Redeemed
  <2> HIDE DEF tx
  <2>5. Book!Open
    BY <1>2, <1>5, <1>6, <2>1, <2>2, <2>4, MintOpens
  <2> QED
    BY <2>5 DEF Book!Next
<1>8. CASE c \in TransferCalls
  <2>1. c \notin RedeemCalls /\ c \notin MintCalls
    BY <1>8, CallsAssumption
  <2>2. tx.version = "transfer"
    BY <1>3, <1>8 DEF Reported, TransferReported
  <2>3. SupplyIn(ledger') = SupplyIn(ledger)
    BY <1>1, <2>1 DEF Minted, Redeemed
  <2> HIDE DEF tx
  <2>4. tx.version # "mint"
    BY <2>2
  <2> QED
    BY <1>2, <1>5, <1>6, <2>1, <2>3, <2>4, BookStays
<1>9. CASE c \in RedeemCalls
  <2>1. c \notin MintCalls
    BY <1>9, CallsAssumption
  <2>2. tx.version # "mint"
    BY <1>3, <1>9 DEF Reported, RedeemReported
  <2>3. /\ p \in MintsIn(ledger) /\ <<p, 0>> \in Spends(tx)
        /\ EntryIn(ledger, p).unlock <= height /\ Burned(c) = EntryIn(ledger, p).cents
    BY <1>2, <1>9, RedeemTakes
  <2>4. p \in OpenIn(ledger)
    BY <1>4, <2>3 DEF OpenIn
  <2>5. Burned(c) \in Int
    BY <1>1, <1>2, AcceptedTyped, <1>9
  <2>6. SupplyIn(ledger') = SupplyIn(ledger) - EntryIn(ledger, p).cents
    BY <1>1, <1>9, <2>1, <2>3, <2>5 DEF Minted, Redeemed
  <2> HIDE DEF tx, p
  <2>7. Book!Close
    BY <1>2, <1>6, <1>9, <2>2, <2>3, <2>4, <2>6, RedeemCloses
  <2> QED
    BY <2>7 DEF Book!Next
<1> QED
  BY <1>7, <1>8, <1>9 DEF Calls

(***************************************************************************)
(* A payment brings the DigiDollars of its outputs.                        *)
(***************************************************************************)
LEMMA PaymentSupply ==
  ASSUME NEW m, NEW l, NEW id, NEW tx, Adds(m, l, id, tx),
         \A out \in Spends(tx) : out[1] \notin Txids, DOMAIN l \subseteq Txids
  PROVE  SupplyIn(m) = SupplyIn(l) + Tokens(tx)
<1> DEFINE R == {}
           T == OutsIn(l, R)
           W == OutsIn(m, R \union {id})
<1>1. R \subseteq DOMAIN l
  OBVIOUS
<1>2. /\ DD(m, UnspentIn(m)) = DD(l, UnspentIn(l)) + Tokens(tx)
      /\ DD(m, W) = DD(l, T) + Tokens(tx)
  <2> HIDE DEF R
  <2> QED
    BY <1>1, Receiving
<1> QED
  BY <1>2 DEF SupplyIn

(***************************************************************************)
(* A payment arrives: a position of the wallet, or coins without           *)
(* DigiDollars.                                                            *)
(***************************************************************************)
LEMMA PaymentRefines ==
  ASSUME BackedOthers, BookInv, PaymentArrives
  PROVE  [Book!Next]_(Book!vars)
<1>1. PICK id \in Others \ Accepted : ledger' = WithTx(id, OtherTx[id])
  BY DEF PaymentArrives
<1>2. UNCHANGED height /\ Books
  BY DEF PaymentArrives, BookInv
<1> DEFINE tx    == OtherTx[id]
           cents == OpReturnData(tx).amounts[1]
<1>3. /\ Adds(ledger', ledger, id, tx)
      /\ \A out \in Spends(tx) : out[1] \notin Txids
      /\ DOMAIN ledger \subseteq Txids /\ id \in Txids
  BY <1>1, <1>2, PaymentAdds DEF Adds
<1>4. TakesOnly(ledger, tx, {}) /\ <<id, 0>> \notin Spends(tx)
  <2>1. \A q \in Txids : <<q, 0>> \notin Spends(tx)
    BY <1>3
  <2> QED
    BY <1>3, <2>1 DEF TakesOnly, MintsIn
<1>5. SupplyIn(ledger') = SupplyIn(ledger) + Tokens(tx)
  <2> HIDE DEF tx
  <2> QED
    BY <1>3, PaymentSupply
<1>6. Tokens(tx) = SumFunction([v \in Vouts(tx) |-> DDAmountCents(tx, v)])
  BY DEF Tokens, SumFunction
<1>7. /\ tx.version = "mint" => cents > 0 /\ Tokens(tx) = cents
      /\ tx.version # "mint" => Tokens(tx) = 0
  BY <1>6, Zenon DEF BackedOthers
<1>8. SupplyIn(ledger) \in Int
  <2> DEFINE U == UnspentIn(ledger)
  <2>1. U \subseteq OutsIn(ledger, DOMAIN ledger) /\ SoundLedger(ledger)
    BY <1>2 DEF UnspentIn, Books, LedgerSound
  <2> HIDE DEF U
  <2>2. DD(ledger, U) \in Nat
    BY <2>1, SumsTyped
  <2> QED
    BY <2>2 DEF SupplyIn, U
<1> HIDE DEF tx
<1>9. CASE tx.version = "mint"
  <2>1. Book!Open
    BY <1>2, <1>3, <1>4, <1>5, <1>7, <1>9, MintOpens
  <2> QED
    BY <2>1 DEF Book!Next
<1>10. CASE tx.version # "mint"
  <2>1. SupplyIn(ledger') = SupplyIn(ledger)
    BY <1>5, <1>7, <1>8, <1>10
  <2> QED
    BY <1>2, <1>3, <1>4, <1>10, <2>1, BookStays
<1> QED
  BY <1>9, <1>10

(***************************************************************************)
(* Every step is one of the book, or none.                                 *)
(***************************************************************************)
LEMMA StepOfBook ==
  ASSUME WholeRedeems, BackedOthers, BookInv, [Next]_vars
  PROVE  [Book!Next]_(Book!vars)
<1>1. CASE UNCHANGED <<ledger, height>>
  BY <1>1, QuietBook
<1>2. ASSUME NEW c \in Calls, NodeAccepts(c) PROVE [Book!Next]_(Book!vars)
  BY <1>2, AcceptRefines
<1>3. CASE PaymentArrives
  BY <1>3, PaymentRefines
<1>4. CASE NodeMines
  BY <1>4, MiningTicks DEF Book!Next
<1> QED
  BY <1>1, <1>2, <1>3, <1>4
  DEF Next, Starts, MintReadsPrice, MintRefusesPrice, TransferSends,
     TransferCannotBuild, RedeemReadsPosition, RedeemReadsTrackerHeight, FirstReadFails,
     Continues, MintReadsHeight, MintSends, MintCannotBuild, RedeemGetsTrackerHeight,
     RedeemGetsPosition, RedeemTracked, RedeemReadsHeight, RedeemSends,
     RedeemCannotBuild, ReadFails, SendReturns, SendTimesOut, nodeVars,
     Node, NodeAnswers, NodeKnows, NodeRejects, OracleMoves, vars

----------------------------------------------------------------------------
(***************************************************************************)
(* The DigiDollars of a ledger are those of its transactions.              *)
(***************************************************************************)
LEMMA TokensOfLedger ==
  ASSUME NEW l, SoundLedger(l)
  PROVE  /\ \A id \in DOMAIN l : Tokens(l[id]) \in Nat
         /\ DD(l, OutsIn(l, DOMAIN l))
              = SumFunctionOnSet([id \in DOMAIN l |-> Tokens(l[id])], DOMAIN l)
<1> DEFINE S == DOMAIN l
           f == [id \in S |-> Tokens(l[id])]
           P == {V \in SUBSET S : DD(l, OutsIn(l, V)) = SumFunctionOnSet(f, V)}
<1>1. ASSUME NEW id \in S PROVE f[id] \in Nat
  <2>1. OutsIn(l, {id}) \subseteq OutsIn(l, DOMAIN l)
    BY DEF OutsIn
  <2> QED
    BY <2>1, SumsTyped, SumsOfNew
<1>2. IsFiniteSet(S)
  BY DEF SoundLedger
<1>3. {} \in P
  <2>1. OutsIn(l, {}) = {}
    BY DEF OutsIn
  <2>2. DD(l, {}) = 0 /\ SumFunctionOnSet(f, {}) = 0
    BY SumEmpty DEF DD
  <2> QED
    BY <2>1, <2>2
<1>4. ASSUME NEW V \in SUBSET S, NEW x \in S, V \in P, x \notin V
      PROVE  V \union {x} \in P
  <2>1. OutsIn(l, V \union {x}) = OutsIn(l, V) \union OutsIn(l, {x})
    BY DEF OutsIn
  <2>2. /\ OutsIn(l, V) \subseteq OutsIn(l, DOMAIN l)
        /\ OutsIn(l, {x}) \subseteq OutsIn(l, DOMAIN l)
        /\ OutsIn(l, V) \intersect OutsIn(l, {x}) = {}
    BY <1>4 DEF OutsIn
  <2>3. DD(l, OutsIn(l, V) \union OutsIn(l, {x})) = DD(l, OutsIn(l, V)) + DD(l, OutsIn(l, {x}))
    BY <2>2, SumsAdd
  <2>4. DD(l, OutsIn(l, {x})) = f[x]
    BY SumsOfNew
  <2>5. IsFiniteSet(V) /\ \A y \in V \union {x} : f[y] \in Int
    BY <1>1, <1>2, FS_Subset
  <2>6. SumFunctionOnSet(f, V \union {x}) = SumFunctionOnSet(f, V) + f[x]
    <3> HIDE DEF f, S
    <3> QED
      BY <1>4, <2>5, SumAdd
  <2> QED
    BY <1>4, <2>1, <2>3, <2>4, <2>6
<1>5. S \in P
  <2> HIDE DEF P, S
  <2> QED
    BY <1>2, <1>3, <1>4, SubsetInduction
<1> QED
  BY <1>1, <1>5

(***************************************************************************)
(* At the start nothing the wallet has is spent.                           *)
(***************************************************************************)
LEMMA NothingSpent ==
  ASSUME Init
  PROVE  OutsIn(ledger, DOMAIN ledger) \intersect SpentIn(ledger) = {}
<1>1. ASSUME NEW out \in OutsIn(ledger, DOMAIN ledger), out \in SpentIn(ledger)
      PROVE  FALSE
  <2>1. PICK id \in DOMAIN ledger : \E v \in Vouts(ledger[id]) : out = <<id, v>>
    BY OutIs
  <2>2. out[1] \in Txids
    BY <2>1, EarlierAssumption DEF Init, Txids
  <2>3. PICK other \in Earlier : out \in Spends(OtherTx[other])
    BY <1>1 DEF SpentIn, Init
  <2> QED
    BY <2>2, <2>3, EarlierAssumption, ReceivedAssumption
<1> QED
  BY <1>1

(***************************************************************************)
(* The sum that the book starts with is the one of these proofs.           *)
(***************************************************************************)
LEMMA BookSum ==
  ASSUME NEW f
  PROVE  Book!SumFunction(f) = SumFunctionOnSet(f, DOMAIN f)
<1>1. Book!SumFunction(f) = (CHOOSE sums : Sums(f, DOMAIN f, sums))[DOMAIN f]
  BY DEF Book!SumFunction, Book!SumFunctionOnSet, Book!FoldFunctionOnSet,
         Book!MapThenFoldSet, Sums, Chosen
<1> QED
  BY <1>1, SumIsChosen

(***************************************************************************)
(* The book starts with the positions that the wallet had, all of them     *)
(* open, and the supply is what they back.                                 *)
(***************************************************************************)
LEMMA BookInit == BackedOthers /\ Init => Book!Init
<1> SUFFICES ASSUME BackedOthers, Init PROVE Book!Init
  OBVIOUS
<1>1. /\ DOMAIN ledger = Earlier /\ \A id \in Earlier : ledger[id] = OtherTx[id]
      /\ height = 0 /\ Earlier \subseteq Others
  BY EarlierAssumption DEF Init
<1>2. SoundLedger(ledger)
  BY LedgerSoundInit DEF LedgerSound
<1>3. UnspentIn(ledger) = OutsIn(ledger, DOMAIN ledger)
  BY NothingSpent DEF UnspentIn
<1>4. \A id \in MintsIn(ledger) : <<id, 0>> \notin SpentIn(ledger)
  <2>1. ASSUME NEW id \in MintsIn(ledger), NEW i \in DOMAIN ledger,
               <<id, 0>> \in Spends(ledger[i])
        PROVE  FALSE
    <3>1. id \in Txids /\ i \in Others /\ ledger[i] = OtherTx[i]
      BY <1>1 DEF MintsIn, Txids
    <3> QED
      BY <2>1, <3>1, ReceivedAssumption
  <2> QED
    BY <2>1 DEF SpentIn
<1>5. ClosedIn(ledger) = {} /\ OpenIn(ledger) = MintsIn(ledger)
  BY <1>4 DEF ClosedIn, OpenIn
<1> DEFINE t == [id \in DOMAIN ledger |-> Tokens(ledger[id])]
           M == MintsIn(ledger)
           e == [id \in DOMAIN OpenPositions |-> OpenPositions[id].cents]
<1>6. SupplyIn(ledger) = SumFunctionOnSet(t, DOMAIN ledger)
  BY <1>2, <1>3, TokensOfLedger DEF SupplyIn
<1>7. \A id \in DOMAIN ledger :
        Tokens(ledger[id]) = SumFunction([v \in Vouts(OtherTx[id]) |-> DDAmountCents(OtherTx[id], v)])
  BY <1>1 DEF Tokens, SumFunction
<1>8. \A id \in DOMAIN ledger :
        /\ ledger[id].version = "mint" => t[id] = OpReturnData(ledger[id]).amounts[1]
        /\ ledger[id].version # "mint" => t[id] = 0
  <2>1. ASSUME NEW id \in DOMAIN ledger
        PROVE  /\ ledger[id].version = "mint" =>
                     Tokens(ledger[id]) = OpReturnData(ledger[id]).amounts[1]
               /\ ledger[id].version # "mint" => Tokens(ledger[id]) = 0
    <3>1. id \in Others /\ ledger[id] = OtherTx[id]
      BY <1>1
    <3> QED
      BY <1>7, <3>1, Zenon DEF BackedOthers
  <2> QED
    BY <2>1
<1>9. /\ \A id \in DOMAIN ledger : t[id] \in Int
      /\ M \subseteq DOMAIN ledger /\ IsFiniteSet(DOMAIN ledger) /\ IsFiniteSet(M)
      /\ \A id \in (DOMAIN ledger) \ M : t[id] = 0
  <2>1. \A id \in DOMAIN ledger : t[id] \in Int
    <3>1. \A id \in DOMAIN ledger : Tokens(ledger[id]) \in Nat
      BY <1>2, TokensOfLedger
    <3> QED
      BY <3>1
  <2>2. M \subseteq DOMAIN ledger /\ IsFiniteSet(DOMAIN ledger)
    BY <1>2 DEF MintsIn, SoundLedger
  <2>3. IsFiniteSet(M)
    BY <2>2, FS_Subset
  <2>4. \A id \in (DOMAIN ledger) \ M : t[id] = 0
    BY <1>8 DEF MintsIn
  <2> QED
    BY <2>1, <2>2, <2>3, <2>4
<1>10. DOMAIN e = M /\ \A id \in M : e[id] = t[id]
  <2>1. DOMAIN e = M /\ \A id \in M : e[id] = OpReturnData(ledger[id]).amounts[1]
    BY <1>5, BookNames DEF EntriesIn, EntryIn
  <2> QED
    BY <1>8, <2>1 DEF MintsIn
<1> HIDE DEF t, M, e
<1>11. SumFunctionOnSet(t, DOMAIN ledger) = SumFunctionOnSet(t, M)
  BY <1>9, SumOfSupport
<1>12. SumFunctionOnSet(e, M) = SumFunctionOnSet(t, M)
  BY <1>9, <1>10, SumEqual
<1>13. SupplyIn(ledger) = Book!SumFunction(e)
  BY <1>6, <1>10, <1>11, <1>12, BookSum
<1> QED
  BY <1>1, <1>5, <1>13, BookNames DEF Book!Init, e

(***************************************************************************)
(* The pipelines implement the position book (ImplementsBook): whatever    *)
(* they interleave and whenever the node answers, no step issues           *)
(* DigiDollars without a position, burns more or less than the position it *)
(* closes, closes one before its lock has expired, changes or reopens one  *)
(* -- as long as redeems burn what their position minted and what the      *)
(* wallet receives is backed.                                              *)
(***************************************************************************)
THEOREM BookImplemented ==
  ASSUME WholeRedeems, BackedOthers
  PROVE  Spec => ImplementsBook
<1>1. Init => Book!Init
  BY BookInit
<1>2. BookInv /\ [Next]_vars => [Book!Next]_(Book!vars)
  BY StepOfBook
<1> QED
  BY <1>1, <1>2, BookInvInit, BookInvNext, PTL DEF Spec, ImplementsBook, Book!Spec

-----------------------------------------------------------------------------
(***************************************************************************)
(* Two calls with one transaction report the same. All that a call reports *)
(* can be read off its transaction and the ledger, whatever it was asked   *)
(* and whenever it read: this is what the accounts of the calls say.       *)
(***************************************************************************)

(***************************************************************************)
(* What the transaction takes and gives tells its fee,                     *)
(***************************************************************************)
LEMMA TwinsPayOneFee ==
  ASSUME Books, NEW c \in Calls, NEW d \in Calls, Twins(c, d)
  PROVE  sent[c].fee = sent[d].fee
<1>1. Sent(c) /\ Sent(d) /\ sent[c].tx = sent[d].tx
  BY DEF Twins
<1>2. /\ sent[c].fee \in Nat /\ OutputSats(sent[c].tx) \in Int
      /\ InputSats(sent[c].tx) = OutputSats(sent[c].tx) + sent[c].fee
  BY <1>1, FeeIsPaid
<1>3. /\ sent[d].fee \in Nat
      /\ InputSats(sent[c].tx) = OutputSats(sent[c].tx) + sent[d].fee
  <2>1. /\ sent[d].fee \in Nat
        /\ InputSats(sent[d].tx) = OutputSats(sent[d].tx) + sent[d].fee
    BY <1>1, FeeIsPaid
  <2> QED
    BY <1>1, <2>1, Zenon
<1> QED
  BY <1>2, <1>3

(***************************************************************************)
(* its version the pipeline that sent it,                                  *)
(***************************************************************************)
LEMMA VersionTells ==
  ASSUME Books, NEW c \in Calls, Sent(c)
  PROVE  /\ c \in MintCalls     <=> sent[c].tx.version = "mint"
         /\ c \in TransferCalls <=> sent[c].tx.version = "transfer"
         /\ c \in RedeemCalls   <=> sent[c].tx.version = "redeem"
<1>1. Reported(c)
  BY DEF Books, CallAccount
<1> QED
  BY <1>1 DEF Reported, MintReported, TransferReported, RedeemReported, Calls

(***************************************************************************)
(* its metadata what a mint mints and until when it locks,                 *)
(***************************************************************************)
LEMMA TwinMintsAgree ==
  ASSUME Books, NEW c \in MintCalls, NEW d \in MintCalls, Twins(c, d)
  PROVE  MintReport(c) = MintReport(d)
<1> DEFINE tx == sent[c].tx
           lock(e) == atHeight[e] + LOCK_TIERS[req[e].lockTier].blocks
<1>1. Sent(c) /\ Sent(d) /\ sent[d].tx = tx /\ c \in Calls /\ d \in Calls
  BY DEF Twins, Calls
<1>2. Reported(c) /\ Reported(d)
  BY <1>1 DEF Books, CallAccount
<1>3. MintReported(tx, lock(c), req[c].ddAmountCents)
      /\ MintReported(tx, lock(d), req[d].ddAmountCents)
  BY <1>1, <1>2 DEF Reported
<1>4. lock(c) = lock(d) /\ req[c].ddAmountCents = req[d].ddAmountCents
  BY <1>3 DEF MintReported
<1>5. sent[c].fee = sent[d].fee
  BY <1>1, TwinsPayOneFee
<1> QED
  BY <1>1, <1>4, <1>5 DEF MintReport

(***************************************************************************)
(* the only time lock it opens which position a redeem closes, and the     *)
(* tokens it spends and gives back how much it burns of it,                *)
(***************************************************************************)
LEMMA TwinRedeemsAgree ==
  ASSUME BookInv, NEW c \in RedeemCalls, NEW d \in RedeemCalls, Twins(c, d)
  PROVE  RedeemReport(c) = RedeemReport(d)
<1> DEFINE tx == sent[c].tx
<1>1. Sent(c) /\ Sent(d) /\ sent[d].tx = tx /\ c \in Calls /\ d \in Calls
  BY DEF Twins, Calls
<1>2. /\ Books /\ SpendsRightly(c) /\ RespectsLock(d) /\ Tells(c) /\ Tells(d)
      /\ Balanced(c) /\ Balanced(d)
  BY <1>1 DEF BookInv, Books, CollateralInv, LockInv, CallInv, RedeemInv, CallAccount
<1>3. req[d].positionId = req[c].positionId
  <2> DEFINE collateral == <<req[d].positionId, 0>>
  <2>1. /\ [out |-> collateral, sequence |-> "CLTV_ENABLED"] \in tx.inputs
        /\ OutputOf(collateral).script = CollateralMAST(WalletKey, tx.locktime)
    BY <1>1, <1>2 DEF RespectsLock
  <2>2. collateral \in Spends(tx)
    BY <2>1 DEF Spends
  <2>3. TimeLocked(OutputOf(collateral))
    BY <2>1 DEF TimeLocked, IsP2TR, CollateralMAST, P2TR
  <2>4. collateral = <<req[c].positionId, 0>>
    BY <1>2, <2>2, <2>3 DEF SpendsRightly
  <2> QED
    BY <2>4
<1>4. Burned(c) = Burned(d)
  <2>1. /\ Balances(ledger, tx, sent[c].fee, 0, Burned(c))
        /\ Balances(ledger, tx, sent[d].fee, 0, Burned(d))
    BY <1>1, <1>2, CallsAssumption DEF Balanced, Minted, Redeemed
  <2>2. /\ Burned(c) \in Int /\ Burned(d) \in Int /\ Sound(tx)
        /\ DD(ledger, Spends(tx)) + 0 = Tokens(tx) + Burned(c)
        /\ DD(ledger, Spends(tx)) + 0 = Tokens(tx) + Burned(d)
    BY <2>1 DEF Balances
  <2>3. Tokens(tx) \in Int
    BY <2>2, TokensTyped
  <2> QED
    BY <2>2, <2>3
<1>5. ReadPosition(c).dd_minted = ReadPosition(d).dd_minted
  <2>1. ReadPosition(c) \in position[c] /\ ReadPosition(d) \in position[d]
    BY <1>1, <1>2 DEF Tells, ReadPosition
  <2> QED
    BY <1>2, <1>3, <2>1 DEF Tells
<1>6. sent[c].fee = sent[d].fee
  BY <1>1, <1>2, TwinsPayOneFee
<1> QED
  BY <1>3, <1>4, <1>5, <1>6 DEF RedeemReport, PositionClosed, Burned

(***************************************************************************)
(* and its outputs, with their amounts, the tokens of a transfer.          *)
(***************************************************************************)
LEMMA TokensAreTold ==
  ASSUME Books, NEW c \in TransferCalls, Sent(c)
  PROVE  LET tx == sent[c].tx
         IN  ReportedTokens(c) =
               [i \in 1 .. Len(OpReturnData(tx).amounts) |->
                  [script |-> Output(tx, i - 1).script, cents |-> DDAmountCents(tx, i - 1)]]
<1> DEFINE tx   == sent[c].tx
           r    == req[c].recipients
           n    == Len(r)
           back == SelectedDD(c) - RecipientCents(r)
           told(i)  == [script |-> Output(tx, i - 1).script, cents |-> DDAmountCents(tx, i - 1)]
           asked(i) == [script |-> TokenP2TR(DecodeAddress(r[i].to)), cents |-> r[i].cents]
           mine == [script |-> TokenP2TR(WalletKey), cents |-> back]
<1>1. SelectedDD(c) = DD(ledger, Spends(tx))
  BY DEF SelectedDD, DD, DDAt, SumFunction
<1>2. TransferReported(tx, r, SelectedDD(c))
  BY <1>1 DEF Books, CallAccount, Reported, Calls
<1>3. /\ n \in Nat /\ DOMAIN r = 1 .. n /\ back \in Int
      /\ Len(OpReturnData(tx).amounts) = IF back > 0 THEN n + 1 ELSE n
      /\ \A i \in 1 .. n : asked(i) = told(i)
      /\ back > 0 => mine = told(n + 1)
  <2>1. /\ n \in Nat /\ DOMAIN r = 1 .. n /\ back \in Int
        /\ Len(OpReturnData(tx).amounts) = IF back > 0 THEN n + 1 ELSE n
        /\ \A i \in 1 .. n : /\ DDAmountCents(tx, i - 1) = r[i].cents
                             /\ Output(tx, i - 1).script = TokenP2TR(DecodeAddress(r[i].to))
        /\ back > 0 => /\ DDAmountCents(tx, n) = back
                       /\ Output(tx, n).script = TokenP2TR(WalletKey)
    BY <1>2, SMTT(60) DEF TransferReported
  <2>2. (n + 1) - 1 = n
    BY <2>1, SMTT(60)
  <2> QED
    BY <2>1, <2>2
<1>4. ReportedTokens(c) = [i \in 1 .. n |-> asked(i)] \o (IF back > 0 THEN <<mine>> ELSE << >>)
  BY <1>3 DEF ReportedTokens, TransferReport
<1> DEFINE T == {told(i) : i \in 1 .. n + 1}
           s == [i \in 1 .. n |-> told(i)]
<1> HIDE DEF told, asked, mine, n, back, r, tx
<1>5. s \in Seq(T) /\ Len(s) = n
  BY <1>3
<1>6. [i \in 1 .. n |-> asked(i)] = s
  BY <1>3
<1>7. CASE back > 0
  <2>1. mine \in T /\ <<mine>> \in Seq(T) /\ Len(<<mine>>) = 1 /\ <<mine>>[1] = told(n + 1)
    BY <1>3, <1>7
  <2>2. /\ s \o <<mine>> \in Seq(T) /\ Len(s \o <<mine>>) = n + 1
        /\ \A i \in 1 .. n + 1 : (s \o <<mine>>)[i] = told(i)
    <3> HIDE DEF T
    <3>1. \A i \in 1 .. n : s[i] = told(i)
      OBVIOUS
    <3> HIDE DEF s
    <3>2. Len(s \o <<mine>>) = n + 1 /\ s \o <<mine>> \in Seq(T)
      BY <1>3, <1>5, <2>1
    <3> QED
      BY <1>3, <1>5, <2>1, <3>1, <3>2
  <2>3. s \o <<mine>> = [i \in 1 .. n + 1 |-> told(i)]
    <3> HIDE DEF T, s
    <3> QED
      BY <1>3, <2>2
  <2> QED
    BY <1>3, <1>4, <1>6, <1>7, <2>3 DEF tx, told
<1>8. CASE ~(back > 0)
  <2>1. s \o << >> = s
    <3> HIDE DEF T, s
    <3> QED
      BY <1>5
  <2> QED
    BY <1>3, <1>4, <1>6, <1>8, <2>1 DEF tx, told
<1> QED
  BY <1>7, <1>8

(***************************************************************************)
(* Two calls that send one transaction report the same, for any number of  *)
(* calls that run at the same time.                                        *)
(***************************************************************************)
THEOREM TwinsReportAlike == Spec => []OneTransactionOneResult
<1>1. ASSUME BookInv, NEW c \in Calls, NEW d \in Calls, Twins(c, d)
      PROVE  \/ {c, d} \subseteq MintCalls /\ MintReport(c) = MintReport(d)
             \/ {c, d} \subseteq RedeemCalls /\ RedeemReport(c) = RedeemReport(d)
             \/ /\ {c, d} \subseteq TransferCalls /\ ReportedTokens(c) = ReportedTokens(d)
                /\ TransferReport(c).feeSats = TransferReport(d).feeSats
  <2>1. Books /\ Sent(c) /\ Sent(d) /\ sent[c].tx = sent[d].tx
    BY <1>1 DEF BookInv, Twins
  <2>2. /\ c \in MintCalls <=> d \in MintCalls
        /\ c \in TransferCalls <=> d \in TransferCalls
        /\ c \in RedeemCalls <=> d \in RedeemCalls
    BY <2>1, VersionTells
  <2>3. CASE c \in MintCalls
    BY <1>1, <2>1, <2>2, <2>3, TwinMintsAgree
  <2>4. CASE c \in RedeemCalls
    BY <1>1, <2>2, <2>4, TwinRedeemsAgree
  <2>5. CASE c \in TransferCalls
    <3>1. ReportedTokens(c) = ReportedTokens(d)
      BY <2>1, <2>2, <2>5, TokensAreTold
    <3>2. sent[c].fee = sent[d].fee
      BY <1>1, <2>1, TwinsPayOneFee
    <3> QED
      BY <2>2, <2>5, <3>1, <3>2 DEF TransferReport
  <2> QED
    BY <2>3, <2>4, <2>5 DEF Calls
<1>2. BookInv => OneTransactionOneResult
  BY <1>1 DEF OneTransactionOneResult
<1> QED
  BY <1>2, BookInvInit, BookInvNext, PTL DEF Spec
=============================================================================
