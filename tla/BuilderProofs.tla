--------------------------- MODULE BuilderProofs ----------------------------
(***************************************************************************)
(* What the builders put into a transaction, and what the parser reads off *)
(* it: for any coins and any request, the outputs and the reported fee are *)
(* worth the coins, and the DigiDollars of the outputs are those of the    *)
(* request and the change.                                                 *)
(*                                                                         *)
(* The amounts are sums over finite sets, so the laws of SumFunctionOnSet  *)
(* come first.  It is defined by recursion over the subsets, and           *)
(* everything about it rests on induction over them: a set of              *)
(* counterexamples that is not empty has a smallest member (WFMin).        *)
(***************************************************************************)
EXTENDS TxBuilder, FiniteSetTheorems, TLAPS

Chosen(s) == CHOOSE x \in s : TRUE

\* The sums of all subsets of S, each made of that of a smaller one.
Sums(f, S, sums) ==
  sums = [s \in SUBSET S |->
            IF s = {} THEN 0 ELSE f[Chosen(s)] + sums[s \ {Chosen(s)}]]

(* Induction over the subsets of a finite set. *)
LEMMA SmallestSubset ==
  ASSUME NEW S, IsFiniteSet(S), NEW T, T \subseteq SUBSET S, T # {}
  PROVE  \E U \in T : \A V \in T : V \subseteq U => V = U
<1>1. IsWellFoundedOn(StrictSubsetOrdering(S), FiniteSubsetsOf(S))
  BY FS_StrictSubsetOrderingWellFounded
<1>2. T \subseteq FiniteSubsetsOf(S)
  BY FS_FiniteSubsetsOfFinite
<1>3. PICK U \in T : \A V \in T : <<V, U>> \notin StrictSubsetOrdering(S)
  BY <1>1, <1>2, WFMin
<1>4. ASSUME NEW V \in T, V \subseteq U, V # U
      PROVE  FALSE
  <2>1. <<V, U>> \in StrictSubsetOrdering(S)
    BY <1>4 DEF StrictSubsetOrdering
  <2>2. QED
    BY <1>3, <2>1
<1>5. QED
  BY <1>3, <1>4

(* What SumFunctionOnSet is by definition. *)
LEMMA SumIsChosen ==
  ASSUME NEW f, NEW S
  PROVE  SumFunctionOnSet(f, S) = (CHOOSE sums : Sums(f, S, sums))[S]
BY DEF SumFunctionOnSet, FoldFunctionOnSet, MapThenFoldSet, Sums, Chosen

(***************************************************************************)
(* What is chosen from a set that is not empty is one of its members.      *)
(***************************************************************************)
LEMMA ChosenIn ==
  ASSUME NEW s, s # {}
  PROVE  Chosen(s) \in s
BY DEF Chosen

(***************************************************************************)
(* There is at most one function of the sums of all subsets.               *)
(***************************************************************************)
LEMMA SumsUnique ==
  ASSUME NEW f, NEW S, IsFiniteSet(S), NEW g, NEW h, Sums(f, S, g), Sums(f, S, h)
  PROVE  g = h
<1>1. ASSUME NEW V \in SUBSET S, g[V] # h[V]
      PROVE  FALSE
  <2> DEFINE T == {W \in SUBSET S : g[W] # h[W]}
  <2>1. PICK U \in T : \A W \in T : W \subseteq U => W = U
    <3>1. T # {} /\ T \subseteq SUBSET S
      BY <1>1
    <3> HIDE DEF T
    <3>2. QED
      BY <3>1, SmallestSubset
  <2>2. U # {}
    BY <2>1 DEF Sums
  <2>3. Chosen(U) \in U
    BY <2>2, ChosenIn
  <2> DEFINE W == U \ {Chosen(U)}
  <2>4. W \in SUBSET S /\ W \subseteq U /\ W # U
    BY <2>1, <2>3
  <2>5. g[W] = h[W]
    BY <2>1, <2>4
  <2>6. g[U] = f[Chosen(U)] + g[W] /\ h[U] = f[Chosen(U)] + h[W]
    <3>1. U \in SUBSET S
      BY <2>1
    <3>2. QED
      BY <2>2, <3>1 DEF Sums
  <2>7. QED
    BY <2>1, <2>5, <2>6
<1>2. DOMAIN g = SUBSET S /\ DOMAIN h = SUBSET S
  BY DEF Sums
<1>3. g = [s \in DOMAIN g |-> g[s]] /\ h = [s \in DOMAIN h |-> h[s]]
  BY DEF Sums
<1>4. QED
  BY <1>1, <1>2, <1>3

(***************************************************************************)
(* The sums of the subsets of a part of S are among those of S.            *)
(***************************************************************************)
LEMMA SumsRestrict ==
  ASSUME NEW f, NEW S, NEW W, W \subseteq S, NEW g, Sums(f, S, g),
         NEW h, h = [s \in SUBSET W |-> g[s]]
  PROVE  Sums(f, W, h)
<1>1. ASSUME NEW s \in SUBSET W
      PROVE  g[s] = IF s = {} THEN 0 ELSE f[Chosen(s)] + h[s \ {Chosen(s)}]
  <2>1. s \in SUBSET S /\ s \ {Chosen(s)} \in SUBSET W
    OBVIOUS
  <2>2. QED
    BY <2>1 DEF Sums
<1>2. QED
  BY <1>1 DEF Sums

(***************************************************************************)
(* There is a function of the sums of all subsets: where the parts of a    *)
(* set have theirs, so has the set.                                        *)
(***************************************************************************)
LEMMA SumsExist ==
  ASSUME NEW f, NEW S, IsFiniteSet(S)
  PROVE  \E g : Sums(f, S, g)
<1> DEFINE T == {U \in SUBSET S : ~\E g : Sums(f, U, g)}
<1>1. SUFFICES ASSUME T # {} PROVE FALSE
  <2>1. S \in SUBSET S
    OBVIOUS
  <2> QED
    BY <2>1
<1>2. PICK U \in T : \A V \in T : V \subseteq U => V = U
  <2>1. T \subseteq SUBSET S
    OBVIOUS
  <2> HIDE DEF T
  <2>2. QED
    BY <1>1, <2>1, SmallestSubset
<1>3. U \in SUBSET S /\ IsFiniteSet(U)
  BY <1>2, FS_Subset
<1> DEFINE G(V) == CHOOSE g : Sums(f, V, g)
<1>4. ASSUME NEW V \in SUBSET U, V # U
      PROVE  Sums(f, V, G(V))
  <2>1. \E g : Sums(f, V, g)
    BY <1>2, <1>3, <1>4
  <2>2. QED
    BY <2>1
<1> HIDE DEF T, G
<1> DEFINE At(V) == IF V = {} THEN 0 ELSE f[Chosen(V)] + G(V \ {Chosen(V)})[V \ {Chosen(V)}]
           h     == [V \in SUBSET U |-> At(V)]
<1>5. ASSUME NEW V \in SUBSET U, V # U
      PROVE  G(V)[V] = h[V]
  <2> DEFINE W == V \ {Chosen(V)}
  <2>0. h[V] = At(V)
    OBVIOUS
  <2> HIDE DEF h
  <2>1. Sums(f, V, G(V)) /\ V \in SUBSET V
    BY <1>4, <1>5
  <2>2. G(V)[V] = IF V = {} THEN 0 ELSE f[Chosen(V)] + G(V)[W]
    BY <2>1 DEF Sums
  <2>3. G(V)[W] = G(W)[W]
    <3>1. W \subseteq V /\ W \in SUBSET U /\ W # U /\ IsFiniteSet(W)
      BY <1>3, <1>5, FS_Subset
    <3>2. Sums(f, W, G(W))
      BY <1>4, <3>1
    <3> HIDE DEF W
    <3>3. PICK k : k = [s \in SUBSET W |-> G(V)[s]]
      OBVIOUS
    <3>4. Sums(f, W, k)
      BY <2>1, <3>1, <3>3, SumsRestrict
    <3>5. G(W) = k
      BY <3>1, <3>2, <3>4, SumsUnique
    <3>6. QED
      BY <3>3, <3>5
  <2>4. QED
    BY <2>0, <2>2, <2>3
<1>6. Sums(f, U, h)
  <2>1. ASSUME NEW V \in SUBSET U
        PROVE  At(V) = IF V = {} THEN 0 ELSE f[Chosen(V)] + h[V \ {Chosen(V)}]
    <3>1. CASE V = {}
      BY <3>1
    <3>2. CASE V # {}
      <4>1. V \ {Chosen(V)} \in SUBSET U /\ V \ {Chosen(V)} # U
        BY <3>2, ChosenIn
      <4> HIDE DEF h
      <4>2. G(V \ {Chosen(V)})[V \ {Chosen(V)}] = h[V \ {Chosen(V)}]
        BY <1>5, <4>1
      <4>3. QED
        BY <3>2, <4>2
    <3>3. QED
      BY <3>1, <3>2
  <2> HIDE DEF At
  <2>2. QED
    BY <2>1 DEF Sums
<1>7. QED
  BY <1>2, <1>6 DEF T

----------------------------------------------------------------------------

(***************************************************************************)
(* So what SumFunctionOnSet chooses is that function.                      *)
(***************************************************************************)
LEMMA ChosenSums ==
  ASSUME NEW f, NEW S, IsFiniteSet(S)
  PROVE  Sums(f, S, CHOOSE sums : Sums(f, S, sums))
BY SumsExist

(* Sum up one element, and then the others. *)
LEMMA SumDefinition ==
  ASSUME NEW f, NEW S, IsFiniteSet(S)
  PROVE  SumFunctionOnSet(f, S) =
           IF S = {} THEN 0
           ELSE f[Chosen(S)] + SumFunctionOnSet(f, S \ {Chosen(S)})
<1> DEFINE G(V) == CHOOSE sums : Sums(f, V, sums)
           W    == S \ {Chosen(S)}
<1>1. \A V : SumFunctionOnSet(f, V) = G(V)[V]
  BY SumIsChosen
<1>2. W \subseteq S /\ W \in SUBSET S /\ S \in SUBSET S /\ IsFiniteSet(W)
  BY FS_Subset
<1>3. Sums(f, S, G(S)) /\ Sums(f, W, G(W))
  <2> HIDE DEF W
  <2> QED
    BY <1>2, ChosenSums
<1> HIDE DEF G
<1>4. G(S)[S] = IF S = {} THEN 0 ELSE f[Chosen(S)] + G(S)[W]
  BY <1>2, <1>3 DEF Sums
<1>5. PICK k : k = [s \in SUBSET W |-> G(S)[s]]
  OBVIOUS
<1> HIDE DEF W
<1>6. Sums(f, W, k)
  BY <1>2, <1>3, <1>5, SumsRestrict
<1>7. G(W) = k
  BY <1>2, <1>3, <1>6, SumsUnique
<1>8. G(W)[W] = G(S)[W]
  BY <1>5, <1>7
<1>9. QED
  BY <1>1, <1>4, <1>8 DEF W

(***************************************************************************)
(* The sum of nothing is zero.                                             *)
(***************************************************************************)
LEMMA SumEmpty ==
  ASSUME NEW f
  PROVE  SumFunctionOnSet(f, {}) = 0
BY SumDefinition, FS_EmptySet

(* Induction over the subsets of a finite set: P is the set of those for    *)
(* which what is to be shown holds.                                         *)
LEMMA SubsetInduction ==
  ASSUME NEW S, IsFiniteSet(S), NEW P, {} \in P,
         \A V \in SUBSET S, x \in S : V \in P /\ x \notin V => V \union {x} \in P
  PROVE  S \in P
<1> DEFINE T == (SUBSET S) \ P
<1>1. SUFFICES ASSUME T # {} PROVE FALSE
  OBVIOUS
<1>2. PICK U \in T : \A V \in T : V \subseteq U => V = U
  <2>1. T \subseteq SUBSET S
    OBVIOUS
  <2> HIDE DEF T
  <2> QED
    BY <1>1, <2>1, SmallestSubset
<1>3. PICK x \in U : TRUE
  BY <1>2
<1>4. U \ {x} \in SUBSET S /\ U \ {x} # U /\ x \in S /\ (U \ {x}) \union {x} = U
  BY <1>2, <1>3
<1>5. U \ {x} \in P
  BY <1>2, <1>4
<1> QED
  BY <1>2, <1>4, <1>5

(***************************************************************************)
(* A sum of integers is one.                                               *)
(***************************************************************************)
LEMMA SumType ==
  ASSUME NEW S, IsFiniteSet(S), NEW f, \A x \in S : f[x] \in Int
  PROVE  SumFunctionOnSet(f, S) \in Int
<1> DEFINE T == {V \in SUBSET S : SumFunctionOnSet(f, V) \notin Int}
<1>1. SUFFICES ASSUME T # {} PROVE FALSE
  OBVIOUS
<1>2. PICK U \in T : \A V \in T : V \subseteq U => V = U
  <2>1. T \subseteq SUBSET S
    OBVIOUS
  <2> HIDE DEF T
  <2> QED
    BY <1>1, <2>1, SmallestSubset
<1>3. U \in SUBSET S /\ IsFiniteSet(U) /\ SumFunctionOnSet(f, U) \notin Int
  BY <1>2, FS_Subset
<1>4. U # {}
  BY <1>3, SumEmpty
<1>5. Chosen(U) \in U
  BY <1>4, ChosenIn
<1>6. SumFunctionOnSet(f, U \ {Chosen(U)}) \in Int
  BY <1>2, <1>3, <1>5
<1>7. f[Chosen(U)] \in Int
  BY <1>3, <1>5
<1>8. SumFunctionOnSet(f, U) = f[Chosen(U)] + SumFunctionOnSet(f, U \ {Chosen(U)})
  BY <1>3, <1>4, SumDefinition
<1> QED
  BY <1>3, <1>6, <1>7, <1>8

(* It does not matter which element is taken first. *)
LEMMA SumRemove ==
  ASSUME NEW S, IsFiniteSet(S), NEW f, \A x \in S : f[x] \in Int, NEW x \in S
  PROVE  SumFunctionOnSet(f, S) = f[x] + SumFunctionOnSet(f, S \ {x})
<1> DEFINE Sum(V) == SumFunctionOnSet(f, V)
           T == {V \in SUBSET S : \E y \in V : Sum(V) # f[y] + Sum(V \ {y})}
<1>1. SUFFICES ASSUME T # {} PROVE FALSE
  OBVIOUS
<1>2. PICK U \in T : \A V \in T : V \subseteq U => V = U
  <2>1. T \subseteq SUBSET S
    OBVIOUS
  <2> HIDE DEF T
  <2> QED
    BY <1>1, <2>1, SmallestSubset
<1>3. PICK y \in U : Sum(U) # f[y] + Sum(U \ {y})
  BY <1>2
<1> DEFINE c == Chosen(U)
<1>4. /\ U \in SUBSET S /\ IsFiniteSet(U) /\ c \in U
      /\ IsFiniteSet(U \ {y})
      /\ IsFiniteSet((U \ {c}) \ {y})
  BY <1>2, <1>3, ChosenIn, FS_Subset
<1>5. Sum(U) = f[c] + Sum(U \ {c})
  BY <1>3, <1>4, SumDefinition
<1>6. y # c
  BY <1>3, <1>5
<1> HIDE DEF c, Sum
<1>11. ASSUME NEW V \in SUBSET U, V # U, NEW z \in V
       PROVE  Sum(V) = f[z] + Sum(V \ {z})
  BY <1>2, <1>4, <1>11
<1>7. Sum(U \ {c}) = f[y] + Sum((U \ {c}) \ {y})
  BY <1>3, <1>4, <1>6, <1>11
<1>8. Sum(U \ {y}) = f[c] + Sum((U \ {y}) \ {c})
  BY <1>3, <1>4, <1>6, <1>11
<1>9. (U \ {y}) \ {c} = (U \ {c}) \ {y}
  OBVIOUS
<1>10. f[c] \in Int /\ f[y] \in Int /\ Sum((U \ {c}) \ {y}) \in Int
  <2>1. f[c] \in Int /\ f[y] \in Int
    BY <1>3, <1>4
  <2>2. \A z \in (U \ {c}) \ {y} : f[z] \in Int
    BY <1>4
  <2> QED
    BY <1>4, <2>1, <2>2, SumType DEF Sum
<1> QED
  BY <1>3, <1>5, <1>7, <1>8, <1>9, <1>10

(* Adding an element adds its value. *)
LEMMA SumAdd ==
  ASSUME NEW S, IsFiniteSet(S), NEW x, x \notin S,
         NEW f, \A y \in S \union {x} : f[y] \in Int
  PROVE  SumFunctionOnSet(f, S \union {x}) = SumFunctionOnSet(f, S) + f[x]
<1> DEFINE U == S \union {x}
<1>1. IsFiniteSet(U) /\ x \in U /\ U \ {x} = S
  BY FS_AddElement
<1>2. SumFunctionOnSet(f, S) \in Int /\ f[x] \in Int
  BY SumType
<1>3. \A y \in U : f[y] \in Int
  OBVIOUS
<1>4. SumFunctionOnSet(f, U) = f[x] + SumFunctionOnSet(f, U \ {x})
  <2> HIDE DEF U
  <2> QED
    BY <1>1, <1>3, SumRemove
<1>5. SumFunctionOnSet(f, U) = f[x] + SumFunctionOnSet(f, S)
  BY <1>1, <1>4
<1> QED
  BY <1>2, <1>5

(* Only the values on the set count. *)
LEMMA SumEqual ==
  ASSUME NEW S, IsFiniteSet(S), NEW f, NEW g,
         \A x \in S : f[x] = g[x]
  PROVE  SumFunctionOnSet(f, S) = SumFunctionOnSet(g, S)
<1> DEFINE k == CHOOSE sums : Sums(f, S, sums)
           h == CHOOSE sums : Sums(g, S, sums)
<1>1. Sums(f, S, k) /\ Sums(g, S, h)
  BY ChosenSums
<1>2. SumFunctionOnSet(f, S) = k[S] /\ SumFunctionOnSet(g, S) = h[S]
  BY SumIsChosen
<1> HIDE DEF k, h
<1>3. \A s \in SUBSET S : s # {} => f[Chosen(s)] = g[Chosen(s)]
  BY ChosenIn
<1>4. Sums(g, S, k)
  BY <1>1, <1>3 DEF Sums
<1> QED
  BY <1>1, <1>2, <1>4, SumsUnique

(* Disjoint sets can be summed up apart. *)
LEMMA SumUnion ==
  ASSUME NEW S, IsFiniteSet(S), NEW R, IsFiniteSet(R), S \intersect R = {},
         NEW f, \A x \in S \union R : f[x] \in Int
  PROVE  SumFunctionOnSet(f, S \union R) = SumFunctionOnSet(f, S) + SumFunctionOnSet(f, R)
<1> DEFINE Sum(V) == SumFunctionOnSet(f, V)
           P == {V \in SUBSET R : Sum(S \union V) = Sum(S) + Sum(V)}
<1>1. Sum(S) \in Int
  BY SumType
<1>2. {} \in P
  BY <1>1, SumEmpty
<1>3. ASSUME NEW V \in SUBSET R, NEW x \in R, V \in P, x \notin V
      PROVE  V \union {x} \in P
  <2>1. IsFiniteSet(V) /\ IsFiniteSet(S \union V)
    BY FS_Subset, FS_Union
  <2>2. Sum(V) \in Int /\ f[x] \in Int
    BY <2>1, SumType
  <2>3. Sum(V \union {x}) = Sum(V) + f[x]
    BY <1>3, <2>1, SumAdd
  <2>4. Sum((S \union V) \union {x}) = Sum(S \union V) + f[x]
    BY <1>3, <2>1, SumAdd
  <2>5. (S \union V) \union {x} = S \union (V \union {x})
    OBVIOUS
  <2>6. Sum(S \union V) = Sum(S) + Sum(V)
    BY <1>3
  <2>7. Sum(S \union (V \union {x})) = Sum(S \union V) + f[x]
    BY <2>4, <2>5
  <2> HIDE DEF Sum
  <2>8. Sum(S \union (V \union {x})) = Sum(S) + Sum(V \union {x})
    BY <1>1, <2>2, <2>3, <2>6, <2>7
  <2> QED
    BY <2>8
<1>4. R \in P
  <2> HIDE DEF P
  <2> QED
    BY <1>2, <1>3, SubsetInduction
<1> QED
  BY <1>4

(* What counts nothing can be left out. *)
LEMMA SumOfZeros ==
  ASSUME NEW S, IsFiniteSet(S), NEW f, \A x \in S : f[x] = 0
  PROVE  SumFunctionOnSet(f, S) = 0
<1> DEFINE P == {V \in SUBSET S : SumFunctionOnSet(f, V) = 0}
<1>1. {} \in P
  BY SumEmpty
<1>2. ASSUME NEW V \in SUBSET S, NEW x \in S, V \in P, x \notin V
      PROVE  V \union {x} \in P
  <2>1. IsFiniteSet(V) /\ \A y \in V \union {x} : f[y] \in Int
    BY FS_Subset
  <2>2. SumFunctionOnSet(f, V \union {x}) = SumFunctionOnSet(f, V) + f[x]
    BY <1>2, <2>1, SumAdd
  <2>3. SumFunctionOnSet(f, V) = 0 /\ f[x] = 0
    BY <1>2
  <2> QED
    BY <2>2, <2>3
<1>3. S \in P
  <2> HIDE DEF P
  <2> QED
    BY <1>1, <1>2, SubsetInduction
<1> QED
  BY <1>3

(***************************************************************************)
(* Zeros do not count.                                                     *)
(***************************************************************************)
LEMMA SumOfSupport ==
  ASSUME NEW S, IsFiniteSet(S), NEW R, R \subseteq S,
         NEW f, \A x \in S : f[x] \in Int, \A x \in S \ R : f[x] = 0
  PROVE  SumFunctionOnSet(f, S) = SumFunctionOnSet(f, R)
<1> DEFINE Q == S \ R
<1>1. IsFiniteSet(R) /\ IsFiniteSet(Q) /\ R \intersect Q = {} /\ R \union Q = S
  BY FS_Subset
<1>2. SumFunctionOnSet(f, Q) = 0
  BY <1>1, SumOfZeros
<1>3. SumFunctionOnSet(f, R) \in Int
  BY <1>1, SumType
<1> HIDE DEF Q
<1>4. \A x \in R \union Q : f[x] \in Int
  BY <1>1
<1>5. SumFunctionOnSet(f, R \union Q) = SumFunctionOnSet(f, R) + SumFunctionOnSet(f, Q)
  BY <1>1, <1>4, SumUnion
<1>6. SumFunctionOnSet(f, S) = SumFunctionOnSet(f, R) + SumFunctionOnSet(f, Q)
  BY <1>1, <1>5
<1> QED
  BY <1>2, <1>3, <1>6

(* A finite set has a finite image, as large as itself if it is mapped one  *)
(* to one.                                                                  *)
LEMMA ImageIsFinite ==
  ASSUME NEW S, IsFiniteSet(S), NEW h
  PROVE  /\ IsFiniteSet({h[x] : x \in S})
         /\ (\A x, y \in S : h[x] = h[y] => x = y)
              => Cardinality({h[x] : x \in S}) = Cardinality(S)
<1> DEFINE f == [x \in S |-> h[x]]
           T == {h[x] : x \in S}
<1>1. f \in Surjection(S, T)
  <2>1. f \in [S -> T]
    OBVIOUS
  <2>2. \A t \in T : \E s \in S : f[s] = t
    OBVIOUS
  <2> QED
    BY <2>1, <2>2 DEF Surjection
<1>2. (\A x, y \in S : h[x] = h[y] => x = y) => f \in Injection(S, T)
  <2>1. f \in [S -> T] /\ DOMAIN f = S
    OBVIOUS
  <2> QED
    BY <2>1 DEF Injection, IsInjective
<1> HIDE DEF f
<1>3. /\ IsFiniteSet(T)
      /\ Cardinality(T) = Cardinality(S) <=> f \in Injection(S, T)
  <2> HIDE DEF T
  <2> QED
    BY <1>1, FS_Surjection
<1> QED
  BY <1>2, <1>3

(* The values of a set, summed up, are those of the set it is mapped onto *)
(* one to one.                                                            *)
LEMMA SumOfImage ==
  ASSUME NEW S, IsFiniteSet(S), NEW h, \A x, y \in S : h[x] = h[y] => x = y,
         NEW T, T = {h[x] : x \in S},
         NEW f, NEW g, \A x \in S : g[x] = f[h[x]] /\ g[x] \in Int
  PROVE  SumFunctionOnSet(f, T) = SumFunctionOnSet(g, S)
<1> DEFINE Image(V) == {h[x] : x \in V}
           P == {V \in SUBSET S : SumFunctionOnSet(f, Image(V)) = SumFunctionOnSet(g, V)}
<1>1. {} \in P
  <2>1. Image({}) = {}
    OBVIOUS
  <2> HIDE DEF Image
  <2> QED
    BY <2>1, SumEmpty
<1>2. ASSUME NEW V \in SUBSET S, NEW x \in S, V \in P, x \notin V
      PROVE  V \union {x} \in P
  <2>1. IsFiniteSet(V) /\ \A y \in V \union {x} : g[y] \in Int
    BY FS_Subset
  <2>2. IsFiniteSet(Image(V))
    BY <2>1, ImageIsFinite
  <2>3. Image(V \union {x}) = Image(V) \union {h[x]}
    OBVIOUS
  <2>4. h[x] \notin Image(V)
    BY <1>2
  <2>5. \A z \in Image(V) \union {h[x]} : f[z] \in Int
    <3>1. ASSUME NEW y \in V \union {x} PROVE f[h[y]] \in Int
      BY <2>1
    <3> QED
      BY <3>1
  <2>6. SumFunctionOnSet(f, Image(V)) = SumFunctionOnSet(g, V)
    BY <1>2
  <2> HIDE DEF Image
  <2>7. SumFunctionOnSet(f, Image(V) \union {h[x]}) = SumFunctionOnSet(f, Image(V)) + f[h[x]]
    BY <2>2, <2>4, <2>5, SumAdd, ZenonT(60)
  <2>8. SumFunctionOnSet(g, V \union {x}) = SumFunctionOnSet(g, V) + g[x]
    BY <1>2, <2>1, SumAdd
  <2> QED
    BY <2>3, <2>6, <2>7, <2>8
<1>3. S \in P
  <2> HIDE DEF P
  <2> QED
    BY <1>1, <1>2, SubsetInduction
<1>4. Image(S) = T
  OBVIOUS
<1> HIDE DEF Image
<1> QED
  BY <1>3, <1>4

(* Sums grow with their values. *)
LEMMA SumIsMonotone ==
  ASSUME NEW S, IsFiniteSet(S), NEW f, NEW g,
         \A x \in S : f[x] \in Int /\ g[x] \in Int /\ f[x] <= g[x]
  PROVE  SumFunctionOnSet(f, S) <= SumFunctionOnSet(g, S)
<1> DEFINE P == {V \in SUBSET S : SumFunctionOnSet(f, V) <= SumFunctionOnSet(g, V)}
<1>1. {} \in P
  BY SumEmpty
<1>2. ASSUME NEW V \in SUBSET S, NEW x \in S, V \in P, x \notin V
      PROVE  V \union {x} \in P
  <2>1. IsFiniteSet(V) /\ \A y \in V \union {x} : f[y] \in Int /\ g[y] \in Int
    BY FS_Subset
  <2>2. SumFunctionOnSet(f, V \union {x}) = SumFunctionOnSet(f, V) + f[x]
    BY <1>2, <2>1, SumAdd
  <2>3. SumFunctionOnSet(g, V \union {x}) = SumFunctionOnSet(g, V) + g[x]
    BY <1>2, <2>1, SumAdd
  <2>4. SumFunctionOnSet(f, V) \in Int /\ SumFunctionOnSet(g, V) \in Int
    BY <2>1, SumType
  <2>5. SumFunctionOnSet(f, V) <= SumFunctionOnSet(g, V)
    BY <1>2
  <2>6. SumFunctionOnSet(f, V \union {x}) <= SumFunctionOnSet(g, V \union {x})
    BY <2>2, <2>3, <2>4, <2>5
  <2> QED
    BY <2>6
<1>3. S \in P
  <2> HIDE DEF P
  <2> QED
    BY <1>1, <1>2, SubsetInduction
<1> QED
  BY <1>3

(***************************************************************************)
(* A sum of naturals is one.                                               *)
(***************************************************************************)
LEMMA SumOfNats ==
  ASSUME NEW S, IsFiniteSet(S), NEW f, \A x \in S : f[x] \in Nat
  PROVE  SumFunctionOnSet(f, S) \in Nat
<1> DEFINE z == [x \in S |-> 0]
<1>1. SumFunctionOnSet(z, S) = 0
  BY SumOfZeros
<1>2. SumFunctionOnSet(z, S) <= SumFunctionOnSet(f, S)
  BY SumIsMonotone
<1>3. SumFunctionOnSet(f, S) \in Int
  BY SumType
<1> QED
  BY <1>1, <1>2, <1>3

(* What is spent leaves a sum and what is made joins it. *)
LEMMA SumReplaced ==
  ASSUME NEW U, IsFiniteSet(U), NEW S, S \subseteq U,
         NEW N, IsFiniteSet(N), N \intersect U = {},
         NEW f, \A x \in U \union N : f[x] \in Int
  PROVE  SumFunctionOnSet(f, (U \ S) \union N)
           = SumFunctionOnSet(f, U) - SumFunctionOnSet(f, S) + SumFunctionOnSet(f, N)
<1> DEFINE R == U \ S
<1>1. /\ IsFiniteSet(S) /\ IsFiniteSet(R) /\ R \union S = U
      /\ R \intersect S = {} /\ R \intersect N = {}
      /\ \A x \in R \union S : f[x] \in Int
      /\ \A x \in R \union N : f[x] \in Int
      /\ \A x \in S : f[x] \in Int
      /\ \A x \in R : f[x] \in Int
      /\ \A x \in N : f[x] \in Int
  BY FS_Subset
<1> HIDE DEF R
<1>2. SumFunctionOnSet(f, R \union N) = SumFunctionOnSet(f, R) + SumFunctionOnSet(f, N)
  BY <1>1, SumUnion
<1>3. SumFunctionOnSet(f, R \union S) = SumFunctionOnSet(f, R) + SumFunctionOnSet(f, S)
  BY <1>1, SumUnion
<1>4. /\ SumFunctionOnSet(f, R) \in Int /\ SumFunctionOnSet(f, S) \in Int
      /\ SumFunctionOnSet(f, N) \in Int
  BY <1>1, SumType
<1>5. SumFunctionOnSet(f, U) = SumFunctionOnSet(f, R) + SumFunctionOnSet(f, S)
  BY <1>1, <1>3
<1> QED
  BY <1>2, <1>4, <1>5 DEF R

-----------------------------------------------------------------------------
(* The builders. *)

(* One value, or none, summed up. *)
LEMMA SumOfOne ==
  ASSUME NEW x, NEW f, f[x] \in Int
  PROVE  SumFunctionOnSet(f, {x}) = f[x]
<1>1. IsFiniteSet({}) /\ x \notin {} /\ {} \union {x} = {x}
  BY FS_EmptySet
<1>2. SumFunctionOnSet(f, {} \union {x}) = SumFunctionOnSet(f, {}) + f[x]
  BY <1>1, SumAdd
<1>3. SumFunctionOnSet(f, {x}) = SumFunctionOnSet(f, {}) + f[x]
  BY <1>1, <1>2
<1> QED
  BY <1>3, SumEmpty

----------------------------------------------------------------------------
(* What outputs pay. *)

Value(outputs) ==
  SumFunctionOnSet([i \in DOMAIN outputs |-> outputs[i].value], DOMAIN outputs)

(***************************************************************************)
(* The value of outputs is an integer.                                     *)
(***************************************************************************)
LEMMA ValueType ==
  ASSUME NEW S, \A o \in S : o.value \in Int, NEW a \in Seq(S)
  PROVE  Value(a) \in Int
<1> DEFINE f == [i \in DOMAIN a |-> a[i].value]
<1>1. IsFiniteSet(DOMAIN a) /\ \A i \in DOMAIN a : f[i] \in Int
  <2>1. DOMAIN a = 1 .. Len(a) /\ Len(a) \in Nat
    OBVIOUS
  <2>2. IsFiniteSet(1 .. Len(a))
    BY <2>1, FS_Interval
  <2> QED
    BY <2>1, <2>2
<1> HIDE DEF f
<1>2. SumFunctionOnSet(f, DOMAIN a) \in Int
  BY <1>1, SumType
<1> QED
  BY <1>2 DEF Value, f

(* Two sequences of outputs pay what each of them pays. *)
LEMMA ValueOfConcat ==
  ASSUME NEW S, \A o \in S : o.value \in Int, NEW a \in Seq(S), NEW b \in Seq(S)
  PROVE  Value(a \o b) = Value(a) + Value(b)
<1> DEFINE ab == a \o b
           n  == Len(a)
           f  == [i \in DOMAIN ab |-> ab[i].value]
           fa == [i \in DOMAIN a |-> a[i].value]
           fb == [i \in DOMAIN b |-> b[i].value]
           A  == DOMAIN a
           B  == {n + i : i \in DOMAIN b}
           h  == [i \in DOMAIN b |-> n + i]
<1>1. /\ ab \in Seq(S) /\ n \in Nat /\ Len(b) \in Nat /\ Len(ab) = n + Len(b)
      /\ DOMAIN a = 1 .. n /\ DOMAIN b = 1 .. Len(b) /\ DOMAIN ab = 1 .. n + Len(b)
  OBVIOUS
<1>2. IsFiniteSet(DOMAIN a) /\ IsFiniteSet(DOMAIN b)
  <2>1. IsFiniteSet(1 .. n) /\ IsFiniteSet(1 .. Len(b))
    BY <1>1, FS_Interval
  <2> QED
    BY <1>1, <2>1
<1>3. DOMAIN ab = A \union B /\ A \intersect B = {}
  <2>1. A \subseteq DOMAIN ab /\ B \subseteq DOMAIN ab /\ A \intersect B = {}
    BY <1>1
  <2>2. ASSUME NEW i \in DOMAIN ab, i \notin A PROVE i \in B
    <3>1. i - n \in DOMAIN b /\ i = n + (i - n)
      BY <1>1, <2>2
    <3> QED
      BY <3>1
  <2> QED
    BY <2>1, <2>2
<1>4. \A i \in DOMAIN a : f[i] = fa[i]
  BY <1>1
<1>5. \A i \in DOMAIN b : fb[i] = f[h[i]] /\ fb[i] \in Int
  BY <1>1
<1>6. \A i, j \in DOMAIN b : h[i] = h[j] => i = j
  BY <1>1
<1>7. B = {h[i] : i \in DOMAIN b}
  OBVIOUS
<1>8. \A i \in A \union B : f[i] \in Int
  <2>1. \A i \in DOMAIN ab : f[i] \in Int
    BY <1>1
  <2> QED
    BY <1>3, <2>1
<1> HIDE DEF f, fa, fb, h, B, ab, n
<1>9. IsFiniteSet(B)
  BY <1>2, <1>7, ImageIsFinite
<1>10. SumFunctionOnSet(f, A \union B) = SumFunctionOnSet(f, A) + SumFunctionOnSet(f, B)
  BY <1>2, <1>3, <1>8, <1>9, SumUnion
<1>11. SumFunctionOnSet(f, A) = SumFunctionOnSet(fa, A)
  BY <1>2, <1>4, SumEqual
<1>12. SumFunctionOnSet(f, B) = SumFunctionOnSet(fb, DOMAIN b)
  <2> DEFINE D == DOMAIN b
  <2>1. /\ IsFiniteSet(D) /\ B = {h[i] : i \in D}
        /\ \A i, j \in D : h[i] = h[j] => i = j
        /\ \A i \in D : fb[i] = f[h[i]] /\ fb[i] \in Int
    BY <1>2, <1>5, <1>6, <1>7
  <2> HIDE DEF D
  <2>2. SumFunctionOnSet(f, B) = SumFunctionOnSet(fb, D)
    BY <2>1, SumOfImage
  <2> QED
    BY <2>2 DEF D
<1>13. Value(ab) = SumFunctionOnSet(f, A \union B)
  BY <1>3 DEF Value, f
<1>14. Value(a) = SumFunctionOnSet(fa, A) /\ Value(b) = SumFunctionOnSet(fb, DOMAIN b)
  BY DEF Value, fa, fb
<1> QED
  BY <1>10, <1>11, <1>12, <1>13, <1>14 DEF ab

(***************************************************************************)
(* No outputs are worth nothing.                                           *)
(***************************************************************************)
LEMMA ValueOfNone ==
  Value(<< >>) = 0
<1>1. DOMAIN << >> = {}
  OBVIOUS
<1> QED
  BY <1>1, SumEmpty DEF Value

(***************************************************************************)
(* One output is worth its value.                                          *)
(***************************************************************************)
LEMMA ValueOfOne ==
  ASSUME NEW o, o.value \in Int
  PROVE  Value(<<o>>) = o.value
<1> DEFINE f == [i \in DOMAIN <<o>> |-> <<o>>[i].value]
<1>1. DOMAIN <<o>> = {1} /\ f[1] = o.value
  OBVIOUS
<1> HIDE DEF f
<1>2. SumFunctionOnSet(f, {1}) = f[1]
  BY <1>1, SumOfOne
<1> QED
  BY <1>1, <1>2 DEF Value, f

(***************************************************************************)
(* Tokens and metadata, which carry no sats, are worth nothing together.   *)
(***************************************************************************)
LEMMA ValueOfZeros ==
  ASSUME NEW S, \A o \in S : o.value = 0, NEW a \in Seq(S)
  PROVE  Value(a) = 0
<1> DEFINE f == [i \in DOMAIN a |-> a[i].value]
<1>1. IsFiniteSet(DOMAIN a) /\ \A i \in DOMAIN a : f[i] = 0
  <2>1. DOMAIN a = 1 .. Len(a) /\ Len(a) \in Nat
    OBVIOUS
  <2>2. IsFiniteSet(1 .. Len(a))
    BY <2>1, FS_Interval
  <2> QED
    BY <2>1, <2>2
<1> HIDE DEF f
<1>2. SumFunctionOnSet(f, DOMAIN a) = 0
  BY <1>1, SumOfZeros
<1> QED
  BY <1>2 DEF Value, f

----------------------------------------------------------------------------
(* Fees. *)

(***************************************************************************)
(* Math.max of two numbers.                                                *)
(***************************************************************************)
LEMMA MaxOfTwo ==
  ASSUME NEW a \in Int, NEW b \in Int
  PROVE  Max({a, b}) \in Int /\ Max({a, b}) >= a /\ Max({a, b}) >= b
<1>1. \E m \in {a, b} : \A y \in {a, b} : m >= y
  OBVIOUS
<1> QED
  BY <1>1 DEF Max

(***************************************************************************)
(* estimateVsize returns a whole number.                                   *)
(***************************************************************************)
LEMMA EstimateType ==
  ASSUME NEW inputs \in Int, NEW outputs \in Int, NEW opReturns \in Int
  PROVE  EstimateVsize(inputs, outputs, opReturns) \in Int
BY DEF EstimateVsize, WithSafetyMargin, CeilDiv

(***************************************************************************)
(* The fee of every builder, the larger of a minimum and a rate times a    *)
(* size, is a whole number and at least that minimum.                      *)
(***************************************************************************)
LEMMA FeeType ==
  ASSUME NEW minimum \in Int, NEW vsize \in Int, NEW rate \in Int
  PROVE  /\ Max({minimum, CalculateFee(vsize, rate)}) \in Int
         /\ Max({minimum, CalculateFee(vsize, rate)}) >= minimum
<1>1. CalculateFee(vsize, rate) \in Int
  BY DEF CalculateFee
<1> HIDE DEF CalculateFee
<1> QED
  BY <1>1, MaxOfTwo

(***************************************************************************)
(* The only facts the proofs use of the fee constants.  The provers are    *)
(* never shown the numbers, which some of them count in unary.             *)
(***************************************************************************)
LEMMA FeeConstants ==
  /\ MIN_DD_FEE \in Nat /\ MIN_REDEEM_FEE \in Nat /\ DUST_THRESHOLD \in Nat
  /\ MIN_DD_FEE > 0 /\ MIN_REDEEM_FEE > 0 /\ DUST_THRESHOLD > 0
BY SMT DEF MIN_DD_FEE, MIN_REDEEM_FEE, DUST_THRESHOLD

(* Change, or the dust that is left to the miner. *)
LEMMA ChangeIsPaid ==
  ASSUME NEW fee \in Int, NEW change \in Int, NEW script
  PROVE  /\ ChangeOutputs(change, script) \in Seq({Paying(change, script)})
         /\ Value(ChangeOutputs(change, script)) \in Nat
         /\ Value(ChangeOutputs(change, script)) + FeePaid(fee, change) = fee + change
<1>1. Paying(change, script).value = change
  BY DEF Paying
<1>2. CASE change >= DUST_THRESHOLD
  <2>1. Value(<<Paying(change, script)>>) = change
    BY <1>1, ValueOfOne
  <2> QED
    BY <1>2, <2>1, FeeConstants DEF ChangeOutputs, FeePaid
<1>3. CASE ~(change >= DUST_THRESHOLD)
  BY <1>3, ValueOfNone DEF ChangeOutputs, FeePaid
<1> QED
  BY <1>2, <1>3

----------------------------------------------------------------------------
(* What a builder takes in is what it pays and reports as fee. *)

(***************************************************************************)
(* Coins are worth a whole number of sats.                                 *)
(***************************************************************************)
LEMMA ValueOfType ==
  ASSUME NEW coins, IsFiniteSet(coins), \A u \in coins : u.value \in Int
  PROVE  ValueOf(coins) \in Int
<1> DEFINE f == [u \in coins |-> u.value]
<1>1. \A u \in coins : f[u] \in Int
  OBVIOUS
<1>2. DOMAIN f = coins
  OBVIOUS
<1> HIDE DEF f
<1>3. SumFunctionOnSet(f, coins) \in Int
  BY <1>1, SumType
<1> QED
  BY <1>2, <1>3 DEF ValueOf, SumFunction, f

(***************************************************************************)
(* A mint's fee is a whole number and at least the minimum of a DigiDollar *)
(* transaction.                                                            *)
(***************************************************************************)
LEMMA MintFeeType ==
  ASSUME NEW coins, IsFiniteSet(coins), NEW rate \in Int
  PROVE  MintFee(coins, rate) \in Int /\ MintFee(coins, rate) >= MIN_DD_FEE
<1> DEFINE vsize == EstimateVsize(Cardinality(coins), 4, 1)
<1>1. Cardinality(coins) \in Nat
  BY FS_CardinalityType
<1>2. vsize \in Int
  BY <1>1, EstimateType
<1>3. MintFee(coins, rate) = Max({MIN_DD_FEE, CalculateFee(vsize, rate)})
  BY DEF MintFee
<1> HIDE DEF vsize
<1>4. MIN_DD_FEE \in Int
  BY FeeConstants
<1> QED
  BY <1>2, <1>3, <1>4, FeeType

(***************************************************************************)
(* MintBuilder: the coins are worth the outputs and the reported fee, with *)
(* change or without, even if the change it leaves out is negative.        *)
(***************************************************************************)
LEMMA MintPays ==
  ASSUME NEW r, r.feeRate \in Int,
         NEW coins, IsFiniteSet(coins), \A u \in coins : u.value \in Int,
         NEW collateral \in Int, NEW lock, NEW owner, NEW script
  PROVE  LET b == MintTx(r, coins, collateral, lock, owner, script)
         IN  /\ Value(b.tx.outputs) \in Int /\ b.fee \in Int
             /\ Value(b.tx.outputs) >= collateral
             /\ ValueOf(coins) = Value(b.tx.outputs) + b.fee
             /\ ValueOf(coins) >= collateral + MIN_DD_FEE => b.fee >= MIN_DD_FEE
<1> DEFINE b      == MintTx(r, coins, collateral, lock, owner, script)
           fee    == MintFee(coins, r.feeRate)
           change == ValueOf(coins) - collateral - fee
           data   == [txType |-> "mint", amounts |-> <<r.ddAmountCents>>,
                      lockHeight |-> lock, lockTier |-> r.lockTier]
           locked == Paying(collateral, CollateralMAST(owner, lock))
           token  == Paying(0, TokenP2TR(owner))
           meta   == Metadata(data)
           last   == ChangeOutputs(change, script)
           S      == {locked, token, meta, Paying(change, script)}
<1>1. /\ b.tx.outputs = <<locked, token, meta>> \o last
      /\ b.fee = FeePaid(fee, change)
  BY DEF MintTx
<1>2. fee \in Int /\ fee >= MIN_DD_FEE
  <2> DEFINE rate == r.feeRate
  <2>1. rate \in Int
    OBVIOUS
  <2> HIDE DEF rate
  <2>2. MintFee(coins, rate) \in Int /\ MintFee(coins, rate) >= MIN_DD_FEE
    BY <2>1, MintFeeType
  <2> QED
    BY <2>2 DEF rate
<1>3. ValueOf(coins) \in Int
  BY ValueOfType
<1>4. change \in Int
  BY <1>2, <1>3
<1> HIDE DEF fee, b
<1>5. /\ last \in Seq({Paying(change, script)}) /\ Value(last) \in Nat
      /\ Value(last) + FeePaid(fee, change) = fee + change
  <2> HIDE DEF change
  <2> QED
    BY <1>2, <1>4, ChangeIsPaid
<1>6. /\ locked.value = collateral /\ token.value = 0 /\ meta.value = 0
      /\ Paying(change, script).value = change
  BY DEF Paying, Metadata
<1>7. /\ FeePaid(fee, change) \in Int
      /\ FeePaid(fee, change) = fee \/ FeePaid(fee, change) = ValueOf(coins) - collateral
  BY <1>2, <1>3, <1>4 DEF FeePaid
<1> HIDE DEF last, locked, token, meta, change
<1>8. \A o \in S : o.value \in Int
  BY <1>4, <1>6
<1>9. <<locked>> \in Seq(S) /\ <<token, meta>> \in Seq(S) /\ last \in Seq(S)
  <2>1. locked \in S /\ token \in S /\ meta \in S
    OBVIOUS
  <2>2. {Paying(change, script)} \subseteq S
    OBVIOUS
  <2> HIDE DEF S
  <2> QED
    BY <1>5, <2>1, <2>2
<1>10. <<locked, token, meta>> \o last = <<locked>> \o (<<token, meta>> \o last)
  <2> HIDE DEF S
  <2> QED
    BY <1>9
<1>11. <<token, meta>> \in Seq({token, meta})
  OBVIOUS
<1> HIDE DEF S
<1>12. Value(<<token, meta>>) = 0
  BY <1>6, <1>11, ValueOfZeros
<1>13. <<token, meta>> \o last \in Seq(S)
  BY <1>9
<1>14. Value(<<locked>>) = collateral
  BY <1>6, ValueOfOne
<1>15. Value(<<token, meta>> \o last) = Value(<<token, meta>>) + Value(last)
  BY <1>8, <1>9, ValueOfConcat
<1>16. Value(<<locked>> \o (<<token, meta>> \o last))
         = Value(<<locked>>) + Value(<<token, meta>> \o last)
  BY <1>8, <1>9, <1>13, ValueOfConcat
<1>17. Value(b.tx.outputs) = collateral + Value(last)
  <2>1. b.tx.outputs = <<locked>> \o (<<token, meta>> \o last)
    BY <1>1, <1>10
  <2>2. Value(b.tx.outputs) = Value(<<locked>>) + (Value(<<token, meta>>) + Value(last))
    BY <2>1, <1>15, <1>16
  <2> QED
    BY <2>2, <1>5, <1>12, <1>14
<1>18. ValueOf(coins) = collateral + fee + change
  BY <1>2, <1>3 DEF change
<1>19. FeePaid(fee, change) >= MIN_DD_FEE \/ ValueOf(coins) < collateral + MIN_DD_FEE
  BY <1>2, <1>3, <1>7, FeeConstants
<1>20. /\ Value(b.tx.outputs) \in Int /\ Value(b.tx.outputs) >= collateral
       /\ ValueOf(coins) = Value(b.tx.outputs) + FeePaid(fee, change)
  BY <1>2, <1>4, <1>5, <1>7, <1>17, <1>18
<1>21. b.fee = FeePaid(fee, change) /\ FeePaid(fee, change) \in Int
  BY <1>1, <1>7
<1>22. ValueOf(coins) >= collateral + MIN_DD_FEE => FeePaid(fee, change) >= MIN_DD_FEE
  BY <1>3, <1>19, FeeConstants
<1> HIDE DEF fee
<1> QED
  BY <1>20, <1>21, <1>22 DEF b

(***************************************************************************)
(* TransferBuilder: the fee coins pay for the change and the reported fee. *)
(***************************************************************************)
LEMMA TransferPays ==
  ASSUME NEW r, r.feeRate \in Int, NEW k \in Nat, DOMAIN r.recipients = 1 .. k,
         NEW tokens, IsFiniteSet(tokens),
         NEW coins, IsFiniteSet(coins), \A u \in coins : u.value \in Int,
         NEW owner, NEW script
  PROVE  LET b == TransferTx(r, tokens, coins, owner, script)
         IN  /\ Value(b.tx.outputs) \in Nat /\ b.fee \in Int
             /\ ValueOf(coins) = Value(b.tx.outputs) + b.fee
             /\ b.change >= 0 => b.fee >= MIN_DD_FEE
<1> DEFINE b        == TransferTx(r, tokens, coins, owner, script)
           ddChange == CentsOf(tokens) - RecipientCents(r.recipients)
           back     == IF ddChange > 0 THEN <<ddChange>> ELSE << >>
           cents    == TokenAmounts(r.recipients, back)
           toOther(i) == Paying(0, TokenP2TR(DecodeAddress(r.recipients[i].to)))
           toOthers == [i \in DOMAIN r.recipients |-> toOther(i)]
           toSelf   == [i \in DOMAIN back |-> Paying(0, TokenP2TR(owner))]
           n        == Cardinality(tokens) + Cardinality(coins)
           vsize    == EstimateVsize(n, Len(cents) + 2, 1)
           fee      == Max({MIN_DD_FEE, CalculateFee(vsize, r.feeRate)})
           change   == ValueOf(coins) - fee
           last     == ChangeOutputs(change, script)
           meta     == Metadata([txType |-> "transfer", amounts |-> cents])
           Z        == {toOther(i) : i \in 1 .. k} \union {Paying(0, TokenP2TR(owner))}
           S        == Z \union {Paying(change, script)} \union {meta}
<1>1. /\ b.tx.outputs = toOthers \o toSelf \o last \o <<meta>>
      /\ b.fee = FeePaid(fee, change) /\ b.change = change
  BY DEF TransferTx
<1>2. fee \in Int /\ fee >= MIN_DD_FEE
  <2>1. n \in Nat
    BY FS_CardinalityType
  <2>2. Len(cents) \in Nat
    <3> DEFINE own == [i \in DOMAIN r.recipients |-> r.recipients[i].cents]
               C   == {r.recipients[i].cents : i \in 1 .. k} \union {ddChange}
    <3>1. cents = own \o back
      BY DEF TokenAmounts
    <3>2. own \in Seq(C)
      <4>1. \A i \in 1 .. k : r.recipients[i].cents \in C
        OBVIOUS
      <4> HIDE DEF C
      <4> QED
        BY <4>1
    <3>3. back \in Seq(C)
      <4>1. ddChange \in C
        OBVIOUS
      <4> HIDE DEF C, ddChange
      <4> QED
        BY <4>1
    <3> HIDE DEF own, back, C, cents
    <3> QED
      BY <3>1, <3>2, <3>3
  <2> HIDE DEF n, cents
  <2> DEFINE rate == r.feeRate
  <2>3. vsize \in Int /\ rate \in Int /\ fee = Max({MIN_DD_FEE, CalculateFee(vsize, rate)})
    BY <2>1, <2>2, EstimateType
  <2> HIDE DEF vsize, rate, fee
  <2> QED
    BY <2>3, FeeType, FeeConstants
<1>3. ValueOf(coins) \in Int
  BY ValueOfType
<1> HIDE DEF fee, b
<1>4. change \in Int
  BY <1>2, <1>3
<1>5. /\ last \in Seq({Paying(change, script)}) /\ Value(last) \in Nat
      /\ Value(last) + FeePaid(fee, change) = fee + change
  <2> HIDE DEF change
  <2> QED
    BY <1>2, <1>4, ChangeIsPaid
<1>6. /\ \A o \in Z : o.value = 0
      /\ meta.value = 0 /\ Paying(change, script).value = change
  BY DEF Paying, Metadata
<1>7. FeePaid(fee, change) \in Int /\ (change >= 0 => FeePaid(fee, change) >= fee)
  BY <1>2, <1>4 DEF FeePaid
<1>8. toOthers \in Seq(Z)
  <2>1. \A i \in 1 .. k : toOther(i) \in Z
    OBVIOUS
  <2> HIDE DEF Z, toOther
  <2> QED
    BY <2>1
<1>9. toSelf \in Seq(Z)
  <2>1. DOMAIN back = 1 .. 1 \/ DOMAIN back = 1 .. 0
    OBVIOUS
  <2>2. Paying(0, TokenP2TR(owner)) \in Z
    OBVIOUS
  <2> HIDE DEF Z, back
  <2> QED
    BY <2>1, <2>2
<1> HIDE DEF last, toOthers, toSelf, meta, change, Z
<1>10. toOthers \o toSelf \in Seq(Z)
  BY <1>8, <1>9
<1>11. Value(toOthers \o toSelf) = 0
  BY <1>6, <1>10, ValueOfZeros
<1>12. \A o \in S : o.value \in Int
  BY <1>4, <1>6
<1>13. /\ Z \subseteq S /\ {Paying(change, script)} \subseteq S /\ meta \in S
  OBVIOUS
<1> HIDE DEF S
<1>14. toOthers \o toSelf \in Seq(S) /\ last \in Seq(S) /\ <<meta>> \in Seq(S)
  BY <1>5, <1>10, <1>13
<1>15. (toOthers \o toSelf) \o last \in Seq(S)
  BY <1>14
<1>16. Value((toOthers \o toSelf) \o last) = Value(toOthers \o toSelf) + Value(last)
  BY <1>12, <1>14, ValueOfConcat
<1>17. Value(((toOthers \o toSelf) \o last) \o <<meta>>)
         = Value((toOthers \o toSelf) \o last) + Value(<<meta>>)
  BY <1>12, <1>14, <1>15, ValueOfConcat
<1>18. Value(<<meta>>) = 0
  BY <1>6, ValueOfOne
<1>19. Value(b.tx.outputs) = Value(last)
  BY <1>1, <1>5, <1>11, <1>16, <1>17, <1>18
<1>20. ValueOf(coins) = fee + change
  BY <1>2, <1>3 DEF change
<1> QED
  BY <1>1, <1>2, <1>4, <1>5, <1>7, <1>19, <1>20, FeeConstants DEF b

(***************************************************************************)
(* RedeemBuilder: the collateral and the fee coins are worth the outputs   *)
(* and the reported fee.                                                   *)
(***************************************************************************)
LEMMA RedeemPays ==
  ASSUME NEW cents, NEW unlock, NEW collateral, collateral.value \in Nat,
         NEW tokens, IsFiniteSet(tokens),
         NEW coins, IsFiniteSet(coins), \A u \in coins : u.value \in Int,
         NEW rate \in Int, NEW owner, NEW script
  PROVE  LET b == RedeemTx(cents, unlock, collateral, tokens, coins, rate, owner, script)
         IN  /\ Value(b.tx.outputs) \in Nat /\ b.fee \in Int
             /\ collateral.value + ValueOf(coins) = Value(b.tx.outputs) + b.fee
             /\ b.change >= 0 => b.fee >= MIN_REDEEM_FEE
<1> DEFINE b        == RedeemTx(cents, unlock, collateral, tokens, coins, rate, owner, script)
           ddChange == CentsOf(tokens) - cents
           back     == DDChangeOutputs(ddChange, owner)
           n        == 1 + Cardinality(tokens) + Cardinality(coins)
           more     == IF ddChange > 0 THEN 1 ELSE 0
           k        == Len(back) + 2
           vsize    == EstimateVsize(n, k, more)
           fee      == Max({MIN_REDEEM_FEE, CalculateFee(vsize, rate)})
           change   == ValueOf(coins) - fee
           first    == Paying(collateral.value, script)
           token    == Paying(0, TokenP2TR(owner))
           meta     == Metadata([txType |-> "redeem", amounts |-> <<ddChange>>])
           last     == ChangeOutputs(change, script)
           S        == {first, token, meta, Paying(change, script)}
<1>1. /\ b.tx.outputs = <<first>> \o back \o last
      /\ b.fee = FeePaid(fee, change) /\ b.change = change
  BY DEF RedeemTx
<1>2. back = <<token, meta>> \/ back = << >>
  BY DEF DDChangeOutputs
<1>3. fee \in Int /\ fee >= MIN_REDEEM_FEE
  <2>1. n \in Nat
    BY FS_CardinalityType
  <2>2. k \in Int
    <3> HIDE DEF token, meta, back
    <3> QED
      BY <1>2
  <2>3. more \in Int
    OBVIOUS
  <2> HIDE DEF n, k, more
  <2>4. vsize \in Int
    BY <2>1, <2>2, <2>3, EstimateType
  <2> HIDE DEF vsize
  <2> QED
    BY <2>4, FeeType, FeeConstants
<1>4. ValueOf(coins) \in Int
  BY ValueOfType
<1> HIDE DEF fee, b
<1>5. change \in Int
  BY <1>3, <1>4
<1>6. /\ last \in Seq({Paying(change, script)}) /\ Value(last) \in Nat
      /\ Value(last) + FeePaid(fee, change) = fee + change
  <2> HIDE DEF change
  <2> QED
    BY <1>3, <1>5, ChangeIsPaid
<1>7. /\ first.value = collateral.value /\ token.value = 0 /\ meta.value = 0
      /\ Paying(change, script).value = change
  BY DEF Paying, Metadata
<1>8. FeePaid(fee, change) \in Int /\ (change >= 0 => FeePaid(fee, change) >= fee)
  BY <1>3, <1>5 DEF FeePaid
<1> HIDE DEF last, first, token, meta, change, back
<1>9. \A o \in S : o.value \in Int
  BY <1>5, <1>7
<1>10. first \in S /\ token \in S /\ meta \in S /\ {Paying(change, script)} \subseteq S
  OBVIOUS
<1> HIDE DEF S
<1>11. <<first>> \in Seq(S) /\ back \in Seq(S) /\ last \in Seq(S)
  <2>1. CASE back = <<token, meta>>
    BY <1>6, <1>10, <2>1
  <2>2. CASE back = << >>
    BY <1>6, <1>10, <2>2
  <2> QED
    BY <1>2, <2>1, <2>2
<1>12. <<first>> \o back \in Seq(S)
  BY <1>11
<1>13. Value(back) = 0
  <2>1. back \in Seq({token, meta})
    <3>1. CASE back = <<token, meta>>
      BY <3>1
    <3>2. CASE back = << >>
      BY <3>2
    <3> QED
      BY <1>2, <3>1, <3>2
  <2> QED
    BY <1>7, <2>1, ValueOfZeros
<1>14. Value(<<first>>) = collateral.value
  BY <1>7, ValueOfOne
<1>15. Value(<<first>> \o back) = Value(<<first>>) + Value(back)
  BY <1>9, <1>11, ValueOfConcat
<1>16. Value((<<first>> \o back) \o last) = Value(<<first>> \o back) + Value(last)
  BY <1>9, <1>11, <1>12, ValueOfConcat
<1>17. Value(b.tx.outputs) = collateral.value + Value(last)
  BY <1>1, <1>6, <1>13, <1>14, <1>15, <1>16
<1>18. ValueOf(coins) = fee + change
  BY <1>3, <1>4 DEF change
<1> QED
  BY <1>1, <1>3, <1>5, <1>6, <1>8, <1>17, <1>18, FeeConstants DEF b

----------------------------------------------------------------------------
(* What the parser reads off the tokens of a built transaction. *)

Tokens(tx) == SumFunctionOnSet([v \in Vouts(tx) |-> DDAmountCents(tx, v)], Vouts(tx))

(***************************************************************************)
(* classifyTransaction: an output that is not a token has no DigiDollars.  *)
(***************************************************************************)
LEMMA NotToken ==
  ASSUME NEW tx, NEW v, ~IsToken(Output(tx, v))
  PROVE  DDAmountCents(tx, v) = 0
<1>1. Classify(tx, v) # "dd_token"
  BY Zenon DEF Classify
<1> QED
  BY <1>1, Zenon DEF DDAmountCents

(***************************************************************************)
(* A zero-value P2TR output of a DigiDollar transaction is a token.        *)
(***************************************************************************)
LEMMA TokenIsClassified ==
  ASSUME NEW tx, NEW v, IsDigiDollarTx(tx), IsToken(Output(tx, v))
  PROVE  Classify(tx, v) = "dd_token"
<1>1. Output(tx, v).script.type = "p2tr" /\ Output(tx, v).value = 0
  BY DEF IsToken, IsP2TR
<1>2. Output(tx, v).script.type # "op_return" /\ ~(Output(tx, v).value > 0)
  BY <1>1
<1> QED
  BY <1>2, Zenon DEF Classify

(***************************************************************************)
(* The metadata is that of the first output that parses.                   *)
(***************************************************************************)
LEMMA MetadataIs ==
  ASSUME NEW tx, Len(tx.outputs) \in Nat, NEW m \in Vouts(tx), Parses(Output(tx, m)),
         \A w \in 0 .. m - 1 : ~Parses(Output(tx, w))
  PROVE  MetadataVout(tx) = {m} /\ OpReturnData(tx) = Output(tx, m).script.data
<1>1. MetadataVout(tx) = {m}
  <2>1. Vouts(tx) \subseteq Int /\ m \in Int
    BY DEF Vouts
  <2>2. m \in MetadataVout(tx)
    BY DEF MetadataVout
  <2>3. ASSUME NEW v \in MetadataVout(tx) PROVE v = m
    <3>1. v \in Vouts(tx) /\ Parses(Output(tx, v)) /\ \A w \in 0 .. v - 1 : ~Parses(Output(tx, w))
      BY DEF MetadataVout
    <3>2. v \in Int /\ v >= 0 /\ m >= 0
      BY <3>1 DEF Vouts
    <3>3. ~(v < m) /\ ~(m < v)
      BY <2>1, <3>1, <3>2
    <3> QED
      BY <2>1, <3>2, <3>3
  <2> QED
    BY <2>2, <2>3
<1> QED
  BY <1>1 DEF OpReturnData

(***************************************************************************)
(* A token has the amount at its index among the tokens; outside of a      *)
(* transfer only the first token has one.                                  *)
(***************************************************************************)
LEMMA TokenAmount ==
  ASSUME NEW tx, NEW v, IsDigiDollarTx(tx), IsToken(Output(tx, v)),
         MetadataVout(tx) # {},
         OpReturnData(tx).txType = "transfer" \/ TokenIndex(tx, v) = 0,
         TokenIndex(tx, v) < Len(OpReturnData(tx).amounts)
  PROVE  DDAmountCents(tx, v) = OpReturnData(tx).amounts[TokenIndex(tx, v) + 1]
<1>1. Classify(tx, v) = "dd_token"
  BY TokenIsClassified
<1>2. DDAmountCents(tx, v) =
        IF /\ OpReturnData(tx).txType = "transfer" \/ TokenIndex(tx, v) = 0
           /\ TokenIndex(tx, v) < Len(OpReturnData(tx).amounts)
        THEN OpReturnData(tx).amounts[TokenIndex(tx, v) + 1]
        ELSE 0
  BY <1>1, Zenon DEF DDAmountCents
<1> QED
  BY <1>2

(***************************************************************************)
(* The first token has the first amount.                                   *)
(***************************************************************************)
LEMMA FirstTokenAmount ==
  ASSUME NEW tx, NEW v, IsDigiDollarTx(tx), IsToken(Output(tx, v)),
         MetadataVout(tx) # {}, TokenIndex(tx, v) = 0, 0 < Len(OpReturnData(tx).amounts)
  PROVE  DDAmountCents(tx, v) = OpReturnData(tx).amounts[1]
<1>1. Classify(tx, v) = "dd_token" /\ 0 + 1 = 1
  BY TokenIsClassified
<1>2. DDAmountCents(tx, v) =
        IF /\ OpReturnData(tx).txType = "transfer" \/ TokenIndex(tx, v) = 0
           /\ TokenIndex(tx, v) < Len(OpReturnData(tx).amounts)
        THEN OpReturnData(tx).amounts[TokenIndex(tx, v) + 1]
        ELSE 0
  BY <1>1, Zenon DEF DDAmountCents
<1> QED
  BY <1>1, <1>2

(***************************************************************************)
(* The index of the first token is zero.                                   *)
(***************************************************************************)
LEMMA NoTokenBefore ==
  ASSUME NEW tx, NEW v, \A w \in Vouts(tx) : w < v => ~IsToken(Output(tx, w))
  PROVE  TokenIndex(tx, v) = 0
<1>1. {w \in Vouts(tx) : w < v /\ IsToken(Output(tx, w))} = {}
  OBVIOUS
<1> QED
  BY <1>1, FS_EmptySet DEF TokenIndex

(***************************************************************************)
(* If only tokens come before it, the index of an output is its position.  *)
(***************************************************************************)
LEMMA OnlyTokensBefore ==
  ASSUME NEW tx, Len(tx.outputs) \in Nat, NEW v \in Vouts(tx),
         \A w \in 0 .. v - 1 : IsToken(Output(tx, w))
  PROVE  TokenIndex(tx, v) = v
<1>1. v \in Int /\ v >= 0 /\ v < Len(tx.outputs)
  BY DEF Vouts
<1>2. {w \in Vouts(tx) : w < v /\ IsToken(Output(tx, w))} = 0 .. v - 1
  BY <1>1 DEF Vouts
<1>3. Cardinality(0 .. v - 1) = v
  <2>1. v - 1 \in Int
    BY <1>1
  <2>2. Cardinality(0 .. v - 1) = IF 0 > v - 1 THEN 0 ELSE (v - 1) - 0 + 1
    BY <2>1, FS_Interval, SMTT(60)
  <2> QED
    BY <1>1, <2>2
<1> QED
  BY <1>2, <1>3 DEF TokenIndex

(* Three outputs and, perhaps, change. *)
LEMMA ThreeAndChange ==
  ASSUME NEW a, NEW b, NEW c, NEW d, NEW outputs, NEW last,
         last = << >> \/ last = <<d>>, outputs = <<a, b, c>> \o last
  PROVE  /\ Len(outputs) \in Nat /\ DOMAIN outputs = 1 .. Len(outputs)
         /\ \/ Len(outputs) = 3
            \/ Len(outputs) = 4 /\ outputs[4] = d /\ last = <<d>>
         /\ outputs[1] = a /\ outputs[2] = b /\ outputs[3] = c
<1>1. CASE last = << >>
  BY <1>1
<1>2. CASE last = <<d>>
  BY <1>2
<1> QED
  BY <1>1, <1>2

(***************************************************************************)
(* If output 1 is the only one with DigiDollars, a transaction has as      *)
(* many.                                                                   *)
(***************************************************************************)
LEMMA OneToken ==
  ASSUME NEW tx, Len(tx.outputs) \in Nat, Len(tx.outputs) >= 3,
         \A v \in Vouts(tx) : v # 1 => DDAmountCents(tx, v) = 0,
         DDAmountCents(tx, 1) \in Int
  PROVE  Tokens(tx) = DDAmountCents(tx, 1)
<1> DEFINE f == [v \in Vouts(tx) |-> DDAmountCents(tx, v)]
           D == Vouts(tx)
<1>1. /\ IsFiniteSet(D) /\ {1} \subseteq D
  <2>1. D = 0 .. Len(tx.outputs) - 1 /\ Len(tx.outputs) - 1 \in Int
    BY DEF Vouts
  <2> QED
    BY <2>1, FS_Interval, SMTT(60)
<1>2. \A v \in D : f[v] = DDAmountCents(tx, v)
  OBVIOUS
<1> HIDE DEF f
<1>3. f[1] = DDAmountCents(tx, 1) /\ f[1] \in Int
  BY <1>1, <1>2
<1>4. \A v \in {1} : f[v] \in Int
  BY <1>3
<1>5. \A v \in D \ {1} : f[v] = 0
  BY <1>2
<1> HIDE DEF D
<1>6. SumFunctionOnSet(f, D) = SumFunctionOnSet(f, {1})
  BY <1>1, <1>4, <1>5, SumOfSupport
<1>7. SumFunctionOnSet(f, {1}) = f[1]
  BY <1>3, SumOfOne
<1> QED
  BY <1>3, <1>6, <1>7 DEF Tokens, f, D

(***************************************************************************)
(* What a mint records: the collateral locked in output 0, its token in    *)
(* output 1 and the metadata that tells both.                              *)
(***************************************************************************)
MintRecorded(tx, r, collateral, lock, owner) ==
  /\ tx.version = "mint"
  /\ Len(tx.outputs) \in Nat /\ DOMAIN tx.outputs = 1 .. Len(tx.outputs)
  /\ \A v \in Vouts(tx) : Output(tx, v).value \in Nat
  /\ Output(tx, 0) = Paying(collateral, CollateralMAST(owner, lock))
  /\ OpReturnData(tx) = [txType |-> "mint", amounts |-> <<r.ddAmountCents>>,
                         lockHeight |-> lock, lockTier |-> r.lockTier]
  /\ \A v \in Vouts(tx) : v # 1 => DDAmountCents(tx, v) = 0
  /\ 1 \in Vouts(tx) /\ DDAmountCents(tx, 1) = r.ddAmountCents
  /\ Tokens(tx) = r.ddAmountCents

(***************************************************************************)
(* What classifyTransaction reads off a mint transaction is what was put   *)
(* into it: the amount in its only token, the lock height in its metadata. *)
(***************************************************************************)
LEMMA MintRecords ==
  ASSUME NEW r, r.ddAmountCents \in Int, r.feeRate \in Int,
         NEW coins, IsFiniteSet(coins), \A u \in coins : u.value \in Int,
         NEW collateral \in Int, collateral > 0, NEW lock, NEW owner, NEW script
  PROVE  MintRecorded(MintTx(r, coins, collateral, lock, owner, script).tx,
                      r, collateral, lock, owner)
<1> DEFINE tx     == MintTx(r, coins, collateral, lock, owner, script).tx
           change == ValueOf(coins) - collateral - MintFee(coins, r.feeRate)
           data   == [txType |-> "mint", amounts |-> <<r.ddAmountCents>>,
                      lockHeight |-> lock, lockTier |-> r.lockTier]
           locked == Paying(collateral, CollateralMAST(owner, lock))
           token  == Paying(0, TokenP2TR(owner))
           meta   == Metadata(data)
           last   == ChangeOutputs(change, script)
           paid   == Paying(change, script)
<1>1. tx.version = "mint" /\ tx.outputs = <<locked, token, meta>> \o last
  BY DEF MintTx
<1>2. last = << >> \/ last = <<paid>>
  BY DEF ChangeOutputs
<1>3. change \in Int /\ (last = <<paid>> => change > 0)
  <2> DEFINE rate == r.feeRate
  <2>1. rate \in Int
    OBVIOUS
  <2>2. MintFee(coins, rate) \in Int /\ ValueOf(coins) \in Int
    BY <2>1, MintFeeType, ValueOfType
  <2>6. change \in Int
    BY <2>2
  <2> HIDE DEF change
  <2>7. ~(change >= DUST_THRESHOLD) => last = << >>
    BY DEF ChangeOutputs
  <2>8. <<paid>> # << >>
    OBVIOUS
  <2>9. last = <<paid>> => change >= DUST_THRESHOLD
    BY <2>7, <2>8
  <2> QED
    BY <2>6, <2>9, FeeConstants
<1> HIDE DEF tx, last, change
<1>4. /\ locked.value = collateral /\ locked.script.type = "p2tr"
      /\ token.value = 0 /\ token.script.type = "p2tr"
      /\ meta.value = 0 /\ meta.script.type = "op_return" /\ meta.script.data = data
      /\ paid.value = change
  BY DEF Paying, CollateralMAST, TokenP2TR, P2TR, Metadata, OpReturn
<1>5. data.amounts = <<r.ddAmountCents>> /\ data.txType = "mint"
  OBVIOUS
<1>6. ~IsToken(locked) /\ IsToken(token) /\ ~IsToken(meta) /\ (change > 0 => ~IsToken(paid))
  BY <1>3, <1>4 DEF IsToken, IsP2TR
<1>7. ~Parses(locked) /\ ~Parses(token) /\ Parses(meta)
  <2>1. data.amounts # << >>
    BY <1>5
  <2> HIDE DEF data, locked, token, meta
  <2> QED
    BY <1>4, <2>1 DEF Parses
<1> HIDE DEF locked, token, meta, paid, data
<1>8. /\ Len(tx.outputs) \in Nat /\ DOMAIN tx.outputs = 1 .. Len(tx.outputs)
      /\ \/ Len(tx.outputs) = 3
         \/ Len(tx.outputs) = 4 /\ tx.outputs[4] = paid /\ last = <<paid>>
      /\ tx.outputs[1] = locked /\ tx.outputs[2] = token /\ tx.outputs[3] = meta
  <2> DEFINE outputs == tx.outputs
  <2>1. outputs = <<locked, token, meta>> \o last
    BY <1>1
  <2> HIDE DEF outputs
  <2> QED
    BY <1>2, <2>1, ThreeAndChange DEF outputs
<1>9. /\ Output(tx, 0) = locked /\ Output(tx, 1) = token /\ Output(tx, 2) = meta
      /\ \A v \in Vouts(tx) :
           v \in {0, 1, 2} \/ (v = 3 /\ Output(tx, v) = paid /\ change > 0)
      /\ {0, 1, 2} \subseteq Vouts(tx)
  <2>1. /\ Output(tx, 0) = tx.outputs[1] /\ Output(tx, 1) = tx.outputs[2]
        /\ Output(tx, 2) = tx.outputs[3] /\ Output(tx, 3) = tx.outputs[4]
    BY DEF Output
  <2>2. CASE Len(tx.outputs) = 3
    <3>1. Vouts(tx) = {0, 1, 2}
      BY <2>2 DEF Vouts
    <3> QED
      BY <1>8, <2>1, <3>1
  <2>3. CASE Len(tx.outputs) = 4 /\ tx.outputs[4] = paid /\ last = <<paid>>
    <3>1. Vouts(tx) = {0, 1, 2, 3}
      BY <2>3 DEF Vouts
    <3> QED
      BY <1>3, <1>8, <2>1, <2>3, <3>1
  <2> QED
    BY <1>8, <2>2, <2>3
<1>10. \A v \in Vouts(tx) : Output(tx, v).value \in Nat
  BY <1>3, <1>4, <1>9
<1>11. MetadataVout(tx) = {2} /\ OpReturnData(tx) = data
  <2>1. \A w \in 0 .. 2 - 1 : ~Parses(Output(tx, w))
    BY <1>7, <1>9
  <2>2. 2 \in Vouts(tx) /\ Parses(Output(tx, 2))
    BY <1>7, <1>9
  <2> QED
    BY <1>4, <1>8, <1>9, <2>1, <2>2, MetadataIs
<1>12. \A v \in Vouts(tx) : v # 1 => DDAmountCents(tx, v) = 0
  BY <1>6, <1>9, NotToken
<1>13. DDAmountCents(tx, 1) = r.ddAmountCents
  <2>1. TokenIndex(tx, 1) = 0
    <3>1. \A w \in Vouts(tx) : w < 1 => ~IsToken(Output(tx, w))
      BY <1>6, <1>9
    <3> QED
      BY <3>1, NoTokenBefore
  <2>2. IsToken(Output(tx, 1)) /\ IsDigiDollarTx(tx)
    BY <1>1, <1>6, <1>9 DEF IsDigiDollarTx
  <2>3. /\ 0 < Len(OpReturnData(tx).amounts) /\ MetadataVout(tx) # {}
        /\ OpReturnData(tx).amounts[1] = r.ddAmountCents
    BY <1>5, <1>11
  <2>4. DDAmountCents(tx, 1) = OpReturnData(tx).amounts[1]
    BY <2>1, <2>2, <2>3, FirstTokenAmount
  <2> QED
    BY <2>3, <2>4
<1>14. Tokens(tx) = r.ddAmountCents
  <2>1. Len(tx.outputs) >= 3
    BY <1>8
  <2> QED
    BY <1>8, <1>12, <1>13, <2>1, OneToken
<1> QED
  BY <1>1, <1>8, <1>9, <1>10, <1>11, <1>12, <1>13, <1>14 DEF MintRecorded, tx, data, locked

(* The outputs of a transfer: t tokens, perhaps change, the metadata. *)
TransferShape(tx, t, n, cents) ==
  /\ IsDigiDollarTx(tx) /\ t \in Nat /\ t >= 1
  /\ n \in Nat /\ Len(tx.outputs) = n /\ (n = t + 1 \/ n = t + 2)
  /\ Len(cents) = t /\ cents # << >>
  /\ \A v \in 0 .. t - 1 : IsToken(Output(tx, v))
  /\ n = t + 2 => ~IsToken(Output(tx, t)) /\ ~Parses(Output(tx, t))
  /\ Output(tx, n - 1) = Metadata([txType |-> "transfer", amounts |-> cents])

(* The parser's view of such outputs. *)
LEMMA TransferIsRead ==
  ASSUME NEW tx, NEW t, NEW n, NEW cents, TransferShape(tx, t, n, cents)
  PROVE  /\ \A v \in 0 .. t - 1 : v \in Vouts(tx) /\ DDAmountCents(tx, v) = cents[v + 1]
         /\ \A v \in Vouts(tx) : v >= t => DDAmountCents(tx, v) = 0
         /\ OpReturnData(tx).amounts = cents
<1> SUFFICES ASSUME IsDigiDollarTx(tx), t \in Nat, t >= 1,
                    n \in Nat, Len(tx.outputs) = n, n = t + 1 \/ n = t + 2,
                    Len(cents) = t, cents # << >>,
                    \A v \in 0 .. t - 1 : IsToken(Output(tx, v)),
                    n = t + 2 => ~IsToken(Output(tx, t)) /\ ~Parses(Output(tx, t)),
                    Output(tx, n - 1) = Metadata([txType |-> "transfer", amounts |-> cents])
             PROVE  /\ \A v \in 0 .. t - 1 : v \in Vouts(tx) /\ DDAmountCents(tx, v) = cents[v + 1]
                    /\ \A v \in Vouts(tx) : v >= t => DDAmountCents(tx, v) = 0
                    /\ OpReturnData(tx).amounts = cents
  BY DEF TransferShape
<1> DEFINE data == [txType |-> "transfer", amounts |-> cents]
           m    == n - 1
<1>1. /\ Output(tx, m).value = 0 /\ Output(tx, m).script.type = "op_return"
      /\ Output(tx, m).script.data = data
  BY DEF Metadata, Paying, OpReturn
<1>2. data.amounts = cents /\ data.txType = "transfer"
  OBVIOUS
<1> HIDE DEF data
<1>3. ~IsToken(Output(tx, m)) /\ Parses(Output(tx, m))
  BY <1>1, <1>2 DEF IsToken, IsP2TR, Parses
<1>4. Vouts(tx) = 0 .. m /\ m \in Vouts(tx) /\ m \in Int
  BY DEF Vouts
<1>5. \A w \in 0 .. m - 1 : ~Parses(Output(tx, w))
  <2>1. ASSUME NEW w \in 0 .. t - 1 PROVE ~Parses(Output(tx, w))
    <3>1. Output(tx, w).script.type = "p2tr"
      BY <2>1 DEF IsToken, IsP2TR
    <3> QED
      BY <3>1 DEF Parses
  <2>2. \A w \in 0 .. m - 1 : w \in 0 .. t - 1 \/ (w = t /\ n = t + 2)
    OBVIOUS
  <2> QED
    BY <2>1, <2>2
<1>6. MetadataVout(tx) = {m} /\ OpReturnData(tx) = data
  BY <1>1, <1>3, <1>4, <1>5, MetadataIs
<1>7. ASSUME NEW v \in 0 .. t - 1
      PROVE  v \in Vouts(tx) /\ DDAmountCents(tx, v) = cents[v + 1]
  <2>1. v \in Vouts(tx) /\ v < t
    BY <1>4
  <2>2. \A w \in 0 .. v - 1 : IsToken(Output(tx, w))
    OBVIOUS
  <2>3. TokenIndex(tx, v) = v
    BY <2>1, <2>2, OnlyTokensBefore
  <2>4. DDAmountCents(tx, v) = data.amounts[v + 1]
    <3>1. /\ IsToken(Output(tx, v)) /\ MetadataVout(tx) # {}
          /\ OpReturnData(tx).txType = "transfer"
          /\ TokenIndex(tx, v) < Len(OpReturnData(tx).amounts)
      BY <1>2, <1>6, <2>1, <2>3
    <3>2. DDAmountCents(tx, v) = OpReturnData(tx).amounts[TokenIndex(tx, v) + 1]
      BY <3>1, TokenAmount, Zenon
    <3> QED
      BY <1>6, <2>3, <3>2
  <2> QED
    BY <1>2, <2>1, <2>4
<1>8. ASSUME NEW v \in Vouts(tx), v >= t PROVE DDAmountCents(tx, v) = 0
  <2>1. v = m \/ (v = t /\ n = t + 2)
    BY <1>4, <1>8
  <2>2. ~IsToken(Output(tx, v))
    BY <1>3, <2>1
  <2> QED
    BY <2>2, NotToken
<1>9. OpReturnData(tx).amounts = cents
  BY <1>2, <1>6
<1> QED
  BY <1>7, <1>8, <1>9

(* The tokens of a transfer hold what its recipients get and the change. *)
LEMMA SumShifted ==
  ASSUME NEW k \in Nat, NEW f, NEW g,
         \A i \in 1 .. k : g[i] = f[i - 1] /\ g[i] \in Int
  PROVE  SumFunctionOnSet(f, 0 .. k - 1) = SumFunctionOnSet(g, 1 .. k)
<1> DEFINE K == 1 .. k
           A == 0 .. k - 1
           h == [i \in K |-> i - 1]
<1>1. IsFiniteSet(K) /\ \A i, j \in K : h[i] = h[j] => i = j
  <2>1. \A a, b \in Int : IsFiniteSet(a .. b)
    BY FS_Interval
  <2> QED
    BY <2>1
<1>2. A = {h[i] : i \in K}
  <2>1. ASSUME NEW v \in A PROVE v + 1 \in K /\ h[v + 1] = v
    OBVIOUS
  <2>2. ASSUME NEW i \in K PROVE h[i] \in A
    OBVIOUS
  <2> HIDE DEF A, K, h
  <2> QED
    BY <2>1, <2>2
<1>3. \A i \in K : g[i] = f[h[i]] /\ g[i] \in Int
  OBVIOUS
<1> HIDE DEF h, K, A
<1>4. SumFunctionOnSet(f, A) = SumFunctionOnSet(g, K)
  BY <1>1, <1>2, <1>3, SumOfImage
<1> QED
  BY <1>4 DEF A, K

(***************************************************************************)
(* The tokens of a transfer add up to what its recipients get and the      *)
(* change.                                                                 *)
(***************************************************************************)
LEMMA TransferTokens ==
  ASSUME NEW tx, NEW k \in Nat, k >= 1, NEW recipients, DOMAIN recipients = 1 .. k,
         Len(tx.outputs) \in Nat, k \in Vouts(tx), DDAmountCents(tx, k) \in Nat,
         \A i \in 1 .. k : recipients[i].cents \in Nat
                          /\ DDAmountCents(tx, i - 1) = recipients[i].cents,
         \A v \in Vouts(tx) : v > k => DDAmountCents(tx, v) = 0
  PROVE  /\ \A v \in Vouts(tx) : DDAmountCents(tx, v) \in Nat
         /\ RecipientCents(recipients) \in Int
         /\ Tokens(tx) = RecipientCents(recipients) + DDAmountCents(tx, k)
<1> DEFINE D == Vouts(tx)
           f == [v \in D |-> DDAmountCents(tx, v)]
           g == [i \in 1 .. k |-> recipients[i].cents]
           K == 1 .. k
           A == 0 .. k - 1
           B == A \union {k}
<1>1. D = 0 .. Len(tx.outputs) - 1 /\ IsFiniteSet(D) /\ IsFiniteSet(K) /\ IsFiniteSet(A)
  <2>1. D = 0 .. Len(tx.outputs) - 1
    BY DEF Vouts
  <2>2. \A a, b \in Int : IsFiniteSet(a .. b)
    BY FS_Interval
  <2> QED
    BY <2>1, <2>2
<1>2. B \subseteq D /\ k \notin A /\ k \in D
  BY <1>1
<1>3. \A i \in 1 .. k : g[i] = f[i - 1] /\ g[i] \in Int
  BY <1>2
<1>4. \A v \in D : v \in A \/ v = k \/ v > k
  BY <1>1
<1>5. ASSUME NEW v \in D PROVE f[v] \in Nat /\ DDAmountCents(tx, v) = f[v]
  <2>1. CASE v \in A
    <3>1. v + 1 \in 1 .. k /\ (v + 1) - 1 = v
      BY <2>1
    <3> QED
      BY <3>1
  <2> QED
    BY <1>4, <2>1
<1>6. RecipientCents(recipients) = SumFunctionOnSet(g, K)
  <2>1. g = [i \in DOMAIN recipients |-> recipients[i].cents] /\ DOMAIN g = K
    OBVIOUS
  <2> HIDE DEF g, K
  <2> QED
    BY <2>1 DEF RecipientCents, SumFunction
<1>7. \A v \in D \ B : f[v] = 0
  BY <1>4
<1>8. f[k] = DDAmountCents(tx, k) /\ f[k] \in Int
  BY <1>2
<1>9. Tokens(tx) = SumFunctionOnSet(f, D)
  BY DEF Tokens
<1> HIDE DEF f, g, D, K, A
<1>10. SumFunctionOnSet(g, K) \in Int
  BY <1>1, <1>3, SumType DEF K
<1>11. SumFunctionOnSet(f, A) = SumFunctionOnSet(g, K)
  BY <1>3, SumShifted DEF A, K
<1>12. \A v \in D : f[v] \in Int
  BY <1>5
<1>13. SumFunctionOnSet(f, A \union {k}) = SumFunctionOnSet(f, A) + f[k]
  <2>1. \A v \in A \union {k} : f[v] \in Int
    BY <1>2, <1>12
  <2> QED
    BY <1>1, <1>2, <2>1, SumAdd
<1>14. SumFunctionOnSet(f, D) = SumFunctionOnSet(f, B)
  <2> HIDE DEF B
  <2> QED
    BY <1>1, <1>2, <1>7, <1>12, SumOfSupport
<1>15. Tokens(tx) = RecipientCents(recipients) + DDAmountCents(tx, k)
  BY <1>6, <1>8, <1>9, <1>11, <1>13, <1>14
<1> QED
  BY <1>5, <1>6, <1>10, <1>15 DEF D

(* The amounts a transfer records, with change and without. *)
LEMMA AmountsWithChange ==
  ASSUME NEW recipients, NEW k \in Nat, DOMAIN recipients = 1 .. k, NEW d
  PROVE  /\ Len(TokenAmounts(recipients, <<d>>)) = k + 1
         /\ TokenAmounts(recipients, <<d>>) # << >>
         /\ \A i \in 1 .. k : TokenAmounts(recipients, <<d>>)[i] = recipients[i].cents
         /\ TokenAmounts(recipients, <<d>>)[k + 1] = d
<1> DEFINE own == [i \in DOMAIN recipients |-> recipients[i].cents]
           C   == {recipients[i].cents : i \in 1 .. k} \union {d}
           cents == TokenAmounts(recipients, <<d>>)
<1>1. cents = own \o <<d>>
  BY DEF TokenAmounts
<1>2. own \in Seq(C) /\ Len(own) = k /\ \A i \in 1 .. k : own[i] = recipients[i].cents
  <2>1. \A i \in 1 .. k : recipients[i].cents \in C
    OBVIOUS
  <2> HIDE DEF C
  <2> QED
    BY <2>1
<1>3. d \in C
  OBVIOUS
<1> HIDE DEF own, C, cents
<1>4. /\ cents \in Seq(C) /\ Len(cents) = k + 1 /\ cents[k + 1] = d
      /\ \A i \in 1 .. k : cents[i] = own[i]
  BY <1>1, <1>2, <1>3
<1>5. cents # << >>
  BY <1>4
<1> QED
  BY <1>2, <1>4, <1>5 DEF cents

(***************************************************************************)
(* Without change the amounts are those of the recipients, in their order. *)
(***************************************************************************)
LEMMA AmountsWithoutChange ==
  ASSUME NEW recipients, NEW k \in Nat, k >= 1, DOMAIN recipients = 1 .. k
  PROVE  /\ Len(TokenAmounts(recipients, << >>)) = k
         /\ TokenAmounts(recipients, << >>) # << >>
         /\ \A i \in 1 .. k : TokenAmounts(recipients, << >>)[i] = recipients[i].cents
<1> DEFINE own == [i \in DOMAIN recipients |-> recipients[i].cents]
           C   == {recipients[i].cents : i \in 1 .. k}
           cents == TokenAmounts(recipients, << >>)
<1>1. cents = own \o << >>
  BY DEF TokenAmounts
<1>2. own \in Seq(C) /\ Len(own) = k /\ \A i \in 1 .. k : own[i] = recipients[i].cents
  <2>1. \A i \in 1 .. k : recipients[i].cents \in C
    OBVIOUS
  <2> HIDE DEF C
  <2> QED
    BY <2>1
<1> HIDE DEF own, C, cents
<1>3. cents = own
  BY <1>1, <1>2
<1>4. cents # << >>
  BY <1>2, <1>3
<1> QED
  BY <1>2, <1>3, <1>4 DEF cents

(***************************************************************************)
(* The DGB change of a transfer is a whole number.                         *)
(***************************************************************************)
LEMMA TransferChangeType ==
  ASSUME NEW r, r.feeRate \in Int, NEW n \in Int, NEW outs \in Int,
         NEW coins, IsFiniteSet(coins), \A u \in coins : u.value \in Int
  PROVE  ValueOf(coins) - Max({MIN_DD_FEE,
                               CalculateFee(EstimateVsize(n, outs, 1), r.feeRate)}) \in Int
<1> DEFINE rate  == r.feeRate
           vsize == EstimateVsize(n, outs, 1)
           fee   == Max({MIN_DD_FEE, CalculateFee(vsize, rate)})
<1>1. vsize \in Int /\ rate \in Int
  BY EstimateType
<1>2. ValueOf(coins) \in Int /\ MIN_DD_FEE \in Int
  BY ValueOfType, FeeConstants
<1> HIDE DEF vsize, rate
<1>3. fee \in Int
  BY <1>1, <1>2, FeeType
<1>4. ValueOf(coins) - fee \in Int
  BY <1>2, <1>3
<1> QED
  BY <1>4 DEF vsize, rate

(* Change is above the dust threshold if it is there. *)
LEMMA ChangeIsSome ==
  ASSUME NEW change \in Int, NEW script
  PROVE  \/ ChangeOutputs(change, script) = << >>
         \/ /\ ChangeOutputs(change, script) = <<Paying(change, script)>>
            /\ change > 0
<1>1. CASE change >= DUST_THRESHOLD
  BY <1>1, FeeConstants DEF ChangeOutputs
<1>2. CASE ~(change >= DUST_THRESHOLD)
  BY <1>2 DEF ChangeOutputs
<1> QED
  BY <1>1, <1>2

(***************************************************************************)
(* What a transfer records: a token for each of its k recipients and, of   *)
(* the tokens spent, one for what is left; an amount for each of them.     *)
(***************************************************************************)
TransferRecorded(tx, recipients, k, spent, owner) ==
  LET ddChange == spent - RecipientCents(recipients)
  IN  /\ tx.version = "transfer"
      /\ Len(tx.outputs) \in Nat /\ DOMAIN tx.outputs = 1 .. Len(tx.outputs)
      /\ \A v \in Vouts(tx) :
           Output(tx, v).value \in Nat /\ DDAmountCents(tx, v) \in Nat
      /\ \A i \in 1 .. k : DDAmountCents(tx, i - 1) = recipients[i].cents
      /\ ddChange > 0 => /\ DDAmountCents(tx, k) = ddChange
                         /\ Output(tx, k).script = TokenP2TR(owner)
      /\ Len(OpReturnData(tx).amounts) = IF ddChange > 0 THEN k + 1 ELSE k
      /\ \A i \in 1 .. k :
           Output(tx, i - 1).script = TokenP2TR(DecodeAddress(recipients[i].to))
      /\ Tokens(tx) = spent

(***************************************************************************)
(* What classifyTransaction reads off a transfer: each recipient's amount  *)
(* at the recipient's output, the change after them, and in all what its   *)
(* tokens had.                                                             *)
(***************************************************************************)
LEMMA TransferRecords ==
  ASSUME NEW r, r.feeRate \in Int, NEW k \in Nat, k >= 1, DOMAIN r.recipients = 1 .. k,
         \A i \in 1 .. k : r.recipients[i].cents \in Nat,
         NEW tokens, IsFiniteSet(tokens), CentsOf(tokens) \in Int,
         NEW coins, IsFiniteSet(coins), \A u \in coins : u.value \in Int,
         NEW owner, NEW script, script.type = "p2tr",
         CentsOf(tokens) >= RecipientCents(r.recipients),
         RecipientCents(r.recipients) \in Int
  PROVE  TransferRecorded(TransferTx(r, tokens, coins, owner, script).tx,
                          r.recipients, k, CentsOf(tokens), owner)
<1> DEFINE tx       == TransferTx(r, tokens, coins, owner, script).tx
           ddChange == CentsOf(tokens) - RecipientCents(r.recipients)
           back     == IF ddChange > 0 THEN <<ddChange>> ELSE << >>
           own      == [i \in DOMAIN r.recipients |-> r.recipients[i].cents]
           cents    == TokenAmounts(r.recipients, back)
           toOther(i) == Paying(0, TokenP2TR(DecodeAddress(r.recipients[i].to)))
           mine     == Paying(0, TokenP2TR(owner))
           toOthers == [i \in DOMAIN r.recipients |-> toOther(i)]
           toSelf   == [i \in DOMAIN back |-> mine]
           tok      == toOthers \o toSelf
           ins      == Cardinality(tokens) + Cardinality(coins)
           outs     == Len(cents) + 2
           vsize    == EstimateVsize(ins, outs, 1)
           fee      == Max({MIN_DD_FEE, CalculateFee(vsize, r.feeRate)})
           change   == ValueOf(coins) - fee
           paid     == Paying(change, script)
           last     == ChangeOutputs(change, script)
           meta     == Metadata([txType |-> "transfer", amounts |-> cents])
           t        == IF ddChange > 0 THEN k + 1 ELSE k
           n        == Len(tx.outputs)
           Z        == {toOther(i) : i \in 1 .. k} \union {mine}
           C        == {r.recipients[i].cents : i \in 1 .. k} \union {ddChange}
<1>1. tx.version = "transfer" /\ tx.outputs = tok \o last \o <<meta>>
  BY DEF TransferTx
<1>2. ddChange \in Int /\ ddChange >= 0 /\ t \in Nat /\ t >= 1
  OBVIOUS
<1>3. (back = <<ddChange>> /\ t = k + 1) \/ (back = << >> /\ t = k)
  OBVIOUS
<1>4. /\ Len(cents) = t /\ cents # << >>
      /\ \A i \in 1 .. k : cents[i] = r.recipients[i].cents
      /\ t = k + 1 => cents[k + 1] = ddChange
  <2> DEFINE recipients == r.recipients
  <2>1. DOMAIN recipients = 1 .. k /\ cents = TokenAmounts(recipients, back)
    OBVIOUS
  <2> HIDE DEF cents, back, ddChange, t, recipients
  <2>2. CASE back = <<ddChange>> /\ t = k + 1
    <3>1. /\ Len(TokenAmounts(recipients, <<ddChange>>)) = k + 1
          /\ TokenAmounts(recipients, <<ddChange>>) # << >>
          /\ \A i \in 1 .. k :
               TokenAmounts(recipients, <<ddChange>>)[i] = recipients[i].cents
          /\ TokenAmounts(recipients, <<ddChange>>)[k + 1] = ddChange
      BY <2>1, AmountsWithChange, ZenonT(60)
    <3> QED
      BY <2>1, <2>2, <3>1 DEF recipients
  <2>3. CASE back = << >> /\ t = k
    <3>1. /\ Len(TokenAmounts(recipients, << >>)) = k
          /\ TokenAmounts(recipients, << >>) # << >>
          /\ \A i \in 1 .. k :
               TokenAmounts(recipients, << >>)[i] = recipients[i].cents
      BY <2>1, AmountsWithoutChange, Zenon
    <3> QED
      BY <2>1, <2>3, <3>1 DEF recipients
  <2> QED
    BY <1>3, <2>2, <2>3
<1>5. tok \in Seq(Z) /\ Len(tok) = t /\ (t = k + 1 => tok[k + 1] = mine)
      /\ \A i \in 1 .. k : tok[i] = toOther(i)
  <2>1. toOthers \in Seq(Z) /\ Len(toOthers) = k /\ \A i \in 1 .. k : toOthers[i] = toOther(i)
    <3>1. \A i \in 1 .. k : toOther(i) \in Z
      OBVIOUS
    <3> HIDE DEF Z, toOther
    <3> QED
      BY <3>1
  <2>2. tok = toOthers \o toSelf /\ mine \in Z
    OBVIOUS
  <2>3. back = <<ddChange>> => toSelf = <<mine>>
    <3> HIDE DEF mine, ddChange, back
    <3>1. ASSUME back = <<ddChange>> PROVE DOMAIN back = 1 .. 1
      BY <3>1
    <3> QED
      BY <3>1
  <2>4. back = << >> => toSelf = << >>
    <3> HIDE DEF mine, back
    <3> QED
      OBVIOUS
  <2> HIDE DEF tok, toOthers, toSelf, back, mine, Z, t, ddChange, toOther
  <2>5. CASE back = <<ddChange>> /\ t = k + 1
    <3>1. <<mine>> \in Seq(Z) /\ tok = toOthers \o <<mine>>
      <4>1. tok = toOthers \o <<mine>>
        BY <2>2, <2>3, <2>5, Zenon
      <4>2. mine \in Z
        BY <2>2
      <4>3. <<mine>> \in Seq(Z)
        BY <4>2
      <4> QED
        BY <4>1, <4>3
    <3>2. Len(<<mine>>) = 1 /\ <<mine>>[1] = mine
      OBVIOUS
    <3>3. /\ tok \in Seq(Z) /\ Len(tok) = k + 1 /\ tok[k + 1] = mine
          /\ \A i \in 1 .. k : tok[i] = toOthers[i]
      BY <2>1, <3>1, <3>2
    <3> QED
      BY <2>1, <2>5, <3>3
  <2>6. CASE back = << >> /\ t = k
    BY <2>1, <2>2, <2>4, <2>6
  <2> QED
    BY <1>3, <2>5, <2>6
<1>6. \A o \in Z : o.value = 0 /\ IsToken(o)
  BY DEF Paying, TokenP2TR, P2TR, IsToken, IsP2TR
<1>7. last = << >> \/ (last = <<paid>> /\ change \in Int /\ change > 0)
  <2>1. change \in Int
    <3>1. ins \in Int /\ outs \in Int
      <4>1. Cardinality(tokens) \in Nat /\ Cardinality(coins) \in Nat
        BY FS_CardinalityType
      <4> HIDE DEF cents, t
      <4> QED
        BY <1>2, <1>4, <4>1
    <3> HIDE DEF ins, outs
    <3> QED
      BY <3>1, TransferChangeType
  <2> HIDE DEF change
  <2> QED
    BY <2>1, ChangeIsSome
<1> HIDE DEF tx, last, change, tok, Z, cents, back, t, ddChange
<1>8. /\ n \in Nat /\ DOMAIN tx.outputs = 1 .. n
      /\ n = t + 1 \/ (n = t + 2 /\ tx.outputs[t + 1] = paid /\ last = <<paid>>)
      /\ tx.outputs[n] = meta
      /\ \A i \in 1 .. t : tx.outputs[i] = tok[i]
  <2> DEFINE outputs == tx.outputs
  <2>1. outputs = tok \o last \o <<meta>> /\ (last = << >> \/ last = <<paid>>)
    BY <1>1, <1>7
  <2>2. tok \in Seq(Z)
    BY <1>5
  <2> HIDE DEF outputs, meta, paid
  <2>3. /\ Len(outputs) \in Nat /\ DOMAIN outputs = 1 .. Len(outputs)
        /\ \/ Len(outputs) = Len(tok) + 1
           \/ Len(outputs) = Len(tok) + 2 /\ outputs[Len(tok) + 1] = paid /\ last = <<paid>>
        /\ outputs[Len(outputs)] = meta
        /\ \A i \in 1 .. Len(tok) : outputs[i] = tok[i]
    <3> DEFINE T == Z \union {paid, meta}
    <3>1. tok \in Seq(T) /\ <<paid>> \in Seq(T) /\ <<meta>> \in Seq(T) /\ << >> \in Seq(T)
      <4>1. Z \subseteq T /\ paid \in T /\ meta \in T
        OBVIOUS
      <4> HIDE DEF T
      <4> QED
        BY <2>2, <4>1
    <3> HIDE DEF T
    <3>2. CASE last = << >>
      <4>1. tok \o last = tok
        BY <3>1, <3>2
      <4> QED
        BY <2>1, <3>1, <4>1
    <3>3. CASE last = <<paid>>
      <4> DEFINE head == tok \o <<paid>>
      <4>1. /\ head \in Seq(T) /\ Len(head) = Len(tok) + 1 /\ head[Len(tok) + 1] = paid
            /\ \A i \in 1 .. Len(tok) : head[i] = tok[i]
        BY <3>1
      <4>2. outputs = head \o <<meta>>
        BY <2>1, <3>3
      <4> HIDE DEF head
      <4> QED
        BY <3>1, <3>3, <4>1, <4>2
    <3> QED
      BY <2>1, <3>2, <3>3
  <2> QED
    BY <1>5, <2>3 DEF outputs
<1>9. /\ paid.value = change /\ meta.value = 0 /\ paid.script = script
      /\ n = t + 2 => change \in Nat /\ change > 0
  <2>1. n = t + 2 => last = <<paid>>
    BY <1>2, <1>8
  <2>2. paid.value = change /\ paid.script = script /\ meta.value = 0
    BY DEF Paying, Metadata
  <2> HIDE DEF n, paid, meta
  <2>3. <<paid>> # << >>
    OBVIOUS
  <2>4. ASSUME n = t + 2 PROVE change \in Nat /\ change > 0
    <3>1. last # << >>
      BY <2>1, <2>3, <2>4
    <3>2. change \in Int /\ change > 0
      BY <1>7, <3>1
    <3> QED
      BY <3>2
  <2> QED
    BY <2>2, <2>4
<1>10. /\ \A v \in 0 .. t - 1 : Output(tx, v) \in Z
       /\ n = t + 2 => Output(tx, t) = paid
       /\ Output(tx, n - 1) = meta
       /\ t = k + 1 => Output(tx, k) = mine
  <2>1. ASSUME NEW v \in 0 .. t - 1 PROVE Output(tx, v) = tok[v + 1] /\ tok[v + 1] \in Z
    <3>1. v + 1 \in 1 .. t
      BY <1>2
    <3> QED
      BY <1>5, <1>8, <3>1 DEF Output
  <2>2. n = t + 2 => tx.outputs[t + 1] = paid
    BY <1>2, <1>8
  <2>3. (n - 1) + 1 = n
    BY <1>8
  <2>4. t = k + 1 => k \in 0 .. t - 1
    BY <1>2
  <2> QED
    BY <1>5, <1>8, <2>1, <2>2, <2>3, <2>4 DEF Output
<1>11. n = t + 2 => ~IsToken(Output(tx, t)) /\ ~Parses(Output(tx, t))
  <2> HIDE DEF n, paid
  <2> QED
    BY <1>9, <1>10 DEF IsToken, Parses
<1>12. \A v \in 0 .. t - 1 : IsToken(Output(tx, v)) /\ Output(tx, v).value = 0
  BY <1>6, <1>10
<1>13. IsDigiDollarTx(tx) /\ n \in Nat /\ Len(tx.outputs) = n /\ (n = t + 1 \/ n = t + 2)
  BY <1>1, <1>8 DEF IsDigiDollarTx
<1>14. Vouts(tx) = 0 .. n - 1
  BY DEF Vouts
<1>15. \A v \in Vouts(tx) : v \in 0 .. t - 1 \/ (v = t /\ n = t + 2) \/ v = n - 1
  <2> HIDE DEF n
  <2> QED
    BY <1>2, <1>13, <1>14
<1> HIDE DEF n
<1>16. \A v \in Vouts(tx) : Output(tx, v).value \in Nat
  BY <1>9, <1>10, <1>12, <1>15
<1>17. /\ \A v \in 0 .. t - 1 : v \in Vouts(tx) /\ DDAmountCents(tx, v) = cents[v + 1]
       /\ \A v \in Vouts(tx) : v >= t => DDAmountCents(tx, v) = 0
       /\ OpReturnData(tx).amounts = cents
  <2>1. Output(tx, n - 1) = Metadata([txType |-> "transfer", amounts |-> cents])
    BY <1>10
  <2>2. TransferShape(tx, t, n, cents)
    <3> HIDE DEF meta, paid
    <3> QED
      BY <1>2, <1>4, <1>11, <1>12, <1>13, <2>1, Zenon DEF TransferShape
  <2> QED
    BY <2>2, TransferIsRead, Zenon
<1>18. \A i \in 1 .. k : i - 1 \in Vouts(tx)
                         /\ DDAmountCents(tx, i - 1) = r.recipients[i].cents
  <2>1. ASSUME NEW i \in 1 .. k
        PROVE  i - 1 \in 0 .. t - 1 /\ (i - 1) + 1 = i
    BY DEF t
  <2> QED
    BY <1>4, <1>17, <2>1
<1>19. ddChange > 0 => k \in Vouts(tx) /\ DDAmountCents(tx, k) = ddChange
  <2>1. ddChange > 0 => k \in 0 .. t - 1 /\ t = k + 1
    BY <1>2 DEF t
  <2> QED
    BY <1>4, <1>17, <2>1
<1>20. /\ \A v \in Vouts(tx) : DDAmountCents(tx, v) \in Nat
       /\ Tokens(tx) = RecipientCents(r.recipients) + DDAmountCents(tx, k)
       /\ DDAmountCents(tx, k) = ddChange
  <2> DEFINE recipients == r.recipients
  <2>1. DOMAIN recipients = 1 .. k /\ Len(tx.outputs) \in Nat
    BY <1>13
  <2>2. k \in Vouts(tx) /\ DDAmountCents(tx, k) = ddChange
    <3>1. k \in Vouts(tx) /\ (ddChange <= 0 => DDAmountCents(tx, k) = 0)
      <4>1. k \in Nat /\ k <= t /\ (ddChange <= 0 => t = k)
        BY <1>2 DEF t
      <4>2. k \in Vouts(tx)
        BY <1>2, <1>13, <1>14, <4>1
      <4> QED
        BY <1>17, <4>1, <4>2
    <3> QED
      BY <1>2, <1>19, <3>1
  <2>3. \A i \in 1 .. k : recipients[i].cents \in Nat
                          /\ DDAmountCents(tx, i - 1) = recipients[i].cents
    BY <1>18
  <2>4. \A v \in Vouts(tx) : v > k => DDAmountCents(tx, v) = 0
    BY <1>14, <1>17 DEF t
  <2>5. DDAmountCents(tx, k) \in Nat
    BY <1>2, <2>2
  <2> HIDE DEF recipients
  <2>6. /\ \A v \in Vouts(tx) : DDAmountCents(tx, v) \in Nat
        /\ Tokens(tx) = RecipientCents(recipients) + DDAmountCents(tx, k)
    BY <2>1, <2>2, <2>3, <2>4, <2>5, TransferTokens, Zenon
  <2> QED
    BY <2>2, <2>6 DEF recipients
<1>21. Tokens(tx) = CentsOf(tokens)
  BY <1>2, <1>20 DEF ddChange
<1>22. mine.script = TokenP2TR(owner)
  BY DEF Paying
<1>23. ddChange > 0 => /\ DDAmountCents(tx, k) = ddChange
                       /\ Output(tx, k).script = TokenP2TR(owner)
  BY <1>10, <1>19, <1>22 DEF t
<1>24. Len(tx.outputs) \in Nat /\ DOMAIN tx.outputs = 1 .. Len(tx.outputs)
  BY <1>8 DEF n
<1>25. \A v \in Vouts(tx) : Output(tx, v).value \in Nat /\ DDAmountCents(tx, v) \in Nat
  BY <1>16, <1>20
<1>26. Len(OpReturnData(tx).amounts) = IF ddChange > 0 THEN k + 1 ELSE k
  BY <1>4, <1>17 DEF t
<1>27. \A i \in 1 .. k : Output(tx, i - 1).script = TokenP2TR(DecodeAddress(r.recipients[i].to))
  <2>1. ASSUME NEW i \in 1 .. k PROVE Output(tx, i - 1) = toOther(i)
    <3>1. i \in 1 .. t /\ (i - 1) + 1 = i
      BY DEF t
    <3> QED
      BY <1>5, <1>8, <3>1 DEF Output
  <2>2. \A i \in 1 .. k : toOther(i).script = TokenP2TR(DecodeAddress(r.recipients[i].to))
    BY DEF Paying
  <2> QED
    BY <2>1, <2>2
<1> QED
  BY <1>1, <1>18, <1>21, <1>23, <1>24, <1>25, <1>26, <1>27 DEF TransferRecorded, tx, ddChange

(***************************************************************************)
(* Concatenation, as the redeem builder uses it.                           *)
(***************************************************************************)
LEMMA OneThenTwo ==
  ASSUME NEW a, NEW b, NEW c
  PROVE  <<a>> \o <<b, c>> = <<a, b, c>>
<1> DEFINE S == {a, b, c}
           s == <<a>> \o <<b, c>>
           t == <<a, b, c>>
<1>1. a \in S /\ b \in S /\ c \in S
  OBVIOUS
<1> HIDE DEF S
<1>2. <<a>> \in Seq(S) /\ <<b, c>> \in Seq(S) /\ t \in Seq(S)
  BY <1>1
<1>3. s \in Seq(S) /\ Len(s) = 3 /\ s[1] = a /\ s[2] = b /\ s[3] = c
  BY <1>2
<1>4. Len(t) = 3 /\ t[1] = a /\ t[2] = b /\ t[3] = c
  OBVIOUS
<1> HIDE DEF s, t
<1>5. \A i \in 1 .. 3 : s[i] = t[i]
  BY <1>3, <1>4
<1>6. s = t
  BY <1>2, <1>3, <1>4, <1>5
<1> QED
  BY <1>6 DEF s, t

(* The second output is the only token, the third its metadata. *)
LEMMA OneTokenIsRead ==
  ASSUME NEW tx, IsDigiDollarTx(tx), NEW n \in {3, 4}, Len(tx.outputs) = n,
         ~IsToken(Output(tx, 0)), ~Parses(Output(tx, 0)),
         IsToken(Output(tx, 1)), Parses(Output(tx, 2)),
         NEW data, Output(tx, 2).script.data = data, Len(data.amounts) = 1,
         data.amounts[1] \in Int,
         n = 4 => ~IsToken(Output(tx, 3))
  PROVE  /\ \A v \in Vouts(tx) : v # 1 => DDAmountCents(tx, v) = 0
         /\ DDAmountCents(tx, 1) = data.amounts[1]
         /\ Tokens(tx) = data.amounts[1]
<1>1. Vouts(tx) = 0 .. n - 1
  BY DEF Vouts
<1>2. \A v \in Vouts(tx) : v \in {0, 1, 2} \/ (v = 3 /\ n = 4)
  BY <1>1
<1>3. {0, 1, 2} \subseteq Vouts(tx) /\ Len(tx.outputs) \in Nat /\ Len(tx.outputs) >= 3
  BY <1>1
<1>4. Output(tx, 2).script.type = "op_return"
  BY DEF Parses
<1>5. ~IsToken(Output(tx, 2)) /\ ~Parses(Output(tx, 1))
  BY <1>4 DEF IsToken, IsP2TR, Parses
<1>6. \A v \in Vouts(tx) : v # 1 => DDAmountCents(tx, v) = 0
  BY <1>2, <1>5, NotToken
<1>7. MetadataVout(tx) = {2} /\ OpReturnData(tx) = data
  <2>1. \A w \in 0 .. 2 - 1 : ~Parses(Output(tx, w))
    BY <1>5
  <2> QED
    BY <1>3, <2>1, MetadataIs
<1>8. DDAmountCents(tx, 1) = data.amounts[1]
  <2>1. TokenIndex(tx, 1) = 0
    <3>1. \A w \in Vouts(tx) : w < 1 => ~IsToken(Output(tx, w))
      BY <1>2
    <3> QED
      BY <3>1, NoTokenBefore
  <2>2. 0 < Len(data.amounts) /\ data.amounts[0 + 1] = data.amounts[1]
    OBVIOUS
  <2>3. DDAmountCents(tx, 1) = data.amounts[0 + 1]
    <3>1. Classify(tx, 1) = "dd_token" /\ MetadataVout(tx) # {}
      BY <1>7, TokenIsClassified
    <3>2. DDAmountCents(tx, 1) =
            IF /\ OpReturnData(tx).txType = "transfer" \/ TokenIndex(tx, 1) = 0
               /\ TokenIndex(tx, 1) < Len(OpReturnData(tx).amounts)
            THEN OpReturnData(tx).amounts[TokenIndex(tx, 1) + 1]
            ELSE 0
      BY <3>1, Zenon DEF DDAmountCents
    <3> QED
      BY <1>7, <2>1, <2>2, <3>2
  <2> QED
    BY <2>2, <2>3
<1>9. Tokens(tx) = DDAmountCents(tx, 1)
  BY <1>3, <1>6, <1>8, OneToken
<1> QED
  BY <1>6, <1>8, <1>9

(* No token at all. *)
LEMMA NoTokens ==
  ASSUME NEW tx, Len(tx.outputs) \in Nat,
         \A v \in Vouts(tx) : ~IsToken(Output(tx, v))
  PROVE  /\ \A v \in Vouts(tx) : DDAmountCents(tx, v) = 0
         /\ Tokens(tx) = 0
<1> DEFINE f == [v \in Vouts(tx) |-> DDAmountCents(tx, v)]
           D == Vouts(tx)
<1>1. \A v \in D : DDAmountCents(tx, v) = 0
  BY NotToken
<1>2. IsFiniteSet(D)
  <2>1. D = 0 .. Len(tx.outputs) - 1 /\ Len(tx.outputs) - 1 \in Int
    BY DEF Vouts
  <2> QED
    BY <2>1, FS_Interval
<1>3. \A v \in D : f[v] = 0
  BY <1>1
<1> HIDE DEF f
<1>4. SumFunctionOnSet(f, D) = 0
  BY <1>2, <1>3, SumOfZeros
<1> QED
  BY <1>1, <1>4 DEF Tokens, f

(***************************************************************************)
(* The outputs of a redeem that has no token: the collateral, and perhaps  *)
(* change.                                                                 *)
(***************************************************************************)
LEMMA OneAndChange ==
  ASSUME NEW a, NEW d, NEW outputs, NEW last,
         last = << >> \/ last = <<d>>, outputs = <<a>> \o last
  PROVE  /\ Len(outputs) \in Nat /\ DOMAIN outputs = 1 .. Len(outputs)
         /\ \/ Len(outputs) = 1
            \/ Len(outputs) = 2 /\ outputs[2] = d /\ last = <<d>>
         /\ outputs[1] = a
<1>1. CASE last = << >>
  BY <1>1
<1>2. CASE last = <<d>>
  BY <1>2
<1> QED
  BY <1>1, <1>2

(***************************************************************************)
(* What a redeem records: the collateral paid out in output 0, and a token *)
(* for what is left of the DigiDollars it spends.                          *)
(***************************************************************************)
RedeemRecorded(tx, value, script, back) ==
  /\ tx.version = "redeem"
  /\ Len(tx.outputs) \in Nat /\ DOMAIN tx.outputs = 1 .. Len(tx.outputs)
  /\ 0 \in Vouts(tx)
  /\ \A v \in Vouts(tx) : Output(tx, v).value \in Nat /\ DDAmountCents(tx, v) \in Nat
  /\ Output(tx, 0) = Paying(value, script)
  /\ Tokens(tx) = back

(* What a redeem transaction says of its DigiDollars: the change, in one token. *)
LEMMA RedeemRecords ==
  ASSUME NEW cents \in Int, NEW unlock,
         NEW collateral, collateral.value \in Int, collateral.value > 0,
         NEW tokens, IsFiniteSet(tokens), CentsOf(tokens) \in Int, CentsOf(tokens) >= cents,
         NEW coins, IsFiniteSet(coins), \A u \in coins : u.value \in Int,
         NEW rate \in Int, NEW owner, NEW script, script.type = "p2tr"
  PROVE  RedeemRecorded(RedeemTx(cents, unlock, collateral, tokens, coins, rate, owner, script).tx,
                        collateral.value, script, CentsOf(tokens) - cents)
<1> DEFINE tx       == RedeemTx(cents, unlock, collateral, tokens, coins, rate, owner, script).tx
           ddChange == CentsOf(tokens) - cents
           back     == DDChangeOutputs(ddChange, owner)
           n        == 1 + Cardinality(tokens) + Cardinality(coins)
           o        == IF ddChange > 0 THEN 1 ELSE 0
           k        == Len(back) + 2
           vsize    == EstimateVsize(n, k, o)
           fee      == Max({MIN_REDEEM_FEE, CalculateFee(vsize, rate)})
           change   == ValueOf(coins) - fee
           first    == Paying(collateral.value, script)
           token    == Paying(0, TokenP2TR(owner))
           meta     == Metadata([txType |-> "redeem", amounts |-> <<ddChange>>])
           paid     == Paying(change, script)
           last     == ChangeOutputs(change, script)
<1>1. tx.outputs = <<first>> \o back \o last /\ tx.version = "redeem"
  BY DEF RedeemTx
<1>2. /\ ddChange \in Int /\ ddChange >= 0
      /\ ddChange > 0 => back = <<token, meta>>
      /\ ~(ddChange > 0) => back = << >>
  BY DEF DDChangeOutputs
<1>3. change \in Int
  <2>1. n \in Nat
    BY FS_CardinalityType
  <2>2. k \in Int
    <3> HIDE DEF token, meta, back, ddChange
    <3> QED
      BY <1>2
  <2>3. o \in Int
    OBVIOUS
  <2> HIDE DEF n, k, o
  <2>4. vsize \in Int
    BY <2>1, <2>2, <2>3, EstimateType
  <2> HIDE DEF vsize
  <2>5. fee \in Int /\ fee >= MIN_REDEEM_FEE
    <3> HIDE DEF tx, ddChange, back, token, meta, first, paid, last
    <3> QED
      BY <2>4, FeeType, FeeConstants
  <2>6. ValueOf(coins) \in Int
    BY ValueOfType
  <2> HIDE DEF fee
  <2> QED
    BY <2>5, <2>6
<1>4. last = << >> \/ (last = <<paid>> /\ change > 0)
  <2> HIDE DEF change
  <2> QED
    BY <1>3, ChangeIsSome
<1>5. /\ first.value = collateral.value /\ first.script.type = "p2tr"
      /\ token.value = 0 /\ token.script.type = "p2tr"
      /\ meta.value = 0 /\ meta.script.type = "op_return"
      /\ meta.script.data.amounts = <<ddChange>>
      /\ paid.value = change
  BY DEF Paying, Metadata, OpReturn, TokenP2TR, P2TR
<1>6. meta.script.data.amounts # << >>
  <2> HIDE DEF meta, ddChange
  <2>1. <<ddChange>> # << >>
    OBVIOUS
  <2> QED
    BY <1>5, <2>1
<1> HIDE DEF tx, last, back, first, token, meta, paid, change, ddChange
<1>7. /\ ~IsToken(first) /\ ~Parses(first) /\ IsToken(token) /\ Parses(meta)
      /\ change > 0 => ~IsToken(paid)
  BY <1>3, <1>5, <1>6 DEF IsToken, IsP2TR, Parses
<1>8. /\ Output(tx, 0) = tx.outputs[1] /\ Output(tx, 1) = tx.outputs[2]
      /\ Output(tx, 2) = tx.outputs[3] /\ Output(tx, 3) = tx.outputs[4]
      /\ IsDigiDollarTx(tx)
  BY <1>1 DEF Output, IsDigiDollarTx
<1> DEFINE outputs == tx.outputs
<1>9. CASE ddChange > 0
  <2>1. outputs = <<first, token, meta>> \o last
    <3>1. <<first>> \o <<token, meta>> = <<first, token, meta>>
      BY OneThenTwo
    <3> QED
      BY <1>1, <1>2, <1>9, <3>1, Zenon
  <2>2. last = << >> \/ last = <<paid>>
    BY <1>4
  <2>3. /\ Len(outputs) \in Nat /\ DOMAIN outputs = 1 .. Len(outputs)
        /\ \/ Len(outputs) = 3
           \/ Len(outputs) = 4 /\ outputs[4] = paid /\ last = <<paid>>
        /\ outputs[1] = first /\ outputs[2] = token /\ outputs[3] = meta
    <3> HIDE DEF outputs
    <3> QED
      BY <2>1, <2>2, ThreeAndChange
  <2>4. last = <<paid>> => change > 0
    <3>1. <<paid>> # << >>
      OBVIOUS
    <3> QED
      BY <1>4, <3>1
  <2>5. /\ \A v \in Vouts(tx) : v # 1 => DDAmountCents(tx, v) = 0
        /\ DDAmountCents(tx, 1) = ddChange
        /\ Tokens(tx) = ddChange
    <3> DEFINE data == meta.script.data
               m    == Len(tx.outputs)
    <3>1. m \in {3, 4} /\ (m = 4 => ~IsToken(Output(tx, 3)))
      BY <1>7, <1>8, <2>3, <2>4
    <3>2. /\ ~IsToken(Output(tx, 0)) /\ ~Parses(Output(tx, 0))
          /\ IsToken(Output(tx, 1)) /\ Parses(Output(tx, 2))
          /\ Output(tx, 2).script.data = data
      BY <1>7, <1>8, <2>3
    <3>3. Len(data.amounts) = 1 /\ data.amounts[1] = ddChange
      BY <1>5
    <3>4. ddChange \in Int
      BY <1>2
    <3> HIDE DEF data, m
    <3>5. /\ \A v \in Vouts(tx) : v # 1 => DDAmountCents(tx, v) = 0
          /\ DDAmountCents(tx, 1) = data.amounts[1]
          /\ Tokens(tx) = data.amounts[1]
      BY <1>8, <3>1, <3>2, <3>3, <3>4, OneTokenIsRead DEF m
    <3> QED
      BY <3>3, <3>5
  <2>6. \A v \in Vouts(tx) : v \in {0, 1, 2} \/ (v = 3 /\ Len(tx.outputs) = 4)
    <3> DEFINE m == Len(tx.outputs)
    <3>1. m = 3 \/ m = 4
      BY <2>3
    <3>2. Vouts(tx) = 0 .. m - 1
      BY DEF Vouts
    <3> HIDE DEF m
    <3>3. \A v \in Vouts(tx) : v \in {0, 1, 2} \/ (v = 3 /\ m = 4)
      BY <3>1, <3>2
    <3> QED
      BY <3>3 DEF m
  <2>7. ASSUME NEW v \in Vouts(tx)
        PROVE  Output(tx, v).value \in Nat /\ DDAmountCents(tx, v) \in Nat
    <3>1. DDAmountCents(tx, v) \in Nat
      BY <1>2, <2>5
    <3>2. v = 3 => Output(tx, v) = paid /\ change > 0
      BY <1>8, <2>3, <2>4, <2>6
    <3>3. Output(tx, v).value \in {0, collateral.value} \/ (v = 3 /\ Output(tx, v).value = change)
      BY <1>5, <1>8, <2>3, <2>6, <3>2
    <3> QED
      BY <1>3, <3>1, <3>2, <3>3
  <2> QED
    BY <1>1, <1>8, <2>3, <2>5, <2>7 DEF RedeemRecorded, tx, first, ddChange, Vouts
<1>10. CASE ~(ddChange > 0)
  <2>1. outputs = <<first>> \o last
    <3>1. <<first>> \o << >> = <<first>>
      OBVIOUS
    <3> QED
      BY <1>1, <1>2, <1>10, <3>1
  <2>2. last = << >> \/ last = <<paid>>
    BY <1>4
  <2>3. /\ Len(outputs) \in Nat /\ DOMAIN outputs = 1 .. Len(outputs)
        /\ \/ Len(outputs) = 1
           \/ Len(outputs) = 2 /\ outputs[2] = paid /\ last = <<paid>>
        /\ outputs[1] = first
    <3> HIDE DEF outputs
    <3> QED
      BY <2>1, <2>2, OneAndChange
  <2>4. last = <<paid>> => change > 0
    <3>1. <<paid>> # << >>
      OBVIOUS
    <3> QED
      BY <1>4, <3>1
  <2>5. \A v \in Vouts(tx) : v = 0 \/ (v = 1 /\ Len(tx.outputs) = 2)
    <3> DEFINE m == Len(tx.outputs)
    <3>1. m = 1 \/ m = 2
      BY <2>3
    <3>2. Vouts(tx) = 0 .. m - 1
      BY DEF Vouts
    <3> HIDE DEF m
    <3>3. \A v \in Vouts(tx) : v = 0 \/ (v = 1 /\ m = 2)
      BY <3>1, <3>2
    <3> QED
      BY <3>3 DEF m
  <2>6. \A v \in Vouts(tx) : ~IsToken(Output(tx, v)) /\ Output(tx, v).value \in Nat
    BY <1>3, <1>5, <1>7, <1>8, <2>3, <2>4, <2>5, SMTT(60)
  <2>7. (\A v \in Vouts(tx) : DDAmountCents(tx, v) = 0) /\ Tokens(tx) = 0
    BY <2>3, <2>6, NoTokens
  <2>8. ddChange = 0
    BY <1>2, <1>10
  <2> QED
    BY <1>1, <1>8, <2>3, <2>6, <2>7, <2>8 DEF RedeemRecorded, tx, first, ddChange, Vouts
<1> QED
  BY <1>9, <1>10
=============================================================================
