---------------------------- MODULE CodecProofs ----------------------------
(***************************************************************************)
(* The encodings of tx-builder, of any length: numbers, pushes, metadata   *)
(* and transactions are read back as they were written, the message of a   *)
(* key-path spend is the node's, and a message is about one spend; and the *)
(* arguments of RPC methods, which arrive where the node reads them.       *)
(*                                                                         *)
(* Most of it is induction: over numbers and over sequences, by the least  *)
(* of those that would be counterexamples; and the functions of the models *)
(* that call themselves are first shown to be defined, so that their       *)
(* defining equations may be used.                                         *)
(***************************************************************************)
EXTENDS CodecProperties, RpcProperties, SequenceTheorems, FiniteSetTheorems, TLAPS

(* A set of natural numbers that is not empty has a least one: of the       *)
(* intervals that end in one of them, the smallest.                         *)
LEMMA LeastNumber ==
  ASSUME NEW T, T \subseteq Nat, T # {}
  PROVE  \E n \in T : \A k \in T : n <= k
<1>1. PICK m \in T : TRUE
  OBVIOUS
<1> DEFINE S == 0 .. m
           U == {0 .. k : k \in T \cap S}
<1>2. IsFiniteSet(S)
  BY <1>1, FS_Interval
<1>3. IsWellFoundedOn(StrictSubsetOrdering(S), FiniteSubsetsOf(S))
  BY <1>2, FS_StrictSubsetOrderingWellFounded
<1>4. U \subseteq FiniteSubsetsOf(S) /\ U # {}
  <2>1. U \subseteq SUBSET S /\ U # {}
    BY <1>1
  <2> HIDE DEF U, S
  <2> QED
    BY <1>2, <2>1, FS_FiniteSubsetsOfFinite
<1>5. PICK V \in U : \A W \in U : <<W, V>> \notin StrictSubsetOrdering(S)
  <2> HIDE DEF U, S
  <2> QED
    BY <1>3, <1>4, WFMin
<1>6. PICK n \in T \cap S : V = 0 .. n
  BY <1>5
<1>7. ASSUME NEW k \in T, k < n
      PROVE  FALSE
  <2>1. 0 .. k \in U /\ 0 .. k \subseteq 0 .. n /\ 0 .. k # 0 .. n
    <3>1. k \in S
      BY <1>6, <1>7
    <3>2. n \in 0 .. n /\ n \notin 0 .. k
      BY <1>6, <1>7
    <3> QED
      BY <1>6, <1>7, <3>1, <3>2
  <2>2. <<0 .. k, 0 .. n>> \in StrictSubsetOrdering(S)
    BY <1>6, <2>1 DEF StrictSubsetOrdering
  <2> QED
    BY <1>5, <1>6, <2>1, <2>2
<1> QED
  BY <1>6, <1>7

(* Induction over natural numbers.                                          *)
LEMMA NumbersInduction ==
  ASSUME NEW T, 0 \in T, \A n \in T \cap Nat : n + 1 \in T
  PROVE  Nat \subseteq T
<1> SUFFICES ASSUME Nat \ T # {} PROVE FALSE
  OBVIOUS
<1>1. PICK n \in Nat \ T : \A k \in Nat \ T : n <= k
  BY LeastNumber
<1>2. n # 0 /\ n - 1 \in T \cap Nat
  BY <1>1
<1>3. (n - 1) + 1 = n
  BY <1>1
<1>4. (n - 1) + 1 \in T
  BY <1>2
<1> QED
  BY <1>1, <1>3, <1>4

(* Of the members of a set that is not empty one is smallest.              *)
LEMMA SmallestMember ==
  ASSUME NEW D, D # {}, NEW size, \A x \in D : size[x] \in Nat
  PROVE  \E x \in D : \A y \in D : size[x] <= size[y]
<1> DEFINE S == {size[x] : x \in D}
<1>1. PICK n \in S : \A k \in S : n <= k
  <2>1. S \subseteq Nat /\ S # {}
    OBVIOUS
  <2> HIDE DEF S
  <2> QED
    BY <2>1, LeastNumber
<1>2. PICK x \in D : n = size[x]
  BY <1>1
<1> QED
  BY <1>1, <1>2

(* Induction over a set whose members have a size: what holds of x when it  *)
(* holds of all that are smaller holds of all.                              *)
LEMMA SizeInduction ==
  ASSUME NEW D, NEW size \in [D -> Nat], NEW T,
         \A x \in D : (\A y \in D : size[y] < size[x] => y \in T) => x \in T
  PROVE  D \subseteq T
<1> SUFFICES ASSUME D \ T # {} PROVE FALSE
  OBVIOUS
<1>1. PICK x \in D \ T : \A y \in D \ T : size[x] <= size[y]
  BY SmallestMember
<1>2. \A y \in D : size[y] < size[x] => y \in T
  BY <1>1
<1> QED
  BY <1>1, <1>2

(* Recursion over such a set: from `zero` on the base, elsewhere by `step`  *)
(* from the value of a smaller member.                                      *)
Recursive(f, D, base, zero, prior, step) ==
  \A x \in D : f[x] = IF x \in base THEN zero[x] ELSE step[<<x, f[prior[x]]>>]

(* There is a function for each such recursion.                             *)
LEMMA RecursionExists ==
  ASSUME NEW D, NEW size \in [D -> Nat], NEW V, NEW base, NEW zero \in [D -> V],
         NEW prior \in [D -> D], NEW step \in [D \X V -> V],
         \A x \in D \ base : size[prior[x]] < size[x]
  PROVE  \E f \in [D -> V] : Recursive(f, D, base, zero, prior, step)
<1> DEFINE Once(g, x) == IF x \in base THEN zero[x] ELSE step[<<x, g[prior[x]]>>]
           Upto(n, g) == \A x \in D : size[x] < n => g[x] = Once(g, x)
           Reached == {n \in Nat : \E g \in [D -> V] : Upto(n, g)}
<1>1. Nat \subseteq Reached
  <2>1. 0 \in Reached
    OBVIOUS
  <2>2. ASSUME NEW n \in Reached \cap Nat
        PROVE  n + 1 \in Reached
    <3>1. PICK g \in [D -> V] : Upto(n, g)
      OBVIOUS
    <3> DEFINE h == [x \in D |-> Once(g, x)]
    <3>2. h \in [D -> V]
      OBVIOUS
    <3>3. ASSUME NEW x \in D, size[x] < n + 1
          PROVE  h[x] = Once(h, x)
      <4>1. x \notin base => h[prior[x]] = g[prior[x]]
        <5>1. x \notin base => size[prior[x]] < n /\ prior[x] \in D
          BY <3>3
        <5> QED
          BY <3>1, <5>1
      <4> QED
        BY <4>1
    <3>4. \A x \in D : size[x] < n + 1 => h[x] = Once(h, x)
      BY <3>3
    <3> HIDE DEF h
    <3> QED
      BY <3>2, <3>4
  <2> HIDE DEF Reached
  <2> QED
    BY <2>1, <2>2, NumbersInduction
<1>2. ASSUME NEW n \in Nat, NEW g, Upto(n, g), NEW h, Upto(n, h), NEW z \in D, size[z] < n
      PROVE  g[z] = h[z]
  <2>1. PICK A : A = {x \in D : size[x] < n /\ g[x] # h[x]}
    OBVIOUS
  <2> SUFFICES ASSUME A # {} PROVE FALSE
    BY <1>2, <2>1
  <2>2. PICK x \in A : \A y \in A : size[x] <= size[y]
    <3>1. \A y \in A : size[y] \in Nat
      BY <2>1
    <3> QED
      BY <3>1, SmallestMember
  <2>3. x \in D /\ size[x] < n /\ g[x] # h[x]
    BY <2>1, <2>2
  <2>4. g[x] = Once(g, x) /\ h[x] = Once(h, x)
    BY <1>2, <2>3
  <2>5. x \notin base => prior[x] \in D /\ size[prior[x]] < size[x]
    BY <2>3
  <2>6. x \notin base => g[prior[x]] = h[prior[x]]
    BY <2>1, <2>2, <2>3, <2>5
  <2> QED
    BY <2>3, <2>4, <2>6
<1> DEFINE G(n) == CHOOSE g \in [D -> V] : Upto(n, g)
           f == [x \in D |-> G(size[x] + 1)[x]]
<1>3. \A n \in Nat : G(n) \in [D -> V] /\ Upto(n, G(n))
  BY <1>1
<1>4. f \in [D -> V]
  <2> HIDE DEF G
  <2> QED
    BY <1>3
<1>5. ASSUME NEW x \in D
      PROVE  f[x] = Once(f, x)
  <2> DEFINE g == G(size[x] + 1)
  <2>1. Upto(size[x] + 1, g) /\ f[x] = g[x] /\ g[x] = Once(g, x)
    <3> HIDE DEF G
    <3> QED
      BY <1>3
  <2>2. ASSUME x \notin base
        PROVE  f[prior[x]] = g[prior[x]]
    <3> DEFINE y == prior[x]
               h == G(size[y] + 1)
    <3>1. y \in D /\ size[y] < size[x]
      BY <2>2
    <3>2. Upto(size[y] + 1, h) /\ f[y] = h[y]
      <4> HIDE DEF G
      <4> QED
        BY <1>3, <3>1
    <3>3. Upto(size[y] + 1, g)
      <4> HIDE DEF G
      <4> QED
        BY <2>1, <3>1
    <3>4. size[y] + 1 \in Nat /\ size[y] < size[y] + 1
      BY <3>1
    <3> HIDE DEF g, h, y, Upto
    <3>5. g[y] = h[y]
      BY <1>2, <3>1, <3>2, <3>3, <3>4
    <3> QED
      BY <3>2, <3>5 DEF y
  <2> HIDE DEF f, g
  <2> QED
    BY <2>1, <2>2
<1> QED
  <2> HIDE DEF f
  <2> QED
    BY <1>4, <1>5 DEF Recursive

----------------------------------------------------------------------------
(* Bytes.                                                                   *)

(* Division of a number by a positive one.                                  *)
LEMMA DivisionIs ==
  ASSUME NEW a \in Int, NEW b \in Nat \ {0}
  PROVE  /\ a \div b \in Int /\ a % b \in 0 .. b - 1
         /\ a = b * (a \div b) + (a % b)
<1>1. a \div b \in Int
  BY SMT
<1>2. a % b \in 0 .. b - 1
  BY SMT
<1>3. a = b * (a \div b) + (a % b)
  BY SMT
<1> QED
  BY <1>1, <1>2, <1>3

(* What a number leaves when it is divided by the values of a byte.         *)
LEMMA LowestByte ==
  ASSUME NEW n \in Int
  PROVE  /\ n % Base \in Byte /\ n \div Base \in Int
         /\ n = Base * (n \div Base) + (n % Base)
BY BaseAssumption, DivisionIs DEF Byte

(* Division by the values of a byte gets smaller, so it comes to an end.    *)
LEMMA HigherBytes ==
  ASSUME NEW n \in Nat
  PROVE  /\ n % Base \in Byte /\ n \div Base \in Nat
         /\ n = Base * (n \div Base) + (n % Base)
         /\ n # 0 => n \div Base < n
<1>1. /\ n % Base \in Byte /\ n \div Base \in Int
      /\ n = Base * (n \div Base) + (n % Base)
  BY LowestByte
<1>2. Base \in Nat /\ Base > 4
  BY BaseAssumption
<1>3. \A q \in Int, r \in Nat : n = Base * q + r /\ r < Base => q >= 0 /\ (n # 0 => q < n)
  BY <1>2
<1> QED
  BY <1>1, <1>2, <1>3 DEF Byte

(* A byte is a number.                                                      *)
LEMMA BytesAreFinite == Byte = 0 .. Base - 1 /\ 0 \in Byte /\ Base \in Nat
BY BaseAssumption DEF Byte

(* One byte before others.                                                  *)
LEMMA OneBefore ==
  ASSUME NEW S, NEW e \in S, NEW s \in Seq(S)
  PROVE  /\ <<e>> \o s \in Seq(S) /\ Len(<<e>> \o s) = Len(s) + 1
         /\ (<<e>> \o s)[1] = e /\ <<e>> \o s # << >>
         /\ \A i \in 1 .. Len(s) : (<<e>> \o s)[i + 1] = s[i]
         /\ Head(<<e>> \o s) = e /\ Tail(<<e>> \o s) = s
OBVIOUS

DigitsBy(f) ==
  f = [n \in Nat |-> IF n = 0 THEN << >> ELSE <<n % Base>> \o f[n \div Base]]

(* Digits is defined: every number has digits.                              *)
LEMMA DigitsExist == \E f : DigitsBy(f)
<1> DEFINE base == {0}
           size == [n \in Nat |-> n]
           zero == [n \in Nat |-> << >>]
           prior == [n \in Nat |-> n \div Base]
           step == [x \in Nat \X Seq(Byte) |-> <<x[1] % Base>> \o x[2]]
<1>1. size \in [Nat -> Nat] /\ zero \in [Nat -> Seq(Byte)] /\ prior \in [Nat -> Nat]
  BY HigherBytes
<1>2. step \in [Nat \X Seq(Byte) -> Seq(Byte)]
  <2>1. ASSUME NEW x \in Nat \X Seq(Byte)
        PROVE  <<x[1] % Base>> \o x[2] \in Seq(Byte)
    BY HigherBytes
  <2> QED
    BY <2>1
<1>3. \A n \in Nat \ base : size[prior[n]] < size[n]
  BY HigherBytes
<1>4. PICK f \in [Nat -> Seq(Byte)] : Recursive(f, Nat, base, zero, prior, step)
  <2> HIDE DEF base, size, zero, prior, step
  <2> QED
    BY <1>1, <1>2, <1>3, RecursionExists
<1>5. ASSUME NEW n \in Nat
      PROVE  f[n] = IF n = 0 THEN << >> ELSE <<n % Base>> \o f[n \div Base]
  <2>1. n \div Base \in Nat /\ <<n, f[n \div Base]>> \in Nat \X Seq(Byte)
    BY <1>4, HigherBytes, ZenonT(60)
  <2> QED
    BY <1>4, <2>1 DEF Recursive
<1> QED
  BY <1>4, <1>5 DEF DigitsBy

(* One step of Digits.                                                      *)
LEMMA DigitsIs ==
  ASSUME NEW n \in Nat
  PROVE  Digits[n] = IF n = 0 THEN << >> ELSE <<n % Base>> \o Digits[n \div Base]
<1>1. DigitsBy(Digits)
  BY DigitsExist, ZenonT(60) DEF DigitsBy, Digits
<1> QED
  BY <1>1, ZenonT(60) DEF DigitsBy

----------------------------------------------------------------------------
PowerBy(f) == f = [width \in Nat |-> IF width = 0 THEN 1 ELSE Base * f[width - 1]]

(* Power is defined.                                                        *)
LEMMA PowersExist == \E f : PowerBy(f)
<1> DEFINE base == {0}
           size == [n \in Nat |-> n]
           zero == [n \in Nat |-> 1]
           prior == [n \in Nat |-> IF n = 0 THEN 0 ELSE n - 1]
           step == [x \in Nat \X Nat |-> Base * x[2]]
<1>1. size \in [Nat -> Nat] /\ zero \in [Nat -> Nat] /\ prior \in [Nat -> Nat]
  OBVIOUS
<1>2. step \in [Nat \X Nat -> Nat]
  BY BytesAreFinite
<1>3. \A n \in Nat \ base : size[prior[n]] < size[n]
  OBVIOUS
<1>4. PICK f \in [Nat -> Nat] : Recursive(f, Nat, base, zero, prior, step)
  <2> HIDE DEF base, size, zero, prior, step
  <2> QED
    BY <1>1, <1>2, <1>3, RecursionExists
<1>5. ASSUME NEW n \in Nat
      PROVE  f[n] = IF n = 0 THEN 1 ELSE Base * f[n - 1]
  <2>1. n # 0 => prior[n] = n - 1 /\ n - 1 \in Nat /\ <<n, f[n - 1]>> \in Nat \X Nat
    BY <1>4
  <2> QED
    BY <1>4, <2>1 DEF Recursive
<1> QED
  BY <1>4, <1>5 DEF PowerBy

(* One step of Power.                                                       *)
LEMMA PowerIs ==
  ASSUME NEW n \in Nat
  PROVE  Power[n] = IF n = 0 THEN 1 ELSE Base * Power[n - 1]
<1>1. PowerBy(Power)
  BY PowersExist DEF PowerBy, Power
<1> QED
  BY <1>1 DEF PowerBy

(* Powers of the values of a byte are positive.                             *)
LEMMA PowerType == \A n \in Nat : Power[n] \in Nat \ {0}
<1> DEFINE Typed == {n \in Nat : Power[n] \in Nat \ {0}}
<1>1. 0 \in Typed
  BY PowerIs
<1>2. ASSUME NEW n \in Typed \cap Nat
      PROVE  n + 1 \in Typed
  <2>1. Power[n + 1] = Base * Power[n]
    BY PowerIs
  <2> QED
    BY <2>1, BaseAssumption
<1>3. Nat \subseteq Typed
  <2> HIDE DEF Typed
  <2> QED
    BY <1>1, <1>2, NumbersInduction
<1> QED
  BY <1>3

ValueBy(f) ==
  f = [bytes \in Seq(Byte) |->
         IF bytes = << >> THEN 0 ELSE Head(bytes) + Base * f[Tail(bytes)]]

(* Value is defined: every string of bytes has one.                         *)
LEMMA ValuesExist == \E f : ValueBy(f)
<1> DEFINE D == Seq(Byte)
           base == {<< >>}
           size == [s \in D |-> Len(s)]
           zero == [s \in D |-> 0]
           prior == [s \in D |-> IF s = << >> THEN s ELSE Tail(s)]
           step == [x \in D \X Nat |-> IF x[1] = << >> THEN 0 ELSE Head(x[1]) + Base * x[2]]
<1>1. size \in [D -> Nat] /\ zero \in [D -> Nat] /\ prior \in [D -> D]
  OBVIOUS
<1>2. step \in [D \X Nat -> Nat]
  <2>1. ASSUME NEW x \in D \X Nat, x[1] # << >>
        PROVE  Head(x[1]) + Base * x[2] \in Nat
    <3>1. Head(x[1]) \in Byte /\ x[2] \in Nat
      BY <2>1
    <3> QED
      BY <3>1, BytesAreFinite
  <2> QED
    BY <2>1
<1>3. \A s \in D \ base : size[prior[s]] < size[s]
  OBVIOUS
<1>4. PICK f \in [D -> Nat] : Recursive(f, D, base, zero, prior, step)
  <2> HIDE DEF D, base, size, zero, prior, step
  <2> QED
    BY <1>1, <1>2, <1>3, RecursionExists
<1>5. ASSUME NEW s \in D
      PROVE  f[s] = IF s = << >> THEN 0 ELSE Head(s) + Base * f[Tail(s)]
  <2>1. s # << >> => prior[s] = Tail(s)
    OBVIOUS
  <2>2. s # << >> => Tail(s) \in D
    OBVIOUS
  <2>3. s # << >> => f[Tail(s)] \in Nat
    BY <1>4, <2>2
  <2>4. s # << >> => step[<<s, f[Tail(s)]>>] = Head(s) + Base * f[Tail(s)]
    BY <2>3
  <2> QED
    BY <1>4, <2>1, <2>4 DEF Recursive
<1> QED
  BY <1>4, <1>5 DEF ValueBy

(* One step of Value.                                                       *)
LEMMA ValueIs ==
  ASSUME NEW s \in Seq(Byte)
  PROVE  Value[s] = IF s = << >> THEN 0 ELSE Head(s) + Base * Value[Tail(s)]
<1>1. ValueBy(Value)
  BY ValuesExist DEF ValueBy, Value
<1> QED
  BY <1>1 DEF ValueBy

(* The first byte counts once, the bytes after it Base times.               *)
LEMMA ValueBefore ==
  ASSUME NEW b \in Byte, NEW s \in Seq(Byte)
  PROVE  Value[<<b>> \o s] = b + Base * Value[s]
<1>1. /\ <<b>> \o s \in Seq(Byte) /\ <<b>> \o s # << >>
      /\ Head(<<b>> \o s) = b /\ Tail(<<b>> \o s) = s
  BY OneBefore
<1> QED
  BY <1>1, ValueIs

LEOf(f, width) ==
  [n \in Int |-> IF width = 0 THEN << >> ELSE <<n % Base>> \o f[width - 1][n \div Base]]

LEBy(f) == f = [width \in Nat |-> LEOf(f, width)]

(* LE is defined for every width.                                           *)
LEMMA LEsExist == \E f : LEBy(f)
<1> DEFINE V == [Int -> Seq(Byte)]
           base == {0}
           size == [w \in Nat |-> w]
           zero == [w \in Nat |-> [n \in Int |-> << >>]]
           prior == [w \in Nat |-> IF w = 0 THEN 0 ELSE w - 1]
           Longer(g) == [n \in Int |-> <<n % Base>> \o g[n \div Base]]
           step == [x \in Nat \X V |-> Longer(x[2])]
<1>1. size \in [Nat -> Nat] /\ zero \in [Nat -> V] /\ prior \in [Nat -> Nat]
  OBVIOUS
<1>2. step \in [Nat \X V -> V]
  <2>1. ASSUME NEW g \in V
        PROVE  Longer(g) \in V
    <3>1. \A n \in Int : <<n % Base>> \o g[n \div Base] \in Seq(Byte)
      BY LowestByte
    <3> QED
      BY <3>1
  <2> HIDE DEF Longer, V
  <2> QED
    BY <2>1
<1>3. \A w \in Nat \ base : size[prior[w]] < size[w]
  OBVIOUS
<1>4. PICK f \in [Nat -> V] : Recursive(f, Nat, base, zero, prior, step)
  <2> HIDE DEF V, base, size, zero, prior, step
  <2> QED
    BY <1>1, <1>2, <1>3, RecursionExists
<1>5. ASSUME NEW w \in Nat
      PROVE  f[w] = LEOf(f, w)
  <2>1. CASE w = 0
    BY <1>4, <2>1 DEF Recursive, LEOf
  <2>2. CASE w # 0
    <3>1. prior[w] = w - 1 /\ w - 1 \in Nat
      BY <2>2
    <3>2. <<w, f[w - 1]>> \in Nat \X V
      <4> HIDE DEF V
      <4> QED
        BY <1>4, <3>1
    <3>3. f[w] = step[<<w, f[prior[w]]>>]
      <4> HIDE DEF step, prior, V
      <4> QED
        BY <1>4, <2>2 DEF Recursive
    <3>4. step[<<w, f[w - 1]>>] = Longer(f[w - 1])
      <4> HIDE DEF Longer, V
      <4> QED
        BY <3>2, SMTT(60)
    <3> QED
      BY <2>2, <3>1, <3>3, <3>4 DEF LEOf
  <2> QED
    BY <2>1, <2>2
<1>6. f = [w \in Nat |-> f[w]]
  <2> HIDE DEF V
  <2> QED
    BY <1>4, SMTT(60)
<1> QED
  BY <1>5, <1>6 DEF LEBy

(* One step of LE.                                                          *)
LEMMA LEIs ==
  ASSUME NEW width \in Nat, NEW n \in Int
  PROVE  LE[width][n] = IF width = 0 THEN << >>
                        ELSE <<n % Base>> \o LE[width - 1][n \div Base]
<1>1. LEBy(LE)
  BY LEsExist, ZenonT(60) DEF LEBy, LEOf, LE
<1>2. LE[width] = [k \in Int |-> IF width = 0 THEN << >>
                                 ELSE <<k % Base>> \o LE[width - 1][k \div Base]]
  BY <1>1, Zenon DEF LEBy, LEOf
<1> QED
  BY <1>2, SMTT(60)

----------------------------------------------------------------------------
(* Induction over sequences, from the back.                                 *)
LEMMA SequenceInduction ==
  ASSUME NEW S, NEW T, << >> \in T,
         \A e \in S, s \in Seq(S) : s \in T => <<e>> \o s \in T
  PROVE  Seq(S) \subseteq T
<1> SUFFICES ASSUME Seq(S) \ T # {} PROVE FALSE
  OBVIOUS
<1> DEFINE lengths == [s \in Seq(S) |-> Len(s)]
<1>1. PICK s \in Seq(S) \ T : \A u \in Seq(S) \ T : lengths[s] <= lengths[u]
  <2>1. \A u \in Seq(S) \ T : lengths[u] \in Nat
    OBVIOUS
  <2> HIDE DEF lengths
  <2> QED
    BY <2>1, SmallestMember
<1>2. s # << >>
  BY <1>1
<1>3. Head(s) \in S /\ Tail(s) \in Seq(S) /\ Len(Tail(s)) < Len(s)
  BY <1>2
<1>4. Tail(s) \in T
  <2>1. Tail(s) \in Seq(S) \ T => lengths[s] <= lengths[Tail(s)]
    BY <1>1
  <2>2. lengths[s] = Len(s) /\ lengths[Tail(s)] = Len(Tail(s))
    BY <1>3
  <2>3. Len(s) \in Nat /\ Len(Tail(s)) \in Nat
    BY <1>3
  <2> HIDE DEF lengths
  <2> QED
    BY <1>3, <2>1, <2>2, <2>3
<1>5. s = <<Head(s)>> \o Tail(s)
  BY <1>2
<1> QED
  BY <1>1, <1>3, <1>4, <1>5

(* The empty string stands for zero.                                        *)
LEMMA NothingIsZero == << >> \in Seq(Byte) /\ Value[<< >>] = 0 /\ Digits[0] = << >>
<1>1. << >> \in Seq(Byte)
  OBVIOUS
<1>2. Value[<< >>] = 0
  BY <1>1, ValueIs
<1>3. Digits[0] = << >>
  BY DigitsIs
<1> QED
  BY <1>1, <1>2, <1>3

(* Digits are bytes.                                                        *)
LEMMA DigitsType == \A n \in Nat : Digits[n] \in Seq(Byte)
<1> DEFINE Typed == {n \in Nat : Digits[n] \in Seq(Byte)}
           size == [n \in Nat |-> n]
<1>1. \A n \in Nat : (\A k \in Nat : size[k] < size[n] => k \in Typed) => n \in Typed
  <2> SUFFICES ASSUME NEW n \in Nat, \A k \in Nat : k < n => k \in Typed
               PROVE  Digits[n] \in Seq(Byte)
    OBVIOUS
  <2>1. n # 0 => Digits[n \div Base] \in Seq(Byte) /\ n % Base \in Byte
    BY HigherBytes
  <2>2. Digits[n] = IF n = 0 THEN << >> ELSE <<n % Base>> \o Digits[n \div Base]
    BY DigitsIs
  <2>3. n # 0 => <<n % Base>> \o Digits[n \div Base] \in Seq(Byte)
    BY <2>1
  <2> QED
    BY <2>2, <2>3
<1>2. size \in [Nat -> Nat]
  OBVIOUS
<1>3. Nat \subseteq Typed
  <2> HIDE DEF Typed, size
  <2> QED
    BY <1>1, <1>2, SizeInduction
<1> QED
  BY <1>3

(* A value is a natural number.                                             *)
LEMMA ValueType == \A s \in Seq(Byte) : Value[s] \in Nat
<1> DEFINE Typed == {s \in Seq(Byte) : Value[s] \in Nat}
<1>1. << >> \in Typed
  BY NothingIsZero
<1>2. \A b \in Byte, s \in Seq(Byte) : s \in Typed => <<b>> \o s \in Typed
  <2> SUFFICES ASSUME NEW b \in Byte, NEW s \in Seq(Byte), Value[s] \in Nat
               PROVE  <<b>> \o s \in Seq(Byte) /\ Value[<<b>> \o s] \in Nat
    OBVIOUS
  <2>1. Value[<<b>> \o s] = b + Base * Value[s]
    BY ValueBefore
  <2>2. PICK v \in Nat : v = Value[s]
    OBVIOUS
  <2>3. b \in Nat /\ Base \in Nat
    BY BytesAreFinite
  <2>4. Base * v \in Nat
    BY <2>3
  <2>5. PICK m \in Nat : m = Base * v
    BY <2>4
  <2>6. b + m \in Nat
    BY <2>3
  <2>7. <<b>> \o s \in Seq(Byte)
    OBVIOUS
  <2> QED
    BY <2>1, <2>2, <2>5, <2>6, <2>7, ZenonT(60)
<1>3. Seq(Byte) \subseteq Typed
  <2> HIDE DEF Typed
  <2> QED
    BY <1>1, <1>2, SequenceInduction
<1> QED
  BY <1>3

(* A number is read back from its digits.                                   *)
LEMMA DigitsAreRead == \A n \in Nat : Value[Digits[n]] = n
<1> DEFINE Survives == {n \in Nat : Value[Digits[n]] = n}
           size == [n \in Nat |-> n]
<1>1. \A n \in Nat : (\A k \in Nat : size[k] < size[n] => k \in Survives) => n \in Survives
  <2> SUFFICES ASSUME NEW n \in Nat, \A k \in Nat : k < n => k \in Survives
               PROVE  Value[Digits[n]] = n
    OBVIOUS
  <2>1. CASE n = 0
    BY <2>1, NothingIsZero
  <2>2. CASE n # 0
    <3>1. /\ n % Base \in Byte /\ n \div Base \in Nat
          /\ n = Base * (n \div Base) + (n % Base) /\ n \div Base < n
      BY <2>2, HigherBytes
    <3>2. Value[Digits[n \div Base]] = n \div Base
      BY <3>1
    <3>3. Digits[n] = <<n % Base>> \o Digits[n \div Base]
      BY <2>2, DigitsIs
    <3>4. Value[Digits[n]] = (n % Base) + Base * (n \div Base)
      BY <3>1, <3>2, <3>3, DigitsType, ValueBefore
    <3> QED
      BY <3>1, <3>4, BytesAreFinite
  <2> QED
    BY <2>1, <2>2
<1>2. size \in [Nat -> Nat]
  OBVIOUS
<1>3. Nat \subseteq Survives
  <2> HIDE DEF Survives, size
  <2> QED
    BY <1>1, <1>2, SizeInduction
<1> QED
  BY <1>3

(* Dividing what is made of a byte and higher ones gives them back.         *)
LEMMA Quotient ==
  ASSUME NEW b \in Byte, NEW q \in Int
  PROVE  /\ b + Base * q \in Int
         /\ (b + Base * q) % Base = b /\ (b + Base * q) \div Base = q
<1> DEFINE n == b + Base * q
<1>1. n \in Int /\ b \in Int /\ 0 <= b /\ b < Base /\ Base \in Nat
  BY BytesAreFinite
<1>2. n % Base \in Byte /\ n \div Base \in Int /\ n = Base * (n \div Base) + (n % Base)
  BY <1>1, LowestByte
<1> HIDE DEF n
<1>3. \A k \in Int, r \in Int : 0 <= r /\ r < Base /\ b + Base * q = Base * k + r => k = q /\ r = b
  <2> SUFFICES ASSUME NEW k \in Int, NEW r \in Int, 0 <= r, r < Base,
                      b + Base * q = Base * k + r
               PROVE  k = q /\ r = b
    OBVIOUS
  <2>1. Base * (q - k) = r - b
    BY <1>1
  <2>2. ~(q - k >= 1) /\ ~(q - k <= -1)
    <3>1. \A d \in Int : (d >= 1 => Base * d >= Base) /\ (d <= -1 => Base * d <= -Base)
      BY <1>1
    <3>2. q - k \in Int
      OBVIOUS
    <3> QED
      BY <1>1, <2>1, <3>1, <3>2
  <2>3. q = k
    BY <2>2
  <2> QED
    BY <1>1, <2>3
<1> QED
  BY <1>1, <1>2, <1>3 DEF n, Byte

(* A number has no shorter string of bytes than its digits, and no other    *)
(* that is as short.                                                        *)
LEMMA DigitsAreShortest ==
  \A s \in Seq(Byte) :
     /\ Len(Digits[Value[s]]) <= Len(s)
     /\ Len(Digits[Value[s]]) = Len(s) => Digits[Value[s]] = s
<1> DEFINE Minimal == {s \in Seq(Byte) :
                       /\ Len(Digits[Value[s]]) <= Len(s)
                       /\ Len(Digits[Value[s]]) = Len(s) => Digits[Value[s]] = s}
<1>1. << >> \in Minimal
  BY NothingIsZero
<1>2. \A b \in Byte, s \in Seq(Byte) : s \in Minimal => <<b>> \o s \in Minimal
  <2> SUFFICES ASSUME NEW b \in Byte, NEW s \in Seq(Byte), s \in Minimal
               PROVE  <<b>> \o s \in Minimal
    OBVIOUS
  <2> DEFINE n == b + Base * Value[s]
             d == Digits[Value[s]]
  <2>1. Value[<<b>> \o s] = n /\ Value[s] \in Nat
    BY ValueBefore, ValueType
  <2>2. n \in Nat /\ n % Base = b /\ n \div Base = Value[s]
    <3>1. Value[s] \in Int
      BY <2>1
    <3>2. n % Base = b /\ n \div Base = Value[s]
      BY <3>1, Quotient
    <3>3. b \in Nat /\ Base * Value[s] \in Nat
      BY <2>1, BytesAreFinite
    <3>4. n \in Nat
      BY <3>3
    <3> QED
      BY <3>2, <3>4
  <2>3. Digits[n] = IF n = 0 THEN << >> ELSE <<b>> \o d
    BY <2>2, DigitsIs
  <2>4. d \in Seq(Byte) /\ Len(d) <= Len(s) /\ (Len(d) = Len(s) => d = s)
    BY <2>1, DigitsType
  <2> HIDE DEF n, d
  <2>5. /\ <<b>> \o s \in Seq(Byte) /\ Len(<<b>> \o s) = Len(s) + 1
        /\ Len(<<b>> \o d) = Len(d) + 1
    BY <2>4
  <2>6. /\ Len(Digits[n]) <= Len(<<b>> \o s)
        /\ Len(Digits[n]) = Len(<<b>> \o s) => Digits[n] = <<b>> \o s
    BY <2>3, <2>4, <2>5
  <2> QED
    BY <2>1, <2>5, <2>6
<1>3. Seq(Byte) \subseteq Minimal
  <2> HIDE DEF Minimal
  <2> QED
    BY <1>1, <1>2, SequenceInduction
<1> QED
  BY <1>3

----------------------------------------------------------------------------
(* CScriptNum.                                                              *)

(* The sign is the highest bit of a byte.                                   *)
LEMMA SignIsHalf == SignBit \in Nat \ {0} /\ Base = 2 * SignBit
<1>1. Base \in Nat /\ Base > 4 /\ Base % 2 = 0
  BY BaseAssumption
<1>2. Base = 2 * (Base \div 2) + (Base % 2) /\ Base \div 2 \in Int
  BY <1>1, DivisionIs
<1> QED
  BY <1>1, <1>2 DEF SignBit

(* A byte is its sign and what is left of it.                               *)
LEMMA SignIsApart ==
  /\ \A b \in Byte : b % SignBit = (IF b >= SignBit THEN b - SignBit ELSE b)
  /\ \A b \in Byte : b % SignBit \in Byte /\ b % SignBit < SignBit
  /\ \A b \in Byte : b < SignBit => b + SignBit \in Byte
<1>1. ASSUME NEW b \in Byte
      PROVE  b % SignBit = (IF b >= SignBit THEN b - SignBit ELSE b)
  <2>1. b \in Int /\ 0 <= b /\ b < 2 * SignBit /\ SignBit \in Nat \ {0}
    BY SignIsHalf, BytesAreFinite
  <2>2. b % SignBit \in 0 .. SignBit - 1 /\ b \div SignBit \in Int
        /\ b = SignBit * (b \div SignBit) + (b % SignBit)
    BY <2>1, DivisionIs
  <2>3. \A q \in Int : /\ q <= -1 => SignBit * q <= -SignBit
                       /\ q >= 2 => SignBit * q >= 2 * SignBit
    BY <2>1, SMTT(60)
  <2>4. b \div SignBit \in {0, 1}
    BY <2>1, <2>2, <2>3, SMTT(60)
  <2> QED
    BY <2>1, <2>2, <2>4
<1>2. \A b \in Byte : b \in Int /\ 0 <= b /\ b < 2 * SignBit
  BY SignIsHalf, BytesAreFinite, SMTT(60)
<1>3. \A b \in Int : 0 <= b /\ b < 2 * SignBit => b \in Byte
  BY SignIsHalf, BytesAreFinite
<1>4. ASSUME NEW b \in Byte
      PROVE  b % SignBit \in Int /\ 0 <= b % SignBit /\ b % SignBit < SignBit
  <2>1. b \in Int /\ 0 <= b /\ b < 2 * SignBit /\ SignBit \in Nat
    BY <1>2, SignIsHalf
  <2>2. b % SignBit = (IF b >= SignBit THEN b - SignBit ELSE b)
    BY <1>1
  <2> QED
    BY <2>1, <2>2
<1>5. \A b \in Byte : b % SignBit \in Byte
  BY <1>3, <1>4, SignIsHalf
<1>6. \A b \in Byte : b < SignBit => b + SignBit \in Byte
  <2> SUFFICES ASSUME NEW b \in Byte, b < SignBit PROVE b + SignBit \in Byte
    OBVIOUS
  <2>1. b \in Int /\ 0 <= b /\ SignBit \in Nat
    BY <1>2, SignIsHalf
  <2> QED
    BY <1>3, <2>1
<1> QED
  BY <1>1, <1>4, <1>5, <1>6

(* To replace the last element is to append another one.                    *)
LEMMA LastReplaced ==
  ASSUME NEW S, NEW s \in Seq(S), NEW e \in S, NEW d \in S
  PROVE  [Append(s, e) EXCEPT ![Len(s) + 1] = d] = Append(s, d)
<1> DEFINE t == [Append(s, e) EXCEPT ![Len(s) + 1] = d]
<1>1. /\ Append(s, d) \in Seq(S) /\ Len(Append(s, d)) = Len(s) + 1
      /\ \A i \in 1 .. Len(s) : Append(s, d)[i] = s[i]
      /\ Append(s, d)[Len(s) + 1] = d
  OBVIOUS
<1>2. /\ t \in Seq(S) /\ Len(t) = Len(s) + 1
      /\ \A i \in 1 .. Len(s) : t[i] = s[i]
      /\ t[Len(s) + 1] = d
  <2>1. PICK u : u = Append(s, e)
    OBVIOUS
  <2>2. /\ u \in Seq(S) /\ Len(u) = Len(s) + 1 /\ Len(s) \in Nat
        /\ \A i \in 1 .. Len(s) : u[i] = s[i]
    BY <2>1
  <2>3. Len(s) + 1 \in 1 .. Len(u)
    BY <2>2
  <2>4. PICK k \in 1 .. Len(u) : k = Len(s) + 1
    BY <2>3
  <2>5. t = [u EXCEPT ![k] = d]
    BY <2>1, <2>4
  <2> HIDE DEF t
  <2>6. t \in Seq(S) /\ Len(t) = Len(u)
    BY <2>2, <2>4, <2>5, ExceptSeq
  <2>7. \A i \in 1 .. Len(u) : t[i] = IF i = k THEN d ELSE u[i]
    BY <2>2, <2>4, <2>5, ExceptSeq
  <2> QED
    BY <2>2, <2>3, <2>4, <2>6, <2>7
<1>3. \A i \in 1 .. Len(t) : i \in 1 .. Len(s) \/ i = Len(s) + 1
  BY <1>2
<1> HIDE DEF t
<1>4. \A i \in 1 .. Len(t) : t[i] = Append(s, d)[i]
  BY <1>1, <1>2, <1>3
<1> QED
  BY <1>1, <1>2, <1>4, SeqEqual DEF t

(* A byte without value at the end adds nothing.                            *)
LEMMA ZeroAtEnd == \A s \in Seq(Byte) : Value[Append(s, 0)] = Value[s]
<1> DEFINE T == {s \in Seq(Byte) : Value[Append(s, 0)] = Value[s]}
<1>1. << >> \in T
  <2>1. Append(<< >>, 0) = <<0>> \o << >> /\ 0 \in Byte
    BY BytesAreFinite
  <2>2. Value[<<0>> \o << >>] = 0 + Base * Value[<< >>]
    BY <2>1, NothingIsZero, ValueBefore
  <2> QED
    BY <2>1, <2>2, NothingIsZero, BytesAreFinite
<1>2. \A b \in Byte, s \in Seq(Byte) : s \in T => <<b>> \o s \in T
  <2> SUFFICES ASSUME NEW b \in Byte, NEW s \in Seq(Byte), Value[Append(s, 0)] = Value[s]
               PROVE  <<b>> \o s \in Seq(Byte)
                      /\ Value[Append(<<b>> \o s, 0)] = Value[<<b>> \o s]
    OBVIOUS
  <2>1. Append(<<b>> \o s, 0) = <<b>> \o Append(s, 0) /\ Append(s, 0) \in Seq(Byte)
    BY BytesAreFinite
  <2>2. Value[<<b>> \o Append(s, 0)] = b + Base * Value[Append(s, 0)]
    BY <2>1, ValueBefore
  <2>3. Value[<<b>> \o s] = b + Base * Value[s] /\ <<b>> \o s \in Seq(Byte)
    BY ValueBefore
  <2> QED
    BY <2>1, <2>2, <2>3
<1>3. Seq(Byte) \subseteq T
  <2> HIDE DEF T
  <2> QED
    BY <1>1, <1>2, SequenceInduction
<1> QED
  BY <1>3

(* The three forms of a number.                                             *)
LEMMA ZeroIsNothing == EncodeScriptNum(0) = << >>
BY DEF EncodeScriptNum

(* How encodeScriptNum writes a number that is not zero: a sign gets a byte *)
(* of its own if the highest bit of the magnitude is taken.                 *)
LEMMA NumberIs ==
  ASSUME NEW v \in Int, v # 0,
         NEW m, m = Digits[Abs(v)], NEW sign, sign = (IF v < 0 THEN SignBit ELSE 0)
  PROVE  /\ m \in Seq(Byte) /\ Len(m) \in Nat \ {0} /\ m[Len(m)] \in Byte
         /\ Abs(v) \in Nat /\ Value[m] = Abs(v)
         /\ EncodeScriptNum(v) =
              IF m[Len(m)] >= SignBit THEN Append(m, sign)
              ELSE [m EXCEPT ![Len(m)] = m[Len(m)] + sign]
<1>1. Abs(v) \in Nat \ {0}
  BY DEF Abs
<1>2. m \in Seq(Byte) /\ Value[m] = Abs(v)
  BY <1>1, DigitsType, DigitsAreRead
<1>3. m # << >>
  <2>1. m = <<Abs(v) % Base>> \o Digits[Abs(v) \div Base]
    BY <1>1, DigitsIs
  <2>2. Abs(v) % Base \in Byte /\ Digits[Abs(v) \div Base] \in Seq(Byte)
    BY <1>1, HigherBytes, DigitsType
  <2> QED
    BY <2>1, <2>2, OneBefore
<1>4. Len(m) \in Nat \ {0} /\ m[Len(m)] \in Byte
  BY <1>2, <1>3
<1>5. m[Len(m)] >= SignBit => EncodeScriptNum(v) = Append(m, sign)
  BY DEF EncodeScriptNum
<1>6. ~(m[Len(m)] >= SignBit) => EncodeScriptNum(v) = [m EXCEPT ![Len(m)] = m[Len(m)] + sign]
  BY DEF EncodeScriptNum
<1> QED
  BY <1>1, <1>2, <1>4, <1>5, <1>6

Masked(s) == [s EXCEPT ![Len(s)] = s[Len(s)] % SignBit]

(* How decodeScriptNum reads bytes: without the highest bit of the last     *)
(* one, which is the sign.                                                  *)
LEMMA NumberRead ==
  ASSUME NEW s \in Seq(Byte), s # << >>
  PROVE  DecodeScriptNum(s) =
           IF Len(s) > MaxNumSize THEN {}
           ELSE {IF s[Len(s)] >= SignBit THEN -Value[Masked(s)] ELSE Value[Masked(s)]}
<1>1. Len(s) \in Nat \ {0}
  OBVIOUS
<1> QED
  BY <1>1 DEF DecodeScriptNum, Masked

(* decodeScriptNum undoes encodeScriptNum, up to the size it accepts.       *)
LEMMA NumberSurvives ==
  ASSUME NEW v \in Int
  PROVE  /\ EncodeScriptNum(v) \in Seq(Byte)
         /\ DecodeScriptNum(EncodeScriptNum(v)) =
               IF Len(EncodeScriptNum(v)) <= MaxNumSize THEN {v} ELSE {}
<1>1. CASE v = 0
  <2>1. DecodeScriptNum(<< >>) = {0}
    BY DEF DecodeScriptNum, MaxNumSize
  <2> QED
    <3>1. << >> \in Seq(Byte) /\ Len(<< >>) <= 8
      OBVIOUS
    <3>2. EncodeScriptNum(v) = << >>
      BY <1>1, ZeroIsNothing
    <3> QED
      BY <1>1, <2>1, <3>1, <3>2 DEF MaxNumSize
<1>2. CASE v # 0
  <2>1. PICK m, sign, e : /\ m = Digits[Abs(v)] /\ sign = (IF v < 0 THEN SignBit ELSE 0)
                          /\ e = EncodeScriptNum(v)
    OBVIOUS
  <2>2. /\ m \in Seq(Byte) /\ Len(m) \in Nat \ {0} /\ m[Len(m)] \in Byte
        /\ Abs(v) \in Nat /\ Value[m] = Abs(v)
        /\ e = IF m[Len(m)] >= SignBit THEN Append(m, sign)
               ELSE [m EXCEPT ![Len(m)] = m[Len(m)] + sign]
    BY <1>2, <2>1, NumberIs
  <2>3. sign \in Byte
    BY <2>1, SignIsHalf, BytesAreFinite
  <2>4. /\ e \in Seq(Byte) /\ e # << >> /\ (e[Len(e)] >= SignBit <=> v < 0)
        /\ Value[Masked(e)] = Value[m]
    <3>1. CASE m[Len(m)] >= SignBit
      <4>1. e = Append(m, sign)
        BY <2>2, <3>1
      <4>2. e \in Seq(Byte) /\ e # << >> /\ Len(e) = Len(m) + 1 /\ e[Len(e)] = sign
        BY <2>2, <2>3, <4>1
      <4>3. sign % SignBit = 0
        BY <2>1, <2>3, SignIsApart, SignIsHalf
      <4>4. Masked(e) = Append(m, 0)
        <5>1. Masked(e) = [e EXCEPT ![Len(m) + 1] = 0]
          BY <4>2, <4>3 DEF Masked
        <5>2. [Append(m, sign) EXCEPT ![Len(m) + 1] = 0] = Append(m, 0)
          BY <2>2, <2>3, LastReplaced, BytesAreFinite, SMTT(60)
        <5> QED
          BY <4>1, <5>1, <5>2
      <4>5. Value[Masked(e)] = Value[m]
        BY <2>2, <4>4, ZeroAtEnd
      <4>6. sign >= SignBit <=> v < 0
        BY <2>1, SignIsHalf
      <4> QED
        BY <4>2, <4>5, <4>6
    <3>2. CASE ~(m[Len(m)] >= SignBit)
      <4>1. e = [m EXCEPT ![Len(m)] = m[Len(m)] + sign]
        BY <2>2, <3>2
      <4>2. m[Len(m)] \in Int /\ 0 <= m[Len(m)] /\ m[Len(m)] < SignBit /\ SignBit \in Nat
        BY <2>2, <3>2, SignIsHalf, BytesAreFinite
      <4>3. m[Len(m)] + sign \in Byte
        <5>1. m[Len(m)] + 0 = m[Len(m)] /\ m[Len(m)] + SignBit \in Byte
          BY <2>2, <4>2, SignIsApart
        <5> QED
          BY <2>1, <2>2, <5>1
      <4>4. e \in Seq(Byte) /\ e # << >> /\ Len(e) = Len(m) /\ e[Len(e)] = m[Len(m)] + sign
        BY <2>2, <4>1, <4>3
      <4>5. (m[Len(m)] + sign) % SignBit = m[Len(m)]
        <5>1. PICK b : b = m[Len(m)] + sign
          OBVIOUS
        <5>2. b \in Byte /\ b % SignBit = (IF b >= SignBit THEN b - SignBit ELSE b)
          BY <4>3, <5>1, SignIsApart
        <5>3. v < 0 => b = m[Len(m)] + SignBit
          BY <2>1, <5>1
        <5>4. ~(v < 0) => b = m[Len(m)]
          BY <2>1, <4>2, <5>1
        <5> QED
          BY <4>2, <5>1, <5>2, <5>3, <5>4
      <4>6. Masked(e) = m
        BY <2>2, <4>1, <4>4, <4>5 DEF Masked
      <4> QED
        BY <2>1, <4>2, <4>4, <4>6
    <3> QED
      BY <3>1, <3>2
  <2>5. v = IF v < 0 THEN -Abs(v) ELSE Abs(v)
    BY DEF Abs
  <2>6. DecodeScriptNum(e) = IF Len(e) > MaxNumSize THEN {}
          ELSE {IF e[Len(e)] >= SignBit THEN -Value[Masked(e)] ELSE Value[Masked(e)]}
    BY <2>4, NumberRead
  <2>7. Len(e) \in Nat
    BY <2>4
  <2> QED
    <3>1. (IF e[Len(e)] >= SignBit THEN -Value[Masked(e)] ELSE Value[Masked(e)]) = v
      BY <2>2, <2>4, <2>5
    <3>2. Len(e) > MaxNumSize <=> ~(Len(e) <= MaxNumSize)
      BY <2>7 DEF MaxNumSize
    <3>3. DecodeScriptNum(e) = IF Len(e) <= MaxNumSize THEN {v} ELSE {}
      BY <2>6, <3>1, <3>2, Zenon
    <3> QED
      BY <2>1, <2>4, <3>3
<1> QED
  BY <1>1, <1>2

(* encodeScriptNum needs no more bytes than decodeScriptNum read.           *)
LEMMA NumberIsShortest ==
  ASSUME NEW s \in Seq(Byte), NEW n \in DecodeScriptNum(s)
  PROVE  n \in Int /\ Len(EncodeScriptNum(n)) <= Len(s)
<1>1. CASE s = << >>
  <2>1. DecodeScriptNum(<< >>) = {0}
    BY DEF DecodeScriptNum, MaxNumSize
  <2> QED
    BY <1>1, <2>1, ZeroIsNothing
<1>2. CASE s # << >>
  <2>1. PICK m : m = Masked(s)
    OBVIOUS
  <2>2. Len(s) \in Nat \ {0} /\ s[Len(s)] \in Byte
    BY <1>2
  <2>3. s[Len(s)] % SignBit \in Byte /\ s[Len(s)] % SignBit < SignBit
    BY <2>2, SignIsApart
  <2>4. m \in Seq(Byte) /\ Len(m) = Len(s) /\ m[Len(s)] < SignBit
    BY <2>1, <2>2, <2>3 DEF Masked
  <2>5. Value[m] \in Nat
    BY <2>4, ValueType
  <2>6. n \in {Value[m], -Value[m]}
    BY <1>2, <2>1, NumberRead
  <2>7. n \in Int /\ Abs(n) = Value[m]
    BY <2>5, <2>6 DEF Abs
  <2>8. CASE n = 0
    BY <2>2, <2>8, ZeroIsNothing
  <2>9. CASE n # 0
    <3>1. PICK d, sign : d = Digits[Abs(n)] /\ sign = (IF n < 0 THEN SignBit ELSE 0)
      OBVIOUS
    <3>2. /\ d \in Seq(Byte) /\ Len(d) \in Nat \ {0} /\ d[Len(d)] \in Byte
          /\ EncodeScriptNum(n) =
               IF d[Len(d)] >= SignBit THEN Append(d, sign)
               ELSE [d EXCEPT ![Len(d)] = d[Len(d)] + sign]
      BY <2>7, <2>9, <3>1, NumberIs, SMTT(60)
    <3>3. Len(d) <= Len(s) /\ (Len(d) = Len(s) => d = m)
      BY <2>4, <2>7, <3>1, DigitsAreShortest
    <3>4. d[Len(d)] >= SignBit => Len(d) + 1 <= Len(s)
      <4>1. SignBit \in Nat /\ d[Len(d)] \in Int
        BY <3>2, SignIsHalf, BytesAreFinite
      <4> QED
        BY <2>2, <2>4, <3>2, <3>3, <4>1
    <3>5. sign \in Byte
      BY <3>1, SignIsHalf, BytesAreFinite
    <3>6. Len(Append(d, sign)) = Len(d) + 1
      BY <3>2
    <3>7. Len([d EXCEPT ![Len(d)] = d[Len(d)] + sign]) = Len(d)
      BY <3>2
    <3> QED
      BY <2>7, <3>2, <3>3, <3>4, <3>6, <3>7
  <2> QED
    BY <2>7, <2>8, <2>9
<1> QED
  BY <1>1, <1>2

----------------------------------------------------------------------------
(* Numbers of a fixed width.                                                *)

(* The value of one byte.                                                   *)
LEMMA ValueOfOne == \A b \in Byte : Value[<<b>>] = b
<1> SUFFICES ASSUME NEW b \in Byte PROVE Value[<<b>>] = b
  OBVIOUS
<1>1. <<b>> = <<b>> \o << >> /\ << >> \in Seq(Byte)
  OBVIOUS
<1>2. Value[<<b>> \o << >>] = b + Base * Value[<< >>]
  BY <1>1, ValueBefore
<1> QED
  BY <1>1, <1>2, NothingIsZero, BytesAreFinite

(* LE and Power, one byte wider.                                            *)
LEMMA LENext ==
  ASSUME NEW w \in Nat, NEW n \in Int
  PROVE  /\ LE[0][n] = << >>
         /\ LE[w + 1][n] = <<n % Base>> \o LE[w][n \div Base]
         /\ Power[0] = 1 /\ Power[w + 1] = Base * Power[w]
<1>1. PICK k \in Nat : k = w + 1
  OBVIOUS
<1>2. k # 0 /\ k - 1 = w
  BY <1>1
<1>3. LE[k][n] = <<n % Base>> \o LE[k - 1][n \div Base]
  BY <1>2, LEIs
<1>4. Power[k] = Base * Power[k - 1]
  BY <1>2, PowerIs
<1>5. LE[0][n] = << >> /\ Power[0] = 1
  BY LEIs, PowerIs
<1> QED
  BY <1>1, <1>2, <1>3, <1>4, <1>5

(* A number of a fixed width has that many bytes.                           *)
LEMMA LEType ==
  \A w \in Nat, n \in Int : LE[w][n] \in Seq(Byte) /\ Len(LE[w][n]) = w
<1> DEFINE T == {w \in Nat : \A n \in Int : LE[w][n] \in Seq(Byte) /\ Len(LE[w][n]) = w}
<1>1. 0 \in T
  <2>1. \A n \in Int : LE[0][n] = << >>
    BY LEIs
  <2>2. << >> \in Seq(Byte) /\ Len(<< >>) = 0
    OBVIOUS
  <2>3. \A n \in Int : LE[0][n] \in Seq(Byte) /\ Len(LE[0][n]) = 0
    BY <2>1, <2>2
  <2> QED
    BY <2>3
<1>2. \A w \in T \cap Nat : w + 1 \in T
  <2> SUFFICES ASSUME NEW w \in Nat, NEW n \in Int,
                      \A k \in Int : LE[w][k] \in Seq(Byte) /\ Len(LE[w][k]) = w
               PROVE  LE[w + 1][n] \in Seq(Byte) /\ Len(LE[w + 1][n]) = w + 1
    OBVIOUS
  <2>1. LE[w + 1][n] = <<n % Base>> \o LE[w][n \div Base]
    BY LENext
  <2>2. n % Base \in Byte /\ n \div Base \in Int
    BY LowestByte
  <2> QED
    BY <2>1, <2>2, OneBefore
<1>3. Nat \subseteq T
  <2> HIDE DEF T
  <2> QED
    BY <1>1, <1>2, NumbersInduction
<1> QED
  BY <1>3

(* What fits is read back.                                                  *)
LEMMA LEIsRead ==
  \A w \in Nat, n \in Nat : n < Power[w] => Value[LE[w][n]] = n
<1> DEFINE T == {w \in Nat : \A n \in Nat : n < Power[w] => Value[LE[w][n]] = n}
<1>1. 0 \in T
  <2>1. \A n \in Int : LE[0][n] = << >>
    BY LEIs
  <2>3. Power[0] = 1
    BY PowerIs
  <2>2. \A n \in Nat : n < 1 => n = 0
    OBVIOUS
  <2> QED
    BY <2>1, <2>2, <2>3, NothingIsZero
<1>2. \A w \in T \cap Nat : w + 1 \in T
  <2> SUFFICES ASSUME NEW w \in Nat, NEW n \in Nat, n < Power[w + 1],
                      \A k \in Nat : k < Power[w] => Value[LE[w][k]] = k
               PROVE  Value[LE[w + 1][n]] = n
    OBVIOUS
  <2>0. n \in Int
    OBVIOUS
  <2>1. LE[w + 1][n] = <<n % Base>> \o LE[w][n \div Base]
    BY <2>0, LENext
  <2>2. /\ n % Base \in Byte /\ n \div Base \in Nat
        /\ n = Base * (n \div Base) + (n % Base)
    BY HigherBytes
  <2>3. Power[w + 1] = Base * Power[w] /\ Power[w] \in Nat
    BY <2>0, LENext, PowerType
  <2>4. n \div Base < Power[w]
    <3>1. \A q, k \in Nat : q >= k => Base * q >= Base * k
      BY BytesAreFinite
    <3>2. \A b \in Byte : b \in Int /\ 0 <= b
      BY BytesAreFinite
    <3> QED
      BY <2>2, <2>3, <3>1, <3>2, BytesAreFinite, SMTT(60)
  <2>5. Value[LE[w + 1][n]] = (n % Base) + Base * Value[LE[w][n \div Base]]
    BY <2>1, <2>2, LEType, ValueBefore
  <2>6. Value[LE[w][n \div Base]] = n \div Base
    BY <2>2, <2>4
  <2>7. \A b \in Byte : b \in Int
    BY BytesAreFinite
  <2> QED
    BY <2>2, <2>5, <2>6, <2>7, BytesAreFinite
<1>3. Nat \subseteq T
  <2> HIDE DEF T
  <2> QED
    BY <1>1, <1>2, NumbersInduction
<1> QED
  BY <1>3

(* What one and two bytes can count.                                        *)
LEMMA SmallPowers == Power[1] = Base /\ Power[2] = Base * Base
<1>1. Power[0] = 1 /\ Power[1] = Base * Power[0] /\ Power[2] = Base * Power[1]
  BY PowerIs
<1> QED
  BY <1>1, BytesAreFinite

----------------------------------------------------------------------------
(* The first operation of a script, and what comes after it.                *)
After(s) == 1 + SizeBytes(Head(s))

Size(s) == IF After(s) = 1 THEN Head(s) ELSE Value[SubSeq(s, 2, After(s))]

End(s) == After(s) + Size(s)

IsPush(s) == ~(Head(s) > OP_PUSHDATA4)

Whole(s) == Len(s) >= After(s) /\ Len(s) >= End(s)

FirstOp(s) ==
  [opcode |-> Head(s),
   data   |-> IF IsPush(s) THEN {SubSeq(s, After(s) + 1, End(s))} ELSE {}]

Rest(s) == IF IsPush(s) THEN SubSeq(s, End(s) + 1, Len(s)) ELSE Tail(s)

OpsOf(ops, script) ==
  IF script = << >> THEN << >>
  ELSE LET opcode == Head(script)
           after  == 1 + SizeBytes(opcode)
           size   == IF after = 1 THEN opcode ELSE Value[SubSeq(script, 2, after)]
           end    == after + size
       IN  CASE opcode > OP_PUSHDATA4 ->
                  <<[opcode |-> opcode, data |-> {}]>> \o ops[Tail(script)]
             [] opcode <= OP_PUSHDATA4 /\ Len(script) >= after /\ Len(script) >= end ->
                  <<[opcode |-> opcode, data |-> {SubSeq(script, after + 1, end)}]>>
                    \o ops[SubSeq(script, end + 1, Len(script))]
             [] OTHER -> <<Truncated>>

OpsBy(f) == f = [script \in Seq(Byte) |-> OpsOf(f, script)]

(* The opcodes are in order.                                                *)
LEMMA OpcodesType ==
  /\ OP_PUSHDATA1 \in Nat /\ OP_PUSHDATA2 \in Nat /\ OP_PUSHDATA4 \in Nat
  /\ OP_PUSHDATA1 < OP_PUSHDATA2 /\ OP_PUSHDATA2 < OP_PUSHDATA4
  /\ OP_PUSHDATA4 < OP_RETURN /\ OP_RETURN < Base /\ OP_RETURN \in Nat /\ 2 < OP_PUSHDATA1
BY OpcodesAssumption DEF OP_PUSHDATA2, OP_PUSHDATA4

(* One step of iterScript, by the named parts of the first operation.       *)
LEMMA OpsOfIs ==
  ASSUME NEW f, NEW s \in Seq(Byte), s # << >>
  PROVE  OpsOf(f, s) = IF ~IsPush(s) \/ Whole(s) THEN <<FirstOp(s)>> \o f[Rest(s)]
                       ELSE <<Truncated>>
<1>1. Head(s) \in Int /\ OP_PUSHDATA4 \in Int
  BY OpcodesType, BytesAreFinite
<1>2. CASE ~IsPush(s)
  BY <1>1, <1>2 DEF OpsOf, IsPush, FirstOp, Rest
<1>3. CASE IsPush(s) /\ Whole(s)
  <2>1. ~(Head(s) > OP_PUSHDATA4) /\ Head(s) <= OP_PUSHDATA4
    BY <1>1, <1>3 DEF IsPush
  <2>2. OpsOf(f, s) = <<[opcode |-> Head(s), data |-> {SubSeq(s, After(s) + 1, End(s))}]>>
                        \o f[SubSeq(s, End(s) + 1, Len(s))]
    BY <1>3, <2>1 DEF OpsOf, Whole, After, End, Size
  <2> QED
    BY <1>3, <2>2 DEF FirstOp, Rest
<1>4. CASE IsPush(s) /\ ~Whole(s)
  <2>1. ~(Head(s) > OP_PUSHDATA4)
    BY <1>1, <1>4 DEF IsPush
  <2> QED
    BY <1>4, <2>1 DEF OpsOf, Whole, After, End, Size
<1> QED
  BY <1>2, <1>3, <1>4

AnOp == [opcode : Int, data : SUBSET Seq(Byte)]

(* An operation is not empty, so iterScript gets closer to the end.         *)
LEMMA FirstOpType ==
  ASSUME NEW s \in Seq(Byte), s # << >>, ~IsPush(s) \/ Whole(s)
  PROVE  FirstOp(s) \in AnOp /\ Rest(s) \in Seq(Byte) /\ Len(Rest(s)) < Len(s)
<1>1. Head(s) \in Byte /\ Head(s) \in Int /\ Len(s) \in Nat \ {0}
  BY BytesAreFinite
<1>2. CASE ~IsPush(s)
  BY <1>1, <1>2 DEF FirstOp, Rest, AnOp
<1>3. CASE IsPush(s)
  <2>1. Whole(s)
    BY <1>3
  <2>2. After(s) \in {1, 2, 3, 5}
    BY DEF After, SizeBytes
  <2>3. Len(s) >= After(s) /\ Len(s) >= End(s)
    BY <2>1 DEF Whole
  <2>4. SubSeq(s, 2, After(s)) \in Seq(Byte)
    BY <1>1, <2>2, <2>3
  <2>5. Size(s) \in Nat
    <3>1. Value[SubSeq(s, 2, After(s))] \in Nat
      BY <2>4, ValueType
    <3>2. Head(s) \in Nat
      BY <1>1, BytesAreFinite
    <3> QED
      BY <3>1, <3>2 DEF Size
  <2>6. End(s) \in Nat /\ End(s) >= 1 /\ After(s) + 1 \in Nat
    BY <2>2, <2>5 DEF End
  <2>7. SubSeq(s, After(s) + 1, End(s)) \in Seq(Byte)
    BY <1>1, <2>2, <2>3, <2>6
  <2>8. SubSeq(s, End(s) + 1, Len(s)) \in Seq(Byte) /\ Len(SubSeq(s, End(s) + 1, Len(s))) < Len(s)
    BY <1>1, <2>3, <2>6
  <2> QED
    BY <1>1, <1>3, <2>7, <2>8 DEF FirstOp, Rest, AnOp
<1> QED
  BY <1>2, <1>3

(* Ops is defined: iterScript ends on every script.                         *)
LEMMA OpsExist == \E f : OpsBy(f)
<1> DEFINE D == Seq(Byte)
           V == Seq(AnOp)
           Goes(s) == s # << >> /\ (~IsPush(s) \/ Whole(s))
           base == {s \in D : ~Goes(s)}
           size == [s \in D |-> Len(s)]
           zero == [s \in D |-> IF s = << >> THEN << >> ELSE <<Truncated>>]
           prior == [s \in D |-> IF Goes(s) THEN Rest(s) ELSE s]
           step == [x \in D \X V |-> IF Goes(x[1]) THEN <<FirstOp(x[1])>> \o x[2] ELSE << >>]
<1>1. size \in [D -> Nat]
  OBVIOUS
<1>2. Truncated \in AnOp /\ zero \in [D -> V]
  <2>1. Truncated \in AnOp
    BY BytesAreFinite DEF Truncated, AnOp
  <2> QED
    BY <2>1
<1>3. \A s \in D : Goes(s) => FirstOp(s) \in AnOp /\ Rest(s) \in D /\ Len(Rest(s)) < Len(s)
  BY FirstOpType
<1>4. prior \in [D -> D]
  <2> HIDE DEF Goes, D
  <2> QED
    BY <1>3
<1>5. step \in [D \X V -> V]
  <2>1. ASSUME NEW s \in D, NEW v \in V, Goes(s)
        PROVE  <<FirstOp(s)>> \o v \in V
    <3>1. FirstOp(s) \in AnOp
      BY <1>3, <2>1
    <3> QED
      BY <3>1
  <2>2. << >> \in V
    OBVIOUS
  <2> HIDE DEF Goes, D, V
  <2> QED
    BY <2>1, <2>2
<1>6. \A s \in D \ base : size[prior[s]] < size[s]
  <2> HIDE DEF Goes
  <2> QED
    BY <1>3
<1>7. PICK f \in [D -> V] : Recursive(f, D, base, zero, prior, step)
  <2> HIDE DEF D, V, base, size, zero, prior, step
  <2> QED
    BY <1>1, <1>2, <1>4, <1>5, <1>6, RecursionExists
<1>8. ASSUME NEW s \in D
      PROVE  f[s] = OpsOf(f, s)
  <2>1. f[s] = IF s \in base THEN zero[s] ELSE step[<<s, f[prior[s]]>>]
    <3> HIDE DEF D, V, base, size, zero, prior, step
    <3> QED
      BY <1>7 DEF Recursive
  <2>2. CASE s = << >>
    <3>1. f[s] = << >>
      BY <2>1, <2>2
    <3> QED
      BY <2>2, <3>1 DEF OpsOf
  <2>3. CASE s # << >> /\ ~Goes(s)
    <3>1. f[s] = <<Truncated>>
      BY <2>1, <2>3
    <3> QED
      BY <2>3, <3>1, OpsOfIs
  <2>4. CASE Goes(s)
    <3>1. prior[s] = Rest(s) /\ Rest(s) \in D
      <4> HIDE DEF Goes, D
      <4> QED
        BY <1>3, <2>4
    <3>2. <<s, f[Rest(s)]>> \in D \X V
      <4> HIDE DEF D, V
      <4> QED
        BY <1>7, <3>1
    <3>3. step[<<s, f[Rest(s)]>>] = <<FirstOp(s)>> \o f[Rest(s)]
      <4> HIDE DEF Goes, D, V
      <4> QED
        BY <2>4, <3>2
    <3>4. f[s] = <<FirstOp(s)>> \o f[Rest(s)]
      <4>1. s \notin base
        BY <2>4, SMTT(60)
      <4> HIDE DEF D, V, base, size, zero, prior, step
      <4> QED
        BY <2>1, <3>1, <3>3, <4>1
    <3> QED
      BY <2>4, <3>4, OpsOfIs
  <2> QED
    BY <2>2, <2>3, <2>4
<1>9. f = [s \in D |-> f[s]]
  <2> HIDE DEF D, V
  <2> QED
    BY <1>7, SMTT(60)
<1> QED
  BY <1>8, <1>9 DEF OpsBy

(* One step of Ops.                                                         *)
LEMMA OpsIs ==
  /\ Ops[<< >>] = << >>
  /\ \A s \in Seq(Byte) : s # << >> =>
       Ops[s] = IF ~IsPush(s) \/ Whole(s) THEN <<FirstOp(s)>> \o Ops[Rest(s)] ELSE <<Truncated>>
<1>1. OpsBy(Ops)
  BY OpsExist, ZenonT(60) DEF OpsBy, OpsOf, Ops
<1>2. \A s \in Seq(Byte) : Ops[s] = OpsOf(Ops, s)
  BY <1>1 DEF OpsBy
<1>3. << >> \in Seq(Byte) /\ OpsOf(Ops, << >>) = << >>
  BY DEF OpsOf
<1> QED
  BY <1>2, <1>3, OpsOfIs, ZenonT(60)

(* The parts of a string that was put together. *)
AreParts(h, d, r, s) ==
  /\ s \in Seq(Byte) /\ s # << >> /\ Len(s) = Len(h) + Len(d) + Len(r)
  /\ Head(s) = Head(h)
  /\ SubSeq(s, 2, Len(h)) = Tail(h)
  /\ SubSeq(s, Len(h) + 1, Len(h) + Len(d)) = d
  /\ SubSeq(s, Len(h) + Len(d) + 1, Len(s)) = r

(* A header, data and what follows are found again by their lengths.        *)
LEMMA Parts ==
  ASSUME NEW h \in Seq(Byte), h # << >>, NEW d \in Seq(Byte), NEW r \in Seq(Byte),
         NEW s, s = h \o (d \o r)
  PROVE  AreParts(h, d, r, s)
<1>1. s \in Seq(Byte) /\ s # << >> /\ Len(s) = Len(h) + Len(d) + Len(r)
  OBVIOUS
<1>2. Head(s) = Head(h)
  OBVIOUS
<1>3. SubSeq(s, 2, Len(h)) = Tail(h)
  OBVIOUS
<1>4. SubSeq(s, Len(h) + 1, Len(h) + Len(d)) = d
  OBVIOUS
<1>5. SubSeq(s, Len(h) + Len(d) + 1, Len(s)) = r
  OBVIOUS
<1> QED
  BY <1>1, <1>2, <1>3, <1>4, <1>5 DEF AreParts

(* The forms of a header. *)
LEMMA HeaderForms ==
  ASSUME NEW n \in Nat
  PROVE  PushHeader(n) = IF n < OP_PUSHDATA1 THEN <<n>>
                         ELSE IF n < Base THEN <<OP_PUSHDATA1, n>>
                         ELSE IF n < Base * Base THEN <<OP_PUSHDATA2>> \o LE[2][n]
                         ELSE <<OP_PUSHDATA4>> \o LE[4][n]
<1>1. OP_PUSHDATA1 \in Nat /\ OP_PUSHDATA1 < Base /\ Base \in Nat
  BY OpcodesType, BytesAreFinite
<1>2. PICK square \in Nat : square = Base * Base /\ square >= Base
  BY BaseAssumption
<1>3. CASE n < OP_PUSHDATA1
  <2>1. ~(n >= OP_PUSHDATA1) /\ ~(n >= Base)
    BY <1>1, <1>3
  <2> QED
    BY <1>3, <2>1 DEF PushHeader
<1>4. CASE ~(n < OP_PUSHDATA1) /\ n < Base
  <2>1. n >= OP_PUSHDATA1 /\ ~(n >= Base)
    BY <1>1, <1>4
  <2> QED
    BY <1>4, <2>1 DEF PushHeader
<1>5. CASE ~(n < OP_PUSHDATA1) /\ ~(n < Base) /\ n < square
  <2>1. n >= Base
    BY <1>1, <1>5
  <2> QED
    BY <1>2, <1>5, <2>1 DEF PushHeader
<1>6. CASE ~(n < square)
  <2>1. ~(n < Base) /\ ~(n < OP_PUSHDATA1) /\ n >= Base
    BY <1>1, <1>2, <1>6
  <2> QED
    BY <1>2, <1>6, <2>1 DEF PushHeader
<1> QED
  BY <1>2, <1>3, <1>4, <1>5, <1>6

HeaderOf(h, n) ==
  /\ h \in Seq(Byte) /\ h # << >>
  /\ ~(Head(h) > OP_PUSHDATA4)
  /\ Len(h) = 1 + SizeBytes(Head(h))
  /\ n = IF Len(h) = 1 THEN Head(h) ELSE Value[Tail(h)]

(* A size after the opcode that tells how wide it is. *)
LEMMA SizedHeader ==
  ASSUME NEW opcode \in Byte, ~(opcode > OP_PUSHDATA4),
         NEW size \in Seq(Byte), size # << >>, Len(size) = SizeBytes(opcode)
  PROVE  HeaderOf(<<opcode>> \o size, Value[size])
<1>1. PICK h : h = <<opcode>> \o size
  OBVIOUS
<1>2. h \in Seq(Byte) /\ h # << >> /\ Len(h) = Len(size) + 1
  BY <1>1, OneBefore
<1>3. Head(h) = opcode /\ Tail(h) = size
  BY <1>1, OneBefore
<1>4. Len(size) \in Nat /\ Len(size) # 0
  OBVIOUS
<1>5. Len(h) # 1 /\ Len(h) = 1 + SizeBytes(opcode)
  BY <1>2, <1>4
<1> QED
  BY <1>1, <1>2, <1>3, <1>5 DEF HeaderOf

(* The header of a push says how long it is.                                *)
LEMMA HeaderIs ==
  ASSUME NEW n \in Nat, n < Power[4]
  PROVE  HeaderOf(PushHeader(n), n)
<1>0. Power[2] = Base * Base /\ Power[2] \in Nat /\ Base \in Nat /\ n \in Int
  BY SmallPowers, BytesAreFinite, PowerType
<1>1. CASE n < OP_PUSHDATA1
  <2>1. PushHeader(n) = <<n>>
    BY <1>1, HeaderForms
  <2>2. n \in Byte /\ SizeBytes(n) = 0 /\ ~(n > OP_PUSHDATA4)
    BY <1>1, OpcodesType, BytesAreFinite DEF SizeBytes
  <2> QED
    BY <2>1, <2>2 DEF HeaderOf
<1>2. CASE ~(n < OP_PUSHDATA1) /\ n < Base
  <2>1. n \in Byte /\ OP_PUSHDATA1 \in Byte /\ SizeBytes(OP_PUSHDATA1) = 1
    BY <1>2, OpcodesType, BytesAreFinite DEF SizeBytes
  <2>2. PushHeader(n) = <<OP_PUSHDATA1>> \o <<n>>
    BY <1>2, <2>1, HeaderForms
  <2>3. Value[<<n>>] = n
    BY <2>1, ValueOfOne
  <2>4. ~(OP_PUSHDATA1 > OP_PUSHDATA4)
    BY OpcodesType
  <2>5. HeaderOf(<<OP_PUSHDATA1>> \o <<n>>, Value[<<n>>])
    <3>1. PICK size : size = <<n>>
      OBVIOUS
    <3>2. size \in Seq(Byte) /\ size # << >> /\ Len(size) = 1
      BY <2>1, <3>1
    <3>3. HeaderOf(<<OP_PUSHDATA1>> \o size, Value[size])
      BY <2>1, <2>4, <3>2, SizedHeader
    <3> QED
      BY <3>1, <3>3
  <2> QED
    BY <2>2, <2>3, <2>5
<1>3. CASE ~(n < OP_PUSHDATA1) /\ ~(n < Base) /\ n < Power[2]
  <2>1. OP_PUSHDATA2 \in Byte /\ SizeBytes(OP_PUSHDATA2) = 2 /\ ~(OP_PUSHDATA2 > OP_PUSHDATA4)
    BY OpcodesType, BytesAreFinite DEF SizeBytes
  <2>2. PushHeader(n) = <<OP_PUSHDATA2>> \o LE[2][n]
    BY <1>0, <1>3, HeaderForms
  <2>3. LE[2][n] \in Seq(Byte) /\ Len(LE[2][n]) = 2
    BY <1>0, LEType
  <2>4. Value[LE[2][n]] = n
    BY <1>3, LEIsRead
  <2>5. HeaderOf(<<OP_PUSHDATA2>> \o LE[2][n], Value[LE[2][n]])
    <3>1. PICK size : size = LE[2][n]
      OBVIOUS
    <3>2. size \in Seq(Byte) /\ Len(size) = 2
      BY <2>3, <3>1
    <3>4. size # << >>
      BY <3>2, SMTT(60)
    <3>3. HeaderOf(<<OP_PUSHDATA2>> \o size, Value[size])
      BY <2>1, <3>2, <3>4, SizedHeader
    <3> QED
      BY <3>1, <3>3
  <2> QED
    BY <2>2, <2>4, <2>5
<1>4. CASE ~(n < Power[2])
  <2>0. ~(n < OP_PUSHDATA1) /\ ~(n < Base) /\ ~(n < Base * Base)
    <3>1. Base * Base >= Base
      BY BaseAssumption
    <3>2. ~(n < Base) /\ ~(n < Base * Base)
      BY <1>0, <1>4, <3>1
    <3> QED
      BY <1>0, <3>2, OpcodesType
  <2>1. OP_PUSHDATA4 \in Byte /\ SizeBytes(OP_PUSHDATA4) = 4 /\ ~(OP_PUSHDATA4 > OP_PUSHDATA4)
    BY OpcodesType, BytesAreFinite DEF SizeBytes
  <2>2. PushHeader(n) = <<OP_PUSHDATA4>> \o LE[4][n]
    BY <2>0, HeaderForms
  <2>3. LE[4][n] \in Seq(Byte) /\ Len(LE[4][n]) = 4
    BY <1>0, LEType
  <2>4. Value[LE[4][n]] = n
    BY LEIsRead
  <2>5. HeaderOf(<<OP_PUSHDATA4>> \o LE[4][n], Value[LE[4][n]])
    <3>1. PICK size : size = LE[4][n]
      OBVIOUS
    <3>2. size \in Seq(Byte) /\ Len(size) = 4
      BY <2>3, <3>1
    <3>4. size # << >>
      BY <3>2, SMTT(60)
    <3>3. HeaderOf(<<OP_PUSHDATA4>> \o size, Value[size])
      BY <2>1, <3>2, <3>4, SizedHeader
    <3> QED
      BY <3>1, <3>3
  <2> QED
    BY <2>2, <2>4, <2>5
<1> QED
  BY <1>1, <1>2, <1>3, <1>4

(* iterScript reads the push at the beginning of a script, and goes on after *)
(* it.                                                                       *)
LEMMA PushIsRead ==
  ASSUME NEW data \in Seq(Byte), Len(data) < Power[4], NEW r \in Seq(Byte)
  PROVE  /\ PushData(data) \in Seq(Byte)
         /\ \E opcode \in Int :
               /\ opcode <= OP_PUSHDATA4
               /\ Ops[PushData(data) \o r]
                     = <<[opcode |-> opcode, data |-> {data}]>> \o Ops[r]
<1>1. PICK h : h = PushHeader(Len(data))
  OBVIOUS
<1>2. Len(data) \in Nat
  OBVIOUS
<1>3. HeaderOf(h, Len(data))
  BY <1>1, <1>2, HeaderIs
<1>4. h \in Seq(Byte) /\ h # << >> /\ Head(h) \in Byte /\ Len(h) \in Nat
  <2>1. h \in Seq(Byte) /\ h # << >>
    BY <1>3 DEF HeaderOf
  <2> QED
    BY <2>1
<1>5. PICK s : s = h \o (data \o r)
  OBVIOUS
<1>6. PushData(data) = h \o data /\ h \o data \in Seq(Byte) /\ s = PushData(data) \o r
  BY <1>1, <1>4, <1>5, SMTT(60) DEF PushData
<1>7. /\ s \in Seq(Byte) /\ s # << >> /\ Len(s) = Len(h) + Len(data) + Len(r)
      /\ Head(s) = Head(h)
      /\ SubSeq(s, 2, Len(h)) = Tail(h)
      /\ SubSeq(s, Len(h) + 1, Len(h) + Len(data)) = data
      /\ SubSeq(s, Len(h) + Len(data) + 1, Len(s)) = r
  <2>1. h \in Seq(Byte) /\ h # << >>
    BY <1>4
  <2>2. AreParts(h, data, r, s)
    BY <2>1, <1>5, Parts
  <2> QED
    BY <2>2 DEF AreParts
<1>8. After(s) = Len(h)
  BY <1>3, <1>7 DEF After, HeaderOf
<1>9. Size(s) = Len(data)
  BY <1>3, <1>7, <1>8 DEF Size, HeaderOf
<1>10. End(s) = Len(h) + Len(data)
  BY <1>8, <1>9 DEF End
<1>11. IsPush(s) /\ Whole(s)
  <2>1. Len(h) \in Nat /\ Len(data) \in Nat /\ Len(r) \in Nat
    BY <1>4
  <2>2. Len(s) >= After(s) /\ Len(s) >= End(s)
    BY <1>7, <1>8, <1>10, <2>1
  <2>3. IsPush(s)
    BY <1>3, <1>7 DEF IsPush, HeaderOf
  <2> QED
    BY <2>2, <2>3 DEF Whole
<1>12. Ops[s] = <<FirstOp(s)>> \o Ops[Rest(s)]
  BY <1>7, <1>11, OpsIs
<1>13. Rest(s) = r /\ FirstOp(s) = [opcode |-> Head(h), data |-> {data}]
  BY <1>7, <1>8, <1>10, <1>11 DEF Rest, FirstOp
<1>14. Head(h) <= OP_PUSHDATA4 /\ Head(h) \in Int
  BY <1>3, <1>4, OpcodesType, BytesAreFinite DEF HeaderOf
<1>15. Ops[PushData(data) \o r] = <<[opcode |-> Head(h), data |-> {data}]>> \o Ops[r]
  BY <1>6, <1>12, <1>13
<1> QED
  BY <1>6, <1>14, <1>15

(* The same, one step after the other.                                      *)
Iterates(f, V, lo, hi, zero, step) ==
  /\ f \in [lo .. hi -> V]
  /\ \A i \in lo .. hi : f[i] = IF i = lo THEN zero ELSE step[<<i, f[i - 1]>>]

(* A loop over an interval that steps from a value to the next one.         *)
LEMMA IterationExists ==
  ASSUME NEW V, NEW lo \in Int, NEW hi \in Int, NEW zero \in V,
         NEW step \in [(lo .. hi) \X V -> V]
  PROVE  \E f : Iterates(f, V, lo, hi, zero, step)
<1> DEFINE D == lo .. hi
           base == {lo}
           size == [i \in D |-> i - lo]
           zeros == [i \in D |-> zero]
           prior == [i \in D |-> IF i = lo THEN i ELSE i - 1]
<1>1. /\ size \in [D -> Nat] /\ zeros \in [D -> V] /\ prior \in [D -> D]
      /\ step \in [D \X V -> V]
  OBVIOUS
<1>2. \A i \in D \ base : size[prior[i]] < size[i]
  OBVIOUS
<1>3. PICK f \in [D -> V] : Recursive(f, D, base, zeros, prior, step)
  <2> HIDE DEF D, base, size, zeros, prior
  <2> QED
    BY <1>1, <1>2, RecursionExists
<1>4. ASSUME NEW i \in D
      PROVE  f[i] = IF i = lo THEN zero ELSE step[<<i, f[i - 1]>>]
  <2>1. i # lo => prior[i] = i - 1
    OBVIOUS
  <2>2. f[i] = IF i \in base THEN zeros[i] ELSE step[<<i, f[prior[i]]>>]
    BY <1>3, Zenon DEF Recursive
  <2>3. i \in base <=> i = lo
    OBVIOUS
  <2>4. zeros[i] = zero
    OBVIOUS
  <2> QED
    BY <2>1, <2>2, <2>3, <2>4
<1>5. Iterates(f, V, lo, hi, zero, step)
  BY <1>3, <1>4 DEF Iterates
<1> QED
  BY <1>5

----------------------------------------------------------------------------
(* The concatenation of strings.                                            *)
LEMMA Associative ==
  ASSUME NEW a \in Seq(Byte), NEW b \in Seq(Byte), NEW c \in Seq(Byte)
  PROVE  (a \o b) \o c = a \o (b \o c) /\ a \o b \in Seq(Byte)
OBVIOUS

FlattenBy(f, s, n) ==
  f = [i \in 1 .. n |-> IF i = 1 THEN s[i] ELSE f[i - 1] \o s[i]]

AreStrings(s, n) == \A i \in 1 .. n : s[i] \in Seq(Byte)

Flattens(f, s, n) ==
  /\ f[1] = s[1]
  /\ \A i \in 1 .. n : i # 1 => f[i] = f[i - 1] \o s[i]
  /\ \A i \in 1 .. n : f[i] \in Seq(Byte)

(* The concatenation of strings is defined, one string after the other.     *)
LEMMA FlattenExists ==
  ASSUME NEW n \in Nat \ {0}, NEW s, AreStrings(s, n)
  PROVE  \E f : FlattenBy(f, s, n)
<1> DEFINE V == Seq(Byte)
           step == [x \in (1 .. n) \X V |-> x[2] \o s[x[1]]]
<1>1. 1 \in Int /\ n \in Int /\ s[1] \in V
  BY DEF AreStrings
<1>2. step \in [(1 .. n) \X V -> V]
  <2>1. \A i \in 1 .. n, v \in V : v \o s[i] \in V
    BY DEF AreStrings
  <2> HIDE DEF V
  <2> QED
    BY <2>1
<1>3. PICK f \in [1 .. n -> V] :
        \A i \in 1 .. n : f[i] = IF i = 1 THEN s[1] ELSE step[<<i, f[i - 1]>>]
  <2> HIDE DEF V, step
  <2> QED
    <3>1. PICK f : Iterates(f, V, 1, n, s[1], step)
      BY <1>1, <1>2, IterationExists
    <3> QED
      BY <3>1 DEF Iterates
<1>4. ASSUME NEW i \in 1 .. n, i # 1
      PROVE  step[<<i, f[i - 1]>>] = f[i - 1] \o s[i]
  <2>1. f[i - 1] \in V
    <3> HIDE DEF V
    <3>1. i - 1 \in 1 .. n
      BY <1>4
    <3> QED
      BY <1>3, <3>1
  <2> HIDE DEF V
  <2> QED
    BY <2>1
<1>5. \A i \in 1 .. n : f[i] = IF i = 1 THEN s[i] ELSE f[i - 1] \o s[i]
  <2> HIDE DEF V, step
  <2> QED
    BY <1>3, <1>4
<1>6. f = [i \in 1 .. n |-> f[i]]
  <2> HIDE DEF V
  <2> QED
    BY <1>3
<1>7. FlattenBy(f, s, n)
  BY <1>5, <1>6, Zenon DEF FlattenBy
<1> QED
  BY <1>7

(* What the concatenation is after each string.                             *)
LEMMA FlattenSteps ==
  ASSUME NEW n \in Nat \ {0}, NEW s, AreStrings(s, n), NEW f, FlattenBy(f, s, n)
  PROVE  Flattens(f, s, n)
<1>1. \A i \in 1 .. n : f[i] = IF i = 1 THEN s[i] ELSE f[i - 1] \o s[i]
  BY DEF FlattenBy
<1>2. f[1] = s[1] /\ \A i \in 1 .. n : i # 1 => f[i] = f[i - 1] \o s[i]
  <2>1. 1 \in 1 .. n
    OBVIOUS
  <2> QED
    BY <1>1, <2>1, Zenon
<1>3. \A i \in 1 .. n : f[i] \in Seq(Byte)
  <2> DEFINE T == {k \in Nat : k + 1 \in 1 .. n => f[k + 1] \in Seq(Byte)}
  <2>1. 0 \in T
    BY <1>2 DEF AreStrings
  <2>2. ASSUME NEW k \in T \cap Nat PROVE k + 1 \in T
    <3> SUFFICES ASSUME k + 2 \in 1 .. n PROVE f[k + 2] \in Seq(Byte)
      OBVIOUS
    <3>1. f[k + 2] = f[k + 1] \o s[k + 2]
      <4>1. (k + 2) - 1 = k + 1 /\ k + 2 # 1
        OBVIOUS
      <4> QED
        BY <1>2, <4>1
    <3>2. f[k + 1] \in Seq(Byte) /\ s[k + 2] \in Seq(Byte)
      BY DEF AreStrings
    <3> QED
      BY <3>1, <3>2
  <2>3. Nat \subseteq T
    <3> HIDE DEF T
    <3> QED
      BY <2>1, <2>2, NumbersInduction
  <2> SUFFICES ASSUME NEW i \in 1 .. n PROVE f[i] \in Seq(Byte)
    OBVIOUS
  <2>4. PICK k \in Nat : k + 1 = i
    <3>1. i - 1 \in Nat /\ (i - 1) + 1 = i
      OBVIOUS
    <3> QED
      BY <3>1
  <2>5. k \in T
    BY <2>3
  <2> QED
    BY <2>4, <2>5
<1> QED
  BY <1>2, <1>3 DEF Flattens

(* One more string before the others.                                       *)
Prepended(t, e, s, n) == t[1] = e /\ \A i \in 1 .. n : t[i + 1] = s[i]

(* The strings after the first are concatenated like any others.            *)
LEMMA FlattenShifted ==
  ASSUME NEW n \in Nat \ {0}, NEW e \in Seq(Byte), NEW s, NEW t,
         AreStrings(s, n), Prepended(t, e, s, n),
         NEW f, FlattenBy(f, s, n), NEW g, FlattenBy(g, t, n + 1)
  PROVE  g[n + 1] = e \o f[n]
<1>0. /\ t[1] = e
      /\ \A i \in 1 .. n : s[i] \in Seq(Byte) /\ t[i + 1] = s[i]
  BY DEF AreStrings, Prepended
<1>1. /\ f[1] = s[1]
      /\ \A i \in 1 .. n : i # 1 => f[i] = f[i - 1] \o s[i]
      /\ \A i \in 1 .. n : f[i] \in Seq(Byte)
  <2>1. Flattens(f, s, n)
    BY FlattenSteps
  <2> QED
    BY <2>1, Zenon DEF Flattens
<1>2. /\ g[1] = t[1]
      /\ \A i \in 1 .. n + 1 : i # 1 => g[i] = g[i - 1] \o t[i]
  <2>1. \A i \in 1 .. n + 1 : t[i] \in Seq(Byte)
    <3> SUFFICES ASSUME NEW i \in 1 .. n + 1 PROVE t[i] \in Seq(Byte)
      OBVIOUS
    <3>1. CASE i = 1
      BY <1>0, <3>1
    <3>2. CASE i # 1
      <4>1. i - 1 \in 1 .. n /\ (i - 1) + 1 = i
        BY <3>2
      <4>2. t[(i - 1) + 1] = s[i - 1] /\ s[i - 1] \in Seq(Byte)
        BY <1>0, <4>1
      <4> QED
        BY <4>1, <4>2
    <3> QED
      BY <3>1, <3>2
  <2>2. PICK m : m = n + 1
    OBVIOUS
  <2>3. m \in Nat \ {0} /\ AreStrings(t, m) /\ FlattenBy(g, t, m)
    BY <2>1, <2>2 DEF AreStrings
  <2>4. Flattens(g, t, m)
    BY <2>3, FlattenSteps
  <2> QED
    BY <2>2, <2>4, Zenon DEF Flattens
<1> DEFINE T == {k \in Nat : k + 1 \in 1 .. n => g[k + 2] = e \o f[k + 1]}
<1>3. 0 \in T
  <2>1. 2 \in 1 .. n + 1 /\ 1 \in 1 .. n
    OBVIOUS
  <2>2. g[2] = g[1] \o t[2]
    <3>1. 2 - 1 = 1 /\ 2 # 1
      OBVIOUS
    <3> QED
      BY <1>2, <2>1, <3>1
  <2>3. t[2] = s[1]
    <3>1. 1 + 1 = 2
      OBVIOUS
    <3> QED
      BY <1>0, <2>1, <3>1
  <2>4. g[2] = e \o f[1]
    BY <1>0, <1>1, <1>2, <2>2, <2>3
  <2> QED
    BY <2>4
<1>4. ASSUME NEW k \in T \cap Nat PROVE k + 1 \in T
  <2> SUFFICES ASSUME k + 2 \in 1 .. n PROVE g[k + 3] = e \o f[k + 2]
    OBVIOUS
  <2>0. k \in Nat /\ k + 1 \in 1 .. n /\ g[k + 2] = e \o f[k + 1]
    OBVIOUS
  <2> HIDE DEF T
  <2>1. g[k + 3] = g[k + 2] \o t[k + 3]
    <3>1. k + 3 \in 1 .. n + 1 /\ (k + 3) - 1 = k + 2 /\ k + 3 # 1
      BY <2>0
    <3> QED
      BY <1>2, <3>1
  <2>2. t[k + 3] = s[k + 2] /\ s[k + 2] \in Seq(Byte)
    <3>1. (k + 2) + 1 = k + 3
      BY <2>0
    <3> QED
      BY <1>0, <2>0, <3>1
  <2>3. f[k + 1] \in Seq(Byte)
    BY <1>1, <2>0
  <2>4. f[k + 2] = f[k + 1] \o s[k + 2]
    <3>1. (k + 2) - 1 = k + 1 /\ k + 2 # 1
      BY <2>0
    <3> QED
      BY <1>1, <3>1
  <2>5. (e \o f[k + 1]) \o s[k + 2] = e \o (f[k + 1] \o s[k + 2])
    <3>1. PICK b : b = f[k + 1]
      OBVIOUS
    <3>2. PICK c : c = s[k + 2]
      OBVIOUS
    <3>3. b \in Seq(Byte) /\ c \in Seq(Byte)
      BY <2>2, <2>3, <3>1, <3>2
    <3>4. (e \o b) \o c = e \o (b \o c)
      BY <3>3, Associative
    <3> QED
      BY <3>1, <3>2, <3>4
  <2> QED
    BY <2>0, <2>1, <2>2, <2>4, <2>5
<1>5. Nat \subseteq T
  <2> HIDE DEF T
  <2> QED
    BY <1>3, <1>4, NumbersInduction
<1>6. PICK k \in Nat : k + 1 = n
  <2>1. n - 1 \in Nat /\ (n - 1) + 1 = n
    OBVIOUS
  <2> QED
    BY <2>1
<1>7. k + 1 \in 1 .. n => g[k + 2] = e \o f[k + 1]
  BY <1>5
<1>8. k + 2 = n + 1 /\ k + 1 \in 1 .. n
  BY <1>6
<1>9. g[k + 2] = e \o f[k + 1]
  BY <1>7, <1>8
<1> QED
  BY <1>6, <1>8, <1>9

(* FlattenSeq of the library is that concatenation.                         *)
LEMMA FlattenIs ==
  ASSUME NEW s \in Seq(Seq(Byte)), s # << >>
  PROVE  /\ Len(s) \in Nat \ {0} /\ AreStrings(s, Len(s))
         /\ \E f : FlattenBy(f, s, Len(s)) /\ FlattenSeq(s) = f[Len(s)]
<1>1. Len(s) \in Nat \ {0} /\ AreStrings(s, Len(s))
  BY DEF AreStrings
<1> DEFINE f == CHOOSE g : FlattenBy(g, s, Len(s))
<1>2. FlattenBy(f, s, Len(s))
  BY <1>1, FlattenExists
<1>3. FlattenSeq(s) = f[Len(s)]
  BY <1>1 DEF FlattenSeq, FlattenBy
<1> QED
  BY <1>1, <1>2, <1>3

(* FlattenSeq, from the front.                                              *)
LEMMA FlattenFront ==
  /\ FlattenSeq(<< >>) = << >>
  /\ \A e \in Seq(Byte), s \in Seq(Seq(Byte)) :
       /\ FlattenSeq(<<e>> \o s) = e \o FlattenSeq(s)
       /\ FlattenSeq(s) \in Seq(Byte)
<1>1. FlattenSeq(<< >>) = << >>
  BY DEF FlattenSeq
<1>2. ASSUME NEW s \in Seq(Seq(Byte)) PROVE FlattenSeq(s) \in Seq(Byte)
  <2>1. CASE s = << >>
    <3>1. << >> \in Seq(Byte)
      OBVIOUS
    <3> QED
      BY <1>1, <2>1, <3>1, Zenon
  <2>2. CASE s # << >>
    <3>1. PICK n : n = Len(s)
      OBVIOUS
    <3>2. n \in Nat \ {0} /\ AreStrings(s, n)
      BY <2>2, <3>1, FlattenIs
    <3>3. PICK f : FlattenBy(f, s, n) /\ FlattenSeq(s) = f[n]
      BY <2>2, <3>1, FlattenIs
    <3>4. f[n] \in Seq(Byte)
      <4>1. Flattens(f, s, n)
        BY <3>2, <3>3, FlattenSteps
      <4>2. n \in 1 .. n
        BY <3>2
      <4> QED
        BY <4>1, <4>2 DEF Flattens
    <3> QED
      BY <3>3, <3>4
  <2> QED
    BY <2>1, <2>2
<1>3. ASSUME NEW e \in Seq(Byte), NEW s \in Seq(Seq(Byte))
      PROVE  FlattenSeq(<<e>> \o s) = e \o FlattenSeq(s)
  <2>1. PICK t : t = <<e>> \o s
    OBVIOUS
  <2>2. PICK n : n = Len(s)
    OBVIOUS
  <2>3. t \in Seq(Seq(Byte)) /\ t # << >> /\ Len(t) = n + 1 /\ t[1] = e
    <3> DEFINE W == Seq(Byte)
    <3>1. e \in W /\ s \in Seq(W)
      OBVIOUS
    <3> HIDE DEF W
    <3>2. t \in Seq(W) /\ t # << >> /\ Len(t) = n + 1 /\ t[1] = e
      BY <2>1, <2>2, <3>1, OneBefore
    <3> QED
      BY <3>2 DEF W
  <2>4. PICK g : FlattenBy(g, t, n + 1) /\ FlattenSeq(t) = g[n + 1]
    BY <2>3, FlattenIs
  <2>5. CASE s = << >>
    <3>1. n + 1 = 1
      BY <2>2, <2>5
    <3>2. g[1] = t[1]
      BY <2>4, <3>1 DEF FlattenBy
    <3>3. e \o << >> = e
      OBVIOUS
    <3> QED
      BY <1>1, <2>1, <2>3, <2>4, <2>5, <3>1, <3>2, <3>3
  <2>6. CASE s # << >>
    <3>1. n \in Nat \ {0} /\ AreStrings(s, n)
      BY <2>2, <2>6, FlattenIs
    <3>2. PICK f : FlattenBy(f, s, n) /\ FlattenSeq(s) = f[n]
      BY <2>2, <2>6, FlattenIs
    <3>3. \A i \in 1 .. n : t[i + 1] = s[i]
      <4> DEFINE W == Seq(Byte)
      <4>1. e \in W /\ s \in Seq(W)
        OBVIOUS
      <4> HIDE DEF W
      <4> QED
        BY <2>1, <2>2, <4>1, OneBefore
    <3>4. g[n + 1] = e \o f[n]
      <4>1. Prepended(t, e, s, n)
        BY <2>3, <3>3 DEF Prepended
      <4> QED
        BY <2>4, <3>1, <3>2, <4>1, FlattenShifted
    <3> QED
      BY <2>1, <2>4, <3>2, <3>4
  <2> QED
    BY <2>5, <2>6
<1> QED
  BY <1>1, <1>2, <1>3

(* What a function writes for each element of a sequence, one after the     *)
(* other.                                                                    *)
Written(w, s) == [i \in DOMAIN s |-> w[s[i]]]

Writes(w, V, W) ==
  /\ Written(w, << >>) = << >>
  /\ \A s \in Seq(V) : Written(w, s) \in Seq(W) /\ Len(Written(w, s)) = Len(s)
  /\ \A e \in V, s \in Seq(V) : Written(w, <<e>> \o s) = <<w[e]>> \o Written(w, s)

(* Writing element after element, from the front.                           *)
LEMMA WrittenFront ==
  ASSUME NEW V, NEW W, NEW w \in [V -> W]
  PROVE  Writes(w, V, W)
<1>1. Written(w, << >>) = << >>
  BY DEF Written
<1>2. ASSUME NEW s \in Seq(V) PROVE Written(w, s) \in Seq(W) /\ Len(Written(w, s)) = Len(s)
  BY DEF Written
<1>3. ASSUME NEW e \in V, NEW s \in Seq(V)
      PROVE  Written(w, <<e>> \o s) = <<w[e]>> \o Written(w, s)
  <2>1. PICK t : t = <<e>> \o s
    OBVIOUS
  <2>2. /\ t \in Seq(V) /\ Len(t) = Len(s) + 1 /\ t[1] = e
        /\ \A i \in 1 .. Len(s) : t[i + 1] = s[i]
    BY <2>1, OneBefore
  <2>3. PICK u : u = <<w[e]>> \o Written(w, s)
    OBVIOUS
  <2>4. /\ u \in Seq(W) /\ Len(u) = Len(s) + 1 /\ u[1] = w[e]
        /\ \A i \in 1 .. Len(s) : u[i + 1] = Written(w, s)[i]
    <3>1. w[e] \in W
      OBVIOUS
    <3> QED
      BY <1>2, <2>3, <3>1, OneBefore
  <2>5. PICK v : v = Written(w, t)
    OBVIOUS
  <2>6. v \in Seq(W) /\ Len(v) = Len(s) + 1 /\ \A i \in 1 .. Len(s) + 1 : v[i] = w[t[i]]
    BY <1>2, <2>2, <2>5 DEF Written
  <2>7. \A i \in 1 .. Len(s) : Written(w, s)[i] = w[s[i]]
    BY DEF Written
  <2>8. ASSUME NEW i \in 1 .. Len(s) + 1 PROVE u[i] = v[i]
    <3>1. CASE i = 1
      BY <2>2, <2>4, <2>6, <3>1
    <3>2. CASE i # 1
      <4>1. PICK k \in 1 .. Len(s) : k + 1 = i
        <5>1. i - 1 \in 1 .. Len(s) /\ (i - 1) + 1 = i
          BY <3>2
        <5> QED
          BY <5>1
      <4> QED
        BY <2>2, <2>4, <2>6, <2>7, <4>1
    <3> QED
      BY <3>1, <3>2
  <2>9. u = v
    BY <2>4, <2>6, <2>8
  <2> QED
    BY <2>1, <2>3, <2>5, <2>9
<1> QED
  BY <1>1, <1>2, <1>3, Zenon DEF Writes

(* The bytes of a sequence are those of its first element, then the rest.   *)
LEMMA EncodedFront ==
  ASSUME NEW V, NEW w \in [V -> Seq(Byte)]
  PROVE  /\ FlattenSeq(Written(w, << >>)) = << >>
         /\ \A s \in Seq(V) : FlattenSeq(Written(w, s)) \in Seq(Byte)
         /\ \A e \in V, s \in Seq(V) :
              FlattenSeq(Written(w, <<e>> \o s)) = w[e] \o FlattenSeq(Written(w, s))
<1>0. Writes(w, V, Seq(Byte))
  BY WrittenFront
<1>1. FlattenSeq(Written(w, << >>)) = << >>
  <2>1. Written(w, << >>) = << >>
    BY <1>0 DEF Writes
  <2> QED
    BY <2>1, FlattenFront
<1>2. ASSUME NEW s \in Seq(V)
      PROVE  Written(w, s) \in Seq(Seq(Byte)) /\ FlattenSeq(Written(w, s)) \in Seq(Byte)
  <2>1. PICK u : u = Written(w, s)
    OBVIOUS
  <2>2. u \in Seq(Seq(Byte))
    BY <1>0, <2>1, Zenon DEF Writes
  <2>3. FlattenSeq(u) \in Seq(Byte)
    <3>1. << >> \in Seq(Byte)
      OBVIOUS
    <3> QED
      BY <2>2, <3>1, FlattenFront
  <2> QED
    BY <2>1, <2>2, <2>3
<1>3. ASSUME NEW e \in V, NEW s \in Seq(V)
      PROVE  FlattenSeq(Written(w, <<e>> \o s)) = w[e] \o FlattenSeq(Written(w, s))
  <2>1. PICK b : b = w[e]
    OBVIOUS
  <2>2. PICK u : u = Written(w, s)
    OBVIOUS
  <2>3. b \in Seq(Byte)
    BY <2>1
  <2>4. u \in Seq(Seq(Byte))
    BY <1>2, <2>2
  <2>5. Written(w, <<e>> \o s) = <<b>> \o u
    BY <1>0, <2>1, <2>2, Zenon DEF Writes
  <2>6. FlattenSeq(<<b>> \o u) = b \o FlattenSeq(u)
    BY <2>3, <2>4, FlattenFront
  <2> QED
    BY <2>1, <2>2, <2>5, <2>6
<1> QED
  BY <1>1, <1>2, <1>3

----------------------------------------------------------------------------
(* iterScript over a script of pushes.                                      *)
Push == [data \in Short |-> PushData(data)]

(* A push is a string of bytes.                                             *)
LEMMA PushType == Push \in [Short -> Seq(Byte)]
<1>1. ASSUME NEW data \in Short PROVE PushData(data) \in Seq(Byte)
  <2>1. data \in Seq(Byte) /\ Len(data) < Power[4] /\ << >> \in Seq(Byte)
    BY DEF Short
  <2> QED
    BY <2>1, PushIsRead
<1> QED
  BY <1>1 DEF Push

ReadAs(ops, pushed) ==
  /\ ops \in Seq(AnOp) /\ Len(ops) = Len(pushed)
  /\ \A i \in 1 .. Len(pushed) : ops[i].data = {pushed[i]}

(* iterScript finds all that was pushed, in its order.                      *)
LEMMA PushesAre ==
  \A pushed \in Seq(Short) :
    /\ FlattenSeq(Written(Push, pushed)) \in Seq(Byte)
    /\ ReadAs(Ops[FlattenSeq(Written(Push, pushed))], pushed)
<1> DEFINE Bytes_(pushed) == FlattenSeq(Written(Push, pushed))
           T == {pushed \in Seq(Short) : ReadAs(Ops[Bytes_(pushed)], pushed)}
<1>1. /\ Bytes_(<< >>) = << >>
      /\ \A e \in Short, s \in Seq(Short) :
           Bytes_(s) \in Seq(Byte) /\ Bytes_(<<e>> \o s) = Push[e] \o Bytes_(s)
  BY PushType, EncodedFront
<1>2. << >> \in T
  <2>1. Ops[Bytes_(<< >>)] = << >>
    BY <1>1, OpsIs
  <2>2. ReadAs(<< >>, << >>)
    BY DEF ReadAs
  <2>3. << >> \in Seq(Short)
    OBVIOUS
  <2> HIDE DEF Bytes_
  <2> QED
    BY <2>1, <2>2, <2>3
<1>3. ASSUME NEW e \in Short, NEW s \in Seq(Short), s \in T
      PROVE  <<e>> \o s \in T
  <2>1. PICK r : r = Bytes_(s)
    OBVIOUS
  <2>2. e \in Seq(Byte) /\ Len(e) < Power[4] /\ r \in Seq(Byte)
    BY <1>1, <2>1 DEF Short
  <2>3. PICK opcode \in Int :
          Ops[PushData(e) \o r] = <<[opcode |-> opcode, data |-> {e}]>> \o Ops[r]
    BY <2>2, PushIsRead
  <2>4. PICK op : op = [opcode |-> opcode, data |-> {e}]
    OBVIOUS
  <2>5. op \in AnOp /\ op.data = {e}
    BY <2>2, <2>4 DEF AnOp
  <2>6. PICK rest : rest = Ops[r]
    OBVIOUS
  <2>7. ReadAs(rest, s)
    BY <1>3, <2>1, <2>6
  <2>8. PICK t : t = <<e>> \o s
    OBVIOUS
  <2>9. PICK ops : ops = <<op>> \o rest
    OBVIOUS
  <2>10. Ops[Bytes_(t)] = ops
    BY <1>1, <2>1, <2>3, <2>4, <2>6, <2>8, <2>9 DEF Push
  <2> HIDE DEF Bytes_, T
  <2>11. rest \in Seq(AnOp) /\ Len(rest) = Len(s) /\ Len(s) \in Nat
    BY <2>7 DEF ReadAs
  <2>12. /\ ops \in Seq(AnOp) /\ Len(ops) = Len(rest) + 1 /\ ops[1] = op
         /\ \A i \in 1 .. Len(rest) : ops[i + 1] = rest[i]
    BY <2>5, <2>9, <2>11, OneBefore
  <2>13. /\ t \in Seq(Short) /\ Len(t) = Len(s) + 1 /\ t[1] = e
         /\ \A i \in 1 .. Len(s) : t[i + 1] = s[i]
    BY <2>8, OneBefore
  <2>14. ASSUME NEW i \in 1 .. Len(t) PROVE ops[i].data = {t[i]}
    <3>1. CASE i = 1
      BY <2>5, <2>12, <2>13, <3>1
    <3>2. CASE i # 1
      <4>1. PICK k \in 1 .. Len(s) : k + 1 = i
        <5>1. i - 1 \in 1 .. Len(s) /\ (i - 1) + 1 = i
          BY <2>11, <2>13, <3>2
        <5> QED
          BY <5>1
      <4>2. rest[k].data = {s[k]}
        BY <2>7 DEF ReadAs
      <4> QED
        BY <2>11, <2>12, <2>13, <4>1, <4>2
    <3> QED
      BY <3>1, <3>2
  <2>15. ReadAs(ops, t)
    BY <2>11, <2>12, <2>13, <2>14 DEF ReadAs
  <2> QED
    BY <2>8, <2>10, <2>13, <2>15 DEF T
<1>4. Seq(Short) \subseteq T
  <2> HIDE DEF T
  <2> QED
    BY <1>2, <1>3, SequenceInduction
<1>5. \A s \in Seq(Short) : Bytes_(s) \in Seq(Byte)
  BY PushType, EncodedFront
<1> QED
  BY <1>4, <1>5

(* The operations of an OP_RETURN.                                           *)
ReturnedAs(ops, pushed) ==
  /\ ops \in Seq(AnOp) /\ Len(ops) = Len(pushed) + 1
  /\ ops[1] = [opcode |-> OP_RETURN, data |-> {}]
  /\ \A i \in 1 .. Len(pushed) : ops[i + 1].data = {pushed[i]}

(* OP_RETURN is one operation.                                              *)
LEMMA ReturnIsRead ==
  ASSUME NEW rest \in Seq(Byte)
  PROVE  Ops[<<OP_RETURN>> \o rest] = <<[opcode |-> OP_RETURN, data |-> {}]>> \o Ops[rest]
<1>1. PICK s : s = <<OP_RETURN>> \o rest
  OBVIOUS
<1>2. OP_RETURN \in Byte /\ OP_RETURN > OP_PUSHDATA4
  BY OpcodesType, BytesAreFinite
<1>3. s \in Seq(Byte) /\ s # << >> /\ Head(s) = OP_RETURN /\ Tail(s) = rest
  BY <1>1, <1>2, OneBefore
<1>4. ~IsPush(s)
  BY <1>2, <1>3 DEF IsPush
<1>5. Ops[s] = <<FirstOp(s)>> \o Ops[Rest(s)]
  BY <1>3, <1>4, OpsIs
<1>6. FirstOp(s) = [opcode |-> OP_RETURN, data |-> {}] /\ Rest(s) = rest
  BY <1>3, <1>4 DEF FirstOp, Rest
<1> QED
  BY <1>1, <1>5, <1>6

(* iterScript of a metadata script: OP_RETURN, then every push.             *)
LEMMA ScriptIsRead ==
  ASSUME NEW pushed \in Seq(Short)
  PROVE  ReturnedAs(Ops[<<OP_RETURN>> \o FlattenSeq(Written(Push, pushed))], pushed)
<1>1. PICK rest : rest = FlattenSeq(Written(Push, pushed))
  OBVIOUS
<1>2. rest \in Seq(Byte) /\ ReadAs(Ops[rest], pushed)
  BY <1>1, PushesAre
<1>3. PICK others : others = Ops[rest]
  OBVIOUS
<1>4. /\ others \in Seq(AnOp) /\ Len(others) = Len(pushed) /\ Len(pushed) \in Nat
      /\ \A i \in 1 .. Len(pushed) : others[i].data = {pushed[i]}
  BY <1>2, <1>3 DEF ReadAs
<1>5. PICK op : op = [opcode |-> OP_RETURN, data |-> {}]
  OBVIOUS
<1>6. op \in AnOp
  BY <1>5, OpcodesType DEF AnOp
<1>7. PICK ops : ops = <<op>> \o others
  OBVIOUS
<1>8. /\ ops \in Seq(AnOp) /\ Len(ops) = Len(others) + 1 /\ ops[1] = op
      /\ \A i \in 1 .. Len(others) : ops[i + 1] = others[i]
  BY <1>4, <1>6, <1>7, OneBefore
<1>9. Ops[<<OP_RETURN>> \o rest] = ops
  BY <1>2, <1>3, <1>5, <1>7, ReturnIsRead
<1>10. ReturnedAs(ops, pushed)
  BY <1>4, <1>5, <1>8 DEF ReturnedAs
<1> QED
  BY <1>1, <1>9, <1>10

----------------------------------------------------------------------------
(* Numbers among the operations.                                            *)
LEMMA NumberFound ==
  ASSUME NEW n, Encodable(n), NEW ops, NEW i \in DOMAIN ops,
         ops[i].data = {EncodeScriptNum(n)}
  PROVE  Number(ops, i) = {n}
<1>1. n \in Int /\ Len(EncodeScriptNum(n)) <= MaxNumSize
  BY DEF Encodable
<1>2. DecodeScriptNum(EncodeScriptNum(n)) = {n}
  BY <1>1, NumberSurvives
<1>3. Pushed(ops, i) = {EncodeScriptNum(n)}
  BY DEF Pushed
<1> QED
  BY <1>2, <1>3, Zenon DEF Number

(* A number below Base is written with two bytes at the most.               *)
LEMMA BytesFit == \A b \in Byte : Encodable(b)
<1> SUFFICES ASSUME NEW b \in Byte PROVE Encodable(b)
  OBVIOUS
<1>1. PICK s : s = <<b, 0>>
  OBVIOUS
<1>2. 0 \in Byte /\ b \in Nat /\ Base \in Nat
  BY BytesAreFinite
<1>3. s \in Seq(Byte) /\ s # << >> /\ Len(s) = 2 /\ s[2] = 0 /\ s[1] = b
  BY <1>1, <1>2
<1>4. SignBit \in Nat /\ SignBit > 0
  BY BaseAssumption DEF SignBit
<1>5. 0 % SignBit = 0 /\ ~(0 >= SignBit)
  BY <1>4
<1>6. Masked(s) = s
  BY <1>3, <1>5 DEF Masked
<1>7. Value[s] = b
  <2>1. s = <<b>> \o <<0>> /\ <<0>> \in Seq(Byte)
    BY <1>1, <1>2
  <2>2. Value[<<0>>] = 0
    BY <1>2, ValueOfOne
  <2>3. Value[s] = b + Base * Value[<<0>>]
    BY <2>1, ValueBefore
  <2> QED
    BY <1>2, <2>2, <2>3
<1>8. DecodeScriptNum(s) = {b}
  <2>1. DecodeScriptNum(s) =
          IF Len(s) > MaxNumSize THEN {}
          ELSE {IF s[Len(s)] >= SignBit THEN -Value[Masked(s)] ELSE Value[Masked(s)]}
    BY <1>3, NumberRead
  <2>2. ~(Len(s) > MaxNumSize) /\ ~(s[Len(s)] >= SignBit)
    BY <1>3, <1>5 DEF MaxNumSize
  <2> QED
    BY <1>6, <1>7, <2>1, <2>2
<1>9. b \in Int /\ Len(EncodeScriptNum(b)) <= Len(s)
  BY <1>3, <1>8, NumberIsShortest
<1>10. Len(EncodeScriptNum(b)) \in Nat
  BY <1>9, NumberSurvives
<1> QED
  BY <1>3, <1>9, <1>10 DEF Encodable, MaxNumSize

(* So are the types of the three kinds of metadata.                         *)
LEMMA TypesFit == Encodable(1) /\ Encodable(2) /\ Encodable(3)
<1>1. 1 \in Byte /\ 2 \in Byte /\ 3 \in Byte
  BY BaseAssumption DEF Byte
<1> QED
  BY <1>1, BytesFit

(* All that metadata pushes is short enough.                                *)
LEMMA ShortParts ==
  /\ DD_MARKER \in Short /\ Power[4] \in Nat /\ 8 < Power[4]
  /\ \A n : Encodable(n) => EncodeScriptNum(n) \in Short
<1>1. Power[4] \in Nat /\ 8 < Power[4]
  <2>1. Power[2] = Base * Base /\ Power[3] = Base * Power[2] /\ Power[4] = Base * Power[3]
    BY SmallPowers, PowerIs
  <2>2. Power[2] \in Nat /\ Power[2] > 8
    BY <2>1, BaseAssumption
  <2>3. Power[3] \in Nat /\ Power[3] > 8
    BY <2>1, <2>2, BaseAssumption
  <2> QED
    BY <2>1, <2>3, BaseAssumption
<1>2. DD_MARKER \in Seq(Byte) /\ Len(DD_MARKER) = 2
  <2>1. PICK a \in Byte, b \in Byte : DD_MARKER = <<a, b>>
    BY OpcodesAssumption
  <2> QED
    BY <2>1
<1>3. ASSUME NEW n, Encodable(n) PROVE EncodeScriptNum(n) \in Short
  <2>1. n \in Int /\ Len(EncodeScriptNum(n)) <= 8
    BY <1>3 DEF Encodable, MaxNumSize
  <2>2. PICK s : s = EncodeScriptNum(n)
    OBVIOUS
  <2>3. s \in Seq(Byte) /\ Len(s) <= 8
    BY <2>1, <2>2, NumberSurvives
  <2>4. Len(s) < Power[4]
    BY <1>1, <2>3
  <2> QED
    BY <2>2, <2>3, <2>4 DEF Short
<1>4. DD_MARKER \in Short
  <2>1. Len(DD_MARKER) < Power[4]
    BY <1>1, <1>2
  <2> QED
    BY <1>2, <2>1, Zenon DEF Short
<1> QED
  BY <1>1, <1>3, <1>4

PushedAll(pushed) == FlattenSeq(Written(Push, pushed))

(* A script of pushes, push after push.                                     *)
LEMMA PushesFront ==
  /\ PushedAll(<< >>) = << >>
  /\ \A s \in Seq(Short) : PushedAll(s) \in Seq(Byte)
  /\ \A e \in Short : PushData(e) \in Seq(Byte)
  /\ \A e \in Short, s \in Seq(Short) : PushedAll(<<e>> \o s) = PushData(e) \o PushedAll(s)
<1>1. \A e \in Short : Push[e] = PushData(e) /\ Push[e] \in Seq(Byte)
  BY PushType DEF Push
<1>2. PushedAll(<< >>) = << >>
  BY PushType, EncodedFront DEF PushedAll
<1>3. \A s \in Seq(Short) : PushedAll(s) \in Seq(Byte)
  BY PushType, EncodedFront DEF PushedAll
<1>4. \A e \in Short, s \in Seq(Short) : PushedAll(<<e>> \o s) = Push[e] \o PushedAll(s)
  BY PushType, EncodedFront, ZenonT(60) DEF PushedAll
<1> QED
  BY <1>1, <1>2, <1>3, <1>4

(* What comes after the type.                                               *)
Continued(ops, rest) ==
  /\ ops \in Seq(AnOp) /\ Len(ops) = Len(rest) + 3
  /\ \A i \in 1 .. Len(rest) : ops[i + 3].data = {rest[i]}
  /\ \A i \in DOMAIN ops : ops[i] # Truncated

(* parseOpReturn, of a script that pushes the marker, a type and parts.     *)
LEMMA MetadataIsRead ==
  ASSUME NEW type \in 1 .. 3, NEW rest \in Seq(Short),
         NEW script, script = OpReturnOf(type) \o PushedAll(rest)
  PROVE  /\ Continued(Ops[script], rest)
         /\ type = 1 => ParseOpReturn(script) = ParseMint(Ops[script])
         /\ type = 2 => ParseOpReturn(script) = ParseTransfer(Ops[script])
         /\ type = 3 => ParseOpReturn(script) = ParseRedeem(Ops[script])
<1>1. PICK number : number = EncodeScriptNum(type)
  OBVIOUS
<1>2. PICK s : s = <<number>> \o rest
  OBVIOUS
<1>3. PICK pushed : pushed = <<DD_MARKER>> \o s
  OBVIOUS
<1>4. Encodable(type)
  BY TypesFit, type = 1 \/ type = 2 \/ type = 3
<1>5. number \in Short /\ DD_MARKER \in Short
  BY <1>1, <1>4, ShortParts
<1>6. /\ s \in Seq(Short) /\ Len(s) = Len(rest) + 1 /\ s[1] = number
      /\ \A i \in 1 .. Len(rest) : s[i + 1] = rest[i]
  BY <1>2, <1>5, OneBefore
<1>7. /\ pushed \in Seq(Short) /\ Len(pushed) = Len(s) + 1 /\ pushed[1] = DD_MARKER
      /\ \A i \in 1 .. Len(s) : pushed[i + 1] = s[i]
  BY <1>3, <1>5, <1>6, OneBefore
<1>8. script = <<OP_RETURN>> \o PushedAll(pushed)
  <2>1. PICK m : m = PushData(DD_MARKER)
    OBVIOUS
  <2>2. PICK n : n = PushData(number)
    OBVIOUS
  <2>3. PICK r : r = PushedAll(rest)
    OBVIOUS
  <2>4. m \in Seq(Byte) /\ n \in Seq(Byte) /\ r \in Seq(Byte)
    BY <1>5, <2>1, <2>2, <2>3, PushesFront
  <2>5. PushedAll(pushed) = m \o (n \o r)
    BY <1>2, <1>3, <1>5, <1>6, <2>1, <2>2, <2>3, PushesFront
  <2>6. OpReturnOf(type) = <<OP_RETURN>> \o m \o n
    BY <1>1, <2>1, <2>2, Zenon DEF OpReturnOf, PushNum
  <2>7. <<OP_RETURN>> \in Seq(Byte)
    BY OpcodesType, BytesAreFinite
  <2>8. PICK o : o = <<OP_RETURN>>
    OBVIOUS
  <2>9. ((o \o m) \o n) \o r = o \o (m \o (n \o r))
    BY <2>4, <2>7, <2>8, SMTT(60)
  <2> QED
    BY <2>3, <2>5, <2>6, <2>8, <2>9
<1>9. PICK ops : ops = Ops[script]
  OBVIOUS
<1>10. ReturnedAs(ops, pushed)
  BY <1>7, <1>8, <1>9, ScriptIsRead DEF PushedAll
<1>11. /\ ops \in Seq(AnOp) /\ Len(ops) = Len(pushed) + 1
       /\ ops[1] = [opcode |-> OP_RETURN, data |-> {}]
       /\ \A i \in 1 .. Len(pushed) : ops[i + 1].data = {pushed[i]}
  BY <1>10 DEF ReturnedAs
<1>12. Len(rest) \in Nat /\ Len(s) = Len(rest) + 1 /\ Len(pushed) = Len(rest) + 2
       /\ Len(ops) = Len(rest) + 3
  BY <1>6, <1>7, <1>11
<1>13. ops[2].data = {DD_MARKER}
  <2>1. 1 \in 1 .. Len(pushed) /\ 1 + 1 = 2
    BY <1>12
  <2> QED
    BY <1>7, <1>11, <2>1
<1>14. ops[3].data = {number}
  <2>1. 2 \in 1 .. Len(pushed) /\ 1 \in 1 .. Len(s) /\ 1 + 1 = 2 /\ 2 + 1 = 3
    BY <1>12
  <2>2. pushed[2] = number
    BY <1>6, <1>7, <2>1
  <2> QED
    BY <1>11, <2>1, <2>2
<1>15. \A i \in 1 .. Len(rest) : ops[i + 3].data = {rest[i]}
  <2> SUFFICES ASSUME NEW i \in 1 .. Len(rest) PROVE ops[i + 3].data = {rest[i]}
    OBVIOUS
  <2>1. i + 1 \in 1 .. Len(s) /\ i + 2 \in 1 .. Len(pushed)
        /\ (i + 1) + 1 = i + 2 /\ (i + 2) + 1 = i + 3
    BY <1>12
  <2>2. pushed[i + 2] = rest[i]
    BY <1>6, <1>7, <2>1
  <2> QED
    BY <1>11, <2>1, <2>2
<1>16. \A i \in DOMAIN ops : ops[i] # Truncated
  <2> SUFFICES ASSUME NEW i \in DOMAIN ops PROVE ops[i] # Truncated
    OBVIOUS
  <2>1. i \in 1 .. Len(pushed) + 1
    BY <1>11
  <2>2. CASE i = 1
    BY <1>11, <2>2, OpcodesType, BytesAreFinite DEF Truncated
  <2>3. CASE i # 1
    <3>1. PICK k \in 1 .. Len(pushed) : k + 1 = i
      <4>1. i - 1 \in 1 .. Len(pushed) /\ (i - 1) + 1 = i
        BY <1>12, <2>1, <2>3
      <4> QED
        BY <4>1
    <3>2. ops[i].data # {}
      BY <1>11, <3>1
    <3> QED
      BY <3>2 DEF Truncated
  <2> QED
    BY <2>2, <2>3
<1>17. Continued(ops, rest)
  BY <1>11, <1>12, <1>15, <1>16 DEF Continued
<1>18. 2 \in DOMAIN ops /\ 3 \in DOMAIN ops /\ ops # << >>
  BY <1>11, <1>12
<1>19. Number(ops, 3) = {type} /\ Pushed(ops, 2) = {DD_MARKER}
  <2>1. Number(ops, 3) = {type}
    BY <1>1, <1>4, <1>14, <1>18, NumberFound
  <2> QED
    BY <1>13, <1>18, <2>1 DEF Pushed
<1>20. ~(ops = << >> \/ ops[1].opcode # OP_RETURN \/ Pushed(ops, 2) # {DD_MARKER})
  BY <1>11, <1>18, <1>19
<1>21. /\ type = 1 => ParseOpReturn(script) = ParseMint(ops)
       /\ type = 2 => ParseOpReturn(script) = ParseTransfer(ops)
       /\ type = 3 => ParseOpReturn(script) = ParseRedeem(ops)
  <2> DEFINE number3 == Number(ops, 3)
  <2>1. number3 = {type}
    BY <1>19
  <2> HIDE DEF number3
  <2>2. (type = 1 <=> number3 = {1}) /\ (type = 2 <=> number3 = {2}) /\ (type = 3 <=> number3 = {3})
    BY <2>1
  <2>3. ParseOpReturn(script) =
           CASE ops = << >> \/ ops[1].opcode # OP_RETURN \/ Pushed(ops, 2) # {DD_MARKER} -> {}
             [] number3 = {1} -> ParseMint(ops)
             [] number3 = {2} -> ParseTransfer(ops)
             [] number3 = {3} -> ParseRedeem(ops)
             [] OTHER -> {}
    BY <1>9 DEF ParseOpReturn, number3
  <2>4. CASE type = 1
    BY <1>20, <2>2, <2>3, <2>4
  <2>5. CASE type = 2
    BY <1>20, <2>2, <2>3, <2>5
  <2>6. CASE type = 3
    BY <1>20, <2>2, <2>3, <2>6
  <2> QED
    BY <2>4, <2>5, <2>6
<1> QED
  BY <1>9, <1>17, <1>21

(* A script of one push.                                                    *)
LEMMA PushesOne == \A e \in Short : PushedAll(<<e>>) = PushData(e)
<1> SUFFICES ASSUME NEW e \in Short PROVE PushedAll(<<e>>) = PushData(e)
  OBVIOUS
<1>1. <<e>> = <<e>> \o << >> /\ << >> \in Seq(Short)
  OBVIOUS
<1>2. PushData(e) \in Seq(Byte) /\ PushedAll(<<e>> \o << >>) = PushData(e) \o << >>
  BY <1>1, PushesFront
<1> QED
  BY <1>1, <1>2

(* The metadata of a redeem survives.                                       *)
LEMMA RedeemIsRead ==
  ASSUME NEW m, RedeemData(m)
  PROVE  ParseOpReturn(EncodeOpReturn(m)) = {m}
<1>1. PICK amount : amount = m.ddAmountCents
  OBVIOUS
<1>2. Encodable(amount) /\ m = [txType |-> "redeem", ddAmountCents |-> amount]
  BY <1>1 DEF RedeemData
<1>3. PICK number : number = EncodeScriptNum(amount)
  OBVIOUS
<1>4. number \in Short
  BY <1>2, <1>3, ShortParts
<1>5. PICK rest : rest = <<number>>
  OBVIOUS
<1>6. rest \in Seq(Short) /\ Len(rest) = 1 /\ rest[1] = number
  BY <1>4, <1>5
<1>7. PICK script : script = EncodeOpReturn(m)
  OBVIOUS
<1>8. script = OpReturnOf(3) \o PushedAll(rest)
  <2>1. EncodeOpReturn(m) = EncodeRedeemOpReturn(m)
    BY <1>2 DEF EncodeOpReturn
  <2> QED
    BY <1>1, <1>3, <1>4, <1>5, <1>7, <2>1, PushesOne DEF EncodeRedeemOpReturn, PushNum
<1>9. PICK ops : ops = Ops[script]
  OBVIOUS
<1>10. Continued(ops, rest) /\ ParseOpReturn(script) = ParseRedeem(ops)
  <2>1. 3 \in 1 .. 3
    OBVIOUS
  <2> QED
    BY <1>6, <1>8, <1>9, <2>1, MetadataIsRead
<1>11. 4 \in DOMAIN ops /\ ops[4].data = {number}
  <2>1. 1 \in 1 .. Len(rest) /\ 1 + 3 = 4
    BY <1>6
  <2> QED
    BY <1>6, <1>10, <2>1 DEF Continued
<1>12. Number(ops, 4) = {amount}
  BY <1>2, <1>3, <1>11, NumberFound
<1> QED
  BY <1>2, <1>7, <1>10, <1>12 DEF ParseRedeem

(* The metadata of a mint survives.                                         *)
LEMMA MintIsRead ==
  ASSUME NEW m, MintData(m)
  PROVE  ParseOpReturn(EncodeOpReturn(m)) = {m}
<1>1. PICK amount : amount = m.ddAmountCents
  OBVIOUS
<1>2. PICK height : height = m.lockHeight
  OBVIOUS
<1>3. PICK tier : tier = m.lockTier
  OBVIOUS
<1>4. PICK key : key = m.ownerPubKey
  OBVIOUS
<1>5. /\ Encodable(amount) /\ Encodable(height) /\ Encodable(tier)
      /\ key \in Seq(Byte) /\ Len(key) = HashSize
      /\ m = [txType |-> "mint", ddAmountCents |-> amount, lockHeight |-> height,
              lockTier |-> tier, ownerPubKey |-> key]
  BY <1>1, <1>2, <1>3, <1>4 DEF MintData
<1>6. PICK a : a = EncodeScriptNum(amount)
  OBVIOUS
<1>7. PICK h : h = EncodeScriptNum(height)
  OBVIOUS
<1>8. PICK t : t = EncodeScriptNum(tier)
  OBVIOUS
<1>9. a \in Short /\ h \in Short /\ t \in Short /\ key \in Short
  <2>1. key \in Short
    BY <1>5, EncodedAssumption DEF Short
  <2> QED
    BY <1>5, <1>6, <1>7, <1>8, <2>1, ShortParts
<1>10. PICK rest : rest = <<a, h, t, key>>
  OBVIOUS
<1>11. /\ rest \in Seq(Short) /\ Len(rest) = 4
       /\ rest[1] = a /\ rest[2] = h /\ rest[3] = t /\ rest[4] = key
  BY <1>9, <1>10
<1>12. PICK script : script = EncodeOpReturn(m)
  OBVIOUS
<1>13. script = OpReturnOf(1) \o PushedAll(rest)
  <2>1. EncodeOpReturn(m) = EncodeMintOpReturn(m)
    BY <1>5 DEF EncodeOpReturn
  <2>2. PICK pa : pa = PushData(a)
    OBVIOUS
  <2>3. PICK ph : ph = PushData(h)
    OBVIOUS
  <2>4. PICK pt : pt = PushData(t)
    OBVIOUS
  <2>5. PICK pk : pk = PushData(key)
    OBVIOUS
  <2>6. PICK o : o = OpReturnOf(1)
    OBVIOUS
  <2>7. script = o \o pa \o ph \o pt \o pk
    BY <1>1, <1>2, <1>3, <1>4, <1>6, <1>7, <1>8, <1>12, <2>1, <2>2, <2>3, <2>4, <2>5, <2>6, Zenon
       DEF EncodeMintOpReturn, PushNum
  <2>8. pa \in Seq(Byte) /\ ph \in Seq(Byte) /\ pt \in Seq(Byte) /\ pk \in Seq(Byte)
    BY <1>9, <2>2, <2>3, <2>4, <2>5, PushesFront
  <2>9. o \in Seq(Byte)
    <3>1. PICK m1 : m1 = PushData(DD_MARKER)
      OBVIOUS
    <3>2. PICK n1 : n1 = PushData(EncodeScriptNum(1))
      OBVIOUS
    <3>3. m1 \in Seq(Byte) /\ n1 \in Seq(Byte)
      BY <3>1, <3>2, ShortParts, TypesFit, PushesFront
    <3>4. <<OP_RETURN>> \in Seq(Byte)
      BY OpcodesType, BytesAreFinite
    <3>5. o = <<OP_RETURN>> \o m1 \o n1
      BY <2>6, <3>1, <3>2, Zenon DEF OpReturnOf, PushNum
    <3> QED
      BY <3>3, <3>4, <3>5
  <2>10. PushedAll(rest) = pa \o (ph \o (pt \o pk))
    <3>1. PICK s3 : s3 = <<key>>
      OBVIOUS
    <3>2. PICK s2 : s2 = <<t>> \o s3
      OBVIOUS
    <3>3. PICK s1 : s1 = <<h>> \o s2
      OBVIOUS
    <3>4. s3 \in Seq(Short) /\ s2 \in Seq(Short) /\ s1 \in Seq(Short)
      BY <1>9, <3>1, <3>2, <3>3
    <3>5. rest = <<a>> \o s1
      BY <1>10, <3>1, <3>2, <3>3
    <3>6. PushedAll(s3) = pk
      BY <1>9, <2>5, <3>1, PushesOne
    <3>7. PushedAll(s2) = pt \o pk
      BY <1>9, <2>4, <3>2, <3>4, <3>6, PushesFront
    <3>8. PushedAll(s1) = ph \o (pt \o pk)
      BY <1>9, <2>3, <3>3, <3>4, <3>7, PushesFront
    <3> QED
      BY <1>9, <2>2, <3>4, <3>5, <3>8, PushesFront
  <2>11. (((o \o pa) \o ph) \o pt) \o pk = o \o (pa \o (ph \o (pt \o pk)))
    <3>1. (((o \o pa) \o ph) \o pt) \o pk = ((o \o pa) \o ph) \o (pt \o pk)
      BY <2>8, <2>9, SMTT(60)
    <3>2. ((o \o pa) \o ph) \o (pt \o pk) = (o \o pa) \o (ph \o (pt \o pk))
      BY <2>8, <2>9, SMTT(60)
    <3>3. (o \o pa) \o (ph \o (pt \o pk)) = o \o (pa \o (ph \o (pt \o pk)))
      BY <2>8, <2>9, SMTT(60)
    <3> QED
      BY <3>1, <3>2, <3>3
  <2> QED
    BY <2>6, <2>7, <2>10, <2>11
<1>14. PICK ops : ops = Ops[script]
  OBVIOUS
<1>15. Continued(ops, rest) /\ ParseOpReturn(script) = ParseMint(ops)
  <2>1. 1 \in 1 .. 3
    OBVIOUS
  <2> QED
    BY <1>11, <1>13, <1>14, <2>1, MetadataIsRead
<1>16. /\ DOMAIN ops = 1 .. 7
       /\ ops[4].data = {a} /\ ops[5].data = {h} /\ ops[6].data = {t} /\ ops[7].data = {key}
  <2>1. /\ 1 \in 1 .. Len(rest) /\ 2 \in 1 .. Len(rest) /\ 3 \in 1 .. Len(rest)
        /\ 4 \in 1 .. Len(rest) /\ 1 + 3 = 4 /\ 2 + 3 = 5 /\ 3 + 3 = 6 /\ 4 + 3 = 7
    BY <1>11
  <2>2. /\ ops \in Seq(AnOp) /\ Len(ops) = 7
        /\ \A i \in 1 .. Len(rest) : ops[i + 3].data = {rest[i]}
    BY <1>11, <1>15 DEF Continued
  <2>3. ops[4].data = {rest[1]} /\ ops[5].data = {rest[2]}
    BY <2>1, <2>2
  <2>4. ops[6].data = {rest[3]} /\ ops[7].data = {rest[4]}
    BY <2>1, <2>2
  <2> QED
    BY <1>11, <2>2, <2>3, <2>4
<1>17. Number(ops, 4) = {amount} /\ Number(ops, 5) = {height} /\ Number(ops, 6) = {tier}
  <2>1. 4 \in DOMAIN ops /\ 5 \in DOMAIN ops /\ 6 \in DOMAIN ops
    BY <1>16
  <2>2. Number(ops, 4) = {amount}
    BY <1>5, <1>6, <1>16, <2>1, NumberFound
  <2>3. Number(ops, 5) = {height}
    BY <1>5, <1>7, <1>16, <2>1, NumberFound
  <2>4. Number(ops, 6) = {tier}
    BY <1>5, <1>8, <1>16, <2>1, NumberFound
  <2> QED
    BY <2>2, <2>3, <2>4
<1>18. {data \in Pushed(ops, 7) : Len(data) = HashSize} = {key}
  BY <1>5, <1>16 DEF Pushed
<1>19. ParseMint(ops) = {m}
  <2> DEFINE N4 == Number(ops, 4) N5 == Number(ops, 5) N6 == Number(ops, 6)
             K == {data \in Pushed(ops, 7) : Len(data) = HashSize}
  <2>1. N4 = {amount} /\ N5 = {height} /\ N6 = {tier} /\ K = {key}
    BY <1>17, <1>18
  <2>2. ParseMint(ops) =
          {[txType |-> "mint", ddAmountCents |-> n4, lockHeight |-> n5,
            lockTier |-> n6, ownerPubKey |-> k] : n4 \in N4, n5 \in N5, n6 \in N6, k \in K}
    BY DEF ParseMint
  <2> HIDE DEF N4, N5, N6, K
  <2> QED
    BY <1>5, <2>1, <2>2
<1> QED
  BY <1>12, <1>15, <1>19

(* The loop over the amounts of a transfer.                                 *)
AmountsBy(f, ops) ==
  f = [i \in 3 .. Len(ops) |->
         IF i = 3 THEN << >>
         ELSE IF ops[i].data \in {{}, {<< >>}} THEN f[i - 1]
         ELSE Append(f[i - 1], Number(ops, i))]

HoldsAmounts(ops, n, values) ==
  /\ Len(ops) = n + 3
  /\ \A i \in 1 .. n : /\ ops[i + 3].data \notin {{}, {<< >>}}
                       /\ Number(ops, i + 3) = values[i]

Upto(n, values) == [i \in 1 .. n |-> values[i]]

(* The first elements of a sequence, one more at a time.                    *)
LEMMA UptoNext ==
  ASSUME NEW n \in Nat, NEW values
  PROVE  /\ Upto(0, values) = << >>
         /\ Upto(n + 1, values) = Append(Upto(n, values), values[n + 1])
<1>1. Upto(0, values) = << >>
  BY DEF Upto
<1>2. PICK s : s = Upto(n, values)
  OBVIOUS
<1>3. PICK t : t = Upto(n + 1, values)
  OBVIOUS
<1> DEFINE S == {values[i] : i \in 1 .. n + 1}
<1>4. /\ s \in Seq(S) /\ Len(s) = n /\ \A i \in 1 .. n : s[i] = values[i]
  BY <1>2 DEF Upto
<1>5. /\ t \in Seq(S) /\ Len(t) = n + 1 /\ \A i \in 1 .. n + 1 : t[i] = values[i]
  BY <1>3 DEF Upto
<1>6. values[n + 1] \in S
  OBVIOUS
<1> HIDE DEF S
<1>7. t = Append(s, values[n + 1])
  <2>1. PICK last : last = values[n + 1]
    OBVIOUS
  <2>2. PICK u : u = Append(s, last)
    OBVIOUS
  <2>3. last \in S
    BY <1>6, <2>1
  <2>4. u \in Seq(S) /\ Len(u) = n + 1 /\ u[n + 1] = last /\ \A i \in 1 .. n : u[i] = s[i]
    BY <1>4, <2>2, <2>3
  <2>5. \A i \in 1 .. n + 1 : u[i] = t[i]
    <3> SUFFICES ASSUME NEW i \in 1 .. n + 1 PROVE u[i] = t[i]
      OBVIOUS
    <3>1. CASE i = n + 1
      BY <1>5, <2>1, <2>4, <3>1
    <3>2. CASE i # n + 1
      <4>1. i \in 1 .. n
        BY <3>2
      <4> QED
        BY <1>4, <1>5, <2>4, <4>1
    <3> QED
      BY <3>1, <3>2
  <2>6. u = t
    BY <1>5, <2>4, <2>5
  <2> QED
    BY <2>1, <2>2, <2>6
<1> QED
  BY <1>1, <1>2, <1>3, <1>7

(* The loop of parseTransfer finds the amounts, one after the other.        *)
LEMMA AmountsFound ==
  ASSUME NEW n \in Nat, NEW values, NEW ops, HoldsAmounts(ops, n, values)
  PROVE  /\ \E f : AmountsBy(f, ops)
         /\ \A f : AmountsBy(f, ops) => f[n + 3] = Upto(n, values)
<1>1. /\ Len(ops) = n + 3
      /\ \A i \in 1 .. n : /\ ops[i + 3].data \notin {{}, {<< >>}}
                           /\ Number(ops, i + 3) = values[i]
  BY DEF HoldsAmounts
<1>2. ASSUME NEW i \in 3 .. n + 3, i # 3
      PROVE  /\ ops[i].data \notin {{}, {<< >>}}
             /\ Number(ops, i) = values[i - 3]
             /\ i - 3 \in 1 .. n
  <2>1. PICK k \in 1 .. n : k = i - 3
    BY <1>2
  <2>2. k + 3 = i
    BY <2>1
  <2> QED
    BY <1>1, <2>1, <2>2
<1>3. ASSUME NEW i \in 3 .. n + 3, i # 3
      PROVE  Upto(i - 3, values) = Append(Upto((i - 1) - 3, values), values[i - 3])
  <2>1. PICK k \in Nat : k = (i - 1) - 3
    BY <1>3
  <2>2. i - 3 = k + 1
    BY <2>1
  <2> QED
    BY <2>1, <2>2, UptoNext
<1>4. \E f : AmountsBy(f, ops)
  <2>1. PICK f : f = [i \in 3 .. n + 3 |-> Upto(i - 3, values)]
    OBVIOUS
  <2>2. ASSUME NEW i \in 3 .. n + 3
        PROVE  f[i] = IF i = 3 THEN << >>
                      ELSE IF ops[i].data \in {{}, {<< >>}} THEN f[i - 1]
                      ELSE Append(f[i - 1], Number(ops, i))
    <3>1. CASE i = 3
      <4>1. 3 - 3 = 0 /\ 0 \in Nat
        OBVIOUS
      <4>2. f[3] = Upto(0, values)
        BY <2>1, <3>1, <4>1
      <4> QED
        BY <3>1, <4>1, <4>2, UptoNext
    <3>2. CASE i # 3
      <4>1. i - 1 \in 3 .. n + 3
        BY <3>2
      <4>2. f[i] = Upto(i - 3, values) /\ f[i - 1] = Upto((i - 1) - 3, values)
        BY <2>1, <4>1
      <4> QED
        BY <1>2, <1>3, <3>2, <4>2
    <3> QED
      BY <3>1, <3>2
  <2>3. f = [i \in 3 .. Len(ops) |-> f[i]]
    BY <1>1, <2>1
  <2>4. AmountsBy(f, ops)
    BY <1>1, <2>2, <2>3, Zenon DEF AmountsBy
  <2> QED
    BY <2>4
<1>5. ASSUME NEW f, AmountsBy(f, ops)
      PROVE  f[n + 3] = Upto(n, values)
  <2>1. \A i \in 3 .. n + 3 : f[i] = IF i = 3 THEN << >>
                      ELSE IF ops[i].data \in {{}, {<< >>}} THEN f[i - 1]
                      ELSE Append(f[i - 1], Number(ops, i))
    BY <1>1, <1>5, Zenon DEF AmountsBy
  <2> DEFINE T == {k \in Nat : k <= n => f[k + 3] = Upto(k, values)}
  <2>2. 0 \in T
    <3>1. 3 \in 3 .. n + 3 /\ 0 + 3 = 3
      OBVIOUS
    <3>2. f[3] = << >>
      BY <2>1, <3>1
    <3>3. Upto(0, values) = << >>
      BY UptoNext
    <3> QED
      BY <3>1, <3>2, <3>3
  <2>3. ASSUME NEW k \in T \cap Nat PROVE k + 1 \in T
    <3> SUFFICES ASSUME k + 1 <= n PROVE f[(k + 1) + 3] = Upto(k + 1, values)
      OBVIOUS
    <3>1. f[k + 3] = Upto(k, values)
      OBVIOUS
    <3> HIDE DEF T
    <3>2. PICK i : i = k + 4
      OBVIOUS
    <3>3. k \in Nat /\ i \in 3 .. n + 3 /\ i # 3 /\ i - 1 = k + 3 /\ i - 3 = k + 1 /\ (k + 1) + 3 = i
      BY <3>2
    <3>4. f[i] = Append(f[i - 1], Number(ops, i))
      BY <1>2, <2>1, <3>3
    <3>5. Number(ops, i) = values[k + 1]
      BY <1>2, <3>3
    <3>6. Upto(k + 1, values) = Append(Upto(k, values), values[k + 1])
      BY <3>3, UptoNext
    <3> QED
      BY <3>1, <3>3, <3>4, <3>5, <3>6
  <2>4. Nat \subseteq T
    <3> HIDE DEF T
    <3> QED
      BY <2>2, <2>3, NumbersInduction
  <2>5. n \in T
    BY <2>4
  <2> QED
    BY <2>5
<1> QED
  BY <1>4, <1>5

(* The metadata of a transfer survives, however many amounts it has.        *)
LEMMA TransferIsRead ==
  ASSUME NEW m, TransferData(m)
  PROVE  ParseOpReturn(EncodeOpReturn(m)) = {m}
<1>1. PICK values : values = m.amounts
  OBVIOUS
<1>2. /\ values \in Seq(Int \ {0}) /\ values # << >>
      /\ \A i \in DOMAIN values : Encodable(values[i])
      /\ m = [txType |-> "transfer", amounts |-> values]
  BY <1>1 DEF TransferData
<1>3. PICK n \in Nat \ {0} : n = Len(values)
  BY <1>2
<1>4. DOMAIN values = 1 .. n /\ \A i \in 1 .. n : values[i] \in Int /\ values[i] # 0
  BY <1>2, <1>3
<1>5. PICK rest : rest = [i \in 1 .. n |-> EncodeScriptNum(values[i])]
  OBVIOUS
<1>6. rest \in Seq(Short) /\ Len(rest) = n
  <2>1. \A i \in 1 .. n : EncodeScriptNum(values[i]) \in Short
    BY <1>2, <1>4, ShortParts
  <2> QED
    BY <1>5, <2>1
<1>7. \A i \in 1 .. n : rest[i] # << >>
  <2> SUFFICES ASSUME NEW i \in 1 .. n PROVE rest[i] # << >>
    OBVIOUS
  <2>1. PICK v \in Int : v = values[i] /\ v # 0
    BY <1>4
  <2>2. Encodable(v) /\ rest[i] = EncodeScriptNum(v)
    BY <1>2, <1>4, <1>5, <2>1
  <2>3. DecodeScriptNum(rest[i]) = {v}
    BY <2>2, NumberSurvives DEF Encodable
  <2>4. DecodeScriptNum(<< >>) = {0}
    BY DEF DecodeScriptNum, MaxNumSize
  <2> QED
    BY <2>1, <2>3, <2>4
<1>8. PICK script : script = EncodeOpReturn(m)
  OBVIOUS
<1>9. script = OpReturnOf(2) \o PushedAll(rest)
  <2>1. EncodeOpReturn(m) = EncodeTransferOpReturn(m)
    BY <1>2 DEF EncodeOpReturn
  <2>2. [i \in DOMAIN values |-> PushNum(values[i])] = Written(Push, rest)
    <3>1. \A i \in 1 .. n : Push[rest[i]] = PushNum(values[i])
      <4> SUFFICES ASSUME NEW i \in 1 .. n PROVE Push[rest[i]] = PushNum(values[i])
        OBVIOUS
      <4>1. rest[i] \in Short /\ rest[i] = EncodeScriptNum(values[i])
        BY <1>5, <1>6
      <4> QED
        BY <4>1 DEF Push, PushNum
    <3>2. DOMAIN rest = 1 .. n
      BY <1>5
    <3> QED
      BY <1>4, <3>1, <3>2 DEF Written
  <2>3. EncodeTransferOpReturn(m)
          = OpReturnOf(2) \o FlattenSeq([i \in DOMAIN values |-> PushNum(values[i])])
    BY <1>1 DEF EncodeTransferOpReturn
  <2> QED
    BY <1>8, <2>1, <2>2, <2>3 DEF PushedAll
<1>10. PICK ops : ops = Ops[script]
  OBVIOUS
<1>11. Continued(ops, rest) /\ ParseOpReturn(script) = ParseTransfer(ops)
  <2>1. 2 \in 1 .. 3
    OBVIOUS
  <2> QED
    BY <1>6, <1>9, <1>10, <2>1, MetadataIsRead
<1>12. /\ Len(ops) = n + 3 /\ DOMAIN ops = 1 .. n + 3
       /\ \A i \in 1 .. n : ops[i + 3].data = {rest[i]}
       /\ \A i \in DOMAIN ops : ops[i] # Truncated
  BY <1>6, <1>11, SMTT(60) DEF Continued
<1>0. PICK sets : sets = [i \in 1 .. n |-> {values[i]}]
  OBVIOUS
<1>13. HoldsAmounts(ops, n, sets)
  <2> SUFFICES ASSUME NEW i \in 1 .. n
               PROVE  /\ ops[i + 3].data \notin {{}, {<< >>}}
                      /\ Number(ops, i + 3) = sets[i]
    BY <1>12 DEF HoldsAmounts
  <2>1. PICK k : k = i + 3
    OBVIOUS
  <2>2. k \in DOMAIN ops /\ ops[k].data = {rest[i]}
    BY <1>12, <2>1
  <2>3. ops[k].data = {EncodeScriptNum(values[i])} /\ Encodable(values[i])
    BY <1>2, <1>4, <1>5, <2>2
  <2>4. Number(ops, k) = {values[i]}
    BY <2>2, <2>3, NumberFound
  <2> QED
    BY <1>0, <1>7, <2>1, <2>2, <2>4
<1> DEFINE f == CHOOSE g : AmountsBy(g, ops)
<1>14. AmountsBy(f, ops)
  BY <1>13, AmountsFound
<1>15. PICK all : all = f[Len(ops)]
  OBVIOUS
<1>16. all = Upto(n, sets)
  BY <1>12, <1>13, <1>14, <1>15, AmountsFound
<1>17. DOMAIN all = 1 .. n /\ \A i \in 1 .. n : all[i] = {values[i]}
  BY <1>0, <1>16 DEF Upto
<1>18. all # << >>
  <2>1. 1 \in DOMAIN all
    BY <1>17
  <2> QED
    BY <2>1
<1>19. [i \in DOMAIN all |-> CHOOSE v \in all[i] : TRUE] = values
  <2>1. \A i \in 1 .. n : (CHOOSE v \in all[i] : TRUE) = values[i]
    BY <1>17
  <2>2. values = [i \in 1 .. n |-> values[i]]
    BY <1>2, <1>4
  <2> QED
    BY <1>17, <2>1, <2>2
<1>20. ParseTransfer(ops) = {[txType |-> "transfer", amounts |-> values]}
  <2>1. ParseTransfer(ops) =
          IF \/ all = << >>
             \/ \E i \in DOMAIN all : all[i] = {}
             \/ \E i \in DOMAIN ops : ops[i] = Truncated
          THEN {}
          ELSE {[txType |-> "transfer",
                 amounts |-> [i \in DOMAIN all |-> CHOOSE v \in all[i] : TRUE]]}
    BY <1>15 DEF ParseTransfer, AmountsBy
  <2>2. ~\E i \in DOMAIN all : all[i] = {}
    BY <1>17
  <2> QED
    BY <1>12, <1>18, <1>19, <2>1, <2>2
<1> QED
  BY <1>2, <1>8, <1>11, <1>20

----------------------------------------------------------------------------
Sampled(kind) == Is(kind) => item \in Samples[kind]

(* A sample is one of its kind, ...                                         *)
LEMMA SampledInit == ASSUME NEW kind PROVE Init => Sampled(kind)
BY DEF Init, Is, item, Sampled

(* ... and stays one.                                                       *)
LEMMA SampledStep == ASSUME NEW kind PROVE Sampled(kind) /\ [Next]_sample => Sampled(kind)'
BY DEF Next, Is, item, Sampled

(* Numbers of tx-builder are read by tx-parser as they were written, in as  *)
(* few bytes as can be, whatever the number.                                *)
THEOREM NumbersKept == Spec => []NumbersSurvive
<1> DEFINE Inv == Sampled("number") /\ Sampled("string")
<1>1. Init => Inv
  BY SampledInit
<1>2. Inv /\ [Next]_sample => Inv'
  BY SampledStep
<1>3. Inv => NumbersSurvive
  <2> SUFFICES ASSUME Inv PROVE NumbersSurvive
    OBVIOUS
  <2>1. ASSUME Is("number")
        PROVE  DecodeScriptNum(EncodeScriptNum(item)) =
                 {n \in {item} : Len(EncodeScriptNum(item)) <= MaxNumSize}
    <3>1. PICK v \in Int : v = item
      BY <2>1, EncodedAssumption DEF Sampled
    <3>2. DecodeScriptNum(EncodeScriptNum(v)) =
            IF Len(EncodeScriptNum(v)) <= MaxNumSize THEN {v} ELSE {}
      BY NumberSurvives
    <3> QED
      BY <3>1, <3>2
  <2>2. ASSUME Is("string"), NEW n \in DecodeScriptNum(item)
        PROVE  Len(EncodeScriptNum(n)) <= Len(item)
    <3>1. item \in Seq(Byte)
      BY <2>2, EncodedAssumption DEF Sampled, Short
    <3> QED
      BY <2>2, <3>1, NumberIsShortest
  <2> QED
    BY <2>1, <2>2 DEF NumbersSurvive
<1> QED
  BY <1>1, <1>2, <1>3, PTL DEF Spec

(* A pair, put together.                                                    *)
LEMMA TwoAre == \A a, b : <<a>> \o <<b>> = <<a, b>>
<1> SUFFICES ASSUME NEW S, NEW a \in S, NEW b \in S PROVE <<a>> \o <<b>> = <<a, b>>
  <2> SUFFICES ASSUME NEW a, NEW b PROVE <<a>> \o <<b>> = <<a, b>>
    OBVIOUS
  <2> DEFINE S == {a, b}
  <2>1. a \in S /\ b \in S
    OBVIOUS
  <2> HIDE DEF S
  <2> QED
    BY <2>1
<1>1. PICK u : u = <<a>> \o <<b>>
  OBVIOUS
<1>2. <<b>> \in Seq(S) /\ Len(<<b>>) = 1 /\ <<b>>[1] = b
  OBVIOUS
<1>3. u \in Seq(S) /\ Len(u) = 2 /\ u[1] = a /\ u[2] = b
  <2>1. /\ u \in Seq(S) /\ Len(u) = 1 + 1 /\ u[1] = a
        /\ \A i \in 1 .. 1 : u[i + 1] = <<b>>[i]
    BY <1>1, <1>2, OneBefore
  <2> QED
    BY <1>2, <2>1
<1>4. PICK v : v = <<a, b>>
  OBVIOUS
<1>5. v \in Seq(S) /\ Len(v) = 2 /\ v[1] = a /\ v[2] = b
  BY <1>4
<1>6. u = v
  BY <1>3, <1>5
<1> QED
  BY <1>1, <1>4, <1>6

(* iterScript finds in what pushData wrote the data and where it ends, for  *)
(* data of any length that four bytes can say.                              *)
THEOREM PushesRead == Spec => []PushesAreRead
<1> DEFINE Inv == Sampled("string")
<1>1. Init => Inv
  BY SampledInit
<1>2. Inv /\ [Next]_sample => Inv'
  BY SampledStep
<1>3. Inv => PushesAreRead
  <2> SUFFICES ASSUME Is("string"), item \in Samples["string"]
               PROVE  LET ops == Ops[PushData(item) \o <<OP_RETURN>>]
                      IN  /\ Len(ops) = 2
                          /\ ops[1].data = {item}
                          /\ ops[2] = [opcode |-> OP_RETURN, data |-> {}]
    BY DEF PushesAreRead, Sampled
  <2>1. PICK data : data = item
    OBVIOUS
  <2>2. data \in Seq(Byte) /\ Len(data) < Power[4]
    BY <2>1, EncodedAssumption DEF Short
  <2>3. PICK r : r = <<OP_RETURN>>
    OBVIOUS
  <2>4. r \in Seq(Byte) /\ << >> \in Seq(Byte) /\ r = <<OP_RETURN>> \o << >>
    BY <2>3, OpcodesType, BytesAreFinite
  <2>5. PICK opcode \in Int :
          Ops[PushData(data) \o r] = <<[opcode |-> opcode, data |-> {data}]>> \o Ops[r]
    BY <2>2, <2>4, PushIsRead
  <2>6. Ops[r] = <<[opcode |-> OP_RETURN, data |-> {}]>>
    <3>1. Ops[r] = <<[opcode |-> OP_RETURN, data |-> {}]>> \o << >>
      BY <2>4, ReturnIsRead, OpsIs
    <3> QED
      BY <3>1
  <2>7. PICK a : a = [opcode |-> opcode, data |-> {data}]
    OBVIOUS
  <2>8. PICK b : b = [opcode |-> OP_RETURN, data |-> {}]
    OBVIOUS
  <2>9. Ops[PushData(data) \o r] = <<a, b>>
    <3>1. PICK opsOfR : opsOfR = Ops[r]
      OBVIOUS
    <3>2. Ops[PushData(data) \o r] = <<a>> \o opsOfR /\ opsOfR = <<b>>
      BY <2>5, <2>6, <2>7, <2>8, <3>1
    <3>3. <<a>> \o <<b>> = <<a, b>>
      BY TwoAre
    <3> QED
      BY <3>2, <3>3
  <2>10. a.data = {data}
    BY <2>7
  <2> QED
    BY <2>1, <2>3, <2>8, <2>9, <2>10
<1> QED
  BY <1>1, <1>2, <1>3, PTL DEF Spec

(* parseOpReturn of tx-parser returns what the encoders of tx-builder were  *)
(* given, for any amounts, heights and tiers, however many the amounts.     *)
THEOREM MetadataKept == Spec => []MetadataSurvives
<1> DEFINE Inv == Sampled("metadata")
<1>1. Init => Inv
  BY SampledInit
<1>2. Inv /\ [Next]_sample => Inv'
  BY SampledStep
<1>3. Inv => MetadataSurvives
  BY EncodedAssumption, MintIsRead, TransferIsRead, RedeemIsRead DEF MetadataSurvives, Sampled
<1> QED
  BY <1>1, <1>2, <1>3, PTL DEF Spec

(* What was written first is taken first.                                   *)
LEMMA TakenFirst ==
  ASSUME NEW a \in Seq(Byte), NEW r \in Seq(Byte), NEW n, n = Len(a)
  PROVE  Take(a \o r, n) = a /\ Drop(a \o r, n) = r
<1>1. PICK s : s = a \o r
  OBVIOUS
<1>2. s \in Seq(Byte) /\ Len(s) = n + Len(r) /\ n \in Nat /\ Len(r) \in Nat
  BY <1>1
<1>3. SubSeq(s, 1, n) = a
  BY <1>1
<1>4. SubSeq(s, n + 1, Len(s)) = r
  BY <1>1
<1>5. (IF n < Len(s) THEN n ELSE Len(s)) = n
  BY <1>2
<1> QED
  BY <1>1, <1>3, <1>4, <1>5 DEF Take, Drop

(* A number of a fixed width is read back, and the cursor is behind it.     *)
LEMMA NumberReads ==
  ASSUME NEW w \in Nat, NEW n \in Nat, n < Power[w], NEW r \in Seq(Byte)
  PROVE  ReadNumber(w, LE[w][n] \o r) = Read(n, r)
<1>1. PICK a : a = LE[w][n]
  OBVIOUS
<1>2. a \in Seq(Byte) /\ Len(a) = w /\ Value[a] = n
  BY <1>1, LEType, LEIsRead
<1>3. Take(a \o r, w) = a /\ Drop(a \o r, w) = r
  BY <1>2, TakenFirst
<1> QED
  BY <1>1, <1>2, <1>3 DEF ReadNumber

(* Numbers that differ by the whole range are written alike, ...            *)
LEMMA LEWraps == \A w \in Nat, n \in Int : LE[w][n + Power[w]] = LE[w][n]
<1> DEFINE T == {w \in Nat : \A n \in Int : LE[w][n + Power[w]] = LE[w][n]}
<1>1. 0 \in T
  <2> SUFFICES ASSUME NEW n \in Int PROVE LE[0][n + Power[0]] = LE[0][n]
    OBVIOUS
  <2>1. Power[0] = 1
    BY PowerIs
  <2>2. \A k \in Int : LE[0][k] = << >>
    BY LENext, 0 \in Nat, ZenonT(60)
  <2>3. n + 1 \in Int
    BY SMTT(60)
  <2> QED
    BY <2>1, <2>2, <2>3
<1>2. ASSUME NEW w \in T \cap Nat PROVE w + 1 \in T
  <2> SUFFICES ASSUME NEW n \in Int PROVE LE[w + 1][n + Power[w + 1]] = LE[w + 1][n]
    OBVIOUS
  <2>0. \A k \in Int : LE[w][k + Power[w]] = LE[w][k]
    OBVIOUS
  <2> HIDE DEF T
  <2>1. PICK p \in Nat : p = Power[w] /\ Power[w + 1] = Base * p
    BY PowerType, LENext
  <2>2. PICK m \in Int : m = n + Base * p
    BY <2>1, BytesAreFinite
  <2>3. m % Base = n % Base /\ m \div Base = (n \div Base) + p
    <3>1. /\ n % Base \in Byte /\ n \div Base \in Int
          /\ n = Base * (n \div Base) + (n % Base)
      BY LowestByte
    <3>3. PICK q \in Int : q = (n \div Base) + p
      BY <3>1
    <3>4. m = Base * q + (n % Base)
      <4>1. Base * q = Base * (n \div Base) + Base * p
        BY <3>1, <3>3, BytesAreFinite
      <4>2. Base * (n \div Base) \in Int /\ Base * p \in Int /\ n % Base \in Int
        BY <3>1, BytesAreFinite
      <4> QED
        BY <2>2, <3>1, <4>1, <4>2
    <3>5. PICK c \in Byte : c = n % Base
      BY <3>1
    <3>6. m = c + Base * q
      BY <3>3, <3>4, <3>5, BytesAreFinite
    <3>7. (c + Base * q) % Base = c /\ (c + Base * q) \div Base = q
      BY Quotient
    <3> QED
      BY <3>3, <3>5, <3>6, <3>7
  <2>4. LE[w + 1][m] = <<m % Base>> \o LE[w][m \div Base]
    BY LENext
  <2>5. LE[w + 1][n] = <<n % Base>> \o LE[w][n \div Base]
    BY LENext
  <2>6. n \div Base \in Int
    BY LowestByte
  <2> QED
    BY <2>0, <2>1, <2>2, <2>3, <2>4, <2>5, <2>6
<1>3. Nat \subseteq T
  <2> HIDE DEF T
  <2> QED
    BY <1>1, <1>2, NumbersInduction
<1> QED
  BY <1>3

(* The range of a signed number has a middle.                               *)
LEMMA PowerIsEven ==
  ASSUME NEW w \in Nat \ {0}
  PROVE  \E half \in Nat \ {0} : Power[w] = 2 * half /\ Power[w] \div 2 = half
<1>1. PICK k \in Nat : w = k + 1
  <2>1. w - 1 \in Nat /\ w = (w - 1) + 1
    OBVIOUS
  <2> QED
    BY <2>1
<1>2. PICK p \in Nat \ {0} : p = Power[k] /\ Power[w] = Base * p
  BY <1>1, PowerIs, PowerType
<1>3. PICK b \in Nat \ {0} : Base = 2 * b
  <2>1. Base = 2 * (Base \div 2) /\ Base \div 2 \in Nat \ {0}
    BY BaseAssumption
  <2> QED
    BY <2>1
<1>4. b * p \in Nat \ {0} /\ Base * p = 2 * (b * p)
  BY <1>3
<1>5. PICK h \in Nat \ {0} : h = b * p
  BY <1>4
<1>6. (2 * h) \div 2 = h
  OBVIOUS
<1> QED
  BY <1>2, <1>4, <1>5, <1>6

(* A signed number is read back.                                            *)
LEMMA SignedReads ==
  ASSUME NEW w \in Nat \ {0}, NEW n \in Signed(w), NEW r \in Seq(Byte)
  PROVE  ReadSigned(w, LE[w][n] \o r) = Read(n, r)
<1>1. PICK half \in Nat \ {0} : Power[w] = 2 * half /\ Power[w] \div 2 = half
  BY PowerIsEven
<1>2. n \in Int /\ -half <= n /\ n < half
  BY <1>1 DEF Signed
<1>3. CASE n >= 0
  <2>1. n \in Nat /\ n < Power[w]
    BY <1>1, <1>2, <1>3
  <2>2. ReadNumber(w, LE[w][n] \o r) = [value |-> n, rest |-> r]
    BY <2>1, NumberReads DEF Read
  <2> QED
    BY <1>1, <1>2, <2>2 DEF ReadSigned, Read
<1>4. CASE n < 0
  <2>1. PICK m \in Nat : m = n + Power[w]
    BY <1>1, <1>2
  <2>2. m < Power[w] /\ ~(m < half) /\ m - Power[w] = n
    BY <1>1, <1>2, <1>4, <2>1
  <2>3. LE[w][m] = LE[w][n]
    BY <1>2, <2>1, LEWraps
  <2>4. ReadNumber(w, LE[w][n] \o r) = [value |-> m, rest |-> r]
    BY <2>2, <2>3, NumberReads DEF Read
  <2>5. ReadSigned(w, LE[w][n] \o r)
          = [[value |-> m, rest |-> r] EXCEPT !.value = m - Power[w]]
    BY <1>1, <2>2, <2>4 DEF ReadSigned
  <2> QED
    BY <2>2, <2>5 DEF Read
<1> QED
  BY <1>2, <1>3, <1>4

(* The forms of CompactSize.                                                *)
LEMMA VarintForms ==
  ASSUME NEW n \in Nat
  PROVE  EncodeVarint(n) = IF n < Base - 3 THEN <<n>>
                           ELSE IF n < Power[2] THEN <<Base - 3>> \o LE[2][n]
                           ELSE IF n < Power[4] THEN <<Base - 2>> \o LE[4][n]
                           ELSE <<Base - 1>> \o LE[8][n]
<1>1. PICK p2 \in Nat : p2 = Power[2] /\ p2 >= Base
  <2>1. Base * Base >= Base
    BY BaseAssumption
  <2> QED
    BY <2>1, SmallPowers, PowerType
<1>2. PICK p4 \in Nat : p4 = Power[4] /\ p4 >= p2
  <2>1. Power[3] = Base * Power[2] /\ Power[4] = Base * Power[3] /\ Power[3] \in Nat
    BY PowerIs, PowerType
  <2>2. Base * p2 >= p2
    BY <1>1, BaseAssumption
  <2>3. Power[3] >= p2
    BY <1>1, <2>1, <2>2
  <2>4. PICK p3 \in Nat : p3 = Power[3]
    BY <2>1
  <2>5. Base * p3 >= p3 /\ Base * p3 \in Nat
    BY BaseAssumption
  <2> QED
    BY <2>1, <2>3, <2>4, <2>5
<1>3. Base \in Nat /\ Base > 4
  BY BaseAssumption
<1>4. CASE n < Base - 3
  <2>1. ~(n >= Base - 3) /\ ~(n >= p2)
    BY <1>1, <1>3, <1>4
  <2> QED
    BY <1>1, <1>4, <2>1 DEF EncodeVarint
<1>5. CASE ~(n < Base - 3) /\ n < p2
  <2>1. n >= Base - 3 /\ ~(n >= p2)
    BY <1>3, <1>5
  <2> QED
    BY <1>1, <1>5, <2>1 DEF EncodeVarint
<1>6. CASE ~(n < p2) /\ n < p4
  <2>1. n >= p2 /\ ~(n < Base - 3)
    BY <1>1, <1>3, <1>6
  <2> QED
    BY <1>1, <1>2, <1>6, <2>1 DEF EncodeVarint
<1>7. CASE ~(n < p4)
  <2>1. ~(n < p2) /\ ~(n < Base - 3)
    BY <1>1, <1>2, <1>3, <1>7
  <2> QED
    BY <1>1, <1>2, <1>7, <2>1 DEF EncodeVarint
<1> QED
  BY <1>1, <1>2, <1>4, <1>5, <1>6, <1>7

(* The first byte of a CompactSize tells how many follow.                   *)
LEMMA ReadVarintIs ==
  ASSUME NEW first \in Byte, NEW rest \in Seq(Byte)
  PROVE  ReadVarint[<<first>> \o rest] =
           IF first = Base - 3 THEN ReadNumber(2, rest)
           ELSE IF first = Base - 2 THEN ReadNumber(4, rest)
           ELSE IF first = Base - 1 THEN ReadNumber(8, rest)
           ELSE ReadNumber(1, <<first>> \o rest)
<1>1. PICK s : s = <<first>> \o rest
  OBVIOUS
<1>2. s \in Seq(Byte) /\ Tail(s) = rest
  BY <1>1, OneBefore
<1>3. Take(s, 1) = <<first>>
  <2>1. <<first>> \in Seq(Byte) /\ Len(<<first>>) = 1
    OBVIOUS
  <2> QED
    BY <1>1, <2>1, TakenFirst
<1>4. first \in Int /\ Base \in Int
  BY BytesAreFinite
<1>5. ReadVarint[s] =
        CASE Take(s, 1) = <<Base - 3>> -> ReadNumber(2, Tail(s))
          [] Take(s, 1) = <<Base - 2>> -> ReadNumber(4, Tail(s))
          [] Take(s, 1) = <<Base - 1>> -> ReadNumber(8, Tail(s))
          [] OTHER -> ReadNumber(1, s)
  BY <1>2, Zenon DEF ReadVarint
<1>6. \A x : <<first>> = <<x>> <=> first = x
  OBVIOUS
<1>7. CASE first = Base - 3
  <2>1. first # Base - 2 /\ first # Base - 1
    BY <1>4, <1>7
  <2> QED
    BY <1>1, <1>2, <1>3, <1>5, <1>6, <1>7, <2>1
<1>8. CASE first = Base - 2
  <2>1. first # Base - 3 /\ first # Base - 1
    BY <1>4, <1>8
  <2> QED
    BY <1>1, <1>2, <1>3, <1>5, <1>6, <1>8, <2>1
<1>9. CASE first = Base - 1
  <2>1. first # Base - 3 /\ first # Base - 2
    BY <1>4, <1>9
  <2> QED
    BY <1>1, <1>2, <1>3, <1>5, <1>6, <1>9, <2>1
<1>10. CASE first # Base - 1 /\ first # Base - 2 /\ first # Base - 3
  BY <1>1, <1>2, <1>3, <1>5, <1>6, <1>10
<1> QED
  BY <1>7, <1>8, <1>9, <1>10

(* A count is read back, whatever its form.                                 *)
LEMMA VarintReads ==
  ASSUME NEW n \in Nat, n < Power[8], NEW r \in Seq(Byte)
  PROVE  /\ EncodeVarint(n) \in Seq(Byte) /\ EncodeVarint(n) # << >>
         /\ ReadVarint[EncodeVarint(n) \o r] = Read(n, r)
<1>1. n \in Int /\ Base \in Nat /\ Base > 4 /\ Power[1] = Base
  BY BaseAssumption, SmallPowers
<1>2. Base - 3 \in Byte /\ Base - 2 \in Byte /\ Base - 1 \in Byte
  BY BaseAssumption DEF Byte
<1>3. CASE n < Base - 3
  <2>1. n \in Byte
    BY <1>1, <1>3, BytesAreFinite
  <2>2. EncodeVarint(n) = <<n>> /\ <<n>> \in Seq(Byte) /\ <<n>> # << >>
    BY <1>3, <2>1, VarintForms
  <2>3. n # Base - 3 /\ n # Base - 2 /\ n # Base - 1
    BY <1>1, <1>3
  <2>4. ReadVarint[<<n>> \o r] = ReadNumber(1, <<n>> \o r)
    BY <2>1, <2>3, ReadVarintIs
  <2>5. ReadNumber(1, <<n>> \o r) = Read(n, r)
    <3>1. LE[1][n] = <<n>>
      <4>1. LE[0 + 1][n] = <<n % Base>> \o LE[0][n \div Base] /\ LE[0][n \div Base] = << >>
        <5>1. n \div Base \in Int
          BY <1>1, LowestByte
        <5> QED
          BY <1>1, <5>1, LENext
      <4>2. n % Base = n
        BY <1>1, <1>3
      <4>3. 0 + 1 = 1
        OBVIOUS
      <4> QED
        BY <4>1, <4>2, <4>3
    <3>2. n < Power[1]
      BY <1>1, <1>3
    <3>3. 1 \in Nat
      OBVIOUS
    <3> QED
      BY <3>1, <3>2, <3>3, NumberReads
  <2> QED
    BY <2>2, <2>4, <2>5
<1>4. ASSUME NEW first \in Byte, NEW w \in Nat, n < Power[w],
             EncodeVarint(n) = <<first>> \o LE[w][n],
             \A rest \in Seq(Byte) : ReadVarint[<<first>> \o rest] = ReadNumber(w, rest)
      PROVE  /\ EncodeVarint(n) \in Seq(Byte) /\ EncodeVarint(n) # << >>
             /\ ReadVarint[EncodeVarint(n) \o r] = Read(n, r)
  <2>1. PICK a : a = LE[w][n]
    OBVIOUS
  <2>2. a \in Seq(Byte) /\ a \o r \in Seq(Byte)
    BY <1>1, <2>1, LEType
  <2>3. <<first>> \o a \in Seq(Byte) /\ <<first>> \o a # << >>
    BY <2>2
  <2>4. (<<first>> \o a) \o r = <<first>> \o (a \o r)
    BY <2>2
  <2>5. ReadVarint[<<first>> \o (a \o r)] = ReadNumber(w, a \o r)
    BY <1>4, <2>2
  <2>6. ReadNumber(w, a \o r) = Read(n, r)
    BY <1>4, <2>1, NumberReads
  <2> QED
    BY <1>4, <2>1, <2>3, <2>4, <2>5, <2>6
<1>5. /\ \A rest \in Seq(Byte) : ReadVarint[<<Base - 3>> \o rest] = ReadNumber(2, rest)
      /\ \A rest \in Seq(Byte) : ReadVarint[<<Base - 2>> \o rest] = ReadNumber(4, rest)
      /\ \A rest \in Seq(Byte) : ReadVarint[<<Base - 1>> \o rest] = ReadNumber(8, rest)
  <2>1. Base - 2 # Base - 3 /\ Base - 1 # Base - 2 /\ Base - 1 # Base - 3
    BY <1>1
  <2> QED
    BY <1>2, <2>1, ReadVarintIs
<1>6. CASE ~(n < Base - 3) /\ n < Power[2]
  <2>1. EncodeVarint(n) = <<Base - 3>> \o LE[2][n]
    BY <1>6, VarintForms
  <2> QED
    BY <1>2, <1>4, <1>5, <1>6, <2>1, SMTT(60)
<1>7. CASE ~(n < Base - 3) /\ ~(n < Power[2]) /\ n < Power[4]
  <2>1. EncodeVarint(n) = <<Base - 2>> \o LE[4][n]
    BY <1>7, VarintForms
  <2> QED
    BY <1>2, <1>4, <1>5, <1>7, <2>1
<1>8. CASE ~(n < Base - 3) /\ ~(n < Power[2]) /\ ~(n < Power[4])
  <2>1. EncodeVarint(n) = <<Base - 1>> \o LE[8][n]
    BY <1>8, VarintForms
  <2> QED
    BY <1>2, <1>4, <1>5, <2>1, ZenonT(60)
<1> QED
  BY <1>3, <1>6, <1>7, <1>8

(* A string with its length before it is read back.                         *)
LEMMA PrefixedReads ==
  ASSUME NEW s \in Seq(Byte), Len(s) < Power[8], NEW r \in Seq(Byte)
  PROVE  /\ Prefixed(s) \in Seq(Byte) /\ Prefixed(s) # << >>
         /\ ReadPrefixed[Prefixed(s) \o r] = Read(s, r)
<1>1. PICK a : a = EncodeVarint(Len(s))
  OBVIOUS
<1>2. Len(s) \in Nat /\ s \o r \in Seq(Byte)
  OBVIOUS
<1>3. a \in Seq(Byte) /\ a # << >> /\ ReadVarint[a \o (s \o r)] = Read(Len(s), s \o r)
  BY <1>1, <1>2, VarintReads
<1>4. Prefixed(s) = a \o s
  BY <1>1 DEF Prefixed
<1>5. a \o s \in Seq(Byte) /\ a \o s # << >> /\ (a \o s) \o r = a \o (s \o r)
  BY <1>3
<1>6. PICK all : all = a \o (s \o r)
  OBVIOUS
<1>7. all \in Seq(Byte)
  BY <1>3, <1>2, <1>6
<1>8. ReadVarint[all] = [value |-> Len(s), rest |-> s \o r]
  BY <1>3, <1>6 DEF Read
<1>9. ReadPrefixed[all] = Read(Take(s \o r, Len(s)), Drop(s \o r, Len(s)))
  <2>1. ReadPrefixed[all] = Read(Take(ReadVarint[all].rest, ReadVarint[all].value),
                                Drop(ReadVarint[all].rest, ReadVarint[all].value))
    BY <1>7, Zenon DEF ReadPrefixed
  <2>2. ReadVarint[all].value = Len(s) /\ ReadVarint[all].rest = s \o r
    BY <1>8
  <2> QED
    BY <2>1, <2>2
<1>10. Take(s \o r, Len(s)) = s /\ Drop(s \o r, Len(s)) = r
  BY TakenFirst
<1> QED
  BY <1>4, <1>5, <1>6, <1>9, <1>10

(* Reading elements one after the other.                                    *)
Reads(readOne, w, V, seen) ==
  \A v \in V, r \in Seq(Byte) : readOne[w[v] \o r] = Read(seen[v], r)

TimesBy(f, count, readOne, bytes) ==
  f = [n \in 0 .. count |->
         IF n = 0 THEN Read(<< >>, bytes)
         ELSE LET one == readOne[f[n - 1].rest]
              IN  Read(Append(f[n - 1].value, one.value), one.rest)]

Left(w, s, n, r) == FlattenSeq(Written(w, SubSeq(s, n + 1, Len(s)))) \o r

LeftStep(w, s, n, r) ==
  /\ Left(w, s, n, r) = w[s[n + 1]] \o Left(w, s, n + 1, r)
  /\ Left(w, s, n + 1, r) \in Seq(Byte)

(* What is left to read after some elements.                                *)
LEMMA LeftNext ==
  ASSUME NEW V, NEW w \in [V -> Seq(Byte)], NEW s \in Seq(V), NEW r \in Seq(Byte)
  PROVE  /\ Left(w, s, 0, r) = FlattenSeq(Written(w, s)) \o r
         /\ Left(w, s, Len(s), r) = r
         /\ \A n \in Nat : n + 1 \in 1 .. Len(s) => LeftStep(w, s, n, r)
<1>1. /\ FlattenSeq(Written(w, << >>)) = << >>
      /\ \A t \in Seq(V) : FlattenSeq(Written(w, t)) \in Seq(Byte)
      /\ \A e \in V, t \in Seq(V) :
           FlattenSeq(Written(w, <<e>> \o t)) = w[e] \o FlattenSeq(Written(w, t))
  BY EncodedFront
<1>2. SubSeq(s, 0 + 1, Len(s)) = s /\ SubSeq(s, Len(s) + 1, Len(s)) = << >>
  OBVIOUS
<1>3. << >> \o r = r
  OBVIOUS
<1>4. \A n \in 0 .. Len(s) : Left(w, s, n, r) \in Seq(Byte)
  <2> SUFFICES ASSUME NEW n \in 0 .. Len(s) PROVE Left(w, s, n, r) \in Seq(Byte)
    OBVIOUS
  <2>1. PICK t : t = SubSeq(s, n + 1, Len(s))
    OBVIOUS
  <2>2. t \in Seq(V)
    BY <2>1
  <2>3. FlattenSeq(Written(w, t)) \in Seq(Byte)
    BY <1>1, <2>2
  <2> QED
    BY <2>1, <2>3 DEF Left
<1>5. ASSUME NEW n \in Nat, n + 1 \in 1 .. Len(s)
      PROVE  LeftStep(w, s, n, r)
  <2>0. Left(w, s, n + 1, r) \in Seq(Byte)
    BY <1>4, <1>5
  <2>1. PICK t : t = SubSeq(s, (n + 1) + 1, Len(s))
    OBVIOUS
  <2>2. PICK e \in V : e = s[n + 1]
    BY <1>5
  <2>3. t \in Seq(V) /\ SubSeq(s, n + 1, Len(s)) = <<e>> \o t
    BY <1>5, <2>1, <2>2
  <2>4. PICK b : b = FlattenSeq(Written(w, t))
    OBVIOUS
  <2>5. b \in Seq(Byte) /\ w[e] \in Seq(Byte)
    BY <1>1, <2>3, <2>4
  <2>6. FlattenSeq(Written(w, SubSeq(s, n + 1, Len(s)))) = w[e] \o b
    BY <1>1, <2>3, <2>4
  <2>7. (w[e] \o b) \o r = w[e] \o (b \o r)
    BY <2>5, Associative
  <2> QED
    BY <2>0, <2>1, <2>2, <2>4, <2>6, <2>7 DEF Left, LeftStep
<1> QED
  BY <1>1, <1>2, <1>3, <1>4, <1>5 DEF Left

(* What was written for each element is read back, one after the other.     *)
LEMMA TimesReads ==
  ASSUME NEW V, NEW w \in [V -> Seq(Byte)], NEW seen, NEW readOne,
         Reads(readOne, w, V, seen), NEW s \in Seq(V), NEW r \in Seq(Byte)
  PROVE  Times(Len(s), readOne, FlattenSeq(Written(w, s)) \o r) = Read(Written(seen, s), r)
<1>1. PICK count \in Nat : count = Len(s)
  OBVIOUS
<1>2. PICK bytes : bytes = FlattenSeq(Written(w, s)) \o r
  OBVIOUS
<1>3. PICK values : values = Written(seen, s)
  OBVIOUS
<1> DEFINE left(n) == Left(w, s, n, r)
<1>4. /\ left(0) = bytes /\ left(count) = r
      /\ \A n \in Nat : n + 1 \in 1 .. count => LeftStep(w, s, n, r)
  <2>1. /\ Left(w, s, 0, r) = FlattenSeq(Written(w, s)) \o r
        /\ Left(w, s, Len(s), r) = r
        /\ \A n \in Nat : n + 1 \in 1 .. Len(s) => LeftStep(w, s, n, r)
    BY LeftNext, ZenonT(60)
  <2> QED
    BY <1>1, <1>2, <2>1, ZenonT(60)
<1>5. \A n \in 1 .. count : s[n] \in V /\ values[n] = seen[s[n]]
  BY <1>1, <1>3 DEF Written
<1>6. ASSUME NEW n \in Nat, n + 1 \in 1 .. count
      PROVE  readOne[left(n)] = [value |-> values[n + 1], rest |-> left(n + 1)]
  <2>1. left(n) = w[s[n + 1]] \o left(n + 1) /\ left(n + 1) \in Seq(Byte) /\ s[n + 1] \in V
    <3>1. LeftStep(w, s, n, r)
      BY <1>4, <1>6
    <3> QED
      BY <1>5, <1>6, <3>1 DEF LeftStep
  <2>2. values[n + 1] = seen[s[n + 1]]
    BY <1>5, <1>6
  <2> HIDE DEF left
  <2> QED
    BY <2>1, <2>2 DEF Reads, Read
<1> HIDE DEF left
<1> DEFINE at(n) == [value |-> Upto(n, values), rest |-> left(n)]
<1>7. at(0) = Read(<< >>, bytes)
  BY <1>4, UptoNext DEF Read
<1>8. ASSUME NEW n \in Nat, n + 1 \in 1 .. count
      PROVE  at(n + 1) = LET one == readOne[at(n).rest]
                         IN  Read(Append(at(n).value, one.value), one.rest)
  <2>1. readOne[at(n).rest] = [value |-> values[n + 1], rest |-> left(n + 1)]
    BY <1>6, <1>8
  <2>2. Upto(n + 1, values) = Append(Upto(n, values), values[n + 1])
    BY UptoNext
  <2>3. PICK next : next = Append(Upto(n, values), values[n + 1])
    OBVIOUS
  <2>4. (LET one == readOne[at(n).rest] IN Read(Append(at(n).value, one.value), one.rest))
          = [value |-> next, rest |-> left(n + 1)]
    BY <2>1, <2>3 DEF Read
  <2> QED
    BY <2>2, <2>3, <2>4
<1> DEFINE next(f, n) == LET one == readOne[f[n - 1].rest]
                         IN  Read(Append(f[n - 1].value, one.value), one.rest)
<1>9. \E f : TimesBy(f, count, readOne, bytes)
  <2>1. PICK f : f = [n \in 0 .. count |-> at(n)]
    OBVIOUS
  <2>2. ASSUME NEW n \in 0 .. count
        PROVE  f[n] = IF n = 0 THEN Read(<< >>, bytes) ELSE next(f, n)
    <3>1. CASE n = 0
      <4>1. f[n] = at(0)
        BY <2>1, <3>1
      <4> QED
        BY <1>7, <3>1, <4>1
    <3>2. CASE n # 0
      <4>1. PICK k \in Nat : n = k + 1 /\ n - 1 = k /\ k \in 0 .. count /\ k + 1 \in 1 .. count
        <5>1. n - 1 \in Nat /\ n = (n - 1) + 1 /\ n - 1 \in 0 .. count /\ (n - 1) + 1 \in 1 .. count
          BY <3>2
        <5> QED
          BY <5>1
      <4>2. f[n] = at(k + 1) /\ f[n - 1] = at(k)
        BY <2>1, <4>1
      <4> HIDE DEF at
      <4> QED
        BY <1>8, <3>2, <4>1, <4>2
    <3> QED
      BY <3>1, <3>2
  <2>3. f = [n \in 0 .. count |-> f[n]]
    BY <2>1
  <2>4. TimesBy(f, count, readOne, bytes)
    BY <2>2, <2>3, Zenon DEF TimesBy
  <2> QED
    BY <2>4
<1>10. ASSUME NEW f, TimesBy(f, count, readOne, bytes)
       PROVE  f[count] = at(count)
  <2>1. \A n \in 0 .. count : f[n] = IF n = 0 THEN Read(<< >>, bytes) ELSE next(f, n)
    BY <1>10, Zenon DEF TimesBy
  <2> DEFINE T == {n \in Nat : n <= count => f[n] = at(n)}
  <2>2. 0 \in T
    BY <1>7, <2>1
  <2>3. ASSUME NEW n \in T \cap Nat PROVE n + 1 \in T
    <3> SUFFICES ASSUME n + 1 <= count PROVE f[n + 1] = at(n + 1)
      OBVIOUS
    <3>1. n \in Nat /\ f[n] = at(n)
      OBVIOUS
    <3> HIDE DEF T, at
    <3>2. n + 1 \in 0 .. count /\ n + 1 \in 1 .. count /\ n + 1 # 0 /\ (n + 1) - 1 = n
      BY <3>1
    <3>3. f[n + 1] = next(f, n + 1)
      BY <2>1, <3>2
    <3> QED
      BY <1>8, <3>1, <3>2, <3>3
  <2>4. Nat \subseteq T
    <3> HIDE DEF T
    <3> QED
      BY <2>2, <2>3, NumbersInduction
  <2>5. count \in T
    BY <2>4
  <2> QED
    BY <2>5
<1>11. Upto(count, values) = values
  BY <1>1, <1>3 DEF Upto, Written
<1> DEFINE g == CHOOSE f : TimesBy(f, count, readOne, bytes)
<1>12. g[count] = at(count)
  <2>1. TimesBy(g, count, readOne, bytes)
    BY <1>9
  <2> QED
    BY <1>10, <2>1
<1>13. Times(count, readOne, bytes) = g[count]
  BY DEF Times, TimesBy
<1> QED
  BY <1>1, <1>2, <1>3, <1>4, <1>11, <1>12, <1>13 DEF Read

(* What fits into four bytes fits into eight.                               *)
LEMMA PowersGrow == Power[4] <= Power[8]
<1>1. \A w \in Nat : Power[w + 1] >= Power[w]
  <2> SUFFICES ASSUME NEW w \in Nat PROVE Power[w + 1] >= Power[w]
    OBVIOUS
  <2>1. PICK p \in Nat : p = Power[w]
    BY PowerType
  <2>2. Power[w + 1] = Base * p
    BY <2>1, PowerIs
  <2>3. Base * p >= p
    BY BaseAssumption
  <2> QED
    BY <2>1, <2>2, <2>3
<1>2. Power[4 + 1] >= Power[4] /\ Power[5 + 1] >= Power[5]
  BY <1>1
<1>3. Power[6 + 1] >= Power[6] /\ Power[7 + 1] >= Power[7]
  BY <1>1
<1>4. 4 + 1 = 5 /\ 5 + 1 = 6 /\ 6 + 1 = 7 /\ 7 + 1 = 8
  OBVIOUS
<1>5. Power[4] \in Nat /\ Power[5] \in Nat /\ Power[6] \in Nat /\ Power[7] \in Nat /\ Power[8] \in Nat
  BY PowerType
<1> QED
  BY <1>2, <1>3, <1>4, <1>5

(* A counted list.                                                          *)
LEMMA ManyReads ==
  ASSUME NEW V, NEW w \in [V -> Seq(Byte)], NEW seen, NEW readOne,
         Reads(readOne, w, V, seen), NEW s \in Seq(V), Len(s) < Power[4],
         NEW r \in Seq(Byte)
  PROVE  /\ FlattenSeq(Written(w, s)) \in Seq(Byte)
         /\ ReadMany(readOne, EncodeVarint(Len(s)) \o (FlattenSeq(Written(w, s)) \o r))
              = Read(Written(seen, s), r)
<1>1. PICK body : body = FlattenSeq(Written(w, s))
  OBVIOUS
<1>2. body \in Seq(Byte) /\ body \o r \in Seq(Byte)
  <2>1. body \in Seq(Byte)
    BY <1>1, EncodedFront
  <2> QED
    BY <2>1
<1>3. Len(s) \in Nat /\ Len(s) < Power[8]
  BY PowersGrow, PowerType
<1>4. ReadVarint[EncodeVarint(Len(s)) \o (body \o r)] = [value |-> Len(s), rest |-> body \o r]
  BY <1>2, <1>3, VarintReads DEF Read
<1>5. ReadMany(readOne, EncodeVarint(Len(s)) \o (body \o r)) = Times(Len(s), readOne, body \o r)
  BY <1>4 DEF ReadMany
<1>6. Times(Len(s), readOne, body \o r) = Read(Written(seen, s), r)
  BY <1>1, TimesReads
<1> QED
  BY <1>1, <1>2, <1>5, <1>6

----------------------------------------------------------------------------
(* The parts of a transaction.                                              *)
LEMMA ReversedTwice ==
  ASSUME NEW s \in Seq(Byte)
  PROVE  Reverse(s) \in Seq(Byte) /\ Len(Reverse(s)) = Len(s) /\ Reverse(Reverse(s)) = s
<1>1. PICK n \in Nat : n = Len(s)
  OBVIOUS
<1>2. PICK t : t = Reverse(s)
  OBVIOUS
<1>3. \A i \in 1 .. n : (n - i) + 1 \in 1 .. n /\ (n - ((n - i) + 1)) + 1 = i
  OBVIOUS
<1>4. t = [i \in 1 .. n |-> s[(n - i) + 1]]
  BY <1>1, <1>2 DEF Reverse
<1>5. t \in Seq(Byte) /\ Len(t) = n
  BY <1>1, <1>3, <1>4
<1>6. Reverse(t) = [i \in 1 .. n |-> t[(n - i) + 1]]
  BY <1>5 DEF Reverse
<1>7. \A i \in 1 .. n : t[(n - i) + 1] = s[i]
  <2> SUFFICES ASSUME NEW i \in 1 .. n PROVE t[(n - i) + 1] = s[i]
    OBVIOUS
  <2>1. PICK k \in 1 .. n : k = (n - i) + 1 /\ (n - k) + 1 = i
    BY <1>3
  <2> QED
    BY <1>4, <2>1
<1>8. s = [i \in 1 .. n |-> s[i]]
  BY <1>1
<1> QED
  BY <1>1, <1>2, <1>5, <1>6, <1>7, <1>8

(* A script is read back.                                                   *)
LEMMA ShortReads ==
  ASSUME NEW s \in Short, NEW r \in Seq(Byte)
  PROVE  /\ Prefixed(s) \in Seq(Byte)
         /\ ReadPrefixed[Prefixed(s) \o r] = [value |-> s, rest |-> r]
<1>1. s \in Seq(Byte) /\ Len(s) \in Nat /\ Len(s) < Power[8]
  BY PowersGrow, PowerType DEF Short
<1> QED
  BY <1>1, PrefixedReads DEF Read

(* An unsigned number is read back.                                         *)
LEMMA UnsignedReads ==
  ASSUME NEW w \in Nat, NEW n \in Unsigned(w), NEW r \in Seq(Byte)
  PROVE  /\ LE[w][n] \in Seq(Byte)
         /\ ReadNumber(w, LE[w][n] \o r) = [value |-> n, rest |-> r]
<1>1. n \in Nat /\ n < Power[w] /\ n \in Int
  BY DEF Unsigned
<1> QED
  BY <1>1, LEType, NumberReads DEF Read

InputRead ==
  [input \in InputData |-> [txid |-> input.txid, vout |-> input.vout,
                            scriptSig |-> input.scriptSig, sequence |-> input.sequence,
                            witness |-> << >>]]

InputWritten == [input \in InputData |-> SerializeInput(input)]

(* An input is read back, but for its witness.                              *)
LEMMA InputReads ==
  /\ InputWritten \in [InputData -> Seq(Byte)]
  /\ Reads(ReadInput, InputWritten, InputData, InputRead)
<1> SUFFICES ASSUME NEW input \in InputData, NEW r \in Seq(Byte)
             PROVE  /\ SerializeInput(input) \in Seq(Byte)
                    /\ ReadInput[SerializeInput(input) \o r] = Read(InputRead[input], r)
  BY << >> \in Seq(Byte) DEF InputWritten, Reads
<1>1. /\ input.txid \in Txids /\ input.vout \in Unsigned(4)
      /\ input.scriptSig \in Short /\ input.sequence \in Unsigned(4)
  BY DEF InputData
<1>2. PICK txid : txid = Reverse(input.txid)
  OBVIOUS
<1>3. txid \in Seq(Byte) /\ Len(txid) = HashSize /\ Reverse(txid) = input.txid
  BY <1>1, <1>2, ReversedTwice DEF Txids
<1>4. PICK vout : vout = LE[4][input.vout]
  OBVIOUS
<1>5. PICK script : script = Prefixed(input.scriptSig)
  OBVIOUS
<1>6. PICK sequence : sequence = LE[4][input.sequence]
  OBVIOUS
<1>7. vout \in Seq(Byte) /\ script \in Seq(Byte) /\ sequence \in Seq(Byte)
  <2>1. 4 \in Nat
    OBVIOUS
  <2> QED
    BY <1>1, <1>4, <1>5, <1>6, <2>1, UnsignedReads, ShortReads
<1>8. SerializeInput(input) = ((txid \o vout) \o script) \o sequence
  BY <1>2, <1>4, <1>5, <1>6, Zenon DEF SerializeInput, Outpoint
<1>9. PICK r3 : r3 = sequence \o r
  OBVIOUS
<1>10. PICK r2 : r2 = script \o r3
  OBVIOUS
<1>11. PICK r1 : r1 = vout \o r2
  OBVIOUS
<1>12. PICK bytes : bytes = txid \o r1
  OBVIOUS
<1>13. r3 \in Seq(Byte) /\ r2 \in Seq(Byte) /\ r1 \in Seq(Byte) /\ bytes \in Seq(Byte)
  <2>1. r3 \in Seq(Byte)
    BY <1>7, <1>9
  <2>2. r2 \in Seq(Byte)
    BY <1>7, <1>10, <2>1
  <2>3. r1 \in Seq(Byte)
    BY <1>7, <1>11, <2>2
  <2> QED
    BY <1>3, <1>12, <2>1, <2>2, <2>3
<1>14. SerializeInput(input) \in Seq(Byte) /\ SerializeInput(input) \o r = bytes
  <2>1. txid \o vout \in Seq(Byte)
    BY <1>3, <1>7
  <2>2. (txid \o vout) \o script \in Seq(Byte)
    BY <1>7, <2>1
  <2>3. (((txid \o vout) \o script) \o sequence) \o r = ((txid \o vout) \o script) \o r3
    <3>1. (txid \o vout) \o script \in Seq(Byte) /\ sequence \in Seq(Byte) /\ r \in Seq(Byte)
      BY <1>7, <2>2
    <3>2. (((txid \o vout) \o script) \o sequence) \o r = ((txid \o vout) \o script) \o (sequence \o r)
      BY <3>1, Associative, ZenonT(60)
    <3> QED
      BY <1>9, <3>1, <3>2
  <2>4. ((txid \o vout) \o script) \o r3 = (txid \o vout) \o r2
    <3>1. PICK first : first = txid \o vout
      OBVIOUS
    <3>2. first \in Seq(Byte) /\ script \in Seq(Byte) /\ r3 \in Seq(Byte)
      BY <1>7, <1>13, <2>1, <3>1
    <3>3. (first \o script) \o r3 = first \o (script \o r3)
      BY <3>2, Associative, SMTT(60)
    <3> QED
      BY <1>10, <3>1, <3>3
  <2>5. (txid \o vout) \o r2 = bytes
    <3>1. txid \in Seq(Byte) /\ vout \in Seq(Byte) /\ r2 \in Seq(Byte)
      BY <1>3, <1>7, <1>13
    <3>2. (txid \o vout) \o r2 = txid \o (vout \o r2)
      BY <3>1, Associative, SMTT(60)
    <3> QED
      BY <1>11, <1>12, <3>2
  <2> QED
    BY <1>7, <1>8, <2>2, <2>3, <2>4, <2>5
<1> DEFINE v1 == ReadNumber(4, Drop(bytes, HashSize))
           v2 == ReadPrefixed[v1.rest]
           v3 == ReadNumber(4, v2.rest)
<1>15. Take(bytes, HashSize) = txid /\ Drop(bytes, HashSize) = r1
  BY <1>3, <1>12, <1>13, TakenFirst
<1>16. v1 = [value |-> input.vout, rest |-> r2]
  <2>1. 4 \in Nat
    OBVIOUS
  <2> QED
    BY <1>1, <1>4, <1>11, <1>13, <1>15, <2>1, UnsignedReads
<1>17. v2 = [value |-> input.scriptSig, rest |-> r3]
  <2>1. v1.rest = r2
    BY <1>16
  <2>2. ReadPrefixed[r2] = [value |-> input.scriptSig, rest |-> r3]
    BY <1>1, <1>5, <1>10, <1>13, ShortReads
  <2> HIDE DEF v1
  <2> QED
    BY <2>1, <2>2
<1>18. v3 = [value |-> input.sequence, rest |-> r]
  <2>1. 4 \in Nat
    OBVIOUS
  <2> QED
    BY <1>1, <1>6, <1>9, <1>17, <2>1, UnsignedReads
<1>19. ReadInput[bytes] =
         Read([txid |-> Reverse(Take(bytes, HashSize)), vout |-> v1.value,
               scriptSig |-> v2.value, sequence |-> v3.value, witness |-> << >>], v3.rest)
  BY <1>13 DEF ReadInput
<1>20. ReadInput[bytes] =
         Read([txid |-> input.txid, vout |-> input.vout, scriptSig |-> input.scriptSig,
               sequence |-> input.sequence, witness |-> << >>], r)
  <2> HIDE DEF v1, v2, v3
  <2> QED
    BY <1>3, <1>15, <1>16, <1>17, <1>18, <1>19
<1> QED
  BY <1>14, <1>20 DEF InputRead

OutputRead == [output \in OutputData |-> output]

OutputWritten == [output \in OutputData |-> SerializeOutput(output)]

(* An output is read back.                                                  *)
LEMMA OutputReads ==
  /\ OutputWritten \in [OutputData -> Seq(Byte)]
  /\ Reads(ReadOutput, OutputWritten, OutputData, OutputRead)
<1> SUFFICES ASSUME NEW output \in OutputData, NEW r \in Seq(Byte)
             PROVE  /\ SerializeOutput(output) \in Seq(Byte)
                    /\ ReadOutput[SerializeOutput(output) \o r] = Read(output, r)
  BY << >> \in Seq(Byte) DEF OutputWritten, OutputRead, Reads
<1>1. output.value \in Signed(8) /\ output.scriptPubKey \in Short
  BY DEF OutputData
<1>2. PICK value : value = LE[8][output.value]
  OBVIOUS
<1>3. PICK script : script = Prefixed(output.scriptPubKey)
  OBVIOUS
<1>4. value \in Seq(Byte) /\ script \in Seq(Byte)
  <2>1. 8 \in Nat /\ output.value \in Int
    BY <1>1 DEF Signed
  <2> QED
    BY <1>1, <1>2, <1>3, <2>1, LEType, ShortReads
<1>5. PICK r1 : r1 = script \o r
  OBVIOUS
<1>6. PICK bytes : bytes = value \o r1
  OBVIOUS
<1>7. r1 \in Seq(Byte) /\ bytes \in Seq(Byte)
  <2>1. r1 \in Seq(Byte)
    BY <1>4, <1>5
  <2> QED
    BY <1>4, <1>6, <2>1
<1>8. SerializeOutput(output) \in Seq(Byte) /\ SerializeOutput(output) \o r = bytes
  <2>1. SerializeOutput(output) = value \o script
    BY <1>2, <1>3 DEF SerializeOutput
  <2> QED
    <3>1. value \in Seq(Byte) /\ script \in Seq(Byte) /\ r \in Seq(Byte)
      BY <1>4
    <3>2. (value \o script) \o r = value \o (script \o r)
      BY <3>1, Associative, SMTT(60)
    <3> QED
      BY <1>4, <1>5, <1>6, <2>1, <3>1, <3>2
<1> DEFINE v1 == ReadSigned(8, bytes)
           v2 == ReadPrefixed[v1.rest]
<1>9. v1 = [value |-> output.value, rest |-> r1]
  <2>1. 8 \in Nat \ {0}
    OBVIOUS
  <2> QED
    BY <1>1, <1>2, <1>6, <1>7, <2>1, SignedReads DEF Read
<1>10. v2 = [value |-> output.scriptPubKey, rest |-> r]
  <2>1. v1.rest = r1
    BY <1>9
  <2>2. ReadPrefixed[r1] = [value |-> output.scriptPubKey, rest |-> r]
    BY <1>1, <1>3, <1>5, ShortReads
  <2> HIDE DEF v1
  <2> QED
    BY <2>1, <2>2
<1>11. ReadOutput[bytes] = Read([value |-> v1.value, scriptPubKey |-> v2.value], v2.rest)
  BY <1>7 DEF ReadOutput
<1>12. output = [value |-> output.value, scriptPubKey |-> output.scriptPubKey]
  BY DEF OutputData
<1> HIDE DEF v1, v2
<1> QED
  BY <1>8, <1>9, <1>10, <1>11, <1>12

ShortRead == [s \in Short |-> s]

ShortWritten == [s \in Short |-> Prefixed(s)]

(* A witness item is read back, ...                                         *)
LEMMA ShortsRead ==
  /\ ShortWritten \in [Short -> Seq(Byte)]
  /\ Reads(ReadPrefixed, ShortWritten, Short, ShortRead)
<1> SUFFICES ASSUME NEW s \in Short, NEW r \in Seq(Byte)
             PROVE  /\ Prefixed(s) \in Seq(Byte)
                    /\ ReadPrefixed[Prefixed(s) \o r] = Read(s, r)
  BY << >> \in Seq(Byte) DEF ShortWritten, ShortRead, Reads
<1> QED
  BY ShortReads DEF Read

WitnessRead == [input \in InputData |-> input.witness]

WitnessWritten == [input \in InputData |-> SerializeWitness(input)]

(* ... and so is the witness of an input.                                   *)
LEMMA WitnessReads ==
  /\ WitnessWritten \in [InputData -> Seq(Byte)]
  /\ Reads(ReadWitness, WitnessWritten, InputData, WitnessRead)
<1> SUFFICES ASSUME NEW input \in InputData, NEW r \in Seq(Byte)
             PROVE  /\ SerializeWitness(input) \in Seq(Byte)
                    /\ ReadWitness[SerializeWitness(input) \o r] = Read(input.witness, r)
  BY << >> \in Seq(Byte) DEF WitnessWritten, WitnessRead, Reads
<1>1. PICK s \in Seq(Short) : s = input.witness /\ Len(s) < Power[4]
  BY DEF InputData
<1>2. PICK body : body = FlattenSeq(Written(ShortWritten, s))
  OBVIOUS
<1>3. body \in Seq(Byte)
      /\ ReadMany(ReadPrefixed, EncodeVarint(Len(s)) \o (body \o r)) = Read(Written(ShortRead, s), r)
  BY <1>1, <1>2, ShortsRead, ManyReads
<1>4. Written(ShortRead, s) = s
  BY DEF Written, ShortRead
<1>5. PICK count : count = EncodeVarint(Len(s))
  OBVIOUS
<1>6. count \in Seq(Byte)
  <2>1. Len(s) \in Nat /\ Len(s) < Power[8] /\ << >> \in Seq(Byte)
    BY <1>1, PowersGrow, PowerType
  <2> QED
    BY <1>5, <2>1, VarintReads
<1>7. SerializeWitness(input) = count \o body
  <2>1. Each(s, Prefixed) = FlattenSeq([i \in DOMAIN s |-> Prefixed(s[i])])
    BY DEF Each
  <2>2. [i \in DOMAIN s |-> Prefixed(s[i])] = Written(ShortWritten, s)
    BY DEF Written, ShortWritten
  <2> QED
    BY <1>1, <1>2, <1>5, <2>1, <2>2, Zenon DEF SerializeWitness
<1>8. PICK bytes : bytes = count \o (body \o r)
  OBVIOUS
<1>9. SerializeWitness(input) \in Seq(Byte) /\ SerializeWitness(input) \o r = bytes /\ bytes \in Seq(Byte)
  <2>1. count \in Seq(Byte) /\ body \in Seq(Byte) /\ r \in Seq(Byte)
    BY <1>3, <1>6
  <2>2. (count \o body) \o r = count \o (body \o r)
    BY <2>1, Associative, SMTT(60)
  <2> QED
    BY <1>7, <1>8, <2>1, <2>2
<1>10. ReadWitness[bytes] = ReadMany(ReadPrefixed, bytes)
  BY <1>9, Zenon DEF ReadWitness
<1> QED
  BY <1>1, <1>3, <1>4, <1>5, <1>8, <1>9, <1>10

----------------------------------------------------------------------------
(* What follows the version.                                                *)
LEMMA NoMarker ==
  ASSUME NEW n \in Nat \ {0}, n < Power[8], NEW r \in Seq(Byte)
  PROVE  Take(EncodeVarint(n) \o r, 2) # <<0, 1>>
<1>1. PICK a : a = EncodeVarint(n)
  OBVIOUS
<1>2. a \in Seq(Byte) /\ a # << >>
  BY <1>1, VarintReads
<1>3. a[1] # 0
  <2>1. Base - 3 # 0 /\ Base - 2 # 0 /\ Base - 1 # 0
    BY BaseAssumption
  <2>2. LE[2][n] \in Seq(Byte) /\ LE[4][n] \in Seq(Byte) /\ LE[8][n] \in Seq(Byte)
    BY LEType
  <2>3. ASSUME NEW x, x # 0, NEW s \in Seq(Byte), a = <<x>> \o s PROVE a[1] # 0
    BY <2>3
  <2>4. a = <<n>> \/ a = <<Base - 3>> \o LE[2][n] \/ a = <<Base - 2>> \o LE[4][n]
          \/ a = <<Base - 1>> \o LE[8][n]
    BY <1>1, VarintForms
  <2>5. a = <<n>> => a[1] # 0
    OBVIOUS
  <2> QED
    BY <2>1, <2>2, <2>3, <2>4, <2>5
<1>4. PICK s : s = a \o r
  OBVIOUS
<1>5. s \in Seq(Byte) /\ s[1] = a[1] /\ Len(s) >= 1
  BY <1>2, <1>4
<1>6. ASSUME Take(s, 2) = <<0, 1>> PROVE FALSE
  <2>1. PICK m \in Nat : m = IF 2 < Len(s) THEN 2 ELSE Len(s)
    BY <1>5
  <2>2. m >= 1 /\ m <= Len(s)
    BY <1>5, <2>1
  <2>3. SubSeq(s, 1, m)[1] = s[1]
    BY <1>5, <2>2
  <2>4. SubSeq(s, 1, m) = <<0, 1>>
    BY <1>6, <2>1 DEF Take
  <2>5. <<0, 1>>[1] = 0
    OBVIOUS
  <2> QED
    BY <1>3, <1>5, <2>3, <2>4, <2>5
<1> QED
  BY <1>1, <1>4, <1>6

(* The parts of a transaction, written one after the other.                 *)
LEMMA EachIsWritten ==
  ASSUME NEW tx \in TxData
  PROVE  /\ Each(tx.inputs, SerializeInput) = FlattenSeq(Written(InputWritten, tx.inputs))
         /\ Each(tx.outputs, SerializeOutput) = FlattenSeq(Written(OutputWritten, tx.outputs))
         /\ Each(tx.inputs, SerializeWitness) = FlattenSeq(Written(WitnessWritten, tx.inputs))
<1>1. tx.inputs \in Seq(InputData) /\ tx.outputs \in Seq(OutputData)
  BY DEF TxData
<1>2. [i \in DOMAIN tx.inputs |-> SerializeInput(tx.inputs[i])] = Written(InputWritten, tx.inputs)
  BY <1>1 DEF Written, InputWritten
<1>3. [i \in DOMAIN tx.outputs |-> SerializeOutput(tx.outputs[i])]
        = Written(OutputWritten, tx.outputs)
  BY <1>1 DEF Written, OutputWritten
<1>4. [i \in DOMAIN tx.inputs |-> SerializeWitness(tx.inputs[i])]
        = Written(WitnessWritten, tx.inputs)
  BY <1>1 DEF Written, WitnessWritten
<1> QED
  BY <1>2, <1>3, <1>4, Zenon DEF Each

(* The counted inputs are read back, ...                                    *)
LEMMA InputsRead ==
  ASSUME NEW inputs \in Seq(InputData), Len(inputs) < Power[4], NEW r \in Seq(Byte)
  PROVE  /\ FlattenSeq(Written(InputWritten, inputs)) \in Seq(Byte)
         /\ ReadMany(ReadInput, EncodeVarint(Len(inputs))
                       \o (FlattenSeq(Written(InputWritten, inputs)) \o r))
              = Read(Written(InputRead, inputs), r)
BY InputReads, ManyReads

(* ... the counted outputs ...                                              *)
LEMMA OutputsRead ==
  ASSUME NEW outputs \in Seq(OutputData), Len(outputs) < Power[4], NEW r \in Seq(Byte)
  PROVE  /\ FlattenSeq(Written(OutputWritten, outputs)) \in Seq(Byte)
         /\ ReadMany(ReadOutput, EncodeVarint(Len(outputs))
                       \o (FlattenSeq(Written(OutputWritten, outputs)) \o r))
              = Read(Written(OutputRead, outputs), r)
BY OutputReads, ManyReads

(* The inputs and the outputs are read back, and what follows is left.      *)
BodyIs(tx, r) ==
  /\ Body(tx) \in Seq(Byte)
  /\ Take(Body(tx) \o r, 2) # <<0, 1>>
  /\ \E rest : /\ ReadMany(ReadInput, Body(tx) \o r) = Read(Written(InputRead, tx.inputs), rest)
               /\ ReadMany(ReadOutput, rest) = Read(tx.outputs, r)

(* Inputs and outputs are read back where they meet.                        *)
LEMMA BodyReads ==
  ASSUME NEW tx \in TxData, NEW r \in Seq(Byte)
  PROVE  BodyIs(tx, r)
<1>1. PICK inputs \in Seq(InputData) : inputs = tx.inputs
  BY DEF TxData
<1>2. PICK outputs \in Seq(OutputData) : outputs = tx.outputs
  BY DEF TxData
<1>3. /\ Len(inputs) \in Nat \ {0} /\ Len(inputs) < Power[4] /\ Len(inputs) < Power[8]
      /\ Len(outputs) \in Nat /\ Len(outputs) < Power[4] /\ Len(outputs) < Power[8]
  BY <1>1, <1>2, PowersGrow, PowerType DEF TxData
<1>4. PICK n1 : n1 = EncodeVarint(Len(inputs))
  OBVIOUS
<1>5. PICK n2 : n2 = EncodeVarint(Len(outputs))
  OBVIOUS
<1>6. PICK b1 : b1 = FlattenSeq(Written(InputWritten, inputs))
  OBVIOUS
<1>7. PICK b2 : b2 = FlattenSeq(Written(OutputWritten, outputs))
  OBVIOUS
<1>8. n1 \in Seq(Byte) /\ n2 \in Seq(Byte)
  BY <1>3, <1>4, <1>5, VarintReads, << >> \in Seq(Byte)
<1>9. b1 \in Seq(Byte)
  BY <1>6, InputReads, EncodedFront
<1>10. b2 \in Seq(Byte)
  BY <1>7, OutputReads, EncodedFront
<1>11. PICK rest : rest = n2 \o (b2 \o r)
  OBVIOUS
<1>12. rest \in Seq(Byte)
  <2>1. b2 \o r \in Seq(Byte)
    BY <1>10
  <2> QED
    BY <1>8, <1>11, <2>1
<1>13. Body(tx) = ((n1 \o b1) \o n2) \o b2
  BY <1>1, <1>2, <1>4, <1>5, <1>6, <1>7, EachIsWritten, Zenon DEF Body
<1>14. Body(tx) \in Seq(Byte) /\ Body(tx) \o r = n1 \o (b1 \o rest)
  <2>1. PICK h : h = n1 \o b1
    OBVIOUS
  <2>2. PICK k : k = h \o n2
    OBVIOUS
  <2>3. h \in Seq(Byte) /\ k \in Seq(Byte)
    <3>1. h \in Seq(Byte)
      BY <1>8, <1>9, <2>1
    <3> QED
      BY <1>8, <2>2, <3>1
  <2>4. (k \o b2) \o r = k \o (b2 \o r)
    <3>1. k \in Seq(Byte) /\ b2 \in Seq(Byte) /\ r \in Seq(Byte)
      BY <1>10, <2>3
    <3>2. (k \o b2) \o r = k \o (b2 \o r)
      BY <3>1, Associative, SMTT(60)
    <3> QED
      BY <3>1, <3>2
  <2>5. k \o (b2 \o r) = h \o rest
    <3>0. b2 \o r \in Seq(Byte)
      BY <1>10
    <3>1. PICK q \in Seq(Byte) : q = b2 \o r
      BY <3>0
    <3>2. h \in Seq(Byte) /\ n2 \in Seq(Byte) /\ q \in Seq(Byte)
      BY <1>8, <2>3
    <3>3. (h \o n2) \o q = h \o (n2 \o q)
      BY <3>2, Associative, SMTT(60)
    <3> QED
      BY <1>11, <2>2, <3>1, <3>3, ZenonT(60)
  <2>6. h \o rest = n1 \o (b1 \o rest)
    <3>1. n1 \in Seq(Byte) /\ b1 \in Seq(Byte) /\ rest \in Seq(Byte)
      BY <1>8, <1>9, <1>12
    <3>2. (n1 \o b1) \o rest = n1 \o (b1 \o rest)
      BY <3>1, Associative, SMTT(60)
    <3> QED
      BY <2>1, <3>1, <3>2
  <2>7. k \o b2 \in Seq(Byte)
    BY <1>10, <2>3
  <2> QED
    BY <1>13, <2>1, <2>2, <2>4, <2>5, <2>6, <2>7
<1>15. ReadMany(ReadInput, n1 \o (b1 \o rest)) = Read(Written(InputRead, inputs), rest)
  <2>1. /\ FlattenSeq(Written(InputWritten, inputs)) \in Seq(Byte)
        /\ ReadMany(ReadInput, EncodeVarint(Len(inputs))
                       \o (FlattenSeq(Written(InputWritten, inputs)) \o rest))
             = Read(Written(InputRead, inputs), rest)
    BY <1>3, <1>12, InputsRead
  <2> QED
    BY <1>4, <1>6, <2>1
<1>16. ReadMany(ReadOutput, rest) = Read(outputs, r)
  <2>1. /\ FlattenSeq(Written(OutputWritten, outputs)) \in Seq(Byte)
        /\ ReadMany(ReadOutput, EncodeVarint(Len(outputs))
                       \o (FlattenSeq(Written(OutputWritten, outputs)) \o r))
             = Read(Written(OutputRead, outputs), r)
    BY <1>3, OutputsRead
  <2>2. Written(OutputRead, outputs) = outputs
    BY DEF Written, OutputRead
  <2> QED
    BY <1>5, <1>7, <1>11, <2>1, <2>2
<1>17. Take(n1 \o (b1 \o rest), 2) # <<0, 1>>
  <2>1. b1 \o rest \in Seq(Byte)
    BY <1>9, <1>12
  <2> QED
    BY <1>3, <1>4, <2>1, NoMarker
<1> QED
  BY <1>1, <1>2, <1>14, <1>15, <1>16, <1>17, Zenon DEF BodyIs

TxRead(version, locktime, outputs, inputs, witnesses) ==
  [version |-> version, locktime |-> locktime, outputs |-> outputs,
   inputs |-> [i \in 1 .. Len(inputs) |-> [inputs[i] EXCEPT !.witness = witnesses[i]]]]

(* serializeForTxid writes the transaction without its witnesses.           *)
LEMMA UnwitnessedReads ==
  ASSUME NEW tx \in TxData
  PROVE  ReadTx(SerializeForTxid(tx)) = Read(WithoutWitnesses(tx), << >>)
<1>0. << >> \in Seq(Byte)
  OBVIOUS
<1>1. tx.version \in Signed(4) /\ tx.locktime \in Unsigned(4) /\ tx.inputs \in Seq(InputData)
  BY DEF TxData
<1>2. PICK version : version = LE[4][tx.version]
  OBVIOUS
<1>3. PICK locktime : locktime = LE[4][tx.locktime]
  OBVIOUS
<1>4. version \in Seq(Byte) /\ locktime \in Seq(Byte) /\ locktime \o << >> = locktime
  <2>1. 4 \in Nat /\ tx.version \in Int /\ tx.locktime \in Int
    BY <1>1 DEF Signed, Unsigned
  <2>2. version \in Seq(Byte) /\ locktime \in Seq(Byte)
    BY <1>2, <1>3, <2>1, LEType
  <2> QED
    BY <2>2
<1>5. PICK body : body = Body(tx)
  OBVIOUS
<1>6. BodyIs(tx, locktime)
  BY <1>4, BodyReads
<1>7. PICK rest : /\ ReadMany(ReadInput, body \o locktime)
                       = [value |-> Written(InputRead, tx.inputs), rest |-> rest]
                  /\ ReadMany(ReadOutput, rest) = [value |-> tx.outputs, rest |-> locktime]
  BY <1>5, <1>6 DEF BodyIs, Read
<1>8. body \in Seq(Byte) /\ Take(body \o locktime, 2) # <<0, 1>>
  BY <1>5, <1>6 DEF BodyIs
<1>9. PICK after : after = body \o locktime
  OBVIOUS
<1>10. after \in Seq(Byte)
  BY <1>4, <1>8, <1>9
<1>11. PICK bytes : bytes = version \o after
  OBVIOUS
<1>12. SerializeForTxid(tx) = bytes
  <2>1. SerializeForTxid(tx) = (version \o body) \o locktime
    BY <1>2, <1>3, <1>5 DEF SerializeForTxid
  <2> QED
    <3>1. version \in Seq(Byte) /\ body \in Seq(Byte) /\ locktime \in Seq(Byte)
      BY <1>4, <1>8
    <3>2. (version \o body) \o locktime = version \o (body \o locktime)
      BY <3>1, Associative, SMTT(60)
    <3> QED
      BY <1>9, <1>11, <2>1, <3>1, <3>2
<1>13. ReadSigned(4, bytes) = [value |-> tx.version, rest |-> after]
  <2>1. 4 \in Nat \ {0}
    OBVIOUS
  <2> QED
    BY <1>1, <1>2, <1>10, <1>11, <2>1, SignedReads DEF Read
<1>14. Drop(after, 0) = after
  BY <1>10 DEF Drop
<1>15. ReadNumber(4, locktime) = [value |-> tx.locktime, rest |-> << >>]
  <2>1. 4 \in Nat
    OBVIOUS
  <2> QED
    BY <1>0, <1>1, <1>3, <1>4, <2>1, UnsignedReads
<1>16. PICK inputs : inputs = Written(InputRead, tx.inputs)
  OBVIOUS
<1>17. Len(inputs) \in Nat /\ inputs = [i \in 1 .. Len(tx.inputs) |-> [tx.inputs[i] EXCEPT !.witness = << >>]]
       /\ Len(inputs) = Len(tx.inputs)
  <2>1. \A input \in InputData : InputRead[input] = [input EXCEPT !.witness = << >>]
    BY DEF InputRead, InputData
  <2>2. inputs = [i \in 1 .. Len(tx.inputs) |-> InputRead[tx.inputs[i]]]
    BY <1>1, <1>16 DEF Written
  <2>3. \A i \in 1 .. Len(tx.inputs) : tx.inputs[i] \in InputData
    BY <1>1
  <2>4. inputs = [i \in 1 .. Len(tx.inputs) |-> [tx.inputs[i] EXCEPT !.witness = << >>]]
    BY <2>1, <2>2, <2>3
  <2>5. Len(inputs) = Len(tx.inputs) /\ Len(tx.inputs) \in Nat
    BY <1>1, <2>2
  <2> QED
    BY <2>4, <2>5
<1> DEFINE count == Len(inputs)
           none == [i \in 1 .. count |-> << >>]
<1>18. ReadTx(bytes) = Read(TxRead(tx.version, tx.locktime, tx.outputs, inputs, none), << >>)
  <2> DEFINE v == ReadSigned(4, bytes)
             segwit == Take(v.rest, 2) = <<0, 1>>
             ins == ReadMany(ReadInput, Drop(v.rest, IF segwit THEN 2 ELSE 0))
             outs == ReadMany(ReadOutput, ins.rest)
             wits == IF segwit THEN Times(Len(ins.value), ReadWitness, outs.rest)
                     ELSE Read([i \in 1 .. Len(ins.value) |-> << >>], outs.rest)
             lock == ReadNumber(4, wits.rest)
  <2>1. v = [value |-> tx.version, rest |-> after]
    BY <1>13
  <2>2. ~segwit
    <3>1. v.rest = after
      <4> HIDE DEF v
      <4> QED
        BY <2>1
    <3> HIDE DEF v
    <3> QED
      BY <1>8, <1>9, <3>1
  <2>3. ins = [value |-> inputs, rest |-> rest]
    <3>1. Drop(v.rest, IF segwit THEN 2 ELSE 0) = after
      <4> HIDE DEF v
      <4>1. v.rest = after
        BY <2>1
      <4> HIDE DEF segwit
      <4> QED
        BY <1>14, <2>2, <4>1
    <3> HIDE DEF v, segwit
    <3> QED
      BY <1>7, <1>9, <1>16, <3>1
  <2>4. outs = [value |-> tx.outputs, rest |-> locktime]
    <3>1. ins.rest = rest
      <4> HIDE DEF ins
      <4> QED
        BY <2>3
    <3> HIDE DEF ins
    <3> QED
      BY <1>7, <3>1
  <2>5. wits = [value |-> none, rest |-> locktime]
    <3> HIDE DEF segwit, ins, outs
    <3>1. ins.value = inputs /\ outs.rest = locktime
      BY <2>3, <2>4
    <3> QED
      BY <2>2, <3>1 DEF Read
  <2>6. lock = [value |-> tx.locktime, rest |-> << >>]
    <3> HIDE DEF wits
    <3>1. wits.rest = locktime
      BY <2>5
    <3> QED
      BY <1>15, <3>1
  <2>7. ReadTx(bytes) = Read(TxRead(v.value, lock.value, outs.value, ins.value, wits.value), lock.rest)
    BY Zenon DEF ReadTx, TxRead
  <2> HIDE DEF v, segwit, ins, outs, wits, lock
  <2>8. /\ v.value = tx.version /\ lock.value = tx.locktime /\ outs.value = tx.outputs
        /\ ins.value = inputs /\ wits.value = none /\ lock.rest = << >>
    BY <2>1, <2>3, <2>4, <2>5, <2>6
  <2> HIDE DEF none
  <2> QED
    BY <2>7, <2>8
<1>19. TxRead(tx.version, tx.locktime, tx.outputs, inputs, none) = WithoutWitnesses(tx)
  <2>1. [i \in 1 .. Len(inputs) |-> [inputs[i] EXCEPT !.witness = none[i]]] =
          [i \in DOMAIN tx.inputs |-> [tx.inputs[i] EXCEPT !.witness = << >>]]
    <3>1. DOMAIN tx.inputs = 1 .. Len(inputs)
      BY <1>1, <1>17
    <3>2. \A i \in 1 .. Len(inputs) : inputs[i] = [tx.inputs[i] EXCEPT !.witness = << >>]
                                      /\ none[i] = << >>
      BY <1>17
    <3>3. \A i \in 1 .. Len(inputs) : [inputs[i] EXCEPT !.witness = none[i]]
                                        = [tx.inputs[i] EXCEPT !.witness = << >>]
      BY <1>1, <1>17, <3>2 DEF InputData
    <3> HIDE DEF none
    <3> QED
      BY <3>1, <3>3
  <2>2. PICK ins : ins = [i \in DOMAIN tx.inputs |-> [tx.inputs[i] EXCEPT !.witness = << >>]]
    OBVIOUS
  <2>3. [tx EXCEPT !.inputs = ins] = [version |-> tx.version, locktime |-> tx.locktime,
                                      outputs |-> tx.outputs, inputs |-> ins]
    BY DEF TxData
  <2> HIDE DEF none
  <2> QED
    BY <2>1, <2>2, <2>3, Zenon DEF TxRead, WithoutWitnesses
<1> QED
  BY <1>12, <1>18, <1>19

(* ... and the witnesses, which are not counted.                            *)
LEMMA WitnessesRead ==
  ASSUME NEW inputs \in Seq(InputData), NEW r \in Seq(Byte)
  PROVE  Times(Len(inputs), ReadWitness, FlattenSeq(Written(WitnessWritten, inputs)) \o r)
           = Read(Written(WitnessRead, inputs), r)
BY WitnessReads, TimesReads

(* serializeTransaction writes all of a transaction that has witnesses.     *)
LEMMA WitnessedReads ==
  ASSUME NEW tx \in TxData, HasWitness(tx)
  PROVE  ReadTx(SerializeTransaction(tx)) = Read(tx, << >>)
<1>0. << >> \in Seq(Byte)
  OBVIOUS
<1>1. tx.version \in Signed(4) /\ tx.locktime \in Unsigned(4) /\ tx.inputs \in Seq(InputData)
  BY DEF TxData
<1>2. PICK version : version = LE[4][tx.version]
  OBVIOUS
<1>3. PICK locktime : locktime = LE[4][tx.locktime]
  OBVIOUS
<1>4. version \in Seq(Byte) /\ locktime \in Seq(Byte) /\ locktime \o << >> = locktime
  <2>1. 4 \in Nat /\ tx.version \in Int /\ tx.locktime \in Int
    BY <1>1 DEF Signed, Unsigned
  <2>2. version \in Seq(Byte) /\ locktime \in Seq(Byte)
    BY <1>2, <1>3, <2>1, LEType
  <2> QED
    BY <2>2
<1>5. PICK witnesses : witnesses = FlattenSeq(Written(WitnessWritten, tx.inputs))
  OBVIOUS
<1>6. witnesses \in Seq(Byte)
  BY <1>1, <1>5, WitnessReads, EncodedFront
<1>7. PICK end : end = witnesses \o locktime
  OBVIOUS
<1>8. end \in Seq(Byte)
  BY <1>4, <1>6, <1>7
<1>9. PICK body : body = Body(tx)
  OBVIOUS
<1>10. BodyIs(tx, end)
  BY <1>8, BodyReads
<1>11. PICK rest : /\ ReadMany(ReadInput, body \o end)
                        = [value |-> Written(InputRead, tx.inputs), rest |-> rest]
                   /\ ReadMany(ReadOutput, rest) = [value |-> tx.outputs, rest |-> end]
  BY <1>9, <1>10 DEF BodyIs, Read
<1>12. PICK after : after = body \o end
  OBVIOUS
<1>13. body \in Seq(Byte) /\ after \in Seq(Byte)
  <2>1. body \in Seq(Byte)
    BY <1>9, <1>10 DEF BodyIs
  <2> QED
    BY <1>8, <1>12, <2>1
<1>14. PICK marker : marker = <<0, 1>>
  OBVIOUS
<1>15. marker \in Seq(Byte) /\ Len(marker) = 2
  <2>1. 0 \in Byte /\ 1 \in Byte
    BY BaseAssumption DEF Byte
  <2> QED
    BY <1>14, <2>1
<1>16. PICK marked : marked = marker \o after
  OBVIOUS
<1>17. marked \in Seq(Byte)
  BY <1>13, <1>15, <1>16
<1>18. PICK bytes : bytes = version \o marked
  OBVIOUS
<1>19. SerializeTransaction(tx) = bytes
  <2>1. SerializeTransaction(tx) = (((version \o marker) \o body) \o witnesses) \o locktime
    BY <1>2, <1>3, <1>5, <1>9, <1>14, EachIsWritten, Zenon DEF SerializeTransaction
  <2>2. PICK h : h = version \o marker
    OBVIOUS
  <2>3. h \in Seq(Byte)
    BY <1>4, <1>15, <2>2
  <2>4. PICK k : k = h \o body
    OBVIOUS
  <2>5. k \in Seq(Byte)
    BY <1>13, <2>3, <2>4
  <2>6. (k \o witnesses) \o locktime = k \o end
    <3>1. k \in Seq(Byte) /\ witnesses \in Seq(Byte) /\ locktime \in Seq(Byte)
      BY <1>4, <1>6, <2>5
    <3>2. (k \o witnesses) \o locktime = k \o (witnesses \o locktime)
      BY <3>1, Associative, SMTT(60)
    <3> QED
      BY <1>7, <3>1, <3>2
  <2>7. k \o end = h \o after
    <3>1. h \in Seq(Byte) /\ body \in Seq(Byte) /\ end \in Seq(Byte)
      BY <1>8, <1>13, <2>3
    <3>2. (h \o body) \o end = h \o (body \o end)
      BY <3>1, Associative
    <3> QED
      BY <1>12, <2>4, <3>1, <3>2
  <2>8. h \o after = version \o marked
    <3>1. version \in Seq(Byte) /\ marker \in Seq(Byte) /\ after \in Seq(Byte)
      BY <1>4, <1>13, <1>15
    <3>2. (version \o marker) \o after = version \o (marker \o after)
      BY <3>1, Associative
    <3> QED
      BY <1>16, <2>2, <3>1, <3>2
  <2> QED
    BY <1>18, <2>1, <2>2, <2>4, <2>6, <2>7, <2>8
<1>20. ReadSigned(4, bytes) = [value |-> tx.version, rest |-> marked]
  <2>1. 4 \in Nat \ {0}
    OBVIOUS
  <2> QED
    BY <1>1, <1>2, <1>17, <1>18, <2>1, SignedReads DEF Read
<1>21. Take(marked, 2) = marker /\ Drop(marked, 2) = after
  <2>1. 2 = Len(marker)
    BY <1>15
  <2> QED
    BY <1>13, <1>15, <1>16, <2>1, TakenFirst
<1>22. PICK inputs : inputs = Written(InputRead, tx.inputs)
  OBVIOUS
<1>23. Len(inputs) = Len(tx.inputs) /\ Len(inputs) \in Nat
       /\ \A i \in 1 .. Len(inputs) : inputs[i] = [tx.inputs[i] EXCEPT !.witness = << >>]
  <2>1. \A input \in InputData : InputRead[input] = [input EXCEPT !.witness = << >>]
    BY DEF InputRead, InputData
  <2>2. inputs = [i \in 1 .. Len(tx.inputs) |-> InputRead[tx.inputs[i]]]
    BY <1>1, <1>22 DEF Written
  <2>3. \A i \in 1 .. Len(tx.inputs) : tx.inputs[i] \in InputData
    BY <1>1
  <2>4. Len(inputs) = Len(tx.inputs) /\ Len(tx.inputs) \in Nat
    BY <1>1, <2>2
  <2> QED
    BY <2>1, <2>2, <2>3, <2>4
<1>24. PICK seen : seen = Written(WitnessRead, tx.inputs)
  OBVIOUS
<1>25. Times(Len(inputs), ReadWitness, end) = [value |-> seen, rest |-> locktime]
  <2>1. Times(Len(tx.inputs), ReadWitness,
              FlattenSeq(Written(WitnessWritten, tx.inputs)) \o locktime)
          = Read(Written(WitnessRead, tx.inputs), locktime)
    BY <1>1, <1>4, WitnessesRead
  <2> QED
    BY <1>5, <1>7, <1>23, <1>24, <2>1 DEF Read
<1>26. ReadNumber(4, locktime) = [value |-> tx.locktime, rest |-> << >>]
  <2>1. 4 \in Nat
    OBVIOUS
  <2> QED
    BY <1>0, <1>1, <1>3, <1>4, <2>1, UnsignedReads
<1>27. ReadTx(bytes) = Read(TxRead(tx.version, tx.locktime, tx.outputs, inputs, seen), << >>)
  <2> DEFINE v == ReadSigned(4, bytes)
             segwit == Take(v.rest, 2) = <<0, 1>>
             ins == ReadMany(ReadInput, Drop(v.rest, IF segwit THEN 2 ELSE 0))
             outs == ReadMany(ReadOutput, ins.rest)
             wits == IF segwit THEN Times(Len(ins.value), ReadWitness, outs.rest)
                     ELSE Read([i \in 1 .. Len(ins.value) |-> << >>], outs.rest)
             lock == ReadNumber(4, wits.rest)
  <2>0. ReadTx(bytes) = Read(TxRead(v.value, lock.value, outs.value, ins.value, wits.value), lock.rest)
    BY Zenon DEF ReadTx, TxRead
  <2>1. v.value = tx.version /\ v.rest = marked
    <3>1. v = [value |-> tx.version, rest |-> marked]
      BY <1>20
    <3> HIDE DEF v
    <3> QED
      BY <3>1
  <2> HIDE DEF v
  <2>2. segwit
    BY <1>14, <1>21, <2>1
  <2> HIDE DEF segwit
  <2>3. ins.value = inputs /\ ins.rest = rest
    <3>1. Drop(v.rest, IF segwit THEN 2 ELSE 0) = after
      BY <1>21, <2>1, <2>2
    <3>2. ins = [value |-> inputs, rest |-> rest]
      BY <1>11, <1>12, <1>22, <3>1
    <3> HIDE DEF ins
    <3> QED
      BY <3>2
  <2> HIDE DEF ins
  <2>4. outs.value = tx.outputs /\ outs.rest = end
    <3>1. outs = [value |-> tx.outputs, rest |-> end]
      BY <1>11, <2>3
    <3> HIDE DEF outs
    <3> QED
      BY <3>1
  <2> HIDE DEF outs
  <2>5. wits.value = seen /\ wits.rest = locktime
    <3>1. wits = [value |-> seen, rest |-> locktime]
      BY <1>25, <2>2, <2>3, <2>4
    <3> HIDE DEF wits
    <3> QED
      BY <3>1
  <2> HIDE DEF wits
  <2>6. lock.value = tx.locktime /\ lock.rest = << >>
    <3>1. lock = [value |-> tx.locktime, rest |-> << >>]
      BY <1>26, <2>5
    <3> HIDE DEF lock
    <3> QED
      BY <3>1
  <2> HIDE DEF lock
  <2> QED
    BY <2>0, <2>1, <2>3, <2>4, <2>5, <2>6
<1>28. TxRead(tx.version, tx.locktime, tx.outputs, inputs, seen) = tx
  <2>1. \A i \in 1 .. Len(inputs) : [inputs[i] EXCEPT !.witness = seen[i]] = tx.inputs[i]
    <3> SUFFICES ASSUME NEW i \in 1 .. Len(inputs)
                 PROVE  [inputs[i] EXCEPT !.witness = seen[i]] = tx.inputs[i]
      OBVIOUS
    <3>1. PICK input \in InputData : input = tx.inputs[i]
      BY <1>1, <1>23
    <3>2. inputs[i] = [input EXCEPT !.witness = << >>]
      BY <1>23, <3>1
    <3>3. seen[i] = input.witness
      BY <1>1, <1>23, <1>24, <3>1 DEF Written, WitnessRead
    <3> QED
      BY <3>1, <3>2, <3>3 DEF InputData
  <2>2. [i \in 1 .. Len(inputs) |-> [inputs[i] EXCEPT !.witness = seen[i]]] = tx.inputs
    <3>1. tx.inputs = [i \in 1 .. Len(inputs) |-> tx.inputs[i]]
      BY <1>1, <1>23
    <3> QED
      BY <2>1, <3>1, Zenon
  <2>3. tx = [version |-> tx.version, locktime |-> tx.locktime, outputs |-> tx.outputs,
              inputs |-> tx.inputs]
    BY DEF TxData
  <2> QED
    BY <2>2, <2>3, Zenon DEF TxRead
<1> QED
  BY <1>19, <1>27, <1>28

(* Both formats are read back.                                              *)
LEMMA TransactionReads ==
  ASSUME NEW tx \in TxData
  PROVE  /\ ReadTx(SerializeTransaction(tx)) = Read(tx, << >>)
         /\ ReadTx(SerializeForTxid(tx)) = Read(WithoutWitnesses(tx), << >>)
<1>1. CASE HasWitness(tx)
  BY <1>1, WitnessedReads, UnwitnessedReads
<1>2. CASE ~HasWitness(tx)
  <2>1. tx.inputs \in Seq(InputData) /\ \A i \in DOMAIN tx.inputs : tx.inputs[i].witness = << >>
    BY <1>2 DEF HasWitness, TxData
  <2>2. \A i \in DOMAIN tx.inputs : [tx.inputs[i] EXCEPT !.witness = << >>] = tx.inputs[i]
    <3>1. \A input \in InputData : input.witness = << >> => [input EXCEPT !.witness = << >>] = input
      BY DEF InputData
    <3>2. \A i \in DOMAIN tx.inputs : tx.inputs[i] \in InputData
      BY <2>1
    <3> QED
      BY <2>1, <3>1, <3>2, Zenon
  <2>3. PICK ins : ins = [i \in DOMAIN tx.inputs |-> [tx.inputs[i] EXCEPT !.witness = << >>]]
    OBVIOUS
  <2>4. ins = tx.inputs
    <3>1. tx.inputs = [i \in DOMAIN tx.inputs |-> tx.inputs[i]]
      BY <2>1
    <3> QED
      BY <2>2, <2>3, <3>1, Zenon
  <2>5. [tx EXCEPT !.inputs = ins] = tx
    BY <2>4 DEF TxData
  <2>6. WithoutWitnesses(tx) = tx
    BY <2>3, <2>5 DEF WithoutWitnesses
  <2>7. SerializeTransaction(tx) = SerializeForTxid(tx)
    BY <1>2 DEF SerializeTransaction
  <2> QED
    BY <2>6, <2>7, UnwitnessedReads
<1> QED
  BY <1>1, <1>2

(* NodeReadsTx for every transaction whose fields fit into their bytes,     *)
(* however many inputs, outputs and witness items it has.                   *)
THEOREM TransactionsRead == Spec => []NodeReadsTx
<1> DEFINE Inv == Sampled("tx")
<1>1. Init => Inv
  BY SampledInit
<1>2. Inv /\ [Next]_sample => Inv'
  BY SampledStep
<1>3. Inv => NodeReadsTx
  <2> SUFFICES ASSUME Inv, Is("tx")
               PROVE  /\ ReadTx(SerializeTransaction(item)) = Read(item, << >>)
                      /\ ReadTx(SerializeForTxid(item)) = Read(WithoutWitnesses(item), << >>)
    BY DEF NodeReadsTx
  <2>1. item \in TxData
    BY EncodedAssumption DEF Sampled
  <2>2. PICK tx \in TxData : tx = item
    BY <2>1
  <2>3. /\ ReadTx(SerializeTransaction(tx)) = Read(tx, << >>)
        /\ ReadTx(SerializeForTxid(tx)) = Read(WithoutWitnesses(tx), << >>)
    BY TransactionReads
  <2> QED
    BY <2>2, <2>3
<1> QED
  BY <1>1, <1>2, <1>3, PTL DEF Spec

(* Nothing that is written is empty, and each element is read on its own.   *)
Told(w, V, seen, s, t) ==
  FlattenSeq(Written(w, s)) = FlattenSeq(Written(w, t)) => Written(seen, s) = Written(seen, t)

(* Where elements are read back one by one, sequences with the same bytes   *)
(* were sequences of the same elements: neither can the end of one be taken *)
(* for the beginning of the next, nor a sequence for a longer one.          *)
LEMMA TellsApart ==
  ASSUME NEW V, NEW w \in [V -> Seq(Byte)], \A v \in V : w[v] # << >>,
         NEW W, NEW seen \in [V -> W], NEW readOne, Reads(readOne, w, V, seen)
  PROVE  \A s, t \in Seq(V) : Told(w, V, seen, s, t)
<1> DEFINE F(s) == FlattenSeq(Written(w, s))
           T == {s \in Seq(V) : \A t \in Seq(V) : F(s) = F(t) => Written(seen, s) = Written(seen, t)}
<1>1. /\ F(<< >>) = << >>
      /\ \A s \in Seq(V) : F(s) \in Seq(Byte)
      /\ \A e \in V, s \in Seq(V) : F(<<e>> \o s) = w[e] \o F(s)
  BY EncodedFront, ZenonT(60)
<1>2. /\ Written(seen, << >>) = << >>
      /\ \A e \in V, s \in Seq(V) : Written(seen, <<e>> \o s) = <<seen[e]>> \o Written(seen, s)
  <2>1. Writes(seen, V, W)
    BY WrittenFront
  <2> QED
    BY <2>1, Zenon DEF Writes
<1>3. \A e \in V, s \in Seq(V) : F(<<e>> \o s) # << >>
  <2> SUFFICES ASSUME NEW e \in V, NEW s \in Seq(V) PROVE F(<<e>> \o s) # << >>
    OBVIOUS
  <2>1. PICK a \in Seq(Byte) : a = w[e] /\ a # << >>
    OBVIOUS
  <2>2. PICK b \in Seq(Byte) : b = F(s)
    BY <1>1
  <2>3. a \o b # << >>
    BY <2>1, SMTT(60)
  <2>4. F(<<e>> \o s) = a \o b
    BY <1>1, <2>1, <2>2, ZenonT(60)
  <2> HIDE DEF F
  <2> QED
    BY <2>3, <2>4
<1>4. \A t \in Seq(V) : t = << >> \/ \E e \in V, u \in Seq(V) : t = <<e>> \o u
  <2> SUFFICES ASSUME NEW t \in Seq(V), t # << >>
               PROVE  \E e \in V, u \in Seq(V) : t = <<e>> \o u
    OBVIOUS
  <2>1. Head(t) \in V /\ Tail(t) \in Seq(V) /\ t = <<Head(t)>> \o Tail(t)
    OBVIOUS
  <2> QED
    BY <2>1
<1>5. << >> \in T
  <2>1. << >> \in Seq(V)
    OBVIOUS
  <2>2. ASSUME NEW t \in Seq(V), F(<< >>) = F(t) PROVE t = << >>
    <3> HIDE DEF F
    <3> QED
      BY <1>1, <1>3, <1>4, <2>2, ZenonT(60)
  <2> HIDE DEF F
  <2> QED
    BY <2>1, <2>2
<1>6. ASSUME NEW e \in V, NEW s \in Seq(V), s \in T
      PROVE  <<e>> \o s \in T
  <2>1. <<e>> \o s \in Seq(V)
    OBVIOUS
  <2>2. ASSUME NEW t \in Seq(V), F(<<e>> \o s) = F(t)
        PROVE  Written(seen, <<e>> \o s) = Written(seen, t)
    <3> HIDE DEF F
    <3>1. PICK d \in V, u \in Seq(V) : t = <<d>> \o u
      BY <1>1, <1>3, <1>4, <2>2, Zenon
    <3>2. PICK a : a = F(s)
      OBVIOUS
    <3>3. PICK b : b = F(u)
      OBVIOUS
    <3>4. w[e] \o a = w[d] \o b /\ a \in Seq(Byte) /\ b \in Seq(Byte)
      BY <1>1, <2>2, <3>1, <3>2, <3>3, ZenonT(60)
    <3>5. Read(seen[e], a) = Read(seen[d], b)
      BY <3>4 DEF Reads
    <3>6. seen[e] = seen[d] /\ a = b
      BY <3>5 DEF Read
    <3>7. Written(seen, s) = Written(seen, u)
      BY <1>6, <3>2, <3>3, <3>6
    <3>8. /\ Written(seen, <<e>> \o s) = <<seen[e]>> \o Written(seen, s)
          /\ Written(seen, <<d>> \o u) = <<seen[d]>> \o Written(seen, u)
      BY <1>2, <3>1, ZenonT(60)
    <3> QED
      BY <3>1, <3>6, <3>7, <3>8, ZenonT(60)
  <2> HIDE DEF F
  <2> QED
    BY <2>1, <2>2
<1>7. Seq(V) \subseteq T
  <2> HIDE DEF T
  <2> QED
    BY <1>5, <1>6, SequenceInduction
<1> QED
  BY <1>7 DEF Told

OutpointWritten == [coin \in CoinData |-> Outpoint(coin)]

OutpointRead == [coin \in CoinData |-> OutpointOf(coin)]

ReadOutpoint ==
  [bytes \in Seq(Byte) |->
     LET vout == ReadNumber(4, Drop(bytes, HashSize))
     IN  Read(<<Reverse(Take(bytes, HashSize)), vout.value>>, vout.rest)]

(* Outpoints, side by side, are told apart, ...                             *)
LEMMA OutpointsTold ==
  \A s, t \in Seq(CoinData) : Told(OutpointWritten, CoinData, OutpointRead, s, t)
<1>1. ASSUME NEW coin \in CoinData, NEW r \in Seq(Byte)
      PROVE  /\ Outpoint(coin) \in Seq(Byte) /\ Outpoint(coin) # << >>
             /\ ReadOutpoint[Outpoint(coin) \o r] = Read(OutpointOf(coin), r)
  <2>1. coin.txid \in Txids /\ coin.vout \in Unsigned(4) /\ 4 \in Nat
    BY DEF CoinData
  <2>2. PICK txid : txid = Reverse(coin.txid)
    OBVIOUS
  <2>3. txid \in Seq(Byte) /\ Len(txid) = HashSize /\ Reverse(txid) = coin.txid
    BY <2>1, <2>2, ReversedTwice DEF Txids
  <2>4. PICK vout : vout = LE[4][coin.vout]
    OBVIOUS
  <2>5. vout \in Seq(Byte) /\ vout # << >>
    <3>1. coin.vout \in Int
      BY <2>1 DEF Unsigned
    <3>2. vout \in Seq(Byte) /\ Len(vout) = 4
      BY <2>1, <2>4, <3>1, LEType
    <3>3. Len(<< >>) # 4
      OBVIOUS
    <3>4. vout # << >>
      BY <3>2, <3>3, Zenon
    <3> QED
      BY <3>2, <3>4
  <2>6. Outpoint(coin) = txid \o vout
    BY <2>2, <2>4 DEF Outpoint
  <2>7. txid \o vout \in Seq(Byte) /\ txid \o vout # << >>
    BY <2>3, <2>5
  <2>8. PICK rest : rest = vout \o r
    OBVIOUS
  <2>9. rest \in Seq(Byte)
    BY <2>5, <2>8
  <2>10. PICK bytes : bytes = txid \o rest
    OBVIOUS
  <2>11. bytes \in Seq(Byte) /\ (txid \o vout) \o r = bytes
    <3>1. bytes \in Seq(Byte)
      BY <2>3, <2>9, <2>10
    <3> QED
      <4>1. txid \in Seq(Byte) /\ vout \in Seq(Byte) /\ r \in Seq(Byte)
        BY <2>3, <2>5
      <4>2. (txid \o vout) \o r = txid \o (vout \o r)
        BY <4>1, Associative, Zenon
      <4> QED
        BY <2>8, <2>10, <3>1, <4>1, <4>2
  <2>12. Take(bytes, HashSize) = txid /\ Drop(bytes, HashSize) = rest
    BY <2>3, <2>9, <2>10, TakenFirst
  <2>13. ReadNumber(4, rest) = [value |-> coin.vout, rest |-> r]
    BY <2>1, <2>4, <2>8, UnsignedReads
  <2>14. ReadOutpoint[bytes] = Read(<<coin.txid, coin.vout>>, r)
    <3>1. ReadOutpoint[bytes] =
            Read(<<Reverse(Take(bytes, HashSize)), ReadNumber(4, Drop(bytes, HashSize)).value>>,
                 ReadNumber(4, Drop(bytes, HashSize)).rest)
      BY <2>11 DEF ReadOutpoint
    <3>2. ReadNumber(4, rest).value = coin.vout /\ ReadNumber(4, rest).rest = r
      BY <2>13
    <3> QED
      BY <2>3, <2>12, <3>1, <3>2
  <2> QED
    BY <2>6, <2>7, <2>11, <2>14 DEF OutpointOf
<1>2. << >> \in Seq(Byte)
  OBVIOUS
<1>3. OutpointWritten \in [CoinData -> Seq(Byte)] /\ \A v \in CoinData : OutpointWritten[v] # << >>
  BY <1>1, <1>2 DEF OutpointWritten
<1>4. Reads(ReadOutpoint, OutpointWritten, CoinData, OutpointRead)
  BY <1>1 DEF Reads, OutpointWritten, OutpointRead
<1>5. OutpointRead \in [CoinData -> Txids \X Unsigned(4)]
  BY DEF OutpointRead, OutpointOf, CoinData
<1> QED
  BY <1>3, <1>4, <1>5, TellsApart

AmountWritten == [coin \in CoinData |-> Amount(coin)]

AmountRead == [coin \in CoinData |-> coin.value]

ReadAmount == [bytes \in Seq(Byte) |-> ReadSigned(8, bytes)]

(* ... amounts, ...                                                         *)
LEMMA AmountsTold ==
  \A s, t \in Seq(CoinData) : Told(AmountWritten, CoinData, AmountRead, s, t)
<1>1. ASSUME NEW coin \in CoinData, NEW r \in Seq(Byte)
      PROVE  /\ Amount(coin) \in Seq(Byte) /\ Amount(coin) # << >>
             /\ ReadAmount[Amount(coin) \o r] = Read(coin.value, r)
  <2>1. coin.value \in Signed(8) /\ coin.value \in Int /\ 8 \in Nat /\ 8 \in Nat \ {0}
    BY DEF CoinData, Signed
  <2>2. PICK a : a = LE[8][coin.value]
    OBVIOUS
  <2>3. a \in Seq(Byte) /\ Len(a) = 8
    BY <2>1, <2>2, LEType
  <2>4. a # << >> /\ a \o r \in Seq(Byte)
    <3>1. Len(<< >>) # 8
      OBVIOUS
    <3>2. a # << >>
      BY <2>3, <3>1, Zenon
    <3> QED
      BY <2>3, <3>2
  <2>5. ReadSigned(8, a \o r) = Read(coin.value, r)
    BY <2>1, <2>2, SignedReads
  <2> QED
    BY <2>2, <2>3, <2>4, <2>5 DEF Amount, ReadAmount
<1>2. << >> \in Seq(Byte)
  OBVIOUS
<1>3. AmountWritten \in [CoinData -> Seq(Byte)] /\ \A v \in CoinData : AmountWritten[v] # << >>
  BY <1>1, <1>2 DEF AmountWritten
<1>4. Reads(ReadAmount, AmountWritten, CoinData, AmountRead)
  BY <1>1 DEF Reads, AmountWritten, AmountRead
<1>5. AmountRead \in [CoinData -> Signed(8)]
  BY DEF AmountRead, CoinData
<1> QED
  BY <1>3, <1>4, <1>5, TellsApart

ScriptWritten == [coin \in CoinData |-> CoinScript(coin)]

ScriptRead == [coin \in CoinData |-> coin.scriptPubKey]

(* ... scripts with their lengths before them, ...                          *)
LEMMA ScriptsTold ==
  \A s, t \in Seq(CoinData) : Told(ScriptWritten, CoinData, ScriptRead, s, t)
<1>1. ASSUME NEW coin \in CoinData, NEW r \in Seq(Byte)
      PROVE  /\ CoinScript(coin) \in Seq(Byte) /\ CoinScript(coin) # << >>
             /\ ReadPrefixed[CoinScript(coin) \o r] = Read(coin.scriptPubKey, r)
  <2>1. PICK s \in Short : s = coin.scriptPubKey
    BY DEF CoinData
  <2>2. s \in Seq(Byte) /\ Len(s) < Power[8]
    <3>1. s \in Seq(Byte) /\ Len(s) \in Nat /\ Len(s) < Power[4]
      BY DEF Short
    <3> QED
      BY <3>1, PowersGrow, PowerType
  <2> QED
    BY <2>1, <2>2, PrefixedReads DEF CoinScript
<1>2. << >> \in Seq(Byte)
  OBVIOUS
<1>3. ScriptWritten \in [CoinData -> Seq(Byte)] /\ \A v \in CoinData : ScriptWritten[v] # << >>
  BY <1>1, <1>2 DEF ScriptWritten
<1>4. Reads(ReadPrefixed, ScriptWritten, CoinData, ScriptRead)
  BY <1>1 DEF Reads, ScriptWritten, ScriptRead
<1>5. ScriptRead \in [CoinData -> Short]
  BY DEF ScriptRead, CoinData
<1> QED
  BY <1>3, <1>4, <1>5, TellsApart

SequenceWritten == [input \in InputData |-> Sequence(input)]

SequenceRead == [input \in InputData |-> input.sequence]

ReadSequence == [bytes \in Seq(Byte) |-> ReadNumber(4, bytes)]

(* ... sequences ...                                                        *)
LEMMA SequencesTold ==
  \A s, t \in Seq(InputData) : Told(SequenceWritten, InputData, SequenceRead, s, t)
<1>1. ASSUME NEW input \in InputData, NEW r \in Seq(Byte)
      PROVE  /\ Sequence(input) \in Seq(Byte) /\ Sequence(input) # << >>
             /\ ReadSequence[Sequence(input) \o r] = Read(input.sequence, r)
  <2>1. input.sequence \in Unsigned(4) /\ input.sequence \in Int /\ 4 \in Nat
    BY DEF InputData, Unsigned
  <2>2. PICK a : a = LE[4][input.sequence]
    OBVIOUS
  <2>3. a \in Seq(Byte) /\ Len(a) = 4
    BY <2>1, <2>2, LEType
  <2>4. a # << >> /\ a \o r \in Seq(Byte)
    <3>1. Len(<< >>) # 4
      OBVIOUS
    <3>2. a # << >>
      BY <2>3, <3>1, Zenon
    <3> QED
      BY <2>3, <3>2
  <2>5. ReadNumber(4, a \o r) = Read(input.sequence, r)
    BY <2>1, <2>2, UnsignedReads DEF Read
  <2> QED
    BY <2>2, <2>3, <2>4, <2>5 DEF Sequence, ReadSequence
<1>2. << >> \in Seq(Byte)
  OBVIOUS
<1>3. SequenceWritten \in [InputData -> Seq(Byte)]
      /\ \A v \in InputData : SequenceWritten[v] # << >>
  BY <1>1, <1>2 DEF SequenceWritten
<1>4. Reads(ReadSequence, SequenceWritten, InputData, SequenceRead)
  BY <1>1 DEF Reads, SequenceWritten, SequenceRead
<1>5. SequenceRead \in [InputData -> Unsigned(4)]
  BY DEF SequenceRead, InputData
<1> QED
  BY <1>3, <1>4, <1>5, TellsApart

(* ... and outputs.                                                         *)
LEMMA OutputsTold ==
  \A s, t \in Seq(OutputData) : Told(OutputWritten, OutputData, OutputRead, s, t)
<1>1. \A v \in OutputData : OutputWritten[v] # << >>
  <2> SUFFICES ASSUME NEW output \in OutputData PROVE OutputWritten[output] # << >>
    OBVIOUS
  <2>1. PICK a : a = LE[8][output.value]
    OBVIOUS
  <2>2. PICK b : b = Prefixed(output.scriptPubKey)
    OBVIOUS
  <2>3. output.value \in Int /\ output.scriptPubKey \in Short /\ 8 \in Nat
    BY DEF OutputData, Signed
  <2>4. a \in Seq(Byte) /\ Len(a) = 8 /\ b \in Seq(Byte)
    BY <2>1, <2>2, <2>3, LEType, ShortReads, << >> \in Seq(Byte)
  <2>5. a \o b # << >>
    BY <2>4
  <2> QED
    BY <2>1, <2>2, <2>5 DEF OutputWritten, SerializeOutput
<1>2. OutputRead \in [OutputData -> OutputData]
  BY DEF OutputRead
<1> QED
  BY <1>1, <1>2, OutputReads, TellsApart

(* buildPrevouts finds, for every input, the coin the node holds under its  *)
(* outpoint: the first match in the wallet's list is the only one.          *)
LEMMA PrevoutIsCoin ==
  ASSUME NEW spend \in Spends, NEW i \in DOMAIN spend.tx.inputs
  PROVE  LET input == spend.tx.inputs[i]
             found == Prevout(input, spend.utxos)
         IN  /\ found = CoinsOf(spend.utxos)[<<input.txid, input.vout>>]
             /\ found.txid = input.txid /\ found.vout = input.vout
             /\ found \in CoinData
<1> DEFINE utxos == spend.utxos
           input == spend.tx.inputs[i]
           Matches(j) == utxos[j].txid = input.txid /\ utxos[j].vout = input.vout
           Fits(j) == Matches(j) /\ \A k \in 1 .. j - 1 : ~Matches(k)
           Same(j) == OutpointOf(utxos[j]) = <<input.txid, input.vout>>
<1>1. PICK j \in DOMAIN utxos : Same(j)
  BY SpendsAssumption DEF OutpointOf
<1>2. \A k \in DOMAIN utxos : Same(k) <=> k = j
  BY <1>1, SpendsAssumption DEF OutpointOf
<1>3. \A k \in DOMAIN utxos : Matches(k) <=> k = j
  BY <1>2 DEF OutpointOf
<1>4. DOMAIN utxos = 1 .. Len(utxos) /\ utxos[j] \in CoinData
  <2>1. utxos \in Seq(CoinData)
    BY SpendsAssumption
  <2> QED
    BY <1>1, <2>1
<1>5. \A k \in DOMAIN utxos : Fits(k) <=> k = j
  BY <1>1, <1>3, <1>4
<1>6. (CHOOSE k \in DOMAIN utxos : Fits(k)) = j
  BY <1>1, <1>5
<1>7. (CHOOSE k \in DOMAIN utxos : Same(k)) = j
  BY <1>1, <1>2
<1>8. Prevout(input, utxos) = utxos[j]
  BY <1>6, ZenonT(60) DEF Prevout
<1>9. CoinsOf(utxos)[<<input.txid, input.vout>>] = utxos[j]
  BY <1>1, <1>7, ZenonT(60) DEF CoinsOf
<1> QED
  BY <1>1, <1>3, <1>4, <1>8, <1>9

(* Field by field, the prevouts say what the node's coins say.              *)
LEMMA SameFields ==
  ASSUME NEW spend \in Spends, spend.leafHash = {}
  PROVE  MessageOf(spend) = NodeMessageOf(spend)
<1> DEFINE tx == spend.tx
           utxos == spend.utxos
           prevouts == Prevouts(tx, utxos)
           Coin(input) == CoinsOf(utxos)[<<input.txid, input.vout>>]
           AmountOf(input) == Amount(Coin(input))
           ScriptOf(input) == LET script == Coin(input).scriptPubKey
                              IN  EncodeVarint(Len(script)) \o script
<1>1. DOMAIN prevouts = DOMAIN tx.inputs
  BY SMTT(60) DEF Prevouts
<1>2. \A i \in DOMAIN tx.inputs :
        /\ Outpoint(prevouts[i]) = Outpoint(tx.inputs[i])
        /\ Amount(prevouts[i]) = AmountOf(tx.inputs[i])
        /\ CoinScript(prevouts[i]) = ScriptOf(tx.inputs[i])
  <2> SUFFICES ASSUME NEW i \in DOMAIN tx.inputs
               PROVE  /\ Outpoint(prevouts[i]) = Outpoint(tx.inputs[i])
                      /\ Amount(prevouts[i]) = AmountOf(tx.inputs[i])
                      /\ CoinScript(prevouts[i]) = ScriptOf(tx.inputs[i])
    OBVIOUS
  <2>1. prevouts[i] = Prevout(tx.inputs[i], utxos)
    BY DEF Prevouts
  <2>2. /\ prevouts[i] = Coin(tx.inputs[i])
        /\ prevouts[i].txid = tx.inputs[i].txid
        /\ prevouts[i].vout = tx.inputs[i].vout
    BY <2>1, PrevoutIsCoin
  <2>3. Outpoint(prevouts[i]) = Outpoint(tx.inputs[i])
    BY <2>2 DEF Outpoint
  <2> HIDE DEF Coin, prevouts
  <2>4. CoinScript(prevouts[i]) = ScriptOf(tx.inputs[i])
    BY <2>2, SMTT(60) DEF CoinScript, Prefixed
  <2> QED
    BY <2>2, <2>3, <2>4, SMTT(60)
<1>3. Each(prevouts, Outpoint) = Each(tx.inputs, Outpoint)
  BY <1>1, <1>2, ZenonT(60) DEF Each
<1>4. Each(prevouts, Amount) = Each(tx.inputs, AmountOf)
  BY <1>1, <1>2, ZenonT(60) DEF Each
<1>5. Each(prevouts, CoinScript) = Each(tx.inputs, ScriptOf)
  BY <1>1, <1>2, ZenonT(60) DEF Each
<1> QED
  BY <1>3, <1>4, <1>5, ZenonT(60) DEF MessageOf, NodeMessageOf, Message, NodeMessage

(* KeyPathAgrees for any set of spends, of transactions of any size, whose  *)
(* coins the wallet lists once each.                                        *)
THEOREM KeyPath == Spec => []KeyPathAgrees
<1> DEFINE Inv == Sampled("spend")
<1>1. Init => Inv
  BY SampledInit
<1>2. Inv /\ [Next]_sample => Inv'
  BY SampledStep
<1>3. Inv => KeyPathAgrees
  <2> SUFFICES ASSUME Inv, Is("spend"), item.leafHash = {}
               PROVE  MessageOf(item) = NodeMessageOf(item)
    BY DEF KeyPathAgrees
  <2>1. item \in Spends
    BY DEF Sampled, Spends
  <2> QED
    BY <2>1, SameFields
<1> QED
  BY <1>1, <1>2, <1>3, PTL DEF Spec

----------------------------------------------------------------------------
(* The sequences that a signature is about. *)
PrevoutsOf(spend) == Prevouts(spend.tx, spend.utxos)

(* The fields of a message are what is written for the prevouts, the inputs *)
(* and the outputs.                                                         *)
LEMMA MessageFields ==
  ASSUME NEW spend \in Spends
  PROVE  /\ spend.tx.inputs \in Seq(InputData) /\ spend.tx.outputs \in Seq(OutputData)
         /\ PrevoutsOf(spend) \in Seq(CoinData)
         /\ Len(PrevoutsOf(spend)) = Len(spend.tx.inputs)
         /\ \A i \in DOMAIN spend.tx.inputs :
              PrevoutsOf(spend)[i] = Prevout(spend.tx.inputs[i], spend.utxos)
         /\ MessageOf(spend).prevouts = FlattenSeq(Written(OutpointWritten, PrevoutsOf(spend)))
         /\ MessageOf(spend).amounts = FlattenSeq(Written(AmountWritten, PrevoutsOf(spend)))
         /\ MessageOf(spend).scriptPubKeys = FlattenSeq(Written(ScriptWritten, PrevoutsOf(spend)))
         /\ MessageOf(spend).sequences = FlattenSeq(Written(SequenceWritten, spend.tx.inputs))
         /\ MessageOf(spend).outputs = FlattenSeq(Written(OutputWritten, spend.tx.outputs))
<1>1. PICK tx \in TxData : tx = spend.tx
  BY SpendsAssumption
<1>2. tx.inputs \in Seq(InputData) /\ tx.outputs \in Seq(OutputData)
  BY DEF TxData
<1>3. PICK p : p = PrevoutsOf(spend)
  OBVIOUS
<1>4. p = [i \in 1 .. Len(tx.inputs) |-> Prevout(tx.inputs[i], spend.utxos)]
  BY <1>1, <1>2, <1>3 DEF PrevoutsOf, Prevouts
<1>5. \A i \in 1 .. Len(tx.inputs) : Prevout(tx.inputs[i], spend.utxos) \in CoinData
  <2>1. \A i \in DOMAIN spend.tx.inputs : Prevout(spend.tx.inputs[i], spend.utxos) \in CoinData
    BY PrevoutIsCoin
  <2> QED
    BY <1>1, <1>2, <2>1
<1>6. p \in Seq(CoinData) /\ Len(p) = Len(tx.inputs)
  BY <1>2, <1>4, <1>5
<1>7. /\ [i \in DOMAIN p |-> Outpoint(p[i])] = Written(OutpointWritten, p)
      /\ [i \in DOMAIN p |-> Amount(p[i])] = Written(AmountWritten, p)
      /\ [i \in DOMAIN p |-> CoinScript(p[i])] = Written(ScriptWritten, p)
  BY <1>6 DEF Written, OutpointWritten, AmountWritten, ScriptWritten
<1>8. /\ [i \in DOMAIN tx.inputs |-> Sequence(tx.inputs[i])] = Written(SequenceWritten, tx.inputs)
      /\ [i \in DOMAIN tx.outputs |-> SerializeOutput(tx.outputs[i])]
           = Written(OutputWritten, tx.outputs)
  BY <1>2 DEF Written, SequenceWritten, OutputWritten
<1>9. /\ MessageOf(spend).prevouts = Each(p, Outpoint)
      /\ MessageOf(spend).amounts = Each(p, Amount)
      /\ MessageOf(spend).scriptPubKeys = Each(p, CoinScript)
      /\ MessageOf(spend).sequences = Each(tx.inputs, Sequence)
      /\ MessageOf(spend).outputs = Each(tx.outputs, SerializeOutput)
  BY <1>1, <1>3 DEF MessageOf, Message, PrevoutsOf
<1>10. /\ Each(p, Outpoint) = FlattenSeq(Written(OutpointWritten, p))
       /\ Each(p, Amount) = FlattenSeq(Written(AmountWritten, p))
       /\ Each(p, CoinScript) = FlattenSeq(Written(ScriptWritten, p))
       /\ Each(tx.inputs, Sequence) = FlattenSeq(Written(SequenceWritten, tx.inputs))
       /\ Each(tx.outputs, SerializeOutput) = FlattenSeq(Written(OutputWritten, tx.outputs))
  BY <1>7, <1>8, Zenon DEF Each
<1> QED
  BY <1>1, <1>2, <1>3, <1>4, <1>6, <1>9, <1>10

(* A number that fits has one encoding.                                     *)
LEMMA OneEncoding ==
  ASSUME NEW w \in Nat \ {0}
  PROVE  /\ \A m, n \in Unsigned(w) : LE[w][m] = LE[w][n] => m = n
         /\ \A m, n \in Signed(w) : LE[w][m] = LE[w][n] => m = n
<1>1. << >> \in Seq(Byte) /\ w \in Nat
  OBVIOUS
<1>2. ASSUME NEW m \in Unsigned(w), NEW n \in Unsigned(w), LE[w][m] = LE[w][n] PROVE m = n
  <2>1. ReadNumber(w, LE[w][m] \o << >>) = [value |-> m, rest |-> << >>]
    BY <1>1, UnsignedReads
  <2>2. ReadNumber(w, LE[w][n] \o << >>) = [value |-> n, rest |-> << >>]
    BY <1>1, UnsignedReads
  <2> QED
    BY <1>2, <2>1, <2>2
<1>3. ASSUME NEW m \in Signed(w), NEW n \in Signed(w), LE[w][m] = LE[w][n] PROVE m = n
  <2>1. ReadSigned(w, LE[w][m] \o << >>) = Read(m, << >>)
    BY <1>1, SignedReads
  <2>2. ReadSigned(w, LE[w][n] \o << >>) = Read(n, << >>)
    BY <1>1, SignedReads
  <2> QED
    BY <1>3, <2>1, <2>2 DEF Read
<1> QED
  BY <1>2, <1>3

(* Spends with one message agree in all that a signature is about.          *)
LEMMA MessageBound ==
  ASSUME NEW a \in Spends, NEW b \in Spends, MessageOf(a) = MessageOf(b)
  PROVE  Committed(a) = Committed(b)
<1>1. PICK ta \in TxData : ta = a.tx
  BY SpendsAssumption
<1>2. PICK tb \in TxData : tb = b.tx
  BY SpendsAssumption
<1>3. ta.inputs \in Seq(InputData) /\ tb.inputs \in Seq(InputData)
  BY DEF TxData
<1>4. PICK pa \in Seq(CoinData) : pa = PrevoutsOf(a)
  BY MessageFields
<1>5. PICK pb \in Seq(CoinData) : pb = PrevoutsOf(b)
  BY MessageFields
<1>6. /\ Len(pa) = Len(ta.inputs) /\ Len(pb) = Len(tb.inputs)
      /\ \A i \in DOMAIN ta.inputs : pa[i] = Prevout(ta.inputs[i], a.utxos)
      /\ \A i \in DOMAIN tb.inputs : pb[i] = Prevout(tb.inputs[i], b.utxos)
  BY <1>1, <1>2, <1>4, <1>5, MessageFields
<1>7. Written(OutpointRead, pa) = Written(OutpointRead, pb)
  <2>1. FlattenSeq(Written(OutpointWritten, pa)) = FlattenSeq(Written(OutpointWritten, pb))
    BY <1>4, <1>5, MessageFields
  <2> QED
    BY <2>1, OutpointsTold DEF Told
<1>8. Written(AmountRead, pa) = Written(AmountRead, pb)
  <2>1. FlattenSeq(Written(AmountWritten, pa)) = FlattenSeq(Written(AmountWritten, pb))
    BY <1>4, <1>5, MessageFields
  <2> QED
    BY <2>1, AmountsTold DEF Told
<1>9. Written(ScriptRead, pa) = Written(ScriptRead, pb)
  <2>1. FlattenSeq(Written(ScriptWritten, pa)) = FlattenSeq(Written(ScriptWritten, pb))
    BY <1>4, <1>5, MessageFields
  <2> QED
    BY <2>1, ScriptsTold DEF Told
<1>10. Written(SequenceRead, ta.inputs) = Written(SequenceRead, tb.inputs)
  <2>1. FlattenSeq(Written(SequenceWritten, ta.inputs)) = FlattenSeq(Written(SequenceWritten, tb.inputs))
    BY <1>1, <1>2, MessageFields
  <2> QED
    BY <1>3, <2>1, SequencesTold DEF Told
<1>11. ta.outputs = tb.outputs
  <2>1. FlattenSeq(Written(OutputWritten, ta.outputs)) = FlattenSeq(Written(OutputWritten, tb.outputs))
    BY <1>1, <1>2, MessageFields
  <2>2. ta.outputs \in Seq(OutputData) /\ tb.outputs \in Seq(OutputData)
    BY DEF TxData
  <2>3. Written(OutputRead, ta.outputs) = Written(OutputRead, tb.outputs)
    BY <2>1, <2>2, OutputsTold DEF Told
  <2>4. \A s \in Seq(OutputData) : Written(OutputRead, s) = s
    BY DEF Written, OutputRead
  <2> QED
    BY <2>2, <2>3, <2>4
<1>12. Len(ta.inputs) = Len(tb.inputs) /\ DOMAIN ta.inputs = 1 .. Len(ta.inputs)
       /\ DOMAIN tb.inputs = 1 .. Len(tb.inputs)
  <2>1. \A s \in Seq(InputData) : DOMAIN Written(SequenceRead, s) = 1 .. Len(s)
    BY DEF Written
  <2>2. \A m, n \in Nat : 1 .. m = 1 .. n => m = n
    <3> SUFFICES ASSUME NEW m \in Nat, NEW n \in Nat, 1 .. m = 1 .. n PROVE m = n
      OBVIOUS
    <3>1. m >= 1 => m \in 1 .. n
      OBVIOUS
    <3>2. n >= 1 => n \in 1 .. m
      OBVIOUS
    <3> QED
      BY <3>1, <3>2
  <2>3. Len(ta.inputs) \in Nat /\ Len(tb.inputs) \in Nat
    BY <1>3
  <2>4. 1 .. Len(ta.inputs) = 1 .. Len(tb.inputs)
    BY <1>3, <1>10, <2>1
  <2> QED
    BY <1>3, <2>2, <2>3, <2>4
<1>13. ASSUME NEW i \in 1 .. Len(ta.inputs)
       PROVE  pa[i] = pb[i] /\ ta.inputs[i].sequence = tb.inputs[i].sequence
  <2>1. PICK c \in CoinData : c = pa[i]
    BY <1>6
  <2>2. PICK d \in CoinData : d = pb[i]
    BY <1>6, <1>12
  <2>3. i \in DOMAIN pa /\ i \in DOMAIN pb
    BY <1>6, <1>12
  <2>4. OutpointRead[c] = OutpointRead[d]
    <3>1. Written(OutpointRead, pa)[i] = Written(OutpointRead, pb)[i]
      BY <1>7
    <3> QED
      BY <2>1, <2>2, <2>3, <3>1 DEF Written
  <2>5. AmountRead[c] = AmountRead[d]
    <3>1. Written(AmountRead, pa)[i] = Written(AmountRead, pb)[i]
      BY <1>8
    <3> QED
      BY <2>1, <2>2, <2>3, <3>1 DEF Written
  <2>6. ScriptRead[c] = ScriptRead[d]
    <3>1. Written(ScriptRead, pa)[i] = Written(ScriptRead, pb)[i]
      BY <1>9
    <3> QED
      BY <2>1, <2>2, <2>3, <3>1 DEF Written
  <2>7. c.txid = d.txid /\ c.vout = d.vout /\ c.value = d.value /\ c.scriptPubKey = d.scriptPubKey
    BY <2>4, <2>5, <2>6 DEF OutpointRead, AmountRead, ScriptRead, OutpointOf
  <2>8. c = d
    BY <2>7 DEF CoinData
  <2>9. PICK x \in InputData : x = ta.inputs[i]
    BY <1>3
  <2>10. PICK y \in InputData : y = tb.inputs[i]
    BY <1>3, <1>12
  <2>11. SequenceRead[x] = SequenceRead[y]
    <3>1. Written(SequenceRead, ta.inputs)[i] = Written(SequenceRead, tb.inputs)[i]
      BY <1>10
    <3>2. i \in DOMAIN ta.inputs /\ i \in DOMAIN tb.inputs
      BY <1>12
    <3> QED
      BY <2>9, <2>10, <3>1, <3>2 DEF Written
  <2>12. x.sequence = y.sequence
    BY <2>11 DEF SequenceRead
  <2> QED
    BY <2>1, <2>2, <2>8, <2>9, <2>10, <2>12
<1>14. /\ LE[4][ta.version] = LE[4][tb.version] /\ LE[4][ta.locktime] = LE[4][tb.locktime]
       /\ LE[4][a.index - 1] = LE[4][b.index - 1]
       /\ MessageOf(a).extension = MessageOf(b).extension
  BY <1>1, <1>2 DEF MessageOf, Message
<1>15. ta.version = tb.version /\ ta.locktime = tb.locktime
  <2>1. ta.version \in Signed(4) /\ tb.version \in Signed(4)
        /\ ta.locktime \in Unsigned(4) /\ tb.locktime \in Unsigned(4) /\ 4 \in Nat \ {0}
    BY DEF TxData
  <2> QED
    BY <1>14, <2>1, OneEncoding
<1>16. a.index = b.index
  <2>1. /\ a.index \in 1 .. Len(ta.inputs) /\ Len(ta.inputs) < Power[4] /\ Power[4] \in Nat
        /\ b.index \in 1 .. Len(tb.inputs) /\ Len(tb.inputs) < Power[4]
    BY <1>1, <1>2, <1>12, SpendsAssumption, PowerType DEF TxData
  <2>2. a.index - 1 \in Unsigned(4) /\ b.index - 1 \in Unsigned(4) /\ 4 \in Nat \ {0}
    BY <1>3, <2>1, SMTT(60) DEF Unsigned
  <2>3. a.index - 1 = b.index - 1
    BY <1>14, <2>2, OneEncoding
  <2> QED
    BY <2>1, <2>3
<1>17. a.leafHash = b.leafHash
  <2> DEFINE ext(leaf) == [leaf |-> leaf, keyVersion |-> 0, codesep |-> LE[4][-1]]
  <2>1. MessageOf(a).extension = {ext(leaf) : leaf \in a.leafHash}
    BY DEF MessageOf, Message
  <2>2. MessageOf(b).extension = {ext(leaf) : leaf \in b.leafHash}
    BY DEF MessageOf, Message
  <2>3. \A x, y : ext(x) = ext(y) => x = y
    OBVIOUS
  <2> HIDE DEF ext
  <2>4. \A x : x \in a.leafHash <=> x \in b.leafHash
    <3>1. ASSUME NEW x \in a.leafHash PROVE x \in b.leafHash
      <4>1. ext(x) \in {ext(leaf) : leaf \in a.leafHash}
        OBVIOUS
      <4>2. ext(x) \in {ext(leaf) : leaf \in b.leafHash}
        BY <1>14, <2>1, <2>2, <4>1, Zenon
      <4>3. PICK y \in b.leafHash : ext(x) = ext(y)
        BY <4>2
      <4> QED
        BY <2>3, <4>3
    <3>2. ASSUME NEW x \in b.leafHash PROVE x \in a.leafHash
      <4>1. ext(x) \in {ext(leaf) : leaf \in b.leafHash}
        OBVIOUS
      <4>2. ext(x) \in {ext(leaf) : leaf \in a.leafHash}
        BY <1>14, <2>1, <2>2, <4>1, Zenon
      <4>3. PICK y \in a.leafHash : ext(x) = ext(y)
        BY <4>2
      <4> QED
        BY <2>3, <4>3
    <3> QED
      BY <3>1, <3>2
  <2> QED
    BY <2>4
<1>18. [i \in DOMAIN ta.inputs |-> <<Prevout(ta.inputs[i], a.utxos), ta.inputs[i].sequence>>]
         = [i \in DOMAIN tb.inputs |-> <<Prevout(tb.inputs[i], b.utxos), tb.inputs[i].sequence>>]
  <2>1. \A i \in DOMAIN ta.inputs :
          <<Prevout(ta.inputs[i], a.utxos), ta.inputs[i].sequence>>
            = <<Prevout(tb.inputs[i], b.utxos), tb.inputs[i].sequence>>
    BY <1>6, <1>12, <1>13
  <2>2. DOMAIN ta.inputs = DOMAIN tb.inputs
    BY <1>12
  <2> QED
    BY <2>1, <2>2
<1> QED
  BY <1>1, <1>2, <1>11, <1>15, <1>16, <1>17, <1>18, Zenon DEF Committed

(* MessageBinds for every set of spends: no two spends of it, of any size,  *)
(* that differ in what a signature is about have the same message.          *)
THEOREM MessagesBind == Spec => []MessageBinds
<1> DEFINE Inv == Sampled("spend")
<1>1. Init => Inv
  BY SampledInit
<1>2. Inv /\ [Next]_sample => Inv'
  BY SampledStep
<1>3. Inv => MessageBinds
  <2> SUFFICES ASSUME Inv, Is("spend"), NEW other \in Spends,
                      MessageOf(other) = MessageOf(item)
               PROVE  Committed(other) = Committed(item)
    BY DEF MessageBinds
  <2>1. PICK spend \in Spends : spend = item
    BY DEF Sampled, Spends
  <2>2. MessageOf(other) = MessageOf(spend)
    BY <2>1
  <2>3. Committed(other) = Committed(spend)
    BY <2>2, MessageBound
  <2> QED
    BY <2>1, <2>3
<1> QED
  BY <1>1, <1>2, <1>3, PTL DEF Spec

----------------------------------------------------------------------------
(* A method has no parameter that is both required and optional, and an     *)
(* optional one knows all that come after it.                               *)
InOrder(required, optional) ==
  /\ required \in Seq(ToSet(required))
  /\ optional \in Seq(ToSet(optional))
  /\ \A i \in DOMAIN optional :
       /\ optional[i].name \notin ToSet(required)
       /\ \A name :
            name \in optional[i].later
              <=> \E j \in DOMAIN optional : i < j /\ name = optional[j].name

WellFormed(method) == InOrder(method.required, method.optional)

(* Nothing optional is in order, ...                                        *)
LEMMA NoneInOrder == ASSUME NEW r, r \in Seq(ToSet(r)) PROVE InOrder(r, << >>)
BY DEF InOrder

(* What an optional parameter is made of.                                   *)
LEMMA OptionalIs ==
  \A a, p, L : Optional(a, p, L).name = a /\ Optional(a, p, L).later = L
BY DEF Optional

(* Lists of one to four.                                                    *)
LEMMA ListIs ==
  /\ \A a : <<a>> \in Seq(ToSet(<<a>>)) /\ ToSet(<<a>>) = {a}
  /\ \A a, b : <<a, b>> \in Seq(ToSet(<<a, b>>)) /\ ToSet(<<a, b>>) = {a, b}
  /\ \A a, b, c : <<a, b, c>> \in Seq(ToSet(<<a, b, c>>))
  /\ \A a, b, c, d : <<a, b, c, d>> \in Seq(ToSet(<<a, b, c, d>>))
<1>1. \A a : ToSet(<<a>>) = {a}
  BY DEF ToSet
<1>2. ASSUME NEW a, NEW b PROVE ToSet(<<a, b>>) = {a, b}
  <2>1. a \in ToSet(<<a, b>>)
    <3>1. 1 \in DOMAIN <<a, b>> /\ <<a, b>>[1] = a
      OBVIOUS
    <3> QED
      BY <3>1, Zenon DEF ToSet
  <2>2. b \in ToSet(<<a, b>>)
    <3>1. 2 \in DOMAIN <<a, b>> /\ <<a, b>>[2] = b
      OBVIOUS
    <3> QED
      BY <3>1, Zenon DEF ToSet
  <2>3. ToSet(<<a, b>>) \subseteq {a, b}
    BY DEF ToSet
  <2> QED
    BY <2>1, <2>2, <2>3
<1>3. \A a : <<a>> \in Seq(ToSet(<<a>>))
  BY DEF ToSet
<1>4. \A a, b : <<a, b>> \in Seq(ToSet(<<a, b>>))
  BY DEF ToSet
<1>5. \A a, b, c : <<a, b, c>> \in Seq(ToSet(<<a, b, c>>))
  BY DEF ToSet
<1>6. \A a, b, c, d : <<a, b, c, d>> \in Seq(ToSet(<<a, b, c, d>>))
  BY DEF ToSet
<1> QED
  BY <1>1, <1>2, <1>3, <1>4, <1>5, <1>6

(* ... one optional parameter is, ...                                       *)
LEMMA OneInOrder ==
  ASSUME NEW r, r \in Seq(ToSet(r)), NEW a, a \notin ToSet(r)
  PROVE  InOrder(r, <<Final(a)>>)
<1>1. PICK x : x = Final(a)
  OBVIOUS
<1>2. x.name = a /\ x.later = {}
  BY <1>1, OptionalIs DEF Final
<1>3. InOrder(r, <<x>>)
  <2>1. <<x>> \in Seq(ToSet(<<x>>))
    BY ListIs
  <2> QED
    BY <1>2, <2>1 DEF InOrder
<1> QED
  BY <1>1, <1>3

(* ... two are when the first is sent with the second, ...                  *)
LEMMA TwoInOrder ==
  ASSUME NEW r, r \in Seq(ToSet(r)), NEW a, a \notin ToSet(r), NEW b, b \notin ToSet(r),
         NEW p
  PROVE  InOrder(r, <<Optional(a, p, {b}), Final(b)>>)
<1>1. PICK x : x = Optional(a, p, {b})
  OBVIOUS
<1>2. PICK y : y = Final(b)
  OBVIOUS
<1>3. /\ x.name = a /\ x.later = {b}
  BY <1>1, OptionalIs
<1>4. /\ y.name = b /\ y.later = {}
  BY <1>2, OptionalIs DEF Final
<1>5. InOrder(r, <<x, y>>)
  <2>1. <<x, y>> \in Seq(ToSet(<<x, y>>))
    BY ListIs
  <2> QED
    BY <1>3, <1>4, <2>1 DEF InOrder
<1> QED
  BY <1>1, <1>2, <1>5

(* ... three are, ...                                                       *)
LEMMA ThreeInOrder ==
  ASSUME NEW r, r \in Seq(ToSet(r)), NEW a, a \notin ToSet(r), NEW b, b \notin ToSet(r),
         NEW c, c \notin ToSet(r), NEW p, NEW q
  PROVE  InOrder(r, <<Optional(a, p, {b, c}), Optional(b, q, {c}), Final(c)>>)
<1>1. PICK x : x = Optional(a, p, {b, c})
  OBVIOUS
<1>2. PICK y : y = Optional(b, q, {c})
  OBVIOUS
<1>3. PICK z : z = Final(c)
  OBVIOUS
<1>4. /\ x.name = a /\ x.later = {b, c}
  BY <1>1, OptionalIs
<1>5. /\ y.name = b /\ y.later = {c}
  BY <1>2, OptionalIs
<1>6. /\ z.name = c /\ z.later = {}
  BY <1>3, OptionalIs DEF Final
<1>7. InOrder(r, <<x, y, z>>)
  <2>1. <<x, y, z>> \in Seq(ToSet(<<x, y, z>>))
    BY ListIs
  <2> QED
    BY <1>4, <1>5, <1>6, <2>1 DEF InOrder
<1> QED
  BY <1>1, <1>2, <1>3, <1>7

(* ... and four.                                                            *)
LEMMA FourInOrder ==
  ASSUME NEW r, r \in Seq(ToSet(r)), NEW a, a \notin ToSet(r), NEW b, b \notin ToSet(r),
         NEW c, c \notin ToSet(r), NEW d, d \notin ToSet(r),
         NEW p, NEW q, NEW s
  PROVE  InOrder(r, <<Optional(a, p, {b, c, d}), Optional(b, q, {c, d}),
                      Optional(c, s, {d}), Final(d)>>)
<1>1. PICK x : x = Optional(a, p, {b, c, d})
  OBVIOUS
<1>2. PICK y : y = Optional(b, q, {c, d})
  OBVIOUS
<1>3. PICK z : z = Optional(c, s, {d})
  OBVIOUS
<1>4. PICK w : w = Final(d)
  OBVIOUS
<1>5. /\ x.name = a /\ x.later = {b, c, d}
  BY <1>1, OptionalIs
<1>6. /\ y.name = b /\ y.later = {c, d}
  BY <1>2, OptionalIs
<1>7. /\ z.name = c /\ z.later = {d}
  BY <1>3, OptionalIs
<1>8. /\ w.name = d /\ w.later = {}
  BY <1>4, OptionalIs DEF Final
<1>9. InOrder(r, <<x, y, z, w>>)
  <2>1. <<x, y, z, w>> \in Seq(ToSet(<<x, y, z, w>>))
    BY ListIs
  <2> QED
    BY <1>5, <1>6, <1>7, <1>8, <2>1 DEF InOrder
<1> QED
  BY <1>1, <1>2, <1>3, <1>4, <1>9

----------------------------------------------------------------------------
(* A method's RPC, and when it sends its parameters in order.               *)
LEMMA MethodIs ==
  ASSUME NEW rpc, NEW r, NEW o
  PROVE  /\ Method(rpc, r, o).rpc = rpc
         /\ OfWallet(Method(rpc, r, o)).rpc = rpc
         /\ InOrder(r, o) => /\ WellFormed(Method(rpc, r, o))
                             /\ WellFormed(OfWallet(Method(rpc, r, o)))
BY DEF Method, OfWallet, WellFormed

(* The lists of required parameters: none, one or two.                      *)
LEMMA NamesAre ==
  /\ << >> \in Seq(ToSet(<< >>)) /\ ToSet(<< >>) = {}
  /\ \A a : <<a>> \in Seq(ToSet(<<a>>)) /\ ToSet(<<a>>) = {a}
  /\ \A a, b : <<a, b>> \in Seq(ToSet(<<a, b>>)) /\ ToSet(<<a, b>>) = {a, b}
<1>1. << >> \in Seq(ToSet(<< >>)) /\ ToSet(<< >>) = {}
  BY DEF ToSet
<1> QED
  BY <1>1, ListIs, Zenon

(* The shapes of the lists of parameters that the methods have.             *)
(* The shapes of the lists of parameters that the methods have.             *)
(* The shapes of the lists of parameters that the methods have.             *)
(* The shapes of the lists of parameters that the methods have.             *)
(* The shapes of the lists of parameters that the methods have.             *)
(* The shapes of the lists of parameters that the methods have.             *)
(* The shapes of the lists of parameters that the methods have.             *)
LEMMA Shapes ==
  ASSUME NEW a, NEW b
  PROVE  /\ InOrder(<< >>, << >>) /\ InOrder(<<a>>, << >>) /\ InOrder(<<a, b>>, << >>)
         /\ \A c : /\ InOrder(<< >>, <<Final(c)>>)
                   /\ c # a => InOrder(<<a>>, <<Final(c)>>)
                   /\ c # a /\ c # b => InOrder(<<a, b>>, <<Final(c)>>)
<1>1. InOrder(<< >>, << >>) /\ InOrder(<<a>>, << >>) /\ InOrder(<<a, b>>, << >>)
  BY NamesAre, NoneInOrder
<1>2. ASSUME NEW c
      PROVE  /\ InOrder(<< >>, <<Final(c)>>)
             /\ c # a => InOrder(<<a>>, <<Final(c)>>)
             /\ c # a /\ c # b => InOrder(<<a, b>>, <<Final(c)>>)
  <2>1. InOrder(<< >>, <<Final(c)>>)
    BY NamesAre, OneInOrder
  <2>2. ASSUME c # a PROVE InOrder(<<a>>, <<Final(c)>>)
    <3>1. c \notin ToSet(<<a>>)
      BY <2>2, NamesAre
    <3> QED
      BY <3>1, NamesAre, OneInOrder
  <2>3. ASSUME c # a, c # b PROVE InOrder(<<a, b>>, <<Final(c)>>)
    <3>1. c \notin ToSet(<<a, b>>)
      BY <2>3, NamesAre
    <3> QED
      BY <3>1, NamesAre, OneInOrder
  <2> QED
    BY <2>1, <2>2, <2>3
<1> QED
  BY <1>1, <1>2

(* Those with two and more optional ones.                                   *)
LEMMA LongShapes ==
  ASSUME NEW a, NEW b, NEW p, NEW q, NEW s, NEW c, NEW d
  PROVE  /\ c \notin {a, b} /\ d \notin {a, b}
              => InOrder(<<a, b>>, <<Optional(c, p, {d}), Final(d)>>)
         /\ InOrder(<< >>, <<Optional(c, p, {d}), Final(d)>>)
         /\ \A e :
              /\ InOrder(<< >>, <<Optional(c, p, {d, e}), Optional(d, q, {e}), Final(e)>>)
              /\ a \notin {c, d, e}
                   => InOrder(<<a>>, <<Optional(c, p, {d, e}), Optional(d, q, {e}),
                                       Final(e)>>)
              /\ \A f : InOrder(<< >>, <<Optional(c, p, {d, e, f}), Optional(d, q, {e, f}),
                                         Optional(e, s, {f}), Final(f)>>)
<1>1. ASSUME c \notin {a, b}, d \notin {a, b}
      PROVE  InOrder(<<a, b>>, <<Optional(c, p, {d}), Final(d)>>)
  <2>1. c \notin ToSet(<<a, b>>) /\ d \notin ToSet(<<a, b>>)
    BY <1>1, NamesAre
  <2> QED
    BY <2>1, NamesAre, TwoInOrder
<1>2. InOrder(<< >>, <<Optional(c, p, {d}), Final(d)>>)
  BY NamesAre, TwoInOrder
<1>3. ASSUME NEW e
      PROVE  /\ InOrder(<< >>, <<Optional(c, p, {d, e}), Optional(d, q, {e}), Final(e)>>)
             /\ a \notin {c, d, e}
                  => InOrder(<<a>>, <<Optional(c, p, {d, e}), Optional(d, q, {e}), Final(e)>>)
  <2>1. InOrder(<< >>, <<Optional(c, p, {d, e}), Optional(d, q, {e}), Final(e)>>)
    BY NamesAre, ThreeInOrder
  <2>2. ASSUME a \notin {c, d, e}
        PROVE  InOrder(<<a>>, <<Optional(c, p, {d, e}), Optional(d, q, {e}), Final(e)>>)
    <3>1. c \notin ToSet(<<a>>) /\ d \notin ToSet(<<a>>) /\ e \notin ToSet(<<a>>)
      BY <2>2, NamesAre
    <3> QED
      BY <3>1, NamesAre, ThreeInOrder
  <2> QED
    BY <2>1, <2>2
<1>4. ASSUME NEW e, NEW f
      PROVE  InOrder(<< >>, <<Optional(c, p, {d, e, f}), Optional(d, q, {e, f}),
                              Optional(e, s, {f}), Final(f)>>)
  BY NamesAre, FourInOrder
<1> QED
  BY <1>1, <1>2, <1>3, <1>4

(* The method that calls an RPC.                                            *)
MethodOf ==
  [getoracleprice |-> "getOraclePrice", getalloracleprices |-> "getAllOraclePrices",
   getoracles |-> "getOracles", listoracle |-> "listOracle",
   stoporacle |-> "stopOracle", getoraclepubkey |-> "getOraclePubkey",
   sendoracleprice |-> "sendOraclePrice", submitoracleprice |-> "submitOraclePrice",
   startoracle |-> "startOracle", createoraclekey |-> "createOracleKey",
   setmockoracleprice |-> "setMockOraclePrice",
   getmockoracleprice |-> "getMockOraclePrice", enablemockoracle |-> "enableMockOracle",
   simulatepricevolatility |-> "simulatePriceVolatility",
   getdigidollarbalance |-> "getBalance", mintdigidollar |-> "mint",
   senddigidollar |-> "send", redeemdigidollar |-> "redeem",
   listdigidollartxs |-> "listTransactions",
   listdigidollarpositions |-> "listPositions",
   getredemptioninfo |-> "getRedemptionInfo",
   calculatecollateralrequirement |-> "calculateCollateral",
   estimatecollateral |-> "estimateCollateral", getdigidollaraddress |-> "getAddress",
   validateddaddress |-> "validateAddress", listdigidollaraddresses |-> "listAddresses",
   importdigidollaraddress |-> "importAddress", getdigidollarstats |-> "getStats",
   getdcamultiplier |-> "getDcaMultiplier",
   getdigidollardeploymentinfo |-> "getDeploymentInfo",
   getprotectionstatus |-> "getProtectionStatus", listunspent |-> "listUnspent",
   getrawtransaction |-> "getRawTransaction",
   sendrawtransaction |-> "sendRawTransaction", getblockcount |-> "getBlockCount"]

(* Each method of a group sends its parameters in order, and its RPC is its *)
(* own.                                                                     *)
Fit(group) ==
  \A n \in DOMAIN group : WellFormed(group[n]) /\ MethodOf[group[n].rpc] = n

(* The methods of each group, one after the other: of oracles, ...          *)
LEMMA OracleMethodsFit == Fit(OracleMethods)
<1> SUFFICES ASSUME NEW n \in DOMAIN OracleMethods
             PROVE  /\ WellFormed(OracleMethods[n])
                    /\ MethodOf[OracleMethods[n].rpc] = n
  BY DEF Fit
<1>0. n \in {"getOraclePrice", "getAllOraclePrices", "getOracles", "listOracle", "stopOracle",
            "getOraclePubkey", "sendOraclePrice", "submitOraclePrice", "startOracle",
            "createOracleKey", "setMockOraclePrice", "getMockOraclePrice",
            "enableMockOracle", "simulatePriceVolatility"}
  BY DEF OracleMethods
<1>1. CASE n = "getOraclePrice"
  <2>1. WellFormed(OracleMethods[n])
    BY <1>1, Shapes, MethodIs DEF OracleMethods
  <2>2. OracleMethods[n].rpc = "getoracleprice"
    BY <1>1, MethodIs DEF OracleMethods
  <2>3. MethodOf["getoracleprice"] = n
    BY <1>1 DEF MethodOf
  <2> QED
    BY <2>1, <2>2, <2>3
<1>2. CASE n = "getAllOraclePrices"
  <2>1. WellFormed(OracleMethods[n])
    BY <1>2, Shapes, MethodIs DEF OracleMethods
  <2>2. OracleMethods[n].rpc = "getalloracleprices"
    BY <1>2, MethodIs DEF OracleMethods
  <2>3. MethodOf["getalloracleprices"] = n
    BY <1>2 DEF MethodOf
  <2> QED
    BY <2>1, <2>2, <2>3
<1>3. CASE n = "getOracles"
  <2>1. WellFormed(OracleMethods[n])
    BY <1>3, Shapes, MethodIs DEF OracleMethods
  <2>2. OracleMethods[n].rpc = "getoracles"
    BY <1>3, MethodIs DEF OracleMethods
  <2>3. MethodOf["getoracles"] = n
    BY <1>3 DEF MethodOf
  <2> QED
    BY <2>1, <2>2, <2>3
<1>4. CASE n = "listOracle"
  <2>1. WellFormed(OracleMethods[n])
    BY <1>4, Shapes, MethodIs DEF OracleMethods
  <2>2. OracleMethods[n].rpc = "listoracle"
    BY <1>4, MethodIs DEF OracleMethods
  <2>3. MethodOf["listoracle"] = n
    BY <1>4 DEF MethodOf
  <2> QED
    BY <2>1, <2>2, <2>3
<1>5. CASE n = "stopOracle"
  <2>1. WellFormed(OracleMethods[n])
    BY <1>5, Shapes, MethodIs DEF OracleMethods
  <2>2. OracleMethods[n].rpc = "stoporacle"
    BY <1>5, MethodIs DEF OracleMethods
  <2>3. MethodOf["stoporacle"] = n
    BY <1>5 DEF MethodOf
  <2> QED
    BY <2>1, <2>2, <2>3
<1>6. CASE n = "getOraclePubkey"
  <2>1. WellFormed(OracleMethods[n])
    BY <1>6, Shapes, MethodIs DEF OracleMethods
  <2>2. OracleMethods[n].rpc = "getoraclepubkey"
    BY <1>6, MethodIs DEF OracleMethods
  <2>3. MethodOf["getoraclepubkey"] = n
    BY <1>6 DEF MethodOf
  <2> QED
    BY <2>1, <2>2, <2>3
<1>7. CASE n = "sendOraclePrice"
  <2>1. WellFormed(OracleMethods[n])
    BY <1>7, Shapes, MethodIs DEF OracleMethods
  <2>2. OracleMethods[n].rpc = "sendoracleprice"
    BY <1>7, MethodIs DEF OracleMethods
  <2>3. MethodOf["sendoracleprice"] = n
    BY <1>7 DEF MethodOf
  <2> QED
    BY <2>1, <2>2, <2>3
<1>8. CASE n = "submitOraclePrice"
  <2>1. WellFormed(OracleMethods[n])
    BY <1>8, Shapes, MethodIs DEF OracleMethods
  <2>2. OracleMethods[n].rpc = "submitoracleprice"
    BY <1>8, MethodIs DEF OracleMethods
  <2>3. MethodOf["submitoracleprice"] = n
    BY <1>8 DEF MethodOf
  <2> QED
    BY <2>1, <2>2, <2>3
<1>9. CASE n = "startOracle"
  <2>1. WellFormed(OracleMethods[n])
    BY <1>9, Shapes, MethodIs DEF OracleMethods
  <2>2. OracleMethods[n].rpc = "startoracle"
    BY <1>9, MethodIs DEF OracleMethods
  <2>3. MethodOf["startoracle"] = n
    BY <1>9 DEF MethodOf
  <2> QED
    BY <2>1, <2>2, <2>3
<1>10. CASE n = "createOracleKey"
  <2>1. WellFormed(OracleMethods[n])
    BY <1>10, Shapes, MethodIs DEF OracleMethods
  <2>2. OracleMethods[n].rpc = "createoraclekey"
    BY <1>10, MethodIs DEF OracleMethods
  <2>3. MethodOf["createoraclekey"] = n
    BY <1>10 DEF MethodOf
  <2> QED
    BY <2>1, <2>2, <2>3
<1>11. CASE n = "setMockOraclePrice"
  <2>1. WellFormed(OracleMethods[n])
    BY <1>11, Shapes, MethodIs DEF OracleMethods
  <2>2. OracleMethods[n].rpc = "setmockoracleprice"
    BY <1>11, MethodIs DEF OracleMethods
  <2>3. MethodOf["setmockoracleprice"] = n
    BY <1>11 DEF MethodOf
  <2> QED
    BY <2>1, <2>2, <2>3
<1>12. CASE n = "getMockOraclePrice"
  <2>1. WellFormed(OracleMethods[n])
    BY <1>12, Shapes, MethodIs DEF OracleMethods
  <2>2. OracleMethods[n].rpc = "getmockoracleprice"
    BY <1>12, MethodIs DEF OracleMethods
  <2>3. MethodOf["getmockoracleprice"] = n
    BY <1>12 DEF MethodOf
  <2> QED
    BY <2>1, <2>2, <2>3
<1>13. CASE n = "enableMockOracle"
  <2>1. WellFormed(OracleMethods[n])
    BY <1>13, Shapes, MethodIs DEF OracleMethods
  <2>2. OracleMethods[n].rpc = "enablemockoracle"
    BY <1>13, MethodIs DEF OracleMethods
  <2>3. MethodOf["enablemockoracle"] = n
    BY <1>13 DEF MethodOf
  <2> QED
    BY <2>1, <2>2, <2>3
<1>14. CASE n = "simulatePriceVolatility"
  <2>1. WellFormed(OracleMethods[n])
    BY <1>14, Shapes, MethodIs DEF OracleMethods
  <2>2. OracleMethods[n].rpc = "simulatepricevolatility"
    BY <1>14, MethodIs DEF OracleMethods
  <2>3. MethodOf["simulatepricevolatility"] = n
    BY <1>14 DEF MethodOf
  <2> QED
    BY <2>1, <2>2, <2>3
<1> QED
  BY <1>0, <1>1, <1>2, <1>3, <1>4, <1>5, <1>6, <1>7, <1>8, <1>9, <1>10, <1>11, <1>12,
     <1>13, <1>14

(* ... balances, ...                                                        *)
LEMMA BalanceMethodsFit == Fit(BalanceMethods)
<1> SUFFICES ASSUME NEW n \in DOMAIN BalanceMethods
             PROVE  /\ WellFormed(BalanceMethods[n])
                    /\ MethodOf[BalanceMethods[n].rpc] = n
  BY DEF Fit
<1>0. n \in {"getBalance"}
  BY DEF BalanceMethods
<1>1. CASE n = "getBalance"
  <2>1. WellFormed(BalanceMethods[n])
    BY <1>1, LongShapes, MethodIs DEF BalanceMethods
  <2>2. BalanceMethods[n].rpc = "getdigidollarbalance"
    BY <1>1, MethodIs DEF BalanceMethods
  <2>3. MethodOf["getdigidollarbalance"] = n
    BY <1>1 DEF MethodOf
  <2> QED
    BY <2>1, <2>2, <2>3
<1> QED
  BY <1>0, <1>1

(* ... transactions, ...                                                    *)
LEMMA TransactionMethodsFit == Fit(TransactionMethods)
<1> SUFFICES ASSUME NEW n \in DOMAIN TransactionMethods
             PROVE  /\ WellFormed(TransactionMethods[n])
                    /\ MethodOf[TransactionMethods[n].rpc] = n
  BY DEF Fit
<1>0. n \in {"mint", "send", "redeem", "listTransactions"}
  BY DEF TransactionMethods
<1>1. CASE n = "mint"
  <2>1. WellFormed(TransactionMethods[n])
    BY <1>1, Shapes, MethodIs DEF TransactionMethods
  <2>2. TransactionMethods[n].rpc = "mintdigidollar"
    BY <1>1, MethodIs DEF TransactionMethods
  <2>3. MethodOf["mintdigidollar"] = n
    BY <1>1 DEF MethodOf
  <2> QED
    BY <2>1, <2>2, <2>3
<1>2. CASE n = "send"
  <2>1. WellFormed(TransactionMethods[n])
    BY <1>2, LongShapes, MethodIs DEF TransactionMethods
  <2>2. TransactionMethods[n].rpc = "senddigidollar"
    BY <1>2, MethodIs DEF TransactionMethods
  <2>3. MethodOf["senddigidollar"] = n
    BY <1>2 DEF MethodOf
  <2> QED
    BY <2>1, <2>2, <2>3
<1>3. CASE n = "redeem"
  <2>1. WellFormed(TransactionMethods[n])
    BY <1>3, LongShapes, MethodIs DEF TransactionMethods
  <2>2. TransactionMethods[n].rpc = "redeemdigidollar"
    BY <1>3, MethodIs DEF TransactionMethods
  <2>3. MethodOf["redeemdigidollar"] = n
    BY <1>3 DEF MethodOf
  <2> QED
    BY <2>1, <2>2, <2>3
<1>4. CASE n = "listTransactions"
  <2>1. WellFormed(TransactionMethods[n])
    BY <1>4, LongShapes, MethodIs DEF TransactionMethods
  <2>2. TransactionMethods[n].rpc = "listdigidollartxs"
    BY <1>4, MethodIs DEF TransactionMethods
  <2>3. MethodOf["listdigidollartxs"] = n
    BY <1>4 DEF MethodOf
  <2> QED
    BY <2>1, <2>2, <2>3
<1> QED
  BY <1>0, <1>1, <1>2, <1>3, <1>4

(* ... positions, ...                                                       *)
LEMMA PositionMethodsFit == Fit(PositionMethods)
<1> SUFFICES ASSUME NEW n \in DOMAIN PositionMethods
             PROVE  /\ WellFormed(PositionMethods[n])
                    /\ MethodOf[PositionMethods[n].rpc] = n
  BY DEF Fit
<1>0. n \in {"listPositions", "getRedemptionInfo", "calculateCollateral",
            "estimateCollateral"}
  BY DEF PositionMethods
<1>1. CASE n = "listPositions"
  <2>1. WellFormed(PositionMethods[n])
    BY <1>1, LongShapes, MethodIs DEF PositionMethods
  <2>2. PositionMethods[n].rpc = "listdigidollarpositions"
    BY <1>1, MethodIs DEF PositionMethods
  <2>3. MethodOf["listdigidollarpositions"] = n
    BY <1>1 DEF MethodOf
  <2> QED
    BY <2>1, <2>2, <2>3
<1>2. CASE n = "getRedemptionInfo"
  <2>1. WellFormed(PositionMethods[n])
    BY <1>2, Shapes, MethodIs DEF PositionMethods
  <2>2. PositionMethods[n].rpc = "getredemptioninfo"
    BY <1>2, MethodIs DEF PositionMethods
  <2>3. MethodOf["getredemptioninfo"] = n
    BY <1>2 DEF MethodOf
  <2> QED
    BY <2>1, <2>2, <2>3
<1>3. CASE n = "calculateCollateral"
  <2>1. WellFormed(PositionMethods[n])
    BY <1>3, Shapes, MethodIs DEF PositionMethods
  <2>2. PositionMethods[n].rpc = "calculatecollateralrequirement"
    BY <1>3, MethodIs DEF PositionMethods
  <2>3. MethodOf["calculatecollateralrequirement"] = n
    BY <1>3 DEF MethodOf
  <2> QED
    BY <2>1, <2>2, <2>3
<1>4. CASE n = "estimateCollateral"
  <2>1. WellFormed(PositionMethods[n])
    BY <1>4, Shapes, MethodIs DEF PositionMethods
  <2>2. PositionMethods[n].rpc = "estimatecollateral"
    BY <1>4, MethodIs DEF PositionMethods
  <2>3. MethodOf["estimatecollateral"] = n
    BY <1>4 DEF MethodOf
  <2> QED
    BY <2>1, <2>2, <2>3
<1> QED
  BY <1>0, <1>1, <1>2, <1>3, <1>4

(* ... the wallet, ...                                                      *)
LEMMA WalletMethodsFit == Fit(WalletMethods)
<1> SUFFICES ASSUME NEW n \in DOMAIN WalletMethods
             PROVE  /\ WellFormed(WalletMethods[n])
                    /\ MethodOf[WalletMethods[n].rpc] = n
  BY DEF Fit
<1>0. n \in {"getAddress", "validateAddress", "listAddresses", "importAddress"}
  BY DEF WalletMethods
<1>1. CASE n = "getAddress"
  <2>1. WellFormed(WalletMethods[n])
    BY <1>1, Shapes, MethodIs DEF WalletMethods
  <2>2. WalletMethods[n].rpc = "getdigidollaraddress"
    BY <1>1, MethodIs DEF WalletMethods
  <2>3. MethodOf["getdigidollaraddress"] = n
    BY <1>1 DEF MethodOf
  <2> QED
    BY <2>1, <2>2, <2>3
<1>2. CASE n = "validateAddress"
  <2>1. WellFormed(WalletMethods[n])
    BY <1>2, Shapes, MethodIs DEF WalletMethods
  <2>2. WalletMethods[n].rpc = "validateddaddress"
    BY <1>2, MethodIs DEF WalletMethods
  <2>3. MethodOf["validateddaddress"] = n
    BY <1>2 DEF MethodOf
  <2> QED
    BY <2>1, <2>2, <2>3
<1>3. CASE n = "listAddresses"
  <2>1. WellFormed(WalletMethods[n])
    BY <1>3, LongShapes, MethodIs DEF WalletMethods
  <2>2. WalletMethods[n].rpc = "listdigidollaraddresses"
    BY <1>3, MethodIs DEF WalletMethods
  <2>3. MethodOf["listdigidollaraddresses"] = n
    BY <1>3 DEF MethodOf
  <2> QED
    BY <2>1, <2>2, <2>3
<1>4. CASE n = "importAddress"
  <2>1. WellFormed(WalletMethods[n])
    BY <1>4, LongShapes, MethodIs DEF WalletMethods
  <2>2. WalletMethods[n].rpc = "importdigidollaraddress"
    BY <1>4, MethodIs DEF WalletMethods
  <2>3. MethodOf["importdigidollaraddress"] = n
    BY <1>4 DEF MethodOf
  <2> QED
    BY <2>1, <2>2, <2>3
<1> QED
  BY <1>0, <1>1, <1>2, <1>3, <1>4

(* ... the system, ...                                                      *)
LEMMA SystemMethodsFit == Fit(SystemMethods)
<1> SUFFICES ASSUME NEW n \in DOMAIN SystemMethods
             PROVE  /\ WellFormed(SystemMethods[n])
                    /\ MethodOf[SystemMethods[n].rpc] = n
  BY DEF Fit
<1>0. n \in {"getStats", "getDcaMultiplier", "getDeploymentInfo", "getProtectionStatus"}
  BY DEF SystemMethods
<1>1. CASE n = "getStats"
  <2>1. WellFormed(SystemMethods[n])
    BY <1>1, Shapes, MethodIs DEF SystemMethods
  <2>2. SystemMethods[n].rpc = "getdigidollarstats"
    BY <1>1, MethodIs DEF SystemMethods
  <2>3. MethodOf["getdigidollarstats"] = n
    BY <1>1 DEF MethodOf
  <2> QED
    BY <2>1, <2>2, <2>3
<1>2. CASE n = "getDcaMultiplier"
  <2>1. WellFormed(SystemMethods[n])
    BY <1>2, Shapes, MethodIs DEF SystemMethods
  <2>2. SystemMethods[n].rpc = "getdcamultiplier"
    BY <1>2, MethodIs DEF SystemMethods
  <2>3. MethodOf["getdcamultiplier"] = n
    BY <1>2 DEF MethodOf
  <2> QED
    BY <2>1, <2>2, <2>3
<1>3. CASE n = "getDeploymentInfo"
  <2>1. WellFormed(SystemMethods[n])
    BY <1>3, Shapes, MethodIs DEF SystemMethods
  <2>2. SystemMethods[n].rpc = "getdigidollardeploymentinfo"
    BY <1>3, MethodIs DEF SystemMethods
  <2>3. MethodOf["getdigidollardeploymentinfo"] = n
    BY <1>3 DEF MethodOf
  <2> QED
    BY <2>1, <2>2, <2>3
<1>4. CASE n = "getProtectionStatus"
  <2>1. WellFormed(SystemMethods[n])
    BY <1>4, Shapes, MethodIs DEF SystemMethods
  <2>2. SystemMethods[n].rpc = "getprotectionstatus"
    BY <1>4, MethodIs DEF SystemMethods
  <2>3. MethodOf["getprotectionstatus"] = n
    BY <1>4 DEF MethodOf
  <2> QED
    BY <2>1, <2>2, <2>3
<1> QED
  BY <1>0, <1>1, <1>2, <1>3, <1>4

(* ... and the chain.                                                       *)
LEMMA BlockchainMethodsFit == Fit(BlockchainMethods)
<1> SUFFICES ASSUME NEW n \in DOMAIN BlockchainMethods
             PROVE  /\ WellFormed(BlockchainMethods[n])
                    /\ MethodOf[BlockchainMethods[n].rpc] = n
  BY DEF Fit
<1>0. n \in {"listUnspent", "getRawTransaction", "sendRawTransaction", "getBlockCount"}
  BY DEF BlockchainMethods
<1>1. CASE n = "listUnspent"
  <2>1. WellFormed(BlockchainMethods[n])
    BY <1>1, LongShapes, MethodIs DEF BlockchainMethods
  <2>2. BlockchainMethods[n].rpc = "listunspent"
    BY <1>1, MethodIs DEF BlockchainMethods
  <2>3. MethodOf["listunspent"] = n
    BY <1>1 DEF MethodOf
  <2> QED
    BY <2>1, <2>2, <2>3
<1>2. CASE n = "getRawTransaction"
  <2>1. WellFormed(BlockchainMethods[n])
    BY <1>2, Shapes, MethodIs DEF BlockchainMethods
  <2>2. BlockchainMethods[n].rpc = "getrawtransaction"
    BY <1>2, MethodIs DEF BlockchainMethods
  <2>3. MethodOf["getrawtransaction"] = n
    BY <1>2 DEF MethodOf
  <2> QED
    BY <2>1, <2>2, <2>3
<1>3. CASE n = "sendRawTransaction"
  <2>1. WellFormed(BlockchainMethods[n])
    BY <1>3, Shapes, MethodIs DEF BlockchainMethods
  <2>2. BlockchainMethods[n].rpc = "sendrawtransaction"
    BY <1>3, MethodIs DEF BlockchainMethods
  <2>3. MethodOf["sendrawtransaction"] = n
    BY <1>3 DEF MethodOf
  <2> QED
    BY <2>1, <2>2, <2>3
<1>4. CASE n = "getBlockCount"
  <2>1. WellFormed(BlockchainMethods[n])
    BY <1>4, Shapes, MethodIs DEF BlockchainMethods
  <2>2. BlockchainMethods[n].rpc = "getblockcount"
    BY <1>4, MethodIs DEF BlockchainMethods
  <2>3. MethodOf["getblockcount"] = n
    BY <1>4 DEF MethodOf
  <2> QED
    BY <2>1, <2>2, <2>3
<1> QED
  BY <1>0, <1>1, <1>2, <1>3, <1>4

(* A group that is added to others, ...                                     *)
LEMMA AssignFits ==
  ASSUME NEW client, NEW methods, Fit(client), Fit(methods)
  PROVE  Fit(Assign(client, methods))
<1> SUFFICES ASSUME NEW n \in DOMAIN Assign(client, methods)
             PROVE  /\ WellFormed(Assign(client, methods)[n])
                    /\ MethodOf[Assign(client, methods)[n].rpc] = n
  BY DEF Fit
<1>1. \/ n \in DOMAIN client /\ Assign(client, methods)[n] = client[n]
      \/ n \in DOMAIN methods /\ Assign(client, methods)[n] = methods[n]
  BY DEF Assign
<1> QED
  BY <1>1 DEF Fit

(* ... and all of them.                                                     *)
LEMMA MethodsFit == Fit(DigiDollarRPC)
<1>1. PICK two : two = Assign(OracleMethods, BalanceMethods)
  OBVIOUS
<1>2. PICK three : three = Assign(two, TransactionMethods)
  OBVIOUS
<1>3. PICK four : four = Assign(three, PositionMethods)
  OBVIOUS
<1>4. PICK five : five = Assign(four, WalletMethods)
  OBVIOUS
<1>5. PICK six : six = Assign(five, SystemMethods)
  OBVIOUS
<1>6. Fit(two)
  BY <1>1, OracleMethodsFit, BalanceMethodsFit, AssignFits
<1>7. Fit(three)
  BY <1>2, <1>6, TransactionMethodsFit, AssignFits
<1>8. Fit(four)
  BY <1>3, <1>7, PositionMethodsFit, AssignFits
<1>9. Fit(five)
  BY <1>4, <1>8, WalletMethodsFit, AssignFits
<1>10. Fit(six)
  BY <1>5, <1>9, SystemMethodsFit, AssignFits
<1>11. Fit(Assign(six, BlockchainMethods))
  BY <1>10, BlockchainMethodsFit, AssignFits
<1> QED
  BY <1>1, <1>2, <1>3, <1>4, <1>5, <1>11, Zenon DEF DigiDollarRPC

----------------------------------------------------------------------------
(* There is one concatenation of strings, so that one that is at hand is    *)
(* FlattenSeq's.                                                            *)
LEMMA FlattenedBy ==
  ASSUME NEW s, Len(s) \in Nat \ {0}, NEW f, FlattenBy(f, s, Len(s))
  PROVE  FlattenSeq(s) = f[Len(s)]
<1> DEFINE n == Len(s)
           g == CHOOSE h : FlattenBy(h, s, n)
           T == {k \in Nat : k + 1 \in 1 .. n => g[k + 1] = f[k + 1]}
<1>1. FlattenBy(g, s, n)
  OBVIOUS
<1>2. FlattenSeq(s) = g[n]
  BY DEF FlattenSeq, FlattenBy
<1>3. \A i \in 1 .. n : /\ f[i] = IF i = 1 THEN s[i] ELSE f[i - 1] \o s[i]
                        /\ g[i] = IF i = 1 THEN s[i] ELSE g[i - 1] \o s[i]
  <2> HIDE DEF n, g
  <2> QED
    BY <1>1 DEF FlattenBy, n
<1> HIDE DEF g
<1>4. 0 \in T
  BY <1>3
<1>5. ASSUME NEW k \in T \cap Nat PROVE k + 1 \in T
  <2> SUFFICES ASSUME k + 2 \in 1 .. n PROVE g[k + 2] = f[k + 2]
    OBVIOUS
  <2>1. (k + 2) - 1 = k + 1 /\ k + 2 # 1 /\ k + 1 \in 1 .. n
    OBVIOUS
  <2>2. g[k + 1] = f[k + 1]
    BY <2>1
  <2> QED
    BY <1>3, <2>1, <2>2
<1>6. Nat \subseteq T
  <2> HIDE DEF T
  <2> QED
    BY <1>4, <1>5, NumbersInduction
<1>7. n - 1 \in T /\ (n - 1) + 1 = n /\ n \in 1 .. n
  BY <1>6
<1> QED
  BY <1>2, <1>7

(* One argument more.                                                       *)
LEMMA OneMore ==
  ASSUME NEW a, NEW k \in Nat
  PROVE  [j \in 1 .. k + 1 |-> a[j]] = [j \in 1 .. k |-> a[j]] \o <<a[k + 1]>>
OBVIOUS

(* Strings of one up to a place and empty after it ...                      *)
Singles(s, n, m, a) ==
  /\ n \in Nat /\ Len(s) = n /\ (n = 0 => s = << >>) /\ m \in 0 .. n
  /\ \A i \in 1 .. n : s[i] = IF i <= m THEN <<a[i]>> ELSE << >>

(* ... are concatenated to as many as the place says.                       *)
LEMMA SinglesJoin ==
  ASSUME NEW n, NEW s, NEW m, NEW a, Singles(s, n, m, a)
  PROVE  FlattenSeq(s) = [j \in 1 .. m |-> a[j]]
<1>0. /\ n \in Nat /\ Len(s) = n /\ (n = 0 => s = << >>) /\ m \in 0 .. n
      /\ \A i \in 1 .. n : s[i] = IF i <= m THEN <<a[i]>> ELSE << >>
  BY DEF Singles
<1> DEFINE f == [i \in 1 .. n |-> [j \in 1 .. (IF i <= m THEN i ELSE m) |-> a[j]]]
<1>1. CASE n = 0
  BY <1>0, <1>1 DEF FlattenSeq
<1>2. CASE n # 0
  <2>1. \A i \in 1 .. n : f[i] = IF i = 1 THEN s[i] ELSE f[i - 1] \o s[i]
    <3> SUFFICES ASSUME NEW i \in 1 .. n
                 PROVE  f[i] = IF i = 1 THEN s[i] ELSE f[i - 1] \o s[i]
      BY <1>0
    <3>1. CASE i <= m
      <4>1. f[i] = [j \in 1 .. i |-> a[j]] /\ s[i] = <<a[i]>>
        BY <1>0, <3>1
      <4>2. f[i] = [j \in 1 .. i - 1 |-> a[j]] \o <<a[i]>>
        <5>1. i - 1 \in Nat /\ (i - 1) + 1 = i
          BY <1>0
        <5> QED
          BY <4>1, <5>1, OneMore, ZenonT(60)
      <4>3. CASE i = 1
        BY <4>1, <4>3
      <4>4. CASE i # 1
        <5>1. f[i - 1] = [j \in 1 .. i - 1 |-> a[j]]
          BY <1>0, <3>1, <4>4
        <5> QED
          BY <4>1, <4>2, <4>4, <5>1
      <4> QED
        BY <4>3, <4>4
    <3>2. CASE i > m
      <4>1. f[i] = [j \in 1 .. m |-> a[j]] /\ s[i] = << >>
        BY <1>0, <3>2
      <4>2. CASE i = 1
        <5>1. m = 0
          BY <1>0, <3>2, <4>2
        <5> QED
          BY <4>1, <4>2, <5>1
      <4>3. CASE i # 1
        <5>1. i - 1 \in 1 .. n /\ (i - 1 <= m => i - 1 = m)
          BY <1>0, <3>2, <4>3
        <5>2. f[i - 1] = [j \in 1 .. (IF i - 1 <= m THEN i - 1 ELSE m) |-> a[j]]
          BY <1>0, <5>1
        <5>3. f[i - 1] = [j \in 1 .. m |-> a[j]]
          BY <5>1, <5>2
        <5>4. [j \in 1 .. m |-> a[j]] \o << >> = [j \in 1 .. m |-> a[j]]
          BY <1>0
        <5> QED
          BY <1>0, <4>1, <4>3, <5>3, <5>4
      <4> QED
        BY <4>2, <4>3
    <3> QED
      BY <1>0, <3>1, <3>2
  <2>2. f = [i \in 1 .. n |-> f[i]]
    BY <1>0
  <2>3. f[n] = [j \in 1 .. m |-> a[j]]
    <3>1. f[n] = [j \in 1 .. (IF n <= m THEN n ELSE m) |-> a[j]]
      BY <1>0, <1>2
    <3>2. n <= m => n = m
      BY <1>0
    <3> QED
      BY <3>1, <3>2
  <2> HIDE DEF f
  <2>4. FlattenBy(f, s, n)
    BY <2>1, <2>2, Zenon DEF FlattenBy
  <2> QED
    BY <1>0, <1>2, <2>3, <2>4, FlattenedBy
<1> QED
  BY <1>1, <1>2

(* What is sent of the optional parameters: those up to the last given.     *)
Filler(optional, given) ==
  [i \in DOMAIN optional |->
     IF optional[i].name \in given THEN Given(optional[i].name)
     ELSE Placeholder(optional[i].placeholder)]

LastGiven(optional, given, m) ==
  \A i \in DOMAIN optional :
    i <= m <=> \E j \in DOMAIN optional : i <= j /\ optional[j].name \in given

(* There is a last one given, or none is.                                   *)
LEMMA LastGivenExists ==
  ASSUME NEW optional, NEW n \in Nat, DOMAIN optional = 1 .. n, NEW given
  PROVE  \E m \in 0 .. n : LastGiven(optional, given, m)
<1> DEFINE Before(i) == \E j \in DOMAIN optional : i <= j /\ optional[j].name \in given
           T == {k \in Nat : ~ Before(k + 1)}
<1>1. n \in T
  OBVIOUS
<1>2. PICK m \in T : \A k \in T : m <= k
  <2>1. T \subseteq Nat /\ T # {}
    BY <1>1
  <2> HIDE DEF T
  <2> QED
    BY <2>1, LeastNumber
<1>3. m \in 0 .. n
  BY <1>1, <1>2
<1>4. ASSUME NEW i \in 1 .. n PROVE i <= m <=> Before(i)
  <2>1. ASSUME i <= m PROVE Before(i)
    <3>1. i - 1 \in Nat /\ (i - 1) + 1 = i
      OBVIOUS
    <3>2. i - 1 \notin T
      <4> HIDE DEF T
      <4> QED
        BY <1>2, <1>3, <2>1
    <3>3. Before((i - 1) + 1)
      BY <3>1, <3>2
    <3> QED
      BY <3>1, <3>3
  <2>2. ASSUME Before(i) PROVE i <= m
    <3>1. ~ Before(m + 1)
      BY <1>2
    <3> QED
      BY <2>2, <3>1
  <2> QED
    BY <2>1, <2>2
<1> QED
  BY <1>3, <1>4 DEF LastGiven

(* The arguments that are pushed for optional parameters: one for each up to*)
(* the last that is given, and none behind it.                              *)
LEMMA PushedAre ==
  ASSUME NEW required, NEW optional, InOrder(required, optional), NEW given,
         NEW m \in 0 .. Len(optional), LastGiven(optional, given, m)
  PROVE  FlattenSeq([i \in DOMAIN optional |-> Pushes(optional[i], given)])
           = [j \in 1 .. m |-> Filler(optional, given)[j]]
<1> DEFINE n == Len(optional)
           s == [i \in DOMAIN optional |-> Pushes(optional[i], given)]
           a == Filler(optional, given)
<1>1. n \in Nat /\ DOMAIN optional = 1 .. n
  BY DEF InOrder
<1>2. Len(s) = n /\ (n = 0 => s = << >>)
  BY <1>1
<1>3. ASSUME NEW i \in 1 .. n
      PROVE  s[i] = IF i <= m THEN <<a[i]>> ELSE << >>
  <2>1. s[i] = Pushes(optional[i], given)
    BY <1>1
  <2>2. a[i] = IF optional[i].name \in given THEN Given(optional[i].name)
               ELSE Placeholder(optional[i].placeholder)
    BY <1>1 DEF Filler
  <2>3. CASE optional[i].name \in given
    <3>1. i <= m
      BY <1>1, <2>3 DEF LastGiven
    <3>2. s[i] = <<Given(optional[i].name)>>
      BY <2>1, <2>3, Zenon DEF Pushes
    <3> QED
      BY <2>2, <2>3, <3>1, <3>2
  <2>4. CASE optional[i].name \notin given
    <3>1. i <= m <=> optional[i].later \cap given # {}
      <4>1. i <= m <=> \E j \in DOMAIN optional : i <= j /\ optional[j].name \in given
        BY <1>1 DEF LastGiven
      <4>2. \A name : name \in optional[i].later
                        <=> \E j \in DOMAIN optional : i < j /\ name = optional[j].name
        BY <1>1 DEF InOrder
      <4>3. \A j \in DOMAIN optional : optional[j].name \in given => (i <= j <=> i < j)
        BY <1>1, <2>4
      <4> QED
        BY <4>1, <4>2, <4>3
    <3>2. s[i] = IF optional[i].later \cap given # {}
                 THEN <<Placeholder(optional[i].placeholder)>> ELSE << >>
      BY <2>1, <2>4, Zenon DEF Pushes
    <3> QED
      BY <2>2, <2>4, <3>1, <3>2
  <2> QED
    BY <2>3, <2>4
<1>4. m \in 0 .. n
  OBVIOUS
<1> HIDE DEF n, s, a
<1>5. FlattenSeq(s) = [j \in 1 .. m |-> a[j]]
  <2>1. Singles(s, n, m, a)
    BY <1>1, <1>2, <1>3, <1>4, Zenon DEF Singles
  <2> QED
    BY <2>1, SinglesJoin
<1> QED
  BY <1>5 DEF s, a

(* A list of a length, and two put together.                                *)
IsList(s, n) == n \in Nat /\ s = [i \in 1 .. n |-> s[i]]

Joined(list, s, t, n, m) ==
  /\ Len(list) = n + m /\ DOMAIN list = 1 .. n + m
  /\ \A i \in 1 .. n : list[i] = s[i]
  /\ \A k \in 1 .. m : list[n + k] = t[k]

(* A concatenation has the members of its parts in their order.             *)
LEMMA JoinedAre ==
  ASSUME NEW s, NEW t, NEW n, NEW m, IsList(s, n), IsList(t, m)
  PROVE  Joined(s \o t, s, t, n, m)
<1> DEFINE V == {s[i] : i \in 1 .. n} \cup {t[i] : i \in 1 .. m}
<1>1. s \in Seq(V) /\ Len(s) = n /\ t \in Seq(V) /\ Len(t) = m /\ n \in Nat /\ m \in Nat
  <2>1. s \in Seq(V) /\ Len(s) = n
    BY DEF IsList
  <2>2. t \in Seq(V) /\ Len(t) = m
    BY DEF IsList
  <2> QED
    BY <2>1, <2>2 DEF IsList
<1> HIDE DEF V
<1>2. Len(s \o t) = n + m /\ DOMAIN (s \o t) = 1 .. n + m
  BY <1>1
<1>3. \A i \in 1 .. n : (s \o t)[i] = s[i]
  BY <1>1
<1>4. \A k \in 1 .. m : (s \o t)[n + k] = t[k]
  BY <1>1
<1> QED
  BY <1>2, <1>3, <1>4 DEF Joined

(* The arguments of a method whose parameters are in order.                 *)
LEMMA ArgumentsFind ==
  ASSUME NEW method, WellFormed(method), NEW given
  PROVE  LET names  == Parameters(method)
             params == Call(method, given).params
             sent   == Required(method) \cup given
         IN  /\ Len(params) <= Len(names)
             /\ \A i \in DOMAIN names :
                  /\ names[i] \in sent <=> i \in DOMAIN params /\ params[i] = Given(names[i])
                  /\ i \in DOMAIN params => \E j \in i .. Len(names) : names[j] \in sent
<1> DEFINE r == Len(method.required)
           n == Len(method.optional)
           names == Parameters(method)
           params == Call(method, given).params
           sent == Required(method) \cup given
           a == Filler(method.optional, given)
           must == [i \in DOMAIN method.required |-> Given(method.required[i])]
           may == [i \in DOMAIN method.optional |-> method.optional[i].name]
<1>1. /\ r \in Nat /\ DOMAIN method.required = 1 .. r
      /\ n \in Nat /\ DOMAIN method.optional = 1 .. n
  BY DEF WellFormed, InOrder
<1>2. PICK m \in 0 .. n : LastGiven(method.optional, given, m)
  BY <1>1, LastGivenExists
<1> DEFINE tail == [j \in 1 .. m |-> a[j]]
<1>3. params = must \o tail
  <2>1. FlattenSeq([i \in DOMAIN method.optional |->
                      Pushes(method.optional[i], given)]) = tail
    BY <1>2, PushedAre DEF WellFormed
  <2> QED
    BY <2>1 DEF Call
<1>4. /\ Len(params) = r + m /\ DOMAIN params = 1 .. r + m
      /\ \A i \in 1 .. r : params[i] = Given(method.required[i])
      /\ \A k \in 1 .. m : params[r + k] = a[k]
  <2>1. IsList(must, r) /\ \A i \in 1 .. r : must[i] = Given(method.required[i])
    BY <1>1 DEF IsList
  <2>2. IsList(tail, m) /\ \A k \in 1 .. m : tail[k] = a[k]
    BY <1>1 DEF IsList
  <2> HIDE DEF must, tail, params, a, r, n
  <2>3. Joined(params, must, tail, r, m)
    BY <1>3, <2>1, <2>2, JoinedAre, Zenon
  <2> QED
    BY <2>1, <2>2, <2>3 DEF Joined
<1>5. /\ Len(names) = r + n /\ DOMAIN names = 1 .. r + n
      /\ \A i \in 1 .. r : names[i] = method.required[i]
      /\ \A k \in 1 .. n : names[r + k] = method.optional[k].name
  <2>1. IsList(may, n) /\ \A k \in 1 .. n : may[k] = method.optional[k].name
    BY <1>1 DEF IsList
  <2>2. names = method.required \o may
    BY DEF Parameters
  <2>3. IsList(method.required, r)
    BY DEF IsList, WellFormed, InOrder
  <2> HIDE DEF may, names, n, r
  <2>4. Joined(names, method.required, may, r, n)
    BY <2>1, <2>2, <2>3, JoinedAre, Zenon
  <2> QED
    BY <2>1, <2>4 DEF Joined
<1>6. \A i \in 1 .. r : method.required[i] \in sent
  BY <1>1 DEF Required, ToSet
<1>7. \A k \in 1 .. n : method.optional[k].name \in sent <=> method.optional[k].name \in given
  BY <1>1 DEF WellFormed, InOrder, Required
<1>8. ASSUME NEW k \in 1 .. n
      PROVE  /\ method.optional[k].name \in given
                  <=> k <= m /\ a[k] = Given(method.optional[k].name)
             /\ k <= m => \E j \in k .. n : method.optional[j].name \in given
  <2>1. a[k] = IF method.optional[k].name \in given THEN Given(method.optional[k].name)
               ELSE Placeholder(method.optional[k].placeholder)
    BY <1>1 DEF Filler
  <2>2. k <= m <=> \E j \in 1 .. n : k <= j /\ method.optional[j].name \in given
    BY <1>1, <1>2 DEF LastGiven
  <2>3. \A x, y : Given(x) # Placeholder(y)
    BY DEF Given, Placeholder
  <2> HIDE DEF a, n
  <2> QED
    BY <1>1, <2>1, <2>2, <2>3
<1> HIDE DEF r, n, names, params, sent, a
<1>9. ASSUME NEW i \in DOMAIN names
      PROVE  /\ names[i] \in sent <=> i \in DOMAIN params /\ params[i] = Given(names[i])
             /\ i \in DOMAIN params => \E j \in i .. Len(names) : names[j] \in sent
  <2>1. CASE i <= r
    <3>1. i \in 1 .. r
      BY <1>1, <1>5, <2>1
    <3>2. names[i] \in sent /\ i \in DOMAIN params /\ params[i] = Given(names[i])
      BY <1>1, <1>4, <1>5, <1>6, <3>1
    <3>3. i \in i .. Len(names)
      BY <1>1, <1>5, <3>1
    <3> QED
      BY <3>2, <3>3
  <2>2. CASE i > r
    <3>1. PICK k \in 1 .. n : i = r + k
      <4>1. i - r \in 1 .. n /\ i = r + (i - r)
        BY <1>1, <1>5, <2>2
      <4> QED
        BY <4>1
    <3>2. names[i] = method.optional[k].name
      BY <1>5, <3>1
    <3>3. i \in DOMAIN params <=> k <= m
      BY <1>1, <1>2, <1>4, <3>1
    <3>4. k <= m => params[i] = a[k]
      BY <1>4, <3>1
    <3>5. names[i] \in sent <=> i \in DOMAIN params /\ params[i] = Given(names[i])
      BY <1>7, <1>8, <3>1, <3>2, <3>3, <3>4
    <3>6. ASSUME i \in DOMAIN params PROVE \E j \in i .. Len(names) : names[j] \in sent
      <4>1. PICK j \in k .. n : method.optional[j].name \in given
        BY <1>8, <3>3, <3>6
      <4>2. j \in 1 .. n /\ r + j \in i .. Len(names)
        BY <1>1, <1>5, <3>1
      <4>3. names[r + j] \in sent
        BY <1>5, <1>7, <4>1, <4>2
      <4> QED
        BY <4>2, <4>3
    <3> QED
      BY <3>5, <3>6
  <2> QED
    BY <1>1, <1>5, <2>1, <2>2
<1>10. Len(params) <= Len(names)
  BY <1>1, <1>2, <1>4, <1>5
<1> QED
  BY <1>9, <1>10 DEF names, params, sent

(* No two methods are one RPC.                                              *)
LEMMA MethodsApart ==
  ASSUME NEW n \in DOMAIN DigiDollarRPC, NEW other \in DOMAIN DigiDollarRPC,
         DigiDollarRPC[other].rpc = DigiDollarRPC[n].rpc
  PROVE  other = n
BY MethodsFit DEF Fit

(* Every argument that is given to a method of DigiDollarRPC arrives at its *)
(* own position, whichever others are given, none arrives that was not, and *)
(* no two methods call one RPC.                                             *)
THEOREM ArgumentsReach == Spec => []ArgumentsArrive
<1> DEFINE Inv == Sampled("rpc")
<1>1. Init => Inv
  BY SampledInit
<1>2. Inv /\ [Next]_sample => Inv'
  BY SampledStep
<1>3. Inv => ArgumentsArrive
  <2> SUFFICES ASSUME Inv, Is("rpc") PROVE ArgumentsArrive
    BY DEF ArgumentsArrive
  <2>1. item.name \in DOMAIN DigiDollarRPC
    BY CallsAssumption DEF Sampled
  <2>2. WellFormed(DigiDollarRPC[item.name])
    BY <2>1, MethodsFit DEF Fit
  <2>3. \A other \in DOMAIN DigiDollarRPC :
          DigiDollarRPC[other].rpc = DigiDollarRPC[item.name].rpc => other = item.name
    BY <2>1, MethodsApart
  <2>4. LET method == DigiDollarRPC[item.name]
            names  == Parameters(method)
            params == Call(method, item.given).params
            sent   == Required(method) \cup item.given
        IN  /\ Len(params) <= Len(names)
            /\ \A i \in DOMAIN names :
                 /\ names[i] \in sent <=> i \in DOMAIN params /\ params[i] = Given(names[i])
                 /\ i \in DOMAIN params => \E j \in i .. Len(names) : names[j] \in sent
    BY <2>2, ArgumentsFind
  <2> QED
    BY <2>3, <2>4, Zenon DEF ArgumentsArrive
<1> QED
  BY <1>1, <1>2, <1>3, PTL DEF Spec
=============================================================================
