---------------------------- MODULE AmountProofs ----------------------------
(***************************************************************************)
(* The arithmetic of amounts, for all of them: estimates cover the sizes   *)
(* of transactions with any number of inputs and tokens, fees are paid for *)
(* them and not much more, selection takes as few coins as can do, the     *)
(* conversions agree at any price, and doubles keep every amount they have *)
(* the digits for.                                                         *)
(***************************************************************************)
EXTENDS AmountProperties, BuilderProofs

(* Division by a positive number, without \div.                             *)
LEMMA Division ==
  ASSUME NEW a \in Nat, NEW b \in Nat \ {0}
  PROVE  /\ a \div b \in Nat
         /\ \E r \in 0 .. b - 1 : a = b * (a \div b) + r
<1>1. a \div b \in Nat
  BY SMT
<1>2. (a % b) \in 0 .. b - 1 /\ a = b * (a \div b) + (a % b)
  BY SMT
<1> QED
  BY <1>1, <1>2

(* Math.ceil never rounds down.                                             *)
LEMMA CeilingIsAbove ==
  ASSUME NEW a \in Nat, NEW b \in Nat \ {0}
  PROVE  CeilDiv(a, b) \in Nat /\ b * CeilDiv(a, b) >= a
<1> DEFINE q == (a + b - 1) \div b
<1>1. a + b - 1 \in Nat
  OBVIOUS
<1>2. q \in Nat /\ \E r \in 0 .. b - 1 : a + b - 1 = b * q + r
  BY <1>1, Division
<1>3. b * q \in Int
  BY <1>2
<1> QED
  BY <1>2, <1>3 DEF CeilDiv

(* ... and never up by as much as one.                                      *)
LEMMA CeilingIsClose ==
  ASSUME NEW a \in Nat, NEW b \in Nat \ {0}
  PROVE  b * CeilDiv(a, b) < a + b
<1> DEFINE q == (a + b - 1) \div b
<1>1. a + b - 1 \in Nat
  OBVIOUS
<1>2. q \in Nat /\ \E r \in 0 .. b - 1 : a + b - 1 = b * q + r
  BY <1>1, Division
<1>3. b * q \in Int
  BY <1>2
<1> QED
  BY <1>2, <1>3 DEF CeilDiv

(* Whether or not the double next to 1.35 lifts the product.                *)
LEMMA MarginIsKept ==
  ASSUME NEW vsize \in Nat
  PROVE  WithSafetyMargin(vsize) \in Nat /\ 100 * WithSafetyMargin(vsize) >= 135 * vsize
<1> DEFINE product == CeilDiv(vsize * 135, 100)
<1>1. product \in Nat /\ 100 * product >= vsize * 135
  BY CeilingIsAbove, vsize * 135 \in Nat
<1>2. WithSafetyMargin(vsize) \in {product, product + 1}
  BY DEF WithSafetyMargin
<1> QED
  BY <1>1, <1>2

(* The estimate, without its rounding.                                      *)
LEMMA EstimateIsAbove ==
  ASSUME NEW inputs \in Nat, NEW outputs \in Nat, NEW opReturns \in 0 .. outputs
  PROVE  /\ EstimateVsize(inputs, outputs, opReturns) \in Nat
         /\ 400 * EstimateVsize(inputs, outputs, opReturns)
              >= 135 * (48 + 274 * inputs + 172 * (outputs - opReturns) + 276 * opReturns)
<1> DEFINE base   == 12 + inputs * 41 + (outputs - opReturns) * 43 + opReturns * 69
           weight == base * 3 + base + inputs * 110
           vsize  == CeilDiv(weight, 4)
<1>1. weight \in Nat
  OBVIOUS
<1>2. weight = 48 + 274 * inputs + 172 * (outputs - opReturns) + 276 * opReturns
  OBVIOUS
<1>3. vsize \in Nat /\ 4 * vsize >= weight
  BY <1>1, CeilingIsAbove
<1>4. /\ WithSafetyMargin(vsize) \in Nat
      /\ 100 * WithSafetyMargin(vsize) >= 135 * vsize
  BY <1>3, MarginIsKept
<1>5. EstimateVsize(inputs, outputs, opReturns) = WithSafetyMargin(vsize)
  BY DEF EstimateVsize
<1> HIDE DEF vsize, weight
<1> QED
  BY <1>1, <1>2, <1>3, <1>4, <1>5

(* The size, without its rounding and with the longest counts.              *)
LEMMA SizeIsBelow ==
  ASSUME NEW keyPaths \in Nat, NEW scriptPaths \in Nat, NEW p2trs \in Nat,
         NEW metadataOutputs \in Nat, NEW metadata \in Nat
  PROVE  /\ Vsize(keyPaths, scriptPaths, p2trs, metadataOutputs, metadata) \in Nat
         /\ 4 * Vsize(keyPaths, scriptPaths, p2trs, metadataOutputs, metadata)
              <= 109 + 230 * keyPaths + 342 * scriptPaths + 172 * p2trs + 4 * metadata
<1> DEFINE inputs  == keyPaths + scriptPaths
           counts  == CompactSize(inputs) + CompactSize(p2trs + metadataOutputs)
           base    == 8 + CompactSize(inputs) + 41 * inputs
                        + CompactSize(p2trs + metadataOutputs) + 43 * p2trs + metadata
           witness == 2 + KeyPathWitnessSize * keyPaths
                        + ScriptPathWitnessSize * scriptPaths
           weight  == 4 * base + witness
<1>1. \A n \in Nat : CompactSize(n) \in 0 .. 9
  BY DEF CompactSize
<1>2. counts \in 0 .. 18
  BY <1>1
<1>3. weight = 34 + 4 * counts + 230 * keyPaths + 342 * scriptPaths + 172 * p2trs + 4 * metadata
  BY <1>1 DEF KeyPathWitnessSize, ScriptPathWitnessSize
<1>4. weight \in Nat
  BY <1>2, <1>3
<1> HIDE DEF weight
<1>5. CeilDiv(weight, 4) \in Nat /\ 4 * CeilDiv(weight, 4) < weight + 4
  BY <1>4, CeilingIsAbove, CeilingIsClose
<1>6. Vsize(keyPaths, scriptPaths, p2trs, metadataOutputs, metadata) = CeilDiv(weight, 4)
  BY DEF Vsize, weight
<1> HIDE DEF counts
<1> QED
  BY <1>2, <1>3, <1>4, <1>5, <1>6

(* Metadata with a token more than the amounts of the recipients.           *)
LEMMA MetadataIsBelow ==
  ASSUME NEW numbers \in Nat, NEW keys \in Nat
  PROVE  /\ MetadataOutput(MetadataSize(numbers, keys)) \in Nat
         /\ MetadataOutput(MetadataSize(numbers, keys)) <= 23 + 9 * numbers + 33 * keys
<1> DEFINE data == MetadataSize(numbers, keys)
<1>1. data = 6 + 9 * numbers + 33 * keys
  BY DEF MetadataSize
<1>2. CompactSize(data) \in 0 .. 9
  BY DEF CompactSize
<1>3. MetadataOutput(data) = 8 + CompactSize(data) + data
  BY DEF MetadataOutput
<1> HIDE DEF data
<1>4. MetadataOutput(data) \in Nat /\ MetadataOutput(data) <= 23 + 9 * numbers + 33 * keys
  BY <1>1, <1>2, <1>3
<1> QED
  BY <1>4 DEF data

(* What a mint estimates: one token, one key, three numbers.                *)
LEMMA EstimateOfMint ==
  ASSUME NEW n \in Nat
  PROVE  Vsize(n, 0, 3, 1, MetadataOutput(MetadataSize(3, 1))) <= EstimateVsize(n, 4, 1)
<1> DEFINE data     == MetadataOutput(MetadataSize(3, 1))
           size     == Vsize(n, 0, 3, 1, data)
           estimate == EstimateVsize(n, 4, 1)
<1>1. data \in Nat /\ data <= 23 + 9 * 3 + 33 * 1
  BY MetadataIsBelow
<1> HIDE DEF data
<1>2. size \in Nat /\ 4 * size <= 109 + 230 * n + 342 * 0 + 172 * 3 + 4 * data
  BY <1>1, SizeIsBelow
<1>3. estimate \in Nat /\ 400 * estimate >= 135 * (48 + 274 * n + 172 * (4 - 1) + 276 * 1)
  BY 1 \in 0 .. 4, EstimateIsAbove
<1> HIDE DEF size, estimate
<1>4. size <= estimate
  BY <1>1, <1>2, <1>3
<1> QED
  BY <1>4 DEF data, size, estimate

(* What a transfer estimates: an amount for every token.                    *)
LEMMA EstimateOfTransfer ==
  ASSUME NEW n \in Nat, NEW k \in Nat
  PROVE  Vsize(n, 0, k + 1, 1, MetadataOutput(MetadataSize(k, 0)))
           <= EstimateVsize(n, k + 2, 1)
<1> DEFINE data     == MetadataOutput(MetadataSize(k, 0))
           size     == Vsize(n, 0, k + 1, 1, data)
           estimate == EstimateVsize(n, k + 2, 1)
<1>1. data \in Nat /\ data <= 23 + 9 * k + 33 * 0
  BY MetadataIsBelow
<1> HIDE DEF data
<1>2. size \in Nat /\ 4 * size <= 109 + 230 * n + 342 * 0 + 172 * (k + 1) + 4 * data
  BY <1>1, k + 1 \in Nat, SizeIsBelow
<1>3. estimate \in Nat /\ 400 * estimate >= 135 * (48 + 274 * n + 172 * (k + 2 - 1) + 276 * 1)
  BY 1 \in 0 .. k + 2, k + 2 \in Nat, EstimateIsAbove
<1> HIDE DEF size, estimate
<1>4. size <= estimate
  BY <1>1, <1>2, <1>3
<1> QED
  BY <1>4 DEF data, size, estimate

(* A redeem that gives tokens back records one amount.                      *)
LEMMA EstimateOfPartialRedeem ==
  ASSUME NEW n \in Nat
  PROVE  Vsize(n, 1, 3, 1, MetadataOutput(MetadataSize(1, 0))) <= EstimateVsize(n + 1, 4, 1)
<1> DEFINE data     == MetadataOutput(MetadataSize(1, 0))
           size     == Vsize(n, 1, 3, 1, data)
           estimate == EstimateVsize(n + 1, 4, 1)
<1>1. data \in Nat /\ data <= 23 + 9 * 1 + 33 * 0
  BY MetadataIsBelow
<1> HIDE DEF data
<1>2. size \in Nat /\ 4 * size <= 109 + 230 * n + 342 * 1 + 172 * 3 + 4 * data
  BY <1>1, SizeIsBelow
<1>3. estimate \in Nat
      /\ 400 * estimate >= 135 * (48 + 274 * (n + 1) + 172 * (4 - 1) + 276 * 1)
  BY 1 \in 0 .. 4, n + 1 \in Nat, EstimateIsAbove
<1> HIDE DEF size, estimate
<1>4. size <= estimate
  BY <1>1, <1>2, <1>3
<1> QED
  BY <1>4 DEF data, size, estimate

(* A redeem of the whole position records none.                             *)
LEMMA EstimateOfRedeem ==
  ASSUME NEW n \in Nat
  PROVE  Vsize(n, 1, 2, 0, 0) <= EstimateVsize(n + 1, 2, 0)
<1> DEFINE size     == Vsize(n, 1, 2, 0, 0)
           estimate == EstimateVsize(n + 1, 2, 0)
<1>1. size \in Nat /\ 4 * size <= 109 + 230 * n + 342 * 1 + 172 * 2 + 4 * 0
  BY SizeIsBelow
<1>2. estimate \in Nat
      /\ 400 * estimate >= 135 * (48 + 274 * (n + 1) + 172 * (2 - 0) + 276 * 0)
  BY 0 \in 0 .. 2, n + 1 \in Nat, EstimateIsAbove
<1> HIDE DEF size, estimate
<1>3. size <= estimate
  BY <1>1, <1>2
<1> QED
  BY <1>3 DEF size, estimate

(* The sample stays what it is.                                             *)
LEMMA SampleIsTried ==
  Spec => [](sample.kind \in DOMAIN Samples /\ sample.item \in Samples[sample.kind])
<1> DEFINE Inv == sample.kind \in DOMAIN Samples /\ sample.item \in Samples[sample.kind]
<1>1. Init => Inv
  BY DEF Init
<1>2. Inv /\ [Next]_sample => Inv'
  BY DEF Next
<1> QED
  BY <1>1, <1>2, PTL DEF Spec

(* The fee is estimated for at least the size of the transaction, for any   *)
(* number of inputs and tokens: margin and coarse sizes make up for what    *)
(* estimateVsize leaves out (fee.ts).                                       *)
THEOREM EstimatesCover == Spec => []EstimateCovers
<1> DEFINE Inv == sample.kind \in DOMAIN Samples /\ sample.item \in Samples[sample.kind]
<1>1. Inv => EstimateCovers
  <2> SUFFICES ASSUME Inv, Is("size")
               PROVE  EstimateCovers
    BY DEF EstimateCovers
  <2>1. item.inputs \in Nat /\ item.tokens \in Nat
    BY SamplesAssumption DEF Is, item
  <2> QED
    BY <2>1, EstimateOfMint, EstimateOfTransfer, EstimateOfPartialRedeem, EstimateOfRedeem
       DEF EstimateCovers
<1> QED
  BY <1>1, SampleIsTried, PTL

----------------------------------------------------------------------------
(* A quotient that is multiplied and divided again: the first division      *)
(* drops less than the price, the second divides by at least as much.       *)
LEMMA RoundTrip ==
  ASSUME NEW M \in Nat \ {0}, NEW price \in Nat \ {0}, price <= M,
         NEW cents \in Nat, NEW rest \in Nat, rest < M,
         NEW sats \in Nat, NEW dropped \in Nat, dropped < price,
         sats * price + dropped = cents * M + rest
  PROVE  (sats * price) \div M \in {cents - 1, cents}
<1> DEFINE worth == sats * price
           back  == worth \div M
<1>1. worth \in Nat /\ cents * M \in Nat
  OBVIOUS
<1>2. worth + dropped = cents * M + rest
  OBVIOUS
<1> HIDE DEF worth
<1>3. PICK r \in 0 .. M - 1 : back \in Nat /\ worth = M * back + r
  BY <1>1, Division
<1> HIDE DEF back
<1>4. back \in Nat
  BY <1>3
<1>5. CASE back >= cents + 1
  <2>1. M * back >= M * (cents + 1)
    BY <1>4, <1>5
  <2>2. M * (cents + 1) = cents * M + M
    OBVIOUS
  <2> QED
    BY <1>1, <1>2, <1>3, <2>1, <2>2
<1>6. CASE back <= cents - 2
  <2>1. M * back <= M * (cents - 2)
    BY <1>4, <1>6
  <2>2. M * (cents - 2) = cents * M - 2 * M
    OBVIOUS
  <2> QED
    BY <1>1, <1>2, <1>3, <2>1, <2>2
<1> QED
  BY <1>4, <1>5, <1>6 DEF back, worth

(* DD to sats and back.                                                     *)
LEMMA SatsAreWorthCents ==
  ASSUME NEW cents \in Nat, NEW price \in Nat \ {0}, price <= COIN * 10000
  PROVE  Backs(DdToSats(cents, price), price, cents)
<1> DEFINE M    == COIN * 10000
           sats == DdToSats(cents, price)
<1>1. M \in Nat \ {0} /\ price <= M
  BY CoinAssumption
<1>2. cents * COIN * 10000 = cents * M /\ cents * M \in Nat
  BY CoinAssumption
<1>3. sats = (cents * M) \div price
  BY <1>2 DEF DdToSats
<1> HIDE DEF M, sats
<1>4. PICK r \in 0 .. price - 1 : sats \in Nat /\ cents * M = price * sats + r
  <2> DEFINE product == cents * M
  <2>1. product \in Nat /\ sats = product \div price
    BY <1>2, <1>3
  <2> HIDE DEF product
  <2>2. price \in Nat \ {0}
    OBVIOUS
  <2>3. /\ product \div price \in Nat
        /\ \E r \in 0 .. price - 1 : product = price * (product \div price) + r
    BY ONLY <2>1, <2>2, Division, Zenon
  <2> QED
    BY <2>1, <2>3 DEF product
<1>5. sats * price + r = cents * M + 0
  BY <1>1, <1>2, <1>4
<1>6. (sats * price) \div M \in {cents - 1, cents}
  BY <1>1, <1>4, <1>5, 0 \in Nat, r \in Nat, r < price, 0 < M, RoundTrip
<1> QED
  BY <1>6 DEF Backs, SatsToDDCents, M, sats

(* The collateral of a mint and its ratio.                                  *)
LEMMA CollateralIsWorthRatio ==
  ASSUME NEW cents \in Nat, NEW ratio \in Nat, NEW price \in Nat \ {0},
         price <= COIN * 10000
  PROVE  Backs(CollateralSats(cents, price, ratio), price, (cents * ratio) \div 100)
<1> DEFINE M      == COIN * 10000
           backed == cents * ratio
           worth  == backed \div 100
           sats   == CollateralSats(cents, price, ratio)
<1>1. M \in Nat \ {0} /\ price <= M /\ COIN \in Nat \ {0} /\ M = 10000 * COIN
  BY CoinAssumption
<1>2. backed \in Nat
  OBVIOUS
<1>3. cents * COIN * ratio * 100 = 100 * COIN * backed
  BY <1>1
<1>4. sats = (100 * COIN * backed) \div price
  BY <1>3 DEF CollateralSats
<1> HIDE DEF M, sats, backed
<1>5. PICK u \in 0 .. 99 : worth \in Nat /\ backed = 100 * worth + u
  BY <1>2, Division
<1> HIDE DEF worth
<1>6. 100 * COIN * backed = worth * M + 100 * COIN * u
  <2>1. 100 * COIN * backed = 100 * COIN * (100 * worth) + 100 * COIN * u
    BY <1>1, <1>5
  <2>2. 100 * COIN * (100 * worth) = worth * (10000 * COIN)
    BY <1>1, <1>5
  <2> QED
    BY <1>1, <2>1, <2>2
<1>7. 100 * COIN * u \in Nat /\ 100 * COIN * u < M
  BY <1>1
<1>8. 100 * COIN * backed \in Nat
  BY <1>1, <1>2
<1>9. PICK r \in 0 .. price - 1 : sats \in Nat /\ 100 * COIN * backed = price * sats + r
  <2> DEFINE product == 100 * COIN * backed
  <2>1. product \in Nat /\ sats = product \div price
    BY <1>4, <1>8
  <2> HIDE DEF product
  <2>2. price \in Nat \ {0}
    OBVIOUS
  <2>3. /\ product \div price \in Nat
        /\ \E r \in 0 .. price - 1 : product = price * (product \div price) + r
    BY ONLY <2>1, <2>2, Division, Zenon
  <2> QED
    BY <2>1, <2>3 DEF product
<1>10. sats * price + r = worth * M + 100 * COIN * u
  BY <1>1, <1>6, <1>9
<1>11. (sats * price) \div M \in {worth - 1, worth}
  BY <1>1, <1>5, <1>7, <1>9, <1>10, r \in Nat, r < price, RoundTrip
<1> QED
  BY <1>11 DEF Backs, SatsToDDCents, M, sats, worth, backed

(* For any amount and any price up to the one at which a sat is worth a     *)
(* cent, the conversions of two packages agree to a cent (wrapper.ts,       *)
(* collateral.ts).                                                          *)
THEOREM PricesAgree == Spec => []ConversionsAgree
<1> DEFINE Inv == sample.kind \in DOMAIN Samples /\ sample.item \in Samples[sample.kind]
<1>1. Inv => ConversionsAgree
  <2> SUFFICES ASSUME Inv, Is("price"), item.price <= COIN * 10000
               PROVE  /\ Backs(DdToSats(item.cents, item.price), item.price, item.cents)
                      /\ Backs(CollateralSats(item.cents, item.price, item.ratio),
                               item.price, (item.cents * item.ratio) \div 100)
    BY DEF ConversionsAgree
  <2>1. item.cents \in Nat /\ item.ratio \in Nat /\ item.price \in Nat \ {0}
    BY SamplesAssumption DEF Is, item
  <2> QED
    BY <2>1, SatsAreWorthCents, CollateralIsWorthRatio
<1> QED
  BY <1>1, SampleIsTried, PTL

----------------------------------------------------------------------------
(* Selection: an exchange argument. *)

(* Few coins that are worth less, one by one, are worth less altogether.    *)
LEMMA FewerAreWorthLess ==
  ASSUME NEW X, IsFiniteSet(X), NEW Y, IsFiniteSet(Y), Cardinality(X) <= Cardinality(Y),
         NEW f, \A x \in X : f[x] \in Nat, \A y \in Y : f[y] \in Nat,
         \A x \in X : \A y \in Y : f[x] <= f[y]
  PROVE  SumFunctionOnSet(f, X) <= SumFunctionOnSet(f, Y)
<1> DEFINE Sum(V) == SumFunctionOnSet(f, V)
           P == {V \in SUBSET X : \A W \in SUBSET Y :
                   Cardinality(V) <= Cardinality(W) => Sum(V) <= Sum(W)}
<1>1. \A W \in SUBSET Y : IsFiniteSet(W) /\ Sum(W) \in Nat
  <2> SUFFICES ASSUME NEW W \in SUBSET Y PROVE IsFiniteSet(W) /\ Sum(W) \in Nat
    OBVIOUS
  <2>1. IsFiniteSet(W)
    BY FS_Subset
  <2> QED
    BY <2>1, SumOfNats
<1>2. {} \in P
  <2>1. Sum({}) = 0
    BY SumEmpty
  <2> HIDE DEF Sum
  <2>2. \A W \in SUBSET Y : Sum({}) <= Sum(W)
    BY <1>1, <2>1
  <2> QED
    BY <2>2
<1>3. ASSUME NEW V \in SUBSET X, NEW x \in X, V \in P, x \notin V
      PROVE  V \union {x} \in P
  <2>1. IsFiniteSet(V) /\ \A v \in V \union {x} : f[v] \in Int
    BY FS_Subset
  <2>2. Sum(V \union {x}) = Sum(V) + f[x]
    BY <1>3, <2>1, SumAdd
  <2>3. Cardinality(V \union {x}) = Cardinality(V) + 1 /\ Cardinality(V) \in Nat
    BY <1>3, <2>1, FS_AddElement, FS_CardinalityType
  <2>4. ASSUME NEW W \in SUBSET Y, Cardinality(V \union {x}) <= Cardinality(W)
        PROVE  Sum(V \union {x}) <= Sum(W)
    <3>1. IsFiniteSet(W) /\ Cardinality(W) \in Nat
      BY <1>1, FS_CardinalityType
    <3>2. W # {}
      BY <2>3, <2>4, <3>1, FS_EmptySet
    <3>3. PICK y \in W : TRUE
      BY <3>2
    <3>4. Cardinality(W \ {y}) = Cardinality(W) - 1 /\ W \ {y} \in SUBSET Y
      BY <3>1, <3>3, FS_RemoveElement
    <3>5. Sum(V) <= Sum(W \ {y})
      BY <1>3, <2>3, <2>4, <3>1, <3>4
    <3>6. /\ IsFiniteSet(W \ {y}) /\ y \notin W \ {y} /\ W = (W \ {y}) \union {y}
          /\ \A w \in (W \ {y}) \union {y} : f[w] \in Int
      BY <1>1, <3>3, <3>4
    <3> DEFINE U == W \ {y}
    <3>7. Sum(U \union {y}) = Sum(U) + f[y]
      <4> HIDE DEF U
      <4> QED
        BY <3>6, SumAdd DEF U
    <3>8. Sum(V) \in Int /\ Sum(U) \in Int /\ f[x] \in Nat /\ f[y] \in Nat /\ f[x] <= f[y]
      BY <1>1, <2>1, <3>3, <3>4, SumType
    <3>9. Sum(V) + f[x] <= Sum(U) + f[y]
      <4> HIDE DEF Sum, U
      <4> QED
        BY <3>5, <3>8 DEF U
    <3> QED
      BY <2>2, <3>6, <3>7, <3>9
  <2> HIDE DEF Sum
  <2> QED
    BY <2>4
<1>4. X \in P
  <2> HIDE DEF P
  <2> QED
    BY <1>2, <1>3, SubsetInduction
<1> QED
  BY <1>4

----------------------------------------------------------------------------
ValuesOf(utxos) == [u \in utxos |-> u.value]

(* What some of the coins are worth. *)
LEMMA WorthOf ==
  ASSUME NEW utxos, Coins(utxos), NEW S, S \subseteq utxos
  PROVE  /\ IsFiniteSet(S) /\ Cardinality(S) \in Nat
         /\ ValueOf(S) = SumFunctionOnSet(ValuesOf(utxos), S) /\ ValueOf(S) \in Nat
         /\ \A u \in S : ValuesOf(utxos)[u] = u.value /\ u.value \in Nat
<1> DEFINE f == ValuesOf(utxos)
           g == [u \in S |-> u.value]
<1>1. IsFiniteSet(S) /\ Cardinality(S) \in Nat
  BY FS_Subset, FS_CardinalityType DEF Coins
<1>2. /\ \A u \in S : g[u] = f[u] /\ g[u] \in Nat /\ f[u] = u.value
      /\ DOMAIN g = S
  BY DEF ValuesOf, Coins
<1>3. ValueOf(S) = SumFunctionOnSet(g, S)
  BY <1>2 DEF ValueOf, SumFunction
<1> HIDE DEF f, g
<1>4. SumFunctionOnSet(g, S) = SumFunctionOnSet(f, S) /\ SumFunctionOnSet(g, S) \in Nat
  BY <1>1, <1>2, SumEqual, SumOfNats
<1> QED
  BY <1>1, <1>2, <1>3, <1>4 DEF f, g

(* Coins that are put together or apart.                                    *)
LEMMA WorthAdds ==
  ASSUME NEW utxos, Coins(utxos)
  PROVE  \A S, T \in SUBSET utxos : ValueOf(S) = ValueOf(S \intersect T) + ValueOf(S \ T)
<1> SUFFICES ASSUME NEW S \in SUBSET utxos, NEW T \in SUBSET utxos
             PROVE  ValueOf(S) = ValueOf(S \intersect T) + ValueOf(S \ T)
  OBVIOUS
<1> DEFINE f == ValuesOf(utxos)
           A == S \intersect T
           B == S \ T
<1>1. A \subseteq utxos /\ B \subseteq utxos /\ A \intersect B = {} /\ A \union B = S
  OBVIOUS
<1>2. /\ IsFiniteSet(A) /\ IsFiniteSet(B)
      /\ \A u \in A \union B : f[u] \in Int
  BY <1>1, WorthOf
<1> HIDE DEF f, A, B
<1>3. SumFunctionOnSet(f, A \union B) = SumFunctionOnSet(f, A) + SumFunctionOnSet(f, B)
  BY <1>1, <1>2, SumUnion
<1>4. /\ ValueOf(A) = SumFunctionOnSet(f, A) /\ ValueOf(B) = SumFunctionOnSet(f, B)
      /\ ValueOf(S) = SumFunctionOnSet(f, S)
  BY <1>1, WorthOf DEF f
<1> QED
  BY <1>1, <1>3, <1>4 DEF A, B

(* Of all sets of so many coins, one that leaves out no larger coin than it *)
(* takes is worth most.                                                     *)
LEMMA LargestAreWorthMost ==
  ASSUME NEW utxos, Coins(utxos), NEW T, T \subseteq utxos,
         \A u \in T : \A v \in utxos \ T : v.value <= u.value,
         NEW other, other \subseteq utxos, Cardinality(other) <= Cardinality(T)
  PROVE  ValueOf(other) <= ValueOf(T)
<1> DEFINE f == ValuesOf(utxos)
           X == other \ T
           Y == T \ other
           Both == other \intersect T
<1>1. /\ X \subseteq utxos /\ Y \subseteq utxos /\ Both \subseteq utxos
      /\ T \intersect other = Both
  OBVIOUS
<1>2. IsFiniteSet(X) /\ IsFiniteSet(Y) /\ IsFiniteSet(T) /\ IsFiniteSet(other)
  BY <1>1, WorthOf
<1>3. Cardinality(X) <= Cardinality(Y)
  <2>1. /\ Cardinality(X) = Cardinality(other) - Cardinality(Both)
        /\ Cardinality(Y) = Cardinality(T) - Cardinality(Both)
    BY <1>1, <1>2, FS_Difference, ZenonT(60)
  <2>2. Cardinality(other) \in Nat /\ Cardinality(T) \in Nat /\ Cardinality(Both) \in Nat
    BY <1>1, WorthOf
  <2> HIDE DEF X, Y, Both
  <2> QED
    BY <2>1, <2>2
<1>4. /\ \A x \in X : f[x] \in Nat
      /\ \A y \in Y : f[y] \in Nat
      /\ \A x \in X : \A y \in Y : f[x] <= f[y]
  <2>1. \A u \in utxos : f[u] = u.value /\ u.value \in Nat
    BY WorthOf
  <2> HIDE DEF f
  <2> QED
    BY <2>1
<1>5. /\ ValueOf(other) = ValueOf(Both) + ValueOf(X)
      /\ ValueOf(T) = ValueOf(Both) + ValueOf(Y)
  <2>1. \A A, B \in SUBSET utxos : ValueOf(A) = ValueOf(A \intersect B) + ValueOf(A \ B)
    BY WorthAdds
  <2> QED
    BY <1>1, <2>1
<1> HIDE DEF f, X, Y, Both
<1>6. SumFunctionOnSet(f, X) <= SumFunctionOnSet(f, Y)
  BY <1>2, <1>3, <1>4, FewerAreWorthLess
<1>7. /\ ValueOf(X) = SumFunctionOnSet(f, X) /\ ValueOf(Y) = SumFunctionOnSet(f, Y)
      /\ ValueOf(X) \in Nat /\ ValueOf(Y) \in Nat /\ ValueOf(Both) \in Nat
  BY <1>1, WorthOf DEF f
<1> QED
  BY <1>5, <1>6, <1>7

----------------------------------------------------------------------------
Spendable(utxos) == {u \in utxos : u.value > 0}

(* What selectCoins leaves out is worth nothing.                            *)
LEMMA DustIsWorthNothing ==
  ASSUME NEW utxos, Coins(utxos), NEW S, S \subseteq utxos
  PROVE  /\ ValueOf(S) = ValueOf(S \intersect Spendable(utxos))
         /\ Cardinality(S \intersect Spendable(utxos)) <= Cardinality(S)
<1> DEFINE P == Spendable(utxos)
           rest == S \ P
<1>1. rest \subseteq utxos /\ P \subseteq utxos
  BY DEF Spendable
<1>2. ValueOf(rest) = 0
  <2> DEFINE f == ValuesOf(utxos)
  <2>1. IsFiniteSet(rest) /\ \A u \in rest : f[u] = u.value /\ u.value \in Nat
    BY <1>1, WorthOf
  <2>2. \A u \in rest : ~(u.value > 0)
    BY DEF Spendable
  <2>3. \A u \in rest : f[u] = 0
    BY <2>1, <2>2
  <2>4. ValueOf(rest) = SumFunctionOnSet(f, rest)
    BY <1>1, WorthOf
  <2> HIDE DEF f, rest
  <2> QED
    BY <2>1, <2>3, <2>4, SumOfZeros
<1>3. ValueOf(S) = ValueOf(S \intersect P) + ValueOf(rest)
  BY <1>1, WorthAdds
<1>4. ValueOf(S \intersect P) \in Nat
  BY WorthOf
<1>5. Cardinality(S \intersect P) <= Cardinality(S)
  BY WorthOf, FS_Intersection
<1> HIDE DEF P, rest
<1> QED
  BY <1>2, <1>3, <1>4, <1>5 DEF P

\* S leaves out no larger coin than it takes, and reaches the target.
Takes(coins, target, S) ==
  /\ S \subseteq coins /\ S # {} /\ ValueOf(S) >= target
  /\ \A u \in S : \A v \in coins \ S : v.value <= u.value

\* Without its smallest coin it does not.
Stops(target, S) ==
  \A u \in S : (\A v \in S : u.value <= v.value) => S = {u} \/ ValueOf(S) - u.value < target

(* A selection is largest first, without its definition's sum.              *)
LEMMA SelectionIs ==
  ASSUME NEW coins, NEW target, NEW S
  PROVE  S \in LargestFirst(coins, "value", target)
           <=> Takes(coins, target, S) /\ Stops(target, S)
BY DEF LargestFirst, Takes, Stops, ValueOf

(* A coin that is taken out.                                                *)
LEMMA WithoutOne ==
  ASSUME NEW utxos, Coins(utxos), NEW S, S \subseteq utxos, NEW u \in S
  PROVE  /\ ValueOf(S \ {u}) = ValueOf(S) - u.value
         /\ Cardinality(S \ {u}) = Cardinality(S) - 1
<1> DEFINE f == ValuesOf(utxos)
           T == S \ {u}
<1>1. /\ IsFiniteSet(S) /\ \A v \in S : f[v] \in Int
      /\ f[u] = u.value
      /\ ValueOf(S) = SumFunctionOnSet(f, S)
  BY WorthOf
<1>2. T \subseteq utxos
  OBVIOUS
<1>3. ValueOf(T) = SumFunctionOnSet(f, T) /\ ValueOf(T) \in Nat /\ u.value \in Nat
  BY <1>2, WorthOf
<1> HIDE DEF f
<1>4. SumFunctionOnSet(f, S) = f[u] + SumFunctionOnSet(f, S \ {u})
  BY <1>1, SumRemove
<1>5. Cardinality(S \ {u}) = Cardinality(S) - 1
  BY <1>1, FS_RemoveElement
<1> QED
  BY <1>1, <1>3, <1>4, <1>5

(* Some coin is the smallest of those taken.                                *)
LEMMA SmallestCoin ==
  ASSUME NEW utxos, Coins(utxos), NEW S, S \subseteq utxos, S # {}
  PROVE  \E u \in S : \A v \in S : u.value <= v.value
<1> DEFINE P == {V \in SUBSET S : V # {} => \E u \in V : \A v \in V : u.value <= v.value}
<1>1. IsFiniteSet(S) /\ \A u \in S : u.value \in Nat
  BY WorthOf
<1>2. {} \in P
  OBVIOUS
<1>3. ASSUME NEW V \in SUBSET S, NEW x \in S, V \in P, x \notin V
      PROVE  V \union {x} \in P
  <2>1. CASE V = {}
    BY <1>1, <2>1
  <2>2. CASE V # {}
    <3>1. PICK u \in V : \A v \in V : u.value <= v.value
      BY <1>3, <2>2
    <3>2. CASE u.value <= x.value
      BY <1>1, <3>1, <3>2
    <3>3. CASE ~(u.value <= x.value)
      <4>1. \A v \in V \union {x} : x.value <= v.value
        BY <1>1, <3>1, <3>3
      <4> QED
        BY <4>1
    <3> QED
      BY <3>2, <3>3
  <2> QED
    BY <2>1, <2>2
<1>4. S \in P
  <2> HIDE DEF P
  <2> QED
    BY <1>1, <1>2, <1>3, SubsetInduction
<1> QED
  BY <1>4

----------------------------------------------------------------------------
(* No fewer coins than those selected reach the target.                     *)
LEMMA FewestCoins ==
  ASSUME NEW utxos, Coins(utxos), NEW target \in Nat \ {0}, NEW S,
         Takes(Spendable(utxos), target, S), Stops(target, S),
         NEW other, other \subseteq utxos, Cardinality(other) < Cardinality(S)
  PROVE  ValueOf(other) < target
<1> DEFINE P == Spendable(utxos)
           A == other \intersect P
<1>1. P \subseteq utxos /\ S \subseteq P /\ S # {} /\ A \subseteq P
  BY DEF Spendable, Takes
<1>2. Coins(P)
  BY <1>1, FS_Subset DEF Coins
<1>3. ValueOf(other) = ValueOf(A) /\ Cardinality(A) <= Cardinality(other)
  BY DustIsWorthNothing
<1> HIDE DEF A, P
<1>4. PICK u \in S : \A v \in S : u.value <= v.value
  BY <1>1, <1>2, SmallestCoin
<1> DEFINE T == S \ {u}
<1>5. T \subseteq P
  BY <1>1
<1>6. ValueOf(T) = ValueOf(S) - u.value /\ Cardinality(T) = Cardinality(S) - 1
  BY <1>1, <1>2, WithoutOne
<1>7. \A x \in T : \A v \in P \ T : v.value <= x.value
  BY <1>1, <1>4 DEF Takes, P
<1>8. Cardinality(A) <= Cardinality(T)
  <2>1. Cardinality(S) \in Nat /\ Cardinality(A) \in Nat
    BY <1>1, <1>2, WorthOf
  <2>2. Cardinality(other) \in Nat
    BY WorthOf
  <2> HIDE DEF T
  <2> QED
    BY <1>3, <1>6, <2>1, <2>2
<1>9. ValueOf(A) <= ValueOf(T)
  <2> HIDE DEF T
  <2> QED
    BY <1>1, <1>2, <1>5, <1>7, <1>8, LargestAreWorthMost
<1>10. CASE S = {u}
  <2>1. T = {}
    BY <1>10
  <2>2. ValueOf({}) = 0
    <3>1. {} \subseteq P
      OBVIOUS
    <3>2. ValueOf({}) = SumFunctionOnSet(ValuesOf(P), {})
      BY <1>2, <3>1, WorthOf
    <3> QED
      BY <3>2, SumEmpty
  <2>3. ValueOf(A) \in Nat
    BY <1>1, <1>2, WorthOf
  <2> QED
    BY <1>3, <1>9, <2>1, <2>2, <2>3
<1>11. CASE S # {u}
  <2>1. ValueOf(S) - u.value < target
    BY <1>4, <1>11 DEF Stops
  <2>2. ValueOf(A) \in Nat /\ ValueOf(T) \in Nat
    BY <1>1, <1>2, <1>5, WorthOf
  <2> HIDE DEF T
  <2> QED
    BY <1>3, <1>6, <1>9, <2>1, <2>2
<1> QED
  BY <1>10, <1>11

(* If all coins reach the target, some selection does.                      *)
LEMMA SelectionExists ==
  ASSUME NEW coins, Coins(coins), NEW target \in Nat \ {0}, ValueOf(coins) >= target
  PROVE  \E S \in SUBSET coins : Takes(coins, target, S) /\ Stops(target, S)
<1> DEFINE T == {S \in SUBSET coins : Takes(coins, target, S)}
<1>1. coins \in T
  <2>1. coins # {}
    <3>1. ASSUME coins = {} PROVE FALSE
      <4>1. ValueOf(coins) = SumFunctionOnSet(ValuesOf(coins), coins)
        BY WorthOf
      <4>2. ValueOf(coins) = 0
        BY <3>1, <4>1, SumEmpty
      <4> QED
        BY <4>2
    <3> QED
      BY <3>1
  <2> QED
    BY <2>1 DEF Takes
<1>2. T \subseteq SUBSET coins /\ T # {} /\ IsFiniteSet(coins)
  BY <1>1 DEF Coins
<1> HIDE DEF T
<1>3. PICK S \in T : \A V \in T : V \subseteq S => V = S
  BY <1>2, SmallestSubset
<1>4. S \subseteq coins /\ Takes(coins, target, S)
  BY <1>3 DEF T
<1>5. ASSUME NEW u \in S, \A v \in S : u.value <= v.value, S # {u},
             ~(ValueOf(S) - u.value < target)
      PROVE  FALSE
  <2> DEFINE V == S \ {u}
  <2>1. V \subseteq S /\ V # S /\ V # {} /\ V \subseteq coins
    BY <1>4, <1>5
  <2>2. ValueOf(V) = ValueOf(S) - u.value
    BY <1>4, WithoutOne
  <2>3. \A x \in V : \A v \in coins \ V : v.value <= x.value
    BY <1>4, <1>5 DEF Takes
  <2>4. ValueOf(V) \in Nat /\ ValueOf(S) \in Nat /\ u.value \in Nat
    BY <1>4, <2>1, WorthOf
  <2> HIDE DEF V
  <2>5. ValueOf(V) >= target
    BY <1>5, <2>2, <2>4
  <2>6. V \in T
    BY <2>1, <2>3, <2>5 DEF T, Takes
  <2> QED
    BY <1>3, <2>1, <2>6
<1>6. Stops(target, S)
  BY <1>5 DEF Stops
<1> QED
  BY <1>4, <1>6

(* SelectionIsBest, for any coins and target.                               *)
LEMMA CoinsAreSelected ==
  ASSUME NEW utxos, Coins(utxos), NEW target \in Nat \ {0}, MAX_TX_INPUTS \in Nat
  PROVE  /\ \A S \in SelectCoins(utxos, target) :
              /\ S \in SUBSET utxos /\ ValueOf(S) >= target
              /\ \A other \in SUBSET utxos :
                   Cardinality(other) < Cardinality(S) => ~(ValueOf(other) >= target)
         /\ SelectCoins(utxos, target) = {} =>
              \A other \in SUBSET utxos :
                ValueOf(other) >= target => Cardinality(other) > MAX_TX_INPUTS
<1> DEFINE P == Spendable(utxos)
<1>1. P \subseteq utxos
  BY DEF Spendable
<1>2. Coins(P)
  BY <1>1, FS_Subset DEF Coins
<1>3. \A S : S \in SelectCoins(utxos, target)
               <=> /\ Takes(P, target, S) /\ Stops(target, S)
                   /\ Cardinality(S) <= MAX_TX_INPUTS
  BY SelectionIs DEF SelectCoins, Spendable
<1>4. ASSUME NEW S, Takes(P, target, S), Stops(target, S),
             NEW other \in SUBSET utxos, Cardinality(other) < Cardinality(S)
      PROVE  ~(ValueOf(other) >= target)
  <2>1. ValueOf(other) < target
    BY <1>4, FewestCoins
  <2>2. ValueOf(other) \in Nat
    BY WorthOf
  <2> QED
    BY <2>1, <2>2
<1>5. ASSUME NEW S \in SelectCoins(utxos, target)
      PROVE  /\ S \in SUBSET utxos /\ ValueOf(S) >= target
             /\ \A other \in SUBSET utxos :
                  Cardinality(other) < Cardinality(S) => ~(ValueOf(other) >= target)
  BY <1>1, <1>3, <1>4 DEF Takes
<1> HIDE DEF P
<1>6. ASSUME SelectCoins(utxos, target) = {}, NEW other \in SUBSET utxos,
             ValueOf(other) >= target, ~(Cardinality(other) > MAX_TX_INPUTS)
      PROVE  FALSE
  <2>1. ValueOf(P) >= target
    <3> DEFINE A == other \intersect P
               B == P \ other
    <3>1. ValueOf(other) = ValueOf(A)
      BY DustIsWorthNothing DEF P
    <3>2. P \intersect other = A
      OBVIOUS
    <3>3. ValueOf(P) = ValueOf(A) + ValueOf(B)
      <4>1. P \in SUBSET utxos
        BY <1>1
      <4>2. ValueOf(P) = ValueOf(P \intersect other) + ValueOf(P \ other)
        BY <4>1, WorthAdds
      <4> QED
        BY <3>2, <4>2
    <3>4. ValueOf(A) \in Nat /\ ValueOf(B) \in Nat
      <4>1. A \subseteq utxos /\ B \subseteq utxos
        BY <1>1
      <4> QED
        BY <4>1, WorthOf
    <3> HIDE DEF A, B
    <3> QED
      BY <1>6, <3>1, <3>3, <3>4
  <2>2. PICK S \in SUBSET P : Takes(P, target, S) /\ Stops(target, S)
    BY <1>2, <2>1, SelectionExists
  <2>3. Cardinality(S) \in Nat /\ Cardinality(other) \in Nat
    BY <1>2, WorthOf
  <2>4. ~(Cardinality(other) < Cardinality(S))
    BY <1>4, <1>6, <2>2 DEF P
  <2>5. Cardinality(S) <= MAX_TX_INPUTS
    BY <1>6, <2>3, <2>4
  <2> QED
    BY <1>3, <1>6, <2>2, <2>5
<1> QED
  BY <1>5, <1>6

(* selectCoins picks as few coins as reach the target, and refuses only     *)
(* when more than MAX_TX_INPUTS would be needed: largest first is best for  *)
(* wallets of any size (coin-select.ts).                                    *)
THEOREM LargestFirstIsBest == Spec => []SelectionIsBest
<1> DEFINE Inv == sample.kind \in DOMAIN Samples /\ sample.item \in Samples[sample.kind]
<1>1. Inv => SelectionIsBest
  <2> SUFFICES ASSUME Inv, Is("coins")
               PROVE  SelectionIsBest
    BY DEF SelectionIsBest
  <2>1. Coins(item.utxos) /\ item.target \in Nat \ {0} /\ MAX_TX_INPUTS \in Nat
    BY SamplesAssumption DEF Is, item
  <2> QED
    BY <2>1, CoinsAreSelected DEF SelectionIsBest, Reaches
<1> QED
  BY <1>1, SampleIsTried, PTL

----------------------------------------------------------------------------
(* Fees. *)

(* More bytes cost more.                                                    *)
LEMMA RatesGrow ==
  ASSUME NEW rate \in Nat, NEW a \in Int, NEW b \in Int, a <= b
  PROVE  rate * a \in Int /\ rate * b \in Int /\ rate * a <= rate * b
<1> DEFINE d == b - a
<1>1. d \in Nat /\ b = a + d
  OBVIOUS
<1>2. rate * d \in Nat
  BY <1>1
<1> HIDE DEF d
<1>3. rate * b = rate * a + rate * d
  BY <1>1
<1> QED
  BY <1>2, <1>3

(* What is estimated is paid, and no more than twice what is due.           *)
LEMMA DueIsPaid ==
  ASSUME NEW rate \in Nat, NEW floor \in Nat, NEW size \in Nat, NEW estimate \in Nat,
         NEW most \in Nat, size <= estimate, estimate <= 2 * most
  PROVE  LET fee == Max({floor, CalculateFee(estimate, rate)})
         IN  /\ fee \in Nat
             /\ fee >= Max({floor, rate * size})
             /\ fee <= 2 * Max({floor, rate * most})
<1> DEFINE a == rate * size
           b == rate * estimate
           c == rate * most
<1>1. a \in Int /\ b \in Int /\ a <= b
  BY RatesGrow
<1>2. b <= 2 * c /\ c \in Nat
  <2>1. 2 * most \in Int /\ rate * (2 * most) = 2 * (rate * most)
    OBVIOUS
  <2>2. rate * estimate <= rate * (2 * most)
    BY <2>1, RatesGrow
  <2> QED
    BY <2>1, <2>2
<1>3. CalculateFee(estimate, rate) = b
  BY DEF CalculateFee
<1> HIDE DEF a, b, c
<1>4. Max({floor, b}) \in {floor, b} /\ Max({floor, a}) \in {floor, a}
  <2>1. \A x \in Int : \E m \in {floor, x} : \A y \in {floor, x} : m >= y
    OBVIOUS
  <2> QED
    BY <1>1, <2>1 DEF Max
<1>5. /\ Max({floor, b}) >= floor /\ Max({floor, b}) >= b
      /\ Max({floor, c}) >= floor /\ Max({floor, c}) >= c
      /\ Max({floor, c}) \in Int
  <2>1. floor \in Int /\ b \in Int /\ c \in Int
    BY <1>1, <1>2
  <2> QED
    BY <2>1, MaxOfTwo
<1> DEFINE fee == Max({floor, b})
           due == Max({floor, a})
           twice == Max({floor, c})
<1> HIDE DEF fee, due, twice
<1>6. /\ fee \in {floor, b} /\ due \in {floor, a} /\ fee >= floor /\ fee >= b
      /\ twice >= floor /\ twice >= c /\ twice \in Int
  BY <1>4, <1>5 DEF fee, due, twice
<1>7. fee \in Nat /\ fee >= due /\ fee <= 2 * twice
  BY <1>1, <1>2, <1>6
<1> QED
  BY <1>3, <1>7 DEF fee, due, twice, a, c

(* What is reported is the fee and dust, or less if nothing was left.       *)
LEMMA DustIsPaid ==
  ASSUME NEW fee \in Int, NEW change \in Int
  PROVE  /\ FeePaid(fee, change) \in Int
         /\ FeePaid(fee, change) < fee + DUST_THRESHOLD
         /\ change >= 0 => FeePaid(fee, change) >= fee
         /\ change < 0 => FeePaid(fee, change) = fee + change
BY FeeConstants DEF FeePaid

----------------------------------------------------------------------------
(* Sizes and estimates, without their rounding. *)

(* The margin is not more than a third and two bytes.                       *)
LEMMA MarginIsClose ==
  ASSUME NEW vsize \in Nat
  PROVE  100 * WithSafetyMargin(vsize) < 135 * vsize + 200
<1> DEFINE product == CeilDiv(vsize * 135, 100)
<1>1. product \in Nat /\ 100 * product < vsize * 135 + 100
  BY CeilingIsClose, CeilingIsAbove, vsize * 135 \in Nat
<1>2. WithSafetyMargin(vsize) \in {product, product + 1}
  BY DEF WithSafetyMargin
<1> HIDE DEF product
<1> QED
  BY <1>1, <1>2

(* The estimate is not larger than this.                                    *)
LEMMA EstimateIsBelow ==
  ASSUME NEW inputs \in Nat, NEW outputs \in Nat, NEW opReturns \in 0 .. outputs
  PROVE  400 * EstimateVsize(inputs, outputs, opReturns)
           < 135 * (48 + 274 * inputs + 172 * (outputs - opReturns) + 276 * opReturns) + 1340
<1> DEFINE base   == 12 + inputs * 41 + (outputs - opReturns) * 43 + opReturns * 69
           weight == base * 3 + base + inputs * 110
           vsize  == CeilDiv(weight, 4)
<1>1. weight \in Nat
  OBVIOUS
<1>2. weight = 48 + 274 * inputs + 172 * (outputs - opReturns) + 276 * opReturns
  OBVIOUS
<1>3. vsize \in Nat /\ 4 * vsize < weight + 4
  BY <1>1, CeilingIsAbove, CeilingIsClose
<1>4. /\ WithSafetyMargin(vsize) \in Nat
      /\ 100 * WithSafetyMargin(vsize) < 135 * vsize + 200
  BY <1>3, MarginIsKept, MarginIsClose
<1>5. EstimateVsize(inputs, outputs, opReturns) = WithSafetyMargin(vsize)
  BY DEF EstimateVsize
<1> HIDE DEF vsize, weight
<1> QED
  BY <1>1, <1>2, <1>3, <1>4, <1>5

(* The size is not smaller than this, whose counts take a byte each.        *)
LEMMA SizeIsAbove ==
  ASSUME NEW keyPaths \in Nat, NEW scriptPaths \in Nat, NEW p2trs \in Nat,
         NEW metadataOutputs \in Nat, NEW metadata \in Nat
  PROVE  4 * Vsize(keyPaths, scriptPaths, p2trs, metadataOutputs, metadata)
           >= 42 + 230 * keyPaths + 342 * scriptPaths + 172 * p2trs + 4 * metadata
<1> DEFINE inputs  == keyPaths + scriptPaths
           counts  == CompactSize(inputs) + CompactSize(p2trs + metadataOutputs)
           base    == 8 + CompactSize(inputs) + 41 * inputs
                        + CompactSize(p2trs + metadataOutputs) + 43 * p2trs + metadata
           witness == 2 + KeyPathWitnessSize * keyPaths
                        + ScriptPathWitnessSize * scriptPaths
           weight  == 4 * base + witness
<1>1. \A n \in Nat : CompactSize(n) \in 1 .. 9
  BY DEF CompactSize
<1>2. counts \in 2 .. 18
  BY <1>1
<1>3. weight = 34 + 4 * counts + 230 * keyPaths + 342 * scriptPaths + 172 * p2trs + 4 * metadata
  BY <1>1 DEF KeyPathWitnessSize, ScriptPathWitnessSize
<1>4. weight \in Nat
  BY <1>2, <1>3
<1> HIDE DEF weight
<1>5. CeilDiv(weight, 4) \in Nat /\ 4 * CeilDiv(weight, 4) >= weight
  BY <1>4, CeilingIsAbove
<1>6. Vsize(keyPaths, scriptPaths, p2trs, metadataOutputs, metadata) = CeilDiv(weight, 4)
  BY DEF Vsize, weight
<1> HIDE DEF counts
<1> QED
  BY <1>2, <1>3, <1>4, <1>5, <1>6

(* Nor are the metadata.                                                    *)
LEMMA MetadataIsAbove ==
  ASSUME NEW numbers \in Nat, NEW keys \in Nat
  PROVE  MetadataOutput(MetadataSize(numbers, keys)) >= 15 + 9 * numbers + 33 * keys
<1> DEFINE data == MetadataSize(numbers, keys)
<1>1. data = 6 + 9 * numbers + 33 * keys
  BY DEF MetadataSize
<1>2. CompactSize(data) \in 1 .. 9
  BY DEF CompactSize
<1>3. MetadataOutput(data) = 8 + CompactSize(data) + data
  BY DEF MetadataOutput
<1> HIDE DEF data
<1> QED
  BY <1>1, <1>2, <1>3 DEF data

(* A mint's estimate and its size, with change and without.                 *)
LEMMA MintSizes ==
  ASSUME NEW n \in Nat, NEW p \in 2 .. 3
  PROVE  LET size     == Vsize(n, 0, p, 1, MetadataOutput(MetadataSize(3, 1)))
             estimate == EstimateVsize(n, 4, 1)
         IN  /\ size \in Nat /\ estimate \in Nat
             /\ size <= estimate /\ estimate <= 2 * size
             /\ EstimateVsize(3, 4, 1) \in Nat
             /\ p = 2 /\ n <= 6 => size <= EstimateVsize(3, 4, 1)
             /\ n > 6 => EstimateVsize(3, 4, 1) <= estimate
<1> DEFINE data     == MetadataOutput(MetadataSize(3, 1))
           size     == Vsize(n, 0, p, 1, data)
           estimate == EstimateVsize(n, 4, 1)
           three    == EstimateVsize(3, 4, 1)
<1>1. data \in Nat /\ data <= 23 + 9 * 3 + 33 * 1 /\ data >= 15 + 9 * 3 + 33 * 1
  BY MetadataIsBelow, MetadataIsAbove
<1> HIDE DEF data
<1>2. /\ size \in Nat /\ 4 * size <= 109 + 230 * n + 342 * 0 + 172 * p + 4 * data
      /\ 4 * size >= 42 + 230 * n + 342 * 0 + 172 * p + 4 * data
  <2>1. p \in Nat
    OBVIOUS
  <2>2. size \in Nat
    BY <1>1, <2>1, SizeIsBelow, 0 \in Nat, 1 \in Nat
  <2>3. 4 * size <= 109 + 230 * n + 342 * 0 + 172 * p + 4 * data
    BY <1>1, <2>1, SizeIsBelow, 0 \in Nat, 1 \in Nat
  <2>4. 4 * size >= 42 + 230 * n + 342 * 0 + 172 * p + 4 * data
    BY <1>1, <2>1, SizeIsAbove, 0 \in Nat, 1 \in Nat
  <2> QED
    BY <2>2, <2>3, <2>4
<1>3. /\ estimate \in Nat
      /\ 400 * estimate >= 135 * (48 + 274 * n + 172 * (4 - 1) + 276 * 1)
      /\ 400 * estimate < 135 * (48 + 274 * n + 172 * (4 - 1) + 276 * 1) + 1340
  BY 1 \in 0 .. 4, EstimateIsAbove, EstimateIsBelow
<1>4. /\ three \in Nat
      /\ 400 * three >= 135 * (48 + 274 * 3 + 172 * (4 - 1) + 276 * 1)
      /\ 400 * three < 135 * (48 + 274 * 3 + 172 * (4 - 1) + 276 * 1) + 1340
  BY 1 \in 0 .. 4, EstimateIsAbove, EstimateIsBelow
<1> HIDE DEF size, estimate, three
<1>5. /\ size <= estimate /\ estimate <= 2 * size
      /\ p = 2 /\ n <= 6 => size <= three
      /\ n > 6 => three <= estimate
  BY <1>1, <1>2, <1>3, <1>4
<1> QED
  BY <1>2, <1>3, <1>4, <1>5 DEF data, size, estimate, three

(* A transfer's, for any number of tokens: the estimate counts a change     *)
(* output.                                                                  *)
LEMMA TransferSizes ==
  ASSUME NEW n \in Nat, NEW k \in Nat \ {0}, NEW p \in k .. k + 1
  PROVE  LET size     == Vsize(n, 0, p, 1, MetadataOutput(MetadataSize(k, 0)))
             estimate == EstimateVsize(n, k + 2, 1)
         IN  /\ size \in Nat /\ estimate \in Nat
             /\ size <= estimate /\ estimate <= 2 * (size + 43)
<1> DEFINE data     == MetadataOutput(MetadataSize(k, 0))
           size     == Vsize(n, 0, p, 1, data)
           estimate == EstimateVsize(n, k + 2, 1)
<1>1. data \in Nat /\ data <= 23 + 9 * k + 33 * 0 /\ data >= 15 + 9 * k + 33 * 0
  BY MetadataIsBelow, MetadataIsAbove
<1> HIDE DEF data
<1>2. /\ size \in Nat /\ 4 * size <= 109 + 230 * n + 342 * 0 + 172 * p + 4 * data
      /\ 4 * size >= 42 + 230 * n + 342 * 0 + 172 * p + 4 * data
  <2>1. p \in Nat
    OBVIOUS
  <2>2. size \in Nat
    BY <1>1, <2>1, SizeIsBelow, 0 \in Nat, 1 \in Nat
  <2>3. 4 * size <= 109 + 230 * n + 342 * 0 + 172 * p + 4 * data
    BY <1>1, <2>1, SizeIsBelow, 0 \in Nat, 1 \in Nat
  <2>4. 4 * size >= 42 + 230 * n + 342 * 0 + 172 * p + 4 * data
    BY <1>1, <2>1, SizeIsAbove, 0 \in Nat, 1 \in Nat
  <2> QED
    BY <2>2, <2>3, <2>4
<1>3. /\ estimate \in Nat
      /\ 400 * estimate >= 135 * (48 + 274 * n + 172 * (k + 2 - 1) + 276 * 1)
      /\ 400 * estimate < 135 * (48 + 274 * n + 172 * (k + 2 - 1) + 276 * 1) + 1340
  BY 1 \in 0 .. k + 2, k + 2 \in Nat, EstimateIsAbove, EstimateIsBelow
<1> HIDE DEF size, estimate
<1>4. size <= estimate /\ estimate <= 2 * (size + 43)
  BY <1>1, <1>2, <1>3
<1> QED
  BY <1>2, <1>3, <1>4 DEF data, size, estimate

(* A redeem's that gives tokens back, with change and without.              *)
LEMMA PartialRedeemSizes ==
  ASSUME NEW n \in Nat, NEW p \in 2 .. 3
  PROVE  LET size     == Vsize(n, 1, p, 1, MetadataOutput(MetadataSize(1, 0)))
             estimate == EstimateVsize(n + 1, 4, 1)
         IN  /\ size \in Nat /\ estimate \in Nat
             /\ size <= estimate /\ estimate <= 2 * size
<1> DEFINE data     == MetadataOutput(MetadataSize(1, 0))
           size     == Vsize(n, 1, p, 1, data)
           estimate == EstimateVsize(n + 1, 4, 1)
<1>1. data \in Nat /\ data <= 23 + 9 * 1 + 33 * 0 /\ data >= 15 + 9 * 1 + 33 * 0
  BY MetadataIsBelow, MetadataIsAbove
<1> HIDE DEF data
<1>2. /\ size \in Nat /\ 4 * size <= 109 + 230 * n + 342 * 1 + 172 * p + 4 * data
      /\ 4 * size >= 42 + 230 * n + 342 * 1 + 172 * p + 4 * data
  <2>1. p \in Nat
    OBVIOUS
  <2>2. size \in Nat
    BY <1>1, <2>1, SizeIsBelow, 0 \in Nat, 1 \in Nat
  <2>3. 4 * size <= 109 + 230 * n + 342 * 1 + 172 * p + 4 * data
    BY <1>1, <2>1, SizeIsBelow, 0 \in Nat, 1 \in Nat
  <2>4. 4 * size >= 42 + 230 * n + 342 * 1 + 172 * p + 4 * data
    BY <1>1, <2>1, SizeIsAbove, 0 \in Nat, 1 \in Nat
  <2> QED
    BY <2>2, <2>3, <2>4
<1>3. /\ estimate \in Nat
      /\ 400 * estimate >= 135 * (48 + 274 * (n + 1) + 172 * (4 - 1) + 276 * 1)
      /\ 400 * estimate < 135 * (48 + 274 * (n + 1) + 172 * (4 - 1) + 276 * 1) + 1340
  BY 1 \in 0 .. 4, n + 1 \in Nat, EstimateIsAbove, EstimateIsBelow
<1> HIDE DEF size, estimate
<1>4. size <= estimate /\ estimate <= 2 * size
  BY <1>1, <1>2, <1>3
<1> QED
  BY <1>2, <1>3, <1>4 DEF data, size, estimate

(* A redeem's of a whole position.                                          *)
LEMMA WholeRedeemSizes ==
  ASSUME NEW n \in Nat, NEW p \in 1 .. 2
  PROVE  LET size     == Vsize(n, 1, p, 0, 0)
             estimate == EstimateVsize(n + 1, 2, 0)
         IN  /\ size \in Nat /\ estimate \in Nat
             /\ size <= estimate /\ estimate <= 2 * size
<1> DEFINE size     == Vsize(n, 1, p, 0, 0)
           estimate == EstimateVsize(n + 1, 2, 0)
<1>1. /\ size \in Nat /\ 4 * size <= 109 + 230 * n + 342 * 1 + 172 * p + 4 * 0
      /\ 4 * size >= 42 + 230 * n + 342 * 1 + 172 * p + 4 * 0
  <2>1. p \in Nat
    OBVIOUS
  <2>2. size \in Nat
    BY <2>1, SizeIsBelow, 0 \in Nat, 1 \in Nat
  <2>3. 4 * size <= 109 + 230 * n + 342 * 1 + 172 * p + 4 * 0
    BY <2>1, SizeIsBelow, 0 \in Nat, 1 \in Nat
  <2>4. 4 * size >= 42 + 230 * n + 342 * 1 + 172 * p + 4 * 0
    BY <2>1, SizeIsAbove, 0 \in Nat, 1 \in Nat
  <2> QED
    BY <2>2, <2>3, <2>4
<1>2. /\ estimate \in Nat
      /\ 400 * estimate >= 135 * (48 + 274 * (n + 1) + 172 * (2 - 0) + 276 * 0)
      /\ 400 * estimate < 135 * (48 + 274 * (n + 1) + 172 * (2 - 0) + 276 * 0) + 1340
  BY 0 \in 0 .. 2, n + 1 \in Nat, EstimateIsAbove, EstimateIsBelow
<1> HIDE DEF size, estimate
<1>3. size <= estimate /\ estimate <= 2 * size
  BY <1>1, <1>2
<1> QED
  BY <1>1, <1>2, <1>3 DEF size, estimate

----------------------------------------------------------------------------
(* The size of a transaction that was built. *)

(* As many inputs as coins, if no outpoint is listed twice.                 *)
LEMMA InputsCount ==
  ASSUME NEW coins, Listed(coins), NEW S, S \subseteq coins, NEW sequence
  PROVE  /\ IsFiniteSet(Inputs(S, sequence))
         /\ Cardinality(Inputs(S, sequence)) = Cardinality(S)
<1> DEFINE T == Inputs(S, sequence)
           h == [u \in S |-> [out |-> u.out, sequence |-> sequence]]
<1>1. IsFiniteSet(S)
  BY FS_Subset DEF Listed, Coins
<1>2. h \in [S -> T] /\ \A t \in T : \E u \in S : h[u] = t
  BY DEF Inputs
<1>3. \A u, v \in S : h[u] = h[v] => u = v
  BY DEF Listed
<1> HIDE DEF h, T
<1>4. h \in Bijection(S, T)
  BY <1>2, <1>3 DEF Bijection, Injection, Surjection, IsInjective
<1>5. ExistsBijection(S, T)
  BY <1>4 DEF ExistsBijection
<1> QED
  BY <1>1, <1>5, FS_Bijection DEF T

(* How many outputs there are.                                              *)
LEMMA VoutsCount ==
  ASSUME NEW tx, Len(tx.outputs) \in Nat
  PROVE  IsFiniteSet(Vouts(tx)) /\ Cardinality(Vouts(tx)) = Len(tx.outputs)
<1> DEFINE last == Len(tx.outputs) - 1
<1>1. /\ IsFiniteSet(0 .. last)
      /\ Cardinality(0 .. last) = IF 0 > last THEN 0 ELSE last - 0 + 1
  BY FS_Interval, SMTT(60)
<1> QED
  BY <1>1 DEF Vouts

(* One output with metadata, the others with keys.                          *)
LEMMA SizeWithMetadata ==
  ASSUME NEW tx, Len(tx.outputs) \in Nat, NEW m, m \in Vouts(tx),
         ~IsP2TR(Output(tx, m)), \A v \in Vouts(tx) \ {m} : IsP2TR(Output(tx, v)),
         MetadataOf(tx, m) \in Int
  PROVE  VsizeOf(tx) = Vsize(Cardinality(tx.inputs) - ScriptPaths(tx), ScriptPaths(tx),
                             Len(tx.outputs) - 1, 1, MetadataOf(tx, m))
<1>1. MetadataVouts(tx) = {m}
  BY DEF MetadataVouts
<1>2. Cardinality(Vouts(tx) \ {m}) = Len(tx.outputs) - 1 /\ Cardinality({m}) = 1
  BY VoutsCount, FS_RemoveElement, FS_Singleton
<1> DEFINE f == [v \in {m} |-> MetadataOf(tx, v)]
<1>3. SumFunction(f) = SumFunctionOnSet(f, {m})
  BY DEF SumFunction
<1>4. f[m] = MetadataOf(tx, m)
  OBVIOUS
<1> HIDE DEF f
<1>5. SumFunction(f) = MetadataOf(tx, m)
  BY <1>3, <1>4, SumOfOne
<1> QED
  BY <1>1, <1>2, <1>5 DEF VsizeOf, f

(* Keys only.                                                               *)
LEMMA SizeWithoutMetadata ==
  ASSUME NEW tx, Len(tx.outputs) \in Nat, \A v \in Vouts(tx) : IsP2TR(Output(tx, v))
  PROVE  VsizeOf(tx) = Vsize(Cardinality(tx.inputs) - ScriptPaths(tx), ScriptPaths(tx),
                             Len(tx.outputs), 0, 0)
<1>1. MetadataVouts(tx) = {}
  BY DEF MetadataVouts
<1>2. Cardinality(Vouts(tx) \ {}) = Len(tx.outputs) /\ Cardinality({}) = 0
  <2>1. Vouts(tx) \ {} = Vouts(tx)
    OBVIOUS
  <2> QED
    BY <2>1, VoutsCount, FS_EmptySet
<1> DEFINE f == [v \in {} |-> MetadataOf(tx, v)]
<1>3. SumFunction(f) = SumFunctionOnSet(f, {})
  BY DEF SumFunction
<1>4. SumFunction(f) = 0
  BY <1>3, SumEmpty
<1> QED
  BY <1>1, <1>2, <1>4 DEF VsizeOf

(* A fee that was estimated, with the dust that is left to it.              *)
LEMMA EstimateIsPaid ==
  ASSUME NEW rate \in Nat, NEW floor \in Nat, NEW size \in Nat, NEW estimate \in Nat,
         NEW most \in Nat, size <= estimate, estimate <= 2 * most, NEW change \in Int
  PROVE  LET fee == Max({floor, CalculateFee(estimate, rate)})
         IN  /\ fee \in Nat /\ FeePaid(fee, change) \in Int
             /\ FeePaid(fee, change) < 2 * Max({floor, rate * most}) + DUST_THRESHOLD
             /\ change >= 0 => FeePaid(fee, change) >= Max({floor, rate * size})
<1> DEFINE fee  == Max({floor, CalculateFee(estimate, rate)})
           due  == Max({floor, rate * size})
           most2 == Max({floor, rate * most})
<1>1. fee \in Nat /\ fee >= due /\ fee <= 2 * most2
  BY DueIsPaid
<1>2. due \in Int /\ most2 \in Int
  <2>1. rate * size \in Int /\ rate * most \in Int /\ floor \in Int
    OBVIOUS
  <2> QED
    BY <2>1, MaxOfTwo
<1> HIDE DEF fee, due, most2
<1>3. /\ FeePaid(fee, change) \in Int
      /\ FeePaid(fee, change) < fee + DUST_THRESHOLD
      /\ change >= 0 => FeePaid(fee, change) >= fee
  <2>1. fee \in Int
    BY <1>1
  <2> QED
    BY <2>1, DustIsPaid
<1>4. DUST_THRESHOLD \in Nat
  BY FeeConstants
<1> QED
  BY <1>1, <1>2, <1>3, <1>4 DEF fee, due, most2

(* Whether change is there.                                                 *)
LEMMA ChangeIsSeen ==
  ASSUME NEW change \in Int, NEW script
  PROVE  \/ /\ ChangeOutputs(change, script) = << >> /\ Len(ChangeOutputs(change, script)) = 0
         \/ /\ ChangeOutputs(change, script) = <<Paying(change, script)>>
            /\ Len(ChangeOutputs(change, script)) = 1 /\ change > 0
<1> DEFINE last == ChangeOutputs(change, script)
<1>1. last = << >> \/ (last = <<Paying(change, script)>> /\ change > 0)
  BY ChangeIsSome
<1> HIDE DEF last
<1>2. last = << >> => Len(last) = 0
  OBVIOUS
<1>3. last = <<Paying(change, script)>> => Len(last) = 1
  OBVIOUS
<1> QED
  BY <1>1, <1>2, <1>3 DEF last

(* Metadata is no key.                                                      *)
LEMMA KeysAndMetadata ==
  /\ \A value, key : IsP2TR(Paying(value, TokenP2TR(key)))
  /\ \A value, key, lock : IsP2TR(Paying(value, CollateralMAST(key, lock)))
  /\ \A value, script : script.type = "p2tr" => IsP2TR(Paying(value, script))
  /\ \A data : ~IsP2TR(Metadata(data)) /\ Metadata(data).script.data = data
BY DEF IsP2TR, Paying, TokenP2TR, CollateralMAST, P2TR, Metadata, OpReturn

(* The size of a mint.                                                      *)
LEMMA SizeOfMint ==
  ASSUME NEW r, NEW coins, Listed(coins), NEW collateral, NEW lock, NEW owner,
         NEW script, script.type = "p2tr",
         NEW change \in Int, change = ValueOf(coins) - collateral - MintFee(coins, r.feeRate)
  PROVE  LET tx == MintTx(r, coins, collateral, lock, owner, script).tx
         IN  /\ Cardinality(tx.inputs) = Cardinality(coins)
             /\ \E p \in 2 .. 3 :
                  /\ change <= 0 => p = 2
                  /\ VsizeOf(tx) = Vsize(Cardinality(coins), 0, p, 1,
                                         MetadataOutput(MetadataSize(3, 1)))
<1> DEFINE tx     == MintTx(r, coins, collateral, lock, owner, script).tx
           data   == [txType |-> "mint", amounts |-> <<r.ddAmountCents>>,
                      lockHeight |-> lock, lockTier |-> r.lockTier]
           locked == Paying(collateral, CollateralMAST(owner, lock))
           token  == Paying(0, TokenP2TR(owner))
           meta   == Metadata(data)
           paid   == Paying(change, script)
           last   == ChangeOutputs(change, script)
           outputs == tx.outputs
<1>1. /\ tx.outputs = <<locked, token, meta>> \o last
      /\ tx.version = "mint" /\ tx.inputs = Inputs(coins, "FINAL")
  BY DEF MintTx
<1>2. Cardinality(tx.inputs) = Cardinality(coins) /\ Cardinality(coins) \in Nat
  <2>1. Cardinality(Inputs(coins, "FINAL")) = Cardinality(coins)
    BY InputsCount
  <2>2. Cardinality(coins) \in Nat
    BY FS_CardinalityType DEF Listed, Coins
  <2> QED
    BY <1>1, <2>1, <2>2
<1>3. last = << >> \/ (last = <<paid>> /\ change > 0)
  BY ChangeIsSeen
<1>4. Len(<<r.ddAmountCents>>) = 1 /\ data.amounts = <<r.ddAmountCents>>
  OBVIOUS
<1>5. /\ IsP2TR(locked) /\ IsP2TR(token) /\ IsP2TR(paid)
      /\ ~IsP2TR(meta) /\ meta.script.data = data
  BY KeysAndMetadata
<1> HIDE DEF tx, last, locked, token, meta, paid, data
<1>6. /\ Len(outputs) \in Nat
      /\ \/ Len(outputs) = 3
         \/ Len(outputs) = 4 /\ outputs[4] = paid /\ last = <<paid>>
      /\ outputs[1] = locked /\ outputs[2] = token /\ outputs[3] = meta
  <2> HIDE DEF outputs
  <2>1. outputs = <<locked, token, meta>> \o last
    BY <1>1 DEF outputs
  <2>2. last = << >> \/ last = <<paid>>
    BY <1>3
  <2> QED
    BY <2>1, <2>2, ThreeAndChange
<1>7. Vouts(tx) = 0 .. Len(tx.outputs) - 1
  BY DEF Vouts
<1>8. /\ Output(tx, 0) = locked /\ Output(tx, 1) = token /\ Output(tx, 2) = meta
      /\ Len(tx.outputs) = 4 => Output(tx, 3) = paid
  BY <1>6 DEF Output
<1>9. 2 \in Vouts(tx) /\ \A v \in Vouts(tx) \ {2} : IsP2TR(Output(tx, v))
  <2> DEFINE m == Len(tx.outputs)
  <2>1. (m = 3 \/ m = 4) /\ Vouts(tx) = 0 .. m - 1
    BY <1>6, <1>7
  <2> HIDE DEF m
  <2>2. 2 \in Vouts(tx) /\ \A v \in Vouts(tx) \ {2} : v \in {0, 1} \/ (v = 3 /\ m = 4)
    BY <2>1
  <2> QED
    BY <1>5, <1>8, <2>2 DEF m
<1>10. ScriptPaths(tx) = 0
  BY <1>1 DEF ScriptPaths
<1>11. MetadataOf(tx, 2) = MetadataOutput(MetadataSize(3, 1))
  <2>1. Len(Output(tx, 2).script.data.amounts) = 1
    BY <1>4, <1>5, <1>8
  <2>2. tx.version = "mint"
    BY <1>1
  <2>3. MetadataOf(tx, 2) = MetadataOutput(MetadataSize(1 + 2, 1))
    BY <2>1, <2>2 DEF MetadataOf
  <2> QED
    BY <2>3
<1>12. MetadataOutput(MetadataSize(3, 1)) \in Int
  BY MetadataIsBelow
<1>13. VsizeOf(tx) = Vsize(Cardinality(tx.inputs) - 0, 0, Len(tx.outputs) - 1, 1,
                           MetadataOutput(MetadataSize(3, 1)))
  BY <1>5, <1>6, <1>8, <1>9, <1>10, <1>11, <1>12, SizeWithMetadata
<1>14. Cardinality(tx.inputs) - 0 = Cardinality(coins)
  BY <1>2
<1>15. Len(tx.outputs) - 1 \in 2 .. 3 /\ (change <= 0 => Len(tx.outputs) - 1 = 2)
  <2>1. last = <<paid>> => change > 0
    <3>1. <<paid>> # << >>
      OBVIOUS
    <3> QED
      BY <1>3, <3>1
  <2> QED
    BY <1>6, <2>1
<1> QED
  BY <1>2, <1>13, <1>14, <1>15 DEF tx

(* A mint's fee.                                                            *)
LEMMA FeeOfMint ==
  ASSUME NEW r, r.feeRate \in Nat, NEW coins, Listed(coins), NEW collateral \in Int,
         NEW lock, NEW owner, NEW script, script.type = "p2tr",
         ValueOf(coins) >= MintTarget(collateral, r.feeRate)
  PROVE  LET b    == MintTx(r, coins, collateral, lock, owner, script)
             n    == Cardinality(b.tx.inputs)
             size == VsizeOf(b.tx)
         IN  /\ n > 6 => b.fee >= r.feeRate * EstimateVsize(3, 4, 1)
             /\ ~(n > 6) => b.fee >= Max({MIN_DD_FEE, r.feeRate * size})
             /\ size \in Nat
             /\ b.fee < 2 * Max({MIN_DD_FEE, r.feeRate * size}) + DUST_THRESHOLD
<1> DEFINE b        == MintTx(r, coins, collateral, lock, owner, script)
           rate     == r.feeRate
           n        == Cardinality(coins)
           estimate == EstimateVsize(n, 4, 1)
           three    == EstimateVsize(3, 4, 1)
           fee      == Max({MIN_DD_FEE, CalculateFee(estimate, rate)})
           target   == Max({MIN_DD_FEE, CalculateFee(three, rate)})
           change   == ValueOf(coins) - collateral - fee
           size     == VsizeOf(b.tx)
           due      == Max({MIN_DD_FEE, rate * size})
<1>1. MintFee(coins, rate) = fee /\ MintTarget(collateral, rate) = collateral + target
  BY DEF MintFee, MintTarget
<1>2. b.fee = FeePaid(fee, change)
  BY <1>1 DEF MintTx
<1>3. n \in Nat /\ ValueOf(coins) \in Int /\ rate \in Nat /\ MIN_DD_FEE \in Nat
  <2>1. Coins(coins)
    BY DEF Listed
  <2> QED
    BY <2>1, WorthOf, FeeConstants
<1>4. /\ estimate \in Nat /\ three \in Nat
      /\ n > 6 => three <= estimate
  BY <1>3, 3 \in 2 .. 3, MintSizes
<1>5. /\ target \in Int /\ target >= MIN_DD_FEE /\ target >= rate * three
      /\ fee \in Int /\ fee >= rate * estimate
  <2>1. CalculateFee(three, rate) = rate * three /\ CalculateFee(estimate, rate) = rate * estimate
    BY <1>3, <1>4 DEF CalculateFee
  <2>2. rate * three \in Int /\ rate * estimate \in Int /\ MIN_DD_FEE \in Int
    BY <1>3, <1>4
  <2> HIDE DEF three, estimate, rate
  <2> QED
    BY <2>1, <2>2, MaxOfTwo
<1> HIDE DEF fee, target
<1>6. change \in Int
  BY <1>3, <1>5
<1>7. PICK p \in 2 .. 3 :
        /\ change <= 0 => p = 2
        /\ size = Vsize(n, 0, p, 1, MetadataOutput(MetadataSize(3, 1)))
  BY <1>1, <1>6, SizeOfMint DEF fee
<1>8. Cardinality(b.tx.inputs) = n
  BY <1>1, <1>6, SizeOfMint DEF fee
<1> HIDE DEF b, size, change
<1>9. /\ size \in Nat /\ size <= estimate /\ estimate <= 2 * size
      /\ p = 2 /\ n <= 6 => size <= three
  BY <1>3, <1>7, MintSizes
<1> HIDE DEF estimate, three, n, rate
<1>10. /\ FeePaid(fee, change) \in Int
       /\ FeePaid(fee, change) < 2 * due + DUST_THRESHOLD
       /\ change >= 0 => FeePaid(fee, change) >= due
       /\ change >= 0 => FeePaid(fee, change) >= fee
       /\ change < 0 => FeePaid(fee, change) = fee + change
  <2>1. /\ FeePaid(fee, change) \in Int
        /\ FeePaid(fee, change) < 2 * due + DUST_THRESHOLD
        /\ change >= 0 => FeePaid(fee, change) >= due
    BY <1>3, <1>4, <1>6, <1>9, EstimateIsPaid DEF fee
  <2>2. /\ change >= 0 => FeePaid(fee, change) >= fee
        /\ change < 0 => FeePaid(fee, change) = fee + change
    BY <1>5, <1>6, DustIsPaid
  <2> QED
    BY <2>1, <2>2
<1>11. change < 0 => FeePaid(fee, change) >= target
  <2>1. ValueOf(coins) >= collateral + target
    BY <1>1 DEF rate
  <2>2. fee + change = ValueOf(coins) - collateral
    BY <1>3, <1>5 DEF change
  <2> QED
    BY <1>3, <1>5, <1>10, <2>1, <2>2
<1>12. ASSUME n > 6 PROVE FeePaid(fee, change) >= rate * three
  <2>1. rate * three \in Int /\ rate * estimate \in Int /\ rate * three <= rate * estimate
    BY <1>3, <1>4, <1>12, RatesGrow
  <2> QED
    BY <1>5, <1>6, <1>10, <1>11, <2>1
<1>13. ASSUME ~(n > 6) PROVE FeePaid(fee, change) >= due
  <2>1. CASE change >= 0
    BY <1>10, <2>1
  <2>2. CASE change < 0
    <3>1. size <= three
      BY <1>3, <1>6, <1>7, <1>9, <1>13, <2>2 DEF n
    <3>2. rate * size \in Int /\ rate * three \in Int /\ rate * size <= rate * three
      BY <1>3, <1>4, <1>9, <3>1, RatesGrow
    <3>3. due \in {MIN_DD_FEE, rate * size}
      <4>1. \A x, y \in Int : \E m \in {x, y} : \A z \in {x, y} : m >= z
        OBVIOUS
      <4> QED
        BY <1>3, <3>2, <4>1 DEF Max
    <3> HIDE DEF due
    <3> QED
      BY <1>3, <1>5, <1>10, <1>11, <2>2, <3>2, <3>3
  <2> QED
    BY <1>6, <2>1, <2>2
<1> QED
  BY <1>2, <1>8, <1>9, <1>10, <1>12, <1>13 DEF b, size, rate, n, three, due

(* The inputs of a redeem: its collateral and tokens are told from its      *)
(* coins by their sequence.                                                 *)
LEMMA InputsOfRedeem ==
  ASSUME NEW collateral, NEW tokens, Listed({collateral} \union tokens),
         collateral \notin tokens, NEW coins, Listed(coins), NEW inputs,
         inputs = Inputs({collateral} \union tokens, "CLTV_ENABLED")
                    \union Inputs(coins, "FINAL")
  PROVE  /\ Cardinality(tokens) \in Nat /\ Cardinality(coins) \in Nat
         /\ Cardinality(inputs) = 1 + Cardinality(tokens) + Cardinality(coins)
<1> DEFINE A == Inputs({collateral} \union tokens, "CLTV_ENABLED")
           B == Inputs(coins, "FINAL")
<1>1. IsFiniteSet(tokens) /\ IsFiniteSet(coins) /\ IsFiniteSet({collateral} \union tokens)
  <2>1. tokens \subseteq {collateral} \union tokens
    OBVIOUS
  <2>2. IsFiniteSet({collateral} \union tokens) /\ IsFiniteSet(coins)
    BY DEF Listed, Coins
  <2> QED
    BY <2>1, <2>2, FS_Subset
<1>2. Cardinality(tokens) \in Nat /\ Cardinality(coins) \in Nat
  BY <1>1, FS_CardinalityType
<1>3. Cardinality({collateral} \union tokens) = Cardinality(tokens) + 1
  <2>1. Cardinality(tokens \union {collateral}) = Cardinality(tokens) + 1
    BY <1>1, FS_AddElement
  <2>2. tokens \union {collateral} = {collateral} \union tokens
    OBVIOUS
  <2> QED
    BY <2>1, <2>2
<1>4. /\ IsFiniteSet(A) /\ Cardinality(A) = Cardinality(tokens) + 1
      /\ IsFiniteSet(B) /\ Cardinality(B) = Cardinality(coins)
  BY <1>3, InputsCount
<1>5. A \intersect B = {}
  <2>1. \A i \in A : i.sequence = "CLTV_ENABLED"
    BY DEF Inputs
  <2>2. \A i \in B : i.sequence = "FINAL"
    BY DEF Inputs
  <2> QED
    BY <2>1, <2>2
<1> HIDE DEF A, B
<1>6. Cardinality(A \union B) = Cardinality(A) + Cardinality(B) - Cardinality({})
  BY <1>4, <1>5, FS_Union
<1>7. Cardinality({}) = 0
  BY FS_EmptySet
<1>8. Cardinality(A \union B) = 1 + Cardinality(tokens) + Cardinality(coins)
  BY <1>2, <1>4, <1>6, <1>7
<1>9. inputs = A \union B
  BY DEF A, B
<1> QED
  BY <1>2, <1>8, <1>9

(* The size of a redeem that gives back DigiDollars, and of one that gives  *)
(* none.                                                                    *)
LEMMA SizeOfRedeem ==
  ASSUME NEW cents, NEW unlock, NEW collateral,
         NEW tokens, Listed({collateral} \union tokens), collateral \notin tokens,
         NEW coins, Listed(coins), NEW rate, NEW owner, NEW script, script.type = "p2tr",
         RedeemTx(cents, unlock, collateral, tokens, coins, rate, owner, script).change \in Int
  PROVE  LET tx == RedeemTx(cents, unlock, collateral, tokens, coins, rate, owner, script).tx
             n  == Cardinality(tokens) + Cardinality(coins)
         IN  /\ CentsOf(tokens) - cents > 0 =>
                  \E p \in 2 .. 3 :
                    VsizeOf(tx) = Vsize(n, 1, p, 1, MetadataOutput(MetadataSize(1, 0)))
             /\ ~(CentsOf(tokens) - cents > 0) =>
                  \E p \in 1 .. 2 : VsizeOf(tx) = Vsize(n, 1, p, 0, 0)
<1> DEFINE b        == RedeemTx(cents, unlock, collateral, tokens, coins, rate, owner, script)
           tx       == b.tx
           n        == Cardinality(tokens) + Cardinality(coins)
           ddChange == CentsOf(tokens) - cents
           back     == DDChangeOutputs(ddChange, owner)
           first    == Paying(collateral.value, script)
           token    == Paying(0, TokenP2TR(owner))
           meta     == Metadata([txType |-> "redeem", amounts |-> <<ddChange>>])
           change   == b.change
           paid     == Paying(change, script)
           last     == ChangeOutputs(change, script)
           outputs  == tx.outputs
<1>1. /\ tx.outputs = <<first>> \o back \o last /\ tx.version = "redeem"
      /\ tx.inputs = Inputs({collateral} \union tokens, "CLTV_ENABLED")
                       \union Inputs(coins, "FINAL")
  BY DEF RedeemTx
<1>2. /\ ddChange > 0 => back = <<token, meta>>
      /\ ~(ddChange > 0) => back = << >>
  BY DEF DDChangeOutputs
<1>3. last = << >> \/ last = <<paid>>
  BY ChangeIsSeen
<1>4. /\ IsP2TR(first) /\ IsP2TR(token) /\ IsP2TR(paid) /\ ~IsP2TR(meta)
      /\ Len(meta.script.data.amounts) = 1
  <2>1. [txType |-> "redeem", amounts |-> <<ddChange>>].amounts = <<ddChange>>
    OBVIOUS
  <2> HIDE DEF ddChange
  <2>2. Len(<<ddChange>>) = 1
    OBVIOUS
  <2> QED
    BY <2>1, <2>2, KeysAndMetadata
<1>5. n \in Nat /\ Cardinality(tx.inputs) - 1 = n /\ ScriptPaths(tx) = 1
  <2>1. /\ Cardinality(tokens) \in Nat /\ Cardinality(coins) \in Nat
        /\ Cardinality(tx.inputs) = 1 + Cardinality(tokens) + Cardinality(coins)
    <3> DEFINE inputs == tx.inputs
    <3>1. inputs = Inputs({collateral} \union tokens, "CLTV_ENABLED")
                     \union Inputs(coins, "FINAL")
      BY <1>1
    <3> HIDE DEF inputs, b, tx, n, ddChange, back, first, token, meta, change, paid, last
    <3>2. /\ Cardinality(tokens) \in Nat /\ Cardinality(coins) \in Nat
          /\ Cardinality(inputs) = 1 + Cardinality(tokens) + Cardinality(coins)
      <4>1. Cardinality(tokens) \in Nat
        BY <3>1, InputsOfRedeem, Zenon
      <4>2. Cardinality(coins) \in Nat
        BY <3>1, InputsOfRedeem, Zenon
      <4>3. Cardinality(inputs) = 1 + Cardinality(tokens) + Cardinality(coins)
        BY <3>1, InputsOfRedeem, SMTT(30)
      <4> QED
        BY <4>1, <4>2, <4>3
    <3> QED
      BY <3>2 DEF inputs
  <2>2. ScriptPaths(tx) = 1
    BY <1>1 DEF ScriptPaths
  <2> HIDE DEF tx
  <2> QED
    BY <2>1, <2>2
<1> HIDE DEF b, tx, n, ddChange, back, first, token, meta, change, paid, last
<1>6. Vouts(tx) = 0 .. Len(tx.outputs) - 1
  BY DEF Vouts
<1>7. ASSUME ddChange > 0
      PROVE  \E p \in 2 .. 3 :
               VsizeOf(tx) = Vsize(n, 1, p, 1, MetadataOutput(MetadataSize(1, 0)))
  <2>1. outputs = <<first, token, meta>> \o last
    <3>1. <<first>> \o <<token, meta>> = <<first, token, meta>>
      BY OneThenTwo
    <3> QED
      BY <1>1, <1>2, <1>7, <3>1, Zenon
  <2>2. /\ Len(outputs) \in Nat
        /\ Len(outputs) = 3 \/ (Len(outputs) = 4 /\ outputs[4] = paid)
        /\ outputs[1] = first /\ outputs[2] = token /\ outputs[3] = meta
    <3> HIDE DEF outputs
    <3> QED
      BY <1>3, <2>1, ThreeAndChange
  <2>3. /\ Output(tx, 0) = first /\ Output(tx, 1) = token /\ Output(tx, 2) = meta
        /\ Len(tx.outputs) = 4 => Output(tx, 3) = paid
    BY <2>2 DEF Output
  <2>4. 2 \in Vouts(tx) /\ \A v \in Vouts(tx) \ {2} : IsP2TR(Output(tx, v))
    <3> DEFINE m == Len(tx.outputs)
    <3>1. (m = 3 \/ m = 4) /\ Vouts(tx) = 0 .. m - 1
      BY <1>6, <2>2
    <3> HIDE DEF m
    <3>2. 2 \in Vouts(tx) /\ \A v \in Vouts(tx) \ {2} : v \in {0, 1} \/ (v = 3 /\ m = 4)
      BY <3>1
    <3> QED
      BY <1>4, <2>3, <3>2 DEF m
  <2>5. MetadataOf(tx, 2) = MetadataOutput(MetadataSize(1, 0))
    <3>1. tx.version # "mint" /\ Len(Output(tx, 2).script.data.amounts) = 1
      BY <1>1, <1>4, <2>3
    <3> QED
      BY <3>1 DEF MetadataOf
  <2>6. MetadataOutput(MetadataSize(1, 0)) \in Int
    BY MetadataIsBelow, 0 \in Nat, 1 \in Nat
  <2>7. VsizeOf(tx) = Vsize(Cardinality(tx.inputs) - 1, 1, Len(tx.outputs) - 1, 1,
                            MetadataOutput(MetadataSize(1, 0)))
    BY <1>4, <1>5, <2>2, <2>3, <2>4, <2>5, <2>6, SizeWithMetadata
  <2>8. Len(tx.outputs) - 1 \in 2 .. 3
    BY <2>2
  <2> QED
    BY <1>5, <2>7, <2>8
<1>8. ASSUME ~(ddChange > 0)
      PROVE  \E p \in 1 .. 2 : VsizeOf(tx) = Vsize(n, 1, p, 0, 0)
  <2>1. outputs = <<first>> \o last
    <3>1. <<first>> \o << >> = <<first>>
      OBVIOUS
    <3> QED
      BY <1>1, <1>2, <1>8, <3>1
  <2>2. /\ Len(outputs) \in Nat
        /\ Len(outputs) = 1 \/ (Len(outputs) = 2 /\ outputs[2] = paid)
        /\ outputs[1] = first
    <3> HIDE DEF outputs
    <3> QED
      BY <1>3, <2>1, OneAndChange
  <2>3. Output(tx, 0) = first /\ (Len(tx.outputs) = 2 => Output(tx, 1) = paid)
    BY <2>2 DEF Output
  <2>4. \A v \in Vouts(tx) : IsP2TR(Output(tx, v))
    <3> DEFINE m == Len(tx.outputs)
    <3>1. (m = 1 \/ m = 2) /\ Vouts(tx) = 0 .. m - 1
      BY <1>6, <2>2
    <3> HIDE DEF m
    <3>2. \A v \in Vouts(tx) : v = 0 \/ (v = 1 /\ m = 2)
      BY <3>1
    <3> QED
      BY <1>4, <2>3, <3>2 DEF m
  <2>5. VsizeOf(tx) = Vsize(Cardinality(tx.inputs) - 1, 1, Len(tx.outputs), 0, 0)
    BY <1>5, <2>2, <2>4, SizeWithoutMetadata
  <2>6. Len(tx.outputs) \in 1 .. 2
    BY <2>2
  <2> QED
    BY <1>5, <2>5, <2>6
<1> QED
  BY <1>7, <1>8 DEF b, tx, n, ddChange

(* A redeem's fee.                                                          *)
LEMMA FeeOfRedeem ==
  ASSUME NEW cents, NEW unlock, NEW collateral,
         NEW tokens, Listed({collateral} \union tokens), collateral \notin tokens,
         NEW coins, Listed(coins), NEW rate \in Nat, NEW owner,
         NEW script, script.type = "p2tr",
         RedeemTx(cents, unlock, collateral, tokens, coins, rate, owner, script).change >= 0
  PROVE  LET b    == RedeemTx(cents, unlock, collateral, tokens, coins, rate, owner, script)
             size == VsizeOf(b.tx)
         IN  /\ size \in Nat /\ b.fee >= Max({MIN_REDEEM_FEE, rate * size})
             /\ b.fee < 2 * Max({MIN_REDEEM_FEE, rate * size}) + DUST_THRESHOLD
<1> DEFINE b        == RedeemTx(cents, unlock, collateral, tokens, coins, rate, owner, script)
           n        == Cardinality(tokens) + Cardinality(coins)
           ddChange == CentsOf(tokens) - cents
           back     == DDChangeOutputs(ddChange, owner)
           estimate == EstimateVsize(1 + Cardinality(tokens) + Cardinality(coins),
                                     Len(back) + 2, IF ddChange > 0 THEN 1 ELSE 0)
           fee      == Max({MIN_REDEEM_FEE, CalculateFee(estimate, rate)})
           size     == VsizeOf(b.tx)
<1>1. b.fee = FeePaid(fee, b.change) /\ b.change = ValueOf(coins) - fee
  BY DEF RedeemTx
<1>2. /\ Cardinality(tokens) \in Nat /\ Cardinality(coins) \in Nat
      /\ ValueOf(coins) \in Int /\ MIN_REDEEM_FEE \in Nat
  <2>1. Coins(coins)
    BY DEF Listed
  <2>2. Cardinality(tokens) \in Nat /\ Cardinality(coins) \in Nat
    BY InputsOfRedeem, Zenon
  <2>3. ValueOf(coins) \in Nat
    BY <2>1, WorthOf
  <2> QED
    BY <2>2, <2>3, FeeConstants
<1>3. n \in Nat /\ 1 + Cardinality(tokens) + Cardinality(coins) = n + 1
  BY <1>2
<1>4. /\ ddChange > 0 => estimate = EstimateVsize(n + 1, 4, 1)
      /\ ~(ddChange > 0) => estimate = EstimateVsize(n + 1, 2, 0)
  <2> DEFINE token == Paying(0, TokenP2TR(owner))
             meta  == Metadata([txType |-> "redeem", amounts |-> <<ddChange>>])
  <2>1. /\ ddChange > 0 => back = <<token, meta>>
        /\ ~(ddChange > 0) => back = << >>
    BY DEF DDChangeOutputs
  <2> HIDE DEF token, meta, back, ddChange, n
  <2>2. /\ ddChange > 0 => Len(back) + 2 = 4
        /\ ~(ddChange > 0) => Len(back) + 2 = 2
    <3>1. Len(<<token, meta>>) + 2 = 4
      OBVIOUS
    <3>2. Len(<< >>) + 2 = 2
      OBVIOUS
    <3> QED
      BY <2>1, <3>1, <3>2
  <2> QED
    BY <1>3, <2>2
<1> HIDE DEF estimate, ddChange
<1>5. estimate \in Nat
  <2>1. 2 \in 2 .. 3 /\ 1 \in 1 .. 2
    OBVIOUS
  <2> HIDE DEF n
  <2>2. EstimateVsize(n + 1, 4, 1) \in Nat
    BY <1>3, <2>1, PartialRedeemSizes
  <2>3. EstimateVsize(n + 1, 2, 0) \in Nat
    BY <1>3, <2>1, WholeRedeemSizes
  <2> QED
    BY <1>4, <2>2, <2>3
<1>6. fee \in Int
  <2>1. estimate \in Int /\ MIN_REDEEM_FEE \in Int /\ rate \in Int
    BY <1>2, <1>5
  <2> QED
    BY <2>1, FeeType
<1> HIDE DEF fee
<1>7. b.change \in Int
  BY <1>1, <1>2, <1>6
<1>8. size \in Nat /\ size <= estimate /\ estimate <= 2 * size
  <2>1. CASE ddChange > 0
    <3>1. PICK p \in 2 .. 3 : size = Vsize(n, 1, p, 1, MetadataOutput(MetadataSize(1, 0)))
      BY <1>7, <2>1, SizeOfRedeem DEF ddChange
    <3> HIDE DEF size, n
    <3> QED
      BY <1>3, <1>4, <2>1, <3>1, PartialRedeemSizes
  <2>2. CASE ~(ddChange > 0)
    <3>1. PICK p \in 1 .. 2 : size = Vsize(n, 1, p, 0, 0)
      BY <1>7, <2>2, SizeOfRedeem DEF ddChange
    <3> HIDE DEF size, n
    <3> QED
      BY <1>3, <1>4, <2>2, <3>1, WholeRedeemSizes
  <2> QED
    BY <2>1, <2>2
<1> DEFINE change == b.change
<1>9. change >= 0 /\ change \in Int /\ b.fee = FeePaid(fee, change)
  BY <1>1, <1>7
<1> HIDE DEF b, size, change
<1>10. /\ FeePaid(fee, change) < 2 * Max({MIN_REDEEM_FEE, rate * size}) + DUST_THRESHOLD
       /\ change >= 0 => FeePaid(fee, change) >= Max({MIN_REDEEM_FEE, rate * size})
  BY <1>2, <1>5, <1>8, <1>9, EstimateIsPaid DEF fee
<1> QED
  BY <1>8, <1>9, <1>10 DEF b, size

(* Keys, then metadata.                                                     *)
LEMMA MetadataIsLast ==
  ASSUME NEW S, \A o \in S : IsP2TR(o), NEW keys \in Seq(S), NEW meta, ~IsP2TR(meta),
         NEW tx, tx.outputs = keys \o <<meta>>
  PROVE  /\ Len(tx.outputs) = Len(keys) + 1 /\ Len(keys) \in Vouts(tx)
         /\ Output(tx, Len(keys)) = meta
         /\ \A v \in Vouts(tx) \ {Len(keys)} : IsP2TR(Output(tx, v))
<1> DEFINE n       == Len(keys)
           outputs == tx.outputs
<1>1. n \in Nat /\ keys \in Seq(S \union {meta}) /\ <<meta>> \in Seq(S \union {meta})
  <2>1. S \subseteq S \union {meta}
    OBVIOUS
  <2> QED
    BY <2>1
<1>2. /\ Len(outputs) = n + 1 /\ outputs[n + 1] = meta
      /\ \A i \in 1 .. n : outputs[i] = keys[i] /\ keys[i] \in S
  BY <1>1
<1>3. Vouts(tx) = 0 .. n
  BY <1>1, <1>2 DEF Vouts
<1>4. \A v \in 0 .. n : v # n => v + 1 \in 1 .. n
  BY <1>1
<1>5. \A v : Output(tx, v) = outputs[v + 1]
  BY DEF Output
<1> HIDE DEF n, outputs
<1>6. n \in 0 .. n
  BY <1>1
<1>7. \A v \in Vouts(tx) \ {n} : IsP2TR(Output(tx, v))
  BY <1>2, <1>3, <1>4, <1>5
<1> QED
  BY <1>2, <1>3, <1>5, <1>6, <1>7 DEF n, outputs

(* The inputs of a transfer are its tokens and its coins.                   *)
LEMMA InputsOfTransfer ==
  ASSUME NEW tokens, NEW coins, Listed(tokens \union coins), tokens \intersect coins = {}
  PROVE  /\ Cardinality(tokens) \in Nat /\ Cardinality(coins) \in Nat
         /\ ValueOf(coins) \in Nat
         /\ Cardinality(Inputs(tokens \union coins, "FINAL"))
              = Cardinality(tokens) + Cardinality(coins)
<1> DEFINE all == tokens \union coins
<1>1. tokens \subseteq all /\ coins \subseteq all /\ all \subseteq all /\ Coins(all)
  BY DEF Listed
<1> HIDE DEF all
<1>2. /\ IsFiniteSet(tokens) /\ Cardinality(tokens) \in Nat
      /\ IsFiniteSet(coins) /\ Cardinality(coins) \in Nat /\ ValueOf(coins) \in Nat
  BY <1>1, WorthOf
<1>3. Cardinality(all)
        = Cardinality(tokens) + Cardinality(coins) - Cardinality(tokens \intersect coins)
  BY <1>2, FS_Union DEF all
<1>4. Cardinality(tokens \intersect coins) = 0
  BY FS_EmptySet
<1>5. Cardinality(Inputs(all, "FINAL")) = Cardinality(all)
  BY <1>1, InputsCount DEF all
<1>6. Cardinality(Inputs(all, "FINAL")) = Cardinality(tokens) + Cardinality(coins)
  BY <1>2, <1>3, <1>4, <1>5
<1> QED
  BY <1>2, <1>6 DEF all

(* A transfer's fee.                                                        *)
LEMMA FeeOfTransfer ==
  ASSUME NEW r, NEW k \in Nat, k >= 1, DOMAIN r.recipients = 1 .. k, r.feeRate \in Nat,
         NEW tokens, NEW coins, Listed(tokens \union coins), tokens \intersect coins = {},
         NEW owner, NEW script, script.type = "p2tr",
         TransferTx(r, tokens, coins, owner, script).change >= 0
  PROVE  LET b    == TransferTx(r, tokens, coins, owner, script)
             size == VsizeOf(b.tx)
         IN  /\ size \in Nat /\ b.fee >= Max({MIN_DD_FEE, r.feeRate * size})
             /\ b.fee < 2 * Max({MIN_DD_FEE, r.feeRate * (size + 43)}) + DUST_THRESHOLD
<1> DEFINE b        == TransferTx(r, tokens, coins, owner, script)
           tx       == b.tx
           rate     == r.feeRate
           recipients == r.recipients
           n        == Cardinality(tokens) + Cardinality(coins)
           ddChange == CentsOf(tokens) - RecipientCents(recipients)
           back     == IF ddChange > 0 THEN <<ddChange>> ELSE << >>
           cents    == TokenAmounts(recipients, back)
           mine     == Paying(0, TokenP2TR(owner))
           toOther(i) == Paying(0, TokenP2TR(DecodeAddress(recipients[i].to)))
           toOthers == [i \in DOMAIN recipients |-> toOther(i)]
           S        == {toOther(i) : i \in 1 .. k} \union {mine}
           toSelf   == [i \in DOMAIN back |-> mine]
           c        == Len(cents)
           estimate == EstimateVsize(n, c + 2, 1)
           fee      == Max({MIN_DD_FEE, CalculateFee(estimate, rate)})
           change   == b.change
           paid     == Paying(change, script)
           last     == ChangeOutputs(change, script)
           meta     == Metadata([txType |-> "transfer", amounts |-> cents])
           tok      == toOthers \o toSelf
           keys     == tok \o last
           size     == VsizeOf(tx)
           most     == size + 43
<1>1. /\ tx.outputs = keys \o <<meta>> /\ tx.version = "transfer"
      /\ tx.inputs = Inputs(tokens \union coins, "FINAL")
      /\ change = ValueOf(coins) - fee /\ b.fee = FeePaid(fee, change)
  BY DEF TransferTx
<1>2. DOMAIN recipients = 1 .. k /\ rate \in Nat /\ change >= 0
  OBVIOUS
<1>3. back = << >> \/ back = <<ddChange>>
  OBVIOUS
<1>4. IsP2TR(mine) /\ IsP2TR(paid) /\ ~IsP2TR(meta) /\ meta.script.data.amounts = cents
  <2>1. [txType |-> "transfer", amounts |-> cents].amounts = cents
    OBVIOUS
  <2> HIDE DEF cents
  <2> QED
    BY <2>1, KeysAndMetadata
<1> HIDE DEF b, tx, rate, recipients, ddChange, back, mine, change, paid, last, meta
<1>5. /\ toOthers \in Seq(S) /\ Len(toOthers) = k /\ mine \in S
      /\ \A o \in S : IsP2TR(o)
  <2>1. \A o \in S : IsP2TR(o)
    BY <1>4, KeysAndMetadata
  <2>2. toOthers = [i \in 1 .. k |-> toOther(i)] /\ \A i \in 1 .. k : toOther(i) \in S
    BY <1>2
  <2> HIDE DEF toOthers, toOther
  <2>3. [i \in 1 .. k |-> toOther(i)] \in Seq(S) /\ Len([i \in 1 .. k |-> toOther(i)]) = k
    BY <2>2
  <2> QED
    BY <2>1, <2>2, <2>3
<1> HIDE DEF S, toOther, toOthers
<1>6. /\ c = Len(tok) /\ c \in Nat \ {0} /\ tok \in Seq(S)
  <2>1. back = <<ddChange>> => toSelf = <<mine>>
    <3>1. ASSUME back = <<ddChange>> PROVE DOMAIN back = 1 .. 1
      BY <3>1
    <3> QED
      BY <3>1
  <2>2. back = << >> => toSelf = << >>
    OBVIOUS
  <2> HIDE DEF toSelf
  <2>3. CASE back = << >>
    <3>1. tok \in Seq(S) /\ Len(tok) = k
      BY <1>5, <2>2, <2>3
    <3>2. Len(TokenAmounts(recipients, << >>)) = k
      BY <1>2, AmountsWithoutChange
    <3> QED
      BY <2>3, <3>1, <3>2
  <2>4. CASE back = <<ddChange>>
    <3>1. tok \in Seq(S) /\ Len(tok) = k + 1
      <4>1. <<mine>> \in Seq(S) /\ Len(<<mine>>) = 1
        BY <1>5
      <4>2. toOthers \o <<mine>> \in Seq(S) /\ Len(toOthers \o <<mine>>) = k + 1
        BY <1>5, <4>1
      <4> QED
        BY <2>1, <2>4, <4>2
    <3>2. Len(TokenAmounts(recipients, <<ddChange>>)) = k + 1
      BY <1>2, AmountsWithChange
    <3> QED
      BY <2>4, <3>1, <3>2
  <2> QED
    BY <1>3, <2>3, <2>4
<1>7. /\ n \in Nat /\ Cardinality(tx.inputs) - 0 = n /\ ValueOf(coins) \in Nat
      /\ ScriptPaths(tx) = 0 /\ MIN_DD_FEE \in Nat
  <2>1. /\ Cardinality(tokens) \in Nat /\ Cardinality(coins) \in Nat
        /\ ValueOf(coins) \in Nat
        /\ Cardinality(Inputs(tokens \union coins, "FINAL"))
              = Cardinality(tokens) + Cardinality(coins)
    BY InputsOfTransfer
  <2>2. ScriptPaths(tx) = 0
    BY <1>1 DEF ScriptPaths
  <2> QED
    BY <1>1, <2>1, <2>2, FeeConstants
<1> HIDE DEF n, c, cents, toSelf, tok
<1>8. estimate \in Nat
  <2>1. c \in c .. c + 1
    BY <1>6
  <2> QED
    BY <1>6, <1>7, <2>1, TransferSizes
<1>9. change \in Int
  <2>1. estimate \in Int /\ MIN_DD_FEE \in Int /\ rate \in Int
    BY <1>2, <1>7, <1>8
  <2> HIDE DEF estimate
  <2>2. fee \in Int
    BY <2>1, FeeType
  <2> HIDE DEF fee
  <2> QED
    BY <1>1, <1>7, <2>2
<1>10. last = << >> \/ last = <<paid>>
  BY <1>9, ChangeIsSeen DEF last, paid
<1>11. PICK p \in c .. c + 1 : keys \in Seq(S \union {paid}) /\ Len(keys) = p
  <2>1. tok \in Seq(S \union {paid})
    <3>1. S \subseteq S \union {paid}
      OBVIOUS
    <3> QED
      BY <1>6, <3>1
  <2>2. CASE last = << >>
    <3>1. keys \in Seq(S \union {paid}) /\ Len(keys) = c
      BY <1>6, <2>1, <2>2
    <3> QED
      BY <1>6, <3>1
  <2>3. CASE last = <<paid>>
    <3>1. <<paid>> \in Seq(S \union {paid}) /\ Len(<<paid>>) = 1
      OBVIOUS
    <3>2. keys \in Seq(S \union {paid}) /\ Len(keys) = c + 1
      BY <1>6, <2>1, <2>3, <3>1
    <3> QED
      BY <1>6, <3>2
  <2> QED
    BY <1>10, <2>2, <2>3
<1> HIDE DEF keys
<1>12. /\ Len(tx.outputs) = p + 1 /\ p \in Vouts(tx) /\ Output(tx, p) = meta
       /\ \A v \in Vouts(tx) \ {p} : IsP2TR(Output(tx, v))
  <2>1. \A o \in S \union {paid} : IsP2TR(o)
    BY <1>4, <1>5
  <2> QED
    BY <1>1, <1>4, <1>11, <2>1, MetadataIsLast
<1>13. MetadataOf(tx, p) = MetadataOutput(MetadataSize(c, 0))
  <2>1. tx.version # "mint" /\ Len(Output(tx, p).script.data.amounts) = c
    BY <1>1, <1>4, <1>12 DEF c
  <2> QED
    BY <2>1 DEF MetadataOf
<1>14. MetadataOutput(MetadataSize(c, 0)) \in Int
  <2>1. c \in Nat /\ 0 \in Nat
    BY <1>6
  <2> QED
    BY <2>1, MetadataIsBelow
<1>15. p \in Nat /\ p + 1 \in Nat /\ p + 1 - 1 = p
  BY <1>6
<1>16. size = Vsize(n, 0, p, 1, MetadataOutput(MetadataSize(c, 0)))
  <2>1. VsizeOf(tx) = Vsize(Cardinality(tx.inputs) - 0, 0, Len(tx.outputs) - 1, 1,
                            MetadataOf(tx, p))
    BY <1>4, <1>7, <1>12, <1>13, <1>14, <1>15, SizeWithMetadata
  <2> QED
    BY <1>7, <1>12, <1>13, <1>15, <2>1
<1> HIDE DEF size
<1>17. /\ size \in Nat /\ size <= estimate /\ estimate <= 2 * most
  BY <1>6, <1>7, <1>16, TransferSizes
<1>18. most \in Nat
  BY <1>17
<1> HIDE DEF estimate, most
<1>19. /\ FeePaid(fee, change) < 2 * Max({MIN_DD_FEE, rate * most}) + DUST_THRESHOLD
       /\ change >= 0 => FeePaid(fee, change) >= Max({MIN_DD_FEE, rate * size})
  BY <1>2, <1>7, <1>8, <1>9, <1>17, <1>18, EstimateIsPaid
<1> QED
  BY <1>1, <1>2, <1>17, <1>19 DEF b, tx, size, rate, most

(* A whole rate that the builders accept.                                   *)
LEMMA RatesAreNatural ==
  ASSUME NEW rate \in Int, FeeRateOK(rate)
  PROVE  rate \in Nat
BY SMT DEF FeeRateOK, MIN_FEE_RATE, MAX_FEE_RATE

(* A mint takes coins that reach what it aims at.                           *)
LEMMA MintsAreFair ==
  ASSUME Is("mint"), sample.item \in Samples["mint"]
  PROVE  FeesAreFair
<1> DEFINE req        == item.req
           rate       == req.feeRate
           tier       == LOCK_TIERS[req.lockTier]
           collateral == CollateralSats(req.ddAmountCents, item.price, tier.ratio)
           lock       == item.height + tier.blocks
           target     == MintTarget(collateral, rate)
<1>1. /\ Listed(item.utxos) /\ rate \in Int /\ req.ddAmountCents \in Int
      /\ item.price \in Int
  BY SamplesAssumption DEF item
<1>2. Payee.type = "p2tr"
  BY DEF Payee, TokenP2TR, P2TR
<1>3. Builds = MintBuilds(req, item.price, item.height, item.utxos, Owner, Payee)
  BY DEF Builds, Is
<1>4. Floor = MIN_DD_FEE
  BY DEF Floor, Is
<1> SUFFICES ASSUME NEW b \in Builds
             PROVE  LET size == VsizeOf(b.tx)
                        n    == Cardinality(b.tx.inputs)
                    IN  /\ n > 6 => b.fee >= rate * EstimateVsize(3, 4, 1)
                        /\ ~(n > 6) => b.fee >= Max({MIN_DD_FEE, rate * size})
                        /\ b.fee < 2 * Max({MIN_DD_FEE, rate * (size + 0)}) + DUST_THRESHOLD
  BY <1>4 DEF FeesAreFair, Is
<1>5. /\ FeeRateOK(rate) /\ item.price > 0 /\ req.lockTier \in DOMAIN LOCK_TIERS
      /\ \E coins \in SelectCoins(item.utxos, target) :
           b = MintTx(req, coins, collateral, lock, Owner, Payee)
  BY <1>3 DEF MintBuilds
<1>6. PICK coins \in SelectCoins(item.utxos, target) :
             b = MintTx(req, coins, collateral, lock, Owner, Payee)
  BY <1>5
<1>7. Listed(coins) /\ ValueOf(coins) >= target
  <2>1. coins \subseteq item.utxos /\ ValueOf(coins) >= target
    BY <1>6, SelectionIs DEF SelectCoins, Takes
  <2> QED
    BY <1>1, <2>1, FS_Subset DEF Listed, Coins
<1>8. collateral \in Int
  <2>1. tier.ratio \in Nat
    BY <1>5, TiersAssumption
  <2>2. COIN \in Nat
    BY CoinAssumption
  <2> DEFINE product == req.ddAmountCents * COIN * tier.ratio * 100
             price   == item.price
  <2>3. product \in Int /\ price \in Int /\ price > 0
    BY <1>1, <1>5, <2>1, <2>2
  <2>4. collateral = product \div price
    BY DEF CollateralSats
  <2> HIDE DEF product, price
  <2> QED
    BY <2>3, <2>4
<1>9. rate \in Nat
  BY <1>1, <1>5, RatesAreNatural
<1> HIDE DEF collateral, lock
<1>10. LET size == VsizeOf(b.tx)
           n    == Cardinality(b.tx.inputs)
       IN  /\ n > 6 => b.fee >= req.feeRate * EstimateVsize(3, 4, 1)
           /\ ~(n > 6) => b.fee >= Max({MIN_DD_FEE, req.feeRate * size})
           /\ size \in Nat
           /\ b.fee < 2 * Max({MIN_DD_FEE, req.feeRate * size}) + DUST_THRESHOLD
  <2> HIDE DEF req
  <2> QED
    BY <1>2, <1>6, <1>7, <1>8, <1>9, FeeOfMint, Zenon
<1>11. VsizeOf(b.tx) + 0 = VsizeOf(b.tx)
  BY <1>10
<1> QED
  BY <1>10, <1>11

(* A transfer spends its tokens and all coins.                              *)
LEMMA TransfersAreFair ==
  ASSUME Is("transfer"), sample.item \in Samples["transfer"]
  PROVE  FeesAreFair
<1> DEFINE req        == item.req
           rate       == req.feeRate
           recipients == req.recipients
           coins      == item.utxos
           k          == Len(recipients)
<1>1. /\ Listed(item.tokens \union coins) /\ item.tokens \intersect coins = {}
      /\ rate \in Int /\ recipients \in Seq({recipients[i] : i \in DOMAIN recipients})
  BY SamplesAssumption DEF item
<1>2. Payee.type = "p2tr"
  BY DEF Payee, TokenP2TR, P2TR
<1>3. Builds = TransferBuilds(req, item.tokens, coins, Owner, Payee)
  BY DEF Builds, Is
<1>4. Floor = MIN_DD_FEE
  BY DEF Floor, Is
<1> SUFFICES ASSUME NEW b \in Builds
             PROVE  LET size == VsizeOf(b.tx)
                    IN  /\ b.fee >= Max({MIN_DD_FEE, rate * size})
                        /\ b.fee < 2 * Max({MIN_DD_FEE, rate * (size + 43)}) + DUST_THRESHOLD
  BY <1>4 DEF FeesAreFair, Is
<1>5. /\ FeeRateOK(rate) /\ recipients # << >> /\ b.change >= 0
      /\ \E tokens \in SelectDD(item.tokens, RecipientCents(recipients)) :
           b = TransferTx(req, tokens, coins, Owner, Payee)
  BY <1>3 DEF TransferBuilds
<1>6. PICK tokens \in SelectDD(item.tokens, RecipientCents(recipients)) :
             b = TransferTx(req, tokens, coins, Owner, Payee)
  BY <1>5
<1>7. Listed(tokens \union coins) /\ tokens \intersect coins = {}
  <2>1. tokens \subseteq item.tokens
    BY <1>6 DEF SelectDD, LargestFirst
  <2>2. tokens \union coins \subseteq item.tokens \union coins
    BY <2>1
  <2> QED
    BY <1>1, <2>1, <2>2, FS_Subset DEF Listed, Coins
<1>8. k \in Nat /\ k >= 1 /\ DOMAIN req.recipients = 1 .. k
  <2> DEFINE T == {recipients[i] : i \in DOMAIN recipients}
  <2>1. recipients \in Seq(T) /\ recipients # << >>
    BY <1>1, <1>5
  <2> HIDE DEF T, recipients
  <2>2. k \in Nat /\ k >= 1 /\ DOMAIN recipients = 1 .. k
    BY <2>1
  <2> QED
    BY <2>2 DEF recipients
<1>9. rate \in Nat
  BY <1>1, <1>5, RatesAreNatural
<1>10. LET size == VsizeOf(b.tx)
       IN  /\ size \in Nat /\ b.fee >= Max({MIN_DD_FEE, req.feeRate * size})
           /\ b.fee < 2 * Max({MIN_DD_FEE, req.feeRate * (size + 43)}) + DUST_THRESHOLD
  <2> HIDE DEF req, k, coins
  <2> QED
    BY <1>2, <1>5, <1>6, <1>7, <1>8, <1>9, FeeOfTransfer, Zenon
<1> QED
  BY <1>10

(* A redeem spends its collateral, tokens and all coins.                    *)
LEMMA RedeemsAreFair ==
  ASSUME Is("redeem"), sample.item \in Samples["redeem"]
  PROVE  FeesAreFair
<1> DEFINE rate       == item.req.feeRate
           unlock     == item.unlockHeight
           collateral == item.collateral
           coins      == item.utxos
           cents      == item.cents
<1>1. /\ Listed({collateral} \union item.tokens) /\ collateral \notin item.tokens
      /\ Listed(coins) /\ rate \in Int
  BY SamplesAssumption DEF item
<1>2. Payee.type = "p2tr"
  BY DEF Payee, TokenP2TR, P2TR
<1>3. Builds = RedeemBuilds(cents, unlock, unlock, collateral, item.tokens, coins, rate,
                            Owner, Payee)
  BY DEF Builds, Is
<1>4. Floor = MIN_REDEEM_FEE
  BY DEF Floor, Is
<1> SUFFICES ASSUME NEW b \in Builds
             PROVE  LET size == VsizeOf(b.tx)
                    IN  /\ b.fee >= Max({MIN_REDEEM_FEE, rate * size})
                        /\ b.fee < 2 * Max({MIN_REDEEM_FEE, rate * (size + 0)})
                                   + DUST_THRESHOLD
  BY <1>4 DEF FeesAreFair, Is
<1>5. /\ FeeRateOK(rate) /\ b.change >= 0
      /\ \E tokens \in SelectDD(item.tokens, cents) :
           b = RedeemTx(cents, unlock, collateral, tokens, coins, rate, Owner, Payee)
  BY <1>3 DEF RedeemBuilds
<1>6. PICK tokens \in SelectDD(item.tokens, cents) :
             b = RedeemTx(cents, unlock, collateral, tokens, coins, rate, Owner, Payee)
  BY <1>5
<1>7. Listed({collateral} \union tokens) /\ collateral \notin tokens
  <2>1. tokens \subseteq item.tokens
    BY <1>6 DEF SelectDD, LargestFirst
  <2>2. {collateral} \union tokens \subseteq {collateral} \union item.tokens
    BY <2>1
  <2> QED
    BY <1>1, <2>1, <2>2, FS_Subset DEF Listed, Coins
<1>8. rate \in Nat
  BY <1>1, <1>5, RatesAreNatural
<1>9. LET size == VsizeOf(b.tx)
      IN  /\ size \in Nat /\ b.fee >= Max({MIN_REDEEM_FEE, rate * size})
          /\ b.fee < 2 * Max({MIN_REDEEM_FEE, rate * size}) + DUST_THRESHOLD
  <2> HIDE DEF rate, unlock, collateral, coins, cents
  <2> QED
    BY <1>1, <1>2, <1>5, <1>6, <1>7, <1>8, FeeOfRedeem, Zenon
<1>10. VsizeOf(b.tx) + 0 = VsizeOf(b.tx)
  BY <1>9
<1> QED
  BY <1>9, <1>10

(* Whatever the coins, the tokens, the recipients and the rate, a           *)
(* transaction that a builder returns pays for its real size (a mint of     *)
(* many inputs, for an estimate of three), and but for dust less than twice *)
(* as much: the margin of fee.ts is enough, and not too much.               *)
THEOREM FeesArePaid == Spec => []FeesAreFair
<1> DEFINE Inv == sample.kind \in DOMAIN Samples /\ sample.item \in Samples[sample.kind]
<1>1. Inv => FeesAreFair
  <2> SUFFICES ASSUME Inv
               PROVE  FeesAreFair
    OBVIOUS
  <2>1. CASE Is("mint")
    BY <2>1, MintsAreFair DEF Is
  <2>2. CASE Is("transfer")
    BY <2>2, TransfersAreFair DEF Is
  <2>3. CASE Is("redeem")
    BY <2>3, RedeemsAreFair DEF Is
  <2>4. CASE ~Is("mint") /\ ~Is("transfer") /\ ~Is("redeem")
    BY <2>4 DEF FeesAreFair, Builds
  <2> QED
    BY <2>1, <2>2, <2>3, <2>4
<1> QED
  BY <1>1, SampleIsTried, PTL

----------------------------------------------------------------------------
(* Of finitely many numbers one is the least.                               *)
LEMMA LeastOf ==
  ASSUME NEW S, IsFiniteSet(S), S \subseteq Nat, S # {}
  PROVE  \E n \in S : \A k \in S : n <= k
<1> DEFINE P == {V \in SUBSET S : V # {} => \E n \in V : \A k \in V : n <= k}
<1>1. {} \in P
  OBVIOUS
<1>2. ASSUME NEW V \in SUBSET S, NEW x \in S, V \in P, x \notin V
      PROVE  V \union {x} \in P
  <2>1. CASE V = {}
    BY <2>1
  <2>2. CASE V # {}
    <3>1. PICK n \in V : \A k \in V : n <= k
      BY <1>2, <2>2
    <3>2. CASE n <= x
      BY <3>1, <3>2
    <3>3. CASE ~(n <= x)
      <4>1. \A k \in V \union {x} : x <= k
        BY <3>1, <3>3
      <4> QED
        BY <4>1
    <3> QED
      BY <3>2, <3>3
  <2> QED
    BY <2>1, <2>2
<1>3. S \in P
  <2> HIDE DEF P
  <2> QED
    BY <1>1, <1>2, SubsetInduction
<1> QED
  BY <1>3

(* A set has 2^n subsets, so a power of two is a positive number.           *)
LEMMA SubsetsOf ==
  ASSUME NEW n \in Nat
  PROVE  /\ IsFiniteSet(SUBSET (1 .. n)) /\ Cardinality(SUBSET (1 .. n)) = 2^n
         /\ 2^n \in Nat \ {0}
<1> DEFINE S == 1 .. n
<1>1. IsFiniteSet(S) /\ Cardinality(S) = n
  BY FS_Interval
<1>2. {} \in SUBSET S
  OBVIOUS
<1> HIDE DEF S
<1>3. IsFiniteSet(SUBSET S) /\ Cardinality(SUBSET S) = 2^n
  BY <1>1, FS_SUBSET
<1>4. Cardinality(SUBSET S) \in Nat /\ Cardinality(SUBSET S) # 0
  BY <1>2, <1>3, FS_CardinalityType, FS_EmptySet
<1> QED
  BY <1>3, <1>4 DEF S

(* One more element doubles the subsets: there are those with it and those  *)
(* without.                                                                 *)
LEMMA PowersDouble ==
  ASSUME NEW n \in Nat
  PROVE  2^(n + 1) = 2 * 2^n
<1> DEFINE S == SUBSET (1 .. n)
           With == {s \union {n + 1} : s \in S}
           f == [s \in S |-> s \union {n + 1}]
<1>1. IsFiniteSet(S) /\ Cardinality(S) = 2^n /\ 2^n \in Nat
  BY SubsetsOf
<1>2. Cardinality(SUBSET (1 .. n + 1)) = 2^(n + 1)
  BY SubsetsOf
<1>3. f \in Bijection(S, With)
  <2>1. f \in [S -> With] /\ \A w \in With : \E s \in S : f[s] = w
    OBVIOUS
  <2>2. ASSUME NEW s \in S, NEW t \in S, f[s] = f[t] PROVE s = t
    <3>1. n + 1 \notin s /\ n + 1 \notin t
      OBVIOUS
    <3>2. s \union {n + 1} = t \union {n + 1}
      BY <2>2
    <3> QED
      BY <3>1, <3>2
  <2> QED
    BY <2>1, <2>2 DEF Bijection, Injection, Surjection, IsInjective
<1>4. S \intersect With = {}
  OBVIOUS
<1>5. SUBSET (1 .. n + 1) = S \union With
  <2>1. ASSUME NEW s \in SUBSET (1 .. n + 1), n + 1 \in s PROVE s \in With
    <3>1. s \ {n + 1} \in S /\ s = (s \ {n + 1}) \union {n + 1}
      BY <2>1
    <3> QED
      BY <3>1
  <2>2. ASSUME NEW s \in SUBSET (1 .. n + 1), n + 1 \notin s PROVE s \in S
    BY <2>2
  <2>3. S \union With \subseteq SUBSET (1 .. n + 1)
    <3>1. 1 .. n \subseteq 1 .. n + 1 /\ n + 1 \in 1 .. n + 1
      OBVIOUS
    <3>2. ASSUME NEW s \in S
          PROVE  s \in SUBSET (1 .. n + 1) /\ s \union {n + 1} \in SUBSET (1 .. n + 1)
      BY <3>1, Zenon
    <3>3. \A w \in With : w \in SUBSET (1 .. n + 1)
      <4> SUFFICES ASSUME NEW w \in With PROVE w \in SUBSET (1 .. n + 1)
        OBVIOUS
      <4>1. PICK s \in S : w = s \union {n + 1}
        OBVIOUS
      <4> QED
        BY <3>2, <4>1, Zenon
    <3> QED
      BY <3>2, <3>3
  <2> QED
    BY <2>1, <2>2, <2>3
<1> HIDE DEF S, With, f
<1>6. IsFiniteSet(With) /\ Cardinality(With) = Cardinality(S)
  BY <1>1, <1>3, FS_Bijection DEF ExistsBijection
<1>7. Cardinality(S \union With) = Cardinality(S) + Cardinality(With) - Cardinality(S \intersect With)
  BY <1>1, <1>6, FS_Union
<1>8. Cardinality(S \intersect With) = 0
  BY <1>4, FS_EmptySet
<1>9. PICK a \in Nat : a = 2^n
  BY <1>1
<1>10. Cardinality(S \union With) = 2 * a
  BY <1>1, <1>6, <1>7, <1>8, <1>9
<1> QED
  BY <1>2, <1>5, <1>9, <1>10

(* Powers of two multiply.                                                  *)
LEMMA PowersMultiply ==
  ASSUME NEW m \in Nat, NEW n \in Nat
  PROVE  2^(m + n) = 2^m * 2^n
<1> DEFINE S == 1 .. n
           P == {V \in SUBSET S : 2^(m + Cardinality(V)) = 2^m * 2^Cardinality(V)}
<1>1. IsFiniteSet(S) /\ Cardinality(S) = n
  BY FS_Interval
<1>2. {} \in P
  <2>1. Cardinality({}) = 0
    BY FS_EmptySet
  <2>2. PICK a \in Nat : a = 2^m
    BY SubsetsOf
  <2>3. 2^0 = 1 /\ m + 0 = m /\ a = a * 1
    OBVIOUS
  <2>4. 2^(m + 0) = 2^m * 2^0
    BY <2>2, <2>3
  <2> QED
    BY <2>1, <2>4
<1>3. ASSUME NEW V \in SUBSET S, NEW x \in S, V \in P, x \notin V
      PROVE  V \union {x} \in P
  <2>1. PICK k \in Nat : k = Cardinality(V)
    BY <1>1, FS_Subset, FS_CardinalityType
  <2>2. Cardinality(V \union {x}) = k + 1
    BY <1>1, <1>3, <2>1, FS_Subset, FS_AddElement
  <2>3. 2^(k + 1) = 2 * 2^k /\ 2^((m + k) + 1) = 2 * 2^(m + k) /\ (m + k) + 1 = m + (k + 1)
    BY PowersDouble
  <2>4. PICK a \in Nat : a = 2^m
    BY SubsetsOf
  <2>5. PICK b \in Nat : b = 2^k
    BY SubsetsOf
  <2>6. 2^(m + k) = a * b
    BY <1>3, <2>1, <2>4, <2>5
  <2>7. 2 * (a * b) = a * (2 * b)
    OBVIOUS
  <2>8. 2^(m + (k + 1)) = 2^m * 2^(k + 1)
    BY <2>3, <2>4, <2>5, <2>6, <2>7
  <2> QED
    BY <2>2, <2>8
<1>4. S \in P
  <2> HIDE DEF P, S
  <2> QED
    BY <1>1, <1>2, <1>3, SubsetInduction
<1> QED
  BY <1>1, <1>4

(* A quotient is known by its bounds.                                       *)
LEMMA QuotientIs ==
  ASSUME NEW a \in Nat, NEW b \in Nat \ {0}, NEW q \in Nat, b * q <= a, a < b * q + b
  PROVE  a \div b = q
<1>1. PICK p \in Nat : p = a \div b
  BY SMT
<1>2. b * p <= a /\ a < b * p + b
  BY <1>1, SMT
<1>3. ASSUME p < q PROVE FALSE
  <2>1. PICK k \in Nat : q = p + 1 + k
    <3>1. q - p - 1 \in Nat /\ q = p + 1 + (q - p - 1)
      BY <1>3
    <3> QED
      BY <3>1
  <2>2. b * q = b * p + b + b * k /\ b * k \in Nat /\ b * p \in Nat
    BY <2>1
  <2> QED
    BY <1>2, <2>2
<1>4. ASSUME q < p PROVE FALSE
  <2>1. PICK k \in Nat : p = q + 1 + k
    <3>1. p - q - 1 \in Nat /\ p = q + 1 + (p - q - 1)
      BY <1>4
    <3> QED
      BY <3>1
  <2>2. b * p = b * q + b + b * k /\ b * k \in Nat /\ b * q \in Nat
    BY <2>1
  <2> QED
    BY <1>2, <2>2
<1> QED
  BY <1>1, <1>3, <1>4

(* Rounding to the nearest is off by half a unit at the most.               *)
LEMMA NearestIs ==
  ASSUME NEW a \in Nat, NEW b \in Nat \ {0}
  PROVE  /\ NearestEven(a, b) \in Nat
         /\ 2 * a - b <= 2 * (NearestEven(a, b) * b)
         /\ 2 * (NearestEven(a, b) * b) <= 2 * a + b
<1>1. PICK q \in Nat : q = a \div b
  BY SMT
<1>2. PICK r \in 0 .. b - 1 : r = a % b
  BY SMT
<1>3. a = q * b + r
  BY <1>1, <1>2, SMT
<1>4. PICK m \in Nat : m = q * b
  OBVIOUS
<1>5. (q + 1) * b = m + b
  BY <1>4
<1>6. CASE NearestEven(a, b) = q /\ 2 * r <= b
  BY <1>3, <1>4, <1>6
<1>7. CASE NearestEven(a, b) = q + 1 /\ 2 * r >= b
  BY <1>3, <1>4, <1>5, <1>7
<1> QED
  BY <1>1, <1>2, <1>6, <1>7 DEF NearestEven

\* x is next to a / b, with as many digits as there are.
NextTo(x, a, b) ==
  /\ x.shift \in Nat /\ x.digits \in Nat
  /\ 2^(Precision - 1) * b <= a * 2^x.shift
  /\ 2 * (a * 2^x.shift) - b <= 2 * (x.digits * b)
  /\ 2 * (x.digits * b) <= 2 * (a * 2^x.shift) + b

(* What is neither too large nor too small for a double is next to one.     *)
LEMMA DoubleIs ==
  ASSUME NEW a \in Nat \ {0}, NEW b \in Nat \ {0},
         a < 2^Precision * b, b <= a * 2^(Precision + 1)
  PROVE  NextTo(Double(a, b), a, b)
<1>1. Precision \in Nat \ {0}
  BY PrecisionAssumption
<1>2. PICK H \in Nat \ {0} : H = 2^(Precision - 1)
  <2>1. Precision - 1 \in Nat
    BY <1>1
  <2> QED
    BY <2>1, SubsetsOf
<1>3. 2^Precision = 2 * H
  <2>1. Precision - 1 \in Nat /\ (Precision - 1) + 1 = Precision
    BY <1>1
  <2> QED
    BY <1>2, <2>1, PowersDouble
<1> DEFINE Fits(s) == H * b <= a * 2^s
           S == {s \in 0 .. 2 * Precision : Fits(s)}
<1>4. 2 * Precision \in S
  <2>1. PICK K \in Nat \ {0} : K = 2^(Precision + 1)
    BY <1>1, SubsetsOf
  <2>2. 2^(2 * Precision) = H * K
    <3>1. Precision - 1 \in Nat /\ Precision + 1 \in Nat
      BY <1>1
    <3>2. (Precision - 1) + (Precision + 1) = 2 * Precision
      BY <1>1
    <3>3. 2^((Precision - 1) + (Precision + 1)) = 2^(Precision - 1) * 2^(Precision + 1)
      BY <3>1, PowersMultiply
    <3> QED
      BY <1>2, <2>1, <3>2, <3>3
  <2>3. H * b <= H * (a * K)
    <3>1. PICK c \in Nat : c = a * K
      BY <2>1
    <3>2. b <= c
      BY <2>1, <3>1
    <3>3. PICK k \in Nat : c = b + k
      <4>1. c - b \in Nat /\ c = b + (c - b)
        BY <3>2
      <4> QED
        BY <4>1
    <3>4. H * c = H * b + H * k /\ H * k \in Nat /\ H * b \in Nat
      BY <3>3
    <3> QED
      BY <3>1, <3>4
  <2>4. H * (a * K) = a * (H * K)
    BY <2>1
  <2>5. 2 * Precision \in 0 .. 2 * Precision
    BY <1>1
  <2> QED
    BY <2>2, <2>3, <2>4, <2>5
<1>5. PICK s \in S : \A k \in S : s <= k
  <2>1. IsFiniteSet(0 .. 2 * Precision) /\ S \subseteq 0 .. 2 * Precision
    BY <1>1, FS_Interval
  <2>2. IsFiniteSet(S) /\ S \subseteq Nat
    BY <1>1, <2>1, FS_Subset
  <2> HIDE DEF S
  <2> QED
    BY <1>4, <2>2, LeastOf
<1>6. s \in Nat /\ s \in 0 .. 2 * Precision /\ Fits(s)
  BY <1>1, <1>5
<1>7. a * 2^s < 2^Precision * b
  <2>1. CASE s = 0
    <3>1. 2^0 = 1 /\ a * 1 = a
      OBVIOUS
    <3> QED
      BY <2>1, <3>1
  <2>2. CASE s # 0
    <3>1. s - 1 \in 0 .. 2 * Precision /\ ~(s <= s - 1) /\ s - 1 \in Nat /\ (s - 1) + 1 = s
      BY <1>1, <1>6, <2>2
    <3>2. ~Fits(s - 1)
      BY <1>5, <3>1
    <3>3. PICK p \in Nat : p = 2^(s - 1)
      BY <3>1, SubsetsOf
    <3>4. 2^s = 2 * p
      BY <3>1, <3>3, PowersDouble
    <3>5. PICK u \in Nat, v \in Nat : u = a * p /\ v = H * b
      OBVIOUS
    <3>6. u < v
      BY <3>2, <3>3, <3>5
    <3>7. a * (2 * p) = 2 * u /\ (2 * H) * b = 2 * v
      BY <3>5
    <3> QED
      BY <1>3, <3>4, <3>6, <3>7
  <2> QED
    BY <2>1, <2>2
<1> DEFINE x == Double(a, b)
           Right(t) == 2^(Precision - 1) * b <= a * 2^t /\ a * 2^t < 2^Precision * b
<1>8. x.shift \in 0 .. 2 * Precision /\ (a = 0 \/ Right(x.shift))
  <2>1. \E t \in 0 .. 2 * Precision : a = 0 \/ Right(t)
    BY <1>2, <1>6, <1>7
  <2>2. x.shift = CHOOSE t \in 0 .. 2 * Precision : a = 0 \/ Right(t)
    BY DEF Double
  <2> HIDE DEF x, Right
  <2> QED
    BY <2>1, <2>2
<1>9. x.shift \in Nat /\ x.digits = NearestEven(a * 2^x.shift, b)
  BY <1>1, <1>8 DEF Double
<1>10. a * 2^x.shift \in Nat
  <2>1. PICK p \in Nat : p = 2^x.shift
    BY <1>9, SubsetsOf
  <2> QED
    BY <2>1
<1> HIDE DEF x
<1>11. NextTo(x, a, b)
  BY <1>8, <1>9, <1>10, NearestIs DEF NextTo
<1> QED
  BY <1>11 DEF x

(* An error of half a unit in a quotient, then of another half in the       *)
(* product, is less than half of what rounding takes away.                  *)
LEMMA ErrorsAreSmall ==
  ASSUME NEW H \in Nat \ {0}, NEW n \in Nat \ {0}, NEW a \in Nat \ {0}, a < H,
         NEW S \in Nat \ {0}, NEW T \in Nat \ {0}, NEW d \in Nat, NEW e \in Nat,
         (2 * H) * n <= a * S,
         2 * (a * S) - n <= 2 * (d * n), 2 * (d * n) <= 2 * (a * S) + n,
         (2 * H) * S <= (d * n) * T,
         2 * ((d * n) * T) - S <= 2 * (e * S), 2 * (e * S) <= 2 * ((d * n) * T) + S
  PROVE  (2 * T) * a <= 2 * e + T /\ 2 * e + T < (2 * T) * a + 2 * T
<1>1. PICK x \in Nat, y \in Nat : x = d * n /\ y = a * S
  OBVIOUS
<1>2. y <= H * S - S
  <2>1. PICK k \in Nat : H = a + 1 + k
    <3>1. H - a - 1 \in Nat /\ H = a + 1 + (H - a - 1)
      OBVIOUS
    <3> QED
      BY <3>1
  <2>2. H * S = y + S + k * S /\ k * S \in Nat
    BY <1>1, <2>1
  <2> QED
    BY <1>1, <2>2
<1>3. 2 * n < S
  <2> SUFFICES ASSUME S <= 2 * n PROVE FALSE
    OBVIOUS
  <2>1. PICK k \in Nat : 2 * n = S + k
    <3>1. 2 * n - S \in Nat /\ 2 * n = S + (2 * n - S)
      OBVIOUS
    <3> QED
      BY <3>1
  <2>2. H * (2 * n) = H * S + H * k /\ H * k \in Nat /\ H * S \in Nat
    BY <2>1
  <2>3. (2 * H) * n = H * (2 * n)
    OBVIOUS
  <2> QED
    BY <1>1, <1>2, <2>2, <2>3
<1>4. x < H * S
  <2>1. H * S \in Nat
    OBVIOUS
  <2> QED
    BY <1>1, <1>2, <1>3, <2>1
<1>5. T >= 2
  <2> SUFFICES ASSUME T = 1 PROVE FALSE
    OBVIOUS
  <2>1. (2 * H) * S = 2 * (H * S) /\ H * S \in Nat /\ x * 1 = x
    BY <1>1
  <2> QED
    BY <1>1, <1>4, <2>1
<1>6. PICK z \in Nat : z = T * S
  OBVIOUS
<1>7. T * (2 * n) < z
  <2>1. PICK k \in Nat \ {0} : S = 2 * n + k
    <3>1. S - 2 * n \in Nat \ {0} /\ S = 2 * n + (S - 2 * n)
      BY <1>3
    <3> QED
      BY <3>1
  <2>2. T * S = T * (2 * n) + T * k /\ T * (2 * n) \in Nat
    BY <2>1
  <2>3. T * k \in Nat \ {0}
    BY <2>1
  <2> QED
    BY <1>6, <2>2, <2>3
<1>8. 2 * S <= z
  <2>1. PICK k \in Nat : T = 2 + k
    <3>1. T - 2 \in Nat /\ T = 2 + (T - 2)
      BY <1>5
    <3> QED
      BY <3>1
  <2>2. T * S = 2 * S + k * S /\ k * S \in Nat
    BY <2>1
  <2> QED
    BY <1>6, <2>2
<1>9. PICK m \in Nat, p \in Nat, q \in Nat, r \in Nat :
        m = e * S /\ p = x * T /\ q = y * T /\ r = T * n
  BY <1>1
<1>10. T * (2 * n) = 2 * r
  BY <1>9
<1>11. 2 * q - r <= 2 * p /\ 2 * p <= 2 * q + r
  <2>1. PICK u \in Nat : 2 * x = 2 * y - n + u
    <3>1. 2 * x - (2 * y - n) \in Nat /\ 2 * x = 2 * y - n + (2 * x - (2 * y - n))
      BY <1>1
    <3> QED
      BY <3>1
  <2>2. (2 * x) * T = (2 * y - n + u) * T
    BY <2>1
  <2>3. (2 * y - n + u) * T = (2 * y) * T - n * T + u * T /\ u * T \in Nat
    BY <1>1, <2>1
  <2>4. (2 * x) * T = 2 * p /\ (2 * y) * T = 2 * q /\ n * T = r
    BY <1>1, <1>9
  <2>5. PICK v \in Nat : 2 * x + v = 2 * y + n
    <3>1. 2 * y + n - 2 * x \in Nat /\ 2 * x + (2 * y + n - 2 * x) = 2 * y + n
      BY <1>1
    <3> QED
      BY <3>1
  <2>6. (2 * x + v) * T = (2 * y + n) * T
    BY <2>5
  <2>7. (2 * x + v) * T = (2 * x) * T + v * T /\ (2 * y + n) * T = (2 * y) * T + n * T
        /\ v * T \in Nat
    BY <1>1, <2>5
  <2>8. PICK uT \in Nat, vT \in Nat : uT = u * T /\ vT = v * T
    BY <2>3, <2>7
  <2>9. 2 * p = 2 * q - r + uT
    BY <2>2, <2>3, <2>4, <2>8
  <2>10. 2 * p + vT = 2 * q + r
    BY <2>4, <2>6, <2>7, <2>8
  <2> QED
    BY <1>9, <2>8, <2>9, <2>10
<1>12. 2 * p - S <= 2 * m /\ 2 * m <= 2 * p + S
  BY <1>1, <1>9
<1>13. 2 * m < 2 * q + z /\ 2 * q < 2 * m + z
  BY <1>6, <1>7, <1>8, <1>9, <1>10, <1>11, <1>12
<1>14. q = (a * T) * S
  BY <1>1, <1>9
<1>15. PICK c \in Nat : c = a * T
  OBVIOUS
<1>16. 2 * e < 2 * c + T
  <2> SUFFICES ASSUME 2 * c + T <= 2 * e PROVE FALSE
    BY <1>15
  <2>1. PICK k \in Nat : 2 * e = 2 * c + T + k
    <3>1. 2 * e - (2 * c + T) \in Nat /\ 2 * e = 2 * c + T + (2 * e - (2 * c + T))
      BY <1>15
    <3> QED
      BY <3>1
  <2>2. (2 * e) * S = (2 * c + T + k) * S
    BY <2>1
  <2>3. (2 * c + T + k) * S = 2 * (c * S) + T * S + k * S /\ k * S \in Nat
    BY <1>15, <2>1
  <2>4. (2 * e) * S = 2 * m
    BY <1>9
  <2> QED
    BY <1>6, <1>9, <1>13, <1>14, <1>15, <2>2, <2>3, <2>4
<1>17. 2 * c < 2 * e + T
  <2> SUFFICES ASSUME 2 * e + T <= 2 * c PROVE FALSE
    BY <1>15
  <2>1. PICK k \in Nat : 2 * c = 2 * e + T + k
    <3>1. 2 * c - (2 * e + T) \in Nat /\ 2 * c = 2 * e + T + (2 * c - (2 * e + T))
      BY <1>15
    <3> QED
      BY <3>1
  <2>2. (2 * c) * S = (2 * e + T + k) * S
    BY <2>1
  <2>3. (2 * e + T + k) * S = 2 * (e * S) + T * S + k * S /\ k * S \in Nat
    BY <2>1
  <2>4. (2 * c) * S = 2 * q
    BY <1>9, <1>14, <1>15
  <2> QED
    BY <1>6, <1>9, <1>13, <2>2, <2>3, <2>4
<1>18. (2 * T) * a = 2 * c
  BY <1>15
<1> QED
  BY <1>15, <1>16, <1>17, <1>18

(* Math.round takes away what was added by rounding twice.                  *)
LEMMA FractionSurvives ==
  ASSUME NEW a \in Nat, a < 2^(Precision - 2), NEW n \in Nat \ {0}, n <= 2^Precision
  PROVE  MathRound(Scaled(Double(a, n), n)) = a
<1>1. Precision \in Nat \ {0, 1}
  BY PrecisionAssumption
<1>2. PICK H \in Nat \ {0} : H = 2^(Precision - 2)
  <2>1. Precision - 2 \in Nat
    BY <1>1
  <2> QED
    BY <2>1, SubsetsOf
<1>3. /\ 2^(Precision - 1) = 2 * H
      /\ 2^Precision = 4 * H
      /\ 2^(Precision + 1) = 8 * H
  <2>1. /\ Precision - 2 \in Nat /\ Precision - 1 \in Nat /\ Precision \in Nat
        /\ (Precision - 2) + 1 = Precision - 1 /\ (Precision - 1) + 1 = Precision
    BY <1>1
  <2>2. 2^(Precision - 1) = 2 * H
    BY <1>2, <2>1, PowersDouble
  <2>3. 2^Precision = 2 * (2 * H)
    BY <2>1, <2>2, PowersDouble
  <2>4. 2^(Precision + 1) = 2 * (2 * (2 * H))
    BY <2>1, <2>3, PowersDouble
  <2> QED
    BY <2>2, <2>3, <2>4
<1> DEFINE x == Double(a, n)
           S == 2^x.shift
           y == Scaled(x, n)
           T == 2^y.shift
<1>4. CASE a # 0
  <2>1. a < (4 * H) * n
    <3>1. PICK k \in Nat : n = k + 1
      <4>1. n - 1 \in Nat /\ n = (n - 1) + 1
        OBVIOUS
      <4> QED
        BY <4>1
    <3>2. (4 * H) * n = 4 * H + 4 * (H * k) /\ H * k \in Nat
      BY <3>1
    <3> QED
      BY <1>2, <3>2
  <2>2. n <= a * (8 * H)
    <3>1. PICK k \in Nat : a = k + 1
      <4>1. a - 1 \in Nat /\ a = (a - 1) + 1
        BY <1>4
      <4> QED
        BY <4>1
    <3>2. a * (8 * H) = 8 * H + 8 * (k * H) /\ k * H \in Nat
      BY <3>1
    <3> QED
      BY <1>3, <3>2
  <2>3. NextTo(x, a, n)
    BY <1>3, <1>4, <2>1, <2>2, DoubleIs
  <2> HIDE DEF x
  <2>4. x.shift \in Nat /\ x.digits \in Nat /\ S \in Nat \ {0}
    BY <2>3, SubsetsOf DEF NextTo
  <2> HIDE DEF S
  <2>5. /\ (2 * H) * n <= a * S
        /\ 2 * (a * S) - n <= 2 * (x.digits * n)
        /\ 2 * (x.digits * n) <= 2 * (a * S) + n
    BY <1>3, <2>3 DEF NextTo, S
  <2>6. PICK d \in Nat : d = x.digits
    BY <2>4
  <2>7. PICK p \in Nat : p = d * n
    BY <2>6
  <2>8. PICK u \in Nat, v \in Nat : u = a * S /\ v = H * S
    BY <2>4
  <2>9. u + S <= v
    <3>1. PICK k \in Nat : H = a + 1 + k
      <4>1. H - a - 1 \in Nat /\ H = a + 1 + (H - a - 1)
        BY <1>2
      <4> QED
        BY <4>1
    <3>2. H * S = a * S + S + k * S /\ k * S \in Nat
      BY <2>4, <3>1
    <3> QED
      BY <2>4, <2>8, <3>2
  <2>10. n <= S
    <3> SUFFICES ASSUME S < n PROVE FALSE
      BY <2>4
    <3>1. PICK k \in Nat : n = S + k
      <4>1. n - S \in Nat /\ n = S + (n - S)
        BY <2>4
      <4> QED
        BY <4>1
    <3>2. (2 * H) * n = 2 * v + 2 * (H * k) /\ H * k \in Nat
      BY <2>4, <2>8, <3>1
    <3> QED
      BY <2>4, <2>5, <2>8, <2>9, <3>2
  <2>11. S <= u
    <3>1. PICK k \in Nat : a = k + 1
      <4>1. a - 1 \in Nat /\ a = (a - 1) + 1
        BY <1>4
      <4> QED
        BY <4>1
    <3>2. a * S = S + k * S /\ k * S \in Nat
      BY <2>4, <3>1
    <3> QED
      BY <2>4, <2>8, <3>2
  <2>12. 2 * u - n <= 2 * p /\ 2 * p <= 2 * u + n
    BY <2>5, <2>6, <2>7, <2>8
  <2>13. p # 0 /\ p < (4 * H) * S
    <3>1. (4 * H) * S = 4 * v
      BY <2>4, <2>8
    <3> QED
      BY <2>4, <2>7, <2>8, <2>9, <2>10, <2>11, <2>12, <3>1
  <2>14. S <= p * (8 * H)
    <3>1. S <= 2 * p
      BY <2>4, <2>7, <2>8, <2>10, <2>11, <2>12
    <3>2. PICK k \in Nat : H = k + 1
      <4>1. H - 1 \in Nat /\ H = (H - 1) + 1
        OBVIOUS
      <4> QED
        BY <4>1
    <3>3. p * (8 * H) = 8 * p + 8 * (p * k) /\ p * k \in Nat
      BY <2>7, <3>2
    <3> QED
      BY <2>4, <2>7, <3>1, <3>3
  <2>15. y = Double(p, S)
    BY <2>6, <2>7 DEF Scaled, S
  <2> HIDE DEF y
  <2>16. NextTo(y, p, S)
    BY <1>3, <2>4, <2>7, <2>13, <2>14, <2>15, DoubleIs
  <2>17. y.shift \in Nat /\ y.digits \in Nat /\ T \in Nat \ {0}
    BY <2>16, SubsetsOf DEF NextTo
  <2>18. 2^(y.shift + 1) = 2 * T
    BY <2>17, PowersDouble
  <2> HIDE DEF T
  <2>19. PICK e \in Nat : e = y.digits
    BY <2>17
  <2>20. /\ (2 * H) * S <= p * T
         /\ 2 * (p * T) - S <= 2 * (e * S)
         /\ 2 * (e * S) <= 2 * (p * T) + S
    BY <1>3, <2>16, <2>19 DEF NextTo, T
  <2>21. (2 * T) * a <= 2 * e + T /\ 2 * e + T < (2 * T) * a + 2 * T
    BY <1>2, <1>4, <2>4, <2>5, <2>6, <2>7, <2>17, <2>20, ErrorsAreSmall
  <2>22. (2 * e + T) \div (2 * T) = a
    <3>1. 2 * e + T \in Nat /\ 2 * T \in Nat \ {0}
      BY <2>17
    <3> QED
      BY <2>21, <3>1, QuotientIs
  <2> QED
    <3>1. MathRound(y) = (2 * e + T) \div (2 * T)
      BY <2>18, <2>19 DEF MathRound, T
    <3> QED
      BY <2>22, <3>1 DEF y, x
<1>5. CASE a = 0
  <2>1. \A m \in Nat \ {0} :
          /\ Double(0, m).digits = 0 /\ Double(0, m).shift \in 0 .. 2 * Precision
    <3> SUFFICES ASSUME NEW m \in Nat \ {0}
                 PROVE  /\ Double(0, m).digits = 0
                        /\ Double(0, m).shift \in 0 .. 2 * Precision
      OBVIOUS
    <3> DEFINE z == Double(0, m)
    <3>1. z.shift \in 0 .. 2 * Precision
      <4>1. 0 \in 0 .. 2 * Precision
        BY <1>1
      <4> QED
        BY <4>1 DEF Double
    <3>2. z.digits = NearestEven(0 * 2^z.shift, m)
      BY DEF Double
    <3> HIDE DEF z
    <3>3. 0 * 2^z.shift = 0
      <4>1. PICK p \in Nat : p = 2^z.shift
        <5>1. z.shift \in Nat
          BY <1>1, <3>1
        <5> QED
          BY <5>1, SubsetsOf
      <4> QED
        BY <4>1
    <3>4. NearestEven(0, m) = 0
      <4>1. 0 % m = 0 /\ 0 \div m = 0
        BY SMT
      <4> QED
        BY <4>1 DEF NearestEven
    <3> QED
      BY <3>1, <3>2, <3>3, <3>4 DEF z
  <2>2. x.digits = 0 /\ x.shift \in Nat
    BY <1>1, <1>5, <2>1
  <2>3. y = Double(0, S) /\ S \in Nat \ {0}
    <3> HIDE DEF x
    <3>1. 0 * n = 0
      OBVIOUS
    <3> QED
      BY <2>2, <3>1, SubsetsOf DEF Scaled
  <2>4. y.digits = 0 /\ y.shift \in Nat
    <3> HIDE DEF y, S
    <3> QED
      BY <1>1, <2>1, <2>3
  <2> HIDE DEF y
  <2>5. PICK t \in Nat \ {0} : t = T
    BY <2>4, SubsetsOf
  <2>6. 2^(y.shift + 1) = 2 * t
    BY <2>4, <2>5, PowersDouble
  <2>7. (2 * 0 + t) \div (2 * t) = 0
    <3>1. 2 * 0 + t \in Nat /\ 2 * t \in Nat \ {0} /\ (2 * t) * 0 <= 2 * 0 + t
          /\ 2 * 0 + t < (2 * t) * 0 + 2 * t
      OBVIOUS
    <3> QED
      BY <3>1, QuotientIs
  <2> QED
    BY <1>5, <2>4, <2>5, <2>6, <2>7 DEF MathRound, y
<1> QED
  BY <1>4, <1>5

(* Decimal fractions of dollars and of DGB go through a double unharmed:    *)
(* the cents of a position (redeem.ts:70) and the sats of a coin (hex.ts).  *)
THEOREM DoublesAreExact == Spec => []AmountsSurvive
<1> DEFINE Inv == sample.kind \in DOMAIN Samples /\ sample.item \in Samples[sample.kind]
<1>1. Inv => AmountsSurvive
  <2> SUFFICES ASSUME Inv PROVE AmountsSurvive
    OBVIOUS
  <2>1. ASSUME Is("decimal"), item.dollars * 100 + item.cents < 2^(Precision - 2)
        PROVE  DdMintedCents(item) = item.dollars * 100 + item.cents
    <3>1. item.dollars \in Nat /\ item.cents \in Nat
      BY <2>1, SamplesAssumption DEF Is, item
    <3>2. PICK a \in Nat : a = item.dollars * 100 + item.cents
      BY <3>1
    <3>3. 100 <= 2^Precision
      BY PrecisionAssumption
    <3>4. MathRound(Scaled(Double(a, 100), 100)) = a
      BY <2>1, <3>2, <3>3, FractionSurvives
    <3> QED
      BY <3>2, <3>4 DEF DdMintedCents, ParseFloat
  <2>2. ASSUME Is("coin"), item < 2^(Precision - 2)
        PROVE  DgbToSats(item) = item
    <3>1. item \in Nat
      BY <2>2, SamplesAssumption DEF Is, item
    <3>2. COIN \in Nat \ {0} /\ COIN <= 2^Precision
      BY CoinAssumption, PrecisionAssumption
    <3> QED
      BY <2>2, <3>1, <3>2, FractionSurvives DEF DgbToSats
  <2> QED
    BY <2>1, <2>2 DEF AmountsSurvive
<1> QED
  BY <1>1, SampleIsTried, PTL
=============================================================================
