---------------------------- MODULE OracleWrapper ----------------------------
(***************************************************************************)
(* The conversions: OracleWrapper's between DD cents and sats, at a price  *)
(* in micro-USD, and those that go through a double, of the decimal string *)
(* of a position to cents and of the node's DGB amounts to sats.           *)
(***************************************************************************)
EXTENDS TxBuilder

CONSTANT Precision     \* bits in the significand of a number: 53

(* A cent and a sat, as fractions of a dollar and of a DGB, are not too      *)
(* small for a double.                                                      *)
ASSUME PrecisionAssumption ==
  Precision \in Nat \ {0, 1} /\ 100 <= 2^Precision /\ COIN <= 2^Precision

DividedFirst(ddCents, priceMicroUsd) ==   \* mutant: sats per cent, cut off too early
  ddCents * ((COIN * 10000) \div priceMicroUsd)

DdToSats(ddCents, priceMicroUsd) == (ddCents * COIN * 10000) \div priceMicroUsd

SatsToDDCents(sats, priceMicroUsd) == (sats * priceMicroUsd) \div (COIN * 10000)

----------------------------------------------------------------------------
(* Zero, and doubles from 2^-Precision up to 2^Precision: digits / 2^shift. *)

NearestEven(a, b) ==
  IF 2 * (a % b) < b \/ (2 * (a % b) = b /\ (a \div b) % 2 = 0)
  THEN a \div b
  ELSE a \div b + 1

(* The double next to a / b. *)
Double(a, b) ==
  LET shift == CHOOSE s \in 0 .. 2 * Precision :
                 a = 0 \/ (/\ 2^(Precision - 1) * b <= a * 2^s
                           /\ a * 2^s < 2^Precision * b)
  IN  [digits |-> NearestEven(a * 2^shift, b), shift |-> shift]

ParseFloat(decimal) == Double(decimal.dollars * 100 + decimal.cents, 100)

Scaled(x, n) == Double(x.digits * n, 2^x.shift)

MathTrunc(x) == x.digits \div 2^x.shift   \* mutant: in place of Math.round

MathRound(x) == (2 * x.digits + 2^x.shift) \div 2^(x.shift + 1)

(* BigInt(Math.round(parseFloat(position.dd_minted) * 100)) *)
DdMintedCents(decimal) == MathRound(Scaled(ParseFloat(decimal), 100))

(* dgbToSats, of the amount in DGB that the node wrote for so many sats. *)
DgbToSats(sats) == MathRound(Scaled(Double(sats, COIN), COIN))
=============================================================================
