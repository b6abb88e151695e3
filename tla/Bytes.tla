------------------------------- MODULE Bytes -------------------------------
(* Bytes, and numbers written in them.  A byte has Base values: 256 in the   *)
(* code, fewer in an instance, which moves every threshold that comes from   *)
(* the width of a byte within reach.                                         *)
EXTENDS Integers, SequencesExt

CONSTANTS
  Base,      \* the values of a byte
  HashSize   \* the length of a hash or an x-only key, 32 in the code

ASSUME BaseAssumption == Base \in Nat /\ Base > 4 /\ Base % 2 = 0
ASSUME HashSizeAssumption == HashSize \in Nat

Byte == 0 .. Base - 1

SignBit == Base \div 2

(* How many numbers `width` bytes tell apart. *)
Power[width \in Nat] == IF width = 0 THEN 1 ELSE Base * Power[width - 1]

(* The lowest `width` bytes of a number, lowest first. *)
LE[width \in Nat] ==
  [n \in Int |-> IF width = 0 THEN << >> ELSE <<n % Base>> \o LE[width - 1][n \div Base]]

Digits[n \in Nat] ==
  IF n = 0 THEN << >> ELSE <<n % Base>> \o Digits[n \div Base]

Value[bytes \in Seq(Byte)] ==
  IF bytes = << >> THEN 0 ELSE Head(bytes) + Base * Value[Tail(bytes)]
=============================================================================
