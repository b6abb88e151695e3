------------------------------- MODULE Script -------------------------------
(***************************************************************************)
(* The script encoding of DigiDollar metadata: CScriptNum numbers, pushes, *)
(* the iteration over a script, and the OP_RETURN of each transaction      *)
(* type with its parser.  A set with at most one element stands for a      *)
(* result that may be null, undefined or an exception.                     *)
(***************************************************************************)
EXTENDS Bytes

CONSTANTS
  OP_PUSHDATA1, OP_RETURN,  \* opcodes; OP_PUSHDATA2 and 4 follow the first
  DD_MARKER                 \* the two bytes "DD"

ASSUME OpcodesAssumption ==
  /\ OP_PUSHDATA1 \in Nat /\ OP_RETURN \in Nat
  /\ 2 < OP_PUSHDATA1 /\ OP_PUSHDATA1 + 2 < OP_RETURN /\ OP_RETURN < Base
  /\ DD_MARKER \in Byte \X Byte

OP_PUSHDATA2 == OP_PUSHDATA1 + 1
OP_PUSHDATA4 == OP_PUSHDATA1 + 2

MaxNumSize == 8

----------------------------------------------------------------------------
(* CScriptNum: magnitude, lowest byte first, sign in the highest bit. *)

Abs(v) == IF v < 0 THEN -v ELSE v

EncodeInPlace(v) ==                       \* mutant: no byte added for the sign
  LET magnitude == Digits[Abs(v)]
      last      == Len(magnitude)
  IN  IF v < 0 THEN [magnitude EXCEPT ![last] = SignBit + (@ % SignBit)] ELSE magnitude

EncodeScriptNum(v) ==
  LET magnitude == Digits[Abs(v)]
      last      == Len(magnitude)
      sign      == IF v < 0 THEN SignBit ELSE 0
  IN  CASE v = 0 -> << >>
        [] v # 0 /\ magnitude[last] >= SignBit -> Append(magnitude, sign)
        [] OTHER -> [magnitude EXCEPT ![last] = @ + sign]

DecodeScriptNum(bytes) ==
  LET last      == Len(bytes)
      magnitude == Value[[bytes EXCEPT ![last] = @ % SignBit]]
  IN  CASE last > MaxNumSize -> {}
        [] last = 0 -> {0}
        [] OTHER -> {IF bytes[last] >= SignBit THEN -magnitude ELSE magnitude}

----------------------------------------------------------------------------
(* Pushes. *)

ShortHeader(n) ==                         \* mutant: PUSHDATA1 starts one too late
  CASE n <= OP_PUSHDATA1              -> <<n>>
    [] n > OP_PUSHDATA1 /\ n < Base   -> <<OP_PUSHDATA1, n>>
    [] n >= Base /\ n < Base * Base   -> <<OP_PUSHDATA2>> \o LE[2][n]
    [] OTHER                          -> <<OP_PUSHDATA4>> \o LE[4][n]

PushHeader(n) ==
  CASE n < OP_PUSHDATA1               -> <<n>>
    [] n >= OP_PUSHDATA1 /\ n < Base  -> <<OP_PUSHDATA1, n>>
    [] n >= Base /\ n < Base * Base   -> <<OP_PUSHDATA2>> \o LE[2][n]
    [] OTHER                          -> <<OP_PUSHDATA4>> \o LE[4][n]

PushData(data) == PushHeader(Len(data)) \o data

PushNum(v) == PushData(EncodeScriptNum(v))

SizeBytes(opcode) ==
  CASE opcode = OP_PUSHDATA1 -> 1
    [] opcode = OP_PUSHDATA2 -> 2
    [] opcode = OP_PUSHDATA4 -> 4
    [] OTHER -> 0

(* iterScript: the operations of a script; a script that ends inside a push  *)
(* ends with Truncated, where the generator throws.                          *)
Truncated == [opcode |-> Base, data |-> {}]

Ops[script \in Seq(Byte)] ==
  IF script = << >> THEN << >>
  ELSE LET opcode == Head(script)
           after  == 1 + SizeBytes(opcode)
           size   == IF after = 1 THEN opcode ELSE Value[SubSeq(script, 2, after)]
           end    == after + size
       IN  CASE opcode > OP_PUSHDATA4 ->
                  <<[opcode |-> opcode, data |-> {}]>> \o Ops[Tail(script)]
             [] opcode <= OP_PUSHDATA4 /\ Len(script) >= after /\ Len(script) >= end ->
                  <<[opcode |-> opcode, data |-> {SubSeq(script, after + 1, end)}]>>
                    \o Ops[SubSeq(script, end + 1, Len(script))]
             [] OTHER -> <<Truncated>>

----------------------------------------------------------------------------
(* The OP_RETURN of a DigiDollar transaction. *)

OpReturnOf(txType) == <<OP_RETURN>> \o PushData(DD_MARKER) \o PushNum(txType)

MintTierFirst(m) ==                       \* mutant: height and tier swapped
  OpReturnOf(1) \o PushNum(m.ddAmountCents) \o PushNum(m.lockTier)
    \o PushNum(m.lockHeight) \o PushData(m.ownerPubKey)

EncodeMintOpReturn(m) ==
  OpReturnOf(1) \o PushNum(m.ddAmountCents) \o PushNum(m.lockHeight)
    \o PushNum(m.lockTier) \o PushData(m.ownerPubKey)

EncodeTransferOpReturn(m) ==
  OpReturnOf(2) \o FlattenSeq([i \in DOMAIN m.amounts |-> PushNum(m.amounts[i])])

EncodeRedeemOpReturn(m) == OpReturnOf(3) \o PushNum(m.ddAmountCents)

Pushed(ops, i) == IF i \in DOMAIN ops THEN ops[i].data ELSE {}

Number(ops, i) == UNION {DecodeScriptNum(data) : data \in Pushed(ops, i)}

ParseMint(ops) ==
  {[txType |-> "mint", ddAmountCents |-> amount, lockHeight |-> height,
    lockTier |-> tier, ownerPubKey |-> key] :
      amount \in Number(ops, 4), height \in Number(ops, 5), tier \in Number(ops, 6),
      key \in {data \in Pushed(ops, 7) : Len(data) = HashSize}}

(* Every push after the type is an amount, an empty one excepted. *)
ParseTransfer(ops) ==
  LET amounts[i \in 3 .. Len(ops)] ==      \* of the operations up to the i-th
        IF i = 3 THEN << >>
        ELSE IF ops[i].data \in {{}, {<< >>}} THEN amounts[i - 1]
        ELSE Append(amounts[i - 1], Number(ops, i))
      all == amounts[Len(ops)]
  IN  IF \/ all = << >>
         \/ \E i \in DOMAIN all : all[i] = {}
         \/ \E i \in DOMAIN ops : ops[i] = Truncated
      THEN {}
      ELSE {[txType |-> "transfer",
             amounts |-> [i \in DOMAIN all |-> CHOOSE n \in all[i] : TRUE]]}

ParseRedeem(ops) ==
  {[txType |-> "redeem", ddAmountCents |-> amount] : amount \in Number(ops, 4)}

ParseOpReturn(script) ==
  LET ops == Ops[script]
  IN  CASE ops = << >> \/ ops[1].opcode # OP_RETURN \/ Pushed(ops, 2) # {DD_MARKER} -> {}
        [] Number(ops, 3) = {1} -> ParseMint(ops)
        [] Number(ops, 3) = {2} -> ParseTransfer(ops)
        [] Number(ops, 3) = {3} -> ParseRedeem(ops)
        [] OTHER -> {}
=============================================================================
