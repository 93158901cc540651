---------------------------- MODULE Serialization ----------------------------
(***************************************************************************)
(* Bytecode as a sequence of bytes: object/object_serialization.go, and     *)
(* Serialize and Deserialize of compiler.Bytecode.                          *)
(*                                                                         *)
(* A constant is a pair: <<"INTEGER", v>>, <<"STRING", bytes>> or           *)
(* <<"COMPILED_FUNCTION", [ins, numLocals, numParams]>>, ins being bytes.   *)
(* Numbers are varints, zigzag numbers in base 128 with the high bit set on *)
(* all bytes but the last, in buffers of 8 bytes.                           *)
(***************************************************************************)
EXTENDS Integers, SequencesExt

CONSTANTS VarintBase, VarintLen      \* 128 and 8

\* The marks are bytes.
ASSUME SerializationAssumption == VarintBase \in Nat \ 0..2 /\ VarintLen \in Nat \ {0}

Integer(v) == <<"INTEGER", v>>
String(bytes) == <<"STRING", bytes>>
Function(ins, numLocals, numParams) ==
    <<"COMPILED_FUNCTION", [ins |-> ins, numLocals |-> numLocals, numParams |-> numParams]>>

Byte == 0..(2 * VarintBase - 1)
Constant == ({"INTEGER"} \X Int) \cup ({"STRING"} \X Seq(Byte))
    \cup ({"COMPILED_FUNCTION"} \X [ins : Seq(Byte), numLocals : Nat, numParams : Nat])

\* ObjectSerialType
IntegerMark == 1
StringMark == 2
FunctionMark == 3
BytecodeMark == 4

-----------------------------------------------------------------------------
Zigzag(v) == IF v >= 0 THEN 2 * v ELSE -(2 * v) - 1

\* What is left of u after i digits, for every i up to the length of the buffer.
Shifted(u) ==
    LET left[i \in 0..VarintLen] == IF i = 0 THEN u ELSE left[i - 1] \div VarintBase
    IN  left

\* PutVarint panics when the number is too long for the buffer; a shorter one leaves its
\* end zero.
Fits(v) == Shifted(Zigzag(v))[VarintLen] = 0
PutVarint(v) ==
    LET left == Shifted(Zigzag(v))
    IN  [i \in 1..VarintLen |-> IF left[i] = 0 THEN left[i - 1] ELSE VarintBase + (left[i - 1] % VarintBase)]

\* The number that the last k of the first n bytes make, for every k.
Gathered(bs, n) ==
    LET number[k \in 0..n] == IF k = 0 THEN 0 ELSE number[k - 1] * VarintBase + (bs[(n - k) + 1] % VarintBase)
    IN  number

\* binary.Varint: the number and its length, (0, 0) when the buffer ends before it.
Varint(bs) ==
    LET n == SelectInSeq(bs, LAMBDA x : x < VarintBase)
        u == Gathered(bs, n)[n]
    IN  IF n = 0 THEN [value |-> 0, n |-> 0]
        ELSE [value |-> IF u % 2 = 0 THEN u \div 2 ELSE -((u + 1) \div 2),
               n |-> n]
Bad(r) == r.n > VarintLen

Drop(bs, k) == SubSeq(bs, k + 1, Len(bs))

Serialize(c) ==
    CASE c[1] = "INTEGER" -> <<IntegerMark>> \o PutVarint(c[2])
      [] c[1] = "STRING" -> <<StringMark>> \o PutVarint(Len(c[2])) \o c[2]
      [] c[1] = "COMPILED_FUNCTION" ->
            <<FunctionMark>> \o PutVarint(Len(c[2].ins)) \o c[2].ins
                \o PutVarint(c[2].numLocals) \o PutVarint(c[2].numParams)

SerializeBytecode(b) == FlattenSeq([i \in DOMAIN b.consts |-> Serialize(b.consts[i])])
                            \o <<BytecodeMark>> \o b.ins

\* The numbers that are written for a constant.
Numbers(c) ==
    CASE c[1] = "INTEGER" -> {c[2]}
      [] c[1] = "STRING" -> {Len(c[2])}
      [] c[1] = "COMPILED_FUNCTION" -> {Len(c[2].ins), c[2].numLocals, c[2].numParams}
SerializePanics(b) == \E c \in ToSet(b.consts) : \E v \in Numbers(c) : ~Fits(v)

-----------------------------------------------------------------------------
(***************************************************************************)
(* Deserialize: how many bytes were read and the constant.  Panicked stands *)
(* for every way to fail: Bytecode.Deserialize panics on a bad constant.    *)
(***************************************************************************)
Panicked == [n |-> 0, object |-> Integer(0)]
Read(n, object) == [n |-> n, object |-> object]
Header == 1 + VarintLen

DeserializeInteger(bs) ==
    LET r == Varint(Tail(bs))
    IN  IF Len(bs) < Header \/ Bad(r) THEN Panicked ELSE Read(Header, Integer(r.value))

\* The length is refused when it is smaller than what is left, not when it is larger:
\* that is a slice out of range, or reads past the end, and no instructions are found.
DeserializeString(bs) ==
    IF Len(bs) < Header THEN Panicked
    ELSE LET r == Varint(SubSeq(bs, 2, Header))
         IN  IF Bad(r) \/ r.value # Len(bs) - Header THEN Panicked
             ELSE Read(Header + r.value, String(Drop(bs, Header)))

\* A faulty DeserializeFunction: the two numbers swapped.
DeserializeSwapped(bs) ==
    LET length == Varint(Tail(bs))
        numLocals == Varint(Drop(bs, Header + length.value))
        numParams == Varint(Drop(bs, Header + VarintLen + length.value))
    IN  IF length.value > Len(bs) - (1 + 3 * VarintLen) THEN Panicked
        ELSE Read(1 + 3 * VarintLen + length.value,
                  Function(SubSeq(bs, Header + 1, Header + length.value), numParams.value, numLocals.value))

DeserializeFunction(bs) ==
    LET length == Varint(Tail(bs))
        numLocals == Varint(Drop(bs, Header + length.value))
        numParams == Varint(Drop(bs, Header + VarintLen + length.value))
    IN  IF Bad(length) \/ length.value > Len(bs) - (1 + 3 * VarintLen) THEN Panicked
        ELSE IF Bad(numLocals) \/ Bad(numParams) THEN Panicked
        ELSE Read(1 + 3 * VarintLen + length.value,
                  Function(SubSeq(bs, Header + 1, Header + length.value), numLocals.value, numParams.value))

DeserializeConstant(bs) ==
    CASE bs[1] = IntegerMark -> DeserializeInteger(bs)
      [] bs[1] = StringMark -> DeserializeString(bs)
      [] bs[1] = FunctionMark -> DeserializeFunction(bs)
      [] OTHER -> Panicked
=============================================================================
