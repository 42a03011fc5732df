------------------------------ MODULE Register ------------------------------
(***************************************************************************)
(* The SunSpec register codec of register.go: how many 16-bit registers a  *)
(* type takes (Length), how a float64 from the memory is encoded into      *)
(* big-endian bytes with the register's scaling (Bytes), and how the bytes *)
(* of a write request are decoded back (Value).                            *)
(*                                                                         *)
(* A float64 of the memory is a fixed-point number: an integer count of    *)
(* units of 10^-Decimals.  The arithmetic is exact, so float64 rounding is *)
(* not modelled; Go's truncation toward zero when a float becomes an       *)
(* integer is.  A byte sequence is a sequence of 0..255.                   *)
(***************************************************************************)
EXTENDS Integers, Sequences, SequencesExt

CONSTANT Decimals

ASSUME Decimals \in Nat

\* Register.Length: unknown types, which the configuration accepts, are 0.
Length(type) ==
    CASE type \in {"acc16", "bitfield16", "enum16", "int16", "sunssf", "uint16"} -> 1
      [] type \in {"acc32", "bitfield32", "enum32", "float32", "int32", "uint32"} -> 2
      [] type = "acc64" -> 4
      [] type = "string8" -> 8
      [] type = "string16" -> 16
      [] OTHER -> 0

\* The types Register.Value has a case for; any other fails to decode.
Decodes(type) ==
    type \in {"acc16", "uint16", "acc32", "uint32", "acc64", "bitfield16",
             "enum16", "bitfield32", "enum32", "float32", "int16", "int32"}

\* The integer types, whose codec this module models.  float32 (an IEEE
\* conversion) and the strings are left out.
IntegerTypes ==
    {"acc16", "uint16", "acc32", "uint32", "acc64", "bitfield16", "enum16",
     "bitfield32", "enum32", "int16", "int32", "sunssf"}

\* The Go type a register's value is converted to is signed.
SignedType(type) == type \in {"int16", "int32", "sunssf"}

\* The cases that multiply by math.Pow(10, -s) in Bytes and math.Pow(10, s)
\* in Value; bitfields, enums and sunssf ignore the scaling.
ScaledType(type) ==
    type \in {"acc16", "uint16", "acc32", "uint32", "acc64", "int16", "int32"}

Pow10(k) == 10 ^ k

\* x * 10^k in units, truncated toward zero as a float-to-integer
\* conversion does.
Scale(x, k) ==
    IF k >= 0 THEN x * Pow10(k)
    ELSE IF x >= 0 THEN x \div Pow10(-k) ELSE -((-x) \div Pow10(-k))

\* x < 256^n, computed without forming 256^n.
RECURSIVE FitsUnsigned(_, _)
FitsUnsigned(x, n) == IF n = 0 THEN x = 0 ELSE FitsUnsigned(x \div 256, n - 1)

\* x is a value of Go's n-byte integer type.
Fits(x, n, signed) ==
    IF signed THEN FitsUnsigned(IF x >= 0 THEN 2 * x ELSE -2 * x - 1, n)
    ELSE x >= 0 /\ FitsUnsigned(x, n)

\* binary.Write with binary.BigEndian of an n-byte integer: the low n bytes
\* of x in two's complement (floored \div and % give them for x < 0).
RECURSIVE BigEndian(_, _)
BigEndian(x, n) ==
    IF n = 0 THEN <<>> ELSE BigEndian(x \div 256, n - 1) \o <<x % 256>>

\* The n-byte integer nearest to x, for an x out of range.
Saturated(x, n, signed) ==
    LET rest(b) == [i \in 1..n - 1 |-> b]
    IN  IF x >= 0 THEN <<IF signed THEN 127 ELSE 255>> \o rest(255)
        ELSE <<IF signed THEN 128 ELSE 0>> \o rest(0)

\* The integer the gc compiler converts a float to before it truncates to
\* n bytes: 16-bit types go through int32, uint32 through int64, and the
\* 32- and 64-bit types are converted directly.
Via(n, signed) ==
    IF n = 2 THEN [w |-> 4, s |-> TRUE]
    ELSE IF n = 4 /\ ~signed THEN [w |-> 8, s |-> TRUE]
    ELSE [w |-> n, s |-> signed]

\* The low n bytes of a big-endian integer.
LowBytes(d, n) == SubSeq(d, Len(d) - n + 1, Len(d))

\* uintN(f) / intN(f) of a float f already truncated to the integer x.  Go
\* leaves an out-of-range conversion to the implementation.  Both builds
\* convert to the wider integer of Via and keep its low n bytes; for an x
\* that even the wider integer cannot hold, arm64's FCVTZS/FCVTZU saturate
\* and amd64's CVTTSD2SL/SQ give the "integer indefinite" 0x80..0.  amd64
\* converts uint64 through int64 (subtracting and adding back 2^63 for
\* large x), so a negative x in int64's range wraps and an x past 2^64
\* gives 0.
Convert(x, n, signed, build) ==
    LET v == Via(n, signed)
        zero == [i \in 1..n |-> 0]
    IN  CASE Fits(x, v.w, v.s) -> LowBytes(BigEndian(x, v.w), n)
          [] build = "arm64" -> LowBytes(Saturated(x, v.w, v.s), n)
          [] n = 8 /\ ~signed /\ (Fits(x, 8, TRUE) \/ Fits(x, 8, FALSE)) ->
                BigEndian(x, 8)
          [] n = 8 /\ ~signed /\ x >= 0 -> zero
          [] OTHER -> LowBytes(<<128>> \o [i \in 1..v.w - 1 |-> 0], n)

\* The exponent of the scaling a type applies.
Exponent(type, s) == IF ScaledType(type) THEN s ELSE 0

\* Mutant: Bytes scales by math.Pow(10, s), as Value does, not by 10^-s.
BytesScaleFlipped(type, x, s, build) ==
    Convert(Scale(x, Exponent(type, s) - Decimals), 2 * Length(type),
            SignedType(type), build)

\* Register.Bytes(v, s) for the integer types: v * 10^-s converted to the
\* type's Go integer and written big-endian in 2 * Length bytes.
Bytes(type, x, s, build) ==
    Convert(Scale(x, -Exponent(type, s) - Decimals), 2 * Length(type),
            SignedType(type), build)

\* binary.Read with binary.BigEndian into an unsigned or signed integer.
Unsigned(d) == FoldLeft(LAMBDA acc, b : 256 * acc + b, 0, d)

TwosComplement(d) ==
    IF d[1] < 128 THEN Unsigned(d)
    ELSE -(Unsigned([i \in DOMAIN d |-> 255 - d[i]]) + 1)

\* Mutant: Value reads an int16 as a uint16, int16 listed in the
\* acc16/uint16 case.
ValueInt16Unsigned(type, d, s) ==
    IF Decodes(type)
    THEN [err |-> FALSE,
          val |-> Scale(IF SignedType(type) /\ type # "int16"
                        THEN TwosComplement(d) ELSE Unsigned(d),
                        Exponent(type, s) + Decimals)]
    ELSE [err |-> TRUE, val |-> 0]

\* Register.Value(d, s): the decoded integer times 10^s, or the error of
\* the default case (sunssf among them).
Value(type, d, s) ==
    IF Decodes(type)
    THEN [err |-> FALSE,
          val |-> Scale(IF SignedType(type) THEN TwosComplement(d) ELSE Unsigned(d),
                        Exponent(type, s) + Decimals)]
    ELSE [err |-> TRUE, val |-> 0]

=============================================================================
