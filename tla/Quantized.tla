------------------------------ MODULE Quantized ------------------------------
(***************************************************************************)
(* FVector3d (lib/engine/src/vector.rs), the packed vector of             *)
(* lib/engine/src/util/quantized.rs and the net serialization of FRotator *)
(* (lib/engine/src/rotator.rs).                                           *)
(*                                                                         *)
(* A component of a vector is an f64.  Here it is a rational number: the  *)
(* writer takes integer numerators over a denominator `den` the caller    *)
(* fixes (the game mode's spawn locations are given to a tenth, so den 10 *)
(* holds them exactly), and the reader returns records [num, den].  The   *)
(* f64 products and roundings of the code are exact for such values as   *)
(* long as they stay far below 2^53, which the locations do.              *)
(*                                                                         *)
(* TLC's integers stop at 2^31 - 1: the comparisons with 2^52 and 2^62 are *)
(* made on bit lengths, and a packed component must stay below 2^30.     *)
(***************************************************************************)
EXTENDS Integers, Sequences, SequencesExt, BitStream

Abs(n) == IF n < 0 THEN -n ELSE n

\* The number of binary digits of a natural number, 0 for 0 (64 minus
\* u64::leading_zeros).
RECURSIVE BitLength(_)
BitLength(n) == IF n = 0 THEN 0 ELSE 1 + BitLength(n \div 2)

\* |num / den| < 2^e.
BelowPow2(num, den, e) == BitLength(Abs(num) \div den) <= e

\* FVector3d::is_zero.
IsZero(v) == \A k \in 1..3 : v[k] = 0

\* FVector3d::get_abs_max and get_abs_min fold the absolute components
\* starting from 0.0: the largest of them, and the smallest of 0.0 and
\* them, which is 0.0 whatever the vector.
GetAbsMax(v) == FoldLeft(LAMBDA a, c : Max({a, Abs(c)}), 0, v)
GetAbsMin(v) == FoldLeft(LAMBDA a, c : Min({a, Abs(c)}), 0, v)

\* round_float_to_int(num / den): (f + f.signum() * 0.5) as i64, which
\* rounds half away from zero (signum of 0.0 is 1.0).
RoundFloatToInt(num, den) ==
    IF num < 0 THEN -((2 * (-num) + den) \div (2 * den))
    ELSE (2 * num + den) \div (2 * den)

(* Fault model for get_bits_needed: 64 - leading_zeros, no sign bit. *)
GetBitsNeededUnsigned(value) == BitLength(IF value < 0 THEN -value - 1 ELSE value)

\* get_bits_needed: value ^ (value >> 63) turns a negative value into its
\* one's complement, and 65 - leading_zeros is its bit length plus a sign
\* bit.
GetBitsNeeded(value) == 1 + BitLength(IF value < 0 THEN -value - 1 ELSE value)

\* The branch write_packed_vector takes for vectors it can pack: the
\* largest scaled component below MAX_SCALED_VALUE = 2^62.  The other
\* branch writes three f64 bit patterns, which this module does not model.
PackedVectorFits(v, den, scaleFactor) ==
    BelowPow2(GetAbsMax([k \in 1..3 |-> v[k] * scaleFactor]), den, 62)

\* QuantizedWriteExt::write_packed_vector for a vector that fits: the
\* components rounded after scaling when the smallest scaled component is
\* below MAX_VALUE_TO_SCALE = 2^52 (always, as get_abs_min is 0.0), the
\* bit count of the widest one with the scale flag in bit 6 as a 7-bit
\* header, then each component in that many bits.  BitWrite::write of a
\* negative i64 is taken to write the low bits of its two's complement,
\* which is what read_packed_vector sign-extends.
WritePackedVector(v, den, scaleFactor) ==
    LET scaled    == [k \in 1..3 |-> v[k] * scaleFactor]
        useScaled == BelowPow2(GetAbsMin(scaled), den, 52)
        c         == [k \in 1..3 |-> IF useScaled THEN RoundFloatToInt(scaled[k], den)
                                     ELSE RoundFloatToInt(v[k], den)]
        count     == Max({GetBitsNeeded(c[k]) : k \in 1..3})
    IN  Bits((IF useScaled THEN 64 ELSE 0) + count, 7)
          \o FlattenSeq([k \in 1..3 |-> Bits(c[k] % 2^count, count)])

\* The bit count of a packed vector's header is 0: its components are f32
\* (extra info 0) or f64 (extra info 1) bit patterns, read as <<>>.
FloatVectorBits(extra) == 3 * (IF extra # 0 THEN 64 ELSE 32)

\* QuantizedReadExt::read_packed_vector: the header, then three components
\* of component_bit_count bits, sign-extended by (x ^ sign_bit) - sign_bit
\* and divided by the scale factor when the header's extra info is set.
ReadPackedVector(s, pos, scaleFactor) ==
    LET info  == ValueOf(Slice(s, pos, 7))
        count == info % 64
        extra == info \div 64
        comp(k) == LET x == ValueOf(Slice(s, pos + 7 + (k - 1) * count, count))
                   IN  IF x >= 2^(count - 1) THEN x - 2^count ELSE x
    IN  IF count > 0
        THEN [value |-> [k \in 1..3 |-> [num |-> comp(k),
                                         den |-> IF extra # 0 THEN scaleFactor ELSE 1]],
              next  |-> pos + 7 + 3 * count]
        ELSE [value |-> <<>>, next |-> pos + 7 + FloatVectorBits(extra)]

\* FRotator::net_deserialize: for pitch, yaw and roll a bit, and after a
\* set bit the 16-bit compressed axis (0 otherwise).
ReadAxis(s, pos) ==
    IF BitAt(s, pos) = 1 THEN [value |-> ValueOf(Slice(s, pos + 1, 16)), next |-> pos + 17]
    ELSE [value |-> 0, next |-> pos + 1]

ReadRotator(s, pos) ==
    LET pitch == ReadAxis(s, pos)
        yaw   == ReadAxis(s, pitch.next)
        roll  == ReadAxis(s, yaw.next)
    IN  [value |-> <<pitch.value, yaw.value, roll.value>>, next |-> roll.next]
=============================================================================
