------------------------------ MODULE BitStream ------------------------------
(***************************************************************************)
(* The bit-level codecs of lib/engine/src/util: packed ints, compressed   *)
(* ints, terminated streams, the raw bit copies and FString.               *)
(*                                                                         *)
(* A stream is a sequence of bits in 0..1, in the order bitstream_io      *)
(* writes them with LittleEndian: the least significant bit of a value    *)
(* first, and bytes filled from their least significant bit.  A byte     *)
(* buffer (Vec<u8>) is such a sequence whose length is a multiple of 8.   *)
(*                                                                         *)
(* Readers take the stream and a 1-based bit position and return a record *)
(* [value, next].  They read past the end as zeros; the caller compares    *)
(* next with the length to detect the io::Error of a short read.          *)
(*                                                                         *)
(* TLC's integers stop at 2^31 - 1, so the values written here stay below *)
(* it.  The u32 arithmetic of the code is kept where a value below 2^31   *)
(* can reach it: the shift of the fifth packed group drops its high bits.  *)
(* The compressed-int mask would wrap to 0 only after 32 doublings, which *)
(* max_value < 2^30 never allows.                                          *)
(***************************************************************************)
EXTENDS Integers, Sequences, SequencesExt

\* BitWrite::write(n, v): the n low bits of v, least significant first
\* (bit 32 and above of a value below 2^31 are zero).
Bits(v, n) == [i \in 1..n |-> IF i > 31 THEN 0 ELSE (v \div 2^(i-1)) % 2]

\* BitRead::read(n) on the bits already taken out of the stream.
RECURSIVE ValueOf(_)
ValueOf(s) == IF s = <<>> THEN 0 ELSE Head(s) + 2 * ValueOf(Tail(s))

\* The bit at position i, zero past the end of the stream.
BitAt(s, i) == IF i \in 1..Len(s) THEN s[i] ELSE 0

\* n bits from position pos, zero-filled past the end.
Slice(s, pos, n) == [i \in 1..n |-> BitAt(s, pos + i - 1)]

\* BitWrite::byte_align: pad with zero bits to a whole byte.
ByteAlign(s) == s \o [i \in 1..((8 - (Len(s) % 8)) % 8) |-> 0]

\* BitWrite::write_bytes of a sequence of byte values.
Bytes(bs) == [i \in 1..8 * Len(bs) |-> (bs[(i - 1) \div 8 + 1] \div 2^((i - 1) % 8)) % 2]

\* PackedBitWriteExt::write_packed_int: groups of 7 bits, each after a bit
\* that says whether another group follows.
RECURSIVE WritePackedInt(_)
WritePackedInt(value) ==
    LET next == value \div 128
    IN  <<IF next # 0 THEN 1 ELSE 0>> \o Bits(value % 128, 7)
          \o (IF next = 0 THEN <<>> ELSE WritePackedInt(next))

\* packed_int_size_in_bits: eight bits per group.
RECURSIVE PackedIntSizeInBits(_)
PackedIntSizeInBits(value) ==
    8 + (IF value \div 128 = 0 THEN 0 ELSE PackedIntSizeInBits(value \div 128))

\* PackedBitReadExt::read_packed_int: `result |= byte << shift` on a u32,
\* stopping after a group without the continuation bit or once the shift
\* passes 32.  The groups never overlap, so the OR is an addition, and
\* `byte << shift` on a u32 keeps the 32 - shift low bits of byte.
RECURSIVE ReadPackedFrom(_, _, _, _)
ReadPackedFrom(s, pos, shift, result) ==
    LET more   == BitAt(s, pos) = 1
        byte   == ValueOf(Slice(s, pos + 1, 7))
        kept   == IF shift + 7 <= 32 THEN byte ELSE byte % 2^(32 - shift)
        value  == result + kept * 2^shift
    IN  IF ~more \/ shift + 7 > 32
        THEN [value |-> value, next |-> pos + 8]
        ELSE ReadPackedFrom(s, pos + 8, shift + 7, value)

ReadPackedInt(s, pos) == ReadPackedFrom(s, pos, 0, 0)

\* CompressedWriteExt::write_compressed_int: one bit per mask while
\* new_value + mask < max_value, the mask shifted left each time.
RECURSIVE WriteCompressedFrom(_, _, _, _)
WriteCompressedFrom(value, max, mask, newValue) ==
    IF newValue + mask < max /\ mask # 0
    THEN LET b == (value \div mask) % 2
         IN  <<b>> \o WriteCompressedFrom(value, max, mask * 2, newValue + b * mask)
    ELSE <<>>

WriteCompressedInt(value, max) == WriteCompressedFrom(value, max, 1, 0)

\* CompressedReadExt::read_compressed_int.
RECURSIVE ReadCompressedFrom(_, _, _, _, _)
ReadCompressedFrom(s, pos, max, mask, value) ==
    IF value + mask < max /\ mask # 0
    THEN ReadCompressedFrom(s, pos + 1, max, mask * 2, value + BitAt(s, pos) * mask)
    ELSE [value |-> value, next |-> pos]

ReadCompressedInt(s, pos, max) == ReadCompressedFrom(s, pos, max, 1, 0)

\* The value get_bits_from_terminated_stream returns for a buffer whose
\* last byte is zero: the code's UnterminatedBitsError, which every caller
\* unwraps.
Unterminated == -1

\* get_bits_from_terminated_stream: the number of bits before the highest
\* set bit of the last byte.
GetBitsFromTerminatedStream(buf) ==
    IF buf = <<>> THEN 0
    ELSE LET last == SubSeq(buf, Len(buf) - 7, Len(buf))
         IN  IF \A i \in 1..8 : last[i] = 0 THEN Unterminated
             ELSE LET h == CHOOSE i \in 1..8 : last[i] = 1 /\ \A j \in i+1..8 : last[j] = 0
                  IN  Len(buf) - 8 + h - 1

\* WriteBitsExt::write_bits: the len/8 whole bytes, then the low len%8 bits
\* of the LAST byte of the buffer.
WriteBits(buf, len) ==
    SubSeq(buf, 1, 8 * (len \div 8))
      \o (IF len % 8 = 0 THEN <<>> ELSE SubSeq(buf, Len(buf) - 7, Len(buf) - 8 + (len % 8)))

\* ReadBitsExt::read_bits: div_ceil(amount, 8) bytes, the last one holding
\* the remaining bits in its low positions.
ReadBits(s, pos, amount) == [value |-> ByteAlign(Slice(s, pos, amount)), next |-> pos + amount]

\* FStringWriteExt::write_string: a 32-bit length that counts the NUL, the
\* bytes, then the NUL.
WriteString(str) == Bits(1 + Len(str), 32) \o Bytes(str) \o Bits(0, 8)

\* FStringReadExt::read_string, ANSI case: save_num bytes, the last of
\* which is dropped.  A negative save_num selects UCS-2, which the server
\* never writes.  Either, or a length past the end of the stream, is a
\* failed read (next beyond the stream).
ReadString(s, pos) ==
    LET negative == BitAt(s, pos + 31) = 1
        saveNum  == ValueOf(Slice(s, pos, 31))
        bytes    == [i \in 1..saveNum |-> ValueOf(Slice(s, pos + 32 + 8 * (i - 1), 8))]
    IN  IF negative \/ pos + 32 + 8 * saveNum > Len(s) + 1
        THEN [value |-> <<>>, next |-> Len(s) + 1]
        ELSE [value |-> SubSeq(bytes, 1, saveNum - 1), next |-> pos + 32 + 8 * saveNum]

\* FStringWriteExt::write_name for FName::Hardcoded(index).
WriteHardcodedName(index) == <<1>> \o WritePackedInt(index)

\* FStringReadExt::read_name; a Custom name reads its string and the
\* 32-bit number after it.
ReadName(s, pos) ==
    IF BitAt(s, pos) = 1
    THEN LET n == ReadPackedInt(s, pos + 1)
         IN  [value |-> [hardcoded |-> TRUE, index |-> n.value], next |-> n.next]
    ELSE LET str == ReadString(s, pos + 1)
         IN  [value |-> [hardcoded |-> FALSE, index |-> 0], next |-> str.next + 32]
=============================================================================
