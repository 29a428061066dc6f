----------------------------- MODULE BerEncoder -----------------------------
(***************************************************************************)
(* The BER encoder of libiec61850 (model/libiec61850/src/mms/asn1/         *)
(* ber_encoder.cc), but for object identifiers.                            *)
(*                                                                         *)
(* A buffer is a sequence of octets.  An encoder returns the octets it     *)
(* appends to the buffer.  Machine integers are sequences of octets too,   *)
(* the most significant first (4 for int32_t and uint32_t): the code       *)
(* copies and reverses their memory on a little-endian machine, with this  *)
(* effect.                                                                 *)
(***************************************************************************)
EXTENDS Integers, Sequences, SequencesExt, FiniteSetsExt

Octet == 0 .. 255

Zeros(n) == [i \in 1 .. n |-> 0]

-----------------------------------------------------------------------------
\* Lengths.
BerEncoder_encodeLength(n) ==
    IF n < 128 THEN <<n>>
    ELSE IF n < 256 THEN <<129, n>>
    ELSE IF n < 65535 THEN <<130, n \div 256, n % 256>>
    ELSE <<131, (n \div 65536) % 256, (n % 65536) \div 256, n % 256>>

DetermineLengthSizeLate(n) == IF n =< 128 THEN 1 ELSE IF n < 256 THEN 2 ELSE 3

BerEncoder_determineLengthSize(n) ==
    IF n < 128 THEN 1 ELSE IF n < 256 THEN 2 ELSE IF n < 65536 THEN 3 ELSE 4

BerEncoder_encodeTL(tag, n) == <<tag>> \o BerEncoder_encodeLength(n)

-----------------------------------------------------------------------------
\* Integers.  The shortest two's complement form of the octets.
Redundant(s) ==
    /\ Len(s) > 1
    /\ \/ s[1] = 0 /\ s[2] < 128
       \/ s[1] = 255 /\ s[2] >= 128

BerEncoder_compressInteger(s) ==
    LET k == Min({j \in 0 .. Len(s) - 1 : ~Redundant(SubSeq(s, j + 1, Len(s)))})
    IN  SubSeq(s, k + 1, Len(s))

\* The octets of a uint32_t, kept positive by a zero in front.
BerEncoder_encodeUInt32(v) == BerEncoder_compressInteger(<<0>> \o v)

BerEncoder_encodeInt32(v) == BerEncoder_compressInteger(v)

BerEncoder_UInt32determineEncodedSize(v) == Len(BerEncoder_compressInteger(<<0>> \o v))

BerEncoder_encodeUInt32WithTL(tag, v) ==
    LET octets == BerEncoder_compressInteger(<<0>> \o v)
    IN  <<tag, Len(octets)>> \o octets

-----------------------------------------------------------------------------
\* The other primitive types.
BerEncoder_encodeBoolean(tag, b) == <<tag, 1, IF b # 0 THEN 1 ELSE 0>>

\* A string ends before its first 0.
CString(s) ==
    LET ends == {i \in 1 .. Len(s) : s[i] = 0}
    IN  IF ends = {} THEN s ELSE SubSeq(s, 1, Min(ends) - 1)

BerEncoder_encodeStringWithTag(tag, s) ==
    BerEncoder_encodeTL(tag, Len(CString(s))) \o CString(s)

BerEncoder_determineEncodedStringSize(s) ==
    LET n == Len(CString(s)) IN 1 + BerEncoder_determineLengthSize(n) + n

BerEncoder_encodeOctetString(tag, octets) ==
    BerEncoder_encodeTL(tag, Len(octets)) \o octets

BerEncoder_encodeAsn1PrimitiveValue(tag, value) ==
    BerEncoder_encodeTL(tag, Len(value.octets)) \o value.octets

ByteSize(bits) == (bits + 7) \div 8

\* The unused bits of the last octet are counted and cleared.
BerEncoder_encodeBitString(tag, bits, octets) ==
    LET n == ByteSize(bits)
        padding == n * 8 - bits
        body == <<padding>> \o SubSeq(octets, 1, n)
        last == body[n + 1] - (body[n + 1] % 2^padding)
    IN  BerEncoder_encodeTL(tag, n + 1) \o [body EXCEPT ![n + 1] = last]

\* The size of the length is determined without the octet for the padding.
BerEncoder_determineEncodedBitStringSize(bits) ==
    2 + BerEncoder_determineLengthSize(ByteSize(bits)) + ByteSize(bits)

\* A float is its octets after the width of the exponent.
BerEncoder_encodeFloat(exponentWidth, octets) == <<exponentWidth>> \o octets
=============================================================================
