------------------------------ MODULE BerCodec ------------------------------
(***************************************************************************)
(* The BER decoder and integers of libiec61850, and both directions of     *)
(* object identifiers (model/libiec61850/src/mms/asn1).                    *)
(*                                                                         *)
(* A decoder gets the buffer and a position in it.                         *)
(***************************************************************************)
EXTENDS BerEncoder

CONSTANT MaxDepth       \* 50 in the code: nested indefinite lengths

\* The result of a decoder of lengths: pos is -1 when it fails.
BadLength == [pos |-> -1, length |-> -1]

\* The octets of a long form, from position p on; each is checked against the
\* end of the buffer, and the length so far against what is left.
RECURSIVE LongForm(_, _, _, _, _)
LongForm(buf, p, maxPos, left, length) ==
    IF left = 0 THEN [pos |-> p, length |-> length]
    ELSE IF p >= maxPos \/ p + length > maxPos THEN BadLength
    ELSE LongForm(buf, p + 1, maxPos, left - 1, length * 256 + buf[p + 1])

\* Positions count from 0, as in the code; buf[p + 1] is the octet at p.
RECURSIVE DecodeLength(_, _, _, _), IndefiniteLength(_, _, _, _, _)

\* getIndefiniteLength: the length up to and with the end-of-contents octets,
\* or -1; length is what was skipped so far.
IndefiniteLength(buf, p, maxPos, depth, length) ==
    IF depth + 1 > MaxDepth \/ p >= maxPos THEN -1
    ELSE IF buf[p + 1] = 0 /\ p + 1 < maxPos /\ buf[p + 2] = 0 THEN length + 2
    ELSE LET tagSize == IF buf[p + 1] % 32 = 31 THEN 2 ELSE 1
             inner == DecodeLength(buf, p + tagSize, maxPos, depth + 1)
         IN  IF inner.pos = -1 THEN -1
             ELSE IndefiniteLength(buf, inner.pos + inner.length, maxPos, depth,
                                   length + inner.pos + inner.length - p)

\* BerDecoder_decodeLengthRecursive: where the contents start, and their length.
DecodeLength(buf, p, maxPos, depth) ==
    IF p >= maxPos THEN BadLength
    ELSE LET first == buf[p + 1]
             r == IF first < 128 THEN [pos |-> p + 1, length |-> first]
                  ELSE IF first = 128
                  THEN [pos |-> p + 1,
                        length |-> IndefiniteLength(buf, p + 1, maxPos, depth, 0)]
                  ELSE LongForm(buf, p + 1, maxPos, first - 128, 0)
         IN  IF r.length < 0 \/ r.pos + r.length > maxPos THEN BadLength ELSE r

BerDecoder_decodeLength(buf, p) == DecodeLength(buf, p, Len(buf), 0)

-----------------------------------------------------------------------------
\* Integers: the octets of a value, filled to the width they are read with.
\* The last n octets of s, filled with pad in front: n octets shifted in from
\* the right, of which the first ones are lost.
LastOctets(s, n, pad) ==
    [i \in 1 .. n |-> IF Len(s) - n + i >= 1 THEN s[Len(s) - n + i] ELSE pad]

SignOctet(s) == IF s # <<>> /\ s[1] >= 128 THEN 255 ELSE 0

BerDecoder_decodeUint32(s) == LastOctets(s, 4, 0)

BerDecoder_decodeInt32(s) == LastOctets(s, 4, SignOctet(s))

\* Asn1PrimitiveValue_create: one octet 0, and room for maxSize.
Asn1PrimitiveValue_create(maxSize) == [octets |-> <<0>>, max |-> maxSize]

BerInteger_createInt32 == Asn1PrimitiveValue_create(5)

BerInteger_createInt64 == Asn1PrimitiveValue_create(9)

\* An integer that does not fit leaves the value as it is.
setIntegerValue(self, octets) ==
    LET short == BerEncoder_compressInteger(octets)
    IN  IF Len(short) =< self.max THEN [self EXCEPT !.octets = short] ELSE self

BerInteger_setInt32(self, v) == setIntegerValue(self, v)

BerInteger_setInt64(self, v) == setIntegerValue(self, v)

BerInteger_setUint32(self, v) == setIntegerValue(self, <<0>> \o v)

BerInteger_setUint16(self, v) == setIntegerValue(self, <<0>> \o v)

\* One octet, without the zero that would keep it positive.
BerInteger_setUint8(self, v) == setIntegerValue(self, v)

BerInteger_createFromInt32(v) == BerInteger_setInt32(BerInteger_createInt32, v)

BerInteger_createFromUint32(v) == BerInteger_setUint32(BerInteger_createInt32, v)

BerInteger_createFromInt64(v) == BerInteger_setInt64(BerInteger_createInt64, v)

BerInteger_toInt32(self) == LastOctets(self.octets, 4, SignOctet(self.octets))

BerInteger_toUint32(self) == LastOctets(self.octets, 4, 0)

BerInteger_toInt64(self) == LastOctets(self.octets, 8, SignOctet(self.octets))

-----------------------------------------------------------------------------
\* The other primitive types.
BerDecoder_decodeBoolean(octet) == IF octet # 0 THEN 1 ELSE 0

BerDecoder_decodeFloat(contents) == SubSeq(contents, 2, 5)

BerDecoder_decodeDouble(contents) == SubSeq(contents, 2, 9)

-----------------------------------------------------------------------------
\* Object identifiers: an identifier is the sequence of its arcs.  An arc of n
\* in base 128, all octets but the last with bit 8 set.
RECURSIVE Base128(_)
Base128(n) == IF n < 128 THEN <<n>> ELSE Append(Base128(n \div 128), n % 128)

ArcOctets(n) ==
    LET digits == Base128(n)
    IN  [i \in 1 .. Len(digits) |-> IF i < Len(digits) THEN digits[i] + 128 ELSE digits[i]]

\* Arcs after the first two, behind what is already encoded.  The room is
\* checked for every octet but the one of an arc 0; failing yields <<>>.
RECURSIVE EncodeArcs(_, _, _)
EncodeArcs(arcs, encoded, maxBufLen) ==
    IF arcs = <<>> THEN encoded
    ELSE LET octets == ArcOctets(Head(arcs))
         IN  IF Head(arcs) # 0 /\ Len(encoded) + Len(octets) > maxBufLen THEN <<>>
             ELSE EncodeArcs(Tail(arcs), encoded \o octets, maxBufLen)

BerEncoder_encodeOIDToBuffer(arcs, maxBufLen) ==
    IF Len(arcs) < 2 \/ maxBufLen = 0 THEN <<>>
    ELSE EncodeArcs(SubSeq(arcs, 3, Len(arcs)), <<(arcs[1] * 40 + arcs[2]) % 256>>, maxBufLen)

\* The arcs of the octets s from position p on, arc being what is known of the
\* current one; the structure has room for 10 arcs.
RECURSIVE DecodeArcs(_, _, _)
DecodeArcs(s, arcs, arc) ==
    IF s = <<>> \/ Len(arcs) = 10 THEN arcs
    ELSE IF Head(s) < 128 THEN DecodeArcs(Tail(s), Append(arcs, arc * 128 + Head(s)), 0)
    ELSE DecodeArcs(Tail(s), arcs, arc * 128 + Head(s) - 128)

BerDecoder_decodeOID(s) ==
    IF s = <<>> THEN <<>>
    ELSE DecodeArcs(Tail(s), <<s[1] \div 40, s[1] % 40>>, 0)
=============================================================================
