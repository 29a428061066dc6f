------------------------------ MODULE MmsValue ------------------------------
(***************************************************************************)
(* MMS values (model/libiec61850/src/mms/iso_mms/common/mms_value.cc) and  *)
(* their encoding as MMS data (server/mms_access_result.cc).               *)
(*                                                                         *)
(* A value is a record: its type, its octets (the memory the union of      *)
(* struct sMmsValue holds or points to), max (the number that goes with    *)
(* them: bits of a bit string, width of a float, room of an integer or a   *)
(* string, size of a binary time) and the components of an array or a      *)
(* structure, NullValue where one was never set.  Allocation never fails.  *)
(***************************************************************************)
EXTENDS BerCodec, MsTime

Complex == {"array", "structure"}

Value(type, octets, max) ==
    [type |-> type, octets |-> octets, max |-> max, components |-> <<>>]

NullValue == Value("null", <<>>, 0)

-----------------------------------------------------------------------------
\* Constructors.
MmsValue_newBoolean(b) == Value("boolean", <<b>>, 0)

MmsValue_newIntegerFromInt32(v) ==
    Value("integer", BerInteger_createFromInt32(v).octets, 5)

IntegerRoom(bits) == IF bits =< 32 THEN BerInteger_createInt32 ELSE BerInteger_createInt64

MmsValue_newInteger(bits) == Value("integer", IntegerRoom(bits).octets, IntegerRoom(bits).max)

MmsValue_newUnsigned(bits) ==
    Value("unsigned", IntegerRoom(bits).octets, IntegerRoom(bits).max)

MmsValue_newBitString(bits) == Value("bitstring", Zeros(ByteSize(bits)), bits)

\* size octets are in use, room octets are allocated.
MmsValue_newOctetString(size, room) == Value("octetstring", Zeros(size), room)

MmsValue_newStringFromByteArray(octets, type) == Value(type, octets, Len(octets))

MmsValue_newVisibleStringFromByteArray(octets) ==
    MmsValue_newStringFromByteArray(octets, "visiblestring")

MmsValue_newBinaryTime(timeOfDay) ==
    Value("binarytime", Zeros(6), IF timeOfDay THEN 4 ELSE 6)

\* The octets of a float are in the order of the encoding.
MmsValue_newFloat(octets) == Value("float", octets, 32)

MmsValue_newDouble(octets) == Value("float", octets, 64)

MmsValue_createEmptyArray(size) ==
    [Value("array", <<>>, 0) EXCEPT !.components = [i \in 1 .. size |-> NullValue]]

MmsValue_createEmptyStructure(size) ==
    [MmsValue_createEmptyArray(size) EXCEPT !.type = "structure"]

-----------------------------------------------------------------------------
\* Times, see MsTime.
MmsValue_newUtcTime(secs) == Value("utctime", MmsValue_setUtcTime(Zeros(8), secs), 0)

MmsValue_newUtcTimeByMsTime(ms) == Value("utctime", MmsValue_setUtcTimeMs(ms), 0)

MmsValue_setUtcTimeByBuffer(self, octets) == [self EXCEPT !.octets = octets]

-----------------------------------------------------------------------------
\* Bits are numbered from the most significant bit of the first octet.
BitMask(i) == 2^(7 - (i % 8))

MmsValue_getBitStringBit(self, i) ==
    i < self.max /\ (self.octets[i \div 8 + 1] \div BitMask(i)) % 2 = 1

MmsValue_setBitStringBit(self, i, b) ==
    IF i < self.max /\ MmsValue_getBitStringBit(self, i) # b
    THEN [self EXCEPT !.octets[i \div 8 + 1] = IF b THEN @ + BitMask(i) ELSE @ - BitMask(i)]
    ELSE self

\* Bit i of the result is bit i of the number n, as far as the string reaches.
MmsValue_setBitStringFromInteger(self, n) ==
    FoldLeftDomain(LAMBDA v, k : MmsValue_setBitStringBit(v, k - 1, (n \div 2^(k - 1)) % 2 = 1),
                   self, Zeros(self.max))

MmsValue_getBitStringAsInteger(self) ==
    MapThenSumSet(LAMBDA i : IF MmsValue_getBitStringBit(self, i) THEN 2^i ELSE 0,
                  0 .. self.max - 1)

MmsValue_setBitStringFromIntegerBigEndian(self, n) ==
    FoldLeftDomain(LAMBDA v, k : MmsValue_setBitStringBit(v, self.max - k, (n \div 2^(k - 1)) % 2 = 1),
                   self, Zeros(self.max))

MmsValue_getBitStringAsIntegerBigEndian(self) ==
    MapThenSumSet(LAMBDA i : IF MmsValue_getBitStringBit(self, i) THEN 2^(self.max - 1 - i) ELSE 0,
                  0 .. self.max - 1)

\* The numbers of a value; 0 for any other type.
IsNumber(self) == self.type \in {"integer", "unsigned"}

MmsValue_toInt64(self) == IF IsNumber(self) THEN BerInteger_toInt64(self) ELSE Zeros(8)

MmsValue_toUint32(self) == IF IsNumber(self) THEN BerInteger_toUint32(self) ELSE Zeros(4)

-----------------------------------------------------------------------------
\* The tags of MMS data.
DataTag ==
    [array |-> 161, structure |-> 162, boolean |-> 131, bitstring |-> 132, integer |-> 133,
     unsigned |-> 134, float |-> 135, octetstring |-> 137, visiblestring |-> 138,
     binarytime |-> 140, utctime |-> 145, string |-> 144, accesserror |-> 128]

RECURSIVE MmsValue_encodeMmsData(_), EncodedSize(_), SumOfSizes(_), Encodings(_)

Encodings(vs) ==
    IF vs = <<>> THEN <<>> ELSE MmsValue_encodeMmsData(Head(vs)) \o Encodings(Tail(vs))

SumOfSizes(vs) == IF vs = <<>> THEN 0 ELSE EncodedSize(Head(vs)) + SumOfSizes(Tail(vs))

\* encodeStructuredAccessResult and encodeArrayAccessResult: the length in
\* front is the sum of the computed sizes, not what is then written.
EncodeComplex(tag, vs) == BerEncoder_encodeTL(tag, SumOfSizes(vs)) \o Encodings(vs)

ComplexSize(vs) == 1 + SumOfSizes(vs) + BerEncoder_determineLengthSize(SumOfSizes(vs))

\* MmsValue_encodeMmsData with encode true.
MmsValue_encodeMmsData(self) ==
    LET tag == DataTag[self.type]
        o == self.octets
    IN  CASE self.type = "boolean" -> BerEncoder_encodeBoolean(tag, o[1])
          [] self.type \in Complex -> EncodeComplex(tag, self.components)
          [] self.type = "accesserror" ->
                BerEncoder_encodeTL(tag, BerEncoder_UInt32determineEncodedSize(o))
                    \o BerEncoder_encodeUInt32(o)
          [] self.type \in {"visiblestring", "string"} -> BerEncoder_encodeStringWithTag(tag, o)
          [] self.type \in {"integer", "unsigned"} ->
                BerEncoder_encodeAsn1PrimitiveValue(tag, self)
          [] self.type \in {"utctime", "octetstring"} -> BerEncoder_encodeOctetString(tag, o)
          [] self.type = "bitstring" -> BerEncoder_encodeBitString(tag, self.max, o)
          [] self.type = "binarytime" ->
                BerEncoder_encodeOctetString(tag, SubSeq(o, 1, self.max))
          [] self.type = "float" ->
                BerEncoder_encodeTL(tag, self.max \div 8 + 1)
                    \o BerEncoder_encodeFloat(IF self.max = 32 THEN 8 ELSE 11, o)

\* MmsValue_encodeMmsData with encode false.
EncodedSize(self) ==
    LET n == Len(self.octets)
    IN  CASE self.type = "boolean" -> 3
          [] self.type \in Complex -> ComplexSize(self.components)
          [] self.type = "accesserror" -> 2 + BerEncoder_UInt32determineEncodedSize(self.octets)
          [] self.type \in {"visiblestring", "string"} ->
                BerEncoder_determineEncodedStringSize(self.octets)
          [] self.type \in {"integer", "unsigned"} -> 2 + n
          [] self.type = "utctime" -> 10
          [] self.type = "octetstring" -> 1 + BerEncoder_determineLengthSize(n) + n
          [] self.type = "bitstring" -> BerEncoder_determineEncodedBitStringSize(self.max)
          [] self.type = "binarytime" -> 2 + self.max
          [] self.type = "float" -> self.max \div 8 + 1 + 2
=============================================================================
