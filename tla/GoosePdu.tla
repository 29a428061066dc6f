------------------------------ MODULE GoosePdu ------------------------------
(***************************************************************************)
(* The GOOSE PDU octet by octet: createGoosePayload of goose_publisher.cc, *)
(* and parseGoosePayload, parseAllData and parseAllDataUnknownValue of     *)
(* goose_receiver.cc.  Numbers of the header are uint32_t in four octets,  *)
(* strings are sequences of octets.                                        *)
(***************************************************************************)
EXTENDS MmsValue

CONSTANTS
    MaxPayloadSize,         \* GOOSE_MAX_MESSAGE_SIZE less the header of the frame
    ConvertFloat(_, _)      \* the machine's conversion of a float to a width

-----------------------------------------------------------------------------
\* The fields in the order of the PDU, each of them encoded.
UInt32(n) == Seconds(n)

GoIdOf(p) == IF p.goID # <<>> THEN p.goID ELSE p.goCBRef

HeaderFields(p, entries) ==
    BerEncoder_encodeStringWithTag(128, p.goCBRef)
    \o BerEncoder_encodeUInt32WithTL(129, p.timeAllowedToLive)
    \o BerEncoder_encodeStringWithTag(130, p.dataSetRef)
    \o BerEncoder_encodeStringWithTag(131, GoIdOf(p))
    \o BerEncoder_encodeOctetString(132, p.t)
    \o BerEncoder_encodeUInt32WithTL(133, p.stNum)
    \o BerEncoder_encodeUInt32WithTL(134, p.sqNum)
    \o BerEncoder_encodeBoolean(135, p.simulation)
    \o BerEncoder_encodeUInt32WithTL(136, p.confRev)
    \o BerEncoder_encodeBoolean(137, p.ndsCom)
    \o BerEncoder_encodeUInt32WithTL(138, UInt32(Len(entries)))

\* Step 1 of createGoosePayload: the length of the PDU, computed field by field.
goosePduLength(p, entries) ==
    LET dataSetSize == SumOfSizes(entries)
        number(v) == 2 + BerEncoder_UInt32determineEncodedSize(v)
    IN  BerEncoder_determineEncodedStringSize(p.goCBRef) + number(p.timeAllowedToLive)
        + BerEncoder_determineEncodedStringSize(p.dataSetRef)
        + BerEncoder_determineEncodedStringSize(GoIdOf(p))
        + 10 + number(p.sqNum) + number(p.stNum) + number(p.confRev) + 6
        + number(UInt32(Len(entries)))
        + dataSetSize + BerEncoder_determineLengthSize(dataSetSize) + 1

payloadSize(p, entries) ==
    LET n == goosePduLength(p, entries) IN 1 + BerEncoder_determineLengthSize(n) + n

\* createGoosePayload: <<>> stands for its result -1, nothing is sent then.
createGoosePayload(p, entries) ==
    IF payloadSize(p, entries) > MaxPayloadSize THEN <<>>
    ELSE BerEncoder_encodeTL(97, goosePduLength(p, entries))
         \o HeaderFields(p, entries)
         \o BerEncoder_encodeTL(171, SumOfSizes(entries))
         \o Encodings(entries)

\* The frame in front of the payload, made when the publisher is created: the
\* addresses, the VLAN tag if there is to be one, Ethertype, APPID and length.
prepareGooseBuffer(c) ==
    c.dstAddress \o c.srcAddress
    \o (IF c.useVlanTags
        THEN <<129, 0, (c.vlanPriority * 32 + c.vlanId \div 256) % 256, c.vlanId % 256>> ELSE <<>>)
    \o <<136, 184>> \o <<c.appId \div 256, c.appId % 256>> \o <<0, 8>> \o Zeros(4)

\* The frame sent, or <<>>: the two octets of its length are written again.
GoosePublisher_publish(buffer, payload) ==
    LET lengthField == Len(buffer) - 5
        gooseLength == Len(payload) + 8
    IN  IF payload = <<>> THEN <<>>
        ELSE [buffer EXCEPT ![lengthField] = gooseLength \div 256,
                            ![lengthField + 1] = gooseLength % 256] \o payload

\* What ns-3 makes a packet of: addresses and two more octets are cut off.
GooseSendPacket(frame) == SubSeq(frame, 15, Len(frame))

-----------------------------------------------------------------------------
\* The elements of a buffer that start from position p on and before end, [tag,
\* ok, contents]; ok is FALSE for the last one if its length cannot be decoded.
RECURSIVE ElementsFrom(_, _, _)
ElementsFrom(buf, p, end) ==
    IF p >= end THEN <<>>
    ELSE LET r == BerDecoder_decodeLength(buf, p + 1)
             tag == buf[p + 1]
         IN  IF r.pos = -1 THEN <<[tag |-> tag, ok |-> FALSE, contents |-> <<>>]>>
             ELSE <<[tag |-> tag, ok |-> TRUE,
                     contents |-> SubSeq(buf, r.pos + 1, r.pos + r.length)]>>
                  \o ElementsFrom(buf, r.pos + r.length, end)

Elements(buf) == ElementsFrom(buf, 0, Len(buf))

KnownTags == {DataTag[t] : t \in DOMAIN DataTag} \ {DataTag["string"]}

TypeOf(tag) ==
    IF tag \in KnownTags THEN CHOOSE t \in DOMAIN DataTag : DataTag[t] = tag ELSE "unknown"

FloatOctets(c) == SubSeq(c, 2, Len(c))

\* The number of bits of a bit string element, negative if it is not plausible.
BitLengthNoPadding(c) == 8 * (Len(c) - 1)

BitLength(c) == IF c = <<>> THEN -8 ELSE 8 * (Len(c) - 1) - c[1]

-----------------------------------------------------------------------------
\* parseAllData, [value, error].
RECURSIVE parseAllDataOctets(_, _), ParseElements(_, _, _), UpdateElement(_, _)

Outcome(v, e) == [value |-> v, error |-> e]

IntegerTooShortChecked(v, c) == Len(c) < v.max

IntegerFits(v, c) == Len(c) =< v.max

\* One element into the value that is there for it.
UpdateElement(v, el) ==
    LET c == el.contents
        type == TypeOf(el.tag)
    IN  IF ~el.ok THEN Outcome(v, "TAGDECODE")
        ELSE IF type = "unknown" THEN Outcome(v, "UNKNOWN_TAG")
        ELSE IF type = "accesserror" THEN Outcome(v, "NO_ERROR")
        ELSE IF type = "utctime" /\ Len(c) # 8 THEN Outcome(v, "LENGTH_MISMATCH")
        ELSE IF type # v.type THEN Outcome(v, "TYPE_MISMATCH")
        ELSE CASE type \in Complex ->
                    LET inner == parseAllDataOctets(c, v)
                    IN  Outcome(inner.value,
                                IF inner.error = "NO_ERROR" THEN "NO_ERROR" ELSE "SUBLEVEL")
               [] type = "boolean" ->
                    Outcome([v EXCEPT !.octets = <<BerDecoder_decodeBoolean(c[1])>>], "NO_ERROR")
               [] type = "bitstring" ->
                    IF BitLength(c) = v.max
                    THEN Outcome([v EXCEPT !.octets = Tail(c)], "NO_ERROR")
                    ELSE Outcome(v, "LENGTH_MISMATCH")
               [] type \in {"integer", "unsigned"} ->
                    IF IntegerFits(v, c) THEN Outcome([v EXCEPT !.octets = c], "NO_ERROR")
                    ELSE Outcome(v, "LENGTH_MISMATCH")
               [] type = "float" ->
                    IF Len(c) \in {5, 9}
                    THEN Outcome([v EXCEPT !.octets =
                                    IF v.max = 8 * (Len(c) - 1) THEN FloatOctets(c)
                                    ELSE ConvertFloat(FloatOctets(c), v.max)], "NO_ERROR")
                    ELSE Outcome(v, "LENGTH_MISMATCH")
               [] type \in {"octetstring", "visiblestring"} ->
                    Outcome([v EXCEPT !.octets = c, !.max = IF Len(c) =< @ THEN @ ELSE Len(c)],
                            "NO_ERROR")
               [] type = "binarytime" ->
                    Outcome(IF Len(c) \in {4, 6}
                            THEN [v EXCEPT !.octets = c \o SubSeq(@, Len(c) + 1, 6)]
                            ELSE v, "NO_ERROR")
               [] type = "utctime" -> Outcome(MmsValue_setUtcTimeByBuffer(v, c), "NO_ERROR")

\* Elements els into the components of v from number i on.  Whatever stopped the
\* loop, components that are left over make it an underflow.
ParseElements(els, v, i) ==
    LET max == Len(v.components)
        left(e) == IF i =< max THEN "UNDERFLOW" ELSE e
    IN  IF els = <<>> THEN Outcome(v, left("NO_ERROR"))
        ELSE IF i > max THEN Outcome(v, "OVERFLOW")
        ELSE IF v.components[i] = NullValue THEN Outcome(v, "TYPE_MISMATCH")
        ELSE LET r == UpdateElement(v.components[i], Head(els))
                 w == [v EXCEPT !.components[i] = r.value]
             IN  IF r.error # "NO_ERROR" THEN Outcome(w, left(r.error))
                 ELSE ParseElements(Tail(els), w, i + 1)

parseAllDataOctets(buf, v) == ParseElements(Elements(buf), v, 1)

-----------------------------------------------------------------------------
\* parseAllDataUnknownValue; NullValue if it gives up.
RECURSIVE LearnOctets(_, _)

BitStringNoCheck(c) == TRUE

PlausibleBitString(c) == Len(c) > 1 /\ c[1] =< 7

\* The value made of an element: NullValue where its length is odd.
NewValue(el) ==
    LET c == el.contents
        type == TypeOf(el.tag)
        n == Len(c)
    IN  CASE type = "array" -> LearnOctets(c, FALSE)
          [] type = "structure" -> LearnOctets(c, TRUE)
          [] type = "boolean" -> MmsValue_newBoolean(BerDecoder_decodeBoolean(c[1]))
          [] type = "bitstring" -> [MmsValue_newBitString(BitLength(c)) EXCEPT !.octets = Tail(c)]
          [] type = "integer" -> [MmsValue_newInteger(8 * n) EXCEPT !.octets = c]
          [] type = "unsigned" -> [MmsValue_newUnsigned(8 * n) EXCEPT !.octets = c]
          [] type = "float" /\ n = 5 -> MmsValue_newFloat(BerDecoder_decodeFloat(c))
          [] type = "float" /\ n = 9 -> MmsValue_newDouble(BerDecoder_decodeDouble(c))
          [] type = "octetstring" -> [MmsValue_newOctetString(n, n) EXCEPT !.octets = c]
          [] type = "visiblestring" -> MmsValue_newVisibleStringFromByteArray(c)
          [] type = "binarytime" /\ n \in {4, 6} ->
                [MmsValue_newBinaryTime(n = 4) EXCEPT !.octets = c \o Zeros(6 - n)]
          [] type = "utctime" /\ n = 8 -> MmsValue_setUtcTimeByBuffer(MmsValue_newUtcTime(0), c)
          [] OTHER -> NullValue

GivesUp(el) ==
    LET c == el.contents
        type == TypeOf(el.tag)
    IN  \/ ~el.ok \/ type \in {"unknown", "accesserror"}
        \/ type \in Complex /\ NewValue(el) = NullValue
        \/ type = "bitstring" /\ ~PlausibleBitString(c)
        \/ type \in {"integer", "unsigned"} /\ Len(c) > 8

LearnOctets(buf, isStructure) ==
    LET els == Elements(buf)
        made == SelectSeq([i \in 1 .. Len(els) |-> NewValue(els[i])], LAMBDA v : v # NullValue)
        empty == IF isStructure THEN MmsValue_createEmptyStructure(Len(els))
                 ELSE MmsValue_createEmptyArray(Len(els))
    IN  IF \E i \in 1 .. Len(els) : GivesUp(els[i]) THEN NullValue
        ELSE [empty EXCEPT !.components =
                [i \in 1 .. Len(els) |-> IF i =< Len(made) THEN made[i] ELSE NullValue]]

-----------------------------------------------------------------------------
\* A subscriber at the level of octets.
NewSubscriber(ref) ==
    [goCBRef |-> ref, dataSet |-> <<>>, goId |-> <<>>, t |-> Zeros(8), timeAllowedToLive |-> Zeros(4),
     stNum |-> Zeros(4), sqNum |-> Zeros(4), confRev |-> Zeros(4), simulation |-> 0, ndsCom |-> 0,
     values |-> NullValue, parseError |-> "NO_ERROR"]

\* The last element of the PDU with that tag, or default.
Field(els, tag, default) ==
    LET hits == {i \in 1 .. Len(els) : els[i].tag = tag}
    IN  IF hits = {} THEN default ELSE els[Max(hits)].contents

\* A string that is longer than its buffer is ignored.
Named(octets, old) == IF Len(octets) > 129 THEN old ELSE octets

\* Observers and lists of subscribers are the business of GooseReceiver; here the
\* one subscriber has the reference of the message or not.  The strings are
\* copied while the PDU is read, the rest when it was read to its end.
parseGoosePayload(self, buf) ==
    LET pdu == BerDecoder_decodeLength(buf, 1)
        found == ElementsFrom(buf, pdu.pos, pdu.pos + pdu.length)
        els == SelectSeq(found, LAMBDA el : el.ok)
        number(tag) == BerDecoder_decodeUint32(Field(els, tag, <<>>))
        bool(tag) == BerDecoder_decodeBoolean(Field(els, tag, <<0>>)[1])
        confRev == number(136)
        kept == IF self.confRev # confRev THEN NullValue ELSE self.values
        allData == Field(els, 171, <<>>)
        parsed == parseAllDataOctets(allData, kept)
        named == [self EXCEPT !.dataSet = Named(Field(els, 130, @), @),
                              !.goId = Named(Field(els, 131, @), @)]
    IN  IF buf[1] # 97 \/ pdu.pos = -1 \/ Field(els, 128, <<>>) # self.goCBRef THEN self
        ELSE IF els # found THEN named
        ELSE [named EXCEPT
                !.t = Field(els, 132, MmsValue_setUtcTime(self.t, 0)),
                !.timeAllowedToLive = number(129), !.stNum = number(133), !.sqNum = number(134),
                !.confRev = confRev, !.simulation = bool(135), !.ndsCom = bool(137),
                !.values = IF kept = NullValue THEN LearnOctets(allData, FALSE) ELSE parsed.value,
                !.parseError = IF kept = NullValue THEN @ ELSE parsed.error]

\* The payload of a packet, which starts with the rest of a VLAN tag; <<>> if it
\* is dropped, because it is too short or its Ethertype is not found.
parseGooseMessage(packet) ==
    IF Len(packet) < 22 \/ packet[3] # 136 \/ packet[4] # 184 THEN <<>>
    ELSE SubSeq(packet, 13, 12 + packet[7] * 256 + packet[8] - 8)

\* What the functions of goose_subscriber.cc tell a listener.
GooseSubscriber_get(self) ==
    [goId |-> self.goId, goCbRef |-> self.goCBRef, dataSet |-> self.dataSet,
     stNum |-> self.stNum, sqNum |-> self.sqNum, isTest |-> self.simulation,
     confRev |-> self.confRev, needsCommission |-> self.ndsCom,
     timeAllowedToLive |-> self.timeAllowedToLive,
     timestamp |-> MmsValue_getUtcTimeInMs(self.t), dataSetValues |-> self.values]
=============================================================================
