----------------------------- MODULE MCPduCodec -----------------------------
(***************************************************************************)
(* Values, headers and ASDUs for TLC.                                      *)
(***************************************************************************)
EXTENDS PduCodec

Fill(n, o) == [i \in 1 .. n |-> o]

WithBits(bits, o) == [MmsValue_newBitString(bits) EXCEPT !.octets = Fill(ByteSize(bits), o)]

OctetString(n, o) == [MmsValue_newOctetString(n, n) EXCEPT !.octets = Fill(n, o)]

Text(n) == MmsValue_newVisibleStringFromByteArray(Fill(n, 65))

Int32(o) == MmsValue_newIntegerFromInt32(o)

Int64(o) == [MmsValue_newInteger(64) EXCEPT !.octets = BerInteger_createFromInt64(o).octets]

Unsigned(o) == [MmsValue_newUnsigned(32) EXCEPT !.octets = BerInteger_createFromUint32(o).octets]

Complexes(type, vs) == [Value(type, <<>>, 0) EXCEPT !.components = vs]

\* 1.0 as float and as double; the conversion of these two.
One32 == <<63, 128, 0, 0>>
One64 == <<63, 240, 0, 0, 0, 0, 0, 0>>
MCConvertFloat(o, width) == IF o \in {One32, One64} THEN IF width = 32 THEN One32 ELSE One64
                            ELSE Zeros(width \div 8)

\* One value of every type, and the edges of each: signs, lengths below and above
\* the long form, unused bits, integers of one to eight octets.
Singles ==
    {MmsValue_newBoolean(0), MmsValue_newBoolean(1),
     Int32(<<0, 0, 0, 0>>), Int32(<<0, 0, 0, 128>>), Int32(<<255, 255, 255, 128>>),
     Int32(<<128, 0, 0, 0>>), Int64(<<0, 0, 0, 255, 0, 0, 0, 0>>),
     Int64(<<255, 255, 127, 255, 255, 255, 255, 255>>),
     Unsigned(<<255, 255, 255, 255>>), Unsigned(<<0, 0, 0, 1>>),
     WithBits(0, 0), WithBits(3, 255), WithBits(16, 129), WithBits(13, 170), WithBits(1009, 1),
     OctetString(0, 0), OctetString(2, 0), OctetString(230, 7), OctetString(300, 7),
     Text(0), Text(2), Text(127), Text(128),
     [MmsValue_newBinaryTime(FALSE) EXCEPT !.octets = <<1, 2, 3, 4, 5, 6>>],
     MmsValue_newBinaryTime(TRUE),
     MmsValue_newUtcTimeByMsTime(1999), MmsValue_newFloat(One32), MmsValue_newDouble(One64),
     Value("accesserror", <<0, 0, 0, 9>>, 0), Value("string", <<66>>, 1)}

DataSets ==
    {<<>>} \cup {<<v>> : v \in Singles}
    \cup {<<Int32(<<0, 0, 0, 1>>), v>> : v \in {MmsValue_newBoolean(1), Text(2), WithBits(16, 129)}}
    \cup {<<Complexes(t, vs)>> : t \in Complex,
                vs \in {<<>>, <<Text(2)>>, <<MmsValue_newBoolean(1), Int32(<<0, 0, 1, 0>>)>>,
                        <<Complexes("structure", <<WithBits(3, 255), Text(126)>>)>>}}

\* The default frame of the library and one of another publisher.
Tagged == [dstAddress |-> <<1, 12, 205, 1, 0, 1>>, srcAddress |-> <<0, 0, 0, 0, 0, 1>>,
           useVlanTags |-> TRUE, vlanPriority |-> 4, vlanId |-> 0, appId |-> 4096]
LargeIds == [Tagged EXCEPT !.vlanPriority = 7, !.vlanId = 4095, !.appId = 65535]

Fields(ref, goID, n, b, ms) ==
    [comm |-> IF b = 0 THEN Tagged ELSE LargeIds, goCBRef |-> ref, dataSetRef |-> <<68, 83>>, goID |-> goID, timeAllowedToLive |-> n,
     stNum |-> n, sqNum |-> <<0, 0, 0, 0>>, simulation |-> b, ndsCom |-> 1 - b, ms |-> ms]

MCGoCBRef == <<71>>

Usual == Fields(MCGoCBRef, <<>>, <<0, 0, 1, 244>>, 0, 86400001)

\* Small and largest numbers, strings that fit and one that does not, the message
\* of another control block, and one without a VLAN tag.
MCMessages ==
    {[entries |-> d, header |-> Usual] : d \in DataSets}
    \cup {[entries |-> <<MmsValue_newBoolean(1)>>, header |-> h] :
            h \in {Fields(MCGoCBRef, <<1, 2>>, <<255, 255, 255, 255>>, 1, 999),
                   Fields(MCGoCBRef, Fill(130, 65), <<0, 128, 0, 0>>, 0, 1000),
                   Fields(<<72>>, <<>>, <<0, 0, 0, 1>>, 1, 0),
                   [Usual EXCEPT !.comm.useVlanTags = FALSE]}}

-----------------------------------------------------------------------------
\* A short and a long svID, the second one with a data set reference.
MCNames == {[svID |-> <<65>>, datset |-> <<>>], [svID |-> Fill(130, 65), datset |-> <<68, 83>>]}

MCElementValues ==
    [INT8 |-> {<<255>>}, INT32 |-> {<<1, 2, 3, 128>>}, INT64 |-> {<<1, 2, 3, 4, 5, 6, 7, 8>>},
     FLOAT |-> {<<0, 0, 128, 63>>}, FLOAT64 |-> {<<0, 0, 0, 0, 0, 0, 240, 63>>},
     Timestamp |-> {<<1, 2, 3, 4, 5, 6, 7, 138>>}, Quality |-> {<<5000>>}]

MCRefrTimes ==
    {[by |-> "ms", time |-> 86400125], [by |-> "ms", time |-> 999],
     [by |-> "ns", time |-> [secs |-> 1, ns |-> 999999999]],
     [by |-> "timestamp", time |-> <<1, 2, 3, 4, 5, 6, 7, 138>>]}

\* What the next steps depend on: a message that has arrived is not read again,
\* nor is what the listener of the sampled values was given.
Ahead == <<confRev, wire, sub, IF wire = <<>> THEN header = NoHeader ELSE <<entries, header>>,
           layoutVars, svFrame>>

-----------------------------------------------------------------------------
Edges == {0, 1, 127, 128, 255}
Words == {<<a, b, c, d>> : a, b, c, d \in Edges}

\* Machine integers survive their encoding, signed and unsigned, in 32 and 64
\* bits, and the encoding is the shortest one.
ASSUME IntegersSurvive ==
    \A w \in Words :
        /\ BerDecoder_decodeInt32(BerEncoder_encodeInt32(w)) = w
        /\ BerDecoder_decodeUint32(BerEncoder_encodeUInt32(w)) = w
        /\ BerInteger_toInt32(BerInteger_createFromInt32(w)) = w
        /\ BerInteger_toUint32(BerInteger_createFromUint32(w)) = w
        /\ MmsValue_toUint32(Unsigned(w)) = w
        /\ MmsValue_toInt64(Int64(w \o w)) = w \o w
        /\ ~Redundant(BerEncoder_encodeInt32(w))
        /\ BerInteger_toInt64(BerInteger_createFromUint32(w)) = Zeros(4) \o w
        /\ BerInteger_toUint32(BerInteger_setUint16(BerInteger_createInt32, <<w[1], w[2]>>))
                = <<0, 0, w[1], w[2]>>
        /\ BerInteger_toUint32(BerInteger_setUint8(BerInteger_createInt32, <<w[1]>>))
                = <<0, 0, 0, w[1]>>

\* An identifier survives its encoding when it has at most 10 arcs and the first
\* two fit in one octet; a buffer that is too small is refused.
Arcs == {0, 1, 127, 128, 16384, 99999}
ASSUME IdentifiersSurvive ==
    \A a \in 0 .. 2, b \in {0, 39}, c, d \in Arcs :
        LET oid == <<a, b, c, d>>
            octets == BerEncoder_encodeOIDToBuffer(oid, 20)
        IN  /\ BerDecoder_decodeOID(octets) = oid
            /\ d # 0 => BerEncoder_encodeOIDToBuffer(oid, Len(octets) - 1) = <<>>

\* Bit strings and the numbers made of them, in both orders.
ASSUME BitStringsAreNumbers ==
    \A bits \in 1 .. 10 : \A n \in 0 .. 2^bits - 1 :
        LET s == MmsValue_newBitString(bits)
        IN  /\ MmsValue_getBitStringAsInteger(MmsValue_setBitStringFromInteger(s, n)) = n
            /\ MmsValue_getBitStringAsIntegerBigEndian(
                    MmsValue_setBitStringFromIntegerBigEndian(s, n)) = n

\* The flags of a quality and its validity do not disturb each other, and a
\* quality of 13 bits survives as a bit string, old or new.
ASSUME QualitiesSurvive ==
    \A q \in 0 .. 8191 :
        /\ Quality_fromMmsValue(Quality_toMmsValue(q, NullValue)) = q
        /\ \A validity \in 0 .. 3 :
                /\ Quality_getValidity(Quality_setValidity(q, validity)) = validity
                /\ Quality_setValidity(q, validity) \div 4 = q \div 4
        /\ q % 97 = 0 => \A i, j \in 2 .. 12 :
                /\ Quality_isFlagSet(Quality_setFlag(q, 2^i), 2^j) = (i = j \/ Quality_isFlagSet(q, 2^j))
                /\ Quality_isFlagSet(Quality_unsetFlag(q, 2^i), 2^j) = (i # j /\ Quality_isFlagSet(q, 2^j))
                /\ Quality_getValidity(Quality_setFlag(q, 2^i)) = Quality_getValidity(q)
                /\ Quality_fromMmsValue(Quality_toMmsValue(q, WithBits(13, 255))) = q

\* A double point position survives, in a value made for it and in one that
\* held another position; a value of another size is refused.
ASSUME PositionsSurvive ==
    \A p \in 0 .. 3 :
        /\ Dbpos_fromMmsValue(Dbpos_toMmsValue(NullValue, p)) = p
        /\ Dbpos_fromMmsValue(Dbpos_toMmsValue(WithBits(2, 192), p)) = p
        /\ Dbpos_toMmsValue(WithBits(3, 0), p) = NullValue

\* The name of a functional constraint names it, and no other two letters do.
ASSUME ConstraintsSurvive ==
    /\ \A fc \in FunctionalConstraint :
            FunctionalConstraint_fromString(FunctionalConstraint_toString(fc)) = fc
    /\ \A a, b \in DOMAIN Second \cup {"T", "X", "P", "V", "F"} :
            FunctionalConstraint_fromString(<<a, b>>) = "NONE" <=> <<a, b>> \notin Range(Letters)

\* The three flags and the precision of a time stamp are independent, and the
\* functions that set the time leave them alone.
Stamps == {<<1, 2, 3, 4, 5, 6, 7, o>> : o \in 0 .. 255}
ASSUME FlagsIndependent ==
    \A ts \in Stamps, b \in BOOLEAN :
        LET known == Timestamp_setLeapSecondKnown(ts, b)
            failed == Timestamp_setClockFailure(ts, b)
            unsync == Timestamp_setClockNotSynchronized(ts, b)
            precise == Timestamp_setSubsecondPrecision(ts, 24)
            Flags(t) == <<Timestamp_isLeapSecondKnown(t), Timestamp_hasClockFailure(t),
                          Timestamp_isClockNotSynchronized(t),
                          Timestamp_getSubsecondPrecision(t)>>
        IN  /\ Flags(known) = [Flags(ts) EXCEPT ![1] = b]
            /\ Flags(failed) = [Flags(ts) EXCEPT ![2] = b]
            /\ Flags(unsync) = [Flags(ts) EXCEPT ![3] = b]
            /\ Flags(precise) = [Flags(ts) EXCEPT ![4] = 24]
            /\ Flags(Timestamp_setTimeInSeconds(ts, 1)) = Flags(ts)
            /\ Flags(Timestamp_setTimeInMilliseconds(ts, 1)) = Flags(ts)
            /\ Timestamp_setByMmsUtcTime(Timestamp_create, Timestamp_toMmsValue(ts)) = ts
            /\ Timestamp_fromMmsValue(Timestamp_toMmsValue(ts)) = ts
            /\ Timestamp_createFromByteArray(Timestamp_clearFlags(ts)) = [ts EXCEPT ![8] = 0]

\* A time in ms is read as it was set, at every fraction of a second; one in ns
\* loses less than the 60 ns of the last bit.
ASSUME TimesSurvive ==
    /\ \A ms \in 0 .. 1999 :
            Timestamp_getTimeInMs(Timestamp_setTimeInMilliseconds(Timestamp_create, ms)) = ms
    /\ \A ns \in {0, 1, 59, 60, 999999999} \cup {1000003 * k : k \in 1 .. 998} :
            LET ts == Timestamp_setTimeInNanoseconds(Timestamp_create, [secs |-> 7, ns |-> ns])
            IN  /\ Timestamp_getTimeInSeconds(ts) = 7
                /\ Timestamp_getTimeInNs(ts).ns \in ns - 60 .. ns
=============================================================================
