------------------------------- MODULE SvPdu --------------------------------
(***************************************************************************)
(* A sampled values message in the hands of a receiver, which parses it in *)
(* its own buffer, and of a listener that reads it with the functions of   *)
(* the API (sampled_values/sv_subscriber.cc).                              *)
(***************************************************************************)
EXTENDS Iec61850Common, SvAsdu

\* parseASDU: the places of the fields, by tag; the last one of a tag counts.
NoFields == [tag \in 128 .. 136 |-> [pos |-> NoPos, length |-> 0]]

RECURSIVE FieldsOf(_, _, _, _)
FieldsOf(buf, p, end, fields) ==
    IF p >= end THEN fields
    ELSE LET r == DecodeLength(buf, p + 1, end, 0)
         IN  IF r.pos = -1 THEN <<>>
             ELSE FieldsOf(buf, r.pos + r.length, end,
                           IF buf[p + 1] \in DOMAIN fields
                           THEN [fields EXCEPT ![buf[p + 1]] = r] ELSE fields)

\* The end of a string is marked in the buffer, on top of what follows it.
Terminate(buf, field) ==
    IF field.pos = NoPos THEN buf ELSE [buf EXCEPT ![field.pos + field.length + 1] = 0]

\* The ASDU a listener gets: the buffer and the places in it.  One whose
\* fields cannot be told apart reaches no listener.
parseASDU(buf, from, end) ==
    LET fields == FieldsOf(buf, from, end, NoFields)
    IN  IF fields = <<>> THEN [buf |-> buf, asdus |-> <<>>]
        ELSE LET done == Terminate(Terminate(buf, fields[128]), fields[129])
             IN  [buf |-> done, asdus |-> <<[buf |-> done, at |-> fields]>>]

\* parseSequenceOfASDU: every ASDU is parsed in the buffer the one before left.
RECURSIVE AsdusFrom(_, _, _, _)
AsdusFrom(buf, p, end, asdus) ==
    IF p >= end THEN [buf |-> buf, asdus |-> asdus]
    ELSE LET r == DecodeLength(buf, p + 1, end, 0)
             one == IF buf[p + 1] = 48 THEN parseASDU(buf, r.pos, r.pos + r.length)
                    ELSE [buf |-> buf, asdus |-> <<>>]
         IN  IF r.pos = -1 THEN [buf |-> buf, asdus |-> asdus]
             ELSE AsdusFrom(one.buf, r.pos + r.length, end, asdus \o one.asdus)

\* parseSVPayload, from position p on.
RECURSIVE PayloadFrom(_, _, _, _)
PayloadFrom(buf, p, end, asdus) ==
    IF p >= end THEN asdus
    ELSE LET r == DecodeLength(buf, p + 1, end, 0)
             seq == IF buf[p + 1] = 162 THEN AsdusFrom(buf, r.pos, r.pos + r.length, <<>>)
                    ELSE [buf |-> buf, asdus |-> <<>>]
         IN  IF r.pos = -1 THEN asdus
             ELSE PayloadFrom(seq.buf, r.pos + r.length, end, asdus \o seq.asdus)

parseSVPayload(buf, p, length) ==
    LET r == DecodeLength(buf, p + 1, p + length, 0)
    IN  IF buf[p + 1] # 96 \/ r.pos = -1 THEN <<>>
        ELSE PayloadFrom(buf, r.pos, r.pos + r.length, <<>>)

\* The check of the destination address looks at the first six octets, which
\* with this Ethernet layer are the VLAN tag, the Ethertype and the APPID.
SvMatches(sub, checkDestAddr, buf, appId) ==
    sub.appId = appId /\ (checkDestAddr => SubSeq(buf, 1, 6) = sub.ethAddr)

\* The ASDUs the listener of subscriber sub is called for.
parseSVMessage(sub, checkDestAddr, buf) ==
    IF \/ Len(buf) < 22 \/ <<buf[3], buf[4]>> # <<136, 186>>
       \/ ~SvMatches(sub, checkDestAddr, buf, buf[5] * 256 + buf[6])
    THEN <<>>
    ELSE parseSVPayload(buf, 12, buf[7] * 256 + buf[8] - 8)

-----------------------------------------------------------------------------
\* SVSubscriber_ASDU_*: what a listener reads from ASDU a.
Has(a, tag) == a.at[tag].pos # NoPos

ReadAt(a, pos, n) == SubSeq(a.buf, pos + 1, pos + n)

memcpy_reverse(a, pos, n) == Reverse(ReadAt(a, pos, n))

\* A C string: up to the first 0.
RECURSIVE StringAt(_, _)
StringAt(a, pos) ==
    IF a.buf[pos + 1] = 0 THEN <<>> ELSE <<a.buf[pos + 1]>> \o StringAt(a, pos + 1)

SVSubscriber_ASDU_getSvId(a) == StringAt(a, a.at[128].pos)

SVSubscriber_ASDU_hasDatSet(a) == Has(a, 129)

SVSubscriber_ASDU_getDatSet(a) == IF Has(a, 129) THEN StringAt(a, a.at[129].pos) ELSE <<>>

SVSubscriber_ASDU_getSmpCnt(a) ==
    a.buf[a.at[130].pos + 1] * 256 + a.buf[a.at[130].pos + 2]

SVSubscriber_ASDU_getConfRev(a) == memcpy_reverse(a, a.at[131].pos, 4)

SVSubscriber_ASDU_hasRefrTm(a) == Has(a, 132)

\* decodeUtcTimeToNsTime; a time in ms is divided from it, not from the fraction.
SVSubscriber_ASDU_getRefrTmAsNs(a) ==
    IF Has(a, 132) THEN Timestamp_getTimeInNs(ReadAt(a, a.at[132].pos, 8))
    ELSE [secs |-> 0, ns |-> 0]

SVSubscriber_ASDU_getRefrTmAsMs(a) ==
    LET t == SVSubscriber_ASDU_getRefrTmAsNs(a) IN t.secs * 1000 + t.ns \div 1000000

SVSubscriber_ASDU_getSmpSynch(a) == a.buf[a.at[133].pos + 1]

SVSubscriber_ASDU_hasSmpRate(a) == Has(a, 134)

SVSubscriber_ASDU_getSmpRate(a) ==
    a.buf[a.at[134].pos + 1] * 256 + a.buf[a.at[134].pos + 2]

SVSubscriber_ASDU_hasSmpMod(a) == Has(a, 136)

\* The first of the two octets.
SVSubscriber_ASDU_getSmpMod(a) == a.buf[a.at[136].pos + 1]

SVSubscriber_ASDU_getDataSize(a) == a.at[135].length

\* SVSubscriber_ASDU_getINT8 .. getQuality at an index of the data; signed and
\* unsigned numbers are read alike.  No publisher adds an INT16, but one can be read.
ReadSize == [INT16 |-> 2] @@ ElementSize

ElementInHostOrder(a, index, kind) == ReadAt(a, a.at[135].pos + index, ReadSize[kind])

SVSubscriber_ASDU_get(a, index, kind) ==
    LET pos == a.at[135].pos + index
    IN  CASE kind = "Quality" -> <<a.buf[pos + 4] + a.buf[pos + 3] * 256>>
          [] kind = "Timestamp" -> ReadAt(a, pos, 8)
          [] OTHER -> memcpy_reverse(a, pos, ReadSize[kind])
=============================================================================
