------------------------------- MODULE SvAsdu -------------------------------
(***************************************************************************)
(* The message of a sampled values publisher octet by octet: the publisher *)
(* lays it out once and then writes into it (model/libiec61850/src/        *)
(* sampled_values/sv_publisher.cc).                                        *)
(*                                                                         *)
(* Here a machine value is its memory on a little-endian machine: the code *)
(* reverses it when it writes to a message and when it reads from one.     *)
(* Positions in a buffer count from 0.                                     *)
(***************************************************************************)
EXTENDS TimeStamp

\* NULL for a pointer into a buffer, <<>> for a string.
NoPos == -1

\* The sizes of the elements SVPublisher_ASDU_add* reserves.
ElementSize == [INT8 |-> 1, INT32 |-> 4, INT64 |-> 8, FLOAT |-> 4, FLOAT64 |-> 8,
                Timestamp |-> 8, Quality |-> 4]

\* smpCntBuf, refrTm, smpSynchBuf and dataBuffer are positions in the payload.
SVPublisher_addASDU(self, svID, datset, confRev) ==
    [self EXCEPT !.asduList = Append(@,
        [svID |-> svID, datset |-> datset, dataSize |-> 0, confRev |-> confRev,
         hasRefrTm |-> FALSE, hasSmpRate |-> FALSE, hasSmpMod |-> FALSE,
         smpSynch |-> 0, smpCnt |-> 0, smpCntLimit |-> 65535, smpMod |-> 0, smpRate |-> 0,
         smpCntBuf |-> NoPos, refrTm |-> NoPos, smpSynchBuf |-> NoPos, dataBuffer |-> NoPos])]

\* An octet of the buffer that nothing is written to.
Hole == -1

Holes(n) == [i \in 1 .. n |-> Hole]

encodeUInt16FixedSize(n) == <<n \div 256, n % 256>>

encodeInt32FixedSize(v) == Reverse(v)

encodeInt64FixedSize(v) == Reverse(v)

-----------------------------------------------------------------------------
\* SVPublisher_setupComplete.
EncodedSizeNoSmpMod(a) ==
    BerEncoder_determineEncodedStringSize(a.svID)
    + (IF a.datset # <<>> THEN BerEncoder_determineEncodedStringSize(a.datset) ELSE 0)
    + 4 + 6 + (IF a.hasRefrTm THEN 10 ELSE 0) + 3 + (IF a.hasSmpRate THEN 4 ELSE 0)
    + 1 + BerEncoder_determineLengthSize(a.dataSize) + a.dataSize

SVPublisher_ASDU_getEncodedSize(a) ==
    BerEncoder_determineEncodedStringSize(a.svID)
    + (IF a.datset # <<>> THEN BerEncoder_determineEncodedStringSize(a.datset) ELSE 0)
    + 4 + 6 + (IF a.hasRefrTm THEN 10 ELSE 0) + 3 + (IF a.hasSmpRate THEN 4 ELSE 0)
    + 1 + BerEncoder_determineLengthSize(a.dataSize) + a.dataSize
    + (IF a.hasSmpMod THEN 4 ELSE 0)

\* The encoding up to the octets each of the four pointers names.
UpToSmpCnt(a) ==
    BerEncoder_encodeTL(48, SVPublisher_ASDU_getEncodedSize(a))
    \o BerEncoder_encodeStringWithTag(128, a.svID)
    \o (IF a.datset # <<>> THEN BerEncoder_encodeStringWithTag(129, a.datset) ELSE <<>>)
    \o BerEncoder_encodeTL(130, 2)

UpToRefrTm(a) ==
    UpToSmpCnt(a) \o encodeUInt16FixedSize(a.smpCnt)
    \o BerEncoder_encodeTL(131, 4) \o encodeInt32FixedSize(a.confRev)
    \o (IF a.hasRefrTm THEN BerEncoder_encodeTL(132, 8) ELSE <<>>)

UpToSmpSynch(a) ==
    UpToRefrTm(a) \o (IF a.hasRefrTm THEN Holes(8) ELSE <<>>) \o BerEncoder_encodeTL(133, 1)

UpToData(a) ==
    UpToSmpSynch(a) \o <<a.smpSynch>>
    \o (IF a.hasSmpRate THEN BerEncoder_encodeTL(134, 2) \o encodeUInt16FixedSize(a.smpRate)
        ELSE <<>>)
    \o BerEncoder_encodeTL(135, a.dataSize)

\* The data and the refresh time keep what the buffer holds there.
SVPublisher_ASDU_encodeToBuffer(a) ==
    UpToData(a) \o Holes(a.dataSize)
    \o (IF a.hasSmpMod THEN BerEncoder_encodeTL(136, 2) \o encodeUInt16FixedSize(a.smpMod)
        ELSE <<>>)

\* refrTm keeps its value when there is no refresh time.
WithPointers(a, at) ==
    [a EXCEPT !.smpCntBuf = at + Len(UpToSmpCnt(a)),
              !.refrTm = IF a.hasRefrTm THEN at + Len(UpToRefrTm(a)) ELSE @,
              !.smpSynchBuf = at + Len(UpToSmpSynch(a)),
              !.dataBuffer = at + Len(UpToData(a))]

\* With the tag and the length in front.
AsduLength(a) ==
    LET size == SVPublisher_ASDU_getEncodedSize(a)
    IN  size + BerEncoder_determineLengthSize(size) + 1

TotalAsduLength(asdus) ==
    LET upTo[k \in 0 .. Len(asdus)] ==
            IF k = 0 THEN 0 ELSE upTo[k - 1] + AsduLength(asdus[k])
    IN  upTo[Len(asdus)]

InnerSize(asdus) ==
    LET total == TotalAsduLength(asdus)
    IN  2 + BerEncoder_UInt32determineEncodedSize(Seconds(Len(asdus)))
        + 1 + BerEncoder_determineLengthSize(total) + total

PayloadHead(asdus) ==
    BerEncoder_encodeTL(96, InnerSize(asdus))
    \o BerEncoder_encodeUInt32WithTL(128, Seconds(Len(asdus)))
    \o BerEncoder_encodeTL(162, TotalAsduLength(asdus))

\* The payload up to and with ASDU k.
PayloadUpTo(asdus) ==
    LET upTo[k \in 0 .. Len(asdus)] ==
            IF k = 0 THEN PayloadHead(asdus)
            ELSE upTo[k - 1] \o SVPublisher_ASDU_encodeToBuffer(asdus[k])
    IN  upTo

Payload(asdus) == PayloadUpTo(asdus)[Len(asdus)]

Overlay(old, new) ==
    [i \in 1 .. Max({Len(old), Len(new)}) |->
        IF i =< Len(new) /\ new[i] # Hole THEN new[i] ELSE old[i]]

\* buffer is what follows the header of the frame; payloadLength octets are sent.
SVPublisher_setupComplete(self) ==
    LET laid == self.asduList
    IN  [self EXCEPT !.asduList = [j \in 1 .. Len(laid) |->
                                      WithPointers(laid[j], Len(PayloadUpTo(laid)[j - 1]))],
                     !.buffer = Overlay(@, Payload(laid)),
                     !.payloadLength = Len(Payload(laid))]

-----------------------------------------------------------------------------
\* SVPublisher_ASDU_*, for ASDU j.
Put(self, pos, octets) ==
    [self EXCEPT !.buffer = [i \in 1 .. Len(@) |->
        IF i \in pos + 1 .. pos + Len(octets) THEN octets[i - pos] ELSE @[i]]]

SVPublisher_ASDU_add(self, j, kind) ==
    [self EXCEPT !.asduList[j].dataSize = @ + ElementSize[kind]]

SVPublisher_ASDU_resetBuffer(self, j) == [self EXCEPT !.asduList[j].dataSize = 0]

\* The octets of an element: numbers and floats are reversed, a time stamp is
\* copied, a quality is the number it is, in the last two of four octets.
ElementOctets(kind, v) ==
    CASE kind = "Quality" -> <<0, 0, v[1] \div 256, v[1] % 256>>
      [] kind = "Timestamp" -> v
      [] OTHER -> Reverse(v)

SVPublisher_ASDU_set(self, j, index, kind, v) ==
    Put(self, self.asduList[j].dataBuffer + index, ElementOctets(kind, v))

SVPublisher_ASDU_setSmpCnt(self, j, n) ==
    LET set == [self EXCEPT !.asduList[j].smpCnt = n]
    IN  IF self.asduList[j].smpCntBuf = NoPos THEN set
        ELSE Put(set, self.asduList[j].smpCntBuf, encodeUInt16FixedSize(n))

SVPublisher_ASDU_setSmpCntWrap(self, j, n) == [self EXCEPT !.asduList[j].smpCntLimit = n]

SVPublisher_ASDU_increaseSmpCnt(self, j) ==
    SVPublisher_ASDU_setSmpCnt(self, j,
        (self.asduList[j].smpCnt + 1) % self.asduList[j].smpCntLimit)

SVPublisher_ASDU_enableRefrTm(self, j) == [self EXCEPT !.asduList[j].hasRefrTm = TRUE]

\* The refresh time as Set leaves it; without a place in the buffer it is lost.
SetRefrTm(self, j, Set(_)) ==
    LET pos == self.asduList[j].refrTm
        on == SVPublisher_ASDU_enableRefrTm(self, j)
    IN  IF pos = NoPos THEN on ELSE Put(on, pos, Set(SubSeq(self.buffer, pos + 1, pos + 8)))

SVPublisher_ASDU_setRefrTm(self, j, ms) ==
    SetRefrTm(self, j, LAMBDA ts : Timestamp_setSubsecondPrecision(
                                        Timestamp_setTimeInMilliseconds(ts, ms), 10))

SVPublisher_ASDU_setRefrTmNs(self, j, t) ==
    SetRefrTm(self, j, LAMBDA ts : Timestamp_setSubsecondPrecision(
                                        Timestamp_setTimeInNanoseconds(ts, t), 20))

SVPublisher_ASDU_setRefrTmByTimestamp(self, j, t) == SetRefrTm(self, j, LAMBDA ts : t)

SVPublisher_ASDU_setSmpMod(self, j, n) ==
    [self EXCEPT !.asduList[j].hasSmpMod = TRUE, !.asduList[j].smpMod = n]

SVPublisher_ASDU_setSmpRate(self, j, n) ==
    [self EXCEPT !.asduList[j].hasSmpRate = TRUE, !.asduList[j].smpRate = n]

SVPublisher_ASDU_setSmpSynch(self, j, n) ==
    Put([self EXCEPT !.asduList[j].smpSynch = n % 256],
        self.asduList[j].smpSynchBuf, <<n % 256>>)

\* preparePacketBuffer and SVPublisher_publish: what is left of the frame when
\* Ethernet_sendPacket has cut its addresses off, from the VLAN tag on.
SVPublisher_frame(self, appId) ==
    LET n == self.payloadLength + 8
    IN  <<128, 0, 136, 186>> \o encodeUInt16FixedSize(appId) \o <<n \div 256, n % 256>>
        \o Zeros(4) \o SubSeq(self.buffer, 1, self.payloadLength)
=============================================================================
