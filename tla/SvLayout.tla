------------------------------ MODULE SvLayout ------------------------------
(***************************************************************************)
(* An application lays out the ASDUs of a sampled values publisher and     *)
(* sets their fields in any order.  An action is a call of SVPublisher_*   *)
(* or of the old names SampledValuesPublisher_* and SV_ASDU_*, which pass  *)
(* their arguments on.  SvStream has the application of this repository,   *)
(* with one layout and abstract samples.                                   *)
(*                                                                         *)
(* The application keeps to the documented order: after it has changed the *)
(* layout it calls SVPublisher_setupComplete before it sets an element or  *)
(* publishes.                                                              *)
(***************************************************************************)
EXTENDS SvAsdu

CONSTANTS
    Names,          \* svID and datset of an ASDU, [svID, datset]
    ElementValues,  \* the values set, for every kind of element
    Counts,         \* values of smpCnt, smpRate and smpSynch
    Wraps,          \* values of smpCntLimit
    RefrTimes,      \* refresh times, [by |-> "ms", "ns" or "timestamp", time]
    Garbage,        \* the octets malloc may leave in the buffer
    BufferSize,     \* bound: SV_MAX_MESSAGE_SIZE less the header in the code
    MaxAsdus,       \* bound on the number of ASDUs
    MaxCalls        \* bound on the calls the application makes

\* The memory of the values an element is set to has the size of the element;
\* of a quality the number is given.
Memory(kind, v) ==
    v \in Seq(Nat) /\ Len(v) = IF kind = "Quality" THEN 1 ELSE ElementSize[kind]

RefrTime(t) ==
    \/ t.by = "ms" /\ t.time \in Nat
    \/ t.by = "ns" /\ t.time \in [secs : Nat, ns : Nat] /\ t.time.ns < 1000000000
    \/ t.by = "timestamp" /\ t.time \in Seq(Octet) /\ Len(t.time) = 8

ASSUME SvLayoutAssumption ==
    /\ Names \subseteq [svID : Seq(Octet), datset : Seq(Octet)]
    /\ DOMAIN ElementValues \subseteq DOMAIN ElementSize
    /\ \A kind \in DOMAIN ElementValues : \A v \in ElementValues[kind] : Memory(kind, v)
    /\ \A n \in Counts : n \in Nat /\ n < 65536
    /\ \A n \in Wraps : n \in Nat \ {0} /\ n < 65536
    /\ Garbage \subseteq Octet
    /\ \A t \in RefrTimes : RefrTime(t)
    /\ BufferSize \in Nat /\ BufferSize < 65535 /\ MaxAsdus \in Nat /\ MaxCalls \in Nat

VARIABLES
    svPub,      \* the publisher
    svApp,      \* what the application knows of every ASDU, and whether the
                \* layout is complete
    svCalls     \* the number of calls made

layoutVars == <<svPub, svApp, svCalls>>

\* confRev is 1 in every ASDU, in the memory of a little-endian machine.
ConfRev == <<1, 0, 0, 0>>

Unknown == <<>>

\* SVPublisher_create.
LayoutInit ==
    /\ svPub \in {[asduList |-> <<>>, buffer |-> [i \in 1 .. BufferSize |-> g],
                   payloadLength |-> 0] : g \in Garbage}
    /\ svApp = [asdus |-> <<>>, laid |-> <<>>, ready |-> FALSE]
    /\ svCalls = 0

Asdus == 1 .. Len(svPub.asduList)

\* A call of the application.
Called == svCalls < MaxCalls /\ svCalls' = svCalls + 1

AddAsdu == \E n \in Names :
    /\ Called
    /\ Len(svPub.asduList) < MaxAsdus
    /\ svPub' = SVPublisher_addASDU(svPub, n.svID, n.datset, ConfRev)
    /\ svApp' = [svApp EXCEPT !.ready = FALSE,
                              !.asdus = Append(@, [elements |-> <<>>, refrTm |-> Unknown])]

\* SVPublisher_ASDU_addINT8 and the others return the index of the element.
AddElement == \E j \in Asdus, kind \in DOMAIN ElementValues :
    /\ Called
    /\ svPub' = SVPublisher_ASDU_add(svPub, j, kind)
    /\ svApp' = [svApp EXCEPT !.ready = FALSE,
                    !.asdus[j].elements = Append(@, [kind |-> kind, value |-> Unknown,
                                                     index |-> svPub.asduList[j].dataSize])]

ResetElements == \E j \in Asdus :
    /\ Called
    /\ svPub' = SVPublisher_ASDU_resetBuffer(svPub, j)
    /\ svApp' = [svApp EXCEPT !.ready = FALSE, !.asdus[j].elements = <<>>]

\* What was set before has lost its place.
SetupComplete ==
    /\ Called
    /\ svPub.asduList # <<>>
    /\ 1 + BerEncoder_determineLengthSize(InnerSize(svPub.asduList)) + InnerSize(svPub.asduList)
        =< BufferSize
    /\ svPub' = SVPublisher_setupComplete(svPub)
    /\ svApp' = [asdus |-> [j \in Asdus |->
                    [refrTm |-> Unknown,
                     elements |-> [k \in DOMAIN svApp.asdus[j].elements |->
                        [svApp.asdus[j].elements[k] EXCEPT !.value = Unknown]]]],
                 laid |-> svPub.asduList, ready |-> TRUE]

SetElement == \E j \in Asdus : \E k \in DOMAIN svApp.asdus[j].elements :
    LET e == svApp.asdus[j].elements[k]
    IN  \E v \in ElementValues[e.kind] :
            /\ Called
            /\ svApp.ready
            /\ svPub' = SVPublisher_ASDU_set(svPub, j, e.index, e.kind, v)
            /\ svApp' = [svApp EXCEPT !.asdus[j].elements[k].value = v]

\* Each of these sets a field of the ASDU, and what of it is in the buffer.
SetCounter == \E j \in Asdus :
    /\ Called
    /\ \/ \E n \in Counts : svPub' = SVPublisher_ASDU_setSmpCnt(svPub, j, n)
       \/ \E n \in Wraps : svPub' = SVPublisher_ASDU_setSmpCntWrap(svPub, j, n)
       \/ svPub' = SVPublisher_ASDU_increaseSmpCnt(svPub, j)
    /\ UNCHANGED svApp

SetOption == \E j \in Asdus, n \in Counts :
    /\ Called
    /\ \/ svPub' = SVPublisher_ASDU_setSmpRate(svPub, j, n)
       \/ svPub' = SVPublisher_ASDU_setSmpMod(svPub, j, n % 3)
       \/ svPub.asduList[j].smpSynchBuf # NoPos
            /\ svPub' = SVPublisher_ASDU_setSmpSynch(svPub, j, n)
    /\ UNCHANGED svApp

EnableRefrTm == \E j \in Asdus :
    /\ Called
    /\ svPub' = SVPublisher_ASDU_enableRefrTm(svPub, j)
    /\ UNCHANGED svApp

SetRefrTime == \E j \in Asdus, t \in RefrTimes :
    /\ Called
    /\ svPub' = CASE t.by = "ms" -> SVPublisher_ASDU_setRefrTm(svPub, j, t.time)
                  [] t.by = "ns" -> SVPublisher_ASDU_setRefrTmNs(svPub, j, t.time)
                  [] t.by = "timestamp" ->
                        SVPublisher_ASDU_setRefrTmByTimestamp(svPub, j, t.time)
    /\ svApp' = [svApp EXCEPT !.asdus[j].refrTm = t]

LayoutNext ==
    \/ AddAsdu \/ AddElement \/ ResetElements \/ SetupComplete
    \/ SetElement \/ SetCounter \/ SetOption \/ EnableRefrTm \/ SetRefrTime

LayoutSpec == LayoutInit /\ [][LayoutNext]_layoutVars

-----------------------------------------------------------------------------
\* The octets, counted from 0, that the pointers of ASDU a may be used to write.
Writable(a, laid) ==
    [smpCnt |-> a.smpCntBuf .. a.smpCntBuf + 1, smpSynch |-> {a.smpSynchBuf},
     data |-> a.dataBuffer .. a.dataBuffer + laid.dataSize - 1,
     refrTm |-> IF laid.hasRefrTm THEN a.refrTm .. a.refrTm + 7 ELSE {}]

\* The sizes SVPublisher_setupComplete computes before it encodes are the sizes
\* of what it encodes, also where a length needs two octets.
SizesComputed ==
    /\ svPub.payloadLength = 1 + BerEncoder_determineLengthSize(InnerSize(svApp.laid))
                               + InnerSize(svApp.laid)
    /\ \A j \in Asdus :
            Len(SVPublisher_ASDU_encodeToBuffer(svApp.laid[j])) = AsduLength(svApp.laid[j])

\* The places it keeps for later writes lie in the payload, apart from each other.
AreasApart ==
    LET areas == [j \in Asdus |-> Writable(svPub.asduList[j], svApp.laid[j])]
        all == Asdus \X {"smpCnt", "smpSynch", "data", "refrTm"}
    IN  /\ \A x, y \in all : x = y \/ areas[x[1]][x[2]] \cap areas[y[1]][y[2]] = {}
        /\ \A x \in all : areas[x[1]][x[2]] \subseteq 0 .. svPub.payloadLength - 1

\* The ASDUs of the last layout, with the counters they have now.
CurrentAsdus ==
    [j \in Asdus |-> [svApp.laid[j] EXCEPT !.smpCnt = svPub.asduList[j].smpCnt,
                                          !.smpSynch = svPub.asduList[j].smpSynch]]

\* The buffer holds the encoding of these ASDUs, and in its holes the elements
\* the application has set.
PayloadCurrent ==
    LET octets == Payload(CurrentAsdus)
    IN  /\ Len(octets) = svPub.payloadLength
        /\ \A i \in 1 .. Len(octets) : octets[i] # Hole => svPub.buffer[i] = octets[i]
        /\ \A j \in Asdus : \A k \in DOMAIN svApp.asdus[j].elements :
                LET e == svApp.asdus[j].elements[k]
                    v == ElementOctets(e.kind, e.value)
                IN  e.value # Unknown =>
                        \A i \in 1 .. Len(v) :
                            svPub.buffer[svPub.asduList[j].dataBuffer + e.index + i] = v[i]

\* From SVPublisher_setupComplete on the payload is the encoding of what the
\* application has set, whatever it calls: a write through a pointer never
\* damages another field or element, another ASDU, a tag or a length.
LayoutExact == svApp.ready => SizesComputed /\ AreasApart /\ PayloadCurrent
=============================================================================
