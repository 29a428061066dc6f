------------------------------ MODULE MmsCodec ------------------------------
(***************************************************************************)
(* A publisher encodes data sets into PDUs, a subscriber decodes them, all *)
(* octet by octet (GoosePdu).  The subscriber learns its data set from the *)
(* first message after a change of confRev and overwrites it with the next *)
(* ones, whose values, lengths and types may differ.                       *)
(*                                                                         *)
(* GooseReceiver decides on messages by the abstract elements and slots of *)
(* GooseDataSet; this module shows that the octets lead to the same        *)
(* decisions.                                                              *)
(***************************************************************************)
EXTENDS GoosePdu, FiniteSets

CONSTANTS
    Messages,       \* what is published: the data set, a sequence of values, and the
                    \* other fields, with the time of the change of state in ms
    GoCBRef,        \* the control block the subscriber waits for
    MaxConfRev      \* bound on confRev

ASSUME CodecAssumption ==
    /\ IsFiniteSet(Messages) /\ Cardinality(Messages) > 0
    /\ MaxConfRev \in Nat /\ MaxPayloadSize \in Nat

VARIABLES
    confRev,
    entries,        \* the data set published last
    header,         \* and the other fields of the publisher
    wire,           \* the packet on its way, <<>> if there is none
    sub             \* the subscriber

vars == <<confRev, entries, header, wire, sub>>

Header(h, c) ==
    [goCBRef |-> h.goCBRef, dataSetRef |-> h.dataSetRef, goID |-> h.goID,
     timeAllowedToLive |-> h.timeAllowedToLive, stNum |-> h.stNum, sqNum |-> h.sqNum,
     simulation |-> h.simulation, ndsCom |-> h.ndsCom, confRev |-> UInt32(c),
     t |-> MmsValue_setUtcTimeMs(h.ms), ms |-> h.ms, comm |-> h.comm]

NoHeader == [ms |-> 0]

Init ==
    /\ confRev = 1
    /\ entries = <<>>
    /\ header = NoHeader
    /\ wire = <<>>
    /\ sub = NewSubscriber(GoCBRef)

\* The application sets its values and publishes them: GoosePublisher_publish
\* sends nothing if the message is too long.
Publish == \E m \in Messages :
    /\ wire = <<>>
    /\ entries' = m.entries
    /\ header' = Header(m.header, confRev)
    /\ \E payload \in {createGoosePayload(header', entries')} :
          wire' = GooseSendPacket(GoosePublisher_publish(prepareGooseBuffer(m.header.comm), payload))
    /\ UNCHANGED <<confRev, sub>>

Receive ==
    /\ wire # <<>>
    /\ \E payload \in {parseGooseMessage(wire)} :
          sub' = IF payload = <<>> THEN sub ELSE parseGoosePayload(sub, payload)
    /\ wire' = <<>>
    /\ UNCHANGED <<confRev, entries, header>>

GoosePublisher_setConfRev ==
    /\ confRev < MaxConfRev
    /\ confRev' = confRev + 1
    /\ UNCHANGED <<entries, header, wire, sub>>

Next == Publish \/ Receive \/ GoosePublisher_setConfRev

Spec == Init /\ [][Next]_vars

-----------------------------------------------------------------------------
\* All values in v, v included.
RECURSIVE AllValues(_)
AllValues(v) ==
    {v} \cup UNION {AllValues(v.components[i]) : i \in 1 .. Len(v.components)}

AllEntries == UNION {AllValues(entries[i]) : i \in 1 .. Len(entries)}

\* Bit strings of which the code computes the wrong size: the length of the
\* length is determined without the octet for the padding.
Missized(v) == v.type = "bitstring" /\ ByteSize(v.max) \in {127, 255}

\* The sizes computed before anything is encoded are the sizes of what is then
\* encoded: the message is one element that fills the payload, and its length
\* was computed exactly, unless it has a bit string of 127 or 255 octets.
SizesExact ==
    wire # <<>> /\ header.comm.useVlanTags =>
        \A payload \in {parseGooseMessage(wire)} :
            LET pdu == Elements(payload)
            IN  (Len(payload) = payloadSize(header, entries) /\ Len(pdu) = 1 /\ pdu[1].ok)
                    <=> \A v \in AllEntries : ~Missized(v)

\* The step that receives a well-formed message, in a frame with a VLAN tag.
Received ==
    /\ wire # <<>> /\ wire' = <<>>
    /\ header.comm.useVlanTags /\ header.goCBRef = GoCBRef /\ \A v \in AllEntries : ~Missized(v)

\* What a subscriber tells of a message is what the publisher put into it, with
\* the largest numbers and the fraction of the second; the goID is the control
\* block reference by default, and a string longer than 129 is ignored.  Nothing
\* of a frame without a VLAN tag reaches the subscriber.
HeaderInverts ==
    [][LET told == GooseSubscriber_get(sub')
       IN  /\ Received =>
                /\ \A f \in {"timeAllowedToLive", "stNum", "sqNum", "confRev"} : told[f] = header[f]
                /\ told.isTest = header.simulation /\ told.needsCommission = header.ndsCom
                /\ told.timestamp = header.ms
                /\ told.goCbRef = header.goCBRef /\ told.dataSet = header.dataSetRef
                /\ told.goId = IF Len(GoIdOf(header)) > 129 THEN sub.goId ELSE GoIdOf(header)
           /\ wire # <<>> /\ ~header.comm.useVlanTags => sub' = sub]_vars

\* The encodings of the values the subscriber holds.
Held(s) == Encodings(s.values.components)

\* The receiver knows no such element.
Unlearnable(v) ==
    v.type \in {"accesserror", "string"} \/ (v.type = "bitstring" /\ v.max = 0)

\* Learning a data set and encoding what was learned gives the octets of the
\* message: no element is dropped, moved or changed.  What the receiver does not
\* learn it does not learn in part.
LearnInverts ==
    [][Received /\ (sub.values = NullValue \/ sub.confRev # header.confRev) =>
        IF \E v \in AllEntries : Unlearnable(v)
        THEN sub'.values = NullValue
        ELSE sub'.values # NullValue /\ Held(sub') = Encodings(entries)]_vars

\* Binary times and floats keep the size they were learned with.
SameSize(v, w) == v.type \in {"binarytime", "float"} => v.max = w.max

\* A message that is parsed into a data set without an error leaves exactly its
\* values there, whatever the subscriber held: also shorter and longer strings
\* and integers, and nested values.  Only the elements of data access errors keep
\* their values, and a binary time and a float keep their size.
UpdateInverts ==
    [][/\ Received
       /\ sub.values # NullValue /\ sub.confRev = header.confRev
       /\ sub'.parseError = "NO_ERROR"
       /\ \A v \in AllEntries : v.type # "accesserror"
       /\ \A i \in 1 .. Len(entries) : SameSize(entries[i], sub.values.components[i])
       => Held(sub') = Encodings(entries)]_vars

-----------------------------------------------------------------------------
\* GooseDataSet at the level of values: the number that stands for the shape of
\* an array or structure is 1 for an element that does not fit and 0 otherwise.
DS == INSTANCE GooseDataSet

SlotOf(v) ==
    IF v = NullValue THEN DS!NoSlot
    ELSE [type |-> v.type,
          max |-> IF v.type \in {"bitstring", "integer", "unsigned"} THEN v.max ELSE 0,
          val |-> v]

\* The tag of an element as GooseDataSet names it.
TagOf(el) ==
    LET type == TypeOf(el.tag)
    IN  IF ~el.ok THEN "unknown" ELSE IF type = "accesserror" THEN "reserved" ELSE type

\* An element, where v is the value it is written into.
ElementOf(el, v) ==
    LET type == TypeOf(el.tag)
        written == UpdateElement(v, el)
    IN  [tag |-> TagOf(el),
         len |-> IF type = "bitstring" THEN Max({BitLength(el.contents), 0})
                 ELSE IF type \in Complex
                 THEN IF written.error = "NO_ERROR" THEN 0 ELSE 1
                 ELSE Len(el.contents),
         val |-> written.value]

\* The octets decide as GooseDataSet does: the same error, and the same slots up
\* to the element that fails.
UpdateRefines ==
    [][Received /\ sub.values # NullValue /\ sub.confRev = header.confRev =>
        LET els == Elements(Encodings(entries))
            comps == sub.values.components
            slots == [i \in 1 .. Len(comps) |-> SlotOf(comps[i])]
            items == [i \in 1 .. Len(els) |->
                        ElementOf(els[i], IF i =< Len(comps) THEN comps[i] ELSE NullValue)]
            k == DS!Written(slots, items)
        IN  /\ sub'.parseError = DS!ParseResult(slots, items)
            /\ \A i \in 1 .. Len(comps) :
                    IF i =< k THEN sub'.values.components[i] = DS!Write(slots[i], items[i]).val
                    ELSE i # k + 1 => sub'.values.components[i] = comps[i]]_vars
=============================================================================
