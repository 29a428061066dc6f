---------------------------- MODULE GooseDataSet ----------------------------
(***************************************************************************)
(* How the GOOSE receiver writes the data set of a message into the values *)
(* a subscriber holds: parseAllData and parseAllDataUnknownValue of        *)
(* model/libiec61850/src/goose/goose_receiver.cc.                          *)
(*                                                                         *)
(* The data of a message is a sequence of elements [tag, len, val]: the    *)
(* MMS type the tag names, the length of the encoding (for a bit string    *)
(* the number of bits, for an array or structure a number that identifies  *)
(* its shape) and an abstract value.  Two tags name no type: "reserved" is *)
(* tag 0x80, a data access error; "unknown" stands for a tag the receiver  *)
(* does not know or a length that cannot be decoded.                       *)
(*                                                                         *)
(* The values of a subscriber are a sequence of slots [type, max, val],    *)
(* where max is the capacity the encoding must respect, or NoSlot for a    *)
(* component that was never set (NULL).                                    *)
(***************************************************************************)
EXTENDS Naturals, Sequences, FiniteSets

Tags ==
    {"array", "structure", "boolean", "bitstring", "integer", "unsigned", "float",
     "octetstring", "visiblestring", "binarytime", "utctime", "reserved", "unknown"}

Element == [tag : Tags, len : Nat, val : Nat]

\* The types of MMS values; a data access error makes none.
ValueTypes == Tags \ {"reserved", "unknown"}

Slot == [type : ValueTypes \cup {"null"}, max : Nat, val : Nat]

NoSlot == [type |-> "null", max |-> 0, val |-> 0]

Nested == {"array", "structure"}

\* The error the switch of parseAllData sets for element el and slot s.
ElementError(s, el) ==
    IF el.tag = "unknown" THEN "UNKNOWN_TAG"
    ELSE IF el.tag = "reserved" THEN "NO_ERROR"
    ELSE IF el.tag = "utctime" /\ el.len # 8 THEN "LENGTH_MISMATCH"
    ELSE IF el.tag # s.type THEN "TYPE_MISMATCH"
    ELSE IF el.tag \in Nested /\ el.len # s.max THEN "SUBLEVEL"
    ELSE IF \/ el.tag = "bitstring" /\ el.len # s.max
            \/ el.tag \in {"integer", "unsigned"} /\ el.len > s.max
            \/ el.tag = "float" /\ el.len \notin {5, 9} THEN "LENGTH_MISMATCH"
    ELSE "NO_ERROR"

\* The marker of an array or structure of which parseAllData may have written
\* the first components before it failed; no message carries it.
Torn == 0

\* Accepted, but nothing is written: a data access error, a binary time of an
\* odd length.
Skipped(el) ==
    el.tag = "reserved" \/ (el.tag = "binarytime" /\ el.len \notin {4, 6})

Write(s, el) == IF Skipped(el) THEN s ELSE [s EXCEPT !.val = el.val]

\* Element i of the data cannot be written.
Fails(slots, data, i) ==
    \/ i > Len(slots)
    \/ slots[i] = NoSlot
    \/ ElementError(slots[i], data[i]) # "NO_ERROR"

\* The number of elements written before one fails.
Written(slots, data) ==
    CHOOSE k \in 0 .. Len(data) :
        /\ \A i \in 1 .. k : ~Fails(slots, data, i)
        /\ k < Len(data) => Fails(slots, data, k + 1)

\* Without the check after the loop an error of the switch is lost.
ParseResultNoUnderflow(slots, data) ==
    IF Len(slots) < Len(data) /\ Written(slots, data) = Len(slots) THEN "OVERFLOW" ELSE "NO_ERROR"

\* Every error but the overflow leaves elementIndex =< maxIndex, so that the
\* check after the loop turns it into an underflow; only a NULL component
\* returns at once.
ParseResult(slots, data) ==
    LET k == Written(slots, data)
    IN  IF k < Len(slots)
        THEN IF k < Len(data) /\ slots[k + 1] = NoSlot THEN "TYPE_MISMATCH" ELSE "UNDERFLOW"
        ELSE IF k < Len(data) THEN "OVERFLOW" ELSE "NO_ERROR"

\* parseAllData: elements are written until one fails, an array or structure
\* that fails may be written in part.
parseAllData(slots, data) ==
    LET k == Written(slots, data)
        torn(i) == /\ i = k + 1 /\ k < Len(data)
                   /\ slots[i] # NoSlot /\ ElementError(slots[i], data[i]) = "SUBLEVEL"
    IN  [slots |-> [i \in 1 .. Len(slots) |->
                        IF i =< k THEN Write(slots[i], data[i])
                        ELSE IF torn(i) THEN [slots[i] EXCEPT !.val = Torn]
                        ELSE slots[i]],
         error |-> ParseResult(slots, data)]

-----------------------------------------------------------------------------
\* The elements that make parseAllDataUnknownValue give up, and those it
\* leaves out without an error because their length is odd.
RefusedUnknownOnly(el) == el.tag = "unknown"

Refused(el) ==
    \/ el.tag \in {"unknown", "reserved"}
    \/ el.tag = "bitstring" /\ el.len = 0
    \/ el.tag \in {"integer", "unsigned"} /\ el.len > 8

LeftOut(el) ==
    \/ el.tag = "float" /\ el.len \notin {5, 9}
    \/ el.tag = "binarytime" /\ el.len \notin {4, 6}
    \/ el.tag = "utctime" /\ el.len # 8

\* The value a first element makes.  MmsValue_newInteger(8 * len) gives room
\* for 5 octets up to 32 bits and for 9 octets above.
NewSlot(el) ==
    [type |-> el.tag,
     max |-> IF el.tag \in {"integer", "unsigned"}
             THEN IF 8 * el.len =< 32 THEN 5 ELSE 9
             ELSE el.len,
     val |-> el.val]

\* parseAllDataUnknownValue returns NULL unless the data is learnable.
\* Otherwise the array has a component for every element, of which the last
\* ones stay NULL if some elements were left out.
Learnable(data) == \A i \in 1 .. Len(data) : ~Refused(data[i])

\* A nested array or structure is learned before the data turns out not to be.
LearnsNested(data) ==
    /\ \A i \in 1 .. Len(data) : data[i].tag # "unknown"
    /\ \E i \in 1 .. Len(data) :
            data[i].tag \in Nested /\ \A j \in 1 .. i : ~Refused(data[j])

\* k is the i-th element that is not left out.
KeptAt(data, i, k) ==
    ~LeftOut(data[k]) /\ Cardinality({j \in 1 .. k : ~LeftOut(data[j])}) = i

parseAllDataUnknownValue(data) ==
    [i \in 1 .. Len(data) |->
        IF \E k \in 1 .. Len(data) : KeptAt(data, i, k)
        THEN NewSlot(data[CHOOSE k \in 1 .. Len(data) : KeptAt(data, i, k)])
        ELSE NoSlot]
=============================================================================
