------------------------- MODULE GooseReceiverProofs -------------------------
(***************************************************************************)
(* What the functions of the GOOSE receiver return, for every data set and *)
(* every message: lemmas about the operators of GooseDataSet and           *)
(* GooseReceiver that the proofs about the link and the stream cite.       *)
(***************************************************************************)
EXTENDS GooseReceiver, ArithmeticLemmas, FiniteSetTheorems, SequenceTheorems

\* The walk along the subscriber list ends at a hit if there is one.
LEMMA FirstHit ==
    ASSUME NEW n \in Nat, NEW hits, hits \subseteq 1 .. n
    PROVE  /\ hits = {} => First(hits) = 0
           /\ hits # {} => First(hits) \in hits
<1>1. CASE hits = {}
  BY <1>1 DEF First
<1>2. CASE hits # {}
  <2>1. hits \subseteq Nat
    OBVIOUS
  <2>2. \E i \in hits : \A j \in hits : i =< j
    BY <1>2, <2>1, LeastNatural
  <2> QED
    BY <1>2, <2>2 DEF First
<1> QED
  BY <1>1, <1>2

\* parseAllData stops at the first element that fails, or at the end of the data.
LEMMA WrittenProperty ==
    ASSUME NEW slots \in Seq(Slot), NEW elems \in Seq(Element)
    PROVE  /\ Written(slots, elems) \in 0 .. Len(elems)
           /\ \A i \in 1 .. Written(slots, elems) : ~Fails(slots, elems, i)
           /\ Written(slots, elems) < Len(elems) => Fails(slots, elems, Written(slots, elems) + 1)
<1> DEFINE stops == {k \in 0 .. Len(elems) : k < Len(elems) => Fails(slots, elems, k + 1)}
<1>1. Len(elems) \in Nat
  OBVIOUS
<1>2. Len(elems) \in stops
  BY <1>1
<1>3. stops \subseteq Nat /\ stops # {}
  BY <1>1, <1>2
<1>4. PICK m \in stops : \A k \in stops : m =< k
  <2> HIDE DEF stops
  <2> QED
    BY <1>3, LeastNatural
<1>5. m \in 0 .. Len(elems) /\ (m < Len(elems) => Fails(slots, elems, m + 1))
  BY <1>4
<1>6. \A i \in 1 .. m : ~Fails(slots, elems, i)
  <2> SUFFICES ASSUME NEW i \in 1 .. m, Fails(slots, elems, i)
               PROVE  FALSE
    OBVIOUS
  <2>1. i - 1 \in 0 .. Len(elems) /\ (i - 1) + 1 = i
    BY <1>1, <1>5
  <2>2. i - 1 \in stops
    BY <2>1
  <2>3. m =< i - 1
    BY <2>2, <1>4
  <2> QED
    BY <2>3, <1>5
<1>7. \E k \in 0 .. Len(elems) : /\ \A i \in 1 .. k : ~Fails(slots, elems, i)
                                 /\ k < Len(elems) => Fails(slots, elems, k + 1)
  BY <1>5, <1>6
<1> QED
  BY <1>7 DEF Written

\* Writing keeps the types of the slots.
LEMMA ParseAllDataType ==
    ASSUME NEW slots \in Seq(Slot), NEW elems \in Seq(Element)
    PROVE  /\ parseAllData(slots, elems).slots \in Seq(Slot)
           /\ parseAllData(slots, elems).error \in GooseParseError
<1> DEFINE k == Written(slots, elems)
           parsed == parseAllData(slots, elems).slots
<1>1. k \in 0 .. Len(elems)
  BY WrittenProperty
<1>2. \A i \in 1 .. k : i =< Len(slots) /\ i =< Len(elems)
  <2>1. \A i \in 1 .. k : ~(i > Len(slots))
    BY WrittenProperty DEF Fails
  <2> QED
    BY <1>1, <2>1
<1>3. \A s \in Slot, el \in Element : Write(s, el) \in Slot
  BY DEF Write, Slot, Element
<1>4. \A s \in Slot : [s EXCEPT !.val = Torn] \in Slot
  BY DEF Slot, Torn
<1>5. DOMAIN parsed = 1 .. Len(slots)
  BY DEF parseAllData
<1>6. ASSUME NEW i \in 1 .. Len(slots)
      PROVE  parsed[i] \in Slot
  <2>1. slots[i] \in Slot
    OBVIOUS
  <2>2. i =< k => elems[i] \in Element
    BY <1>1
  <2>4. i =< k => parsed[i] = Write(slots[i], elems[i])
    BY DEF parseAllData
  <2>5. ~(i =< k) => parsed[i] \in {[slots[i] EXCEPT !.val = Torn], slots[i]}
    BY DEF parseAllData
  <2> QED
    BY <1>3, <1>4, <2>1, <2>2, <2>4, <2>5
<1>7. parsed = [i \in 1 .. Len(slots) |-> parsed[i]]
  BY DEF parseAllData
<1>8. parsed \in Seq(Slot)
  <2>1. Len(slots) \in Nat
    OBVIOUS
  <2> HIDE DEF parsed
  <2> QED
    BY <1>6, <1>7, <2>1
<1>9. parseAllData(slots, elems).error \in GooseParseError
  BY DEF parseAllData, ParseResult, GooseParseError
<1> QED
  BY <1>8, <1>9

\* Without an error every element was written, in the type of its slot.
LEMMA ParseAllDataWrites ==
    ASSUME NEW slots \in Seq(Slot), NEW elems \in Seq(Element),
           parseAllData(slots, elems).error = "NO_ERROR",
           \A k \in 1 .. Len(elems) : ~LeftOut(elems[k])
    PROVE  LET parsed == parseAllData(slots, elems).slots
           IN  /\ Len(parsed) = Len(elems)
               /\ \A k \in 1 .. Len(elems) : elems[k].tag # "reserved" =>
                       parsed[k].type = elems[k].tag /\ parsed[k].val = elems[k].val
<1> DEFINE w == Written(slots, elems)
           parsed == parseAllData(slots, elems).slots
<1>1. w \in 0 .. Len(elems) /\ \A i \in 1 .. w : ~Fails(slots, elems, i)
  BY WrittenProperty
<1>2. ParseResult(slots, elems) = "NO_ERROR"
  BY DEF parseAllData
<1>3. ~(w < Len(slots)) /\ ~(w < Len(elems))
  BY <1>2 DEF ParseResult
<1>4. w = Len(elems)
  BY <1>1, <1>3
<1>5. \A i \in 1 .. w : ~(i > Len(slots)) /\ ElementError(slots[i], elems[i]) = "NO_ERROR"
  BY <1>1 DEF Fails
<1>6. Len(slots) = Len(elems)
  <2>1. Len(slots) \in Nat /\ Len(elems) \in Nat
    OBVIOUS
  <2>2. CASE w = 0
    BY <1>3, <1>4, <2>1, <2>2
  <2>3. CASE w # 0
    <3>1. w \in 1 .. w
      BY <1>4, <2>1, <2>3
    <3> QED
      BY <1>3, <1>4, <1>5, <2>1, <3>1
  <2> QED
    BY <2>2, <2>3
<1>7. parsed \in Seq(Slot) /\ Len(parsed) = Len(elems)
  <2>1. parsed \in Seq(Slot)
    BY ParseAllDataType
  <2>2. DOMAIN parsed = 1 .. Len(slots)
    BY DEF parseAllData
  <2> HIDE DEF parsed
  <2> QED
    BY <1>6, <2>1, <2>2
<1>8. ASSUME NEW k \in 1 .. Len(elems), elems[k].tag # "reserved"
      PROVE  parsed[k].type = elems[k].tag /\ parsed[k].val = elems[k].val
  <2>1. parsed[k] = Write(slots[k], elems[k])
    BY <1>4, <1>6 DEF parseAllData
  <2>2. ~Skipped(elems[k])
    BY <1>8 DEF Skipped, LeftOut
  <2>3. parsed[k] = [slots[k] EXCEPT !.val = elems[k].val]
    BY <2>1, <2>2 DEF Write
  <2>4. slots[k] \in Slot
    BY <1>6
  <2>5. ElementError(slots[k], elems[k]) = "NO_ERROR"
    BY <1>4, <1>5
  <2>6. elems[k].tag = slots[k].type
    BY <1>8, <2>5 DEF ElementError
  <2> QED
    BY <2>3, <2>4, <2>6 DEF Slot
<1> QED
  BY <1>7, <1>8

\* A learned data set has a slot for every element, and no slot for an error.
LEMMA LearnedType ==
    ASSUME NEW elems \in Seq(Element), Learnable(elems)
    PROVE  /\ parseAllDataUnknownValue(elems) \in Seq(Slot)
           /\ Len(parseAllDataUnknownValue(elems)) = Len(elems)
<1> DEFINE learned == parseAllDataUnknownValue(elems)
<1>1. \A el \in Element : ~Refused(el) => NewSlot(el) \in Slot
  BY DEF NewSlot, Element, Slot, Refused, ValueTypes
<1>2. NoSlot \in Slot
  BY DEF NoSlot, Slot
<1>3. ASSUME NEW i \in 1 .. Len(elems)
      PROVE  learned[i] \in Slot
  <2>1. CASE \E k \in 1 .. Len(elems) : KeptAt(elems, i, k)
    <3> DEFINE c == CHOOSE k \in 1 .. Len(elems) : KeptAt(elems, i, k)
    <3>1. c \in 1 .. Len(elems)
      BY <2>1
    <3>2. learned[i] = NewSlot(elems[c])
      BY <2>1 DEF parseAllDataUnknownValue
    <3> HIDE DEF c, learned
    <3>3. elems[c] \in Element /\ ~Refused(elems[c])
      BY <3>1 DEF Learnable
    <3> QED
      BY <1>1, <3>2, <3>3
  <2>2. CASE ~\E k \in 1 .. Len(elems) : KeptAt(elems, i, k)
    BY <1>2, <2>2 DEF parseAllDataUnknownValue
  <2> QED
    BY <2>1, <2>2
<1>4. learned = [i \in 1 .. Len(elems) |-> learned[i]]
  BY DEF parseAllDataUnknownValue
<1>5. Len(elems) \in Nat
  OBVIOUS
<1> HIDE DEF learned
<1>6. learned \in Seq(Slot) /\ Len(learned) = Len(elems)
  BY <1>3, <1>4, <1>5
<1> QED
  BY <1>6 DEF learned

\* If no element was left out, every slot is made from its element.
LEMMA LearnedSlots ==
    ASSUME NEW elems \in Seq(Element),
           \A k \in 1 .. Len(elems) : ~LeftOut(elems[k])
    PROVE  \A k \in 1 .. Len(elems) : parseAllDataUnknownValue(elems)[k] = NewSlot(elems[k])
<1> SUFFICES ASSUME NEW i \in 1 .. Len(elems)
             PROVE  parseAllDataUnknownValue(elems)[i] = NewSlot(elems[i])
  OBVIOUS
<1>1. ASSUME NEW k \in 1 .. Len(elems)
      PROVE  KeptAt(elems, i, k) <=> k = i
  <2>1. {j \in 1 .. k : ~LeftOut(elems[j])} = 1 .. k
    OBVIOUS
  <2>2. k \in Int /\ 1 \in Int /\ k >= 1
    OBVIOUS
  <2>3. Cardinality(1 .. k) = k
    BY <2>2, FS_Interval
  <2> QED
    BY <2>1, <2>3 DEF KeptAt
<1>2. \E k \in 1 .. Len(elems) : KeptAt(elems, i, k)
  BY <1>1
<1>3. (CHOOSE k \in 1 .. Len(elems) : KeptAt(elems, i, k)) = i
  BY <1>1
<1> QED
  BY <1>2, <1>3 DEF parseAllDataUnknownValue

\* In particular it has the type and the value of its element.
LEMMA LearnedWrites ==
    ASSUME NEW elems \in Seq(Element),
           \A k \in 1 .. Len(elems) : ~LeftOut(elems[k])
    PROVE  \A k \in 1 .. Len(elems) :
                /\ parseAllDataUnknownValue(elems)[k].type = elems[k].tag
                /\ parseAllDataUnknownValue(elems)[k].val = elems[k].val
<1>1. \A k \in 1 .. Len(elems) : parseAllDataUnknownValue(elems)[k] = NewSlot(elems[k])
  BY LearnedSlots
<1>2. \A el : NewSlot(el).type = el.tag /\ NewSlot(el).val = el.val
  BY DEF NewSlot
<1> QED
  BY <1>1, <1>2

\* A message whose elements all fit the slots is written without an error.
LEMMA ParseAllDataFits ==
    ASSUME NEW slots \in Seq(Slot), NEW elems \in Seq(Element), Len(slots) = Len(elems),
           \A k \in 1 .. Len(elems) : ~Fails(slots, elems, k)
    PROVE  parseAllData(slots, elems) =
               [slots |-> [k \in 1 .. Len(elems) |-> Write(slots[k], elems[k])],
                error |-> "NO_ERROR"]
<1> DEFINE w == Written(slots, elems)
<1>1. /\ w \in 0 .. Len(elems)
      /\ w < Len(elems) => Fails(slots, elems, w + 1)
  BY WrittenProperty
<1>2. Len(elems) \in Nat
  OBVIOUS
<1>3. w = Len(elems)
  <2>1. w < Len(elems) => w + 1 \in 1 .. Len(elems)
    BY <1>1, <1>2
  <2> QED
    BY <1>1, <1>2, <2>1
<1>4. ParseResult(slots, elems) = "NO_ERROR"
  BY <1>2, <1>3 DEF ParseResult
<1> QED
  BY <1>2, <1>3, <1>4 DEF parseAllData
=============================================================================
