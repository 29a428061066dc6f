------------------------------ MODULE Asn1Ber ------------------------------
(***************************************************************************)
(* The part of the run-time library of asn1c that reads: the restartable   *)
(* BER decoder, which interprets the tables of Asn1Types                   *)
(* (src/mms/iso_mms/asn1c).                                                *)
(*                                                                         *)
(* The decoder is handed octets in pieces of any size.  It consumes what   *)
(* it can, leaves its place in the structure under construction and        *)
(* answers RC_WMORE; the caller hands it what was not consumed once more,  *)
(* followed by new octets.  A pointer is a sequence of at most one         *)
(* element, <<>> being the null pointer.                                   *)
(*                                                                         *)
(* Left out: extension markers and the ANY type, which no table has, and   *)
(* failing allocations.                                                    *)
(***************************************************************************)
EXTENDS Asn1Types, SequencesExt

Drop(s, n) == SubSeq(s, n + 1, Len(s))
Take(s, n) == SubSeq(s, 1, n)
Smaller(a, b) == IF a < b THEN a ELSE b

-----------------------------------------------------------------------------
(***************************************************************************)
(* Tags and lengths.  A fetch answers how many octets it took: 0 asks for  *)
(* more and -1 is an error.                                                *)
(***************************************************************************)
IsConstructed(octet) == (octet \div 32) % 2 = 1

RECURSIVE Base128(_)
Base128(octets) ==
    IF octets = <<>> THEN 0
    ELSE Base128(Front(octets)) * 128 + (Last(octets) % 128)

RECURSIVE Base256(_)
Base256(octets) ==
    IF octets = <<>> THEN 0 ELSE Base256(Front(octets)) * 256 + Last(octets)

(* A tag number in octets of seven bits, which all but the last announce:  *)
(* number holds the indices of those that have arrived.                    *)
LongTag(buf, number) ==
    LET end == 1 + Cardinality(number)
    IN  IF \E k \in number :
              buf[k] >= 128 /\ Base128(SubSeq(buf, 2, k)) >= 2 ^ 23
        THEN [took |-> -1, tag |-> 0]
        ELSE IF \A k \in number : buf[k] >= 128 THEN [took |-> 0, tag |-> 0]
        ELSE [took |-> end,
              tag |-> 4 * Base128(SubSeq(buf, 2, end)) + buf[1] \div 64]

ber_fetch_tag(buf) ==
    IF buf = <<>> THEN [took |-> 0, tag |-> 0]
    ELSE IF buf[1] % 32 # 31
         THEN [took |-> 1, tag |-> 4 * (buf[1] % 32) + buf[1] \div 64]
    ELSE LongTag(buf, {k \in 2 .. Len(buf) :
                         \A j \in 2 .. k - 1 : buf[j] >= 128})

(* The octets of a length from the first that is not zero. *)
Significant(octets) ==
    LET nz == {k \in DOMAIN octets : octets[k] # 0}
    IN  IF nz = {} THEN <<>>
        ELSE Drop(octets, (CHOOSE k \in nz : \A j \in nz : k <= j) - 1)

(* A length must stay 1024 below the largest ssize_t, of eight octets. *)
TooLong(octets, whole) ==
    LET s == Significant(octets)
    IN  \/ Len(s) > 8
        \/ /\ Len(s) = 8
           /\ \/ ~whole
              \/ s[1] >= 128
              \/ s[1] = 127 /\ (\A k \in 2 .. 6 : s[k] = 255) /\ s[7] >= 252

Indefinite == -1

ber_fetch_length(constructed, buf) ==
    IF buf = <<>> THEN [took |-> 0, len |-> 0]
    ELSE IF buf[1] < 128 THEN [took |-> 1, len |-> buf[1]]
    ELSE IF constructed /\ buf[1] = 128 THEN [took |-> 1, len |-> Indefinite]
    ELSE IF buf[1] = 255 THEN [took |-> -1, len |-> 0]
    ELSE LET n == buf[1] - 128
             octets == SubSeq(buf, 2, Smaller(n + 1, Len(buf)))
             whole == Len(octets) = n
         IN  IF TooLong(octets, whole) THEN [took |-> -1, len |-> 0]
             ELSE IF whole THEN [took |-> n + 1, len |-> Base256(octets)]
             ELSE [took |-> 0, len |-> 0]

(* The digits of n in a base, and how many there are. *)
RECURSIVE DigitsOf(_, _)
DigitsOf(n, base) == IF n < base THEN <<n>>
                   ELSE Append(DigitsOf(n \div base, base), n % base)

ber_tlv_tag_serialize(tag) ==
    LET class == 64 * (tag % 4)
        value == tag \div 4
        digits == DigitsOf(value, 128)
    IN  IF value <= 30 THEN <<class + value>>
        ELSE <<class + 31>> \o
             [k \in DOMAIN digits |->
                digits[k] + (IF k < Len(digits) THEN 128 ELSE 0)]

(* A length of 128 and more as always one octet: a mutant. *)
LengthSerializeShort(len) == <<len % 256>>

der_tlv_length_serialize(len) ==
    IF len <= 127 THEN <<len>>
    ELSE LET digits == DigitsOf(len, 256) IN <<128 + Len(digits)>> \o digits

der_write_TL(tag, len, constructed) ==
    LET t == ber_tlv_tag_serialize(tag)
    IN  <<t[1] + (IF constructed THEN 32 ELSE 0)>> \o Tail(t)
        \o der_tlv_length_serialize(len)

-----------------------------------------------------------------------------
(***************************************************************************)
(* Structures.  phase, step, left, context and ptr are the decoder's place *)
(* in it (asn_struct_ctx_t): ptr is the element of a list, or the stack of *)
(* frames of a string sent in segments, that is being read.  sub holds the *)
(* members; of a CHOICE, whose members share their place, only the present *)
(* one.  blocks counts what was allocated for the structure.               *)
(***************************************************************************)
Null == <<>>

Structure(sub, blocks) ==
    [phase |-> 0, step |-> 0, left |-> 0, context |-> 0, ptr |-> Null,
     present |-> 0, sub |-> sub, buf |-> Null, bits_unused |-> 0,
     blocks |-> blocks]

(* What calloc leaves: members inside the structure exist, zeroed. *)
RECURSIVE Zeroed(_, _)
Zeroed(td, blocks) ==
    Structure([i \in 1 .. (IF td.kind = "SEQUENCE" THEN Len(td.elements)
                           ELSE 0) |->
                 IF td.elements[i].pointer THEN Null
                 ELSE <<Zeroed(TypeOf(td.elements[i]), 0)>>],
              blocks)

(* The structure a decoder works on: *struct_ptr, allocated if null. *)
Target(td, pointer) ==
    IF pointer = Null THEN Zeroed(td, 1) ELSE pointer[1]

(***************************************************************************)
(* A decoder at work: the structure, the octets ahead and how many it has  *)
(* consumed in this call.                                                  *)
(***************************************************************************)
Cursor(st, buf) == [st |-> st, ptr |-> buf, consumed |-> 0]

(* ADVANCE that counts down an indefinite length too: a mutant. *)
AdvanceAnyway(c, n) ==
    [st |-> [c.st EXCEPT !.left = @ - n],
     ptr |-> Drop(c.ptr, n), consumed |-> c.consumed + n]

ADVANCE(c, n) ==
    [st |-> [c.st EXCEPT !.left = IF @ >= 0 THEN @ - n ELSE @],
     ptr |-> Drop(c.ptr, n), consumed |-> c.consumed + n]

LEFT(c) == IF c.st.left < 0 THEN Len(c.ptr) ELSE Smaller(c.st.left, Len(c.ptr))
Ahead(c) == Take(c.ptr, LEFT(c))

SIZE_VIOLATION(c) == c.st.left >= 0 /\ c.st.left <= Len(c.ptr)

RETURN(code, c) == [code |-> code, consumed |-> c.consumed, st |-> c.st]
WantMore(c) == RETURN(IF SIZE_VIOLATION(c) THEN "RC_FAIL" ELSE "RC_WMORE", c)
At(c, phase) == [c EXCEPT !.st.phase = phase, !.st.step = 0]

(* The end-of-contents octets of an indefinite length lie ahead. *)
Terminated(c) == Len(c.ptr) >= 2 /\ c.ptr[1] = 0 /\ c.ptr[2] = 0

(***************************************************************************)
(* The one tag of a type, or the explicit tag around a CHOICE (TablesSound *)
(* excludes chains of tags).  Given tag_mode, the caller has checked the   *)
(* tag already.  form is the constructed bit the type wants, or -1.        *)
(***************************************************************************)
CheckedTags(td, tag_mode, form, constr, t, l) ==
    LET Only(code) == [code |-> code, consumed |-> 0, len |-> 0, constr |-> FALSE]
    IN  IF t.took = 0 THEN Only("RC_WMORE")
        ELSE IF \/ t.took = -1
                \/ tag_mode = 0 /\ t.tag # td.tags[1]
                \/ form # -1 /\ constr # (form = 1)
                \/ l.took = -1
             THEN Only("RC_FAIL")
        ELSE IF l.took = 0 THEN Only("RC_WMORE")
        ELSE [code |-> "RC_OK", consumed |-> t.took + l.took,
              len |-> l.len, constr |-> constr]

ber_check_tags(td, buf, tag_mode, form) ==
    LET t == ber_fetch_tag(buf)
        constr == IsConstructed(buf[1])
    IN  CheckedTags(td, tag_mode, form, constr, t,
                    ber_fetch_length(constr, Drop(buf, t.took)))

(* Phase 0 of the constructed types. *)
AfterTags(st, buf, tags) ==
    At([st |-> [st EXCEPT !.left = tags.len],
        ptr |-> Drop(buf, tags.consumed), consumed |-> tags.consumed], 1)

-----------------------------------------------------------------------------
(***************************************************************************)
(* Primitive types: all of the value or nothing is consumed.               *)
(***************************************************************************)
(* The shortest two's complement of the same number. *)
RECURSIVE Canonical(_)
Canonical(octets) ==
    IF /\ Len(octets) > 1
       /\ \/ octets[1] = 0 /\ octets[2] < 128
          \/ octets[1] = 255 /\ octets[2] >= 128
    THEN Canonical(Tail(octets))
    ELSE octets

(* A long is kept as its shortest octets; <<>> is "does not fit". *)
LongOctets == 8
asn_INTEGER2long(octets) ==
    LET c == IF octets = <<>> THEN <<0>> ELSE Canonical(octets)
    IN  IF Len(c) > LongOctets THEN <<>> ELSE c

(* Reading stops at the first octet that is not zero. *)
BooleanOf(octets) ==
    IF \E k \in DOMAIN octets : octets[k] # 0
    THEN SelectSeq(octets, LAMBDA o : o # 0)[1] ELSE 0

PrimitiveValue(td, st, octets) ==
    CASE td.kind = "INTEGER" ->
           [st EXCEPT !.buf = <<octets>>, !.blocks = @ + 1]
      [] td.kind = "NativeInteger" ->
           [st EXCEPT !.buf = <<asn_INTEGER2long(octets)>>]
      [] OTHER -> [st EXCEPT !.buf = <<<<BooleanOf(octets)>>>>]

ber_decode_primitive(td, st, buf, tags) ==
    LET rest == Drop(buf, tags.consumed)
        octets == Take(rest, tags.len)
        Answer(code, n, s) == [code |-> code, consumed |-> n, st |-> s]
    IN  IF tags.code # "RC_OK" THEN Answer(tags.code, 0, st)
        ELSE IF tags.len > Len(rest) THEN Answer("RC_WMORE", 0, st)
        ELSE IF td.kind = "NativeInteger" /\ asn_INTEGER2long(octets) = <<>>
             THEN Answer("RC_FAIL", 0, st)
        ELSE Answer("RC_OK", tags.consumed + tags.len,
                    PrimitiveValue(td, st, octets))

-----------------------------------------------------------------------------
(***************************************************************************)
(* Strings.  A primitive one is consumed as it arrives (phase 3).  One in  *)
(* segments keeps a stack of frames, one per nested segment: what is left  *)
(* of it (-1: until end-of-contents), how much of it was read, whether it  *)
(* waits for end-of-contents and whether the octet that counts the unused  *)
(* bits of a BIT STRING has been taken off.  Phase 1 opens and closes      *)
(* segments, phase 2 reads a primitive one; phase 4 is the end.            *)
(***************************************************************************)
Frame(left, got, nulls) ==
    [left |-> left, got |-> got, want_nulls |-> nulls, bits_chopped |-> FALSE]

RECURSIVE Capacity(_, _)
Capacity(allocated, size) ==
    IF allocated > size THEN allocated
    ELSE Capacity(IF allocated = 0 THEN 16 ELSE 2 * allocated, size)

BytesOf(st) == IF st.buf = Null THEN <<>> ELSE st.buf[1]

APPEND(st, octets) ==
    LET all == BytesOf(st) \o octets
    IN  [st EXCEPT !.buf = <<all>>, !.context = Capacity(@, Len(all)),
                   !.blocks = @ + (IF st.buf = Null THEN 1 ELSE 0)]

(* Clears the bits of the last octet that do not belong to the string. *)
Chop(octets, unused) ==
    IF octets = <<>> THEN octets
    ELSE Append(Front(octets),
                Last(octets) - (Last(octets) % 2 ^ Smaller(unused, 8)))

StringDone(td, c) ==
    RETURN("RC_OK",
           IF td.kind # "BIT STRING" \/ c.st.buf = Null THEN c
           ELSE [c EXCEPT !.st.buf = <<Chop(@[1], c.st.bits_unused)>>])

(* Takes the first octet of a BIT STRING: how many bits are unused. *)
TakeUnused(c) ==
    [ADVANCE(c, 1) EXCEPT !.st.bits_unused = c.ptr[1]]

StringPrimitive(td, c) ==
    LET short == Len(c.ptr) < c.st.left
        first == td.kind = "BIT STRING" /\ c.st.context = 0 /\ c.st.left > 0
        d == IF first THEN TakeUnused(c) ELSE c
        n == Smaller(Len(d.ptr), d.st.left)
        e == ADVANCE([d EXCEPT !.st = APPEND(@, Take(d.ptr, n))], n)
    IN  IF short /\ c.ptr = <<>> THEN RETURN("RC_WMORE", c)
        ELSE IF short THEN RETURN("RC_WMORE", e)
        ELSE StringDone(td, [e EXCEPT !.st.phase = 4])

(* The frames in use, and the innermost. *)
Depth(c) == c.st.ptr[1].cur
Innermost(c) == c.st.ptr[1].frames[Depth(c)]

(* Consuming octets of a string leaves ctx->left alone. *)
Consume(c, n) ==
    [c EXCEPT !.ptr = Drop(@, n), !.consumed = @ + n]

(* Leaves the innermost frame; its octets count as read in the outer one. *)
CloseSegment(c) ==
    LET d == Depth(c)
        got == Innermost(c).got
    IN  IF d = 1 THEN [c EXCEPT !.st.ptr[1].cur = 0]
        ELSE [c EXCEPT !.st.ptr[1].cur = d - 1,
                       !.st.ptr[1].frames[d - 1].left =
                           IF @ = -1 THEN -1 ELSE @ - got,
                       !.st.ptr[1].frames[d - 1].got = @ + got]

(* OS__add_stack_el: a frame left earlier is used again. *)
OpenSegment(c, head, len) ==
    LET d == Depth(c)
        frames == c.st.ptr[1].frames
        inherits == len = Indefinite /\ d > 0 /\ frames[d].left # -1
        new == Frame(IF inherits THEN frames[d].left - head ELSE len,
                     head, len = Indefinite)
        fresh == Len(frames) = d
    IN  Consume([c EXCEPT !.st.ptr[1] =
                   [cur |-> d + 1,
                    frames |-> IF fresh THEN Append(frames, new)
                               ELSE [frames EXCEPT ![d + 1] = new]],
                 !.st.blocks = @ + (IF fresh THEN 1 ELSE 0)], head)

(* Two zero octets where the innermost frame waits for them. *)
CloseIndefinite(c) ==
    Consume([c EXCEPT !.st.ptr[1].frames[Depth(c)] =
               [@ EXCEPT !.got = @ + 2, !.left = 0, !.want_nulls = FALSE]], 2)

RECURSIVE StringLoop(_, _)

(* Phase 1, where t and l are the tag and the length ahead. *)
StringHead(td, c, t, l) ==
    LET d == Depth(c)
        sel == Innermost(c)
        outer == c.st.ptr[1].frames[d - 1]
        head == t.took + l.took
        expected == IF d = 0 THEN t.tag
                    ELSE td.all_tags[Smaller(d, Len(td.all_tags))]
    IN  IF d > 0 /\ sel.left <= 0 /\ ~sel.want_nulls
        THEN IF d > 1 /\ outer.left # -1 /\ outer.left < sel.got
             THEN RETURN("RC_FAIL", c)
             ELSE IF d = 1
             THEN StringDone(td, [CloseSegment(c) EXCEPT !.st.phase = 4])
             ELSE StringLoop(td, CloseSegment(c))
        ELSE IF t.took = 0 THEN RETURN("RC_WMORE", c)
        ELSE IF t.took = -1 \/ l.took = -1 THEN RETURN("RC_FAIL", c)
        ELSE IF l.took = 0 THEN RETURN("RC_WMORE", c)
        ELSE IF d > 0 /\ sel.want_nulls /\ c.ptr[1] = 0 /\ c.ptr[2] = 0
             THEN StringLoop(td, CloseIndefinite(c))
        ELSE IF \/ t.tag # expected
                \/ /\ d > 0 /\ sel.left # -1
                   /\ sel.left < head + (IF l.len = Indefinite THEN 0 ELSE l.len)
             THEN RETURN("RC_FAIL", c)
        ELSE StringLoop(td, [OpenSegment(c, head, l.len) EXCEPT
                !.st.phase = IF IsConstructed(c.ptr[1]) THEN 1 ELSE 2])

StringExpect(td, c) ==
    LET d == Depth(c)
        left == IF d = 0 THEN -1 ELSE Innermost(c).left
        ahead == IF left = -1 THEN c.ptr
                 ELSE Take(c.ptr, Smaller(left, Len(c.ptr)))
        t == ber_fetch_tag(ahead)
    IN  StringHead(td, c, t,
            ber_fetch_length(IsConstructed(c.ptr[1]), Drop(ahead, t.took)))

StringSegment(td, c) ==
    LET d == Depth(c)
        sel == Innermost(c)
        n == Smaller(Len(c.ptr), sel.left)
        chop == td.kind = "BIT STRING" /\ ~sel.bits_chopped
        read == APPEND(IF chop THEN [c.st EXCEPT !.bits_unused = c.ptr[1]]
                       ELSE c.st,
                       SubSeq(c.ptr, IF chop THEN 2 ELSE 1, n))
        e == IF n = 0 THEN c
             ELSE Consume([c EXCEPT !.st = [read EXCEPT !.ptr[1].frames[d] =
                      [@ EXCEPT !.left = @ - n, !.got = @ + n,
                                !.bits_chopped = @ \/ chop]]], n)
    IN  IF n < sel.left THEN RETURN("RC_WMORE", e)
        ELSE StringLoop(td, [e EXCEPT !.st.phase = 1])

StringLoop(td, c) ==
    IF c.st.phase = 1 THEN StringExpect(td, c) ELSE StringSegment(td, c)

OCTET_STRING_decode_ber(td, st, buf, tags) ==
    LET placed == [st EXCEPT !.left = tags.len, !.context = 0]
        stack == [frames |-> <<>>, cur |-> 0]
    IN  CASE st.phase = 0 /\ tags.code # "RC_OK" ->
               [code |-> tags.code, consumed |-> tags.consumed, st |-> st]
          [] st.phase = 0 /\ tags.code = "RC_OK" /\ tags.constr ->
               StringLoop(td, Cursor([placed EXCEPT !.phase = 1,
                   !.ptr = <<stack>>, !.blocks = @ + 1], buf))
          [] st.phase = 0 /\ tags.code = "RC_OK" /\ ~tags.constr ->
               StringPrimitive(td,
                   Consume(Cursor([placed EXCEPT !.phase = 3], buf),
                           tags.consumed))
          [] st.phase \in {1, 2} -> StringLoop(td, Cursor(st, buf))
          [] st.phase = 3 -> StringPrimitive(td, Cursor(st, buf))
          [] OTHER -> StringDone(td, Cursor(st, buf))

-----------------------------------------------------------------------------
(***************************************************************************)
(* Constructed types.  A member is decoded from what is left of the        *)
(* structure; if it wants more although the structure has no more, the     *)
(* lengths contradict each other.                                          *)
(***************************************************************************)
RECURSIVE Decode(_, _, _, _)
RECURSIVE SequenceMembers(_, _)
RECURSIVE ListItems(_, _)

(* The decoder of a member, with what is left of the structure. *)
DecodeMember(c, m, pointer, tag_mode) ==
    Decode(TypeOf(m), pointer, Ahead(c), tag_mode)

(* Consumption by a member that wants more: a mutant forgets it. *)
ForgetMember(c, n) == c
MemberConsumed(c, n) == ADVANCE(c, n)

MemberPending(c, res, failed) ==
    IF res.code = "RC_WMORE" /\ ~SIZE_VIOLATION(c)
    THEN RETURN("RC_WMORE", MemberConsumed(c, res.consumed))
    ELSE RETURN("RC_FAIL", failed)

(* SEQUENCE, phases 3 and 4: nothing but end-of-contents may follow. *)
SequenceEnd(c) ==
    IF c.st.left = 0 THEN RETURN("RC_OK", [c EXCEPT !.st.phase = 10])
    ELSE LET t == ber_fetch_tag(Ahead(c))
         IN  IF t.took = 0 THEN WantMore(c)
             ELSE IF Terminated(c) /\ c.st.left < 0
                  THEN RETURN("RC_OK", [ADVANCE(c, 2) EXCEPT !.st.left = 0,
                                                             !.st.phase = 10])
             ELSE IF c.st.left < 0 /\ c.ptr = <<0>> THEN RETURN("RC_WMORE", c)
             ELSE RETURN("RC_FAIL", c)

(* bsearch with _t2e_cmp: the last of members edx .. edx + optional. *)
ByTag(td, edx, tag) ==
    LET hi == edx + td.elements[edx + 1].optional
        found == {td.tag2el[k][2] - 1 : k \in
                    {j \in DOMAIN td.tag2el : td.tag2el[j][1] = tag}}
                 \cap edx .. hi
    IN  IF found = {} THEN -1 ELSE CHOOSE n \in found : \A m \in found : m <= n

(***************************************************************************)
(* The member, from edx on, that the tag opens: members that may be        *)
(* missing are passed over; the first without a tag of its own sends the   *)
(* search to the table.  -1: none.                                         *)
(***************************************************************************)
FindMember(td, edx, tag) ==
    LET last == Smaller(edx + td.elements[edx + 1].optional,
                        Len(td.elements) - 1)
        stops == {n \in edx .. last : td.elements[n + 1].tag \in {tag, NoTag}}
        n == CHOOSE m \in stops : \A o \in stops : m <= o
    IN  IF stops = {} THEN -1
        ELSE IF td.elements[n + 1].tag = tag THEN n ELSE ByTag(td, edx, tag)

(* Microphase 2: the decoder of member edx answered res. *)
SequenceMember(td, c, edx, res) ==
    LET d == [c EXCEPT !.st.sub[edx + 1] = <<res.st>>, !.st.step = 2 * edx + 1]
    IN  IF res.code = "RC_OK"
        THEN SequenceMembers(td, [ADVANCE(d, res.consumed)
                                    EXCEPT !.st.step = 2 * edx + 2])
        ELSE MemberPending(d, res, d)

(* Phase 1; step is twice the member's index, plus one in microphase 2. *)
SequenceMembers(td, c) ==
    LET edx == c.st.step \div 2
        count == Len(td.elements)
        mayEnd == edx + td.elements[edx + 1].optional = count
        t == ber_fetch_tag(Ahead(c))
        within == c.st.step % 2 = 1
        n == IF within THEN edx ELSE FindMember(td, edx, t.tag)
        m == td.elements[n + 1]
    IN  IF edx = count THEN SequenceEnd([c EXCEPT !.st.phase = 3])
        ELSE IF c.st.left = 0 /\ mayEnd /\ ~within
             THEN RETURN("RC_OK", [c EXCEPT !.st.phase = 10])
        ELSE IF ~within /\ t.took = 0 THEN WantMore(c)
        ELSE IF ~within /\ t.took = -1 THEN RETURN("RC_FAIL", c)
        ELSE IF ~within /\ c.st.left < 0 /\ c.ptr = <<0>>
             THEN RETURN("RC_WMORE", c)
        ELSE IF ~within /\ c.st.left < 0 /\ Terminated(c) /\ mayEnd
             THEN SequenceEnd([c EXCEPT !.st.phase = 3])
        ELSE IF n = -1 THEN RETURN("RC_FAIL", c)
        ELSE SequenceMember(td, c, n,
                DecodeMember(c, m, c.st.sub[n + 1], m.tag_mode))

SEQUENCE_decode_ber(td, st, buf, tags) ==
    CASE st.phase = 0 /\ tags.code # "RC_OK" ->
           [code |-> tags.code, consumed |-> tags.consumed, st |-> st]
      [] st.phase = 0 /\ tags.code = "RC_OK" ->
           SequenceMembers(td, AfterTags(st, buf, tags))
      [] st.phase = 1 -> SequenceMembers(td, Cursor(st, buf))
      [] st.phase \in {3, 4} -> SequenceEnd(Cursor(st, buf))
      [] OTHER -> RETURN("RC_OK", Cursor(st, buf))

(* SEQUENCE OF, phase 2: the end-of-contents octets. *)
ListEnd(c) ==
    IF c.st.left >= 0 THEN RETURN("RC_OK", [c EXCEPT !.st.phase = 10])
    ELSE IF Terminated(c)
         THEN RETURN("RC_OK", [ADVANCE(c, 2) EXCEPT !.st.left = 0,
                                                    !.st.phase = 10])
    ELSE IF c.ptr \in {<<>>, <<0>>} THEN RETURN("RC_WMORE", c)
    ELSE RETURN("RC_FAIL", c)

(* ASN_SET_ADD: the array is allocated with its first element. *)
asn_set_add(st, element) ==
    [st EXCEPT !.sub = Append(@, <<element>>), !.ptr = Null, !.step = 0,
               !.blocks = @ + (IF st.sub = <<>> THEN 1 ELSE 0)]

ListItem(td, c, res) ==
    LET d == [c EXCEPT !.st.ptr = <<res.st>>, !.st.step = 1]
    IN  IF res.code = "RC_OK"
        THEN ListItems(td, [ADVANCE(d, res.consumed)
                              EXCEPT !.st = asn_set_add(@, res.st)])
        ELSE MemberPending(d, res, [c EXCEPT !.st.ptr = Null])

ListItems(td, c) ==
    LET elm == td.elements[1]
        t == ber_fetch_tag(Ahead(c))
        between == c.st.step = 0
    IN  IF between /\ c.st.left = 0
        THEN RETURN("RC_OK", [c EXCEPT !.st.phase = 10])
        ELSE IF between /\ t.took = 0 THEN WantMore(c)
        ELSE IF between /\ t.took = -1 THEN RETURN("RC_FAIL", c)
        ELSE IF between /\ c.st.left < 0 /\ c.ptr = <<0>>
             THEN RETURN("RC_WMORE", c)
        ELSE IF between /\ c.st.left < 0 /\ Terminated(c)
             THEN ListEnd(At(c, 2))
        ELSE IF between /\ elm.tag \notin {NoTag, t.tag}
             THEN RETURN("RC_FAIL", c)
        ELSE ListItem(td, c, DecodeMember(c, elm, c.st.ptr, 0))

SET_OF_decode_ber(td, st, buf, tags) ==
    CASE st.phase = 0 /\ tags.code # "RC_OK" ->
           [code |-> tags.code, consumed |-> tags.consumed, st |-> st]
      [] st.phase = 0 /\ tags.code = "RC_OK" ->
           ListItems(td, AfterTags(st, buf, tags))
      [] st.phase = 1 -> ListItems(td, Cursor(st, buf))
      [] st.phase = 2 -> ListEnd(Cursor(st, buf))
      [] OTHER -> RETURN("RC_OK", Cursor(st, buf))

(***************************************************************************)
(* CHOICE, phase 3.  A zero octet that another follows is looked at again  *)
(* and again: the loop does not end.                                       *)
(***************************************************************************)
ChoiceEnd(td, c, tag_mode) ==
    CASE c.st.left > 0 -> RETURN("RC_FAIL", c)
      [] c.st.left = 0 \/ (tag_mode = 0 /\ td.tags = <<>>) ->
           RETURN("RC_OK", At(c, 4))
      [] OTHER ->
           IF Terminated(c)
           THEN RETURN("RC_OK", At([ADVANCE(c, 2) EXCEPT !.st.left = 0], 4))
           ELSE IF c.ptr \in {<<>>, <<0>>} THEN RETURN("RC_WMORE", c)
           ELSE IF c.ptr[1] = 0 THEN RETURN("LOOPS", c)
           ELSE RETURN("RC_FAIL", c)

(* The decoder of the alternative answered res. *)
ChoiceDecoded(td, c, tag_mode, res) ==
    LET d == [c EXCEPT !.st.present = c.st.step + 1, !.st.sub = <<<<res.st>>>>]
    IN  IF res.code = "RC_OK"
        THEN ChoiceEnd(td, At(ADVANCE(d, res.consumed), 3), tag_mode)
        ELSE MemberPending(d, res, d)

(* Phase 2: the alternative, its index in step. *)
ChoiceMember(td, c, tag_mode) ==
    LET m == td.elements[c.st.step + 1]
        zeroed == IF m.pointer THEN Null ELSE <<Zeroed(TypeOf(m), 0)>>
        place == IF c.st.present = 0 THEN zeroed ELSE c.st.sub[1]
    IN  ChoiceDecoded(td, c, tag_mode,
                      DecodeMember(c, m, place, m.tag_mode))

(* Phase 1: the alternative by its tag, with _search4tag. *)
ChoiceTag(td, c, tag_mode) ==
    LET t == ber_fetch_tag(Ahead(c))
        found == {k \in DOMAIN td.tag2el : td.tag2el[k][1] = t.tag}
        n == td.tag2el[CHOOSE k \in found : TRUE][2] - 1
    IN  IF t.took = 0 THEN WantMore(c)
        ELSE IF t.took = -1 \/ found = {} THEN RETURN("RC_FAIL", c)
        ELSE ChoiceMember(td, [At(c, 2) EXCEPT !.st.step = n], tag_mode)

CHOICE_decode_ber(td, st, buf, tag_mode, tags) ==
    LET tagged == tag_mode # 0 \/ td.tags # <<>>
        c == Cursor(st, buf)
    IN  CASE st.phase = 0 /\ ~tagged ->
               ChoiceTag(td, At([c EXCEPT !.st.left = -1], 1), tag_mode)
          [] st.phase = 0 /\ tagged /\ tags.code = "RC_OK" ->
               ChoiceTag(td, AfterTags(st, buf, tags), tag_mode)
          [] st.phase = 0 /\ tagged /\ tags.code # "RC_OK" ->
               [code |-> tags.code, consumed |-> tags.consumed, st |-> st]
          [] st.phase = 1 -> ChoiceTag(td, c, tag_mode)
          [] st.phase = 2 -> ChoiceMember(td, c, tag_mode)
          [] st.phase = 3 -> ChoiceEnd(td, c, tag_mode)
          [] OTHER -> RETURN("RC_OK", c)

(* The constructed bit a type wants: either, if -1. *)
TagForm(td) == CASE td.kind \in {"SEQUENCE", "SEQUENCE OF"} -> 1
                 [] td.kind \in {"CHOICE", "OCTET STRING", "BIT STRING"} -> -1
                 [] OTHER -> 0

(* type_descriptor->ber_decoder; the tags matter in phase 0. *)
DecodeKind(td, st, buf, tag_mode, tags) ==
    CASE td.kind = "SEQUENCE" -> SEQUENCE_decode_ber(td, st, buf, tags)
      [] td.kind = "CHOICE" -> CHOICE_decode_ber(td, st, buf, tag_mode, tags)
      [] td.kind = "SEQUENCE OF" -> SET_OF_decode_ber(td, st, buf, tags)
      [] td.kind \in {"OCTET STRING", "BIT STRING"} ->
           OCTET_STRING_decode_ber(td, st, buf, tags)
      [] OTHER -> ber_decode_primitive(td, st, buf, tags)

Decode(td, pointer, buf, tag_mode) ==
    DecodeKind(td, Target(td, pointer), buf, tag_mode,
               ber_check_tags(td, buf, tag_mode, TagForm(td)))

ber_decode(td, pointer, buf) == Decode(td, pointer, buf, 0)
=============================================================================
