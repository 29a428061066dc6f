----------------------------- MODULE Asn1Struct -----------------------------
(***************************************************************************)
(* What the run-time library of asn1c does with a structure once it is     *)
(* there: the DER encoder, the constraint checks and the release           *)
(* (src/mms/iso_mms/asn1c).                                                *)
(*                                                                         *)
(* Left out: the XML and PER codecs (the descriptors have none for their   *)
(* integers and none at all for PER), printing, and GeneralizedTime, whose *)
(* check and encoder go through the time functions of the C library.       *)
(***************************************************************************)
EXTENDS Asn1Ber

-----------------------------------------------------------------------------
(***************************************************************************)
(* The DER encoder.  An encoding is a pointer to octets, Null a failure.   *)
(***************************************************************************)
(* The one tag of a value: its own, or the one its member gives it. *)
der_write_tags(td, octets, tag_mode, tag, constructed) ==
    LET own == IF tag_mode # 0 THEN tag ELSE td.tags[1]
    IN  <<der_write_TL(own, Len(octets), constructed) \o octets>>

(* Members one after the other; one that fails fails them all. *)
Concatenated(parts) ==
    IF \E k \in DOMAIN parts : parts[k] = Null THEN Null
    ELSE <<FlattenSeq([k \in DOMAIN parts |-> parts[k][1]])>>

RECURSIVE Encode(_, _, _, _)

(* A missing member is skipped if it may be missing. *)
EncodeMember(m, pointer) ==
    IF pointer # Null THEN Encode(TypeOf(m), pointer[1], m.tag_mode, m.tag)
    ELSE IF m.optional > 0 THEN <<<<>>>> ELSE Null

SEQUENCE_encode_der(td, st, tag_mode, tag) ==
    LET body == Concatenated([i \in DOMAIN td.elements |->
                                EncodeMember(td.elements[i], st.sub[i])])
    IN  IF body = Null THEN Null
        ELSE der_write_tags(td, body[1], tag_mode, tag, TRUE)

CHOICE_encode_der(td, st, tag_mode, tag) ==
    IF st.present = 0 THEN Null
    ELSE LET body == EncodeMember(td.elements[st.present], st.sub[1])
         IN  IF body = Null \/ (tag_mode # 1 /\ td.tags = <<>>) THEN body
             ELSE der_write_tags(td, body[1], tag_mode, tag, TRUE)

SEQUENCE_OF_encode_der(td, st, tag_mode, tag) ==
    LET elm == td.elements[1]
        body == Concatenated([k \in DOMAIN st.sub |->
                                Encode(TypeOf(elm), st.sub[k][1], 0, elm.tag)])
    IN  IF body = Null THEN Null
        ELSE der_write_tags(td, body[1], tag_mode, tag, TRUE)

OCTET_STRING_encode_der(td, st, tag_mode, tag) ==
    LET b == st.bits_unused % 8
        octets == BytesOf(st)
    IN  der_write_tags(td,
            IF td.kind # "BIT STRING" THEN octets
            ELSE <<b>> \o (IF b = 0 THEN octets ELSE Chop(octets, st.bits_unused)),
            tag_mode, tag, FALSE)

(* Primitive types; an INTEGER is sent as its shortest octets. *)
PrimitiveOctets(td, st) ==
    CASE td.kind = "INTEGER" -> Canonical(BytesOf(st))
      [] td.kind = "NativeInteger" ->
           IF st.buf = Null THEN <<0>> ELSE Canonical(st.buf[1])
      [] td.kind = "BOOLEAN" ->
           IF BytesOf(st) \in {<<>>, <<0>>} THEN <<0>> ELSE <<1>>
      [] td.kind = "NULL" -> <<>>

(* type_descriptor->der_encoder *)
Encode(td, st, tag_mode, tag) ==
    CASE td.kind = "SEQUENCE" -> SEQUENCE_encode_der(td, st, tag_mode, tag)
      [] td.kind = "CHOICE" -> CHOICE_encode_der(td, st, tag_mode, tag)
      [] td.kind = "SEQUENCE OF" -> SEQUENCE_OF_encode_der(td, st, tag_mode, tag)
      [] td.kind \in {"OCTET STRING", "BIT STRING"} ->
           OCTET_STRING_encode_der(td, st, tag_mode, tag)
      [] OTHER -> der_write_tags(td, PrimitiveOctets(td, st),
                                 tag_mode, tag, FALSE)

(* The octets are handed to a buffer of a given size; all must fit. *)
der_encode_to_buffer(td, st, buffer_size) ==
    LET octets == Encode(td, st, 0, 0)
    IN  IF octets = Null \/ Len(octets[1]) > buffer_size THEN Null ELSE octets

(***************************************************************************)
(* Encoding shortens the INTEGERs in the caller's own structure.           *)
(***************************************************************************)
RECURSIVE Shortened(_, _)
Shortened(td, st) ==
    LET Of(i) == IF td.kind = "SEQUENCE OF" THEN td.elements[1]
                 ELSE IF td.kind = "CHOICE" THEN td.elements[st.present]
                 ELSE td.elements[i]
    IN  IF td.kind = "INTEGER"
        THEN [st EXCEPT !.buf = IF @ = Null THEN @ ELSE <<Canonical(@[1])>>]
        ELSE [st EXCEPT !.sub = [i \in DOMAIN @ |->
                IF @[i] = Null THEN Null
                ELSE <<Shortened(TypeOf(Of(i)), @[i][1])>>]]

-----------------------------------------------------------------------------
(***************************************************************************)
(* The constraint checks (td->check_constraints).                          *)
(***************************************************************************)
BIT_STRING_constraint(st) ==
    st.buf # Null /\ ~(Len(st.buf[1]) = 1 /\ st.bits_unused # 0)

VisibleString_constraint(st) ==
    st.buf # Null /\ \A k \in DOMAIN st.buf[1] : st.buf[1][k] \in 32 .. 126

(* How many octets a character takes by its first one; 0: none starts so. *)
UTF8String_ht(ch) ==
    CASE ch < 128 -> 1
      [] ch \in 192 .. 223 -> 2
      [] ch \in 224 .. 239 -> 3
      [] ch \in 240 .. 247 -> 4
      [] ch \in 248 .. 251 -> 5
      [] ch \in 252 .. 253 -> 6
      [] OTHER -> 0

(* The least value that needs so many octets. *)
UTF8String_mv == <<0, 128, 2048, 65536, 2097152, 67108864>>

RECURSIVE UTF8String__process(_)
UTF8String__process(octets) ==
    \/ octets = <<>>
    \/ LET want == UTF8String_ht(octets[1])
           first == octets[1] % (IF want = 1 THEN 128 ELSE 2 ^ (8 - want))
           rest == SubSeq(octets, 2, want)
           value == FoldLeft(LAMBDA v, o : v * 64 + (o % 64), first, rest)
       IN  /\ want \in 1 .. Len(octets)
           /\ \A k \in DOMAIN rest : rest[k] \in 128 .. 191
           /\ value >= UTF8String_mv[want]
           /\ UTF8String__process(Drop(octets, want))

UTF8String_constraint(st) == st.buf # Null /\ UTF8String__process(st.buf[1])

(* The generated checks of integers and of the size of a string. *)
FitsSigned(octets, n) ==
    LET v == asn_INTEGER2long(octets) IN v # <<>> /\ Len(v) <= n

FitsUnsigned(octets, n) ==
    LET v == asn_INTEGER2long(octets)
    IN  /\ v # <<>>
        /\ v[1] < 128
        /\ Len(v) <= n \/ (Len(v) = n + 1 /\ v[1] = 0)

(* memb_..._constraint: between lo and hi, both below 128. *)
WithinRange(octets, lo, hi) == Len(octets) = 1 /\ octets[1] \in lo .. hi

RECURSIVE check_constraints(_, _)

(* A member's own check takes the place of its type's. *)
MemberHolds(m, pointer) ==
    IF pointer = Null THEN m.optional > 0
    ELSE IF m.within # <<>>
         THEN WithinRange(pointer[1].buf[1], m.within[1], m.within[2])
    ELSE check_constraints(TypeOf(m), pointer[1])

SEQUENCE_constraint(td, st) ==
    \A i \in DOMAIN td.elements : MemberHolds(td.elements[i], st.sub[i])

CHOICE_constraint(td, st) ==
    st.present # 0 /\ MemberHolds(td.elements[st.present], st.sub[1])

SET_OF_constraint(td, st) ==
    \A k \in DOMAIN st.sub : MemberHolds(td.elements[1], st.sub[k])

check_constraints(td, st) ==
    LET check == td.check[1]
    IN  CASE td.kind = "SEQUENCE" -> SEQUENCE_constraint(td, st)
          [] td.kind = "CHOICE" -> CHOICE_constraint(td, st)
          [] td.kind = "SEQUENCE OF" -> SET_OF_constraint(td, st)
          [] check = "none" -> TRUE
          [] check = "bits" -> BIT_STRING_constraint(st)
          [] check = "visible" -> VisibleString_constraint(st)
          [] check = "utf8" -> UTF8String_constraint(st)
          [] check = "signed" -> FitsSigned(BytesOf(st), td.check[2])
          [] check = "unsigned" -> FitsUnsigned(BytesOf(st), td.check[2])
          [] check = "size" -> Len(BytesOf(st)) = td.check[2]

asn_check_constraints(td, pointer) ==
    pointer # Null /\ check_constraints(td, pointer[1])

-----------------------------------------------------------------------------
(***************************************************************************)
(* Releasing a structure, at whatever point its decoder has stopped: how   *)
(* many blocks are given back.  contents is true for a member inside       *)
(* another structure, which has no block of its own.                       *)
(***************************************************************************)
Total(s) == FoldLeft(LAMBDA a, b : a + b, 0, s)

RECURSIVE free_struct(_, _, _)

FreeMember(m, pointer) ==
    IF pointer = Null THEN 0 ELSE free_struct(TypeOf(m), pointer[1], ~m.pointer)

SEQUENCE_free(td, st) ==
    Total([i \in DOMAIN td.elements |-> FreeMember(td.elements[i], st.sub[i])])

CHOICE_free(td, st) ==
    IF st.present = 0 THEN 0
    ELSE FreeMember(td.elements[st.present], st.sub[1])

(* The element still being read forgotten: a mutant. *)
FreeWithoutPtr(td, st) ==
    Total([k \in DOMAIN st.sub |->
             free_struct(TypeOf(td.elements[1]), st.sub[k][1], FALSE)])
    + (IF st.sub = <<>> THEN 0 ELSE 1)

(* The elements, their array and the element that was being read. *)
SET_OF_free(td, st) ==
    LET Element(pointer) ==
            IF pointer = Null THEN 0
            ELSE free_struct(TypeOf(td.elements[1]), pointer[1], FALSE)
    IN  Total([k \in DOMAIN st.sub |-> Element(st.sub[k])])
        + (IF st.sub = <<>> THEN 0 ELSE 1) + Element(st.ptr)

(* The octets, the frames of the segments and their stack. *)
OCTET_STRING_free(st) ==
    (IF st.buf = Null THEN 0 ELSE 1)
    + (IF st.ptr = Null THEN 0 ELSE Len(st.ptr[1].frames) + 1)

(* Only an INTEGER owns its octets. *)
PrimitiveFree(td, st) == IF td.kind = "INTEGER" /\ st.buf # Null THEN 1 ELSE 0

free_struct(td, st, contents) ==
    LET own == CASE td.kind = "SEQUENCE" -> SEQUENCE_free(td, st)
               [] td.kind = "CHOICE" -> CHOICE_free(td, st)
               [] td.kind = "SEQUENCE OF" -> SET_OF_free(td, st)
               [] td.kind \in {"OCTET STRING", "BIT STRING"} ->
                      OCTET_STRING_free(st)
               [] OTHER -> PrimitiveFree(td, st)
    IN  own + (IF contents THEN 0 ELSE 1)
=============================================================================
