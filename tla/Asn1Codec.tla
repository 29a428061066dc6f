----------------------------- MODULE Asn1Codec -----------------------------
(***************************************************************************)
(* A value of the MMS grammar on its way through the codec of asn1c: a     *)
(* peer sends an encoding of it, the octets arrive in pieces, ber_decode   *)
(* is called with every piece until it has the whole value, the structure  *)
(* is checked and encoded again, any number of times, and released, which  *)
(* may also happen in the middle of the decoding, when the connection is   *)
(* lost.  The peer may also send a value of another type than expected.    *)
(*                                                                         *)
(* Values are independent of the structures: the octets of a primitive     *)
(* type (of a BIT STRING the pair <<unused bits, octets>>), of a SEQUENCE  *)
(* the sequence of its members, each <<>> or <<value>>, of a CHOICE the    *)
(* pair <<alternative, value>> and of a SEQUENCE OF the sequence of its    *)
(* elements.                                                               *)
(***************************************************************************)
EXTENDS Asn1Struct

CONSTANTS Messages, \* the values that are sent: records of type and value
          Expected, \* types that may be expected whatever is sent
          Chunks,   \* how many octets may arrive at once
          Spares    \* how much larger than needed an encoding buffer may be

VARIABLES msg,      \* the message under way: its type, value and form
          asked,    \* the type the decoder is asked for
          wire,     \* its octets that have not arrived yet
          buf,      \* octets that arrived and were not consumed
          st,       \* pointer to the structure
          code,     \* the decoder's last answer, or "idle"
          checked,  \* the answers of the constraint check and, with the
          out       \* spare room it had, of the encoder

codecVars == <<msg, asked, wire, buf, st, code, checked, out>>

-----------------------------------------------------------------------------
(***************************************************************************)
(* The peer.  BER leaves it a choice: "der" is the shortest encoding;      *)
(* "padded" has lengths of two octets, a redundant sign octet before       *)
(* numbers and 255 for true; "segmented" cuts strings in segments, the     *)
(* second of them cut again and of indefinite length; "indefinite" uses    *)
(* indefinite lengths wherever they are allowed, for segments too.         *)
(***************************************************************************)
Forms == {"der", "padded", "segmented", "indefinite"}

Identifier(tag, constructed) ==
    LET class == 64 * (tag % 4) + (IF constructed THEN 32 ELSE 0)
    IN  IF tag \div 4 < 31 THEN <<class + tag \div 4>>
        ELSE <<class + 31, tag \div 4>>

(* One octet suffices for the tag numbers of MMS, two for its lengths. *)
LengthOctets(n, padded) ==
    IF n < 128 /\ ~padded THEN <<n>>
    ELSE IF n < 256 THEN <<129, n>> ELSE <<130, n \div 256, n % 256>>

Tlv(tag, constructed, body, form) ==
    Identifier(tag, constructed) \o
    (IF constructed /\ form = "indefinite" THEN <<128>> \o body \o <<0, 0>>
     ELSE LengthOctets(Len(body), form = "padded") \o body)

(* The tag the decoder expects of a segment so many levels down. *)
SegmentTag(td, depth) == td.all_tags[Smaller(depth, Len(td.all_tags))]

(* A string in two segments, the second of which consists of two more. *)
Segmented(td, octets, unused, tag, form) ==
    LET half == Len(octets) \div 2
        one == Smaller(half + 1, Len(octets))
        Seg(depth, part, u) ==
            Tlv(SegmentTag(td, depth), FALSE,
                (IF td.kind = "BIT STRING" THEN <<u>> ELSE <<>>) \o part, form)
        inner == Seg(2, SubSeq(octets, half + 1, one), 0)
                 \o Seg(2, Drop(octets, one), unused)
    IN  Tlv(tag, TRUE,
            Seg(1, Take(octets, half), 0)
            \o Tlv(SegmentTag(td, 1), TRUE, inner,
                   IF form = "segmented" THEN "indefinite" ELSE "der"),
            form)

(* The octets of a primitive value. *)
Primitive(td, value, form) ==
    CASE td.kind = "BIT STRING" -> <<value[1]>> \o value[2]
      [] td.kind = "BOOLEAN" /\ form = "padded" /\ value = <<1>> -> <<255>>
      [] td.kind \in {"INTEGER", "NativeInteger"} /\ form = "padded" ->
           <<IF value[1] >= 128 THEN 255 ELSE 0>> \o value
      [] OTHER -> value

RECURSIVE PeerOctets(_, _, _, _, _)
PeerOctets(td, value, tag_mode, tag, form) ==
    LET own == IF tag_mode # 0 THEN tag ELSE td.tags[1]
        Of(m, v) == PeerOctets(TypeOf(m), v, m.tag_mode, m.tag, form)
        Present(i) == IF value[i] = <<>> THEN <<>>
                      ELSE Of(td.elements[i], value[i][1])
    IN  CASE td.kind = "SEQUENCE" ->
               Tlv(own, TRUE, FlattenSeq([i \in DOMAIN value |-> Present(i)]),
                   form)
          [] td.kind = "SEQUENCE OF" ->
               Tlv(own, TRUE, FlattenSeq([i \in DOMAIN value |->
                                            Of(td.elements[1], value[i])]),
                   form)
          [] td.kind = "CHOICE" ->
               LET body == Of(td.elements[value[1]], value[2])
               IN  IF tag_mode = 1 THEN Tlv(tag, TRUE, body, form) ELSE body
          [] /\ td.kind \in {"OCTET STRING", "BIT STRING"}
             /\ form \in {"segmented", "indefinite"} ->
               IF td.kind = "BIT STRING"
               THEN Segmented(td, value[2], value[1], own, form)
               ELSE Segmented(td, value, 0, own, form)
          [] OTHER -> Tlv(own, FALSE, Primitive(td, value, form), form)

(***************************************************************************)
(* The value a structure stands for.  A number is the octets that remain   *)
(* when those that only repeat the sign are left out.                      *)
(***************************************************************************)
Number(octets) ==
    LET Sign(k) == IF octets[k] >= 128 THEN 255 ELSE 0
        starts == {k \in DOMAIN octets :
                     \A j \in 1 .. k - 1 : octets[j] = Sign(k)}
    IN  Drop(octets, (CHOOSE k \in starts : \A j \in starts : j <= k) - 1)

RECURSIVE Content(_, _)
Content(td, s) ==
    LET Of(m, p) == Content(TypeOf(m), p[1])
    IN  CASE td.kind = "SEQUENCE" ->
               [i \in DOMAIN s.sub |->
                  IF s.sub[i] = Null THEN <<>>
                  ELSE <<Of(td.elements[i], s.sub[i])>>]
          [] td.kind = "SEQUENCE OF" ->
               [i \in DOMAIN s.sub |-> Of(td.elements[1], s.sub[i])]
          [] td.kind = "CHOICE" ->
               <<s.present, Of(td.elements[s.present], s.sub[1])>>
          [] td.kind = "BIT STRING" -> <<s.bits_unused, BytesOf(s)>>
          [] td.kind \in {"INTEGER", "NativeInteger"} -> Number(BytesOf(s))
          [] td.kind = "BOOLEAN" -> <<IF BytesOf(s) = <<0>> THEN 0 ELSE 1>>
          [] td.kind = "NULL" -> <<>>
          [] OTHER -> BytesOf(s)

(* The blocks allocated for a structure and what it points to. *)
RECURSIVE Allocated(_, _)
Allocated(td, s) ==
    LET list == td.kind = "SEQUENCE OF"
        Of(i) == IF list THEN td.elements[1]
                 ELSE IF td.kind = "CHOICE" THEN td.elements[s.present]
                 ELSE td.elements[i]
    IN  s.blocks
        + Total([i \in DOMAIN s.sub |->
                   IF s.sub[i] = Null THEN 0
                   ELSE Allocated(TypeOf(Of(i)), s.sub[i][1])])
        + (IF list /\ s.ptr # Null
           THEN Allocated(TypeOf(td.elements[1]), s.ptr[1]) ELSE 0)

-----------------------------------------------------------------------------
NoMessage == [type |-> "NULL", value |-> <<>>, form |-> "der"]
Untested == <<>>

CodecInit ==
    /\ msg = NoMessage /\ asked = "NULL" /\ wire = <<>> /\ buf = <<>>
    /\ st = Null /\ code = "idle" /\ checked = Untested /\ out = Untested

Begin ==
    /\ code = "idle"
    /\ \E m \in Messages, form \in Forms :
          /\ asked' \in {m.type} \cup Expected
          /\ msg' = [type |-> m.type, value |-> m.value, form |-> form]
          /\ wire' = PeerOctets(TypeOf(m), m.value, 0, 0, form)
    /\ code' = "RC_WMORE"
    /\ UNCHANGED <<buf, st, checked, out>>

(* n more octets arrive and the decoder is called with all there are. *)
Feed(n) ==
    LET k == Smaller(n, Len(wire))
        octets == buf \o Take(wire, k)
    IN  /\ code = "RC_WMORE"
        /\ wire # <<>>
        /\ wire' = Drop(wire, k)
        /\ \E r \in {ber_decode(Types[asked], st, octets)} :
              /\ st' = <<r.st>>
              /\ buf' = Drop(octets, r.consumed)
              /\ code' = r.code
        /\ UNCHANGED <<msg, asked, checked, out>>

(* asn_check_constraints *)
Check ==
    /\ code = "RC_OK"
    /\ checked' = <<asn_check_constraints(Types[asked], st)>>
    /\ UNCHANGED <<msg, asked, wire, buf, st, code, out>>

(* The encoding the standard prescribes, but with 1 for true. *)
Reference == PeerOctets(TypeOf(msg), msg.value, 0, 0, "der")

(* der_encode_to_buffer, with spare octets more than needed (or less). *)
Reencode(spare) ==
    /\ code = "RC_OK"
    /\ out' = <<spare, der_encode_to_buffer(Types[asked], st[1],
                                            Len(Reference) + spare)>>
    /\ st' = <<Shortened(Types[asked], st[1])>>
    /\ UNCHANGED <<msg, asked, wire, buf, code, checked>>

(* ASN_STRUCT_FREE, whether or not the structure is complete. *)
Free ==
    /\ code # "idle"
    /\ msg' = NoMessage /\ asked' = "NULL" /\ wire' = <<>> /\ buf' = <<>>
    /\ st' = Null /\ code' = "idle" /\ checked' = Untested /\ out' = Untested

CodecNext ==
    \/ Begin
    \/ \E n \in Chunks : Feed(n)
    \/ Check
    \/ \E spare \in Spares : Reencode(spare)
    \/ Free

-----------------------------------------------------------------------------
(***************************************************************************)
(* What the checks refuse although the standard allows it: somewhere in    *)
(* the value a BIT STRING of one to seven bits, or an empty VisibleString  *)
(* or UTF8String that was sent in segments and never got a buffer.         *)
(***************************************************************************)
RECURSIVE Refused(_, _, _)
Refused(td, value, form) ==
    CASE td.kind = "SEQUENCE" ->
           \E i \in DOMAIN value :
              value[i] # <<>> /\ Refused(TypeOf(td.elements[i]), value[i][1], form)
      [] td.kind = "SEQUENCE OF" ->
           \E i \in DOMAIN value : Refused(TypeOf(td.elements[1]), value[i], form)
      [] td.kind = "CHOICE" ->
           Refused(TypeOf(td.elements[value[1]]), value[2], form)
      [] td.kind = "BIT STRING" ->
           td.check = <<"bits">> /\ value[1] # 0 /\ Len(value[2]) = 1
      [] OTHER -> /\ td.check \in {<<"visible">>, <<"utf8">>}
                  /\ value = <<>>
                  /\ form \in {"segmented", "indefinite"}

(* The decoder's place in a structure and in all its parts. *)
RECURSIVE WellFormed(_, _)
WellFormed(td, s) ==
    LET list == td.kind = "SEQUENCE OF"
        string == td.kind \in {"OCTET STRING", "BIT STRING"}
        Of(i) == IF list THEN td.elements[1]
                 ELSE IF td.kind = "CHOICE" THEN td.elements[s.present]
                 ELSE td.elements[i]
    IN  /\ s.phase \in {0, 1, 2, 3, 4, 10}
        /\ s.left >= -1
        /\ s.step \in 0 .. 2 * Len(td.elements)
        /\ s.present \in 0 .. Len(td.elements)
        /\ s.ptr # Null => list \/ string
        /\ string /\ s.ptr # Null =>
              /\ s.ptr[1].cur \in 0 .. Len(s.ptr[1].frames)
              /\ \A k \in DOMAIN s.ptr[1].frames : s.ptr[1].frames[k].left >= -1
        /\ list /\ s.ptr # Null => WellFormed(TypeOf(td.elements[1]), s.ptr[1])
        /\ \A i \in DOMAIN s.sub :
              s.sub[i] # Null => WellFormed(TypeOf(Of(i)), s.sub[i][1])

(* The types of the variables: at every point of the decoding, ctx->left   *)
(* of each structure under construction is a number of octets or -1 for an *)
(* indefinite length, and phase, step and ptr are a place in it.           *)
CodecTypeOK ==
    /\ asked \in TypeNames /\ msg.type \in TypeNames /\ msg.form \in Forms
    /\ code \in {"idle", "RC_WMORE", "RC_OK", "RC_FAIL"}
    /\ st # Null => WellFormed(Types[asked], st[1])

(* However an encoding of a value of the MMS grammar is cut in pieces, and *)
(* whichever of the encodings BER allows it is, ber_decode asks for more   *)
(* until the last octet has arrived and then has the value that was sent,  *)
(* with no octet left: the place it keeps in phase, step, left and ptr     *)
(* between two calls (asn_struct_ctx_t) loses nothing.                     *)
ChunkedInverts ==
    asked = msg.type =>
      /\ code \in {"idle", "RC_WMORE", "RC_OK"}
      /\ code = "RC_WMORE" => wire # <<>>
      /\ code = "RC_OK" => /\ wire = <<>> /\ buf = <<>>
                           /\ Content(Types[asked], st[1]) = msg.value

(* Released at any point of the decoding, a structure gives back every     *)
(* block that was allocated for it, also the element of a list and the     *)
(* frames of a string that are still being read (free_struct).             *)
FreeExact ==
    st # Null =>
        free_struct(Types[asked], st[1], FALSE) = Allocated(Types[asked], st[1])

(* A decoded value satisfies its constraints, with the exceptions Refused  *)
(* names (BIT_STRING_constraint, VisibleString_constraint), and encodes,   *)
(* in a buffer that is large enough and in no other, to its DER form,      *)
(* although encoding rewrites the INTEGERs of the structure it is given    *)
(* (der_encode_to_buffer, INTEGER_encode_der).                             *)
Reusable ==
    asked = msg.type =>
      /\ checked # Untested => checked[1] = ~Refused(TypeOf(msg), msg.value, msg.form)
      /\ out # Untested =>
           out[2] = IF out[1] >= 0 THEN <<Reference>> ELSE Null
=============================================================================
