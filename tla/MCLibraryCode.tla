---------------------------- MODULE MCLibraryCode -----------------------------
(***************************************************************************)
(* Containers with a heap of six blocks: room for a map of two entries,    *)
(* or for a list of three elements beside a map of one.  Two keys have the *)
(* same text, so that a map by pointer and a map by text differ on them.   *)
(*                                                                         *)
(* Of the grammar every type with its smallest value and those that differ *)
(* from it in one member, alternative or element, down to MCDepth levels.  *)
(***************************************************************************)
EXTENDS LibraryCode

(* "a" and "B" for the keys, "Ab" and "a_" for the data. *)
MCText(p) ==
    CASE p \in {101, 102} -> <<97>> [] p = 103 -> <<66>>
      [] p = 201 -> <<65, 98>> [] p = 202 -> <<97, 95>>

(* No action reads ret: states that differ in it alone have the same future,
   and the result of every step is still compared with SeqContainers'. *)
Both == <<mem, list, map, arena, buffer, codecVars>>

MCIndexes == {-1, 0, 1, 2}

-----------------------------------------------------------------------------
MCExpected == {"ConfirmedErrorPDU", "VariableSpecification", "DataSequence",
               "AlternateAccess"}
MCChunks == {1, 3, 1000}
MCSpares == {-1, 0, 8}
MCDepth == 1

(* Values of a basic type, the smallest first. *)
Basics(td) ==
    CASE td.kind = "NULL" -> <<<<>>>>
      [] td.kind = "BOOLEAN" -> <<<<0>>, <<1>>>>
      [] td.check = <<"signed", 1>> -> <<<<1>>, <<200>>>>
      [] td.check = <<"unsigned", 1>> -> <<<<1>>, <<0, 200>>>>
      [] td.check[1] = "unsigned" -> <<<<1>>, <<0, 200>>>>
      [] td.kind \in {"INTEGER", "NativeInteger"} ->
           <<<<1>>, <<0, 200>>, <<255, 56>>>>
      [] td.kind = "BIT STRING" ->
           <<<<3, <<170, 8>>>>, <<0, <<>>>>, <<4, <<240>>>>>>
      [] td.check[1] = "size" -> <<<<1, 2, 3, 4, 5, 6, 7, 8>>>>
      [] td.check[1] = "utf8" -> <<<<195, 169>>>>
      [] OTHER -> <<<<65, 66, 67>>, <<>>>>

InRange(m) == <<<<m.within[1]>>, <<m.within[2]>>>>

RECURSIVE Least(_)
LeastOf(m) == IF m.within # <<>> THEN InRange(m)[1] ELSE Least(m.type)
Least(type) ==
    LET td == Types[type]
    IN  CASE td.kind = "SEQUENCE" ->
               [i \in DOMAIN td.elements |->
                  IF td.elements[i].optional > 0 THEN <<>>
                  ELSE <<LeastOf(td.elements[i])>>]
          [] td.kind = "SEQUENCE OF" -> <<>>
          [] td.kind = "CHOICE" -> <<1, LeastOf(td.elements[1])>>
          [] OTHER -> Basics(td)[1]

RECURSIVE Samples(_, _)
SamplesOf(m, depth) ==
    IF m.within # <<>> THEN Range(InRange(m)) ELSE Samples(m.type, depth)
Samples(type, depth) ==
    LET td == Types[type]
        els == td.elements
        plain == {i \in DOMAIN els : els[i].type # "GeneralizedTime"}
    IN  IF td.kind \notin Constructed THEN Range(Basics(td))
        ELSE IF depth = 0 THEN {Least(type)}
        ELSE CASE td.kind = "SEQUENCE" ->
                    {Least(type)} \cup
                    {[i \in DOMAIN els |-> <<LeastOf(els[i])>>]} \cup
                    UNION {{[Least(type) EXCEPT ![i] = <<v>>] :
                              v \in SamplesOf(els[i], depth - 1)} : i \in plain}
               [] td.kind = "SEQUENCE OF" ->
                    {<<>>} \cup
                    {<<v, LeastOf(els[1])>> :
                        v \in SamplesOf(els[1], depth - 1)}
               [] td.kind = "CHOICE" ->
                    UNION {{<<i, v>> : v \in SamplesOf(els[i], depth - 1)} :
                             i \in plain}

(* A string whose length takes more than one octet. *)
Long == [type |-> "Data",
         value |-> <<CHOOSE i \in DOMAIN asn_DEF_Data.elements :
                        asn_DEF_Data.elements[i].type = "OCTET_STRING",
                     [k \in 1 .. 130 |-> k]>>]

MCMessages ==
    {Long} \cup
    UNION {{[type |-> type, value |-> v] : v \in Samples(type, MCDepth)} :
             type \in TypeNames \ {"GeneralizedTime"}}

(* Evaluated once, before the workers start. *)
ASSUME MessagesFinite == Cardinality(MCMessages) > 0

-----------------------------------------------------------------------------
(***************************************************************************)
(* The strings and conversions, over the inputs below.                     *)
(***************************************************************************)
Short == UNION {[1 .. n -> {65, 97}] : n \in 0 .. 2}

(* Appending piece by piece into a buffer gives the start of the whole string,
   and leaves room for the 0: a cut is never filled up by a later piece. *)
ASSUME CutConcatenation ==
    \A a \in Short, b \in Short, c \in Short, size \in 1 .. 7 :
        LET whole == StringUtils_createStringInBuffer(size, <<a, b, c>>)
        IN  /\ IsPrefix(whole, StringUtils_createString(<<a, b, c>>))
            /\ Len(whole) = Min({size - 1, Len(a) + Len(b) + Len(c)})
            /\ StringUtils_concatString(size, a, b)
                   = StringUtils_copyStringMax(size, StringUtils_createString(<<a, b>>))

(* The parts of a name are found where they were put: at either end, and between. *)
ASSUME PartsFound ==
    \A a \in Short, b \in Short :
        LET s == StringUtils_createString(<<a, <<36>>, b>>)
        IN  /\ StringUtils_startsWith(s, a) /\ StringUtils_endsWith(s, b)
            /\ StringUtils_copySubString(s, Len(a), Len(a) + 1) = <<36>>
            /\ StringUtils_createStringFromBuffer(StringUtils_replace(s, 36, 0), Len(s)) = a

(* Decimal and hexadecimal digits are read as the number they were written for. *)
ASSUME DigitsSurvive ==
    /\ \A n \in 0 .. 999 : StringUtils_digitsToInt(Conversions_intToStringBuffer(n, 3), 3) = n
    /\ \A h \in 48 .. 71, l \in {48, 57, 58, 64, 65, 70, 71, 96, 97, 102, 103} :
          LET octets == StringUtils_createBufferFromHexString(<<h, l>>)
              val == convertHexStrToUint16(<<h, l>>)
          IN  IF val = Failed THEN octets = <<>> ELSE octets = <<val>>

(* The weights order all characters, whatever their sign; the strings of a list
   are ordered by it, one in front of its continuations, and none equals another. *)
ASSUME NamesOrdered ==
    /\ \A a \in 0 .. 255, b \in 0 .. 255 : StringUtils_compareChars(a, b) = 0 => a = b
    /\ \A a \in Short, b \in Short, p \in {1, 2}, q \in {1, 2} :
          /\ StringUtils_compareStrings(a, p, b, q) = -StringUtils_compareStrings(b, q, a, p)
          /\ StringUtils_compareStrings(a, p, b, q) = 0 => a = b /\ p = q
          /\ IsStrictPrefix(a, b) => StringUtils_compareStrings(a, p, b, q) < 0

(* front blocks, "::", then back blocks, the digit d in block d. *)
Address(front, back) ==
    LET block(d) == <<48 + d, 58>>
        written == FlattenSeq([d \in 1 .. front |-> block(d)]) \o <<58>>
                   \o FlattenSeq([d \in 1 .. back |-> block(front + d)])
    IN  IF back = 0 THEN written ELSE SubSeq(written, 1, Len(written) - 1)

Expanded(front, back) ==
    [i \in 1 .. 8 |-> IF i =< front THEN i
                      ELSE IF i =< 8 - back THEN 0 ELSE i - (8 - back) + front]

(* An address with "::" is expanded as written if at least as many zeros are
   inserted as blocks follow them; else the shift overwrites what it has still to
   move.  Behind a "::" at the start, every address is refused. *)
ASSUME AddressesExpanded ==
    \A front \in 1 .. 6, back \in 0 .. 6 :
        front + back =< 7 =>
            (StringUtils_convertIPv6AddressStringToByteArray(Address(front, back))
                 = Expanded(front, back)) = (back =< 8 - (front + back))
ASSUME LeadingZerosRefused ==
    \A back \in 1 .. 6 : StringUtils_convertIPv6AddressStringToByteArray(
                             <<58>> \o Address(0, back)) = <<>>

(* Seconds around midnights at the ends of months and years, leap or not. *)
Midnights ==
    {timegm([year |-> y, month |-> m, day |-> 1, hour |-> 0, min |-> 0, sec |-> 0]) :
        y \in {1970, 1971, 1972, 1999, 2000, 2001, 2023, 2024, 2037}, m \in {1, 2, 3, 12}}
Instants == {s + d : s \in Midnights, d \in {-1, 0, 1, 43200}} \cap Nat

(* A time is read back as the time that was written; an offset moves it by as
   much as it says. *)
ASSUME GeneralizedTimesSurvive ==
    \A secs \in Instants, ms \in {0, 1, 120, 999} :
        LET t == [secs |-> secs, ms |-> ms]
            s == Conversions_msTimeToGeneralizedTime(t)
            local == SubSeq(s, 1, Len(s) - 1)
        IN  /\ Conversions_generalizedTimeToMsTime(s) = t
            /\ Conversions_generalizedTimeToMsTime(local \o <<43, 48, 49, 51, 48>>)
                   = [t EXCEPT !.secs = secs - 5400]
            /\ Conversions_generalizedTimeToMsTime(local \o <<45, 48, 49, 51, 48>>)
                   = [t EXCEPT !.secs = secs + 5400]
=============================================================================
