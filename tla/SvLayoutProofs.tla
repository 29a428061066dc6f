---------------------------- MODULE SvLayoutProofs ----------------------------
(***************************************************************************)
(* Proof that the payload of a sampled values publisher is the encoding of *)
(* what its application has set (LayoutExact), for every buffer size,      *)
(* number of ASDUs and set of names, values, counters and times.           *)
(*                                                                         *)
(* The argument: the size of every part of the encoding is the size        *)
(* SVPublisher_setupComplete computes for it, so that the fields and the   *)
(* ASDUs lie where the sums of these sizes say, apart from each other, and *)
(* the counters change the encoding in their own places only.  The         *)
(* invariant LayoutInv says that the pointers name these places, also      *)
(* after calls that change the layout but before it is complete again      *)
(* (TimePlaced), and that the buffer holds every field.  A call writes     *)
(* into one field of one ASDU and leaves the others alone.                 *)
(***************************************************************************)
EXTENDS SvLayout, ArithmeticLemmas, SequenceTheorems, TLAPS

\* A place in the buffer, or none.
Pos == Nat \cup {NoPos}

Asdu ==
    [svID : Seq(Octet), datset : Seq(Octet), dataSize : Nat, confRev : {ConfRev},
     hasRefrTm : BOOLEAN, hasSmpRate : BOOLEAN, hasSmpMod : BOOLEAN,
     smpSynch : Nat, smpCnt : Nat, smpCntLimit : Nat \ {0}, smpMod : Nat, smpRate : Nat,
     smpCntBuf : Pos, refrTm : Pos, smpSynchBuf : Pos, dataBuffer : Pos]

Publisher == [asduList : Seq(Asdu), buffer : Seq(Int), payloadLength : Nat]

Values == {Unknown} \cup UNION {ElementValues[kind] : kind \in DOMAIN ElementValues}

Element ==
    {e \in [kind : DOMAIN ElementValues, value : Values, index : Nat] :
        e.value = Unknown \/ e.value \in ElementValues[e.kind]}

Known == [elements : Seq(Element), refrTm : {Unknown} \cup RefrTimes]

Application == [asdus : Seq(Known), laid : Seq(Asdu), ready : BOOLEAN]

TypeInv ==
    /\ svPub \in Publisher /\ svApp \in Application
    /\ Len(svPub.buffer) = BufferSize /\ Len(svApp.asdus) = Len(svPub.asduList)

-----------------------------------------------------------------------------
\* s is a piece of n octets, or holes, of a message.
Piece(s, n) == s \in Seq(Int) /\ Len(s) = n

\* Two pieces one behind the other.
Joins(u, s, t) == u = s \o t

\* Two pieces written one behind the other are a piece, and its octets are
\* theirs.
LEMMA JoinedOctets ==
  ASSUME NEW m \in Nat, NEW n \in Nat, NEW s, NEW t, NEW u,
         Piece(s, m), Piece(t, n), Joins(u, s, t)
  PROVE  /\ Piece(u, m + n)
         /\ \A i \in 1 .. m : u[i] = s[i]
         /\ \A i \in 1 .. n : u[m + i] = t[i]
  <1>1. /\ s \o t \in Seq(Int) /\ Len(s \o t) = Len(s) + Len(t)
        /\ \A i \in 1 .. Len(s) + Len(t) : (s \o t)[i] = IF i <= Len(s) THEN s[i] ELSE t[i - Len(s)]
    BY ConcatProperties DEF Piece
  <1>2. ASSUME NEW i \in 1 .. m PROVE u[i] = s[i]
    <2>1. i \in 1 .. m + n /\ i <= m
      OBVIOUS
    <2> QED
      BY <1>1, <2>1 DEF Piece, Joins
  <1>3. ASSUME NEW i \in 1 .. n PROVE u[m + i] = t[i]
    <2>1. m + i \in 1 .. m + n /\ ~(m + i <= m) /\ (m + i) - m = i
      OBVIOUS
    <2> QED
      BY <1>1, <2>1 DEF Piece, Joins
  <1> QED
    BY <1>1, <1>2, <1>3 DEF Piece, Joins

\* The same for the sizes only.
LEMMA Joined ==
  ASSUME NEW m \in Nat, NEW n \in Nat, NEW s, NEW t, Piece(s, m), Piece(t, n)
  PROVE  Piece(s \o t, m + n)
  <1>1. PICK u : Joins(u, s, t)
    BY DEF Joins
  <1> QED
    BY <1>1, JoinedOctets DEF Joins

\* The octets a machine number is split into are numbers.
LEMMA QuotientsAreNumbers ==
  ASSUME NEW n \in Nat
  PROVE  /\ n \div 256 \in Nat /\ n % 256 \in Nat /\ (n \div 256) % 256 \in Nat
         /\ n \div 65536 \in Nat /\ (n \div 65536) % 256 \in Nat
         /\ n \div 16777216 \in Nat /\ n \div 1000 \in Nat /\ n % 1000 \in Nat
  OBVIOUS

\* encodeUInt16FixedSize writes two octets.
LEMMA WordIsPiece ==
  ASSUME NEW n \in Nat
  PROVE  Piece(encodeUInt16FixedSize(n), 2)
  <1>1. PICK a \in Int, b \in Int : a = n \div 256 /\ b = n % 256
    BY QuotientsAreNumbers
  <1>2. Piece(<<a, b>>, 2)
    BY DEF Piece
  <1> QED
    BY <1>1, <1>2, Zenon DEF encodeUInt16FixedSize

\* ... the high one and the low one.
LEMMA WordOctets ==
  ASSUME NEW n \in Nat, NEW w, w = encodeUInt16FixedSize(n)
  PROVE  w[1] = n \div 256 /\ w[2] = n % 256
  <1>1. PICK a \in Int, b \in Int : a = n \div 256 /\ b = n % 256
    BY QuotientsAreNumbers
  <1>2. w = <<a, b>>
    BY <1>1, Zenon DEF encodeUInt16FixedSize
  <1>3. w[1] = a /\ w[2] = b
    BY ONLY <1>2
  <1> QED
    BY <1>1, <1>3, Zenon

\* A 32 bit number is four octets in memory.
LEMMA SecondsArePiece ==
  ASSUME NEW n \in Nat
  PROVE  Piece(Seconds(n), 4)
  <1>1. PICK a \in Int, b \in Int : a = n \div 16777216 /\ b = (n \div 65536) % 256
    BY QuotientsAreNumbers
  <1>2. PICK c \in Int, d \in Int : c = (n \div 256) % 256 /\ d = n % 256
    BY QuotientsAreNumbers
  <1>3. Piece(<<a, b, c, d>>, 4)
    BY DEF Piece
  <1> QED
    BY <1>1, <1>2, <1>3, SMT DEF Seconds

\* What is left out of an encoding is a piece of holes.
LEMMA HolesArePiece ==
  ASSUME NEW n \in Nat
  PROVE  Piece(Holes(n), n) /\ \A i \in 1 .. n : Holes(n)[i] = Hole
  <1>1. Holes(n) \in [1 .. n -> Int]
    BY DEF Holes, Hole
  <1>2. \A q \in [1 .. n -> Int] : q \in Seq(Int) /\ Len(q) = n
    OBVIOUS
  <1> QED
    BY <1>1, <1>2 DEF Piece, Holes

\* BerEncoder_determineLengthSize is between 1 and 4.
LEMMA LengthSize ==
  ASSUME NEW n \in Nat
  PROVE  BerEncoder_determineLengthSize(n) \in 1 .. 4
  BY DEF BerEncoder_determineLengthSize

\* BerEncoder_encodeLength writes as many octets as
\* BerEncoder_determineLengthSize computes below 65535, where it is mistaken.
LEMMA LengthIsPiece ==
  ASSUME NEW n \in Nat, n < 65535
  PROVE  Piece(BerEncoder_encodeLength(n), BerEncoder_determineLengthSize(n))
  <1>1. PICK a \in Int, b \in Int : a = n \div 256 /\ b = n % 256
    BY QuotientsAreNumbers
  <1>2. Piece(<<n>>, 1) /\ Piece(<<129, n>>, 2) /\ Piece(<<130, a, b>>, 3)
    BY DEF Piece
  <1>3. CASE n < 128
    <2>1. BerEncoder_encodeLength(n) = <<n>> /\ BerEncoder_determineLengthSize(n) = 1
      BY <1>3 DEF BerEncoder_encodeLength, BerEncoder_determineLengthSize
    <2> QED
      BY <1>2, <2>1
  <1>4. CASE n >= 128 /\ n < 256
    <2>1. BerEncoder_encodeLength(n) = <<129, n>> /\ BerEncoder_determineLengthSize(n) = 2
      BY <1>4 DEF BerEncoder_encodeLength, BerEncoder_determineLengthSize
    <2> QED
      BY <1>2, <2>1
  <1>5. CASE n >= 256
    <2>1. ~(n < 128) /\ ~(n < 256) /\ n < 65535 /\ n < 65536
      BY <1>5
    <2>2. BerEncoder_encodeLength(n) = <<130, n \div 256, n % 256>>
      BY <2>1, SMT DEF BerEncoder_encodeLength
    <2>3. BerEncoder_determineLengthSize(n) = 3
      BY <2>1, SMT DEF BerEncoder_determineLengthSize
    <2> QED
      BY <1>1, <1>2, <2>2, <2>3, SMT
  <1> QED
    BY <1>3, <1>4, <1>5

\* ... and so does BerEncoder_encodeTL, with an octet for the tag.
LEMMA TagAndLength ==
  ASSUME NEW tag \in Nat, NEW n \in Nat, n < 65535
  PROVE  Piece(BerEncoder_encodeTL(tag, n), 1 + BerEncoder_determineLengthSize(n))
  <1>1. Piece(<<tag>>, 1)
    BY DEF Piece
  <1> QED
    BY <1>1, LengthSize, LengthIsPiece, Joined DEF BerEncoder_encodeTL

\* A tag and a length below 128 are two octets.
LEMMA ShortTagAndLength ==
  ASSUME NEW tag \in Nat, NEW n \in Nat, n < 128
  PROVE  Piece(BerEncoder_encodeTL(tag, n), 2)
  <1>1. BerEncoder_determineLengthSize(n) = 1
    BY DEF BerEncoder_determineLengthSize
  <1> QED
    BY <1>1, TagAndLength

\* A string of octets is a sequence of numbers.
LEMMA OctetsAreNumbers ==
  ASSUME NEW s \in Seq(Octet)
  PROVE  s \in Seq(Int) /\ Len(s) \in Nat
  <1>1. \A o \in Octet : o \in Int
    BY DEF Octet
  <1>2. Octet \subseteq Int
    BY <1>1
  <1> QED
    BY <1>2, SeqMonotonic, LenProperties

\* What of a string is in the message, up to its first zero, is a piece.
LEMMA CStringIsPiece ==
  ASSUME NEW s \in Seq(Octet)
  PROVE  Len(CString(s)) \in Nat /\ Piece(CString(s), Len(CString(s)))
  <1>1. s \in Seq(Int) /\ Len(s) \in Nat
    BY OctetsAreNumbers
  <1> DEFINE ends == {i \in 1 .. Len(s) : s[i] = 0}
  <1>2. CASE ends = {}
    BY <1>1, <1>2 DEF CString, Piece
  <1>3. CASE ends # {}
    <2>1. ends \subseteq Nat
      OBVIOUS
    <2>2. \E m \in ends : \A k \in ends : m =< k
      BY <1>3, <2>1, LeastNatural
    <2>3. Min(ends) \in ends
      BY <2>2 DEF Min
    <2>4. PICK m \in 1 .. Len(s) : m = Min(ends)
      BY <2>3
    <2>5. CString(s) = SubSeq(s, 1, m - 1)
      BY <1>3, <2>4 DEF CString
    <2>6. \A i \in 1 .. m - 1 : s[i] \in Int
      BY <1>1, ElementOfSeq
    <2>7. SubSeq(s, 1, m - 1) \in Seq(Int)
      BY <2>6, SubSeqProperties
    <2> QED
      BY <2>5, <2>7, LenProperties DEF Piece
  <1> QED
    BY <1>2, <1>3

\* BerEncoder_determineEncodedStringSize is a number that exceeds the length of
\* the string.
LEMMA StringSize ==
  ASSUME NEW s \in Seq(Octet)
  PROVE  /\ BerEncoder_determineEncodedStringSize(s) \in Nat
         /\ Len(CString(s)) < BerEncoder_determineEncodedStringSize(s)
  BY CStringIsPiece, LengthSize DEF BerEncoder_determineEncodedStringSize

\* BerEncoder_encodeStringWithTag writes as many octets as
\* BerEncoder_determineEncodedStringSize computes.
LEMMA StringIsPiece ==
  ASSUME NEW tag \in Nat, NEW s \in Seq(Octet),
         BerEncoder_determineEncodedStringSize(s) < 65535
  PROVE  Piece(BerEncoder_encodeStringWithTag(tag, s), BerEncoder_determineEncodedStringSize(s))
  <1>1. PICK n \in Nat : n < 65535 /\ n = Len(CString(s))
    BY CStringIsPiece, StringSize
  <1>2. Piece(CString(s), n)
    BY <1>1, CStringIsPiece
  <1>3. Piece(BerEncoder_encodeTL(tag, n), 1 + BerEncoder_determineLengthSize(n))
    BY <1>1, TagAndLength
  <1>4. PICK k \in Nat : k = 1 + BerEncoder_determineLengthSize(n)
    BY LengthSize
  <1>5. Piece(BerEncoder_encodeTL(tag, n) \o CString(s), k + n)
    BY <1>2, <1>3, <1>4, Joined
  <1> QED
    BY <1>1, <1>4, <1>5 DEF BerEncoder_encodeStringWithTag, BerEncoder_determineEncodedStringSize

\* BerEncoder_compressInteger leaves at least one octet of an integer, and no
\* more than it had.
LEMMA ShortestForm ==
  ASSUME NEW s \in Seq(Int), s # <<>>
  PROVE  LET c == BerEncoder_compressInteger(s)
         IN  c \in Seq(Int) /\ Len(c) \in 1 .. Len(s)
  <1>1. Len(s) \in Nat \ {0}
    BY EmptySeq
  <1> DEFINE T == {j \in 0 .. Len(s) - 1 : ~Redundant(SubSeq(s, j + 1, Len(s)))}
  <1>2. Len(s) - 1 \in T
    <2>1. (Len(s) - 1) + 1 = Len(s) /\ Len(s) - 1 \in 0 .. Len(s) - 1
      BY <1>1
    <2>2. \A i \in Len(s) .. Len(s) : s[i] \in Int
      BY <1>1, ElementOfSeq
    <2>3. Len(SubSeq(s, Len(s), Len(s))) = 1
      BY <1>1, <2>2, SubSeqProperties
    <2> QED
      BY <2>1, <2>3 DEF Redundant
  <1>3. \E m \in T : \A k \in T : m =< k
    <2>1. \A j \in T : j \in Nat
      BY <1>1
    <2> HIDE DEF T
    <2>2. T \subseteq Nat /\ T # {}
      BY <1>2, <2>1
    <2> QED
      BY <2>2, LeastNatural
  <1>4. Min(T) \in T
    BY <1>3 DEF Min
  <1>5. PICK m \in 0 .. Len(s) - 1 : m = Min(T)
    BY <1>4
  <1>6. BerEncoder_compressInteger(s) = SubSeq(s, m + 1, Len(s))
    BY <1>5 DEF BerEncoder_compressInteger
  <1>7. \A i \in m + 1 .. Len(s) : s[i] \in Int
    BY <1>1, ElementOfSeq
  <1>8. /\ SubSeq(s, m + 1, Len(s)) \in Seq(Int)
        /\ Len(SubSeq(s, m + 1, Len(s))) = Len(s) - m
    BY <1>1, <1>7, SubSeqProperties
  <1> QED
    BY <1>1, <1>6, <1>8

\* BerEncoder_encodeUInt32WithTL writes as many octets as
\* BerEncoder_UInt32determineEncodedSize computes, and a tag and a length.
LEMMA NumberIsPiece ==
  ASSUME NEW tag \in Nat, NEW n \in Nat
  PROVE  /\ BerEncoder_UInt32determineEncodedSize(Seconds(n)) \in 1 .. 5
         /\ Piece(BerEncoder_encodeUInt32WithTL(tag, Seconds(n)),
                  2 + BerEncoder_UInt32determineEncodedSize(Seconds(n)))
  <1>1. Piece(<<0>>, 1)
    BY DEF Piece
  <1>2. Piece(<<0>> \o Seconds(n), 5)
    BY <1>1, SecondsArePiece, Joined
  <1>3. PICK s \in Seq(Int) : s = <<0>> \o Seconds(n) /\ Len(s) = 5
    BY <1>2 DEF Piece
  <1>4. PICK c \in Seq(Int) : c = BerEncoder_compressInteger(s) /\ Len(c) \in 1 .. 5
    <2>1. s # <<>>
      BY <1>3, EmptySeq
    <2> QED
      BY <1>3, <2>1, ShortestForm
  <1>5. PICK k \in 1 .. 5 : k = Len(c)
    BY <1>4
  <1>6. Piece(<<tag, k>>, 2) /\ Piece(c, k)
    BY <1>5 DEF Piece
  <1>7. Piece(<<tag, k>> \o c, 2 + k)
    BY <1>6, Joined
  <1>8. BerEncoder_UInt32determineEncodedSize(Seconds(n)) = k
    BY <1>3, <1>4, <1>5 DEF BerEncoder_UInt32determineEncodedSize
  <1>9. BerEncoder_encodeUInt32WithTL(tag, Seconds(n)) = <<tag, k>> \o c
    BY <1>3, <1>4, <1>5 DEF BerEncoder_encodeUInt32WithTL
  <1> QED
    BY <1>7, <1>8, <1>9

-----------------------------------------------------------------------------
\* Where the fields of an ASDU begin in its encoding.
DatSetSize(a) ==
    IF a.datset # <<>> THEN BerEncoder_determineEncodedStringSize(a.datset) ELSE 0

SmpCntAt(a) ==
    1 + BerEncoder_determineLengthSize(SVPublisher_ASDU_getEncodedSize(a))
    + BerEncoder_determineEncodedStringSize(a.svID) + DatSetSize(a) + 2

RefrTmAt(a) == SmpCntAt(a) + 8 + (IF a.hasRefrTm THEN 2 ELSE 0)

SmpSynchAt(a) == RefrTmAt(a) + (IF a.hasRefrTm THEN 8 ELSE 0) + 2

DataAt(a) ==
    SmpSynchAt(a) + 1 + (IF a.hasSmpRate THEN 4 ELSE 0)
    + 1 + BerEncoder_determineLengthSize(a.dataSize)

\* The types of the fields of an ASDU.
LEMMA AsduTyped ==
  ASSUME NEW a \in Asdu
  PROVE  /\ a.svID \in Seq(Octet) /\ a.datset \in Seq(Octet) /\ a.dataSize \in Nat
         /\ a.hasRefrTm \in BOOLEAN /\ a.hasSmpRate \in BOOLEAN /\ a.hasSmpMod \in BOOLEAN
         /\ a.smpSynch \in Nat /\ a.smpCnt \in Nat /\ a.smpMod \in Nat /\ a.smpRate \in Nat
         /\ a.confRev = ConfRev
  BY DEF Asdu

\* SVPublisher_ASDU_getEncodedSize exceeds the size of the strings and of the
\* data of the ASDU.
LEMMA SizeOfParts ==
  ASSUME NEW a \in Asdu
  PROVE  LET size == SVPublisher_ASDU_getEncodedSize(a)
         IN  /\ size \in Nat /\ DatSetSize(a) \in Nat
             /\ BerEncoder_determineEncodedStringSize(a.svID) < size
             /\ DatSetSize(a) < size /\ a.dataSize < size
             /\ size = BerEncoder_determineEncodedStringSize(a.svID) + DatSetSize(a) + 10
                       + (IF a.hasRefrTm THEN 10 ELSE 0) + 3 + (IF a.hasSmpRate THEN 4 ELSE 0)
                       + 1 + BerEncoder_determineLengthSize(a.dataSize) + a.dataSize
                       + (IF a.hasSmpMod THEN 4 ELSE 0)
  <1>1. PICK v \in Nat : v = BerEncoder_determineEncodedStringSize(a.svID)
    BY AsduTyped, StringSize
  <1>2. PICK d \in Nat : d = DatSetSize(a)
    BY AsduTyped, StringSize DEF DatSetSize
  <1>3. PICK l \in 1 .. 4 : l = BerEncoder_determineLengthSize(a.dataSize)
    BY AsduTyped, LengthSize
  <1>4. PICK n \in Nat : n = a.dataSize
    BY AsduTyped
  <1>5. SVPublisher_ASDU_getEncodedSize(a)
           = v + d + 4 + 6 + (IF a.hasRefrTm THEN 10 ELSE 0) + 3
             + (IF a.hasSmpRate THEN 4 ELSE 0) + 1 + l + n + (IF a.hasSmpMod THEN 4 ELSE 0)
    BY <1>1, <1>2, <1>3, <1>4 DEF SVPublisher_ASDU_getEncodedSize, DatSetSize
  <1> QED
    BY <1>1, <1>2, <1>3, <1>4, <1>5

\* The fields of an ASDU begin behind each other, and
\* SVPublisher_ASDU_encodeToBuffer ends where its size says it does.
LEMMA Places ==
  ASSUME NEW a \in Asdu
  PROVE  /\ SmpCntAt(a) \in Nat /\ RefrTmAt(a) \in Nat /\ SmpSynchAt(a) \in Nat
         /\ DataAt(a) \in Nat
         /\ SmpCntAt(a) + 8 =< RefrTmAt(a)
         /\ a.hasRefrTm => RefrTmAt(a) + 10 = SmpSynchAt(a)
         /\ RefrTmAt(a) + 2 =< SmpSynchAt(a)
         /\ SmpSynchAt(a) + 3 =< DataAt(a)
         /\ AsduLength(a) = DataAt(a) + a.dataSize + (IF a.hasSmpMod THEN 4 ELSE 0)
         /\ AsduLength(a) \in Nat
  <1>1. PICK v \in Nat, d \in Nat, n \in Nat, size \in Nat :
           /\ v = BerEncoder_determineEncodedStringSize(a.svID) /\ d = DatSetSize(a)
           /\ n = a.dataSize /\ size = SVPublisher_ASDU_getEncodedSize(a)
    BY AsduTyped, StringSize, SizeOfParts
  <1>2. PICK l \in 1 .. 4 : l = BerEncoder_determineLengthSize(n)
    BY LengthSize
  <1>3. PICK h \in 1 .. 4 : h = BerEncoder_determineLengthSize(size)
    BY LengthSize
  <1>4. size = v + d + 10 + (IF a.hasRefrTm THEN 10 ELSE 0) + 3
               + (IF a.hasSmpRate THEN 4 ELSE 0) + 1 + l + n + (IF a.hasSmpMod THEN 4 ELSE 0)
    BY <1>1, <1>2, SizeOfParts
  <1>5. SmpCntAt(a) = 1 + h + v + d + 2
    BY <1>1, <1>3 DEF SmpCntAt
  <1>6. AsduLength(a) = size + h + 1
    BY <1>1, <1>3 DEF AsduLength
  <1>7. PICK at \in Nat : at = SmpCntAt(a)
    BY <1>5
  <1>8. PICK r \in Nat : r = RefrTmAt(a) /\ r = at + 8 + (IF a.hasRefrTm THEN 2 ELSE 0)
    BY <1>7 DEF RefrTmAt
  <1>9. PICK s \in Nat : s = SmpSynchAt(a) /\ s = r + (IF a.hasRefrTm THEN 8 ELSE 0) + 2
    BY <1>8 DEF SmpSynchAt
  <1>10. PICK t \in Nat : t = DataAt(a)
                          /\ t = s + 1 + (IF a.hasSmpRate THEN 4 ELSE 0) + 1 + l
    BY <1>1, <1>2, <1>9 DEF DataAt
  <1> QED
    BY <1>1, <1>4, <1>5, <1>6, <1>7, <1>8, <1>9, <1>10

-----------------------------------------------------------------------------
\* The encoding of an ASDU, field by field.
\* Below 65535, where the size of a length is mistaken.
Fits(a) == SVPublisher_ASDU_getEncodedSize(a) < 65535

\* The encoding of an ASDU up to smpCnt has the size computed for it.
LEMMA UpToSmpCntIsPiece ==
  ASSUME NEW a \in Asdu, Fits(a)
  PROVE  Piece(UpToSmpCnt(a), SmpCntAt(a))
  <1>1. PICK v \in Nat, d \in Nat, size \in Nat :
           /\ v = BerEncoder_determineEncodedStringSize(a.svID) /\ d = DatSetSize(a)
           /\ size = SVPublisher_ASDU_getEncodedSize(a) /\ size < 65535 /\ v < size /\ d < size
    BY AsduTyped, StringSize, SizeOfParts DEF Fits
  <1>2. PICK h \in 1 .. 4 : h = BerEncoder_determineLengthSize(size)
    BY LengthSize
  <1>3. PICK s1 : s1 = BerEncoder_encodeTL(48, SVPublisher_ASDU_getEncodedSize(a))
    OBVIOUS
  <1>4. Piece(s1, 1 + h)
    BY <1>1, <1>2, <1>3, TagAndLength
  <1>5. PICK s2 : s2 = BerEncoder_encodeStringWithTag(128, a.svID)
    OBVIOUS
  <1>6. Piece(s2, v)
    BY <1>1, <1>5, AsduTyped, StringIsPiece
  <1>7. PICK s3 : s3 = IF a.datset # <<>> THEN BerEncoder_encodeStringWithTag(129, a.datset)
                       ELSE <<>>
    OBVIOUS
  <1>8. Piece(s3, d)
    <2>1. CASE a.datset # <<>>
      BY <1>1, <1>7, <2>1, AsduTyped, StringIsPiece DEF DatSetSize
    <2>2. CASE a.datset = <<>>
      BY <1>1, <1>7, <2>2 DEF DatSetSize, Piece
    <2> QED
      BY <2>1, <2>2
  <1>9. PICK s4 : s4 = BerEncoder_encodeTL(130, 2)
    OBVIOUS
  <1>10. Piece(s4, 2)
    BY <1>9, ShortTagAndLength
  <1>11. Piece(s1 \o s2, 1 + h + v)
    BY <1>4, <1>6, Joined
  <1>12. Piece((s1 \o s2) \o s3, 1 + h + v + d)
    BY <1>8, <1>11, Joined
  <1>13. Piece(((s1 \o s2) \o s3) \o s4, 1 + h + v + d + 2)
    BY <1>10, <1>12, Joined
  <1>14. UpToSmpCnt(a) = ((s1 \o s2) \o s3) \o s4
    BY <1>3, <1>5, <1>7, <1>9 DEF UpToSmpCnt
  <1>15. SmpCntAt(a) = 1 + h + v + d + 2
    BY <1>1, <1>2 DEF SmpCntAt
  <1> QED
    BY <1>13, <1>14, <1>15

-----------------------------------------------------------------------------
\* Two messages agree on the first n octets, but for those at the places X.
Agree(s, t, n, X) == \A i \in 1 .. n : i \notin X => s[i] = t[i]

\* What is appended to both of two messages that agree, or differs in the places
\* X only, does not change that they agree, and keeps what comes before.
LEMMA AgreeJoined ==
  ASSUME NEW m \in Nat, NEW n \in Nat, NEW s, NEW s2, NEW t, NEW t2, NEW u, NEW u2, NEW X,
         Piece(s, m), Piece(s2, m), Piece(t, n), Piece(t2, n), Agree(s, s2, m, X),
         Joins(u, s, t), Joins(u2, s2, t2), \A i \in 1 .. n : m + i \notin X => t[i] = t2[i]
  PROVE  /\ Piece(u, m + n) /\ Piece(u2, m + n)
         /\ Agree(u, u2, m + n, X)
         /\ \A i \in 1 .. m : u[i] = s[i]
         /\ \A i \in 1 .. n : u[m + i] = t[i]
  <1>1. /\ Piece(u, m + n)
        /\ \A i \in 1 .. m : u[i] = s[i]
        /\ \A i \in 1 .. n : u[m + i] = t[i]
    BY JoinedOctets
  <1>2. /\ Piece(u2, m + n)
        /\ \A i \in 1 .. m : u2[i] = s2[i]
        /\ \A i \in 1 .. n : u2[m + i] = t2[i]
    BY JoinedOctets
  <1>3. ASSUME NEW i \in 1 .. m + n, i \notin X PROVE u[i] = u2[i]
    <2>1. CASE i =< m
      <3>1. i \in 1 .. m
        BY <2>1
      <3> QED
        BY <1>1, <1>2, <1>3, <3>1 DEF Agree
    <2>2. CASE i > m
      <3>1. i - m \in 1 .. n /\ i = m + (i - m)
        BY <2>2
      <3>2. PICK k \in 1 .. n : i = m + k
        BY <3>1
      <3> QED
        BY <1>1, <1>2, <1>3, <3>2
    <2>3. i =< m \/ i > m
      OBVIOUS
    <2> QED
      BY <2>1, <2>2, <2>3, Zenon
  <1> QED
    BY <1>1, <1>2, <1>3 DEF Agree

-----------------------------------------------------------------------------
\* The octets of an ASDU, counted from 1, that hold its counters.
Counters(a) == {SmpCntAt(a) + 1, SmpCntAt(a) + 2, SmpSynchAt(a) + 1}

\* ASDUs that differ in their counters, and pointers, only.
SameLayout(a, c) ==
    /\ c.svID = a.svID /\ c.datset = a.datset /\ c.dataSize = a.dataSize
    /\ c.confRev = a.confRev /\ c.hasRefrTm = a.hasRefrTm
    /\ c.hasSmpRate = a.hasSmpRate /\ c.smpRate = a.smpRate
    /\ c.hasSmpMod = a.hasSmpMod /\ c.smpMod = a.smpMod

\* The size of an ASDU does not depend on its counters and pointers.
LEMMA SameLayoutSameSize ==
  ASSUME NEW a, NEW c, SameLayout(a, c)
  PROVE  /\ SVPublisher_ASDU_getEncodedSize(c) = SVPublisher_ASDU_getEncodedSize(a)
         /\ AsduLength(c) = AsduLength(a)
         /\ DatSetSize(c) = DatSetSize(a)
  <1>1. SVPublisher_ASDU_getEncodedSize(c) = SVPublisher_ASDU_getEncodedSize(a)
    BY Zenon DEF SVPublisher_ASDU_getEncodedSize, SameLayout
  <1>2. AsduLength(c) = AsduLength(a)
    BY <1>1, Zenon DEF AsduLength
  <1>3. DatSetSize(c) = DatSetSize(a)
    BY Zenon DEF DatSetSize, SameLayout
  <1> QED
    BY <1>1, <1>2, <1>3

\* ... nor does the place of a field, or what comes before smpCnt.
LEMMA SameLayoutSamePlaces ==
  ASSUME NEW a, NEW c, SameLayout(a, c)
  PROVE  /\ SmpCntAt(c) = SmpCntAt(a) /\ RefrTmAt(c) = RefrTmAt(a)
         /\ SmpSynchAt(c) = SmpSynchAt(a) /\ DataAt(c) = DataAt(a)
         /\ UpToSmpCnt(c) = UpToSmpCnt(a)
  <1>1. SmpCntAt(c) = SmpCntAt(a)
    BY SameLayoutSameSize, Zenon DEF SmpCntAt, SameLayout
  <1>2. RefrTmAt(c) = RefrTmAt(a)
    BY <1>1, Zenon DEF RefrTmAt, SameLayout
  <1>3. SmpSynchAt(c) = SmpSynchAt(a)
    BY <1>2, Zenon DEF SmpSynchAt, SameLayout
  <1>4. DataAt(c) = DataAt(a)
    BY <1>3, Zenon DEF DataAt, SameLayout
  <1>5. UpToSmpCnt(c) = UpToSmpCnt(a)
    BY SameLayoutSameSize, Zenon DEF UpToSmpCnt, SameLayout
  <1> QED
    BY <1>1, <1>2, <1>3, <1>4, <1>5

\* confRev is four octets.
LEMMA RevisionIsPiece ==
  Piece(encodeInt32FixedSize(ConfRev), 4)
  <1>1. PICK s : s = <<0, 0, 0, 1>>
    OBVIOUS
  <1>2. Piece(s, 4)
    BY <1>1 DEF Piece
  <1>3. Reverse(ConfRev) = s
    BY <1>1 DEF Reverse, ConfRev
  <1> QED
    BY <1>2, <1>3 DEF encodeInt32FixedSize

-----------------------------------------------------------------------------
\* What an encoding holds of the counters of an ASDU, and where it is open.
CountHeld(s, a) ==
    s[SmpCntAt(a) + 1] = a.smpCnt \div 256 /\ s[SmpCntAt(a) + 2] = a.smpCnt % 256

SynchHeld(s, a) == s[SmpSynchAt(a) + 1] = a.smpSynch

TimeOpen(s, a) == a.hasRefrTm => \A i \in 1 .. 8 : s[RefrTmAt(a) + i] = Hole

DataOpen(s, a) == \A i \in 1 .. a.dataSize : s[DataAt(a) + i] = Hole

\* A message that begins like another one holds what that one holds of an ASDU.
LEMMA HeldByPrefix ==
  ASSUME NEW a \in Asdu, NEW n \in Nat, NEW s, NEW u, \A i \in 1 .. n : u[i] = s[i]
  PROVE  /\ CountHeld(s, a) /\ SmpCntAt(a) + 2 =< n => CountHeld(u, a)
         /\ SynchHeld(s, a) /\ SmpSynchAt(a) + 1 =< n => SynchHeld(u, a)
         /\ TimeOpen(s, a) /\ (a.hasRefrTm => RefrTmAt(a) + 8 =< n) => TimeOpen(u, a)
         /\ DataOpen(s, a) /\ DataAt(a) + a.dataSize =< n => DataOpen(u, a)
  <1>1. PICK p \in Nat, q \in Nat : p = SmpCntAt(a) /\ q = SmpSynchAt(a)
    BY Places
  <1>2. PICK r \in Nat, t \in Nat : r = RefrTmAt(a) /\ t = DataAt(a)
    BY Places
  <1>3. PICK d \in Nat : d = a.dataSize
    BY AsduTyped
  <1>4. ASSUME CountHeld(s, a), p + 2 =< n PROVE CountHeld(u, a)
    <2>1. p + 1 \in 1 .. n /\ p + 2 \in 1 .. n
      BY <1>4
    <2>2. u[p + 1] = s[p + 1] /\ u[p + 2] = s[p + 2]
      BY <2>1
    <2> QED
      BY <1>1, <1>4, <2>2, Zenon DEF CountHeld
  <1>5. ASSUME SynchHeld(s, a), q + 1 =< n PROVE SynchHeld(u, a)
    <2>1. q + 1 \in 1 .. n
      BY <1>5
    <2>2. u[q + 1] = s[q + 1]
      BY <2>1
    <2> QED
      BY <1>1, <1>5, <2>2, Zenon DEF SynchHeld
  <1>6. ASSUME TimeOpen(s, a), a.hasRefrTm, r + 8 =< n, NEW i \in 1 .. 8
        PROVE  u[r + i] = Hole
    <2>1. r + i \in 1 .. n
      BY <1>6
    <2>2. u[r + i] = s[r + i]
      BY <2>1
    <2>3. s[r + i] = Hole
      BY <1>2, <1>6, Zenon DEF TimeOpen
    <2> QED
      BY <2>2, <2>3, Zenon
  <1>7. ASSUME DataOpen(s, a), t + d =< n, NEW i \in 1 .. d
        PROVE  u[t + i] = Hole
    <2>1. t + i \in 1 .. n
      BY <1>7
    <2>2. u[t + i] = s[t + i]
      BY <2>1
    <2>3. s[t + i] = Hole
      BY <1>2, <1>3, <1>7, Zenon DEF DataOpen
    <2> QED
      BY <2>2, <2>3, Zenon
  <1>8. TimeOpen(s, a) /\ (a.hasRefrTm => RefrTmAt(a) + 8 =< n) => TimeOpen(u, a)
    BY <1>2, <1>6 DEF TimeOpen
  <1>9. DataOpen(s, a) /\ DataAt(a) + a.dataSize =< n => DataOpen(u, a)
    BY <1>2, <1>3, <1>7, Zenon DEF DataOpen
  <1> QED
    BY <1>1, <1>4, <1>5, <1>8, <1>9, Zenon

\* The encoding of an ASDU up to its refresh time has the size computed for it,
\* holds smpCnt, and depends on the counters in their places only.
LEMMA UpToRefrTmIsPiece ==
  ASSUME NEW a \in Asdu, NEW c \in Asdu, SameLayout(a, c),
         Fits(a)
  PROVE  /\ Piece(UpToRefrTm(a), RefrTmAt(a)) /\ Piece(UpToRefrTm(c), RefrTmAt(a))
         /\ Agree(UpToRefrTm(a), UpToRefrTm(c), RefrTmAt(a), Counters(a))
         /\ CountHeld(UpToRefrTm(a), a)
  <1>1. PICK m \in Nat : m = SmpCntAt(a)
    BY Places
  <1>2. PICK s, X : X = Counters(a) /\ s = UpToSmpCnt(a) /\ s = UpToSmpCnt(c)
    BY SameLayoutSamePlaces, Zenon
  <1>3. Piece(s, m) /\ Agree(s, s, m, X)
    BY <1>1, <1>2, UpToSmpCntIsPiece DEF Agree
  <1>4. PICK w, w2 : w = encodeUInt16FixedSize(a.smpCnt) /\ w2 = encodeUInt16FixedSize(c.smpCnt)
    OBVIOUS
  <1>5. Piece(w, 2) /\ Piece(w2, 2)
    BY <1>4, AsduTyped, WordIsPiece
  <1>6. w[1] = a.smpCnt \div 256 /\ w[2] = a.smpCnt % 256
    BY <1>4, AsduTyped, WordOctets
  <1>7. \A i \in 1 .. 2 : m + i \in X
    BY <1>1, <1>2 DEF Counters
  <1>8. PICK s1, t1 : Joins(s1, s, w) /\ Joins(t1, s, w2)
    BY Zenon DEF Joins
  <1>9. /\ Piece(s1, m + 2) /\ Piece(t1, m + 2) /\ Agree(s1, t1, m + 2, X)
        /\ \A i \in 1 .. 2 : s1[m + i] = w[i]
    BY <1>3, <1>5, <1>7, <1>8, AgreeJoined
  <1>10. PICK tl : tl = BerEncoder_encodeTL(131, 4)
    OBVIOUS
  <1>11. Piece(tl, 2)
    BY <1>10, ShortTagAndLength
  <1>12. PICK s2, t2 : Joins(s2, s1, tl) /\ Joins(t2, t1, tl)
    BY Zenon DEF Joins
  <1>13. PICK m2 \in Nat : m2 = m + 2
    BY <1>1
  <1>14. /\ Piece(s2, m2 + 2) /\ Piece(t2, m2 + 2) /\ Agree(s2, t2, m2 + 2, X)
         /\ \A i \in 1 .. m2 : s2[i] = s1[i]
    BY <1>9, <1>11, <1>12, <1>13, AgreeJoined
  <1>15. PICK r : r = encodeInt32FixedSize(ConfRev)
    OBVIOUS
  <1>16. Piece(r, 4)
    BY <1>15, RevisionIsPiece
  <1>17. PICK s3, t3 : Joins(s3, s2, r) /\ Joins(t3, t2, r)
    BY Zenon DEF Joins
  <1>18. PICK m3 \in Nat : m3 = m2 + 2
    BY <1>13
  <1>19. /\ Piece(s3, m3 + 4) /\ Piece(t3, m3 + 4) /\ Agree(s3, t3, m3 + 4, X)
         /\ \A i \in 1 .. m3 : s3[i] = s2[i]
    BY <1>14, <1>16, <1>17, <1>18, AgreeJoined
  <1>20. PICK t : t = IF a.hasRefrTm THEN BerEncoder_encodeTL(132, 8) ELSE <<>>
    OBVIOUS
  <1>21. PICK k \in Nat : k = IF a.hasRefrTm THEN 2 ELSE 0
    OBVIOUS
  <1>22. Piece(t, k)
    <2>1. CASE a.hasRefrTm
      BY <1>20, <1>21, <2>1, ShortTagAndLength
    <2>2. CASE ~a.hasRefrTm
      BY <1>20, <1>21, <2>2 DEF Piece
    <2> QED
      BY <2>1, <2>2
  <1>23. PICK s4, t4 : Joins(s4, s3, t) /\ Joins(t4, t3, t)
    BY Zenon DEF Joins
  <1>24. PICK m4 \in Nat : m4 = m3 + 4
    BY <1>18
  <1>25. /\ Piece(s4, m4 + k) /\ Piece(t4, m4 + k) /\ Agree(s4, t4, m4 + k, X)
         /\ \A i \in 1 .. m4 : s4[i] = s3[i]
    BY <1>19, <1>22, <1>23, <1>24, AgreeJoined
  <1>26. m4 + k = RefrTmAt(a)
    BY <1>1, <1>13, <1>18, <1>21, <1>24 DEF RefrTmAt
  <1>27. s4 = UpToRefrTm(a)
    BY <1>2, <1>4, <1>8, <1>10, <1>12, <1>15, <1>17, <1>20, <1>23, AsduTyped, Zenon
    DEF UpToRefrTm, Joins
  <1>28. t4 = UpToRefrTm(c)
    <2>1. c.confRev = ConfRev /\ c.hasRefrTm = a.hasRefrTm
      BY AsduTyped DEF SameLayout
    <2> QED
      BY <1>2, <1>4, <1>8, <1>10, <1>12, <1>15, <1>17, <1>20, <1>23, <2>1, Zenon
      DEF UpToRefrTm, Joins
  <1>29. s4[m + 1] = w[1] /\ s4[m + 2] = w[2]
    <2>1. m + 1 \in 1 .. m2 /\ m + 2 \in 1 .. m2 /\ m + 1 \in 1 .. m3 /\ m + 2 \in 1 .. m3
          /\ m + 1 \in 1 .. m4 /\ m + 2 \in 1 .. m4
      BY <1>13, <1>18, <1>24
    <2>2. s1[m + 1] = w[1] /\ s1[m + 2] = w[2]
      BY <1>9
    <2> QED
      BY <1>14, <1>19, <1>25, <2>1, <2>2, Zenon
  <1> QED
    BY <1>1, <1>2, <1>6, <1>25, <1>26, <1>27, <1>28, <1>29, Zenon DEF CountHeld

\* The same up to smpSynch: the refresh time is open.
LEMMA UpToSmpSynchIsPiece ==
  ASSUME NEW a \in Asdu, NEW c \in Asdu, SameLayout(a, c), Fits(a)
  PROVE  /\ Piece(UpToSmpSynch(a), SmpSynchAt(a)) /\ Piece(UpToSmpSynch(c), SmpSynchAt(a))
         /\ Agree(UpToSmpSynch(a), UpToSmpSynch(c), SmpSynchAt(a), Counters(a))
         /\ CountHeld(UpToSmpSynch(a), a) /\ TimeOpen(UpToSmpSynch(a), a)
  <1>1. PICK m \in Nat : m = RefrTmAt(a)
    BY Places
  <1>2. PICK s, t, X : s = UpToRefrTm(a) /\ t = UpToRefrTm(c) /\ X = Counters(a)
    OBVIOUS
  <1>3. /\ Piece(s, m) /\ Piece(t, m) /\ Agree(s, t, m, X) /\ CountHeld(s, a)
    BY <1>1, <1>2, UpToRefrTmIsPiece
  <1>4. PICK h : h = IF a.hasRefrTm THEN Holes(8) ELSE <<>>
    OBVIOUS
  <1>5. PICK k \in Nat : k = IF a.hasRefrTm THEN 8 ELSE 0
    OBVIOUS
  <1>6. Piece(h, k) /\ \A i \in 1 .. k : h[i] = Hole
    <2>1. CASE a.hasRefrTm
      BY <1>4, <1>5, <2>1, HolesArePiece
    <2>2. CASE ~a.hasRefrTm
      BY <1>4, <1>5, <2>2 DEF Piece
    <2> QED
      BY <2>1, <2>2
  <1>7. PICK s1, t1 : Joins(s1, s, h) /\ Joins(t1, t, h)
    BY Zenon DEF Joins
  <1>8. /\ Piece(s1, m + k) /\ Piece(t1, m + k) /\ Agree(s1, t1, m + k, X)
        /\ \A i \in 1 .. m : s1[i] = s[i]
        /\ \A i \in 1 .. k : s1[m + i] = h[i]
    BY <1>3, <1>6, <1>7, AgreeJoined
  <1>9. PICK tl : tl = BerEncoder_encodeTL(133, 1)
    OBVIOUS
  <1>10. Piece(tl, 2)
    BY <1>9, ShortTagAndLength
  <1>11. PICK s2, t2 : Joins(s2, s1, tl) /\ Joins(t2, t1, tl)
    BY Zenon DEF Joins
  <1>12. PICK m1 \in Nat : m1 = m + k
    BY <1>1
  <1>13. /\ Piece(s2, m1 + 2) /\ Piece(t2, m1 + 2) /\ Agree(s2, t2, m1 + 2, X)
         /\ \A i \in 1 .. m1 : s2[i] = s1[i]
    BY <1>8, <1>10, <1>11, <1>12, AgreeJoined
  <1>14. m1 + 2 = SmpSynchAt(a)
    BY <1>1, <1>5, <1>12 DEF SmpSynchAt
  <1>15. s2 = UpToSmpSynch(a)
    BY <1>2, <1>4, <1>7, <1>9, <1>11, Zenon DEF UpToSmpSynch, Joins
  <1>16. t2 = UpToSmpSynch(c)
    <2>1. c.hasRefrTm = a.hasRefrTm
      BY DEF SameLayout
    <2> QED
      BY <1>2, <1>4, <1>7, <1>9, <1>11, <2>1, Zenon DEF UpToSmpSynch, Joins
  <1>17. CountHeld(s2, a)
    <2>1. SmpCntAt(a) + 2 =< m /\ SmpCntAt(a) + 2 =< m1
      BY <1>1, <1>12, Places
    <2>2. CountHeld(s1, a)
      BY <1>3, <1>8, <2>1, HeldByPrefix
    <2> QED
      BY <1>13, <2>1, <2>2, HeldByPrefix
  <1>18. TimeOpen(s2, a)
    <2>1. TimeOpen(s1, a)
      BY <1>1, <1>5, <1>6, <1>8 DEF TimeOpen
    <2>2. a.hasRefrTm => RefrTmAt(a) + 8 =< m1
      BY <1>1, <1>5, <1>12
    <2> QED
      BY <1>13, <2>1, <2>2, HeldByPrefix
  <1> QED
    BY <1>2, <1>13, <1>14, <1>15, <1>16, <1>17, <1>18, Zenon

\* The same up to the data: smpSynch is in its place.
LEMMA UpToDataIsPiece ==
  ASSUME NEW a \in Asdu, NEW c \in Asdu, SameLayout(a, c), Fits(a)
  PROVE  /\ Piece(UpToData(a), DataAt(a)) /\ Piece(UpToData(c), DataAt(a))
         /\ Agree(UpToData(a), UpToData(c), DataAt(a), Counters(a))
         /\ CountHeld(UpToData(a), a) /\ TimeOpen(UpToData(a), a) /\ SynchHeld(UpToData(a), a)
  <1>1. PICK m \in Nat : m = SmpSynchAt(a)
    BY Places
  <1>2. PICK s, t, X : s = UpToSmpSynch(a) /\ t = UpToSmpSynch(c) /\ X = Counters(a)
    OBVIOUS
  <1>3. /\ Piece(s, m) /\ Piece(t, m) /\ Agree(s, t, m, X) /\ CountHeld(s, a) /\ TimeOpen(s, a)
    BY <1>1, <1>2, UpToSmpSynchIsPiece
  <1>4. PICK b, b2 : b = <<a.smpSynch>> /\ b2 = <<c.smpSynch>>
    OBVIOUS
  <1>5. Piece(b, 1) /\ Piece(b2, 1) /\ b[1] = a.smpSynch
    BY <1>4, AsduTyped DEF Piece
  <1>6. \A i \in 1 .. 1 : m + i \in X
    BY <1>1, <1>2 DEF Counters
  <1>7. PICK s1, t1 : Joins(s1, s, b) /\ Joins(t1, t, b2)
    BY Zenon DEF Joins
  <1>8. /\ Piece(s1, m + 1) /\ Piece(t1, m + 1) /\ Agree(s1, t1, m + 1, X)
        /\ \A i \in 1 .. m : s1[i] = s[i]
        /\ \A i \in 1 .. 1 : s1[m + i] = b[i]
    BY <1>3, <1>5, <1>6, <1>7, AgreeJoined
  <1>9. PICK r : r = IF a.hasSmpRate
                     THEN BerEncoder_encodeTL(134, 2) \o encodeUInt16FixedSize(a.smpRate)
                     ELSE <<>>
    OBVIOUS
  <1>10. PICK k \in Nat : k = IF a.hasSmpRate THEN 4 ELSE 0
    OBVIOUS
  <1>11. Piece(r, k)
    <2>1. CASE a.hasSmpRate
      <3>1. Piece(BerEncoder_encodeTL(134, 2), 2) /\ Piece(encodeUInt16FixedSize(a.smpRate), 2)
        BY AsduTyped, ShortTagAndLength, WordIsPiece
      <3> QED
        BY <1>9, <1>10, <2>1, <3>1, Joined
    <2>2. CASE ~a.hasSmpRate
      BY <1>9, <1>10, <2>2 DEF Piece
    <2> QED
      BY <2>1, <2>2
  <1>12. PICK s2, t2 : Joins(s2, s1, r) /\ Joins(t2, t1, r)
    BY Zenon DEF Joins
  <1>13. PICK m1 \in Nat : m1 = m + 1
    BY <1>1
  <1>14. /\ Piece(s2, m1 + k) /\ Piece(t2, m1 + k) /\ Agree(s2, t2, m1 + k, X)
         /\ \A i \in 1 .. m1 : s2[i] = s1[i]
    BY <1>8, <1>11, <1>12, <1>13, AgreeJoined
  <1>15. PICK n \in Nat, h \in Nat :
            n = a.dataSize /\ h = 1 + BerEncoder_determineLengthSize(a.dataSize)
    <2>1. PICK n \in Nat : n = a.dataSize
      BY AsduTyped
    <2>2. BerEncoder_determineLengthSize(n) \in 1 .. 4
      BY LengthSize
    <2> QED
      BY <2>1, <2>2
  <1>16. PICK tl : tl = BerEncoder_encodeTL(135, a.dataSize)
    OBVIOUS
  <1>17. Piece(tl, h)
    <2>1. a.dataSize < 65535
      BY <1>15, SizeOfParts DEF Fits
    <2> QED
      BY <1>15, <1>16, <2>1, TagAndLength
  <1>18. PICK s3, t3 : Joins(s3, s2, tl) /\ Joins(t3, t2, tl)
    BY Zenon DEF Joins
  <1>19. PICK m2 \in Nat : m2 = m1 + k
    BY <1>13
  <1>20. /\ Piece(s3, m2 + h) /\ Piece(t3, m2 + h) /\ Agree(s3, t3, m2 + h, X)
         /\ \A i \in 1 .. m2 : s3[i] = s2[i]
    BY <1>14, <1>17, <1>18, <1>19, AgreeJoined
  <1>21. m2 + h = DataAt(a)
    <2>1. PICK l \in 1 .. 4 : l = BerEncoder_determineLengthSize(n)
      BY LengthSize
    <2>2. l = BerEncoder_determineLengthSize(a.dataSize)
      BY <1>15, <2>1, Zenon
    <2> QED
      BY <2>2, <1>1, <1>10, <1>13, <1>15, <1>19, <2>1 DEF DataAt
  <1>22. s3 = UpToData(a)
    BY <1>2, <1>4, <1>7, <1>9, <1>12, <1>16, <1>18, Zenon DEF UpToData, Joins
  <1>23. t3 = UpToData(c)
    <2>1. c.hasSmpRate = a.hasSmpRate /\ c.smpRate = a.smpRate /\ c.dataSize = a.dataSize
      BY DEF SameLayout
    <2> QED
      BY <1>2, <1>4, <1>7, <1>9, <1>12, <1>16, <1>18, <2>1, Zenon DEF UpToData, Joins
  <1>24. /\ SmpCntAt(a) + 2 =< m /\ SmpCntAt(a) + 2 =< m1 /\ SmpCntAt(a) + 2 =< m2
         /\ a.hasRefrTm => RefrTmAt(a) + 8 =< m
         /\ a.hasRefrTm => RefrTmAt(a) + 8 =< m1
         /\ a.hasRefrTm => RefrTmAt(a) + 8 =< m2
         /\ SmpSynchAt(a) + 1 =< m1 /\ SmpSynchAt(a) + 1 =< m2
    BY <1>1, <1>10, <1>13, <1>19, Places
  <1>25. CountHeld(s3, a)
    <2>1. CountHeld(s1, a)
      BY <1>3, <1>8, <1>24, HeldByPrefix
    <2>2. CountHeld(s2, a)
      BY <1>14, <1>24, <2>1, HeldByPrefix
    <2> QED
      BY <1>20, <1>24, <2>2, HeldByPrefix
  <1>26. TimeOpen(s3, a)
    <2>1. TimeOpen(s1, a)
      BY <1>3, <1>8, <1>24, HeldByPrefix
    <2>2. TimeOpen(s2, a)
      BY <1>14, <1>24, <2>1, HeldByPrefix
    <2> QED
      BY <1>20, <1>24, <2>2, HeldByPrefix
  <1>27. SynchHeld(s3, a)
    <2>1. 1 \in 1 .. 1
      OBVIOUS
    <2>2. SynchHeld(s1, a)
      BY <1>1, <1>5, <1>8, <2>1, Zenon DEF SynchHeld
    <2>3. SynchHeld(s2, a)
      BY <1>14, <1>24, <2>2, HeldByPrefix
    <2> QED
      BY <1>20, <1>24, <2>3, HeldByPrefix
  <1> QED
    BY <1>2, <1>20, <1>21, <1>22, <1>23, <1>25, <1>26, <1>27, Zenon

\* SVPublisher_ASDU_encodeToBuffer writes as many octets as
\* SVPublisher_ASDU_getEncodedSize computes. It holds the counters in their
\* places, leaves the refresh time and the data open, and depends on the counters
\* nowhere else.
LEMMA AsduIsPiece ==
  ASSUME NEW a \in Asdu, NEW c \in Asdu, SameLayout(a, c), Fits(a)
  PROVE  LET s == SVPublisher_ASDU_encodeToBuffer(a)
             t == SVPublisher_ASDU_encodeToBuffer(c)
         IN  /\ Piece(s, AsduLength(a)) /\ Piece(t, AsduLength(a))
             /\ Agree(s, t, AsduLength(a), Counters(a))
             /\ CountHeld(s, a) /\ TimeOpen(s, a) /\ SynchHeld(s, a) /\ DataOpen(s, a)
  <1>1. PICK m \in Nat, n \in Nat : m = DataAt(a) /\ n = a.dataSize
    BY AsduTyped, Places
  <1>2. PICK s, t, X : s = UpToData(a) /\ t = UpToData(c) /\ X = Counters(a)
    OBVIOUS
  <1>3. /\ Piece(s, m) /\ Piece(t, m) /\ Agree(s, t, m, X)
        /\ CountHeld(s, a) /\ TimeOpen(s, a) /\ SynchHeld(s, a)
    BY <1>1, <1>2, UpToDataIsPiece
  <1>4. PICK h : h = Holes(a.dataSize)
    OBVIOUS
  <1>5. Piece(h, n) /\ \A i \in 1 .. n : h[i] = Hole
    BY <1>1, <1>4, HolesArePiece
  <1>6. PICK s1, t1 : Joins(s1, s, h) /\ Joins(t1, t, h)
    BY Zenon DEF Joins
  <1>7. /\ Piece(s1, m + n) /\ Piece(t1, m + n) /\ Agree(s1, t1, m + n, X)
        /\ \A i \in 1 .. m : s1[i] = s[i]
        /\ \A i \in 1 .. n : s1[m + i] = h[i]
    BY <1>3, <1>5, <1>6, AgreeJoined
  <1>8. PICK r : r = IF a.hasSmpMod
                     THEN BerEncoder_encodeTL(136, 2) \o encodeUInt16FixedSize(a.smpMod)
                     ELSE <<>>
    OBVIOUS
  <1>9. PICK k \in Nat : k = IF a.hasSmpMod THEN 4 ELSE 0
    OBVIOUS
  <1>10. Piece(r, k)
    <2>1. CASE a.hasSmpMod
      <3>1. Piece(BerEncoder_encodeTL(136, 2), 2) /\ Piece(encodeUInt16FixedSize(a.smpMod), 2)
        BY AsduTyped, ShortTagAndLength, WordIsPiece
      <3> QED
        BY <1>8, <1>9, <2>1, <3>1, Joined
    <2>2. CASE ~a.hasSmpMod
      BY <1>8, <1>9, <2>2 DEF Piece
    <2> QED
      BY <2>1, <2>2
  <1>11. PICK s2, t2 : Joins(s2, s1, r) /\ Joins(t2, t1, r)
    BY Zenon DEF Joins
  <1>12. PICK m1 \in Nat : m1 = m + n
    BY <1>1
  <1>13. /\ Piece(s2, m1 + k) /\ Piece(t2, m1 + k) /\ Agree(s2, t2, m1 + k, X)
         /\ \A i \in 1 .. m1 : s2[i] = s1[i]
    BY <1>7, <1>10, <1>11, <1>12, AgreeJoined
  <1>14. m1 + k = AsduLength(a)
    BY <1>1, <1>9, <1>12, Places
  <1>15. s2 = SVPublisher_ASDU_encodeToBuffer(a)
    BY <1>2, <1>4, <1>6, <1>8, <1>11, Zenon DEF SVPublisher_ASDU_encodeToBuffer, Joins
  <1>16. t2 = SVPublisher_ASDU_encodeToBuffer(c)
    <2>1. c.hasSmpMod = a.hasSmpMod /\ c.smpMod = a.smpMod /\ c.dataSize = a.dataSize
      BY DEF SameLayout
    <2> QED
      BY <1>2, <1>4, <1>6, <1>8, <1>11, <2>1, Zenon DEF SVPublisher_ASDU_encodeToBuffer, Joins
  <1>17. /\ SmpCntAt(a) + 2 =< m /\ SmpCntAt(a) + 2 =< m1
         /\ a.hasRefrTm => RefrTmAt(a) + 8 =< m
         /\ a.hasRefrTm => RefrTmAt(a) + 8 =< m1
         /\ SmpSynchAt(a) + 1 =< m /\ SmpSynchAt(a) + 1 =< m1
         /\ DataAt(a) + a.dataSize =< m1
    BY <1>1, <1>12, Places
  <1>18. CountHeld(s2, a)
    <2>1. CountHeld(s1, a)
      BY <1>3, <1>7, <1>17, HeldByPrefix
    <2> QED
      BY <1>13, <1>17, <2>1, HeldByPrefix
  <1>19. TimeOpen(s2, a)
    <2>1. TimeOpen(s1, a)
      BY <1>3, <1>7, <1>17, HeldByPrefix
    <2> QED
      BY <1>13, <1>17, <2>1, HeldByPrefix
  <1>20. SynchHeld(s2, a)
    <2>1. SynchHeld(s1, a)
      BY <1>3, <1>7, <1>17, HeldByPrefix
    <2> QED
      BY <1>13, <1>17, <2>1, HeldByPrefix
  <1>21. DataOpen(s2, a)
    <2>1. DataOpen(s1, a)
      BY <1>1, <1>5, <1>7, Zenon DEF DataOpen
    <2> QED
      BY <1>13, <1>17, <2>1, HeldByPrefix
  <1> QED
    BY <1>2, <1>13, <1>14, <1>15, <1>16, <1>18, <1>19, <1>20, <1>21, Zenon

-----------------------------------------------------------------------------
\* A function on 0 .. n defined by recursion.
RecursiveUpTo(f, n, base, step) ==
    f = [k \in 0 .. n |-> IF k = 0 THEN base ELSE step[k][f[k - 1]]]

\* A function may be defined by recursion up to n.
LEMMA RecursionUpTo ==
  ASSUME NEW n \in Nat, NEW base, NEW step
  PROVE  \E f : RecursiveUpTo(f, n, base, step)
  <1>1. PICK g : Recursive(g, base, step)
    BY Recursion
  <1> DEFINE f == [k \in 0 .. n |-> g[k]]
  <1>2. \A k \in 0 .. n : f[k] = IF k = 0 THEN base ELSE step[k][f[k - 1]]
    <2> TAKE k \in 0 .. n
    <2>1. k \in Nat /\ g[k] = IF k = 0 THEN base ELSE step[k][g[k - 1]]
      BY <1>1 DEF Recursive
    <2>2. CASE k = 0
      BY <2>1, <2>2
    <2>3. CASE k # 0
      <3>1. k - 1 \in 0 .. n
        BY <2>3
      <3> QED
        BY <2>1, <2>3, <3>1
    <2> QED
      BY <2>2, <2>3
  <1>3. f = [k \in 0 .. n |-> IF k = 0 THEN base ELSE step[k][f[k - 1]]]
    BY <1>2
  <1> HIDE DEF f
  <1> QED
    BY <1>3 DEF RecursiveUpTo

\* Induction up to n.
LEMMA InductionUpTo ==
  ASSUME NEW n \in Nat, NEW S, 0 \in S, \A k \in 1 .. n : k - 1 \in S => k \in S
  PROVE  \A k \in 0 .. n : k \in S
  <1> DEFINE T == {k \in Nat : k =< n => k \in S}
  <1>1. 0 \in T
    OBVIOUS
  <1>2. ASSUME NEW k \in Nat, k \in T PROVE k + 1 \in T
    <2>1. SUFFICES ASSUME k + 1 =< n PROVE k + 1 \in S
      OBVIOUS
    <2>2. k + 1 \in 1 .. n /\ (k + 1) - 1 = k /\ k \in S
      BY <1>2, <2>1
    <2> QED
      BY <2>2
  <1> HIDE DEF T
  <1>3. \A k \in Nat : k \in T
    BY <1>1, <1>2, Induction
  <1> QED
    BY <1>3 DEF T

-----------------------------------------------------------------------------
\* The lengths of the first k ASDUs together.
LengthUpTo(asdus) ==
    LET upTo[k \in 0 .. Len(asdus)] ==
            IF k = 0 THEN 0 ELSE upTo[k - 1] + AsduLength(asdus[k])
    IN  upTo

\* The items of a list of ASDUs.
LEMMA AsdusTyped ==
  ASSUME NEW L \in Seq(Asdu)
  PROVE  Len(L) \in Nat /\ DOMAIN L = 1 .. Len(L) /\ \A k \in 1 .. Len(L) : L[k] \in Asdu
  BY LenProperties, ElementOfSeq

\* The sum in SVPublisher_setupComplete, ASDU by ASDU.
LEMMA LengthEquations ==
  ASSUME NEW L \in Seq(Asdu)
  PROVE  /\ LengthUpTo(L)[0] = 0
         /\ \A k \in 1 .. Len(L) : LengthUpTo(L)[k] = LengthUpTo(L)[k - 1] + AsduLength(L[k])
         /\ \A k \in 0 .. Len(L) : LengthUpTo(L)[k] \in Nat
         /\ TotalAsduLength(L) = LengthUpTo(L)[Len(L)]
  <1>1. PICK n \in Nat : n = Len(L)
    BY AsdusTyped
  <1> DEFINE size == [k \in 1 .. n |-> AsduLength(L[k])]
             step == [k \in 1 .. n |-> [v \in Nat |-> v + size[k]]]
  <1>2. \A k \in 1 .. n : size[k] \in Nat /\ size[k] = AsduLength(L[k])
    BY <1>1, AsdusTyped, Places
  <1> HIDE DEF size
  <1>3. PICK f : RecursiveUpTo(f, n, 0, step)
    BY RecursionUpTo
  <1>4. \A k \in 1 .. n : \A v \in Nat : step[k][v] = v + size[k]
    OBVIOUS
  <1> HIDE DEF step
  <1>5. f[0] = 0 /\ \A k \in 1 .. n : f[k] = step[k][f[k - 1]]
    BY <1>3 DEF RecursiveUpTo
  <1> DEFINE S == {k \in 0 .. n : f[k] \in Nat}
  <1>6. 0 \in S
    BY <1>5
  <1>7. ASSUME NEW k \in 1 .. n, k - 1 \in S PROVE k \in S
    <2>1. PICK v \in Nat, z \in Nat : v = f[k - 1] /\ z = size[k]
      BY <1>2, <1>7 DEF S
    <2>2. f[k] = v + z
      BY <1>4, <1>5, <2>1
    <2> QED
      BY <2>1, <2>2 DEF S
  <1> HIDE DEF S
  <1>8. \A k \in 0 .. n : k \in S
    BY <1>6, <1>7, InductionUpTo
  <1>9. \A k \in 0 .. n : f[k] \in Nat
    BY <1>8 DEF S
  <1>10. \A k \in 1 .. n : f[k] = f[k - 1] + AsduLength(L[k])
    <2> TAKE k \in 1 .. n
    <2>1. k - 1 \in 0 .. n
      OBVIOUS
    <2>2. PICK v \in Nat : v = f[k - 1]
      BY <1>9, <2>1
    <2> QED
      BY <1>2, <1>4, <1>5, <2>2
  <1>11. f = [k \in 0 .. n |-> IF k = 0 THEN 0 ELSE f[k - 1] + AsduLength(L[k])]
    <2>1. f = [k \in 0 .. n |-> IF k = 0 THEN 0 ELSE step[k][f[k - 1]]]
      BY <1>3 DEF RecursiveUpTo
    <2>2. \A k \in 0 .. n : (IF k = 0 THEN 0 ELSE step[k][f[k - 1]])
                            = IF k = 0 THEN 0 ELSE f[k - 1] + AsduLength(L[k])
      <3> TAKE k \in 0 .. n
      <3>1. CASE k = 0
        BY <3>1
      <3>2. CASE k # 0
        <4>1. k \in 1 .. n
          BY <3>2
        <4> QED
          BY <1>5, <1>10, <3>2, <4>1
      <3> QED
        BY <3>1, <3>2
    <2> QED
      BY <2>1, <2>2
  <1>12. LengthUpTo(L) = [k \in 0 .. n |-> IF k = 0 THEN 0
                                          ELSE LengthUpTo(L)[k - 1] + AsduLength(L[k])]
    BY <1>1, <1>11 DEF LengthUpTo
  <1>13. PICK g : g = LengthUpTo(L)
    OBVIOUS
  <1>14. g = [k \in 0 .. n |-> IF k = 0 THEN 0 ELSE g[k - 1] + AsduLength(L[k])]
    BY <1>12, <1>13, Zenon
  <1>15. g[0] = 0 /\ \A k \in 1 .. n : g[k] = g[k - 1] + AsduLength(L[k])
    BY <1>14
  <1> DEFINE U == {k \in 0 .. n : g[k] \in Nat}
  <1>16. 0 \in U
    BY <1>15
  <1>17. ASSUME NEW k \in 1 .. n, k - 1 \in U PROVE k \in U
    BY <1>2, <1>15, <1>17, SMTT(30)
  <1> HIDE DEF U
  <1>18. \A k \in 0 .. n : k \in U
    BY <1>16, <1>17, InductionUpTo
  <1>19. \A k \in 0 .. n : g[k] \in Nat
    BY <1>18 DEF U
  <1>20. TotalAsduLength(L) = LengthUpTo(L)[Len(L)]
    BY Zenon DEF TotalAsduLength, LengthUpTo
  <1> QED
    BY <1>1, <1>13, <1>15, <1>19, <1>20, Zenon

\* The sum grows with every ASDU; an ASDU is no longer than all of them.
LEMMA LengthsGrow ==
  ASSUME NEW L \in Seq(Asdu)
  PROVE  /\ \A k \in 0 .. Len(L) : \A j \in 0 .. k : LengthUpTo(L)[j] =< LengthUpTo(L)[k]
         /\ \A k \in 1 .. Len(L) : AsduLength(L[k]) =< TotalAsduLength(L)
  <1>1. PICK n \in Nat : n = Len(L)
    BY AsdusTyped
  <1>0. PICK g : g = LengthUpTo(L)
    OBVIOUS
  <1>2. /\ \A k \in 1 .. n : g[k] = g[k - 1] + AsduLength(L[k])
        /\ \A k \in 0 .. n : g[k] \in Nat
        /\ TotalAsduLength(L) = g[n]
    BY <1>0, <1>1, LengthEquations
  <1>3. \A k \in 1 .. n : AsduLength(L[k]) \in Nat
    BY <1>1, AsdusTyped, Places
  <1> DEFINE S == {k \in 0 .. n : \A j \in 0 .. k : g[j] =< g[k]}
  <1>4. 0 \in S
    BY <1>2
  <1>5. ASSUME NEW k \in 1 .. n, k - 1 \in S PROVE k \in S
    <2>1. PICK v \in Nat, w \in Nat, z \in Nat :
             v = g[k - 1] /\ w = g[k] /\ z = AsduLength(L[k])
      <3>1. k \in 0 .. n /\ k - 1 \in 0 .. n
        OBVIOUS
      <3> QED
        BY <1>2, <1>3, <3>1
    <2>2. w = v + z
      BY <1>2, <2>1
    <2>3. ASSUME NEW j \in 0 .. k PROVE g[j] =< g[k]
      <3>1. CASE j = k
        BY <2>1, <3>1
      <3>2. CASE j # k
        <4>1. j \in 0 .. k - 1 /\ j \in 0 .. n
          BY <3>2
        <4>2. g[j] =< v /\ g[j] \in Nat
          BY <1>2, <1>5, <2>1, <4>1
        <4> QED
          BY <2>1, <2>2, <4>2
      <3> QED
        BY <3>1, <3>2
    <2> QED
      BY <2>3
  <1> HIDE DEF S
  <1>6. \A k \in 0 .. n : k \in S
    BY <1>4, <1>5, InductionUpTo
  <1>7. \A k \in 0 .. n : \A j \in 0 .. k : g[j] =< g[k]
    BY <1>6 DEF S
  <1>8. ASSUME NEW k \in 1 .. n PROVE AsduLength(L[k]) =< TotalAsduLength(L)
    <2>1. PICK v \in Nat, w \in Nat, z \in Nat :
             v = g[k - 1] /\ w = g[k] /\ z = AsduLength(L[k])
      <3>1. k \in 0 .. n /\ k - 1 \in 0 .. n
        OBVIOUS
      <3> QED
        BY <1>2, <1>3, <3>1
    <2>2. w = v + z
      BY <1>2, <2>1
    <2>3. k \in 0 .. n /\ n \in 0 .. n /\ k \in 0 .. n
      BY <1>1
    <2>4. w =< g[n] /\ g[n] \in Nat
      BY <1>2, <1>7, <2>1, <2>3
    <2> QED
      BY <1>2, <2>1, <2>2, <2>4
  <1> QED
    BY <1>0, <1>1, <1>7, <1>8, Zenon

-----------------------------------------------------------------------------
\* The tags and lengths in front of the ASDUs.
HeadSize(L) ==
    1 + BerEncoder_determineLengthSize(InnerSize(L))
    + 2 + BerEncoder_UInt32determineEncodedSize(Seconds(Len(L)))
    + 1 + BerEncoder_determineLengthSize(TotalAsduLength(L))

PayloadFits(L) == InnerSize(L) < 65535

\* Where ASDU k + 1 begins in the payload, counted from 0.
AsduAt(L, k) == HeadSize(L) + LengthUpTo(L)[k]

\* What comes before the ASDUs has the size SVPublisher_setupComplete computes
\* for it.
LEMMA HeadIsPiece ==
  ASSUME NEW L \in Seq(Asdu), PayloadFits(L)
  PROVE  /\ HeadSize(L) \in Nat /\ InnerSize(L) \in Nat
         /\ Piece(PayloadHead(L), HeadSize(L))
         /\ HeadSize(L) + TotalAsduLength(L)
               = 1 + BerEncoder_determineLengthSize(InnerSize(L)) + InnerSize(L)
         /\ \A k \in 1 .. Len(L) : Fits(L[k])
  <1>1. PICK n \in Nat : n = Len(L)
    BY AsdusTyped
  <1>2. PICK total \in Nat : total = TotalAsduLength(L)
    <2>1. n \in 0 .. n
      OBVIOUS
    <2> QED
      BY <1>1, <2>1, LengthEquations
  <1>3. PICK u \in 1 .. 5 : u = BerEncoder_UInt32determineEncodedSize(Seconds(n))
    <2>1. 128 \in Nat
      OBVIOUS
    <2> QED
      BY <1>1, <2>1, NumberIsPiece
  <1>4. PICK l \in 1 .. 4 : l = BerEncoder_determineLengthSize(total)
    BY LengthSize
  <1>5. InnerSize(L) = 2 + u + 1 + l + total
    BY <1>1, <1>2, <1>3, <1>4 DEF InnerSize
  <1>6. PICK inner \in Nat : inner = InnerSize(L) /\ inner = 2 + u + 1 + l + total
    BY <1>5
  <1>7. inner < 65535 /\ total < 65535
    BY <1>6 DEF PayloadFits
  <1>8. PICK h \in 1 .. 4 : h = BerEncoder_determineLengthSize(inner)
    BY LengthSize
  <1>9. HeadSize(L) = 1 + h + 2 + u + 1 + l
    BY <1>1, <1>2, <1>3, <1>4, <1>6, <1>8 DEF HeadSize
  <1>10. PICK s1, s2, s3 : /\ s1 = BerEncoder_encodeTL(96, inner)
                           /\ s2 = BerEncoder_encodeUInt32WithTL(128, Seconds(n))
                           /\ s3 = BerEncoder_encodeTL(162, total)
    OBVIOUS
  <1>11. Piece(s1, 1 + h)
    BY <1>7, <1>8, <1>10, TagAndLength
  <1>12. Piece(s2, 2 + u)
    BY <1>1, <1>3, <1>10, NumberIsPiece
  <1>13. Piece(s3, 1 + l)
    BY <1>4, <1>7, <1>10, TagAndLength
  <1>14. Piece(s1 \o s2, 1 + h + (2 + u))
    BY <1>11, <1>12, Joined
  <1>15. Piece((s1 \o s2) \o s3, 1 + h + (2 + u) + (1 + l))
    BY <1>13, <1>14, Joined
  <1>16. PayloadHead(L) = (s1 \o s2) \o s3
    BY <1>1, <1>2, <1>6, <1>10 DEF PayloadHead
  <1>17. 1 + h + (2 + u) + (1 + l) = HeadSize(L)
    BY <1>9
  <1>18. ASSUME NEW k \in 1 .. n PROVE Fits(L[k])
    <2>1. L[k] \in Asdu
      BY <1>1, AsdusTyped
    <2>2. PICK z \in Nat : z = SVPublisher_ASDU_getEncodedSize(L[k])
      BY <2>1, SizeOfParts
    <2>3. PICK y \in 1 .. 4 : y = BerEncoder_determineLengthSize(z)
      BY LengthSize
    <2>4. AsduLength(L[k]) = z + y + 1
      BY <2>2, <2>3 DEF AsduLength
    <2>5. AsduLength(L[k]) =< total
      BY <1>1, <1>2, LengthsGrow
    <2> QED
      BY <1>7, <2>2, <2>4, <2>5 DEF Fits
  <1>19. HeadSize(L) + TotalAsduLength(L)
            = 1 + BerEncoder_determineLengthSize(InnerSize(L)) + InnerSize(L)
    BY <1>2, <1>6, <1>8, <1>9, SMTT(30)
  <1>20. HeadSize(L) \in Nat /\ InnerSize(L) \in Nat
    BY <1>6, <1>9
  <1> QED
    BY <1>1, <1>15, <1>16, <1>17, <1>18, <1>19, <1>20

\* The ASDUs lie behind each other, and the last one ends where the payload ends.
LEMMA AsduPlaces ==
  ASSUME NEW L \in Seq(Asdu), PayloadFits(L)
  PROVE  /\ \A k \in 0 .. Len(L) : AsduAt(L, k) \in Nat
         /\ AsduAt(L, 0) = HeadSize(L)
         /\ \A k \in 1 .. Len(L) : AsduAt(L, k) = AsduAt(L, k - 1) + AsduLength(L[k])
         /\ \A k \in 0 .. Len(L) : \A j \in 0 .. k : AsduAt(L, j) =< AsduAt(L, k)
         /\ AsduAt(L, Len(L)) = 1 + BerEncoder_determineLengthSize(InnerSize(L)) + InnerSize(L)
  <1>1. PICK n \in Nat : n = Len(L)
    BY AsdusTyped
  <1>0. PICK g : g = LengthUpTo(L)
    OBVIOUS
  <1>2. /\ g[0] = 0
        /\ \A k \in 1 .. n : g[k] = g[k - 1] + AsduLength(L[k])
        /\ \A k \in 0 .. n : g[k] \in Nat
        /\ TotalAsduLength(L) = g[n]
    BY <1>0, <1>1, LengthEquations
  <1>3. \A k \in 1 .. n : AsduLength(L[k]) \in Nat
    BY <1>1, AsdusTyped, Places
  <1>4. \A k \in 0 .. n : \A j \in 0 .. k : g[j] =< g[k]
    BY <1>0, <1>1, LengthsGrow
  <1>5. PICK h \in Nat : h = HeadSize(L)
    BY HeadIsPiece
  <1>6. \A k \in 0 .. n : AsduAt(L, k) = h + g[k] /\ g[k] \in Nat
    BY <1>0, <1>1, <1>2, <1>5, Zenon DEF AsduAt
  <1>7. ASSUME NEW k \in 1 .. n PROVE AsduAt(L, k) = AsduAt(L, k - 1) + AsduLength(L[k])
    <2>1. k \in 0 .. n /\ k - 1 \in 0 .. n
      OBVIOUS
    <2>2. PICK v \in Nat, z \in Nat : v = g[k - 1] /\ z = AsduLength(L[k])
      BY <1>2, <1>3, <2>1
    <2>3. g[k] = v + z
      BY <1>2, <2>2
    <2>4. AsduAt(L, k) = h + (v + z) /\ AsduAt(L, k - 1) = h + v
      BY <1>6, <2>1, <2>2, <2>3
    <2> QED
      BY <2>2, <2>4
  <1>8. ASSUME NEW k \in 0 .. n, NEW j \in 0 .. k PROVE AsduAt(L, j) =< AsduAt(L, k)
    <2>1. j \in 0 .. n
      OBVIOUS
    <2> QED
      BY <1>4, <1>6, <2>1
  <1>9. 0 \in 0 .. n /\ n \in 0 .. n
    OBVIOUS
  <1>10. AsduAt(L, n) = 1 + BerEncoder_determineLengthSize(InnerSize(L)) + InnerSize(L)
    BY <1>2, <1>5, <1>6, <1>9, HeadIsPiece
  <1>11. ASSUME NEW k \in 0 .. n PROVE AsduAt(L, k) \in Nat
    <2>1. PICK v \in Nat : v = g[k]
      BY <1>6
    <2>2. AsduAt(L, k) = h + v
      BY <1>6, <2>1, Zenon
    <2> QED
      BY <2>2
  <1>12. AsduAt(L, 0) = HeadSize(L)
    BY <1>2, <1>5, <1>6, <1>9
  <1> QED
    BY <1>0, <1>1, <1>7, <1>8, <1>10, <1>11, <1>12, Zenon

-----------------------------------------------------------------------------
\* The payload of ASDUs that differ in their counters only.
SameLayouts(L, M) ==
    Len(M) = Len(L) /\ \A k \in 1 .. Len(L) : SameLayout(L[k], M[k])

\* The places of the ASDUs do not depend on their counters.
LEMMA SameLayoutsSamePlaces ==
  ASSUME NEW L \in Seq(Asdu), NEW M \in Seq(Asdu), SameLayouts(L, M)
  PROVE  /\ TotalAsduLength(M) = TotalAsduLength(L) /\ InnerSize(M) = InnerSize(L)
         /\ PayloadHead(M) = PayloadHead(L)
         /\ \A k \in 0 .. Len(L) : AsduAt(M, k) = AsduAt(L, k)
         /\ PayloadFits(L) => PayloadFits(M)
  <1>1. PICK n \in Nat : n = Len(L)
    BY AsdusTyped
  <1>2. Len(M) = n /\ Len(M) = Len(L)
    BY <1>1 DEF SameLayouts
  <1>3. PICK f, g : f = LengthUpTo(L) /\ g = LengthUpTo(M)
    OBVIOUS
  <1>4. /\ f[0] = 0 /\ \A k \in 1 .. n : f[k] = f[k - 1] + AsduLength(L[k])
        /\ TotalAsduLength(L) = f[n]
    BY <1>1, <1>3, LengthEquations
  <1>5. /\ g[0] = 0 /\ \A k \in 1 .. n : g[k] = g[k - 1] + AsduLength(M[k])
        /\ TotalAsduLength(M) = g[n]
    BY <1>2, <1>3, LengthEquations
  <1>6. \A k \in 1 .. n : AsduLength(M[k]) = AsduLength(L[k])
    BY <1>1, SameLayoutSameSize DEF SameLayouts
  <1> DEFINE S == {k \in 0 .. n : g[k] = f[k]}
  <1>7. 0 \in S
    BY <1>4, <1>5
  <1>8. ASSUME NEW k \in 1 .. n, k - 1 \in S PROVE k \in S
    <2>1. f[k - 1] = g[k - 1]
      BY <1>8
    <2>2. f[k] = g[k]
      BY <1>4, <1>5, <1>6, <2>1, Zenon
    <2> QED
      BY <2>2
  <1> HIDE DEF S
  <1>9. \A k \in 0 .. n : k \in S
    BY <1>7, <1>8, InductionUpTo
  <1>10. \A k \in 0 .. n : g[k] = f[k]
    BY <1>9 DEF S
  <1>11. TotalAsduLength(M) = TotalAsduLength(L)
    <2>1. n \in 0 .. n
      OBVIOUS
    <2> QED
      BY <1>4, <1>5, <1>10, <2>1, Zenon
  <1>12. InnerSize(M) = InnerSize(L)
    BY <1>2, <1>11, Zenon DEF InnerSize
  <1>13. PayloadHead(M) = PayloadHead(L)
    BY <1>2, <1>11, <1>12, Zenon DEF PayloadHead
  <1>14. HeadSize(M) = HeadSize(L)
    BY <1>2, <1>11, <1>12, Zenon DEF HeadSize
  <1>15. \A k \in 0 .. Len(L) : AsduAt(M, k) = AsduAt(L, k)
    BY <1>1, <1>3, <1>10, <1>14, Zenon DEF AsduAt
  <1>16. PayloadFits(L) => PayloadFits(M)
    BY <1>12 DEF PayloadFits
  <1> QED
    BY <1>11, <1>12, <1>13, <1>15, <1>16

\* The loop of SVPublisher_setupComplete, ASDU by ASDU.
LEMMA PayloadEquations ==
  ASSUME NEW L \in Seq(Asdu), PayloadFits(L)
  PROVE  /\ PayloadUpTo(L)[0] = PayloadHead(L)
         /\ \A k \in 1 .. Len(L) :
                Joins(PayloadUpTo(L)[k], PayloadUpTo(L)[k - 1],
                      SVPublisher_ASDU_encodeToBuffer(L[k]))
         /\ Payload(L) = PayloadUpTo(L)[Len(L)]
  <1>1. PICK n \in Nat : n = Len(L)
    BY AsdusTyped
  <1> DEFINE code == [k \in 1 .. n |-> SVPublisher_ASDU_encodeToBuffer(L[k])]
             step == [k \in 1 .. n |-> [s \in Seq(Int) |-> s \o code[k]]]
  <1>2. \A k \in 1 .. n : code[k] \in Seq(Int)
    <2> TAKE k \in 1 .. n
    <2>1. L[k] \in Asdu /\ Fits(L[k])
      BY <1>1, AsdusTyped, HeadIsPiece
    <2>2. SameLayout(L[k], L[k])
      BY DEF SameLayout
    <2>3. Piece(SVPublisher_ASDU_encodeToBuffer(L[k]), AsduLength(L[k]))
      BY <2>1, <2>2, AsduIsPiece
    <2> QED
      BY <2>3 DEF Piece
  <1>3. \A k \in 1 .. n : code[k] = SVPublisher_ASDU_encodeToBuffer(L[k])
    OBVIOUS
  <1> HIDE DEF code
  <1>4. PICK base : base = PayloadHead(L)
    OBVIOUS
  <1>5. base \in Seq(Int)
    BY <1>4, HeadIsPiece DEF Piece
  <1>6. PICK f : RecursiveUpTo(f, n, base, step)
    BY RecursionUpTo
  <1>7. \A k \in 1 .. n : \A s \in Seq(Int) : step[k][s] = s \o code[k]
    BY Zenon
  <1> HIDE DEF step
  <1>8. f[0] = base /\ \A k \in 1 .. n : f[k] = step[k][f[k - 1]]
    BY <1>6 DEF RecursiveUpTo
  <1> DEFINE S == {k \in 0 .. n : f[k] \in Seq(Int)}
  <1>9. 0 \in S
    BY <1>5, <1>8
  <1>10. ASSUME NEW k \in 1 .. n, k - 1 \in S PROVE k \in S
    <2>1. PICK s \in Seq(Int) : s = f[k - 1]
      BY <1>10 DEF S
    <2>2. PICK t \in Seq(Int) : t = code[k]
      BY <1>2
    <2>3. f[k] = s \o t
      BY <1>7, <1>8, <2>1, <2>2, Zenon
    <2>4. s \o t \in Seq(Int)
      BY ConcatProperties
    <2>5. f[k] \in Seq(Int)
      BY <2>3, <2>4, Zenon
    <2> QED
      BY <2>5 DEF S
  <1> HIDE DEF S
  <1>11. \A k \in 0 .. n : k \in S
    BY <1>9, <1>10, InductionUpTo
  <1>12. \A k \in 0 .. n : f[k] \in Seq(Int)
    BY <1>11 DEF S
  <1>13. \A k \in 1 .. n : f[k] = f[k - 1] \o code[k]
    <2> TAKE k \in 1 .. n
    <2>1. k - 1 \in 0 .. n
      OBVIOUS
    <2>2. f[k - 1] \in Seq(Int)
      BY <1>12, <2>1
    <2> QED
      BY <1>7, <1>8, <2>2, Zenon
  <1>14. f = [k \in 0 .. n |-> IF k = 0 THEN PayloadHead(L)
                               ELSE f[k - 1] \o SVPublisher_ASDU_encodeToBuffer(L[k])]
    <2>1. f = [k \in 0 .. n |-> IF k = 0 THEN base ELSE step[k][f[k - 1]]]
      BY <1>6 DEF RecursiveUpTo
    <2>2. \A k \in 0 .. n : (IF k = 0 THEN base ELSE step[k][f[k - 1]])
                            = IF k = 0 THEN PayloadHead(L)
                              ELSE f[k - 1] \o SVPublisher_ASDU_encodeToBuffer(L[k])
      <3> TAKE k \in 0 .. n
      <3>1. CASE k = 0
        BY <1>4, <3>1, Zenon
      <3>2. CASE k # 0
        <4>1. k \in 1 .. n
          BY <3>2
        <4> QED
          BY <1>3, <1>8, <1>13, <3>2, <4>1, Zenon
      <3> QED
        BY <3>1, <3>2, Zenon
    <2> QED
      BY <2>1, <2>2, Zenon
  <1>15. PayloadUpTo(L) = [k \in 0 .. n |->
            IF k = 0 THEN PayloadHead(L)
            ELSE PayloadUpTo(L)[k - 1] \o SVPublisher_ASDU_encodeToBuffer(L[k])]
    BY <1>1, <1>14, Zenon DEF PayloadUpTo
  <1>16. PICK g : g = PayloadUpTo(L)
    OBVIOUS
  <1>17. g = [k \in 0 .. n |-> IF k = 0 THEN PayloadHead(L)
                               ELSE g[k - 1] \o SVPublisher_ASDU_encodeToBuffer(L[k])]
    BY <1>15, <1>16, Zenon
  <1>18. \A k \in 0 .. n : g[k] = IF k = 0 THEN PayloadHead(L)
                                  ELSE g[k - 1] \o SVPublisher_ASDU_encodeToBuffer(L[k])
    BY <1>17, Zenon
  <1>19. g[0] = PayloadHead(L)
    <2>1. 0 \in 0 .. n
      OBVIOUS
    <2> QED
      BY <1>18, <2>1, Zenon
  <1>20. ASSUME NEW k \in 1 .. n
         PROVE  Joins(g[k], g[k - 1], SVPublisher_ASDU_encodeToBuffer(L[k]))
    <2>1. k \in 0 .. n /\ k # 0
      OBVIOUS
    <2> QED
      BY <1>18, <2>1, Zenon DEF Joins
  <1>21. Payload(L) = PayloadUpTo(L)[Len(L)]
    BY Zenon DEF Payload
  <1> QED
    BY <1>1, <1>16, <1>19, <1>20, <1>21, Zenon

-----------------------------------------------------------------------------
\* The octets of the payload that hold counters.
CounterPlaces(L) ==
    {p \in Nat : \E j \in 1 .. Len(L) : \E x \in Counters(L[j]) : p = AsduAt(L, j - 1) + x}

\* The first k ASDUs are in s, each at its place.
Carries(s, L, k) ==
    \A j \in 1 .. k : \A i \in 1 .. AsduLength(L[j]) :
        s[AsduAt(L, j - 1) + i] = SVPublisher_ASDU_encodeToBuffer(L[j])[i]

\* The payload has the size computed for it, ASDU j is at AsduAt(L, j - 1), and
\* the counters change the payload in their places only.
LEMMA PayloadOctets ==
  ASSUME NEW L \in Seq(Asdu), NEW M \in Seq(Asdu), PayloadFits(L), SameLayouts(L, M)
  PROVE  /\ Piece(Payload(L), AsduAt(L, Len(L))) /\ Piece(Payload(M), AsduAt(L, Len(L)))
         /\ Agree(Payload(L), Payload(M), AsduAt(L, Len(L)), CounterPlaces(L))
         /\ Carries(Payload(L), L, Len(L))
         /\ \A k \in 0 .. Len(L) : Len(PayloadUpTo(L)[k]) = AsduAt(L, k)
  <1>1. PICK n \in Nat : n = Len(L)
    BY AsdusTyped
  <1>2. Len(M) = n /\ \A k \in 1 .. n : SameLayout(L[k], M[k])
    BY <1>1 DEF SameLayouts
  <1>3. PICK f, g, X : f = PayloadUpTo(L) /\ g = PayloadUpTo(M) /\ X = CounterPlaces(L)
    OBVIOUS
  <1>4. PayloadFits(M)
    BY SameLayoutsSamePlaces
  <1>5. /\ f[0] = PayloadHead(L) /\ Payload(L) = f[n]
        /\ \A k \in 1 .. n : Joins(f[k], f[k - 1], SVPublisher_ASDU_encodeToBuffer(L[k]))
    BY <1>1, <1>3, PayloadEquations
  <1>6. /\ g[0] = PayloadHead(L) /\ Payload(M) = g[n]
        /\ \A k \in 1 .. n : Joins(g[k], g[k - 1], SVPublisher_ASDU_encodeToBuffer(M[k]))
    <2>1. PayloadHead(M) = PayloadHead(L)
      BY SameLayoutsSamePlaces
    <2> QED
      BY <1>2, <1>3, <1>4, <2>1, PayloadEquations
  <1> DEFINE P(k) == /\ Piece(f[k], AsduAt(L, k)) /\ Piece(g[k], AsduAt(L, k))
                     /\ Agree(f[k], g[k], AsduAt(L, k), X) /\ Carries(f[k], L, k)
             S == {k \in 0 .. n : P(k)}
  <1>7. P(0)
    <2>1. Piece(PayloadHead(L), HeadSize(L)) /\ AsduAt(L, 0) = HeadSize(L)
      BY HeadIsPiece, AsduPlaces
    <2>2. Agree(f[0], g[0], AsduAt(L, 0), X)
      BY <1>5, <1>6, Zenon DEF Agree
    <2>3. Carries(f[0], L, 0)
      BY DEF Carries
    <2> QED
      BY <1>5, <1>6, <2>1, <2>2, <2>3, Zenon
  <1>8. ASSUME NEW k \in 1 .. n, P(k - 1) PROVE P(k)
    <2>1. k - 1 \in 0 .. n /\ k \in 0 .. n
      OBVIOUS
    <2>2. L[k] \in Asdu /\ M[k] \in Asdu /\ Fits(L[k]) /\ SameLayout(L[k], M[k])
      BY <1>1, <1>2, AsdusTyped, HeadIsPiece
    <2>3. PICK m \in Nat : m = AsduAt(L, k - 1)
      BY <1>1, <2>1, AsduPlaces
    <2>4. PICK z \in Nat : z = AsduLength(L[k])
      BY <2>2, Places
    <2>5. AsduAt(L, k) = m + z
      BY <1>1, <2>3, <2>4, AsduPlaces
    <2>6. PICK s, t : /\ s = SVPublisher_ASDU_encodeToBuffer(L[k])
                      /\ t = SVPublisher_ASDU_encodeToBuffer(M[k])
      OBVIOUS
    <2>7. Piece(s, z) /\ Piece(t, z) /\ Agree(s, t, z, Counters(L[k]))
      BY <2>2, <2>4, <2>6, AsduIsPiece
    <2>8. PICK s0, t0 : s0 = f[k - 1] /\ t0 = g[k - 1]
      OBVIOUS
    <2>9. PICK s1, t1 : s1 = f[k] /\ t1 = g[k]
      OBVIOUS
    <2>10. Joins(s1, s0, s) /\ Joins(t1, t0, t)
      BY <1>5, <1>6, <2>6, <2>8, <2>9, Zenon
    <2>11. Piece(s0, m) /\ Piece(t0, m) /\ Agree(s0, t0, m, X) /\ Carries(s0, L, k - 1)
      BY <1>8, <2>3, <2>8, Zenon
    <2>12. ASSUME NEW i \in 1 .. z, m + i \notin X PROVE s[i] = t[i]
      <3>1. i \notin Counters(L[k])
        <4>1. SUFFICES ASSUME i \in Counters(L[k]) PROVE m + i \in X
          BY <2>12
        <4>2. m + i \in Nat
          OBVIOUS
        <4> QED
          BY <1>1, <1>3, <2>3, <4>1, <4>2, Zenon DEF CounterPlaces
      <3> QED
        BY <2>7, <3>1 DEF Agree
    <2>13. /\ Piece(s1, m + z) /\ Piece(t1, m + z) /\ Agree(s1, t1, m + z, X)
           /\ \A i \in 1 .. m : s1[i] = s0[i]
           /\ \A i \in 1 .. z : s1[m + i] = s[i]
      BY <2>7, <2>10, <2>11, <2>12, AgreeJoined
    <2>14. ASSUME NEW j \in 1 .. k, NEW i \in 1 .. AsduLength(L[j])
           PROVE  s1[AsduAt(L, j - 1) + i] = SVPublisher_ASDU_encodeToBuffer(L[j])[i]
      <3>1. CASE j = k
        BY <2>3, <2>4, <2>6, <2>13, <3>1, Zenon
      <3>2. CASE j # k
        <4>1. j \in 1 .. k - 1 /\ j \in 0 .. k - 1 /\ j \in 1 .. n /\ j - 1 \in 0 .. n
          BY <3>2
        <4>2. PICK p \in Nat, y \in Nat : p = AsduAt(L, j - 1) /\ y = AsduLength(L[j])
          BY <1>1, <4>1, AsduPlaces, AsdusTyped, Places
        <4>3. p + y =< m
          <5>1. AsduAt(L, j) = p + y
            BY <1>1, <4>1, <4>2, AsduPlaces
          <5>2. AsduAt(L, j) =< AsduAt(L, k - 1)
            BY <1>1, <2>1, <4>1, AsduPlaces
          <5> QED
            BY <2>3, <5>1, <5>2
        <4>4. p + i \in 1 .. m
          BY <4>2, <4>3, SMTT(30)
        <4>5. s1[p + i] = s0[p + i]
          BY <2>13, <4>4
        <4>6. s0[p + i] = SVPublisher_ASDU_encodeToBuffer(L[j])[i]
          BY <2>11, <4>1, <4>2, Zenon DEF Carries
        <4> QED
          BY <4>2, <4>5, <4>6, Zenon
      <3> QED
        BY <3>1, <3>2
    <2>15. Carries(s1, L, k)
      BY <2>14, Zenon DEF Carries
    <2> QED
      BY <2>5, <2>9, <2>13, <2>15, Zenon
  <1> HIDE DEF P
  <1>9. 0 \in S /\ \A k \in 1 .. n : k - 1 \in S => k \in S
    BY <1>7, <1>8
  <1> HIDE DEF S
  <1>10. \A k \in 0 .. n : k \in S
    BY <1>9, InductionUpTo
  <1>11. \A k \in 0 .. n : P(k)
    BY <1>10 DEF S
  <1>12. n \in 0 .. n
    OBVIOUS
  <1>13. P(n)
    BY <1>11, <1>12, Zenon
  <1>14. ASSUME NEW k \in 0 .. n PROVE Len(f[k]) = AsduAt(L, k)
    BY <1>11, Zenon DEF P, Piece
  <1> QED
    BY <1>1, <1>3, <1>5, <1>6, <1>13, <1>14, Zenon DEF P

-----------------------------------------------------------------------------
\* The invariant.

\* The pointers of an ASDU name its fields in the payload it was laid out in.
PlacedAsdu(a, l, at) ==
    /\ a.dataSize = l.dataSize
    /\ a.smpCntBuf = at + SmpCntAt(l)
    /\ a.refrTm = IF l.hasRefrTm THEN at + RefrTmAt(l) ELSE NoPos
    /\ a.smpSynchBuf = at + SmpSynchAt(l)
    /\ a.dataBuffer = at + DataAt(l)

Placed(pub, L) ==
    /\ PayloadFits(L) /\ Len(L) = Len(pub.asduList)
    /\ \A j \in 1 .. Len(L) : PlacedAsdu(pub.asduList[j], L[j], AsduAt(L, j - 1))
    /\ pub.payloadLength = AsduAt(L, Len(L)) /\ pub.payloadLength =< BufferSize

\* Tags, lengths and the fields that are written once are in the buffer.
OctetsHeld(pub, L) ==
    \A p \in 1 .. pub.payloadLength :
        p \notin CounterPlaces(L) /\ Payload(L)[p] # Hole => pub.buffer[p] = Payload(L)[p]

CounterHeld(buffer, a) ==
    /\ buffer[a.smpCntBuf + 1] = a.smpCnt \div 256
    /\ buffer[a.smpCntBuf + 2] = a.smpCnt % 256
    /\ buffer[a.smpSynchBuf + 1] = a.smpSynch

ElementHeld(buffer, a, e) ==
    e.value # Unknown =>
        \A i \in 1 .. ElementSize[e.kind] :
            buffer[a.dataBuffer + e.index + i] = ElementOctets(e.kind, e.value)[i]

Held(pub, app) ==
    /\ OctetsHeld(pub, app.laid)
    /\ \A j \in 1 .. Len(pub.asduList) :
        /\ CounterHeld(pub.buffer, pub.asduList[j])
        /\ \A k \in 1 .. Len(app.asdus[j].elements) :
                ElementHeld(pub.buffer, pub.asduList[j], app.asdus[j].elements[k])

\* The elements of an ASDU lie one behind the other in its data.
ElementsFit(a, elements) ==
    \A k \in 1 .. Len(elements) :
        /\ elements[k].index + ElementSize[elements[k].kind] =< a.dataSize
        /\ \A m \in 1 .. k - 1 :
                elements[m].index + ElementSize[elements[m].kind] =< elements[k].index

\* An ASDU without a refresh time has no place for one, and a place is in the buffer.
TimePlaced(a) ==
    /\ ~a.hasRefrTm => a.refrTm = NoPos
    /\ a.refrTm # NoPos => a.refrTm + 8 =< BufferSize

LayoutInv ==
    /\ TypeInv
    /\ \A j \in 1 .. Len(svPub.asduList) :
        /\ ElementsFit(svPub.asduList[j], svApp.asdus[j].elements)
        /\ TimePlaced(svPub.asduList[j])
    /\ svApp.ready => Placed(svPub, svApp.laid) /\ Held(svPub, svApp)

-----------------------------------------------------------------------------
\* Every octet of every ASDU has a place of its own in the payload.
LEMMA Slots ==
  ASSUME NEW L \in Seq(Asdu), PayloadFits(L),
         NEW j \in 1 .. Len(L), NEW x \in 1 .. AsduLength(L[j])
  PROVE  /\ AsduAt(L, j - 1) \in Nat /\ AsduLength(L[j]) \in Nat
         /\ AsduAt(L, j - 1) + x \in 1 .. AsduAt(L, Len(L))
         /\ \A k \in 1 .. Len(L) : \A y \in 1 .. AsduLength(L[k]) :
                AsduAt(L, j - 1) + x = AsduAt(L, k - 1) + y => j = k /\ x = y
  <1>1. PICK n \in Nat : n = Len(L)
    BY AsdusTyped
  <1>2. \A k \in 1 .. n : AsduLength(L[k]) \in Nat
    BY <1>1, AsdusTyped, Places
  <1>3. /\ \A k \in 0 .. n : AsduAt(L, k) \in Nat
        /\ \A k \in 1 .. n : AsduAt(L, k) = AsduAt(L, k - 1) + AsduLength(L[k])
        /\ \A k \in 0 .. n : \A i \in 0 .. k : AsduAt(L, i) =< AsduAt(L, k)
    BY <1>1, AsduPlaces
  <1>4. j \in 1 .. n /\ j \in 0 .. n /\ j - 1 \in 0 .. n /\ j \in 0 .. n /\ n \in 0 .. n
    BY <1>1
  <1>5. PICK p \in Nat, z \in Nat : p = AsduAt(L, j - 1) /\ z = AsduLength(L[j])
    BY <1>2, <1>3, <1>4
  <1>6. AsduAt(L, j) = p + z
    BY <1>3, <1>4, <1>5
  <1>7. AsduAt(L, j) =< AsduAt(L, n) /\ AsduAt(L, n) \in Nat
    BY <1>3, <1>4
  <1>8. p + x \in 1 .. AsduAt(L, n)
    BY <1>5, <1>6, <1>7
  <1>9. ASSUME NEW k \in 1 .. n, NEW y \in 1 .. AsduLength(L[k]),
               AsduAt(L, j - 1) + x = AsduAt(L, k - 1) + y
        PROVE  j = k /\ x = y
    <2>1. k \in 0 .. n /\ k - 1 \in 0 .. n
      OBVIOUS
    <2>2. PICK q \in Nat, w \in Nat : q = AsduAt(L, k - 1) /\ w = AsduLength(L[k])
      BY <1>2, <1>3, <2>1
    <2>3. AsduAt(L, k) = q + w
      BY <1>3, <2>2
    <2>4. p + x = q + y /\ x \in 1 .. z /\ y \in 1 .. w
      BY <1>5, <1>9, <2>2
    <2>5. ~(j < k)
      <3>1. SUFFICES ASSUME j < k PROVE FALSE
        OBVIOUS
      <3>2. j \in 0 .. k - 1
        BY <1>4, <3>1
      <3>3. AsduAt(L, j) =< AsduAt(L, k - 1)
        BY <1>3, <2>1, <3>2
      <3>4. p + z =< q
        BY <1>6, <2>2, <3>3
      <3> QED
        BY <2>4, <3>4
    <2>6. ~(k < j)
      <3>1. SUFFICES ASSUME k < j PROVE FALSE
        OBVIOUS
      <3>2. k \in 0 .. j - 1
        BY <1>4, <3>1
      <3>3. AsduAt(L, k) =< AsduAt(L, j - 1)
        BY <1>3, <1>4, <3>2
      <3>4. q + w =< p
        BY <1>5, <2>3, <3>3
      <3> QED
        BY <2>4, <3>4
    <2>7. j = k
      BY <1>4, <2>5, <2>6
    <2>8. p = q
      BY <1>5, <2>2, <2>7
    <2> QED
      BY <2>4, <2>7, <2>8
  <1> QED
    BY <1>1, <1>5, <1>8, <1>9

-----------------------------------------------------------------------------
\* The fields of an ASDU that are written later, counted from 1.
Fields == {"smpCnt", "smpSynch", "data", "refrTm"}

Field(a, name) ==
    {x \in 1 .. AsduLength(a) :
        \/ name = "smpCnt" /\ (x = SmpCntAt(a) + 1 \/ x = SmpCntAt(a) + 2)
        \/ name = "smpSynch" /\ x = SmpSynchAt(a) + 1
        \/ name = "data" /\ \E i \in 1 .. a.dataSize : x = DataAt(a) + i
        \/ name = "refrTm" /\ a.hasRefrTm /\ \E i \in 1 .. 8 : x = RefrTmAt(a) + i}

\* The fields of an ASDU the publisher may write again lie apart from each other.
LEMMA FieldsApart ==
  ASSUME NEW a \in Asdu
  PROVE  /\ SmpCntAt(a) + 1 \in Field(a, "smpCnt") /\ SmpCntAt(a) + 2 \in Field(a, "smpCnt")
         /\ SmpSynchAt(a) + 1 \in Field(a, "smpSynch")
         /\ \A i \in 1 .. a.dataSize : DataAt(a) + i \in Field(a, "data")
         /\ a.hasRefrTm => \A i \in 1 .. 8 : RefrTmAt(a) + i \in Field(a, "refrTm")
         /\ \A f, g \in Fields : f = g \/ Field(a, f) \cap Field(a, g) = {}
  <1>1. PICK p \in Nat, q \in Nat : p = SmpCntAt(a) /\ q = SmpSynchAt(a)
    BY Places
  <1>2. PICK r \in Nat, t \in Nat : r = RefrTmAt(a) /\ t = DataAt(a)
    BY Places
  <1>3. PICK d \in Nat, z \in Nat : d = a.dataSize /\ z = AsduLength(a)
    BY AsduTyped, Places
  <1>4. /\ p + 8 =< r /\ r + 2 =< q /\ q + 3 =< t /\ t + d =< z
        /\ a.hasRefrTm => r + 10 = q
    BY <1>1, <1>2, <1>3, Places
  <1>5. /\ p + 1 \in 1 .. z /\ p + 2 \in 1 .. z /\ q + 1 \in 1 .. z
        /\ \A i \in 1 .. d : t + i \in 1 .. z
        /\ a.hasRefrTm => \A i \in 1 .. 8 : r + i \in 1 .. z
    BY <1>4
  <1>6. SmpCntAt(a) + 1 \in Field(a, "smpCnt") /\ SmpCntAt(a) + 2 \in Field(a, "smpCnt")
    BY <1>1, <1>3, <1>5 DEF Field
  <1>7. SmpSynchAt(a) + 1 \in Field(a, "smpSynch")
    BY <1>1, <1>3, <1>5 DEF Field
  <1>8. \A i \in 1 .. a.dataSize : DataAt(a) + i \in Field(a, "data")
    BY <1>2, <1>3, <1>5 DEF Field
  <1>9. a.hasRefrTm => \A i \in 1 .. 8 : RefrTmAt(a) + i \in Field(a, "refrTm")
    BY <1>2, <1>3, <1>5 DEF Field
  <1>10. \A x \in Field(a, "smpCnt") : x = p + 1 \/ x = p + 2
    BY <1>1 DEF Field
  <1>11. \A x \in Field(a, "smpSynch") : x = q + 1
    BY <1>1 DEF Field
  <1>12. \A x \in Field(a, "data") : x > t
    BY <1>2, <1>3 DEF Field
  <1>13. \A x \in Field(a, "refrTm") : x > r /\ x =< r + 8 /\ r + 10 = q
    BY <1>2, <1>4 DEF Field
  <1>14. \A f \in Fields : \A x \in Field(a, f) : x \in Nat
    BY <1>3 DEF Field
  <1>15. ASSUME NEW f \in Fields, NEW g \in Fields, f # g, NEW x,
                x \in Field(a, f), x \in Field(a, g)
         PROVE  FALSE
    <2>1. x \in Nat
      BY <1>14, <1>15
    <2>2. /\ f = "smpCnt" \/ g = "smpCnt" => x = p + 1 \/ x = p + 2
          /\ f = "smpSynch" \/ g = "smpSynch" => x = q + 1
          /\ f = "data" \/ g = "data" => x > t
          /\ f = "refrTm" \/ g = "refrTm" => x > r /\ x =< r + 8 /\ r + 10 = q
      BY <1>10, <1>11, <1>12, <1>13, <1>15
    <2>3. f \in {"smpCnt", "smpSynch", "data", "refrTm"}
          /\ g \in {"smpCnt", "smpSynch", "data", "refrTm"}
      BY DEF Fields
    <2> QED
      BY <1>4, <1>15, <2>1, <2>2, <2>3
  <1> QED
    BY <1>6, <1>7, <1>8, <1>9, <1>15

\* What is written again is a counter, or left open by the encoding.
LEMMA FieldsOpen ==
  ASSUME NEW a \in Asdu, Fits(a), NEW f \in Fields, NEW x \in Field(a, f)
  PROVE  x \in Counters(a) \/ SVPublisher_ASDU_encodeToBuffer(a)[x] = Hole
  <1>1. SameLayout(a, a)
    BY DEF SameLayout
  <1>2. /\ TimeOpen(SVPublisher_ASDU_encodeToBuffer(a), a)
        /\ DataOpen(SVPublisher_ASDU_encodeToBuffer(a), a)
    BY <1>1, AsduIsPiece
  <1>3. f \in {"smpCnt", "smpSynch", "data", "refrTm"}
    BY DEF Fields
  <1>4. CASE f = "smpCnt"
    BY <1>4 DEF Field, Counters
  <1>5. CASE f = "smpSynch"
    BY <1>5 DEF Field, Counters
  <1>6. CASE f = "data"
    <2>1. PICK i \in 1 .. a.dataSize : x = DataAt(a) + i
      BY <1>6 DEF Field
    <2> QED
      BY <1>2, <2>1, Zenon DEF DataOpen
  <1>7. CASE f = "refrTm"
    <2>1. PICK i \in 1 .. 8 : a.hasRefrTm /\ x = RefrTmAt(a) + i
      BY <1>7 DEF Field
    <2> QED
      BY <1>2, <2>1, Zenon DEF TimeOpen
  <1> QED
    BY <1>3, <1>4, <1>5, <1>6, <1>7

-----------------------------------------------------------------------------
\* The octets a pointer may be used to write belong to the field it names.
LEMMA WritableInField ==
  ASSUME NEW a, NEW l \in Asdu, NEW at \in Nat, PlacedAsdu(a, l, at),
         NEW f \in Fields, NEW p \in Writable(a, l)[f]
  PROVE  \E x \in Field(l, f) : p = at + x - 1
  <1>1. PICK c \in Nat, q \in Nat : c = SmpCntAt(l) /\ q = SmpSynchAt(l)
    BY Places
  <1>2. PICK r \in Nat, t \in Nat : r = RefrTmAt(l) /\ t = DataAt(l)
    BY Places
  <1>3. PICK d \in Nat : d = l.dataSize
    BY AsduTyped
  <1>4. f \in {"smpCnt", "smpSynch", "data", "refrTm"}
    BY DEF Fields
  <1>5. CASE f = "smpCnt"
    <2>1. p \in a.smpCntBuf .. a.smpCntBuf + 1
      BY <1>5 DEF Writable
    <2>2. p = at + (c + 1) - 1 \/ p = at + (c + 2) - 1
      BY <1>1, <2>1 DEF PlacedAsdu
    <2>3. c + 1 \in Field(l, f) /\ c + 2 \in Field(l, f)
      BY <1>1, <1>5, FieldsApart
    <2> QED
      BY <2>2, <2>3
  <1>6. CASE f = "smpSynch"
    <2>1. p = a.smpSynchBuf
      BY <1>6 DEF Writable
    <2>2. p = at + (q + 1) - 1
      BY <1>1, <2>1 DEF PlacedAsdu
    <2>3. q + 1 \in Field(l, f)
      BY <1>1, <1>6, FieldsApart
    <2> QED
      BY <2>2, <2>3
  <1>7. CASE f = "data"
    <2>1. p \in a.dataBuffer .. a.dataBuffer + l.dataSize - 1
      BY <1>7 DEF Writable
    <2>2. p \in at + t .. at + t + d - 1
      BY <1>2, <1>3, <2>1 DEF PlacedAsdu
    <2>3. PICK i \in 1 .. d : p = at + (t + i) - 1
      <3>1. p - (at + t) + 1 \in 1 .. d /\ p = at + (t + (p - (at + t) + 1)) - 1
        BY <2>2
      <3> QED
        BY <3>1
    <2>4. t + i \in Field(l, f)
      BY <1>2, <1>3, <1>7, FieldsApart
    <2> QED
      BY <2>3, <2>4
  <1>8. CASE f = "refrTm"
    <2>1. p \in IF l.hasRefrTm THEN a.refrTm .. a.refrTm + 7 ELSE {}
      BY <1>8 DEF Writable
    <2>2. l.hasRefrTm /\ p \in at + r .. at + r + 7
      BY <1>2, <2>1 DEF PlacedAsdu
    <2>3. PICK i \in 1 .. 8 : p = at + (r + i) - 1
      <3>1. p - (at + r) + 1 \in 1 .. 8 /\ p = at + (r + (p - (at + r) + 1)) - 1
        BY <2>2
      <3> QED
        BY <3>1
    <2>4. r + i \in Field(l, f)
      BY <1>2, <1>8, <2>2, FieldsApart
    <2> QED
      BY <2>3, <2>4
  <1> QED
    BY <1>4, <1>5, <1>6, <1>7, <1>8

\* What is known of the ASDUs of a complete layout.
LEMMA LaidTyped ==
  ASSUME TypeInv, Placed(svPub, svApp.laid)
  PROVE  /\ svApp.laid \in Seq(Asdu) /\ Len(svApp.laid) \in Nat
         /\ Asdus = 1 .. Len(svApp.laid) /\ PayloadFits(svApp.laid)
         /\ \A j \in 1 .. Len(svApp.laid) :
                /\ svApp.laid[j] \in Asdu /\ Fits(svApp.laid[j])
                /\ AsduAt(svApp.laid, j - 1) \in Nat
                /\ PlacedAsdu(svPub.asduList[j], svApp.laid[j], AsduAt(svApp.laid, j - 1))
  <1>1. svApp.laid \in Seq(Asdu)
    BY DEF TypeInv, Application
  <1>2. Len(svApp.laid) \in Nat /\ \A j \in 1 .. Len(svApp.laid) : svApp.laid[j] \in Asdu
    BY <1>1, AsdusTyped
  <1>3. PayloadFits(svApp.laid) /\ Len(svApp.laid) = Len(svPub.asduList)
        /\ \A j \in 1 .. Len(svApp.laid) :
              PlacedAsdu(svPub.asduList[j], svApp.laid[j], AsduAt(svApp.laid, j - 1))
    BY DEF Placed
  <1>4. ASSUME NEW j \in 1 .. Len(svApp.laid) PROVE AsduAt(svApp.laid, j - 1) \in Nat
    <2>1. j - 1 \in 0 .. Len(svApp.laid)
      BY <1>2
    <2> QED
      BY <1>1, <1>3, <2>1, AsduPlaces
  <1> QED
    BY <1>1, <1>2, <1>3, <1>4, HeadIsPiece DEF Asdus

\* The invariant implies that the sizes computed are right.
LEMMA PlacedSizes ==
  ASSUME TypeInv, Placed(svPub, svApp.laid)
  PROVE  SizesComputed
  <1>1. PICK L : L = svApp.laid
    OBVIOUS
  <1>2. L \in Seq(Asdu) /\ PayloadFits(L) /\ Asdus = 1 .. Len(L)
        /\ \A j \in 1 .. Len(L) : L[j] \in Asdu /\ Fits(L[j])
    BY <1>1, LaidTyped
  <1>3. svPub.payloadLength = 1 + BerEncoder_determineLengthSize(InnerSize(L)) + InnerSize(L)
    BY <1>1, <1>2, AsduPlaces DEF Placed
  <1>4. ASSUME NEW j \in 1 .. Len(L)
        PROVE  Len(SVPublisher_ASDU_encodeToBuffer(L[j])) = AsduLength(L[j])
    <2>1. SameLayout(L[j], L[j])
      BY DEF SameLayout
    <2> QED
      BY <1>2, <2>1, AsduIsPiece DEF Piece
  <1> QED
    BY <1>1, <1>2, <1>3, <1>4, Zenon DEF SizesComputed

\* The invariant implies that the areas the pointers name lie apart.
LEMMA PlacedApart ==
  ASSUME TypeInv, Placed(svPub, svApp.laid)
  PROVE  AreasApart
  <1>1. PICK L : L = svApp.laid
    OBVIOUS
  <1>2. L \in Seq(Asdu) /\ PayloadFits(L) /\ Asdus = 1 .. Len(L)
        /\ \A j \in 1 .. Len(L) :
              /\ L[j] \in Asdu /\ AsduAt(L, j - 1) \in Nat
              /\ PlacedAsdu(svPub.asduList[j], L[j], AsduAt(L, j - 1))
    BY <1>1, LaidTyped
  <1>3. ASSUME NEW j \in Asdus, NEW f \in Fields, NEW p \in Writable(svPub.asduList[j], L[j])[f]
        PROVE  \E x \in Field(L[j], f) : p = AsduAt(L, j - 1) + x - 1
    BY <1>2, WritableInField
  <1>4. ASSUME NEW j \in Asdus, NEW f \in Fields, NEW k \in Asdus, NEW g \in Fields,
               NEW p \in Writable(svPub.asduList[j], L[j])[f],
               p \in Writable(svPub.asduList[k], L[k])[g]
        PROVE  j = k /\ f = g
    <2>1. PICK x \in Field(L[j], f) : p = AsduAt(L, j - 1) + x - 1
      BY <1>3
    <2>2. PICK y \in Field(L[k], g) : p = AsduAt(L, k - 1) + y - 1
      BY <1>3, <1>4
    <2>3. x \in 1 .. AsduLength(L[j]) /\ y \in 1 .. AsduLength(L[k])
      BY DEF Field
    <2>4. AsduAt(L, j - 1) + x = AsduAt(L, k - 1) + y
      <3>1. PICK a \in Nat, b \in Nat : a = AsduAt(L, j - 1) /\ b = AsduAt(L, k - 1)
        BY <1>2
      <3>2. x \in Nat /\ y \in Nat
        <4>1. L[j] \in Asdu /\ L[k] \in Asdu
          BY <1>2
        <4>2. AsduLength(L[j]) \in Nat /\ AsduLength(L[k]) \in Nat
          BY <4>1, Places
        <4> QED
          BY <2>3, <4>2
      <3> QED
        BY <2>1, <2>2, <3>1, <3>2
    <2>5. j = k /\ x = y
      BY <1>2, <2>3, <2>4, Slots
    <2>6. x \in Field(L[j], f) \cap Field(L[j], g)
      BY <2>5
    <2>7. f = g
      BY <1>2, <2>6, FieldsApart
    <2> QED
      BY <2>5, <2>7
  <1>5. ASSUME NEW j \in Asdus, NEW f \in Fields, NEW p \in Writable(svPub.asduList[j], L[j])[f]
        PROVE  p \in 0 .. svPub.payloadLength - 1
    <2>1. PICK x \in Field(L[j], f) : p = AsduAt(L, j - 1) + x - 1
      BY <1>3
    <2>2. x \in 1 .. AsduLength(L[j])
      BY DEF Field
    <2>3. AsduAt(L, j - 1) + x \in 1 .. AsduAt(L, Len(L)) /\ AsduAt(L, j - 1) \in Nat
      BY <1>2, <2>2, Slots
    <2>4. svPub.payloadLength = AsduAt(L, Len(L))
      BY <1>1 DEF Placed
    <2>5. x \in Nat
      BY <1>2, <2>2, Places
    <2>6. AsduAt(L, Len(L)) \in Nat
      BY <2>4 DEF TypeInv, Publisher
    <2> QED
      BY <2>1, <2>3, <2>4, <2>5, <2>6
  <1> DEFINE areas == [j \in Asdus |-> Writable(svPub.asduList[j], svApp.laid[j])]
             all == Asdus \X {"smpCnt", "smpSynch", "data", "refrTm"}
  <1>6. \A j \in Asdus : areas[j] = Writable(svPub.asduList[j], L[j])
    BY <1>1
  <1> HIDE DEF areas
  <1>7. ASSUME NEW x \in all, NEW y \in all PROVE x = y \/ areas[x[1]][x[2]] \cap areas[y[1]][y[2]] = {}
    <2>1. PICK j \in Asdus, f \in Fields : x = <<j, f>>
      BY DEF Fields
    <2>2. PICK k \in Asdus, g \in Fields : y = <<k, g>>
      BY DEF Fields
    <2>3. SUFFICES ASSUME NEW p, p \in areas[j][f], p \in areas[k][g] PROVE j = k /\ f = g
      BY <2>1, <2>2
    <2> QED
      BY <1>4, <1>6, <2>3
  <1>8. ASSUME NEW x \in all PROVE areas[x[1]][x[2]] \subseteq 0 .. svPub.payloadLength - 1
    <2>1. PICK j \in Asdus, f \in Fields : x = <<j, f>>
      BY DEF Fields
    <2>2. areas[j][f] \subseteq 0 .. svPub.payloadLength - 1
      BY <1>5, <1>6
    <2> QED
      BY <2>1, <2>2
  <1> QED
    BY <1>7, <1>8, Zenon DEF AreasApart, areas

\* An ASDU with other counters.
Recounts(c, a, x, y) == c = [a EXCEPT !.smpCnt = x, !.smpSynch = y]

\* An ASDU with other counters has the same layout.
LEMMA Recounted ==
  ASSUME NEW a \in Asdu, NEW x \in Nat, NEW y \in Nat, NEW c, Recounts(c, a, x, y)
  PROVE  c \in Asdu /\ SameLayout(a, c) /\ c.smpCnt = x /\ c.smpSynch = y
  <1>1. c \in Asdu
    BY DEF Asdu, Recounts
  <1>2. SameLayout(a, c) /\ c.smpCnt = x /\ c.smpSynch = y
    BY DEF Asdu, SameLayout, Recounts
  <1> QED
    BY <1>1, <1>2

\* A value of an element is written in as many octets as SVPublisher_ASDU_add*
\* reserve.
LEMMA ElementOctetsArePiece ==
  ASSUME NEW kind \in DOMAIN ElementValues, NEW v \in ElementValues[kind]
  PROVE  /\ ElementSize[kind] \in Nat \ {0} /\ Piece(ElementOctets(kind, v), ElementSize[kind])
         /\ v # Unknown
  <1>1. /\ kind \in DOMAIN ElementSize /\ v \in Seq(Nat)
        /\ Len(v) = IF kind = "Quality" THEN 1 ELSE ElementSize[kind]
    BY SvLayoutAssumption DEF Memory
  <1>2. kind \in {"INT8", "INT32", "INT64", "FLOAT", "FLOAT64", "Timestamp", "Quality"}
    BY <1>1 DEF ElementSize
  <1>3. ElementSize[kind] \in {1, 4, 8}
    BY <1>2 DEF ElementSize
  <1>4. v \in Seq(Int) /\ v # Unknown /\ Len(v) \in Nat
    <2>1. Len(v) # 0
      BY <1>1, <1>3
    <2>2. Nat \subseteq Int
      OBVIOUS
    <2> QED
      BY <1>1, <2>1, <2>2, SeqMonotonic, LenProperties, EmptySeq DEF Unknown
  <1>5. CASE kind = "Quality"
    <2>1. v[1] \in Nat
      <3>1. v \in Seq(Nat) /\ 1 \in 1 .. Len(v)
        BY <1>1, <1>5
      <3> QED
        BY <3>1, ElementOfSeq
    <2>2. PICK n \in Nat : n = v[1]
      BY <2>1
    <2>3. PICK p \in Int, q \in Int : p = n \div 256 /\ q = n % 256
      BY QuotientsAreNumbers
    <2>4. ElementOctets(kind, v) = <<0, 0, p, q>>
      BY <1>5, <2>2, <2>3, Zenon DEF ElementOctets
    <2>5. Piece(<<0, 0, p, q>>, 4)
      BY DEF Piece
    <2>6. ElementSize[kind] = 4
      BY <1>5 DEF ElementSize
    <2> QED
      BY <1>3, <1>4, <2>4, <2>5, <2>6
  <1>6. CASE kind = "Timestamp"
    <2>1. ElementOctets(kind, v) = v
      BY <1>6 DEF ElementOctets
    <2> QED
      BY <1>1, <1>3, <1>4, <1>6, <2>1 DEF Piece
  <1>7. CASE kind # "Quality" /\ kind # "Timestamp"
    <2>1. ElementOctets(kind, v) = Reverse(v)
      BY <1>7 DEF ElementOctets
    <2>2. PICK n \in Nat : n = Len(v) /\ n = ElementSize[kind]
      BY <1>1, <1>4, <1>7
    <2>3. \A i \in 1 .. n : v[(n - i) + 1] \in Int
      <3> TAKE i \in 1 .. n
      <3>1. (n - i) + 1 \in 1 .. n
        OBVIOUS
      <3> QED
        BY <1>4, <2>2, <3>1, ElementOfSeq
    <2>4. [i \in 1 .. n |-> v[(n - i) + 1]] \in [1 .. n -> Int]
      BY <2>3
    <2>5. \A q \in [1 .. n -> Int] : q \in Seq(Int) /\ Len(q) = n
      OBVIOUS
    <2>6. Reverse(v) = [i \in 1 .. n |-> v[(n - i) + 1]]
      BY <2>2, Zenon DEF Reverse
    <2>7. Piece(Reverse(v), n)
      BY <2>4, <2>5, <2>6, Zenon DEF Piece
    <2> QED
      BY <1>3, <1>4, <2>1, <2>2, <2>7
  <1> QED
    BY <1>5, <1>6, <1>7

\* The invariant implies that the payload is the encoding of the ASDUs as they
\* are, with the elements that were set.
LEMMA HeldCurrent ==
  ASSUME TypeInv, Placed(svPub, svApp.laid), Held(svPub, svApp)
  PROVE  PayloadCurrent
  <1>1. PICK L, M : L = svApp.laid /\ M = CurrentAsdus
    OBVIOUS
  <1>2. PICK n \in Nat : n = Len(L)
    BY <1>1, LaidTyped
  <1>3. L \in Seq(Asdu) /\ PayloadFits(L) /\ Asdus = 1 .. n /\ n = Len(svPub.asduList)
        /\ \A j \in 1 .. n :
              /\ L[j] \in Asdu /\ Fits(L[j]) /\ AsduAt(L, j - 1) \in Nat
              /\ PlacedAsdu(svPub.asduList[j], L[j], AsduAt(L, j - 1))
    BY <1>1, <1>2, LaidTyped DEF Placed
  <1>4. \A j \in 1 .. n : svPub.asduList[j] \in Asdu
    BY <1>3, AsdusTyped DEF TypeInv, Publisher
  <1>5. M = [j \in 1 .. n |-> [L[j] EXCEPT !.smpCnt = svPub.asduList[j].smpCnt,
                                          !.smpSynch = svPub.asduList[j].smpSynch]]
    BY <1>1, <1>3, Zenon DEF CurrentAsdus
  <1>6. ASSUME NEW j \in 1 .. n
        PROVE  /\ M[j] \in Asdu /\ SameLayout(L[j], M[j])
               /\ M[j].smpCnt = svPub.asduList[j].smpCnt
               /\ M[j].smpSynch = svPub.asduList[j].smpSynch
    <2>1. PICK x \in Nat, y \in Nat :
             x = svPub.asduList[j].smpCnt /\ y = svPub.asduList[j].smpSynch
      BY <1>4, AsduTyped
    <2>2. PICK c : c = M[j]
      OBVIOUS
    <2>3. Recounts(c, L[j], x, y)
      BY <1>5, <2>1, <2>2, Zenon DEF Recounts
    <2>4. L[j] \in Asdu
      BY <1>3
    <2> QED
      <3>1. c \in Asdu /\ SameLayout(L[j], c) /\ c.smpCnt = x /\ c.smpSynch = y
        BY <2>3, <2>4, Recounted
      <3> QED
        BY <2>1, <2>2, <3>1, Zenon
  <1>7. M \in Seq(Asdu) /\ Len(M) = n
    <2>1. M \in [1 .. n -> Asdu]
      <3>1. DOMAIN M = 1 .. n /\ M = [j \in DOMAIN M |-> M[j]]
        BY <1>5
      <3> QED
        BY <1>6, <3>1, Zenon
    <2>2. \A q \in [1 .. n -> Asdu] : q \in Seq(Asdu) /\ Len(q) = n
      OBVIOUS
    <2> QED
      BY <2>1, <2>2
  <1>8. SameLayouts(L, M) /\ SameLayouts(M, M)
    <2>1. \A j \in 1 .. n : SameLayout(M[j], M[j])
      BY Zenon DEF SameLayout
    <2> QED
      BY <1>2, <1>6, <1>7, <2>1 DEF SameLayouts
  <1>9. PayloadFits(M) /\ \A k \in 0 .. n : AsduAt(M, k) = AsduAt(L, k)
    BY <1>2, <1>3, <1>7, <1>8, SameLayoutsSamePlaces
  <1>10. PICK e : e = AsduAt(L, n)
    OBVIOUS
  <1>11. e = svPub.payloadLength /\ e \in Nat
    BY <1>1, <1>2, <1>10 DEF Placed, TypeInv, Publisher
  <1>12. PICK s, t : s = Payload(L) /\ t = Payload(M)
    OBVIOUS
  <1>13. Piece(t, e) /\ Agree(s, t, e, CounterPlaces(L))
    BY <1>2, <1>3, <1>7, <1>8, <1>10, <1>12, PayloadOctets
  <1>14. Carries(t, M, n)
    BY <1>7, <1>8, <1>9, <1>12, PayloadOctets
  <1>15. ASSUME NEW p \in 1 .. e, t[p] # Hole PROVE svPub.buffer[p] = t[p]
    <2>1. CASE p \notin CounterPlaces(L)
      <3>1. s[p] = t[p]
        BY <1>13, <2>1 DEF Agree
      <3> QED
        BY <1>1, <1>11, <1>12, <1>15, <2>1, <3>1, Zenon DEF Held, OctetsHeld
    <2>2. CASE p \in CounterPlaces(L)
      <3>1. PICK j \in 1 .. n : \E x \in Counters(L[j]) : p = AsduAt(L, j - 1) + x
        BY <1>2, <2>2 DEF CounterPlaces
      <3>0. PICK x \in Counters(L[j]) : p = AsduAt(L, j - 1) + x
        BY <3>1
      <3>2. j - 1 \in 0 .. n
        OBVIOUS
      <3>3. PICK at \in Nat : at = AsduAt(L, j - 1) /\ at = AsduAt(M, j - 1)
        BY <1>3, <1>9, <3>2
      <3>4. L[j] \in Asdu /\ M[j] \in Asdu /\ SameLayout(L[j], M[j]) /\ Fits(L[j])
        BY <1>3, <1>6
      <3>5. AsduLength(M[j]) = AsduLength(L[j]) /\ SmpCntAt(M[j]) = SmpCntAt(L[j])
            /\ SmpSynchAt(M[j]) = SmpSynchAt(L[j])
        BY <3>4, SameLayoutSameSize, SameLayoutSamePlaces
      <3>6. x \in 1 .. AsduLength(L[j])
        <4>1. /\ SmpCntAt(L[j]) + 1 \in 1 .. AsduLength(L[j])
              /\ SmpCntAt(L[j]) + 2 \in 1 .. AsduLength(L[j])
              /\ SmpSynchAt(L[j]) + 1 \in 1 .. AsduLength(L[j])
          BY <3>4, FieldsApart DEF Field
        <4> QED
          BY <4>1 DEF Counters
      <3>7. t[at + x] = SVPublisher_ASDU_encodeToBuffer(M[j])[x]
        BY <1>14, <3>3, <3>5, <3>6, Zenon DEF Carries
      <3>8. /\ CountHeld(SVPublisher_ASDU_encodeToBuffer(M[j]), M[j])
            /\ SynchHeld(SVPublisher_ASDU_encodeToBuffer(M[j]), M[j])
        <4>1. Fits(M[j])
          BY <1>2, <1>7, <1>9, HeadIsPiece
        <4>2. SameLayout(M[j], M[j])
          BY Zenon DEF SameLayout
        <4> QED
          BY <3>4, <4>1, <4>2, AsduIsPiece
      <3>9. CounterHeld(svPub.buffer, svPub.asduList[j])
        BY <1>3 DEF Held
      <3>10. PICK c \in Nat, q \in Nat : c = SmpCntAt(L[j]) /\ q = SmpSynchAt(L[j])
        BY <3>4, Places
      <3>11. svPub.asduList[j].smpCntBuf = at + c /\ svPub.asduList[j].smpSynchBuf = at + q
        BY <1>3, <3>3, <3>10, Zenon DEF PlacedAsdu
      <3>12. /\ at + c + 1 = at + (c + 1) /\ at + c + 2 = at + (c + 2)
             /\ at + q + 1 = at + (q + 1)
        OBVIOUS
      <3>13. /\ svPub.buffer[at + (c + 1)] = M[j].smpCnt \div 256
             /\ svPub.buffer[at + (c + 2)] = M[j].smpCnt % 256
             /\ svPub.buffer[at + (q + 1)] = M[j].smpSynch
        BY <1>6, <3>9, <3>11, <3>12, ZenonT(40) DEF CounterHeld
      <3>14. PICK enc : enc = SVPublisher_ASDU_encodeToBuffer(M[j])
        OBVIOUS
      <3>15. enc[c + 1] = M[j].smpCnt \div 256 /\ enc[c + 2] = M[j].smpCnt % 256
             /\ enc[q + 1] = M[j].smpSynch
        BY <3>5, <3>8, <3>10, <3>14, Zenon DEF CountHeld, SynchHeld
      <3>16. x = c + 1 \/ x = c + 2 \/ x = q + 1
        BY <3>10 DEF Counters
      <3>17. svPub.buffer[at + x] = enc[x]
        BY <3>13, <3>15, <3>16, Zenon
      <3> QED
        BY <3>0, <3>3, <3>7, <3>14, <3>17, Zenon
    <2> QED
      BY <2>1, <2>2
  <1>16. ASSUME NEW j \in Asdus, NEW k \in DOMAIN svApp.asdus[j].elements
         PROVE  LET el == svApp.asdus[j].elements[k]
                    v == ElementOctets(el.kind, el.value)
                IN  el.value # Unknown =>
                        \A i \in 1 .. Len(v) :
                            svPub.buffer[svPub.asduList[j].dataBuffer + el.index + i] = v[i]
    <2>1. svApp.asdus \in Seq(Known) /\ Len(svApp.asdus) = n
      BY <1>3 DEF TypeInv, Application
    <2>2. svApp.asdus[j] \in Known
      BY <1>3, <2>1, ElementOfSeq
    <2>3. PICK els \in Seq(Element) : els = svApp.asdus[j].elements
      BY <2>2 DEF Known
    <2>4. k \in 1 .. Len(els)
      BY <2>3, LenProperties
    <2>5. PICK el \in Element : el = els[k]
      BY <2>4, ElementOfSeq
    <2>6. el.kind \in DOMAIN ElementValues /\ (el.value = Unknown \/ el.value \in ElementValues[el.kind])
      BY DEF Element
    <2>7. ElementHeld(svPub.buffer, svPub.asduList[j], el)
      BY <1>3, <2>3, <2>4, <2>5, Zenon DEF Held
    <2>8. CASE el.value \in ElementValues[el.kind]
      <3>1. Len(ElementOctets(el.kind, el.value)) = ElementSize[el.kind]
        BY <2>6, <2>8, ElementOctetsArePiece DEF Piece
      <3> QED
        BY <2>3, <2>5, <2>7, <3>1, Zenon DEF ElementHeld
    <2>9. CASE el.value = Unknown
      BY <2>3, <2>5, <2>9, Zenon
    <2> QED
      BY <2>6, <2>8, <2>9
  <1>17. Len(t) = e
    BY <1>13 DEF Piece
  <1> QED
    BY <1>1, <1>11, <1>12, <1>15, <1>16, <1>17, Zenon DEF PayloadCurrent

-----------------------------------------------------------------------------
\* A call for ASDU j that leaves the layout alone and writes to the octets W.
SamePlaces(a, b) ==
    /\ b.dataSize = a.dataSize /\ b.smpCntBuf = a.smpCntBuf /\ b.refrTm = a.refrTm
    /\ b.smpSynchBuf = a.smpSynchBuf /\ b.dataBuffer = a.dataBuffer
    /\ a.hasRefrTm => b.hasRefrTm

Wrote(pub, pub2, j, W) ==
    /\ pub2 \in Publisher /\ Len(pub2.buffer) = Len(pub.buffer)
    /\ pub2.payloadLength = pub.payloadLength
    /\ Len(pub2.asduList) = Len(pub.asduList)
    /\ \A k \in 1 .. Len(pub.asduList) : k # j => pub2.asduList[k] = pub.asduList[k]
    /\ SamePlaces(pub.asduList[j], pub2.asduList[j])
    /\ \A p \in 1 .. Len(pub.buffer) : p \notin W => pub2.buffer[p] = pub.buffer[p]

\* The octets W are in a field of ASDU j.
InField(W, L, j, f) == \A p \in W : \E x \in Field(L[j], f) : p = AsduAt(L, j - 1) + x

\* Such a call writes to field f only.
WroteField(pub, pub2, L, j, f, W) ==
    /\ pub \in Publisher /\ Len(pub.buffer) = BufferSize /\ L \in Seq(Asdu) /\ Placed(pub, L)
    /\ j \in 1 .. Len(L) /\ f \in Fields
    /\ Wrote(pub, pub2, j, W) /\ InField(W, L, j, f)

\* The types of the fields of the publisher.
LEMMA PublisherTyped ==
  ASSUME NEW pub \in Publisher
  PROVE  /\ pub.asduList \in Seq(Asdu) /\ Len(pub.asduList) \in Nat
         /\ \A k \in 1 .. Len(pub.asduList) : pub.asduList[k] \in Asdu
         /\ pub.buffer \in Seq(Int) /\ Len(pub.buffer) \in Nat /\ pub.payloadLength \in Nat
  <1>1. pub.asduList \in Seq(Asdu) /\ pub.buffer \in Seq(Int) /\ pub.payloadLength \in Nat
    BY DEF Publisher
  <1> QED
    BY <1>1, AsdusTyped, LenProperties

\* A call moves no pointer of any ASDU.
LEMMA SamePlacesOfAll ==
  ASSUME NEW pub, NEW pub2, NEW j, NEW W, Wrote(pub, pub2, j, W),
         NEW k \in 1 .. Len(pub.asduList)
  PROVE  SamePlaces(pub.asduList[k], pub2.asduList[k])
  <1>1. CASE k = j
    BY <1>1 DEF Wrote
  <1>2. CASE k # j
    <2>1. pub2.asduList[k] = pub.asduList[k]
      BY <1>2 DEF Wrote
    <2> QED
      BY <2>1 DEF SamePlaces
  <1> QED
    BY <1>1, <1>2

\* A call that writes to the buffer only leaves the layout as it is.
LEMMA PlacedKept ==
  ASSUME NEW pub, NEW pub2, NEW L, NEW j, NEW W, Placed(pub, L), Wrote(pub, pub2, j, W)
  PROVE  Placed(pub2, L)
  <1>1. Len(L) = Len(pub.asduList) /\ Len(pub2.asduList) = Len(pub.asduList)
    BY DEF Placed, Wrote
  <1>2. ASSUME NEW k \in 1 .. Len(L)
        PROVE  PlacedAsdu(pub2.asduList[k], L[k], AsduAt(L, k - 1))
    <2>1. SamePlaces(pub.asduList[k], pub2.asduList[k])
      BY <1>1, <1>2, SamePlacesOfAll
    <2>2. PlacedAsdu(pub.asduList[k], L[k], AsduAt(L, k - 1))
      BY DEF Placed
    <2> QED
      BY <2>1, <2>2, Zenon DEF SamePlaces, PlacedAsdu
  <1> QED
    BY <1>1, <1>2, Zenon DEF Placed, Wrote

\* A write to a field leaves every other field alone.
LEMMA Untouched ==
  ASSUME NEW pub, NEW pub2, NEW L, NEW j, NEW f, NEW W, WroteField(pub, pub2, L, j, f, W),
         NEW k \in 1 .. Len(L), NEW g \in Fields, k # j \/ f # g, NEW y \in Field(L[k], g)
  PROVE  pub2.buffer[AsduAt(L, k - 1) + y] = pub.buffer[AsduAt(L, k - 1) + y]
  <1>0. /\ pub \in Publisher /\ Len(pub.buffer) = BufferSize /\ L \in Seq(Asdu) /\ Placed(pub, L)
        /\ j \in 1 .. Len(L) /\ f \in Fields
        /\ Wrote(pub, pub2, j, W) /\ InField(W, L, j, f)
    BY DEF WroteField
  <1> USE <1>0
  <1>1. PayloadFits(L) /\ pub.payloadLength = AsduAt(L, Len(L)) /\ pub.payloadLength =< BufferSize
    BY DEF Placed
  <1>2. y \in 1 .. AsduLength(L[k])
    BY DEF Field
  <1>3. PICK q : q = AsduAt(L, k - 1) + y
    OBVIOUS
  <1>4. q \in 1 .. Len(pub.buffer)
    <2>1. q \in 1 .. AsduAt(L, Len(L))
      BY <1>1, <1>2, <1>3, Slots
    <2>2. BufferSize \in Nat
      BY SvLayoutAssumption
    <2>3. pub.payloadLength \in Nat
      BY PublisherTyped
    <2> QED
      BY <1>1, <2>1, <2>2, <2>3
  <1>5. q \notin W
    <2>1. SUFFICES ASSUME q \in W PROVE FALSE
      OBVIOUS
    <2>2. PICK x \in Field(L[j], f) : q = AsduAt(L, j - 1) + x
      BY <2>1 DEF InField
    <2>3. x \in 1 .. AsduLength(L[j])
      BY DEF Field
    <2>4. k = j /\ y = x
      BY <1>1, <1>2, <1>3, <2>2, <2>3, Slots
    <2>5. L[j] \in Asdu
      BY AsdusTyped
    <2>6. x \in Field(L[j], f) \cap Field(L[j], g)
      BY <2>4
    <2> QED
      BY <2>4, <2>5, <2>6, FieldsApart
  <1> QED
    BY <1>3, <1>4, <1>5, Zenon DEF Wrote

\* ... and the tags, lengths and all that is written once.
LEMMA OctetsKept ==
  ASSUME NEW pub, NEW pub2, NEW L, NEW j, NEW f, NEW W, WroteField(pub, pub2, L, j, f, W),
         OctetsHeld(pub, L)
  PROVE  OctetsHeld(pub2, L)
  <1>0. /\ pub \in Publisher /\ Len(pub.buffer) = BufferSize /\ L \in Seq(Asdu) /\ Placed(pub, L)
        /\ j \in 1 .. Len(L) /\ f \in Fields
        /\ Wrote(pub, pub2, j, W) /\ InField(W, L, j, f)
    BY DEF WroteField
  <1> USE <1>0
  <1>1. PayloadFits(L) /\ pub.payloadLength =< BufferSize /\ pub2.payloadLength = pub.payloadLength
    BY DEF Placed, Wrote
  <1>2. Carries(Payload(L), L, Len(L))
    <2>1. SameLayouts(L, L)
      BY Zenon DEF SameLayouts, SameLayout
    <2> QED
      BY <1>1, <2>1, PayloadOctets
  <1>3. ASSUME NEW p \in 1 .. pub.payloadLength, p \notin CounterPlaces(L), Payload(L)[p] # Hole
        PROVE  pub2.buffer[p] = Payload(L)[p]
    <2>1. p \notin W
      <3>1. SUFFICES ASSUME p \in W PROVE FALSE
        OBVIOUS
      <3>2. PICK x \in Field(L[j], f) : p = AsduAt(L, j - 1) + x
        BY <3>1 DEF InField
      <3>3. x \in 1 .. AsduLength(L[j])
        BY DEF Field
      <3>4. L[j] \in Asdu /\ Fits(L[j])
        BY <1>1, AsdusTyped, HeadIsPiece
      <3>5. CASE x \in Counters(L[j])
        <4>1. p \in Nat
          BY <1>3, PublisherTyped
        <4>2. p \in CounterPlaces(L)
          BY <3>2, <3>5, <4>1, Zenon DEF CounterPlaces
        <4> QED
          BY <1>3, <4>2
      <3>6. CASE SVPublisher_ASDU_encodeToBuffer(L[j])[x] = Hole
        <4>1. Payload(L)[p] = SVPublisher_ASDU_encodeToBuffer(L[j])[x]
          BY <1>2, <3>2, <3>3, Zenon DEF Carries
        <4> QED
          BY <1>3, <3>6, <4>1
      <3> QED
        BY <3>4, <3>5, <3>6, FieldsOpen
    <2>2. p \in 1 .. Len(pub.buffer)
      <3>1. BufferSize \in Nat /\ pub.payloadLength \in Nat
        BY SvLayoutAssumption, PublisherTyped
      <3> QED
        BY <1>1, <3>1
    <2>3. pub2.buffer[p] = pub.buffer[p]
      BY <2>1, <2>2, Zenon DEF Wrote
    <2>4. pub.buffer[p] = Payload(L)[p]
      BY <1>3 DEF OctetsHeld
    <2> QED
      BY <2>3, <2>4
  <1> QED
    BY <1>1, <1>3, Zenon DEF OctetsHeld

\* ... and the counters in the buffer, unless the counter itself is written.
LEMMA CounterKept ==
  ASSUME NEW pub, NEW pub2, NEW L, NEW j, NEW f, NEW W, WroteField(pub, pub2, L, j, f, W),
         NEW k \in 1 .. Len(L), CounterHeld(pub.buffer, pub.asduList[k])
  PROVE  LET a == pub.asduList[k]
             b == pub2.asduList[k]
         IN  /\ (k # j \/ f # "smpCnt") /\ b.smpCnt = a.smpCnt
                   => /\ pub2.buffer[b.smpCntBuf + 1] = b.smpCnt \div 256
                      /\ pub2.buffer[b.smpCntBuf + 2] = b.smpCnt % 256
             /\ (k # j \/ f # "smpSynch") /\ b.smpSynch = a.smpSynch
                   => pub2.buffer[b.smpSynchBuf + 1] = b.smpSynch
  <1>0. /\ pub \in Publisher /\ Len(pub.buffer) = BufferSize /\ L \in Seq(Asdu) /\ Placed(pub, L)
        /\ j \in 1 .. Len(L) /\ f \in Fields
        /\ Wrote(pub, pub2, j, W) /\ InField(W, L, j, f)
    BY DEF WroteField
  <1> USE <1>0
  <1>1. L[k] \in Asdu
    BY AsdusTyped
  <1>2. Len(L) = Len(pub.asduList)
    BY DEF Placed
  <1>3. PICK a, b : a = pub.asduList[k] /\ b = pub2.asduList[k]
    OBVIOUS
  <1>4. SamePlaces(a, b)
    BY <1>2, <1>3, SamePlacesOfAll
  <1>5. PlacedAsdu(a, L[k], AsduAt(L, k - 1))
    BY <1>3 DEF Placed
  <1>6. PICK c \in Nat, q \in Nat : c = SmpCntAt(L[k]) /\ q = SmpSynchAt(L[k])
    BY <1>1, Places
  <1>7. PICK at \in Nat : at = AsduAt(L, k - 1)
    <2>1. 1 \in 1 .. AsduLength(L[k])
      <3>1. AsduLength(L[k]) \in Nat /\ c + 1 \in 1 .. AsduLength(L[k])
        BY <1>1, <1>6, FieldsApart, Places DEF Field
      <3> QED
        BY <3>1
    <2> QED
      BY <2>1, Slots DEF Placed
  <1>8. /\ b.smpCntBuf = at + c /\ a.smpCntBuf = at + c
        /\ b.smpSynchBuf = at + q /\ a.smpSynchBuf = at + q
    BY <1>4, <1>5, <1>6, <1>7, Zenon DEF SamePlaces, PlacedAsdu
  <1>9. /\ at + c + 1 = at + (c + 1) /\ at + c + 2 = at + (c + 2) /\ at + q + 1 = at + (q + 1)
    OBVIOUS
  <1>10. /\ pub.buffer[at + (c + 1)] = a.smpCnt \div 256
         /\ pub.buffer[at + (c + 2)] = a.smpCnt % 256
         /\ pub.buffer[at + (q + 1)] = a.smpSynch
    BY <1>3, <1>8, <1>9, Zenon DEF CounterHeld
  <1>11. "smpCnt" \in Fields /\ "smpSynch" \in Fields
    BY DEF Fields
  <1>12. ASSUME k # j \/ f # "smpCnt"
         PROVE  /\ pub2.buffer[at + (c + 1)] = pub.buffer[at + (c + 1)]
                /\ pub2.buffer[at + (c + 2)] = pub.buffer[at + (c + 2)]
    <2>1. c + 1 \in Field(L[k], "smpCnt") /\ c + 2 \in Field(L[k], "smpCnt")
      BY <1>1, <1>6, FieldsApart
    <2>2. PICK y1, y2 : y1 = c + 1 /\ y2 = c + 2
      OBVIOUS
    <2>3. y1 \in Field(L[k], "smpCnt") /\ y2 \in Field(L[k], "smpCnt")
      BY <2>1, <2>2
    <2>4. /\ pub2.buffer[AsduAt(L, k - 1) + y1] = pub.buffer[AsduAt(L, k - 1) + y1]
          /\ pub2.buffer[AsduAt(L, k - 1) + y2] = pub.buffer[AsduAt(L, k - 1) + y2]
      BY <1>11, <1>12, <2>3, Untouched
    <2> QED
      BY <1>7, <2>2, <2>4, Zenon
  <1>13. ASSUME k # j \/ f # "smpSynch"
         PROVE  pub2.buffer[at + (q + 1)] = pub.buffer[at + (q + 1)]
    <2>1. q + 1 \in Field(L[k], "smpSynch")
      BY <1>1, <1>6, FieldsApart
    <2>2. PICK y : y = q + 1
      OBVIOUS
    <2>3. y \in Field(L[k], "smpSynch")
      BY <2>1, <2>2
    <2>4. pub2.buffer[AsduAt(L, k - 1) + y] = pub.buffer[AsduAt(L, k - 1) + y]
      BY <1>11, <1>13, <2>3, Untouched
    <2> QED
      BY <1>7, <2>2, <2>4, Zenon
  <1>14. (k # j \/ f # "smpCnt") /\ b.smpCnt = a.smpCnt
                   => /\ pub2.buffer[b.smpCntBuf + 1] = b.smpCnt \div 256
                      /\ pub2.buffer[b.smpCntBuf + 2] = b.smpCnt % 256
    <2>1. SUFFICES ASSUME k # j \/ f # "smpCnt", b.smpCnt = a.smpCnt
                   PROVE  /\ pub2.buffer[b.smpCntBuf + 1] = b.smpCnt \div 256
                          /\ pub2.buffer[b.smpCntBuf + 2] = b.smpCnt % 256
      BY Zenon
    <2>2. /\ pub2.buffer[at + (c + 1)] = a.smpCnt \div 256
          /\ pub2.buffer[at + (c + 2)] = a.smpCnt % 256
      BY <1>10, <1>12, <2>1, Zenon
    <2>3. b.smpCntBuf + 1 = at + (c + 1) /\ b.smpCntBuf + 2 = at + (c + 2)
      BY <1>8, <1>9, Zenon
    <2> QED
      BY <2>1, <2>2, <2>3, Zenon
  <1>15. (k # j \/ f # "smpSynch") /\ b.smpSynch = a.smpSynch
                   => pub2.buffer[b.smpSynchBuf + 1] = b.smpSynch
    BY <1>8, <1>9, <1>10, <1>13, Zenon
  <1> QED
    BY <1>3, <1>14, <1>15, Zenon

\* ... and the elements of another ASDU, or of this one when another field is
\* written.
LEMMA ElementKept ==
  ASSUME NEW pub, NEW pub2, NEW L, NEW j, NEW f, NEW W, WroteField(pub, pub2, L, j, f, W),
         NEW k \in 1 .. Len(L), k # j \/ f # "data", NEW e \in Element,
         e.index + ElementSize[e.kind] =< pub.asduList[k].dataSize,
         ElementHeld(pub.buffer, pub.asduList[k], e)
  PROVE  ElementHeld(pub2.buffer, pub2.asduList[k], e)
  <1>0. /\ pub \in Publisher /\ Len(pub.buffer) = BufferSize /\ L \in Seq(Asdu) /\ Placed(pub, L)
        /\ j \in 1 .. Len(L) /\ f \in Fields
        /\ Wrote(pub, pub2, j, W) /\ InField(W, L, j, f)
    BY DEF WroteField
  <1> USE <1>0
  <1>1. L[k] \in Asdu
    BY AsdusTyped
  <1>2. Len(L) = Len(pub.asduList)
    BY DEF Placed
  <1>3. PICK a, b : a = pub.asduList[k] /\ b = pub2.asduList[k]
    OBVIOUS
  <1>4. SamePlaces(a, b) /\ PlacedAsdu(a, L[k], AsduAt(L, k - 1))
    BY <1>2, <1>3, SamePlacesOfAll DEF Placed
  <1>5. PICK t \in Nat : t = DataAt(L[k])
    BY <1>1, Places
  <1>6. PICK d \in Nat : d = L[k].dataSize /\ d = a.dataSize
    BY <1>1, <1>4, AsduTyped, Zenon DEF PlacedAsdu
  <1>7. PICK at \in Nat : at = AsduAt(L, k - 1)
    <2>1. 1 \in 1 .. AsduLength(L[k])
      <3>1. AsduLength(L[k]) \in Nat /\ SmpCntAt(L[k]) + 1 \in 1 .. AsduLength(L[k])
        BY <1>1, FieldsApart, Places DEF Field
      <3> QED
        BY <3>1
    <2> QED
      BY <2>1, Slots DEF Placed
  <1>8. b.dataBuffer = at + t /\ a.dataBuffer = at + t
    BY <1>4, <1>5, <1>7, Zenon DEF SamePlaces, PlacedAsdu
  <1>9. SUFFICES ASSUME e.value # Unknown, NEW i \in 1 .. ElementSize[e.kind]
                 PROVE  pub2.buffer[at + t + e.index + i] = ElementOctets(e.kind, e.value)[i]
    BY <1>3, <1>8, Zenon DEF ElementHeld
  <1>10. pub.buffer[at + t + e.index + i] = ElementOctets(e.kind, e.value)[i]
    BY <1>3, <1>8, <1>9, Zenon DEF ElementHeld
  <1>11. PICK x \in Nat, z \in Nat : x = e.index /\ z = ElementSize[e.kind]
    BY SvLayoutAssumption, ElementOctetsArePiece, <1>9 DEF Element
  <1>12. x + i \in 1 .. d /\ at + t + x + i = at + (t + (x + i))
    <2>1. x + z =< d
      BY <1>3, <1>6, <1>11, Zenon
    <2>2. i \in 1 .. z
      BY <1>9, <1>11, Zenon
    <2> QED
      BY <2>1, <2>2
  <1>13. t + (x + i) \in Field(L[k], "data")
    BY <1>1, <1>5, <1>6, <1>12, FieldsApart
  <1>14. "data" \in Fields
    BY DEF Fields
  <1>15. pub2.buffer[at + (t + (x + i))] = pub.buffer[at + (t + (x + i))]
    <2>1. PICK y : y = t + (x + i)
      OBVIOUS
    <2>2. y \in Field(L[k], "data")
      BY <1>13, <2>1
    <2>3. pub2.buffer[AsduAt(L, k - 1) + y] = pub.buffer[AsduAt(L, k - 1) + y]
      BY <1>14, <2>2, Untouched
    <2> QED
      BY <1>7, <2>1, <2>3, Zenon
  <1> QED
    BY <1>10, <1>11, <1>12, <1>15, Zenon

-----------------------------------------------------------------------------
\* A buffer after a write, and a publisher after a call for ASDU j.
PutInto(buffer, pos, octets) ==
    [i \in 1 .. Len(buffer) |->
        IF i \in pos + 1 .. pos + Len(octets) THEN octets[i - pos] ELSE buffer[i]]

Overwrites(new, buffer, pos, octets) == new = PutInto(buffer, pos, octets)

Kept(new, buffer, W) ==
    Len(new) = Len(buffer) /\ \A p \in 1 .. Len(buffer) : p \notin W => new[p] = buffer[p]

Becomes(pub2, pub, j, b, buffer) ==
    pub2 = [asduList |-> [pub.asduList EXCEPT ![j] = b], buffer |-> buffer,
            payloadLength |-> pub.payloadLength]

\* Put writes these octets at this place and no others.
LEMMA PutOctets ==
  ASSUME NEW buffer \in Seq(Int), NEW pos \in Int, NEW n \in Nat, NEW octets, Piece(octets, n),
         NEW new, Overwrites(new, buffer, pos, octets)
  PROVE  /\ new \in Seq(Int) /\ Kept(new, buffer, pos + 1 .. pos + n)
         /\ \A i \in 1 .. n : pos + i \in 1 .. Len(buffer) => new[pos + i] = octets[i]
  <1>1. PICK z \in Nat : z = Len(buffer)
    BY LenProperties
  <1>2. n = Len(octets) /\ octets \in Seq(Int) /\ \A i \in 1 .. n : octets[i] \in Int
    BY ElementOfSeq DEF Piece
  <1>3. new = PutInto(buffer, pos, octets)
    BY Zenon DEF Overwrites
  <1>4. new = [i \in 1 .. z |-> IF i \in pos + 1 .. pos + n THEN octets[i - pos] ELSE buffer[i]]
    BY <1>1, <1>2, <1>3, Zenon DEF PutInto
  <1>5. ASSUME NEW i \in 1 .. z
        PROVE  (IF i \in pos + 1 .. pos + n THEN octets[i - pos] ELSE buffer[i]) \in Int
    <2>1. CASE i \in pos + 1 .. pos + n
      <3>1. i - pos \in 1 .. n
        BY <2>1
      <3> QED
        BY <1>2, <2>1, <3>1
    <2>2. CASE i \notin pos + 1 .. pos + n
      BY <1>1, <2>2, ElementOfSeq
    <2> QED
      BY <2>1, <2>2
  <1>6. new \in [1 .. z -> Int]
    BY <1>4, <1>5, Zenon
  <1>7. \A q \in [1 .. z -> Int] : q \in Seq(Int) /\ Len(q) = z
    OBVIOUS
  <1>8. \A p \in 1 .. z : p \notin pos + 1 .. pos + n => new[p] = buffer[p]
    BY <1>4, Zenon
  <1>9. ASSUME NEW i \in 1 .. n, pos + i \in 1 .. z PROVE new[pos + i] = octets[i]
    <2>1. pos + i \in pos + 1 .. pos + n /\ (pos + i) - pos = i
      OBVIOUS
    <2> QED
      BY <1>4, <1>9, <2>1, Zenon
  <1> QED
    BY <1>1, <1>6, <1>7, <1>8, <1>9, Zenon DEF Kept

\* Put changes nothing of the publisher but its buffer.
LEMMA PutBecomes ==
  ASSUME NEW pub \in Publisher, NEW pos, NEW octets
  PROVE  Put(pub, pos, octets)
            = [asduList |-> pub.asduList, buffer |-> PutInto(pub.buffer, pos, octets),
               payloadLength |-> pub.payloadLength]
  <1>1. pub = [asduList |-> pub.asduList, buffer |-> pub.buffer,
               payloadLength |-> pub.payloadLength]
    BY DEF Publisher
  <1>2. PICK new : new = PutInto(pub.buffer, pos, octets)
    OBVIOUS
  <1>3. Put(pub, pos, octets) = [pub EXCEPT !.buffer = new]
    BY <1>2, Zenon DEF Put, PutInto
  <1>4. [pub EXCEPT !.buffer = new]
            = [asduList |-> pub.asduList, buffer |-> new, payloadLength |-> pub.payloadLength]
    BY DEF Publisher
  <1> QED
    BY <1>2, <1>3, <1>4, Zenon

\* An ASDU replaced, and the octets in W.
Became(pub2, pub, j, b, buffer, W) ==
    /\ pub \in Publisher /\ j \in 1 .. Len(pub.asduList) /\ b \in Asdu /\ buffer \in Seq(Int)
    /\ SamePlaces(pub.asduList[j], b) /\ Kept(buffer, pub.buffer, W)
    /\ Becomes(pub2, pub, j, b, buffer)

\* A call that replaces one ASDU and the buffer moves no pointer and writes to
\* these octets only.
LEMMA BecameWrote ==
  ASSUME NEW pub, NEW j, NEW b, NEW buffer, NEW W, NEW pub2,
         Became(pub2, pub, j, b, buffer, W)
  PROVE  Wrote(pub, pub2, j, W) /\ pub2.asduList[j] = b /\ pub2.buffer = buffer
  <1>0. /\ pub \in Publisher /\ j \in 1 .. Len(pub.asduList) /\ b \in Asdu /\ buffer \in Seq(Int)
        /\ SamePlaces(pub.asduList[j], b) /\ Kept(buffer, pub.buffer, W)
        /\ Becomes(pub2, pub, j, b, buffer)
    BY DEF Became
  <1> USE <1>0
  <1>1. PICK list \in Seq(Asdu), n \in Nat :
           list = pub.asduList /\ n = Len(pub.asduList) /\ n = Len(list)
    BY PublisherTyped
  <1>2. PICK new : new = [list EXCEPT ![j] = b]
    OBVIOUS
  <1>3. /\ new \in Seq(Asdu) /\ Len(new) = n /\ new[j] = b
        /\ \A k \in 1 .. n : k # j => new[k] = list[k]
    BY <1>1, <1>2, ExceptSeq
  <1>4. pub2 = [asduList |-> new, buffer |-> buffer, payloadLength |-> pub.payloadLength]
    BY <1>1, <1>2, Zenon DEF Becomes
  <1>5. pub2 \in Publisher /\ pub2.asduList = new /\ pub2.buffer = buffer
        /\ pub2.payloadLength = pub.payloadLength
    BY <1>3, <1>4, PublisherTyped DEF Publisher
  <1> QED
    BY <1>1, <1>3, <1>5, Zenon DEF Wrote, Kept

\* ASDU j replaced by b, and then the octets put at pos.
Changes(pub2, pub, j, b) == pub2 = [pub EXCEPT !.asduList[j] = b]

Puts(pub2, pub, pos, octets) == pub2 = Put(pub, pos, octets)

\* A call that changes one ASDU in the list only.
LEMMA Changed ==
  ASSUME NEW pub \in Publisher, NEW j \in 1 .. Len(pub.asduList), NEW b \in Asdu,
         SamePlaces(pub.asduList[j], b), NEW pub2, Changes(pub2, pub, j, b)
  PROVE  /\ Wrote(pub, pub2, j, {}) /\ pub2.asduList[j] = b /\ pub2.buffer = pub.buffer
         /\ Becomes(pub2, pub, j, b, pub.buffer)
  <1>1. PICK list : list = [pub.asduList EXCEPT ![j] = b]
    OBVIOUS
  <1>2. pub2 = [pub EXCEPT !.asduList = list]
    BY <1>1, Zenon DEF Changes
  <1>3. pub2 = [asduList |-> list, buffer |-> pub.buffer, payloadLength |-> pub.payloadLength]
    BY <1>2 DEF Publisher
  <1>4. Becomes(pub2, pub, j, b, pub.buffer)
    BY <1>1, <1>3, Zenon DEF Becomes
  <1>5. PICK W : W = {}
    OBVIOUS
  <1>6. PICK buffer : buffer = pub.buffer
    OBVIOUS
  <1>7. buffer \in Seq(Int) /\ Becomes(pub2, pub, j, b, buffer)
    BY <1>4, <1>6, PublisherTyped, Zenon
  <1>8. Kept(buffer, pub.buffer, W)
    BY <1>6, Zenon DEF Kept
  <1>9. Wrote(pub, pub2, j, W) /\ pub2.asduList[j] = b /\ pub2.buffer = buffer
    <2>1. Became(pub2, pub, j, b, buffer, W)
      BY <1>7, <1>8, Zenon DEF Became
    <2> QED
      BY <2>1, BecameWrote
  <1> QED
    BY <1>4, <1>5, <1>6, <1>9, Zenon

ChangesAndPuts(pub3, pub2, pub, j, b, pos, n, octets) ==
    /\ pub \in Publisher /\ j \in 1 .. Len(pub.asduList) /\ b \in Asdu
    /\ SamePlaces(pub.asduList[j], b) /\ Changes(pub2, pub, j, b)
    /\ pos \in Int /\ n \in Nat /\ Piece(octets, n) /\ Puts(pub3, pub2, pos, octets)

\* A call that changes one ASDU in the list and writes to the buffer.
LEMMA ChangedAndPut ==
  ASSUME NEW pub, NEW j, NEW b, NEW pub2, NEW pos, NEW n, NEW octets, NEW pub3,
         ChangesAndPuts(pub3, pub2, pub, j, b, pos, n, octets)
  PROVE  /\ Wrote(pub, pub3, j, pos + 1 .. pos + n) /\ pub3.asduList[j] = b
         /\ \A i \in 1 .. n : pos + i \in 1 .. Len(pub.buffer) => pub3.buffer[pos + i] = octets[i]
  <1>0. /\ pub \in Publisher /\ j \in 1 .. Len(pub.asduList) /\ b \in Asdu
        /\ SamePlaces(pub.asduList[j], b) /\ Changes(pub2, pub, j, b)
        /\ pos \in Int /\ n \in Nat /\ Piece(octets, n) /\ Puts(pub3, pub2, pos, octets)
    BY DEF ChangesAndPuts
  <1> USE <1>0
  <1>1. PICK list : list = [pub.asduList EXCEPT ![j] = b]
    OBVIOUS
  <1>2. pub2 \in Publisher /\ pub2 = [asduList |-> list, buffer |-> pub.buffer,
                                      payloadLength |-> pub.payloadLength]
    <2>1. Wrote(pub, pub2, j, {}) /\ Becomes(pub2, pub, j, b, pub.buffer)
      BY Changed
    <2> QED
      BY <1>1, <2>1, Zenon DEF Becomes, Wrote
  <1>3. pub2.asduList = list /\ pub2.buffer = pub.buffer /\ pub2.payloadLength = pub.payloadLength
    BY <1>2
  <1>4. PICK buffer : buffer = PutInto(pub.buffer, pos, octets)
    OBVIOUS
  <1>5. pub3 = [asduList |-> list, buffer |-> buffer, payloadLength |-> pub.payloadLength]
    BY <1>2, <1>3, <1>4, PutBecomes, Zenon DEF Puts
  <1>6. Becomes(pub3, pub, j, b, buffer)
    BY <1>1, <1>5, Zenon DEF Becomes
  <1>7. PICK old \in Seq(Int) : old = pub.buffer
    BY PublisherTyped
  <1>8. Overwrites(buffer, old, pos, octets)
    BY <1>4, <1>7, Zenon DEF Overwrites
  <1>9. PICK W : W = pos + 1 .. pos + n
    OBVIOUS
  <1>10. /\ buffer \in Seq(Int) /\ Kept(buffer, old, W)
         /\ \A i \in 1 .. n : pos + i \in 1 .. Len(old) => buffer[pos + i] = octets[i]
    BY <1>8, <1>9, PutOctets
  <1>11. Kept(buffer, pub.buffer, W)
    BY <1>7, <1>10, Zenon
  <1>12. Wrote(pub, pub3, j, W) /\ pub3.asduList[j] = b /\ pub3.buffer = buffer
    <2>1. Became(pub3, pub, j, b, buffer, W)
      BY <1>6, <1>10, <1>11, Zenon DEF Became
    <2> QED
      BY <2>1, BecameWrote
  <1> QED
    BY <1>7, <1>9, <1>10, <1>12, Zenon

-----------------------------------------------------------------------------
\* The operations.
SetsSmpCnt(pub2, pub, j, n) == pub2 = SVPublisher_ASDU_setSmpCnt(pub, j, n)

\* SVPublisher_ASDU_setSmpCnt writes smpCnt and, when the ASDU has a place in the
\* payload, its two octets there.
LEMMA SetSmpCnt ==
  ASSUME NEW pub \in Publisher, NEW j \in 1 .. Len(pub.asduList), NEW n \in Nat,
         NEW pub2, SetsSmpCnt(pub2, pub, j, n)
  PROVE  LET a == pub.asduList[j]
             b == pub2.asduList[j]
             W == IF a.smpCntBuf = NoPos THEN {} ELSE a.smpCntBuf + 1 .. a.smpCntBuf + 2
         IN  /\ Wrote(pub, pub2, j, W)
             /\ b.smpCnt = n /\ b.smpSynch = a.smpSynch /\ b.hasRefrTm = a.hasRefrTm
             /\ a.smpCntBuf # NoPos =>
                    \A i \in 1 .. 2 : a.smpCntBuf + i \in 1 .. Len(pub.buffer)
                        => pub2.buffer[a.smpCntBuf + i] = IF i = 1 THEN n \div 256 ELSE n % 256
  <1>1. PICK a \in Asdu : a = pub.asduList[j]
    BY PublisherTyped
  <1>2. PICK b : b = [a EXCEPT !.smpCnt = n]
    OBVIOUS
  <1>3. b \in Asdu /\ SamePlaces(a, b) /\ b.smpCnt = n /\ b.smpSynch = a.smpSynch
        /\ b.hasRefrTm = a.hasRefrTm
    BY <1>2 DEF Asdu, SamePlaces
  <1>4. PICK set : set = [pub EXCEPT !.asduList[j].smpCnt = n]
    OBVIOUS
  <1>5. Changes(set, pub, j, b)
    BY <1>1, <1>2, <1>4, Zenon DEF Changes
  <1>6. PICK pos : pos = a.smpCntBuf
    OBVIOUS
  <1>7. pos \in Int
    BY <1>6 DEF Asdu, Pos, NoPos
  <1>8. CASE pos = NoPos
    <2>1. pub2 = set
      BY <1>1, <1>4, <1>6, <1>8, Zenon DEF SVPublisher_ASDU_setSmpCnt, SetsSmpCnt
    <2>2. Wrote(pub, pub2, j, {}) /\ pub2.asduList[j] = b
      BY <1>1, <1>3, <1>5, <2>1, Changed
    <2> QED
      BY <1>1, <1>3, <1>6, <1>8, <2>2, Zenon
  <1>9. CASE pos # NoPos
    <2>1. PICK w : w = encodeUInt16FixedSize(n)
      OBVIOUS
    <2>2. Piece(w, 2) /\ w[1] = n \div 256 /\ w[2] = n % 256
      BY <2>1, WordIsPiece, WordOctets
    <2>3. Puts(pub2, set, pos, w)
      BY <1>1, <1>4, <1>6, <1>9, <2>1, Zenon DEF SVPublisher_ASDU_setSmpCnt, SetsSmpCnt, Puts
    <2>4. /\ Wrote(pub, pub2, j, pos + 1 .. pos + 2) /\ pub2.asduList[j] = b
          /\ \A i \in 1 .. 2 : pos + i \in 1 .. Len(pub.buffer) => pub2.buffer[pos + i] = w[i]
      <3>1. ChangesAndPuts(pub2, set, pub, j, b, pos, 2, w)
        BY <1>1, <1>3, <1>5, <1>7, <2>2, <2>3 DEF ChangesAndPuts
      <3> QED
        BY <3>1, ChangedAndPut
    <2>5. \A i \in 1 .. 2 : w[i] = IF i = 1 THEN n \div 256 ELSE n % 256
      <3>1. \A i \in 1 .. 2 : i = 1 \/ i = 2
        OBVIOUS
      <3> QED
        BY <2>2, <3>1
    <2>6. \A i \in 1 .. 2 : pos + i \in 1 .. Len(pub.buffer)
            => pub2.buffer[pos + i] = IF i = 1 THEN n \div 256 ELSE n % 256
      BY <2>4, <2>5, ZenonT(40)
    <2> QED
      BY <1>1, <1>3, <1>6, <1>9, <2>4, <2>6
  <1> QED
    BY <1>8, <1>9

\* A call that changes what is not in the message any more.
Sets(pub, pub2, j) ==
    LET a == pub.asduList[j]
        b == pub2.asduList[j]
    IN  /\ Wrote(pub, pub2, j, {})
        /\ b.smpCnt = a.smpCnt /\ b.smpSynch = a.smpSynch
        /\ TimePlaced(a) => TimePlaced(b)

\* Options that are encoded by the next SVPublisher_setupComplete write nothing
\* to the buffer.
LEMMA SetOptions ==
  ASSUME NEW pub \in Publisher, NEW j \in 1 .. Len(pub.asduList), NEW n \in Nat
  PROVE  /\ Sets(pub, SVPublisher_ASDU_setSmpRate(pub, j, n), j)
         /\ Sets(pub, SVPublisher_ASDU_setSmpMod(pub, j, n), j)
         /\ n # 0 => Sets(pub, SVPublisher_ASDU_setSmpCntWrap(pub, j, n), j)
         /\ Sets(pub, SVPublisher_ASDU_enableRefrTm(pub, j), j)
  <1>1. PICK a \in Asdu : a = pub.asduList[j]
    BY PublisherTyped
  <1>2. ASSUME NEW b \in Asdu, SamePlaces(a, b), b.smpCnt = a.smpCnt, b.smpSynch = a.smpSynch,
               NEW pub2, Changes(pub2, pub, j, b)
        PROVE  Sets(pub, pub2, j)
    <2>1. Wrote(pub, pub2, j, {}) /\ pub2.asduList[j] = b
      BY <1>1, <1>2, Changed
    <2>2. TimePlaced(a) => TimePlaced(b)
      BY <1>2, Zenon DEF TimePlaced, SamePlaces
    <2> QED
      BY <1>1, <1>2, <2>1, <2>2, Zenon DEF Sets
  <1>3. Sets(pub, SVPublisher_ASDU_setSmpRate(pub, j, n), j)
    <2>1. PICK b : b = [a EXCEPT !.hasSmpRate = TRUE, !.smpRate = n]
      OBVIOUS
    <2>2. b \in Asdu /\ SamePlaces(a, b) /\ b.smpCnt = a.smpCnt /\ b.smpSynch = a.smpSynch
      BY <2>1 DEF Asdu, SamePlaces
    <2>3. Changes(SVPublisher_ASDU_setSmpRate(pub, j, n), pub, j, b)
      <3>1. PICK c : c = [a EXCEPT !.hasSmpRate = TRUE]
        OBVIOUS
      <3>2. b = [c EXCEPT !.smpRate = n]
        BY <2>1, <3>1
      <3>3. PICK list \in Seq(Asdu) : list = pub.asduList
        BY PublisherTyped
      <3>4. PICK list1, list2 : list1 = [list EXCEPT ![j] = c] /\ list2 = [list1 EXCEPT ![j] = b]
        OBVIOUS
      <3>5. list1[j] = c /\ list2 = [list EXCEPT ![j] = b]
        BY <3>3, <3>4
      <3>6. PICK pub1 : pub1 = [pub EXCEPT !.asduList = list1]
        OBVIOUS
      <3>7. pub1.asduList = list1
              /\ [pub1 EXCEPT !.asduList = list2] = [pub EXCEPT !.asduList = list2]
        BY <3>6 DEF Publisher
      <3>8. SVPublisher_ASDU_setSmpRate(pub, j, n)
               = [pub1 EXCEPT !.asduList = [pub1.asduList EXCEPT ![j] =
                                              [pub1.asduList[j] EXCEPT !.smpRate = n]]]
        BY <1>1, <3>1, <3>3, <3>4, <3>6, Zenon DEF SVPublisher_ASDU_setSmpRate
      <3>9. SVPublisher_ASDU_setSmpRate(pub, j, n) = [pub EXCEPT !.asduList = list2]
        BY <3>2, <3>4, <3>5, <3>7, <3>8, Zenon
      <3> QED
        BY <3>3, <3>5, <3>9, Zenon DEF Changes
    <2> QED
      BY <1>2, <2>2, <2>3
  <1>4. Sets(pub, SVPublisher_ASDU_setSmpMod(pub, j, n), j)
    <2>1. PICK b : b = [a EXCEPT !.hasSmpMod = TRUE, !.smpMod = n]
      OBVIOUS
    <2>2. b \in Asdu /\ SamePlaces(a, b) /\ b.smpCnt = a.smpCnt /\ b.smpSynch = a.smpSynch
      BY <2>1 DEF Asdu, SamePlaces
    <2>3. Changes(SVPublisher_ASDU_setSmpMod(pub, j, n), pub, j, b)
      <3>1. PICK c : c = [a EXCEPT !.hasSmpMod = TRUE]
        OBVIOUS
      <3>2. b = [c EXCEPT !.smpMod = n]
        BY <2>1, <3>1
      <3>3. PICK list \in Seq(Asdu) : list = pub.asduList
        BY PublisherTyped
      <3>4. PICK list1, list2 : list1 = [list EXCEPT ![j] = c] /\ list2 = [list1 EXCEPT ![j] = b]
        OBVIOUS
      <3>5. list1[j] = c /\ list2 = [list EXCEPT ![j] = b]
        BY <3>3, <3>4
      <3>6. PICK pub1 : pub1 = [pub EXCEPT !.asduList = list1]
        OBVIOUS
      <3>7. pub1.asduList = list1
              /\ [pub1 EXCEPT !.asduList = list2] = [pub EXCEPT !.asduList = list2]
        BY <3>6 DEF Publisher
      <3>8. SVPublisher_ASDU_setSmpMod(pub, j, n)
               = [pub1 EXCEPT !.asduList = [pub1.asduList EXCEPT ![j] =
                                              [pub1.asduList[j] EXCEPT !.smpMod = n]]]
        BY <1>1, <3>1, <3>3, <3>4, <3>6, Zenon DEF SVPublisher_ASDU_setSmpMod
      <3>9. SVPublisher_ASDU_setSmpMod(pub, j, n) = [pub EXCEPT !.asduList = list2]
        BY <3>2, <3>4, <3>5, <3>7, <3>8, Zenon
      <3> QED
        BY <3>3, <3>5, <3>9, Zenon DEF Changes
    <2> QED
      BY <1>2, <2>2, <2>3
  <1>5. n # 0 => Sets(pub, SVPublisher_ASDU_setSmpCntWrap(pub, j, n), j)
    <2>1. PICK b : b = [a EXCEPT !.smpCntLimit = n]
      OBVIOUS
    <2>2. n # 0 => b \in Asdu /\ SamePlaces(a, b) /\ b.smpCnt = a.smpCnt /\ b.smpSynch = a.smpSynch
      BY <2>1 DEF Asdu, SamePlaces
    <2>3. Changes(SVPublisher_ASDU_setSmpCntWrap(pub, j, n), pub, j, b)
      BY <1>1, <2>1, Zenon DEF Changes, SVPublisher_ASDU_setSmpCntWrap
    <2> QED
      BY <1>2, <2>2, <2>3
  <1>6. Sets(pub, SVPublisher_ASDU_enableRefrTm(pub, j), j)
    <2>1. PICK b : b = [a EXCEPT !.hasRefrTm = TRUE]
      OBVIOUS
    <2>2. b \in Asdu /\ SamePlaces(a, b) /\ b.smpCnt = a.smpCnt /\ b.smpSynch = a.smpSynch
      BY <2>1 DEF Asdu, SamePlaces
    <2>3. Changes(SVPublisher_ASDU_enableRefrTm(pub, j), pub, j, b)
      BY <1>1, <2>1, Zenon DEF Changes, SVPublisher_ASDU_enableRefrTm
    <2> QED
      BY <1>2, <2>2, <2>3
  <1> QED
    BY <1>3, <1>4, <1>5, <1>6

\* SVPublisher_ASDU_setSmpSynch writes smpSynch and its octet in the payload.
LEMMA SetSmpSynch ==
  ASSUME NEW pub \in Publisher, NEW j \in 1 .. Len(pub.asduList), NEW n \in Nat,
         NEW pub2, pub2 = SVPublisher_ASDU_setSmpSynch(pub, j, n)
  PROVE  LET a == pub.asduList[j]
             b == pub2.asduList[j]
         IN  /\ Wrote(pub, pub2, j, a.smpSynchBuf + 1 .. a.smpSynchBuf + 1)
             /\ b.smpCnt = a.smpCnt /\ b.hasRefrTm = a.hasRefrTm
             /\ a.smpSynchBuf + 1 \in 1 .. Len(pub.buffer)
                    => pub2.buffer[a.smpSynchBuf + 1] = b.smpSynch
  <1>1. PICK a \in Asdu : a = pub.asduList[j]
    BY PublisherTyped
  <1>2. PICK m \in Nat : m = n % 256
    BY QuotientsAreNumbers
  <1>3. PICK b : b = [a EXCEPT !.smpSynch = m]
    OBVIOUS
  <1>4. b \in Asdu /\ SamePlaces(a, b) /\ b.smpSynch = m /\ b.smpCnt = a.smpCnt
        /\ b.hasRefrTm = a.hasRefrTm
    BY <1>3 DEF Asdu, SamePlaces
  <1>5. PICK set : set = [pub EXCEPT !.asduList[j].smpSynch = m]
    OBVIOUS
  <1>6. Changes(set, pub, j, b)
    BY <1>1, <1>3, <1>5, Zenon DEF Changes
  <1>7. PICK pos \in Int : pos = a.smpSynchBuf
    BY DEF Asdu, Pos, NoPos
  <1>8. PICK w : w = <<m>>
    OBVIOUS
  <1>9. Piece(w, 1) /\ w[1] = m
    BY <1>8 DEF Piece
  <1>10. Puts(pub2, set, pos, w)
    BY <1>1, <1>2, <1>5, <1>7, <1>8, Zenon DEF SVPublisher_ASDU_setSmpSynch, Puts
  <1>11. PICK k \in Nat : k = 1
    OBVIOUS
  <1>12. /\ Wrote(pub, pub2, j, pos + 1 .. pos + k) /\ pub2.asduList[j] = b
         /\ \A i \in 1 .. k : pos + i \in 1 .. Len(pub.buffer) => pub2.buffer[pos + i] = w[i]
    <2>1. ChangesAndPuts(pub2, set, pub, j, b, pos, k, w)
      BY <1>1, <1>4, <1>6, <1>9, <1>10, <1>11 DEF ChangesAndPuts
    <2> QED
      BY <2>1, ChangedAndPut, SMTT(30)
  <1>13. 1 \in 1 .. k
    BY <1>11
  <1> QED
    BY <1>1, <1>4, <1>7, <1>9, <1>11, <1>12, <1>13, Zenon

SetsValue(pub2, pub, j, index, kind, v, pos, n) ==
    /\ pub \in Publisher /\ j \in 1 .. Len(pub.asduList) /\ index \in Nat
    /\ kind \in DOMAIN ElementValues /\ v \in ElementValues[kind]
    /\ pub2 = SVPublisher_ASDU_set(pub, j, index, kind, v)
    /\ pos = pub.asduList[j].dataBuffer + index /\ n \in Nat /\ n = ElementSize[kind]

\* A setter of an element writes the octets of the element and nothing else.
LEMMA SetValue ==
  ASSUME NEW pub, NEW j, NEW index, NEW kind, NEW v, NEW pub2, NEW pos, NEW n,
         SetsValue(pub2, pub, j, index, kind, v, pos, n)
  PROVE  /\ Wrote(pub, pub2, j, pos + 1 .. pos + n) /\ pub2.asduList[j] = pub.asduList[j]
         /\ \A i \in 1 .. n : pos + i \in 1 .. Len(pub.buffer)
                => pub2.buffer[pos + i] = ElementOctets(kind, v)[i]
  <1>0. /\ pub \in Publisher /\ j \in 1 .. Len(pub.asduList) /\ index \in Nat
        /\ kind \in DOMAIN ElementValues /\ v \in ElementValues[kind]
        /\ pos = pub.asduList[j].dataBuffer + index /\ n \in Nat /\ n = ElementSize[kind]
    BY DEF SetsValue
  <1> USE <1>0
  <1>1. PICK a \in Asdu : a = pub.asduList[j]
    BY PublisherTyped
  <1>2. pos \in Int
    <2>1. PICK d \in Int : d = a.dataBuffer
      BY DEF Asdu, Pos, NoPos
    <2>2. pos = d + index
      BY <1>1, <2>1, Zenon
    <2> QED
      BY <2>2
  <1>3. PICK w : w = ElementOctets(kind, v)
    OBVIOUS
  <1>4. Piece(w, n)
    BY <1>3, ElementOctetsArePiece
  <1>5. SamePlaces(a, a)
    BY Zenon DEF SamePlaces
  <1>6. Changes(pub, pub, j, a)
    <2>1. PICK list \in Seq(Asdu) : list = pub.asduList
      BY PublisherTyped
    <2>2. [list EXCEPT ![j] = a] = list
      BY <1>1, <2>1
    <2>3. [pub EXCEPT !.asduList = list] = pub
      BY <2>1 DEF Publisher
    <2> QED
      BY <2>1, <2>2, <2>3, Zenon DEF Changes
  <1>7. Puts(pub2, pub, pos, w)
    BY <1>3, Zenon DEF SVPublisher_ASDU_set, SetsValue, Puts
  <1>8. /\ Wrote(pub, pub2, j, pos + 1 .. pos + n) /\ pub2.asduList[j] = a
        /\ \A i \in 1 .. n : pos + i \in 1 .. Len(pub.buffer) => pub2.buffer[pos + i] = w[i]
    <2>1. ChangesAndPuts(pub2, pub, pub, j, a, pos, n, w)
      BY <1>1, <1>2, <1>4, <1>5, <1>6, <1>7 DEF ChangesAndPuts
    <2> QED
      BY <2>1, ChangedAndPut
  <1> QED
    BY <1>1, <1>3, <1>8, Zenon

\* The refresh time, whatever sets it.
SetsTime(pub2, pub, j, octets) ==
    LET pos == pub.asduList[j].refrTm
        on == SVPublisher_ASDU_enableRefrTm(pub, j)
    IN  pub2 = IF pos = NoPos THEN on ELSE Put(on, pos, octets)

\* A setter of the refresh time writes its eight octets, when it has a place, and
\* nothing else.
LEMMA SetTime ==
  ASSUME NEW pub \in Publisher, NEW j \in 1 .. Len(pub.asduList), NEW pub2, NEW octets,
         SetsTime(pub2, pub, j, octets), pub.asduList[j].refrTm # NoPos => Piece(octets, 8)
  PROVE  LET a == pub.asduList[j]
             b == pub2.asduList[j]
             W == IF a.refrTm = NoPos THEN {} ELSE a.refrTm + 1 .. a.refrTm + 8
         IN  /\ Wrote(pub, pub2, j, W)
             /\ b.smpCnt = a.smpCnt /\ b.smpSynch = a.smpSynch
             /\ TimePlaced(a) => TimePlaced(b)
  <1>1. PICK a \in Asdu : a = pub.asduList[j]
    BY PublisherTyped
  <1>2. PICK b : b = [a EXCEPT !.hasRefrTm = TRUE]
    OBVIOUS
  <1>3. b \in Asdu /\ SamePlaces(a, b) /\ b.smpCnt = a.smpCnt /\ b.smpSynch = a.smpSynch
        /\ b.hasRefrTm = TRUE
    BY <1>2 DEF Asdu, SamePlaces
  <1>4. TimePlaced(a) => TimePlaced(b)
    BY <1>3, Zenon DEF TimePlaced, SamePlaces
  <1>5. PICK on : on = SVPublisher_ASDU_enableRefrTm(pub, j)
    OBVIOUS
  <1>6. Changes(on, pub, j, b)
    BY <1>1, <1>2, <1>5, Zenon DEF Changes, SVPublisher_ASDU_enableRefrTm
  <1>7. PICK pos \in Int : pos = a.refrTm
    BY DEF Asdu, Pos, NoPos
  <1>8. CASE pos = NoPos
    <2>1. pub2 = on
      BY <1>1, <1>5, <1>7, <1>8, Zenon DEF SetsTime
    <2>2. Wrote(pub, pub2, j, {}) /\ pub2.asduList[j] = b
      BY <1>1, <1>3, <1>6, <2>1, Changed
    <2> QED
      BY <1>1, <1>3, <1>4, <1>7, <1>8, <2>2, Zenon
  <1>9. CASE pos # NoPos
    <2>1. Puts(pub2, on, pos, octets)
      BY <1>1, <1>5, <1>7, <1>9, Zenon DEF SetsTime, Puts
    <2>2. Piece(octets, 8)
      BY <1>1, <1>7, <1>9
    <2>3. Wrote(pub, pub2, j, pos + 1 .. pos + 8) /\ pub2.asduList[j] = b
      <3>1. ChangesAndPuts(pub2, on, pub, j, b, pos, 8, octets)
        BY <1>1, <1>3, <1>6, <2>1, <2>2 DEF ChangesAndPuts
      <3> QED
        BY <3>1, ChangedAndPut
    <2> QED
      BY <1>1, <1>3, <1>4, <1>7, <1>9, <2>3, Zenon
  <1> QED
    BY <1>8, <1>9

-----------------------------------------------------------------------------
\* The octets of a refresh time.
Billion == 1000000000

\* The next bit of the fraction of a second, as Timestamp_setTimeInNanoseconds
\* computes it.
LEMMA NextBit ==
  ASSUME NEW f \in Nat, NEW rest \in Nat
  PROVE  /\ 2 * f + (2 * rest) \div Billion \in Nat /\ (2 * rest) % Billion \in Nat
  BY SMT DEF Billion

TimeBits(g, n, ns) ==
    g = [k \in 0 .. n |-> IF k = 0 THEN [f |-> 0, rest |-> ns]
                ELSE [f |-> 2 * g[k - 1].f + (2 * g[k - 1].rest) \div Billion,
                      rest |-> (2 * g[k - 1].rest) % Billion]]

\* After n bits the fraction is a number.
LEMMA BitsAreNumbers ==
  ASSUME NEW n \in Nat, NEW ns \in Nat, NEW g, TimeBits(g, n, ns)
  PROVE  g[n].f \in Nat
  <1> DEFINE S == {k \in 0 .. n : g[k].f \in Nat /\ g[k].rest \in Nat}
  <1>1. \A k \in 0 .. n : g[k] = IF k = 0 THEN [f |-> 0, rest |-> ns]
                ELSE [f |-> 2 * g[k - 1].f + (2 * g[k - 1].rest) \div Billion,
                      rest |-> (2 * g[k - 1].rest) % Billion]
    BY Zenon DEF TimeBits
  <1>2. 0 \in S
    <2>1. 0 \in 0 .. n
      OBVIOUS
    <2>2. g[0] = [f |-> 0, rest |-> ns]
      BY <1>1, <2>1, Zenon
    <2> QED
      BY <2>1, <2>2
  <1>3. ASSUME NEW k \in 1 .. n, k - 1 \in S PROVE k \in S
    <2>1. PICK a \in Nat, b \in Nat : a = g[k - 1].f /\ b = g[k - 1].rest
      BY <1>3
    <2>2. PICK c \in Nat, d \in Nat : c = 2 * a + (2 * b) \div Billion /\ d = (2 * b) % Billion
      BY NextBit
    <2>3. k \in 0 .. n /\ k # 0
      OBVIOUS
    <2>4. g[k] = [f |-> c, rest |-> d]
      BY <1>1, <2>1, <2>2, <2>3, Zenon
    <2> QED
      BY <2>3, <2>4
  <1> HIDE DEF S
  <1>4. \A k \in 0 .. n : k \in S
    BY <1>2, <1>3, InductionUpTo
  <1> QED
    BY <1>4 DEF S

\* The fraction of a second is a number.
LEMMA FractionIsNumber ==
  ASSUME NEW ns \in Nat
  PROVE  FractionOfNs(ns) \in Nat
  <1>1. PICK n \in Nat : n = 24
    OBVIOUS
  <1> DEFINE next == [r \in [f : Nat, rest : Nat] |->
                        [f |-> 2 * r.f + (2 * r.rest) \div Billion,
                         rest |-> (2 * r.rest) % Billion]]
             step == [k \in 1 .. n |-> next]
  <1>2. PICK base : base = [f |-> 0, rest |-> ns]
    OBVIOUS
  <1>3. base \in [f : Nat, rest : Nat]
    BY <1>2
  <1>4. PICK g : RecursiveUpTo(g, n, base, step)
    BY RecursionUpTo
  <1>5. \A r \in [f : Nat, rest : Nat] : next[r] \in [f : Nat, rest : Nat]
    <2> TAKE r \in [f : Nat, rest : Nat]
    <2>1. PICK a \in Nat, b \in Nat : a = r.f /\ b = r.rest
      OBVIOUS
    <2>2. PICK c \in Nat, d \in Nat : c = 2 * a + (2 * b) \div Billion /\ d = (2 * b) % Billion
      BY NextBit
    <2>3. next[r] = [f |-> c, rest |-> d]
      BY <2>1, <2>2, Zenon
    <2> QED
      BY <2>3
  <1>6. \A k \in 1 .. n : step[k] = next
    BY Zenon
  <1>7. \A r \in [f : Nat, rest : Nat] :
            next[r] = [f |-> 2 * r.f + (2 * r.rest) \div Billion, rest |-> (2 * r.rest) % Billion]
    BY Zenon
  <1> HIDE DEF step, next
  <1>8. g[0] = base /\ \A k \in 1 .. n : g[k] = next[g[k - 1]]
    BY <1>4, <1>6 DEF RecursiveUpTo
  <1> DEFINE S == {k \in 0 .. n : g[k] \in [f : Nat, rest : Nat]}
  <1>9. 0 \in S
    BY <1>3, <1>8
  <1>10. ASSUME NEW k \in 1 .. n, k - 1 \in S PROVE k \in S
    BY <1>5, <1>8, <1>10
  <1> HIDE DEF S
  <1>11. \A k \in 0 .. n : k \in S
    BY <1>9, <1>10, InductionUpTo
  <1>12. \A k \in 0 .. n : g[k] \in [f : Nat, rest : Nat]
    BY <1>11 DEF S
  <1>13. g = [k \in 0 .. n |-> IF k = 0 THEN [f |-> 0, rest |-> ns]
                ELSE [f |-> 2 * g[k - 1].f + (2 * g[k - 1].rest) \div Billion,
                      rest |-> (2 * g[k - 1].rest) % Billion]]
    <2>1. g = [k \in 0 .. n |-> IF k = 0 THEN base ELSE step[k][g[k - 1]]]
      BY <1>4 DEF RecursiveUpTo
    <2>2. \A k \in 0 .. n : (IF k = 0 THEN base ELSE step[k][g[k - 1]])
            = IF k = 0 THEN [f |-> 0, rest |-> ns]
              ELSE [f |-> 2 * g[k - 1].f + (2 * g[k - 1].rest) \div Billion,
                    rest |-> (2 * g[k - 1].rest) % Billion]
      <3> TAKE k \in 0 .. n
      <3>1. CASE k = 0
        BY <1>2, <3>1, Zenon
      <3>2. CASE k # 0
        <4>1. k \in 1 .. n /\ k - 1 \in 0 .. n
          BY <3>2
        <4> QED
          BY <1>6, <1>7, <1>12, <3>2, <4>1, Zenon
      <3> QED
        BY <3>1, <3>2, Zenon
    <2> QED
      BY <2>1, <2>2, Zenon
  <1>14. TimeBits(g, n, ns)
    BY <1>13, Zenon DEF TimeBits
  <1>15. PICK b : b = CHOOSE x : TimeBits(x, n, ns)
    OBVIOUS
  <1>16. TimeBits(b, n, ns)
    BY <1>14, <1>15, Zenon
  <1>17. FractionOfNs(ns) = (CHOOSE x : TimeBits(x, 24, ns))[24].f
    BY SMT DEF FractionOfNs, TimeBits, Billion
  <1> QED
    BY <1>1, <1>15, <1>16, <1>17, BitsAreNumbers

\* The seconds, the fraction and the quality of a time stamp are eight octets.
LEMMA TimeIsPiece ==
  ASSUME NEW n \in Nat, NEW f \in Nat, NEW ts, ts[8] \in Int, NEW bits \in Nat
  PROVE  Piece(Timestamp_setSubsecondPrecision(Seconds(n) \o FractionOctets(f) \o <<ts[8]>>, bits),
               8)
  <1>1. PICK s1, s2, s3 : s1 = Seconds(n) /\ s2 = FractionOctets(f) /\ s3 = <<ts[8]>>
    OBVIOUS
  <1>2. Piece(s1, 4)
    BY <1>1, SecondsArePiece
  <1>3. Piece(s2, 3)
    <2>1. PICK a \in Int, b \in Int : a = f \div 65536 /\ b = (f \div 256) % 256
      BY QuotientsAreNumbers
    <2>2. PICK c \in Int : c = f % 256
      BY QuotientsAreNumbers
    <2>3. Piece(<<a, b, c>>, 3)
      BY DEF Piece
    <2> QED
      BY <1>1, <2>1, <2>2, <2>3, SMT DEF FractionOctets
  <1>4. Piece(s3, 1)
    BY <1>1 DEF Piece
  <1>5. PICK u, w : Joins(u, s1, s2) /\ Joins(w, u, s3)
    BY Zenon DEF Joins
  <1>6. Piece(u, 7)
    <2>1. Piece(u, 4 + 3)
      BY <1>2, <1>3, <1>5, JoinedOctets
    <2> QED
      BY <2>1
  <1>7. Piece(w, 8)
    <2>1. Piece(w, 7 + 1)
      BY <1>4, <1>5, <1>6, JoinedOctets
    <2> QED
      BY <2>1
  <1>8. PICK o \in Int : o = (w[8] \div 32) * 32 + (bits % 32)
    <2>1. w[8] \in Int
      <3>1. 8 \in 1 .. 8
        OBVIOUS
      <3> QED
        BY <1>7, <3>1, ElementOfSeq DEF Piece
    <2>2. PICK x \in Int : x = w[8]
      BY <2>1
    <2>3. (x \div 32) * 32 + (bits % 32) \in Int
      OBVIOUS
    <2> QED
      BY <2>2, <2>3
  <1>9. Piece([w EXCEPT ![8] = o], 8)
    <2>1. w \in Seq(Int) /\ Len(w) = 8
      BY <1>7 DEF Piece
    <2>2. PICK q : q = [w EXCEPT ![8] = o]
      OBVIOUS
    <2>3. PICK k \in Nat : k = 8
      OBVIOUS
    <2>4. w \in [1 .. k -> Int]
      <3>1. w \in [1 .. Len(w) -> Int]
        BY <2>1, LenProperties
      <3> QED
        BY <2>1, <2>3, <3>1, Zenon
    <2>5. q \in [1 .. k -> Int]
      BY <2>2, <2>4
    <2>6. \A x \in [1 .. k -> Int] : x \in Seq(Int) /\ Len(x) = k
      OBVIOUS
    <2> QED
      BY <2>2, <2>3, <2>5, <2>6, Zenon DEF Piece
  <1>10. Timestamp_setSubsecondPrecision(s1 \o s2 \o s3, bits) = [w EXCEPT ![8] = o]
    BY <1>5, <1>8, Zenon DEF Joins, Timestamp_setSubsecondPrecision
  <1> QED
    BY <1>1, <1>9, <1>10, Zenon

SetsRefrTime(pub2, pub, j, t) ==
    pub2 = CASE t.by = "ms" -> SVPublisher_ASDU_setRefrTm(pub, j, t.time)
             [] t.by = "ns" -> SVPublisher_ASDU_setRefrTmNs(pub, j, t.time)
             [] t.by = "timestamp" -> SVPublisher_ASDU_setRefrTmByTimestamp(pub, j, t.time)

\* The place of a refresh time is in the buffer, also when the layout has changed
\* since, so that it can be set at any time.
LEMMA SetRefreshTime ==
  ASSUME NEW pub \in Publisher, Len(pub.buffer) = BufferSize, NEW j \in 1 .. Len(pub.asduList),
         TimePlaced(pub.asduList[j]), NEW t \in RefrTimes, NEW pub2,
         SetsRefrTime(pub2, pub, j, t)
  PROVE  LET a == pub.asduList[j]
             b == pub2.asduList[j]
             W == IF a.refrTm = NoPos THEN {} ELSE a.refrTm + 1 .. a.refrTm + 8
         IN  /\ Wrote(pub, pub2, j, W)
             /\ b.smpCnt = a.smpCnt /\ b.smpSynch = a.smpSynch /\ TimePlaced(b)
  <1>1. PICK a \in Asdu : a = pub.asduList[j]
    BY PublisherTyped
  <1>2. PICK ts : ts = SubSeq(pub.buffer, a.refrTm + 1, a.refrTm + 8)
    OBVIOUS
  <1>3. a.refrTm # NoPos => ts[8] \in Int
    <2>1. SUFFICES ASSUME a.refrTm # NoPos PROVE ts[8] \in Int
      OBVIOUS
    <2>2. PICK pos \in Nat : pos = a.refrTm
      BY <2>1 DEF Asdu, Pos
    <2>3. PICK size \in Nat : size = BufferSize
      BY SvLayoutAssumption
    <2>4. PICK buffer \in Seq(Int) : buffer = pub.buffer /\ Len(buffer) = size
      BY <2>3, PublisherTyped
    <2>5. pos + 8 =< size
      BY <1>1, <2>1, <2>2, <2>3, Zenon DEF TimePlaced
    <2>6. \A i \in pos + 1 .. pos + 8 : buffer[i] \in Int
      <3> TAKE i \in pos + 1 .. pos + 8
      <3>1. i \in 1 .. size
        BY <2>5
      <3> QED
        BY <2>4, <3>1, ElementOfSeq
    <2>7. PICK m \in Int, n \in Int : m = pos + 1 /\ n = pos + 8
      OBVIOUS
    <2>8. \A i \in m .. n : buffer[i] \in Int
      BY <2>6, <2>7, Zenon
    <2>9. \A i \in 1 .. n - m + 1 : SubSeq(buffer, m, n)[i] = buffer[m + i - 1]
      BY <2>8, SubSeqProperties
    <2>10. 8 \in 1 .. n - m + 1 /\ m + 8 - 1 = n /\ n \in m .. n
      BY <2>7
    <2>11. SubSeq(buffer, m, n)[8] \in Int
      BY <2>8, <2>9, <2>10
    <2> QED
      BY <1>2, <2>2, <2>4, <2>7, <2>11, Zenon
  <1>4. ASSUME NEW octets, SetsTime(pub2, pub, j, octets), a.refrTm # NoPos => Piece(octets, 8)
        PROVE  LET c == pub.asduList[j]
                   b == pub2.asduList[j]
                   W == IF c.refrTm = NoPos THEN {} ELSE c.refrTm + 1 .. c.refrTm + 8
               IN  /\ Wrote(pub, pub2, j, W)
                   /\ b.smpCnt = c.smpCnt /\ b.smpSynch = c.smpSynch /\ TimePlaced(b)
    <2>1. pub.asduList[j].refrTm # NoPos => Piece(octets, 8)
      BY <1>1, <1>4
    <2> QED
      BY <1>4, <2>1, SetTime
  <1>0. RefrTime(t)
    BY SvLayoutAssumption
  <1>5. t.by = "ms" => t.time \in Nat
    BY <1>0, SMT DEF RefrTime
  <1>6. t.by = "ns" => t.time.secs \in Nat /\ t.time.ns \in Nat
    <2>1. ASSUME t.by = "ns" PROVE t.time.ns \in Nat /\ t.time.secs \in Nat
      BY <1>0, <2>1, SMT DEF RefrTime
    <2> QED
      BY <2>1
  <1>7. t.by # "ms" /\ t.by # "ns" => t.by = "timestamp" /\ t.time \in Seq(Octet) /\ Len(t.time) = 8
    BY <1>0, SMT DEF RefrTime
  <1>8. CASE t.by = "ms"
    <2>1. PICK ms \in Nat : ms = t.time
      BY <1>5, <1>8
    <2>2. PICK f \in Nat, n \in Nat : f = Fraction(ms % 1000) /\ n = ms \div 1000
      <3>1. PICK r \in Nat, n \in Nat : r = ms % 1000 /\ n = ms \div 1000
        BY QuotientsAreNumbers
      <3>2. r * 16777 + ((r * 216) \div 1000) \in Nat
        OBVIOUS
      <3> QED
        BY <3>1, <3>2, SMT DEF Fraction
    <2>3. PICK o : o = Timestamp_setSubsecondPrecision(
                            Seconds(n) \o FractionOctets(f) \o <<ts[8]>>, 10)
      OBVIOUS
    <2>4. SetsTime(pub2, pub, j, o)
      <3>1. o = Timestamp_setSubsecondPrecision(Timestamp_setTimeInMilliseconds(ts, t.time), 10)
        BY <2>1, <2>2, <2>3 DEF Timestamp_setTimeInMilliseconds
      <3> QED
        BY <1>1, <1>2, <1>8, <3>1, Zenon DEF SetsTime, SetsRefrTime, SVPublisher_ASDU_setRefrTm, SetRefrTm
    <2>5. a.refrTm # NoPos => Piece(o, 8)
      BY <1>3, <2>3, TimeIsPiece
    <2> QED
      BY <1>4, <2>4, <2>5
  <1>9. CASE t.by = "ns"
    <2>1. PICK n \in Nat, f \in Nat : n = t.time.secs /\ f = FractionOfNs(t.time.ns)
      BY <1>6, <1>9, FractionIsNumber
    <2>3. PICK o : o = Timestamp_setSubsecondPrecision(
                            Seconds(n) \o FractionOctets(f) \o <<ts[8]>>, 20)
      OBVIOUS
    <2>4. SetsTime(pub2, pub, j, o)
      BY <1>1, <1>2, <1>9, <2>1, <2>3, Zenon
      DEF SetsTime, SetsRefrTime, SVPublisher_ASDU_setRefrTmNs, SetRefrTm, Timestamp_setTimeInNanoseconds
    <2>5. a.refrTm # NoPos => Piece(o, 8)
      BY <1>3, <2>3, TimeIsPiece
    <2> QED
      BY <1>4, <2>4, <2>5
  <1>10. CASE t.by # "ms" /\ t.by # "ns"
    <2>1. SetsTime(pub2, pub, j, t.time)
      BY <1>7, <1>10, Zenon DEF SetsTime, SetsRefrTime, SVPublisher_ASDU_setRefrTmByTimestamp, SetRefrTm
    <2>2. Piece(t.time, 8)
      BY <1>7, <1>10, OctetsAreNumbers DEF Piece
    <2> QED
      BY <1>4, <2>1, <2>2
  <1> QED
    BY <1>8, <1>9, <1>10

-----------------------------------------------------------------------------
\* The invariant for a publisher and an application.
Sound(pub, app) ==
    /\ pub \in Publisher /\ app \in Application
    /\ Len(pub.buffer) = BufferSize /\ Len(app.asdus) = Len(pub.asduList)
    /\ \A j \in 1 .. Len(pub.asduList) :
        ElementsFit(pub.asduList[j], app.asdus[j].elements) /\ TimePlaced(pub.asduList[j])
    /\ app.ready => Placed(pub, app.laid) /\ Held(pub, app)

\* A call for ASDU j that writes to field f of it, when it is laid out.
FieldCall(pub, app, pub2, app2, j, f, W) ==
    /\ Sound(pub, app) /\ j \in 1 .. Len(pub.asduList) /\ f \in Fields
    /\ Wrote(pub, pub2, j, W) /\ TimePlaced(pub2.asduList[j])
    /\ app2 \in Application /\ Len(app2.asdus) = Len(app.asdus)
    /\ app2.laid = app.laid /\ app2.ready = app.ready
    /\ \A k \in 1 .. Len(pub.asduList) :
            k # j => app2.asdus[k].elements = app.asdus[k].elements
    /\ ElementsFit(pub.asduList[j], app2.asdus[j].elements)
    /\ app.ready =>
        /\ InField(W, app.laid, j, f) /\ CounterHeld(pub2.buffer, pub2.asduList[j])
        /\ \A m \in 1 .. Len(app2.asdus[j].elements) :
                ElementHeld(pub2.buffer, pub2.asduList[j], app2.asdus[j].elements[m])

\* The types of what the application knows.
LEMMA ApplicationTyped ==
  ASSUME NEW app \in Application
  PROVE  /\ app.asdus \in Seq(Known) /\ Len(app.asdus) \in Nat
         /\ app.laid \in Seq(Asdu) /\ app.ready \in BOOLEAN
         /\ \A k \in 1 .. Len(app.asdus) :
                /\ app.asdus[k] \in Known /\ app.asdus[k].elements \in Seq(Element)
                /\ Len(app.asdus[k].elements) \in Nat
                /\ \A m \in 1 .. Len(app.asdus[k].elements) :
                        app.asdus[k].elements[m] \in Element
  <1>1. app.asdus \in Seq(Known) /\ app.laid \in Seq(Asdu) /\ app.ready \in BOOLEAN
    BY DEF Application
  <1>2. Len(app.asdus) \in Nat /\ \A k \in 1 .. Len(app.asdus) : app.asdus[k] \in Known
    BY <1>1, LenProperties, ElementOfSeq
  <1>3. ASSUME NEW k \in 1 .. Len(app.asdus)
        PROVE  /\ app.asdus[k].elements \in Seq(Element)
               /\ Len(app.asdus[k].elements) \in Nat
               /\ \A m \in 1 .. Len(app.asdus[k].elements) : app.asdus[k].elements[m] \in Element
    <2>1. PICK known \in Known : known = app.asdus[k]
      BY <1>2
    <2>2. PICK els \in Seq(Element) : els = known.elements
      BY DEF Known
    <2>3. Len(els) \in Nat /\ \A m \in 1 .. Len(els) : els[m] \in Element
      BY LenProperties, ElementOfSeq
    <2> QED
      BY <2>1, <2>2, <2>3, Zenon
  <1> QED
    BY <1>1, <1>2, <1>3

\* A call that writes to one field of one ASDU preserves the invariant.
LEMMA FieldCallSound ==
  ASSUME NEW pub, NEW app, NEW pub2, NEW app2, NEW j, NEW f, NEW W,
         FieldCall(pub, app, pub2, app2, j, f, W)
  PROVE  Sound(pub2, app2)
  <1>0. /\ Sound(pub, app) /\ j \in 1 .. Len(pub.asduList) /\ f \in Fields
        /\ Wrote(pub, pub2, j, W) /\ TimePlaced(pub2.asduList[j])
        /\ app2 \in Application /\ Len(app2.asdus) = Len(app.asdus)
        /\ app2.laid = app.laid /\ app2.ready = app.ready
        /\ ElementsFit(pub.asduList[j], app2.asdus[j].elements)
    BY Zenon DEF FieldCall
  <1>1. \A k \in 1 .. Len(pub.asduList) :
            k # j => app2.asdus[k].elements = app.asdus[k].elements
    BY Zenon DEF FieldCall
  <1>2. app.ready =>
        /\ InField(W, app.laid, j, f) /\ CounterHeld(pub2.buffer, pub2.asduList[j])
        /\ \A m \in 1 .. Len(app2.asdus[j].elements) :
                ElementHeld(pub2.buffer, pub2.asduList[j], app2.asdus[j].elements[m])
    BY Zenon DEF FieldCall
  <1>3. /\ pub \in Publisher /\ app \in Application
        /\ Len(pub.buffer) = BufferSize /\ Len(app.asdus) = Len(pub.asduList)
        /\ app.ready => Placed(pub, app.laid) /\ Held(pub, app)
    BY <1>0, Zenon DEF Sound
  <1>4. /\ pub2 \in Publisher /\ Len(pub2.buffer) = BufferSize
        /\ Len(pub2.asduList) = Len(pub.asduList)
        /\ \A k \in 1 .. Len(pub.asduList) : k # j => pub2.asduList[k] = pub.asduList[k]
    BY <1>0, <1>3, Zenon DEF Wrote
  <1>5. ASSUME NEW k \in 1 .. Len(pub.asduList)
        PROVE  ElementsFit(pub2.asduList[k], app2.asdus[k].elements) /\ TimePlaced(pub2.asduList[k])
    <2>1. CASE k = j
      <3>1. SamePlaces(pub.asduList[j], pub2.asduList[j])
        BY <1>0, Zenon DEF Wrote
      <3> QED
        BY <1>0, <2>1, <3>1, Zenon DEF SamePlaces, ElementsFit
    <2>2. CASE k # j
      BY <1>0, <1>1, <1>4, <2>2, Zenon DEF Sound
    <2> QED
      BY <2>1, <2>2
  <1>6. ASSUME app.ready PROVE Placed(pub2, app2.laid) /\ Held(pub2, app2)
    <2>1. PICK L \in Seq(Asdu) : L = app.laid
      BY <1>3, ApplicationTyped
    <2>2. Placed(pub, L) /\ Held(pub, app) /\ Len(L) = Len(pub.asduList) /\ OctetsHeld(pub, L)
      BY <1>3, <1>6, <2>1, Zenon DEF Placed, Held
    <2>3. WroteField(pub, pub2, L, j, f, W)
      BY <1>0, <1>2, <1>3, <1>6, <2>1, <2>2, Zenon DEF WroteField
    <2>4. Placed(pub2, L)
      BY <1>0, <2>2, PlacedKept
    <2>5. OctetsHeld(pub2, L)
      BY <2>2, <2>3, OctetsKept
    <2>6. ASSUME NEW k \in 1 .. Len(pub.asduList), k # j
          PROVE  /\ CounterHeld(pub2.buffer, pub2.asduList[k])
                 /\ \A m \in 1 .. Len(app2.asdus[k].elements) :
                        ElementHeld(pub2.buffer, pub2.asduList[k], app2.asdus[k].elements[m])
      <3>1. pub2.asduList[k] = pub.asduList[k] /\ k \in 1 .. Len(L)
        BY <1>4, <2>2, <2>6
      <3>2. CounterHeld(pub.buffer, pub.asduList[k])
        BY <2>2, Zenon DEF Held
      <3>3. CounterHeld(pub2.buffer, pub2.asduList[k])
        <4>1. PICK b : b = pub2.asduList[k]
          OBVIOUS
        <4>2. /\ pub2.buffer[b.smpCntBuf + 1] = b.smpCnt \div 256
              /\ pub2.buffer[b.smpCntBuf + 2] = b.smpCnt % 256
              /\ pub2.buffer[b.smpSynchBuf + 1] = b.smpSynch
          BY <2>3, <2>6, <3>1, <3>2, <4>1, CounterKept, SMTT(30)
        <4> QED
          BY <4>1, <4>2, Zenon DEF CounterHeld
      <3>4. ASSUME NEW m \in 1 .. Len(app2.asdus[k].elements)
            PROVE  ElementHeld(pub2.buffer, pub2.asduList[k], app2.asdus[k].elements[m])
        <4>1. app2.asdus[k].elements = app.asdus[k].elements /\ k \in 1 .. Len(app.asdus)
          BY <1>1, <1>3, <2>6
        <4>2. PICK e \in Element : e = app2.asdus[k].elements[m] /\ e = app.asdus[k].elements[m]
          BY <1>3, <3>4, <4>1, ApplicationTyped
        <4>3. ElementHeld(pub.buffer, pub.asduList[k], e)
          BY <2>2, <3>4, <4>1, <4>2, Zenon DEF Held
        <4>4. e.index + ElementSize[e.kind] =< pub.asduList[k].dataSize
          <5>1. ElementsFit(pub.asduList[k], app.asdus[k].elements)
            BY <1>0, Zenon DEF Sound
          <5> QED
            BY <3>4, <4>1, <4>2, <5>1, Zenon DEF ElementsFit
        <4>5. ElementHeld(pub2.buffer, pub2.asduList[k], e)
          BY <2>3, <2>6, <3>1, <4>3, <4>4, ElementKept
        <4> QED
          BY <4>2, <4>5
      <3> QED
        BY <3>3, <3>4
    <2>7. ASSUME NEW k \in 1 .. Len(pub.asduList)
          PROVE  /\ CounterHeld(pub2.buffer, pub2.asduList[k])
                 /\ \A m \in 1 .. Len(app2.asdus[k].elements) :
                        ElementHeld(pub2.buffer, pub2.asduList[k], app2.asdus[k].elements[m])
      BY <1>2, <1>6, <2>6, <2>7
    <2>8. Held(pub2, app2)
      BY <1>0, <1>4, <2>1, <2>5, <2>7, Zenon DEF Held
    <2> QED
      BY <1>0, <2>1, <2>4, <2>8, Zenon
  <1> QED
    BY <1>0, <1>3, <1>4, <1>5, <1>6, Zenon DEF Sound

\* A write of n octets at place c of an ASDU stays in the field and in the
\* buffer.
LEMMA PutInField ==
  ASSUME NEW pub \in Publisher, Len(pub.buffer) = BufferSize, NEW L \in Seq(Asdu), Placed(pub, L),
         NEW j \in 1 .. Len(L), NEW f \in Fields, NEW c \in Nat, NEW n \in Nat,
         \A i \in 1 .. n : c + i \in Field(L[j], f), n # 0,
         NEW pos, pos = AsduAt(L, j - 1) + c
  PROVE  /\ pos \in Nat /\ InField(pos + 1 .. pos + n, L, j, f)
         /\ \A i \in 1 .. n : pos + i \in 1 .. Len(pub.buffer)
  <1>1. PayloadFits(L) /\ pub.payloadLength = AsduAt(L, Len(L)) /\ pub.payloadLength =< BufferSize
    BY DEF Placed
  <1>2. \A i \in 1 .. n : c + i \in 1 .. AsduLength(L[j])
    BY DEF Field
  <1>3. PICK at \in Nat : at = AsduAt(L, j - 1)
    <2>1. c + 1 \in 1 .. AsduLength(L[j])
      BY <1>2
    <2>2. PICK x : x = c + 1
      OBVIOUS
    <2> QED
      BY <1>1, <2>1, <2>2, Slots
  <1>4. pos \in Nat /\ pos = at + c
    BY <1>3
  <1>5. ASSUME NEW i \in 1 .. n PROVE pos + i \in 1 .. Len(pub.buffer)
    <2>1. PICK x \in 1 .. AsduLength(L[j]) : x = c + i
      BY <1>2
    <2>2. at + x \in 1 .. AsduAt(L, Len(L))
      BY <1>1, <1>3, Slots
    <2>3. PICK z \in Nat, y \in Nat : z = pub.payloadLength /\ y = BufferSize
      BY PublisherTyped, SvLayoutAssumption
    <2>4. pos + i = at + x
      BY <1>4, <2>1, SMTT(30)
    <2> QED
      BY <1>1, <2>2, <2>3, <2>4
  <1>6. ASSUME NEW p \in pos + 1 .. pos + n
        PROVE  \E x \in Field(L[j], f) : p = AsduAt(L, j - 1) + x
    <2>1. PICK i \in 1 .. n : p = at + (c + i)
      <3>1. PICK b \in Nat : b = pos /\ b = at + c
        BY <1>4
      <3>2. p \in b + 1 .. b + n
        BY <3>1
      <3>3. p - b \in 1 .. n /\ p = b + (p - b) /\ p \in Int
        BY <3>2
      <3>4. PICK i \in 1 .. n : p = b + i
        BY <3>3
      <3>5. p = at + (c + i)
        BY <3>1, <3>4
      <3> QED
        BY <3>5
    <2> QED
      BY <1>3, <2>1
  <1> QED
    BY <1>4, <1>5, <1>6, Zenon DEF InField

\* A call for ASDU j that writes no element.
NoElementCall(pub, app, pub2, app2, j, f, W) ==
    /\ Sound(pub, app) /\ j \in 1 .. Len(pub.asduList) /\ f \in Fields /\ f # "data"
    /\ Wrote(pub, pub2, j, W) /\ TimePlaced(pub2.asduList[j])
    /\ app2 \in Application /\ Len(app2.asdus) = Len(app.asdus)
    /\ app2.laid = app.laid /\ app2.ready = app.ready
    /\ \A k \in 1 .. Len(pub.asduList) : app2.asdus[k].elements = app.asdus[k].elements
    /\ app.ready =>
        /\ InField(W, app.laid, j, f)
        /\ f = "smpCnt" => /\ pub2.buffer[pub2.asduList[j].smpCntBuf + 1]
                                = pub2.asduList[j].smpCnt \div 256
                           /\ pub2.buffer[pub2.asduList[j].smpCntBuf + 2]
                                = pub2.asduList[j].smpCnt % 256
        /\ f # "smpCnt" => pub2.asduList[j].smpCnt = pub.asduList[j].smpCnt
        /\ f = "smpSynch" => pub2.buffer[pub2.asduList[j].smpSynchBuf + 1]
                                = pub2.asduList[j].smpSynch
        /\ f # "smpSynch" => pub2.asduList[j].smpSynch = pub.asduList[j].smpSynch

\* The same for a call that sets no element.
LEMMA NoElementCallSound ==
  ASSUME NEW pub, NEW app, NEW pub2, NEW app2, NEW j, NEW f, NEW W,
         NoElementCall(pub, app, pub2, app2, j, f, W)
  PROVE  Sound(pub2, app2)
  <1>0. /\ Sound(pub, app) /\ j \in 1 .. Len(pub.asduList) /\ f \in Fields /\ f # "data"
        /\ Wrote(pub, pub2, j, W) /\ TimePlaced(pub2.asduList[j])
        /\ app2 \in Application /\ Len(app2.asdus) = Len(app.asdus)
        /\ app2.laid = app.laid /\ app2.ready = app.ready
    BY Zenon DEF NoElementCall
  <1>1. \A k \in 1 .. Len(pub.asduList) : app2.asdus[k].elements = app.asdus[k].elements
    BY Zenon DEF NoElementCall
  <1>2. /\ pub \in Publisher /\ app \in Application
        /\ Len(pub.buffer) = BufferSize /\ Len(app.asdus) = Len(pub.asduList)
        /\ app.ready => Placed(pub, app.laid) /\ Held(pub, app)
    BY <1>0, Zenon DEF Sound
  <1>3. ElementsFit(pub.asduList[j], app2.asdus[j].elements)
    BY <1>0, <1>1, Zenon DEF Sound
  <1>4. ASSUME app.ready
        PROVE  /\ InField(W, app.laid, j, f) /\ CounterHeld(pub2.buffer, pub2.asduList[j])
               /\ \A m \in 1 .. Len(app2.asdus[j].elements) :
                       ElementHeld(pub2.buffer, pub2.asduList[j], app2.asdus[j].elements[m])
    <2>1. PICK L \in Seq(Asdu) : L = app.laid
      BY <1>2, ApplicationTyped
    <2>2. Placed(pub, L) /\ Held(pub, app) /\ Len(L) = Len(pub.asduList)
      BY <1>2, <1>4, <2>1, Zenon DEF Placed
    <2>3. WroteField(pub, pub2, L, j, f, W) /\ InField(W, app.laid, j, f)
      BY <1>0, <1>2, <1>4, <2>1, <2>2, Zenon DEF WroteField, NoElementCall
    <2>4. CounterHeld(pub.buffer, pub.asduList[j]) /\ j \in 1 .. Len(L)
      BY <1>0, <2>2, Zenon DEF Held
    <2>5. CounterHeld(pub2.buffer, pub2.asduList[j])
      <3>1. PICK a, b : a = pub.asduList[j] /\ b = pub2.asduList[j]
        OBVIOUS
      <3>2. /\ f # "smpCnt" /\ b.smpCnt = a.smpCnt
                   => /\ pub2.buffer[b.smpCntBuf + 1] = b.smpCnt \div 256
                      /\ pub2.buffer[b.smpCntBuf + 2] = b.smpCnt % 256
            /\ f # "smpSynch" /\ b.smpSynch = a.smpSynch
                   => pub2.buffer[b.smpSynchBuf + 1] = b.smpSynch
        BY <2>3, <2>4, <3>1, CounterKept
      <3>3. /\ f = "smpCnt" => /\ pub2.buffer[b.smpCntBuf + 1] = b.smpCnt \div 256
                               /\ pub2.buffer[b.smpCntBuf + 2] = b.smpCnt % 256
            /\ f # "smpCnt" => b.smpCnt = a.smpCnt
            /\ f = "smpSynch" => pub2.buffer[b.smpSynchBuf + 1] = b.smpSynch
            /\ f # "smpSynch" => b.smpSynch = a.smpSynch
        BY <1>4, <3>1, Zenon DEF NoElementCall
      <3>4. /\ pub2.buffer[b.smpCntBuf + 1] = b.smpCnt \div 256
            /\ pub2.buffer[b.smpCntBuf + 2] = b.smpCnt % 256
            /\ pub2.buffer[b.smpSynchBuf + 1] = b.smpSynch
        BY <3>2, <3>3, Zenon
      <3> QED
        BY <3>1, <3>4, Zenon DEF CounterHeld
    <2>6. ASSUME NEW m \in 1 .. Len(app2.asdus[j].elements)
          PROVE  ElementHeld(pub2.buffer, pub2.asduList[j], app2.asdus[j].elements[m])
      <3>1. app2.asdus[j].elements = app.asdus[j].elements /\ j \in 1 .. Len(app.asdus)
        BY <1>0, <1>1, <1>2
      <3>2. PICK e \in Element : e = app2.asdus[j].elements[m] /\ e = app.asdus[j].elements[m]
        BY <1>2, <2>6, <3>1, ApplicationTyped
      <3>3. ElementHeld(pub.buffer, pub.asduList[j], e)
        BY <1>0, <2>2, <2>6, <3>1, <3>2, Zenon DEF Held
      <3>4. e.index + ElementSize[e.kind] =< pub.asduList[j].dataSize
        BY <1>3, <2>6, <3>1, <3>2, Zenon DEF ElementsFit
      <3>5. ElementHeld(pub2.buffer, pub2.asduList[j], e)
        BY <1>0, <2>3, <2>4, <3>3, <3>4, ElementKept
      <3> QED
        BY <3>2, <3>5
    <2> QED
      BY <2>3, <2>5, <2>6
  <1>5. \A k \in 1 .. Len(pub.asduList) : k # j => app2.asdus[k].elements = app.asdus[k].elements
    BY <1>1
  <1>6. FieldCall(pub, app, pub2, app2, j, f, W)
    BY <1>0, <1>3, <1>4, <1>5, Zenon DEF FieldCall
  <1> QED
    BY <1>6, FieldCallSound

\* What the invariant says, piece by piece.
LEMMA SoundParts ==
  ASSUME NEW pub, NEW app, Sound(pub, app)
  PROVE  /\ pub \in Publisher /\ app \in Application
         /\ Len(pub.buffer) = BufferSize /\ Len(app.asdus) = Len(pub.asduList)
         /\ \A j \in 1 .. Len(pub.asduList) :
                /\ ElementsFit(pub.asduList[j], app.asdus[j].elements)
                /\ TimePlaced(pub.asduList[j])
         /\ app.ready => /\ Placed(pub, app.laid) /\ Held(pub, app)
                         /\ Len(app.laid) = Len(pub.asduList)
                         /\ \A j \in 1 .. Len(pub.asduList) :
                                /\ app.laid[j] \in Asdu
                                /\ PlacedAsdu(pub.asduList[j], app.laid[j],
                                              AsduAt(app.laid, j - 1))
  <1>1. /\ pub \in Publisher /\ app \in Application
        /\ Len(pub.buffer) = BufferSize /\ Len(app.asdus) = Len(pub.asduList)
        /\ \A j \in 1 .. Len(pub.asduList) :
                /\ ElementsFit(pub.asduList[j], app.asdus[j].elements)
                /\ TimePlaced(pub.asduList[j])
        /\ app.ready => Placed(pub, app.laid) /\ Held(pub, app)
    BY Zenon DEF Sound
  <1>2. app.laid \in Seq(Asdu)
    BY <1>1, ApplicationTyped
  <1>3. \A j \in 1 .. Len(app.laid) : app.laid[j] \in Asdu
    BY <1>2, AsdusTyped
  <1> QED
    BY <1>1, <1>3, Zenon DEF Placed

\* Setting an option preserves the invariant.
LEMMA SetsSound ==
  ASSUME NEW pub, NEW app, Sound(pub, app), NEW j \in 1 .. Len(pub.asduList), NEW pub2,
         Sets(pub, pub2, j)
  PROVE  Sound(pub2, app)
  <1>1. PICK W : W = {}
    OBVIOUS
  <1>2. /\ Wrote(pub, pub2, j, W) /\ pub2.asduList[j].smpCnt = pub.asduList[j].smpCnt
        /\ pub2.asduList[j].smpSynch = pub.asduList[j].smpSynch
        /\ TimePlaced(pub.asduList[j]) => TimePlaced(pub2.asduList[j])
    BY <1>1, Zenon DEF Sets
  <1>3. TimePlaced(pub2.asduList[j]) /\ app \in Application
    BY <1>2, SoundParts
  <1>4. InField(W, app.laid, j, "refrTm")
    BY <1>1, Zenon DEF InField
  <1>5. "refrTm" \in Fields /\ "refrTm" # "data" /\ "refrTm" # "smpCnt" /\ "refrTm" # "smpSynch"
    BY DEF Fields
  <1>6. NoElementCall(pub, app, pub2, app, j, "refrTm", W)
    BY <1>2, <1>3, <1>4, <1>5, Zenon DEF NoElementCall
  <1> QED
    BY <1>6, NoElementCallSound

\* SVPublisher_ASDU_setSmpCnt preserves the invariant.
LEMMA SetSmpCntSound ==
  ASSUME NEW pub, NEW app, Sound(pub, app), NEW j \in 1 .. Len(pub.asduList), NEW n \in Nat
  PROVE  Sound(SVPublisher_ASDU_setSmpCnt(pub, j, n), app)
  <1>1. PICK pub2 : pub2 = SVPublisher_ASDU_setSmpCnt(pub, j, n)
    OBVIOUS
  <1>2. /\ pub \in Publisher /\ app \in Application /\ Len(pub.buffer) = BufferSize
        /\ TimePlaced(pub.asduList[j])
    BY SoundParts
  <1>3. PICK a, b : a = pub.asduList[j] /\ b = pub2.asduList[j]
    OBVIOUS
  <1>4. PICK W : W = IF a.smpCntBuf = NoPos THEN {} ELSE a.smpCntBuf + 1 .. a.smpCntBuf + 2
    OBVIOUS
  <1>5. /\ Wrote(pub, pub2, j, W)
        /\ b.smpCnt = n /\ b.smpSynch = a.smpSynch /\ b.hasRefrTm = a.hasRefrTm
        /\ a.smpCntBuf # NoPos =>
              \A i \in 1 .. 2 : a.smpCntBuf + i \in 1 .. Len(pub.buffer)
                 => pub2.buffer[a.smpCntBuf + i] = IF i = 1 THEN n \div 256 ELSE n % 256
    <2>1. LET c == pub.asduList[j]
              d == pub2.asduList[j]
              X == IF c.smpCntBuf = NoPos THEN {} ELSE c.smpCntBuf + 1 .. c.smpCntBuf + 2
          IN  /\ Wrote(pub, pub2, j, X)
              /\ d.smpCnt = n /\ d.smpSynch = c.smpSynch /\ d.hasRefrTm = c.hasRefrTm
              /\ c.smpCntBuf # NoPos =>
                     \A i \in 1 .. 2 : c.smpCntBuf + i \in 1 .. Len(pub.buffer)
                         => pub2.buffer[c.smpCntBuf + i] = IF i = 1 THEN n \div 256 ELSE n % 256
      <3>1. SetsSmpCnt(pub2, pub, j, n)
        BY <1>1, Zenon DEF SetsSmpCnt
      <3> QED
        BY <1>2, <3>1, SetSmpCnt
    <2> QED
      BY <1>3, <1>4, <2>1, Zenon
  <1>6. SamePlaces(a, b)
    BY <1>3, <1>5, Zenon DEF Wrote
  <1>7. TimePlaced(b)
    BY <1>2, <1>3, <1>5, <1>6, Zenon DEF TimePlaced, SamePlaces
  <1>8. ASSUME app.ready
        PROVE  /\ InField(W, app.laid, j, "smpCnt")
               /\ pub2.buffer[b.smpCntBuf + 1] = n \div 256
               /\ pub2.buffer[b.smpCntBuf + 2] = n % 256
    <2>1. PICK L \in Seq(Asdu) : L = app.laid
      BY <1>2, ApplicationTyped
    <2>2. Placed(pub, L) /\ j \in 1 .. Len(L) /\ L[j] \in Asdu
          /\ PlacedAsdu(a, L[j], AsduAt(L, j - 1))
      BY <1>3, <1>8, <2>1, SoundParts
    <2>3. PICK c \in Nat : c = SmpCntAt(L[j])
      BY <2>2, Places
    <2>4. PICK pos : pos = a.smpCntBuf
      OBVIOUS
    <2>5. pos = AsduAt(L, j - 1) + c
      BY <2>2, <2>3, <2>4, Zenon DEF PlacedAsdu
    <2>6. PICK k \in Nat : k = 2
      OBVIOUS
    <2>7. \A i \in 1 .. k : c + i \in Field(L[j], "smpCnt")
      <3>1. c + 1 \in Field(L[j], "smpCnt") /\ c + 2 \in Field(L[j], "smpCnt")
        BY <2>2, <2>3, FieldsApart
      <3>2. \A i \in 1 .. k : i = 1 \/ i = 2
        BY <2>6
      <3> QED
        BY <3>1, <3>2, Zenon
    <2>8. /\ pos \in Nat /\ InField(pos + 1 .. pos + k, L, j, "smpCnt")
          /\ \A i \in 1 .. k : pos + i \in 1 .. Len(pub.buffer)
      <3>1. "smpCnt" \in Fields /\ k # 0
        BY <2>6 DEF Fields
      <3> QED
        BY <1>2, <2>2, <2>5, <2>7, <3>1, PutInField
    <2>9. pos # NoPos
      BY <2>8 DEF NoPos
    <2>10. W = pos + 1 .. pos + k
      BY <1>4, <2>4, <2>6, <2>9, Zenon
    <2>11. \A i \in 1 .. k : pub2.buffer[pos + i] = IF i = 1 THEN n \div 256 ELSE n % 256
      BY <1>5, <2>4, <2>6, <2>8, <2>9, Zenon
    <2>12. 1 \in 1 .. k /\ 2 \in 1 .. k /\ 1 # 2
      BY <2>6
    <2>13. pub2.buffer[pos + 1] = n \div 256 /\ pub2.buffer[pos + 2] = n % 256
      BY <2>11, <2>12, Zenon
    <2>14. b.smpCntBuf = pos
      BY <1>6, <2>4, Zenon DEF SamePlaces
    <2> QED
      BY <2>1, <2>8, <2>10, <2>13, <2>14, Zenon
  <1>9. "smpCnt" \in Fields /\ "smpCnt" # "data" /\ "smpCnt" # "smpSynch"
    BY DEF Fields
  <1>10. NoElementCall(pub, app, pub2, app, j, "smpCnt", W)
    BY <1>2, <1>3, <1>5, <1>7, <1>8, <1>9, Zenon DEF NoElementCall
  <1> QED
    BY <1>1, <1>10, NoElementCallSound

\* SVPublisher_ASDU_setSmpSynch preserves the invariant.
LEMMA SetSmpSynchSound ==
  ASSUME NEW pub, NEW app, Sound(pub, app), NEW j \in 1 .. Len(pub.asduList), NEW n \in Nat
  PROVE  Sound(SVPublisher_ASDU_setSmpSynch(pub, j, n), app)
  <1>1. PICK pub2 : pub2 = SVPublisher_ASDU_setSmpSynch(pub, j, n)
    OBVIOUS
  <1>2. /\ pub \in Publisher /\ app \in Application /\ Len(pub.buffer) = BufferSize
        /\ TimePlaced(pub.asduList[j])
    BY SoundParts
  <1>3. PICK a, b : a = pub.asduList[j] /\ b = pub2.asduList[j]
    OBVIOUS
  <1>4. PICK W : W = a.smpSynchBuf + 1 .. a.smpSynchBuf + 1
    OBVIOUS
  <1>5. /\ Wrote(pub, pub2, j, W)
        /\ b.smpCnt = a.smpCnt /\ b.hasRefrTm = a.hasRefrTm
        /\ a.smpSynchBuf + 1 \in 1 .. Len(pub.buffer)
              => pub2.buffer[a.smpSynchBuf + 1] = b.smpSynch
    BY <1>1, <1>2, <1>3, <1>4, SetSmpSynch
  <1>6. SamePlaces(a, b)
    BY <1>3, <1>5, Zenon DEF Wrote
  <1>7. TimePlaced(b)
    BY <1>2, <1>3, <1>5, <1>6, Zenon DEF TimePlaced, SamePlaces
  <1>8. ASSUME app.ready
        PROVE  /\ InField(W, app.laid, j, "smpSynch")
               /\ pub2.buffer[b.smpSynchBuf + 1] = b.smpSynch
    <2>1. PICK L \in Seq(Asdu) : L = app.laid
      BY <1>2, ApplicationTyped
    <2>2. Placed(pub, L) /\ j \in 1 .. Len(L) /\ L[j] \in Asdu
          /\ PlacedAsdu(a, L[j], AsduAt(L, j - 1))
      BY <1>3, <1>8, <2>1, SoundParts
    <2>3. PICK c \in Nat : c = SmpSynchAt(L[j])
      BY <2>2, Places
    <2>4. PICK pos : pos = a.smpSynchBuf
      OBVIOUS
    <2>5. pos = AsduAt(L, j - 1) + c
      BY <2>2, <2>3, <2>4, Zenon DEF PlacedAsdu
    <2>6. PICK k \in Nat : k = 1
      OBVIOUS
    <2>7. \A i \in 1 .. k : c + i \in Field(L[j], "smpSynch")
      <3>1. c + 1 \in Field(L[j], "smpSynch")
        BY <2>2, <2>3, FieldsApart
      <3>2. \A i \in 1 .. k : i = 1
        BY <2>6
      <3> QED
        BY <3>1, <3>2, Zenon
    <2>8. /\ pos \in Nat /\ InField(pos + 1 .. pos + k, L, j, "smpSynch")
          /\ \A i \in 1 .. k : pos + i \in 1 .. Len(pub.buffer)
      <3>1. "smpSynch" \in Fields /\ k # 0
        BY <2>6 DEF Fields
      <3> QED
        BY <1>2, <2>2, <2>5, <2>7, <3>1, PutInField
    <2>9. W = pos + 1 .. pos + k /\ 1 \in 1 .. k
      BY <1>4, <2>4, <2>6
    <2>10. pub2.buffer[pos + 1] = b.smpSynch
      BY <1>5, <2>4, <2>8, <2>9, Zenon
    <2>11. b.smpSynchBuf = pos
      BY <1>6, <2>4, Zenon DEF SamePlaces
    <2> QED
      BY <2>1, <2>8, <2>9, <2>10, <2>11, Zenon
  <1>9. "smpSynch" \in Fields /\ "smpSynch" # "data" /\ "smpCnt" # "smpSynch"
    BY DEF Fields
  <1>10. NoElementCall(pub, app, pub2, app, j, "smpSynch", W)
    BY <1>2, <1>3, <1>5, <1>7, <1>8, <1>9, Zenon DEF NoElementCall
  <1> QED
    BY <1>1, <1>10, NoElementCallSound

-----------------------------------------------------------------------------
\* What the application knows of ASDU j, replaced.
Knows(app2, app, j, known) ==
    /\ app \in Application /\ j \in 1 .. Len(app.asdus) /\ known \in Known
    /\ app2 = [app EXCEPT !.asdus[j] = known]

\* What the application knows of one ASDU is replaced.
LEMMA KnowsTyped ==
  ASSUME NEW app, NEW j, NEW known, NEW app2, Knows(app2, app, j, known)
  PROVE  /\ app2 \in Application /\ Len(app2.asdus) = Len(app.asdus)
         /\ app2.laid = app.laid /\ app2.ready = app.ready /\ app2.asdus[j] = known
         /\ \A k \in 1 .. Len(app.asdus) : k # j => app2.asdus[k] = app.asdus[k]
  <1>0. app \in Application /\ j \in 1 .. Len(app.asdus) /\ known \in Known
    BY DEF Knows
  <1> USE <1>0
  <1>1. PICK list \in Seq(Known), n \in Nat : list = app.asdus /\ n = Len(app.asdus) /\ n = Len(list)
    BY ApplicationTyped
  <1>2. PICK new : new = [list EXCEPT ![j] = known]
    OBVIOUS
  <1>3. /\ new \in Seq(Known) /\ Len(new) = n /\ new[j] = known
        /\ \A k \in 1 .. n : k # j => new[k] = list[k]
    BY <1>1, <1>2, ExceptSeq
  <1>4. app2 = [app EXCEPT !.asdus = new]
    BY <1>1, <1>2, Zenon DEF Knows
  <1>5. app2 \in Application /\ app2.asdus = new /\ app2.laid = app.laid /\ app2.ready = app.ready
    BY <1>3, <1>4 DEF Application
  <1> QED
    BY <1>1, <1>3, <1>5, Zenon

KnowsTime(app2, app, j, t) == app2 = [app EXCEPT !.asdus[j].refrTm = t]

KnowsValue(app2, app, j, k, v) ==
    /\ app \in Application /\ j \in 1 .. Len(app.asdus)
    /\ k \in 1 .. Len(app.asdus[j].elements)
    /\ v \in ElementValues[app.asdus[j].elements[k].kind]
    /\ app2 = [app EXCEPT !.asdus[j].elements[k].value = v]

\* The application has set a refresh time.
LEMMA NewRefrTm ==
  ASSUME NEW app \in Application, NEW j \in 1 .. Len(app.asdus), NEW t \in RefrTimes,
         NEW app2, KnowsTime(app2, app, j, t)
  PROVE  /\ app2 \in Application /\ Len(app2.asdus) = Len(app.asdus)
         /\ app2.laid = app.laid /\ app2.ready = app.ready
         /\ \A k \in 1 .. Len(app.asdus) : app2.asdus[k].elements = app.asdus[k].elements
  <1>1. PICK old \in Known : old = app.asdus[j]
    BY ApplicationTyped
  <1>2. PICK known : known = [old EXCEPT !.refrTm = t]
    OBVIOUS
  <1>3. known \in Known /\ known.elements = old.elements
    BY <1>2 DEF Known
  <1>4. Knows(app2, app, j, known)
    BY <1>1, <1>2, <1>3, Zenon DEF Knows, KnowsTime
  <1>5. /\ app2 \in Application /\ Len(app2.asdus) = Len(app.asdus)
        /\ app2.laid = app.laid /\ app2.ready = app.ready /\ app2.asdus[j] = known
        /\ \A k \in 1 .. Len(app.asdus) : k # j => app2.asdus[k] = app.asdus[k]
    BY <1>4, KnowsTyped
  <1> QED
    BY <1>1, <1>3, <1>5, Zenon

\* The application has set an element.
LEMMA NewValue ==
  ASSUME NEW app, NEW j, NEW k, NEW v, NEW app2, KnowsValue(app2, app, j, k, v)
  PROVE  /\ app2 \in Application /\ Len(app2.asdus) = Len(app.asdus)
         /\ app2.laid = app.laid /\ app2.ready = app.ready
         /\ \A i \in 1 .. Len(app.asdus) :
                i # j => app2.asdus[i].elements = app.asdus[i].elements
         /\ Len(app2.asdus[j].elements) = Len(app.asdus[j].elements)
         /\ \A m \in 1 .. Len(app.asdus[j].elements) :
                /\ app2.asdus[j].elements[m].kind = app.asdus[j].elements[m].kind
                /\ app2.asdus[j].elements[m].index = app.asdus[j].elements[m].index
                /\ m # k => app2.asdus[j].elements[m] = app.asdus[j].elements[m]
         /\ app2.asdus[j].elements[k].value = v
  <1>0. /\ app \in Application /\ j \in 1 .. Len(app.asdus)
        /\ k \in 1 .. Len(app.asdus[j].elements)
        /\ v \in ElementValues[app.asdus[j].elements[k].kind]
    BY DEF KnowsValue
  <1> USE <1>0
  <1>1. PICK old \in Known : old = app.asdus[j]
    BY ApplicationTyped
  <1>2. PICK els \in Seq(Element) : els = old.elements
    BY DEF Known
  <1>3. PICK e \in Element : e = els[k]
    BY <1>1, <1>2, ElementOfSeq
  <1>4. PICK e2 : e2 = [e EXCEPT !.value = v]
    OBVIOUS
  <1>5. v \in ElementValues[e.kind]
    BY <1>1, <1>2, <1>3
  <1>6. /\ e \in [kind : DOMAIN ElementValues, value : Values, index : Nat]
        /\ e.kind \in DOMAIN ElementValues
    BY DEF Element
  <1>7. v \in Values
    BY <1>5, <1>6 DEF Values
  <1>8. e2 \in [kind : DOMAIN ElementValues, value : Values, index : Nat]
        /\ e2.kind = e.kind /\ e2.index = e.index /\ e2.value = v
    BY <1>4, <1>6, <1>7
  <1>9. e2 \in Element
    BY <1>5, <1>8 DEF Element
  <1>10. PICK els2 : els2 = [els EXCEPT ![k] = e2]
    OBVIOUS
  <1>11. PICK z \in Nat : z = Len(els) /\ k \in 1 .. z
    BY <1>1, <1>2, LenProperties
  <1>12. /\ els2 \in Seq(Element) /\ Len(els2) = z /\ els2[k] = e2
         /\ \A m \in 1 .. z : m # k => els2[m] = els[m]
    BY <1>9, <1>10, <1>11, ExceptSeq
  <1>13. PICK known : known = [old EXCEPT !.elements = els2]
    OBVIOUS
  <1>14. known \in Known /\ known.elements = els2
    BY <1>12, <1>13 DEF Known
  <1>15. Knows(app2, app, j, known)
    BY <1>1, <1>2, <1>3, <1>4, <1>10, <1>13, <1>14, Zenon DEF Knows, KnowsValue
  <1>16. /\ app2 \in Application /\ Len(app2.asdus) = Len(app.asdus)
         /\ app2.laid = app.laid /\ app2.ready = app.ready /\ app2.asdus[j] = known
         /\ \A i \in 1 .. Len(app.asdus) : i # j => app2.asdus[i] = app.asdus[i]
    BY <1>15, KnowsTyped
  <1>17. \A m \in 1 .. z : els2[m].kind = els[m].kind /\ els2[m].index = els[m].index
    BY <1>3, <1>8, <1>12, Zenon
  <1> QED
    BY <1>1, <1>2, <1>8, <1>11, <1>12, <1>14, <1>16, <1>17, Zenon

\* The setters of the refresh time preserve the invariant.
LEMMA SetRefreshTimeSound ==
  ASSUME NEW pub, NEW app, Sound(pub, app), NEW j \in 1 .. Len(pub.asduList),
         NEW t \in RefrTimes, NEW pub2, SetsRefrTime(pub2, pub, j, t),
         NEW app2, KnowsTime(app2, app, j, t)
  PROVE  Sound(pub2, app2)
  <1>1. /\ pub \in Publisher /\ app \in Application /\ Len(pub.buffer) = BufferSize
        /\ TimePlaced(pub.asduList[j]) /\ Len(app.asdus) = Len(pub.asduList)
    BY SoundParts
  <1>2. PICK a, b : a = pub.asduList[j] /\ b = pub2.asduList[j]
    OBVIOUS
  <1>3. PICK W : W = IF a.refrTm = NoPos THEN {} ELSE a.refrTm + 1 .. a.refrTm + 8
    OBVIOUS
  <1>4. /\ Wrote(pub, pub2, j, W)
        /\ b.smpCnt = a.smpCnt /\ b.smpSynch = a.smpSynch /\ TimePlaced(b)
    <2>1. LET c == pub.asduList[j]
              d == pub2.asduList[j]
              X == IF c.refrTm = NoPos THEN {} ELSE c.refrTm + 1 .. c.refrTm + 8
          IN  /\ Wrote(pub, pub2, j, X)
              /\ d.smpCnt = c.smpCnt /\ d.smpSynch = c.smpSynch /\ TimePlaced(d)
      BY <1>1, SetRefreshTime
    <2> QED
      BY <1>2, <1>3, <2>1, Zenon
  <1>5. /\ app2 \in Application /\ Len(app2.asdus) = Len(app.asdus)
        /\ app2.laid = app.laid /\ app2.ready = app.ready
        /\ \A k \in 1 .. Len(app.asdus) : app2.asdus[k].elements = app.asdus[k].elements
    BY <1>1, NewRefrTm
  <1>6. ASSUME app.ready PROVE InField(W, app.laid, j, "refrTm")
    <2>1. CASE a.refrTm = NoPos
      BY <1>3, <2>1, Zenon DEF InField
    <2>2. CASE a.refrTm # NoPos
      <3>1. PICK L \in Seq(Asdu) : L = app.laid
        BY <1>1, ApplicationTyped
      <3>2. Placed(pub, L) /\ j \in 1 .. Len(L) /\ L[j] \in Asdu
            /\ PlacedAsdu(a, L[j], AsduAt(L, j - 1))
        BY <1>2, <1>6, <3>1, SoundParts
      <3>3. PICK c \in Nat : c = RefrTmAt(L[j])
        BY <3>2, Places
      <3>4. PICK pos : pos = a.refrTm
        OBVIOUS
      <3>5. L[j].hasRefrTm /\ pos = AsduAt(L, j - 1) + c
        BY <2>2, <3>2, <3>3, <3>4, Zenon DEF PlacedAsdu
      <3>6. PICK k \in Nat : k = 8
        OBVIOUS
      <3>7. \A i \in 1 .. k : c + i \in Field(L[j], "refrTm")
        BY <3>2, <3>3, <3>5, <3>6, FieldsApart
      <3>8. InField(pos + 1 .. pos + k, L, j, "refrTm")
        <4>1. "refrTm" \in Fields /\ k # 0
          BY <3>6 DEF Fields
        <4> QED
          BY <1>1, <3>2, <3>5, <3>7, <4>1, PutInField
      <3> QED
        BY <1>3, <2>2, <3>1, <3>4, <3>6, <3>8, Zenon
    <2> QED
      BY <2>1, <2>2
  <1>7. "refrTm" \in Fields /\ "refrTm" # "data" /\ "refrTm" # "smpCnt" /\ "refrTm" # "smpSynch"
    BY DEF Fields
  <1>8. NoElementCall(pub, app, pub2, app2, j, "refrTm", W)
    BY <1>1, <1>2, <1>4, <1>5, <1>6, <1>7, Zenon DEF NoElementCall
  <1> QED
    BY <1>8, NoElementCallSound

\* Every ASDU of a complete layout has a place.
LEMMA LaidAt ==
  ASSUME NEW pub, NEW L \in Seq(Asdu), Placed(pub, L), NEW j \in 1 .. Len(L)
  PROVE  AsduAt(L, j - 1) \in Nat
  <1>1. PICK n \in Nat : n = Len(L)
    BY AsdusTyped
  <1>2. j - 1 \in 0 .. n
    BY <1>1
  <1>3. PayloadFits(L)
    BY DEF Placed
  <1>4. PICK k \in 0 .. n : k = j - 1
    BY <1>2
  <1> QED
    BY <1>1, <1>3, <1>4, AsduPlaces

\* An element is set, and those of the ASDU before it and behind it are left alone.
SetsElement(pub2, pub, j, e, v) == pub2 = SVPublisher_ASDU_set(pub, j, e.index, e.kind, v)

\* The setters of the elements preserve the invariant: an element lies apart from
\* the elements before it and behind it.
LEMMA SetValueSound ==
  ASSUME NEW pub, NEW app, Sound(pub, app), app.ready, NEW j \in 1 .. Len(pub.asduList),
         NEW k \in 1 .. Len(app.asdus[j].elements), NEW v,
         NEW pub2, SetsElement(pub2, pub, j, app.asdus[j].elements[k], v),
         NEW app2, KnowsValue(app2, app, j, k, v)
  PROVE  Sound(pub2, app2)
  <1>1. /\ pub \in Publisher /\ app \in Application /\ Len(pub.buffer) = BufferSize
        /\ TimePlaced(pub.asduList[j]) /\ Len(app.asdus) = Len(pub.asduList)
        /\ ElementsFit(pub.asduList[j], app.asdus[j].elements)
    BY SoundParts
  <1>2. PICK els \in Seq(Element), z \in Nat : els = app.asdus[j].elements /\ z = Len(els)
    BY <1>1, ApplicationTyped
  <1>27. k \in 1 .. z /\ \A m \in 1 .. z : els[m] \in Element
    BY <1>1, <1>2, ElementOfSeq
  <1>28. PICK e \in Element : e = els[k]
    BY <1>27
  <1>3. /\ k \in 1 .. z /\ e = els[k] /\ e \in Element /\ \A m \in 1 .. z : els[m] \in Element
        /\ v \in ElementValues[e.kind] /\ SetsElement(pub2, pub, j, e, v)
    <2>1. v \in ElementValues[app.asdus[j].elements[k].kind]
      BY Zenon DEF KnowsValue
    <2> QED
      BY <1>2, <1>27, <1>28, <2>1, Zenon
  <1>4. PICK els2 : els2 = app2.asdus[j].elements
    OBVIOUS
  <1>5. /\ app2 \in Application /\ Len(app2.asdus) = Len(app.asdus)
        /\ app2.laid = app.laid /\ app2.ready = app.ready
        /\ \A i \in 1 .. Len(app.asdus) : i # j => app2.asdus[i].elements = app.asdus[i].elements
        /\ Len(els2) = z
        /\ \A m \in 1 .. z :
                /\ els2[m].kind = els[m].kind /\ els2[m].index = els[m].index
                /\ m # k => els2[m] = els[m]
        /\ els2[k].value = v
    <2>1. /\ Len(app2.asdus[j].elements) = Len(app.asdus[j].elements)
          /\ \A m \in 1 .. Len(app.asdus[j].elements) :
                /\ app2.asdus[j].elements[m].kind = app.asdus[j].elements[m].kind
                /\ app2.asdus[j].elements[m].index = app.asdus[j].elements[m].index
                /\ m # k => app2.asdus[j].elements[m] = app.asdus[j].elements[m]
          /\ app2.asdus[j].elements[k].value = v
      BY NewValue
    <2>2. /\ app2 \in Application /\ Len(app2.asdus) = Len(app.asdus)
          /\ app2.laid = app.laid /\ app2.ready = app.ready
          /\ \A i \in 1 .. Len(app.asdus) : i # j => app2.asdus[i].elements = app.asdus[i].elements
      <3>1. \A i \in 1 .. Len(app.asdus) :
                i # j => app2.asdus[i].elements = app.asdus[i].elements
        BY NewValue
      <3>2. app2 \in Application /\ Len(app2.asdus) = Len(app.asdus)
        BY NewValue
      <3>3. app2.laid = app.laid
        BY NewValue
      <3>4. app2.ready = app.ready
        BY NewValue, Zenon
      <3> QED
        BY <3>1, <3>2, <3>3, <3>4, Zenon
    <2> QED
      BY <1>2, <1>4, <2>1, <2>2, Zenon
  <1>6. e.kind \in DOMAIN ElementValues /\ e.index \in Nat
    BY <1>3 DEF Element
  <1>7. PICK x \in Nat, n \in Nat : x = e.index /\ n = ElementSize[e.kind] /\ n # 0
    BY <1>3, <1>6, ElementOctetsArePiece
  <1>8. PICK L \in Seq(Asdu) : L = app.laid
    BY <1>1, ApplicationTyped
  <1>9. PICK a \in Asdu : a = pub.asduList[j]
    BY <1>1, PublisherTyped
  <1>10. Placed(pub, L) /\ Held(pub, app) /\ j \in 1 .. Len(L) /\ L[j] \in Asdu
         /\ PlacedAsdu(a, L[j], AsduAt(L, j - 1))
    BY <1>8, <1>9, SoundParts
  <1>11. PICK t \in Nat, d \in Nat : t = DataAt(L[j]) /\ d = L[j].dataSize /\ d = a.dataSize
    <2>1. L[j].dataSize = a.dataSize
      BY <1>10, Zenon DEF PlacedAsdu
    <2> QED
      BY <1>10, <2>1, Places, AsduTyped
  <1>12. PICK pos : pos = a.dataBuffer + x
    OBVIOUS
  <1>25. PICK c \in Nat : c = t + x
    OBVIOUS
  <1>13. PICK at \in Nat : at = AsduAt(L, j - 1)
    BY <1>10, LaidAt
  <1>14. pos = at + c /\ a.dataBuffer = at + t
    <2>1. a.dataBuffer = at + t
      BY <1>10, <1>11, <1>13, Zenon DEF PlacedAsdu
    <2> QED
      BY <1>12, <1>25, <2>1
  <1>15. x + n =< d /\ \A m \in 1 .. z :
            /\ m < k => els[m].index + ElementSize[els[m].kind] =< x
            /\ k < m => x + n =< els[m].index
    <2>1. \A i \in 1 .. z :
            /\ els[i].index + ElementSize[els[i].kind] =< d
            /\ \A m \in 1 .. i - 1 : els[m].index + ElementSize[els[m].kind] =< els[i].index
      BY <1>1, <1>2, <1>9, <1>11, Zenon DEF ElementsFit
    <2>2. ASSUME NEW m \in 1 .. z, m < k PROVE els[m].index + ElementSize[els[m].kind] =< x
      <3>1. m \in 1 .. k - 1
        BY <1>3, <2>2
      <3> QED
        BY <1>3, <1>7, <2>1, <3>1, Zenon
    <2>3. ASSUME NEW m \in 1 .. z, k < m PROVE x + n =< els[m].index
      <3>1. k \in 1 .. m - 1
        BY <1>3, <2>3
      <3> QED
        BY <1>3, <1>7, <2>1, <3>1, Zenon
    <2>4. x + n =< d
      BY <1>3, <1>7, <2>1, Zenon
    <2> QED
      BY <2>2, <2>3, <2>4
  <1>16. \A i \in 1 .. n : c + i \in Field(L[j], "data")
    <2> TAKE i \in 1 .. n
    <2>1. x + i \in 1 .. d /\ c + i = t + (x + i)
      BY <1>25, <1>15
    <2> QED
      BY <1>10, <1>11, <2>1, FieldsApart
  <1>17. "data" \in Fields /\ "data" # "smpCnt" /\ "data" # "smpSynch"
    BY DEF Fields
  <1>18. /\ pos \in Nat /\ InField(pos + 1 .. pos + n, L, j, "data")
         /\ \A i \in 1 .. n : pos + i \in 1 .. Len(pub.buffer)
    BY <1>1, <1>7, <1>10, <1>13, <1>14, <1>16, <1>17, PutInField
  <1>19. PICK W : W = pos + 1 .. pos + n
    OBVIOUS
  <1>20. /\ Wrote(pub, pub2, j, W) /\ pub2.asduList[j] = a
         /\ \A i \in 1 .. n : pub2.buffer[pos + i] = ElementOctets(e.kind, v)[i]
    <2>2. pos = pub.asduList[j].dataBuffer + e.index
      BY <1>7, <1>9, <1>12, Zenon
    <2>1. SetsValue(pub2, pub, j, e.index, e.kind, v, pos, n)
      BY <1>1, <1>3, <1>6, <1>7, <2>2, Zenon DEF SetsValue, SetsElement
    <2>3. /\ Wrote(pub, pub2, j, pos + 1 .. pos + n) /\ pub2.asduList[j] = pub.asduList[j]
          /\ \A i \in 1 .. n : pos + i \in 1 .. Len(pub.buffer)
                => pub2.buffer[pos + i] = ElementOctets(e.kind, v)[i]
      BY <2>1, SetValue
    <2> QED
      BY <1>9, <1>18, <1>19, <2>3, Zenon
  <1>21. WroteField(pub, pub2, L, j, "data", W)
    BY <1>1, <1>10, <1>17, <1>18, <1>19, <1>20, Zenon DEF WroteField
  <1>22. CounterHeld(pub2.buffer, pub2.asduList[j])
    <2>1. CounterHeld(pub.buffer, pub.asduList[j])
      BY <1>10, Zenon DEF Held
    <2>2. /\ pub2.buffer[a.smpCntBuf + 1] = a.smpCnt \div 256
          /\ pub2.buffer[a.smpCntBuf + 2] = a.smpCnt % 256
          /\ pub2.buffer[a.smpSynchBuf + 1] = a.smpSynch
      <3>1. PICK a1, b : a1 = pub.asduList[j] /\ b = pub2.asduList[j]
        OBVIOUS
      <3>2. PICK f : f = "data"
        OBVIOUS
      <3>3. WroteField(pub, pub2, L, j, f, W)
        BY <1>21, <3>2, Zenon
      <3>4. /\ f # "smpCnt" /\ b.smpCnt = a1.smpCnt
                   => /\ pub2.buffer[b.smpCntBuf + 1] = b.smpCnt \div 256
                      /\ pub2.buffer[b.smpCntBuf + 2] = b.smpCnt % 256
            /\ f # "smpSynch" /\ b.smpSynch = a1.smpSynch
                   => pub2.buffer[b.smpSynchBuf + 1] = b.smpSynch
        BY <1>10, <2>1, <3>1, <3>3, CounterKept
      <3> QED
        BY <1>9, <1>17, <1>20, <3>1, <3>2, <3>4, Zenon
    <2> QED
      BY <1>20, <2>2, Zenon DEF CounterHeld
  <1>23. ASSUME NEW m \in 1 .. z PROVE ElementHeld(pub2.buffer, a, els2[m])
    <2>1. CASE m = k
      <3>1. els2[m].value = v /\ els2[m].kind = e.kind /\ els2[m].index = x
        BY <1>3, <1>5, <1>7, <2>1, Zenon
      <3>2. \A i \in 1 .. n : pub2.buffer[a.dataBuffer + x + i] = ElementOctets(e.kind, v)[i]
        BY <1>12, <1>20, Zenon
      <3>3. PICK g : g = els2[m]
        OBVIOUS
      <3>4. \A i \in 1 .. ElementSize[g.kind] :
                pub2.buffer[a.dataBuffer + g.index + i] = ElementOctets(g.kind, g.value)[i]
        <4>1. g.value = v /\ g.kind = e.kind /\ g.index = x
          BY <3>1, <3>3, Zenon
        <4>2. ElementSize[g.kind] = n /\ ElementOctets(g.kind, g.value) = ElementOctets(e.kind, v)
          BY <1>7, <4>1, Zenon
        <4> QED
          BY <3>2, <4>1, <4>2, Zenon
      <3> QED
        BY <3>3, <3>4, Zenon DEF ElementHeld
    <2>2. CASE m # k
      <3>1. PICK g \in Element : g = els2[m] /\ g = els[m]
        BY <1>3, <1>5, <2>2
      <3>2. ElementHeld(pub.buffer, a, g)
        BY <1>2, <1>9, <1>10, <3>1, Zenon DEF Held
      <3>3. SUFFICES ASSUME g.value # Unknown, NEW i \in 1 .. ElementSize[g.kind]
                     PROVE  pub2.buffer[a.dataBuffer + g.index + i]
                               = ElementOctets(g.kind, g.value)[i]
        BY <3>1, Zenon DEF ElementHeld
      <3>4. /\ g.kind \in DOMAIN ElementValues /\ g.index \in Nat
            /\ g.value \in ElementValues[g.kind]
        BY <3>3 DEF Element
      <3>5. PICK y \in Nat, w \in Nat : y = g.index /\ w = ElementSize[g.kind] /\ w # 0
        BY <3>4, ElementOctetsArePiece
      <3>6. y + w =< x \/ x + n =< y
        <4>1. k \in Nat /\ m \in Nat
          BY <1>3
        <4>2. m < k \/ k < m
          BY <2>2, <4>1
        <4> QED
          BY <1>15, <3>1, <3>5, <4>2, Zenon
      <3>7. y + w =< d
        <4>1. els[m].index + ElementSize[els[m].kind] =< a.dataSize
          BY <1>1, <1>2, <1>9, Zenon DEF ElementsFit
        <4> QED
          BY <1>11, <3>1, <3>5, <4>1, Zenon
      <3>8. PICK q : q = at + (t + y) + i
        OBVIOUS
      <3>9. q \in 1 .. Len(pub.buffer)
        <4>1. PICK b \in Nat : b = t + y
          OBVIOUS
        <4>2. \A o \in 1 .. w : b + o \in Field(L[j], "data")
          <5> TAKE o \in 1 .. w
          <5>1. y + o \in 1 .. d /\ b + o = t + (y + o)
            BY <3>7, <4>1
          <5> QED
            BY <1>10, <1>11, <5>1, FieldsApart
        <4>3. PICK from : from = at + b
          OBVIOUS
        <4>4. \A o \in 1 .. w : from + o \in 1 .. Len(pub.buffer)
          BY <1>1, <1>10, <1>13, <1>17, <3>5, <4>2, <4>3, PutInField
        <4> QED
          BY <3>3, <3>5, <3>8, <4>1, <4>3, <4>4, Zenon
      <3>10. q \notin W
        <4>1. i \in 1 .. w
          BY <3>3, <3>5
        <4>2. q \in Nat /\ (q =< at + (t + x) \/ at + (t + x) + n < q)
          BY <3>6, <3>8, <4>1
        <4>3. W = at + (t + x) + 1 .. at + (t + x) + n
          BY <1>14, <1>19, <1>25
        <4> QED
          BY <4>2, <4>3
      <3>11. pub2.buffer[q] = pub.buffer[q]
        BY <1>20, <3>9, <3>10, Zenon DEF Wrote
      <3>12. q = a.dataBuffer + g.index + i
        <4>1. q = at + t + y + i
          BY <3>8
        <4> QED
          BY <1>14, <3>5, <4>1, Zenon
      <3> QED
        BY <3>2, <3>3, <3>11, <3>12, Zenon DEF ElementHeld
    <2> QED
      BY <2>1, <2>2
  <1>24. ElementsFit(a, els2)
    <2>1. ElementsFit(a, els)
      BY <1>1, <1>2, <1>9, Zenon
    <2>2. ASSUME NEW m \in 1 .. z
          PROVE  /\ els2[m].index + ElementSize[els2[m].kind] =< a.dataSize
                 /\ \A i \in 1 .. m - 1 :
                        els2[i].index + ElementSize[els2[i].kind] =< els2[m].index
      <3>1. /\ els[m].index + ElementSize[els[m].kind] =< a.dataSize
            /\ \A i \in 1 .. m - 1 : els[i].index + ElementSize[els[i].kind] =< els[m].index
        BY <1>2, <2>1, Zenon DEF ElementsFit
      <3>2. \A i \in 1 .. m - 1 : i \in 1 .. z
        OBVIOUS
      <3> QED
        BY <1>5, <3>1, <3>2, Zenon
    <2> QED
      BY <1>5, <2>2, Zenon DEF ElementsFit
  <1>26. FieldCall(pub, app, pub2, app2, j, "data", W)
    <2>1. TimePlaced(pub2.asduList[j])
      BY <1>1, <1>9, <1>20, Zenon
    <2>2. \A m \in 1 .. Len(app2.asdus[j].elements) :
                ElementHeld(pub2.buffer, pub2.asduList[j], app2.asdus[j].elements[m])
      BY <1>4, <1>5, <1>20, <1>23, Zenon
    <2>3. ElementsFit(pub.asduList[j], app2.asdus[j].elements)
      BY <1>4, <1>9, <1>24, Zenon
    <2>4. InField(W, app.laid, j, "data")
      BY <1>8, <1>18, <1>19, Zenon
    <2>5. j \in 1 .. Len(pub.asduList)
      OBVIOUS
    <2>6. Sound(pub, app)
      OBVIOUS
    <2> QED
      BY <1>1, <1>5, <1>17, <1>20, <1>22, <2>1, <2>2, <2>3, <2>4, <2>5, <2>6, Zenon DEF FieldCall
  <1> QED
    BY <1>26, FieldCallSound

-----------------------------------------------------------------------------
\* The layout changes, and the payload is not complete any more.
Adds(pub2, app2, pub, app, n) ==
    /\ pub2 = SVPublisher_addASDU(pub, n.svID, n.datset, ConfRev)
    /\ app2 = [app EXCEPT !.ready = FALSE,
                          !.asdus = Append(@, [elements |-> <<>>, refrTm |-> Unknown])]

IsAppended(t, s, x, S) == s \in Seq(S) /\ x \in S /\ t = Append(s, x)

\* An item is appended to a list.
LEMMA Appended ==
  ASSUME NEW S, NEW s, NEW x, NEW t, IsAppended(t, s, x, S)
  PROVE  /\ Len(s) \in Nat /\ t \in Seq(S) /\ Len(t) = Len(s) + 1 /\ t[Len(s) + 1] = x
         /\ \A i \in 1 .. Len(s) : t[i] = s[i]
  BY AppendProperties, LenProperties DEF IsAppended

\* SVPublisher_addASDU preserves the invariant.
LEMMA AddAsduSound ==
  ASSUME NEW pub, NEW app, Sound(pub, app), NEW n \in Names, NEW pub2, NEW app2,
         Adds(pub2, app2, pub, app, n)
  PROVE  Sound(pub2, app2)
  <1>1. /\ pub \in Publisher /\ app \in Application /\ Len(pub.buffer) = BufferSize
        /\ Len(app.asdus) = Len(pub.asduList)
        /\ \A j \in 1 .. Len(pub.asduList) :
              ElementsFit(pub.asduList[j], app.asdus[j].elements) /\ TimePlaced(pub.asduList[j])
    BY SoundParts
  <1>2. n.svID \in Seq(Octet) /\ n.datset \in Seq(Octet)
    BY SvLayoutAssumption
  <1>3. PICK new :
           /\ new \in Asdu /\ ~new.hasRefrTm /\ new.refrTm = NoPos
           /\ pub2 = [pub EXCEPT !.asduList = Append(@, new)]
    <2>1. PICK limit \in Nat \ {0} : limit = 65535
      BY SMT
    <2>2. PICK new :
             new = [svID |-> n.svID, datset |-> n.datset, dataSize |-> 0, confRev |-> ConfRev,
                    hasRefrTm |-> FALSE, hasSmpRate |-> FALSE, hasSmpMod |-> FALSE,
                    smpSynch |-> 0, smpCnt |-> 0, smpCntLimit |-> limit, smpMod |-> 0,
                    smpRate |-> 0, smpCntBuf |-> NoPos, refrTm |-> NoPos,
                    smpSynchBuf |-> NoPos, dataBuffer |-> NoPos]
      OBVIOUS
    <2>3. pub2 = [pub EXCEPT !.asduList = Append(@, new)]
      BY <2>1, <2>2, SMT DEF Adds, SVPublisher_addASDU
    <2>4. new \in Asdu /\ ~new.hasRefrTm /\ new.refrTm = NoPos
      BY <1>2, <2>1, <2>2, SMT DEF Asdu, Pos
    <2> QED
      BY <2>3, <2>4, Zenon
  <1>4. PICK list \in Seq(Asdu), z \in Nat : list = pub.asduList /\ z = Len(list)
    BY <1>1, PublisherTyped
  <1>5. PICK list2 : IsAppended(list2, list, new, Asdu)
    BY <1>3 DEF IsAppended
  <1>6. /\ list2 \in Seq(Asdu) /\ Len(list2) = z + 1 /\ list2[z + 1] = new
        /\ \A i \in 1 .. z : list2[i] = list[i]
    BY <1>3, <1>4, <1>5, Appended
  <1>7. pub2 = [pub EXCEPT !.asduList = list2]
    BY <1>3, <1>4, <1>5, Zenon DEF IsAppended
  <1>8. /\ pub2 \in Publisher /\ pub2.asduList = list2 /\ pub2.buffer = pub.buffer
    BY <1>1, <1>6, <1>7 DEF Publisher
  <1>9. PICK known : known = [elements |-> <<>>, refrTm |-> Unknown]
    OBVIOUS
  <1>10. known \in Known /\ known.elements = <<>>
    BY <1>9 DEF Known
  <1>11. PICK asdus \in Seq(Known) : asdus = app.asdus /\ z = Len(asdus)
    BY <1>1, <1>4, ApplicationTyped
  <1>12. PICK asdus2 : IsAppended(asdus2, asdus, known, Known)
    BY <1>10 DEF IsAppended
  <1>13. /\ asdus2 \in Seq(Known) /\ Len(asdus2) = z + 1 /\ asdus2[z + 1] = known
         /\ \A i \in 1 .. z : asdus2[i] = asdus[i]
    BY <1>10, <1>11, <1>12, Appended
  <1>14. app2 = [app EXCEPT !.ready = FALSE, !.asdus = asdus2]
    BY <1>9, <1>11, <1>12 DEF Adds, IsAppended, Application
  <1>15. app2 \in Application /\ app2.asdus = asdus2 /\ app2.ready = FALSE
    BY <1>1, <1>13, <1>14 DEF Application
  <1>16. ASSUME NEW j \in 1 .. z + 1
         PROVE  ElementsFit(list2[j], asdus2[j].elements) /\ TimePlaced(list2[j])
    <2>1. CASE j \in 1 .. z
      BY <1>1, <1>4, <1>6, <1>11, <1>13, <2>1, Zenon
    <2>2. CASE j = z + 1
      <3>1. ElementsFit(new, <<>>) /\ TimePlaced(new)
        BY <1>3 DEF ElementsFit, TimePlaced
      <3> QED
        BY <1>6, <1>10, <1>13, <2>2, <3>1, Zenon
    <2> QED
      BY <2>1, <2>2
  <1> QED
    BY <1>1, <1>6, <1>8, <1>13, <1>15, <1>16, Zenon DEF Sound

-----------------------------------------------------------------------------
Resets(pub2, app2, pub, app, j) ==
    /\ pub2 = SVPublisher_ASDU_resetBuffer(pub, j)
    /\ app2 = [app EXCEPT !.ready = FALSE, !.asdus[j].elements = <<>>]

AddsElement(pub2, app2, pub, app, j, kind) ==
    /\ pub2 = SVPublisher_ASDU_add(pub, j, kind)
    /\ app2 = [app EXCEPT !.ready = FALSE,
                    !.asdus[j].elements = Append(@, [kind |-> kind, value |-> Unknown,
                                                     index |-> pub.asduList[j].dataSize])]

\* ASDU j has another data size and other elements.
Resizes(pub2, app2, pub, app, j, size, els) ==
    /\ pub2 = [pub EXCEPT !.asduList[j].dataSize = size]
    /\ app2 = [app EXCEPT !.ready = FALSE, !.asdus[j].elements = els]

\* A call that changes the size of the data of an ASDU preserves the invariant
\* when the elements fit.
LEMMA ResizesSound ==
  ASSUME NEW pub, NEW app, Sound(pub, app), NEW j \in 1 .. Len(pub.asduList),
         NEW size \in Nat, NEW els \in Seq(Element), NEW pub2, NEW app2,
         Resizes(pub2, app2, pub, app, j, size, els),
         \A b : b.dataSize = size => ElementsFit(b, els)
  PROVE  Sound(pub2, app2)
  <1>1. /\ pub \in Publisher /\ app \in Application /\ Len(pub.buffer) = BufferSize
        /\ Len(app.asdus) = Len(pub.asduList)
        /\ \A i \in 1 .. Len(pub.asduList) :
              ElementsFit(pub.asduList[i], app.asdus[i].elements) /\ TimePlaced(pub.asduList[i])
    BY SoundParts
  <1>2. PICK list \in Seq(Asdu), z \in Nat : list = pub.asduList /\ z = Len(list)
    BY <1>1, PublisherTyped
  <1>3. PICK a \in Asdu : a = list[j]
    BY <1>1, <1>2, PublisherTyped
  <1>4. PICK b : b = [a EXCEPT !.dataSize = size]
    OBVIOUS
  <1>5. b \in Asdu /\ b.dataSize = size /\ b.hasRefrTm = a.hasRefrTm /\ b.refrTm = a.refrTm
    BY <1>4 DEF Asdu
  <1>6. PICK list2 : list2 = [list EXCEPT ![j] = b]
    OBVIOUS
  <1>7. /\ list2 \in Seq(Asdu) /\ Len(list2) = z /\ list2[j] = b
        /\ \A i \in 1 .. z : i # j => list2[i] = list[i]
    BY <1>2, <1>5, <1>6, ExceptSeq
  <1>8. pub2 = [pub EXCEPT !.asduList = list2]
    BY <1>2, <1>3, <1>4, <1>6, Zenon DEF Resizes
  <1>9. pub2 \in Publisher /\ pub2.asduList = list2 /\ pub2.buffer = pub.buffer
    BY <1>1, <1>7, <1>8 DEF Publisher
  <1>10. PICK asdus \in Seq(Known) : asdus = app.asdus /\ z = Len(asdus)
    BY <1>1, <1>2, ApplicationTyped
  <1>11. j \in 1 .. z
    BY <1>2
  <1>12. PICK old \in Known : old = asdus[j]
    BY <1>10, <1>11, ElementOfSeq
  <1>13. PICK known : known = [old EXCEPT !.elements = els]
    OBVIOUS
  <1>14. known \in Known /\ known.elements = els
    BY <1>13 DEF Known
  <1>15. PICK asdus2 : asdus2 = [asdus EXCEPT ![j] = known]
    OBVIOUS
  <1>16. /\ asdus2 \in Seq(Known) /\ Len(asdus2) = z /\ asdus2[j] = known
         /\ \A i \in 1 .. z : i # j => asdus2[i] = asdus[i]
    BY <1>10, <1>11, <1>14, <1>15, ExceptSeq
  <1>17. PICK app1 : app1 = [app EXCEPT !.ready = FALSE]
    OBVIOUS
  <1>18. app1.asdus = asdus /\ app1.ready = FALSE /\ app1 \in Application
    BY <1>1, <1>10, <1>17 DEF Application
  <1>19. app2 = [app1 EXCEPT !.asdus = asdus2]
    BY <1>12, <1>13, <1>15, <1>17, <1>18, Zenon DEF Resizes
  <1>20. app2 \in Application /\ app2.asdus = asdus2 /\ app2.ready = FALSE
    BY <1>16, <1>18, <1>19 DEF Application
  <1>21. ASSUME NEW i \in 1 .. z
         PROVE  ElementsFit(list2[i], asdus2[i].elements) /\ TimePlaced(list2[i])
    <2>1. CASE i # j
      BY <1>1, <1>2, <1>7, <1>10, <1>16, <2>1, Zenon
    <2>2. CASE i = j
      <3>1. ElementsFit(b, els)
        BY <1>5
      <3>2. TimePlaced(b)
        <4>1. TimePlaced(a)
          BY <1>1, <1>2, <1>3
        <4> QED
          BY <1>5, <4>1, Zenon DEF TimePlaced
      <3> QED
        BY <1>7, <1>14, <1>16, <2>2, <3>1, <3>2, Zenon
    <2> QED
      BY <2>1, <2>2
  <1> QED
    BY <1>1, <1>7, <1>9, <1>16, <1>20, <1>21, Zenon DEF Sound

\* SVPublisher_ASDU_resetBuffer preserves the invariant.
LEMMA ResetSound ==
  ASSUME NEW pub, NEW app, Sound(pub, app), NEW j \in 1 .. Len(pub.asduList),
         NEW pub2, NEW app2, Resets(pub2, app2, pub, app, j)
  PROVE  Sound(pub2, app2)
  <1>1. PICK els \in Seq(Element) : els = <<>>
    BY EmptySeq, Zenon
  <1>2. PICK size \in Nat : size = 0
    <2>1. 0 \in Nat
      OBVIOUS
    <2> QED
      BY <2>1, Zenon
  <1>3. Resizes(pub2, app2, pub, app, j, size, els)
    BY <1>1, <1>2, Zenon DEF Resets, Resizes, SVPublisher_ASDU_resetBuffer
  <1>4. \A b : b.dataSize = size => ElementsFit(b, els)
    BY <1>1 DEF ElementsFit
  <1> QED
    BY <1>3, <1>4, ResizesSound

\* SVPublisher_ASDU_add* preserve the invariant: the new element lies behind the
\* others.
LEMMA AddElementSound ==
  ASSUME NEW pub, NEW app, Sound(pub, app), NEW j \in 1 .. Len(pub.asduList),
         NEW kind \in DOMAIN ElementValues,
         NEW pub2, NEW app2, AddsElement(pub2, app2, pub, app, j, kind)
  PROVE  Sound(pub2, app2)
  <1>1. /\ pub \in Publisher /\ app \in Application /\ Len(app.asdus) = Len(pub.asduList)
        /\ ElementsFit(pub.asduList[j], app.asdus[j].elements)
    BY SoundParts
  <1>2. PICK a \in Asdu : a = pub.asduList[j]
    BY <1>1, PublisherTyped
  <1>3. PICK d \in Nat : d = a.dataSize
    BY DEF Asdu
  <1>4. PICK size \in Nat, n \in Nat : n = ElementSize[kind] /\ size = d + n
    <2>1. PICK n \in Nat : n = ElementSize[kind]
      BY SvLayoutAssumption DEF ElementSize
    <2> QED
      BY <2>1
  <1>5. PICK els \in Seq(Element), z \in Nat : els = app.asdus[j].elements /\ z = Len(els)
    BY <1>1, ApplicationTyped
  <1>6. PICK e : e = [kind |-> kind, value |-> Unknown, index |-> d]
    OBVIOUS
  <1>7. e \in Element /\ e.kind = kind /\ e.index = d
    BY <1>6 DEF Element, Values
  <1>8. PICK els2 : IsAppended(els2, els, e, Element)
    BY <1>7 DEF IsAppended
  <1>9. /\ els2 \in Seq(Element) /\ Len(els2) = z + 1 /\ els2[z + 1] = e
        /\ \A i \in 1 .. z : els2[i] = els[i]
    BY <1>5, <1>8, Appended
  <1>10. Resizes(pub2, app2, pub, app, j, size, els2)
    <2>1. els2 = Append(els, e)
      BY <1>8, Zenon DEF IsAppended
    <2>2. pub2 = [pub EXCEPT !.asduList[j].dataSize = size]
      BY <1>2, <1>3, <1>4, Zenon DEF AddsElement, SVPublisher_ASDU_add
    <2>3. app2 = [app EXCEPT !.ready = FALSE, !.asdus[j].elements = els2]
      <3>1. PICK app1 : app1 = [app EXCEPT !.ready = FALSE]
        OBVIOUS
      <3>2. app1.asdus = app.asdus
        BY <1>1, <3>1 DEF Application
      <3>3. /\ app2 = [app1 EXCEPT !.asdus[j].elements = Append(@, e)]
            /\ app1.asdus[j].elements = els
        BY <1>2, <1>3, <1>5, <1>6, <3>1, <3>2, Zenon DEF AddsElement
      <3>4. app2 = [app1 EXCEPT !.asdus[j].elements = els2]
        BY <2>1, <3>3, Zenon
      <3> QED
        BY <3>1, <3>4, Zenon
    <2> QED
      BY <2>2, <2>3, Zenon DEF Resizes
  <1>11. ASSUME NEW b, b.dataSize = size PROVE ElementsFit(b, els2)
    <2>1. /\ \A k \in 1 .. z : /\ els[k].index + ElementSize[els[k].kind] =< d
                               /\ \A m \in 1 .. k - 1 :
                                    els[m].index + ElementSize[els[m].kind] =< els[k].index
      BY <1>1, <1>2, <1>3, <1>5, Zenon DEF ElementsFit
    <2>2. \A k \in 1 .. z : els[k].index \in Nat /\ ElementSize[els[k].kind] \in Nat
      <3> TAKE k \in 1 .. z
      <3>1. PICK g \in Element : g = els[k]
        BY <1>5, ElementOfSeq
      <3>2. g.index \in Nat /\ g.kind \in DOMAIN ElementValues
        BY DEF Element
      <3>3. ElementSize[g.kind] \in Nat
        BY <3>2, SvLayoutAssumption DEF ElementSize
      <3> QED
        BY <3>1, <3>2, <3>3, Zenon
    <2>3. ASSUME NEW k \in 1 .. z + 1
          PROVE  /\ els2[k].index + ElementSize[els2[k].kind] =< size
                 /\ \A m \in 1 .. k - 1 :
                        els2[m].index + ElementSize[els2[m].kind] =< els2[k].index
      <3>1. CASE k \in 1 .. z
        <4>1. /\ els[k].index + ElementSize[els[k].kind] =< d
              /\ \A m \in 1 .. k - 1 :
                        els[m].index + ElementSize[els[m].kind] =< els[k].index
          BY <2>1, <3>1, Zenon
        <4>2. els[k].index + ElementSize[els[k].kind] =< size
          <5>1. PICK x \in Nat, y \in Nat :
                    x = els[k].index /\ y = ElementSize[els[k].kind]
            BY <2>2, <3>1
          <5>2. x + y =< d
            BY <4>1, <5>1, Zenon
          <5>3. x + y =< size
            BY <1>4, <5>2
          <5> QED
            BY <5>1, <5>3, Zenon
        <4>3. \A m \in 1 .. k - 1 : m \in 1 .. z
          BY <3>1
        <4> QED
          BY <1>9, <3>1, <4>1, <4>2, <4>3, Zenon
      <3>2. CASE k = z + 1
        <4>1. d + n =< size /\ k - 1 = z
          BY <1>4, <3>2
        <4> QED
          BY <1>4, <1>7, <1>9, <2>1, <3>2, <4>1, Zenon
      <3> QED
        BY <3>1, <3>2
    <2> QED
      BY <1>9, <1>11, <2>3, Zenon DEF ElementsFit
  <1> QED
    BY <1>9, <1>10, <1>11, ResizesSound

-----------------------------------------------------------------------------
\* SVPublisher_setupComplete points to the fields it encodes.
Points(b, a, at) == b = WithPointers(a, at)

\* The pointers SVPublisher_setupComplete sets name the fields of the ASDU.
LEMMA Pointed ==
  ASSUME NEW a \in Asdu, Fits(a), TimePlaced(a), NEW at \in Nat, NEW b, Points(b, a, at)
  PROVE  /\ b \in Asdu /\ PlacedAsdu(b, a, at) /\ b.dataSize = a.dataSize
         /\ b.hasRefrTm = a.hasRefrTm /\ b.smpCnt = a.smpCnt /\ b.smpSynch = a.smpSynch
  <1>1. SameLayout(a, a)
    BY DEF SameLayout
  <1>2. PICK c \in Nat, r \in Nat, s \in Nat, d \in Nat :
           c = SmpCntAt(a) /\ r = RefrTmAt(a) /\ s = SmpSynchAt(a) /\ d = DataAt(a)
    BY Places
  <1>3. /\ Len(UpToSmpCnt(a)) = c /\ Len(UpToRefrTm(a)) = r
        /\ Len(UpToSmpSynch(a)) = s /\ Len(UpToData(a)) = d
    <2>1. Piece(UpToSmpCnt(a), SmpCntAt(a))
      BY UpToSmpCntIsPiece
    <2>2. Piece(UpToRefrTm(a), RefrTmAt(a))
      BY <1>1, UpToRefrTmIsPiece
    <2>3. Piece(UpToSmpSynch(a), SmpSynchAt(a))
      BY <1>1, UpToSmpSynchIsPiece
    <2>4. Piece(UpToData(a), DataAt(a))
      BY <1>1, UpToDataIsPiece
    <2> QED
      BY <1>2, <2>1, <2>2, <2>3, <2>4, Zenon DEF Piece
  <1>4. PICK pc \in Pos, pr \in Pos, ps \in Pos, pd \in Pos :
           /\ pc = at + c /\ ps = at + s /\ pd = at + d
           /\ pr = IF a.hasRefrTm THEN at + r ELSE a.refrTm
    <2>1. at + c \in Pos /\ at + s \in Pos /\ at + d \in Pos /\ at + r \in Pos
      BY DEF Pos
    <2>2. (IF a.hasRefrTm THEN at + r ELSE a.refrTm) \in Pos
      BY <2>1 DEF Asdu
    <2> QED
      BY <2>1, <2>2, Zenon
  <1>5. b = [a EXCEPT !.smpCntBuf = pc, !.refrTm = pr, !.smpSynchBuf = ps, !.dataBuffer = pd]
    BY <1>3, <1>4, Zenon DEF Points, WithPointers
  <1>6. /\ b \in Asdu /\ b.dataSize = a.dataSize
        /\ b.hasRefrTm = a.hasRefrTm /\ b.smpCnt = a.smpCnt /\ b.smpSynch = a.smpSynch
        /\ b.smpCntBuf = pc /\ b.refrTm = pr /\ b.smpSynchBuf = ps /\ b.dataBuffer = pd
    BY <1>5 DEF Asdu
  <1>7. pr = IF a.hasRefrTm THEN at + RefrTmAt(a) ELSE NoPos
    BY <1>2, <1>4, Zenon DEF TimePlaced
  <1>8. PlacedAsdu(b, a, at)
    BY <1>2, <1>4, <1>6, <1>7, Zenon DEF PlacedAsdu
  <1> QED
    BY <1>6, <1>8, Zenon

\* ... and writes what it has encoded over what the buffer holds.
Overlays(u, old, new) == u = Overlay(old, new)

\* The buffer holds the new encoding, but for its holes.
LEMMA Overlaid ==
  ASSUME NEW n \in Nat, NEW m \in Nat, m =< n, NEW old, NEW new, Piece(old, n), Piece(new, m),
         NEW u, Overlays(u, old, new)
  PROVE  /\ Piece(u, n)
         /\ \A i \in 1 .. m : new[i] # Hole => u[i] = new[i]
  <1>1. Max({n, m}) = n
    <2>1. \A x \in {n, m} : (\A y \in {n, m} : x >= y) <=> x = n
      OBVIOUS
    <2>2. n \in {n, m}
      OBVIOUS
    <2> QED
      BY <2>1, <2>2 DEF Max
  <1>2. Len(old) = n /\ Len(new) = m
    BY DEF Piece
  <1>3. u = [i \in 1 .. n |-> IF i =< m /\ new[i] # Hole THEN new[i] ELSE old[i]]
    BY <1>1, <1>2, Zenon DEF Overlays, Overlay
  <1>4. (\A i \in 1 .. n : old[i] \in Int) /\ \A i \in 1 .. m : new[i] \in Int
    BY <1>2, ElementOfSeq DEF Piece
  <1>5. \A i \in 1 .. n : (IF i =< m /\ new[i] # Hole THEN new[i] ELSE old[i]) \in Int
    <2> TAKE i \in 1 .. n
    <2>1. CASE i =< m
      <3>1. i \in 1 .. m
        BY <2>1
      <3> QED
        BY <1>4, <3>1, Zenon
    <2>2. CASE ~(i =< m)
      BY <1>4, <2>2, Zenon
    <2> QED
      BY <2>1, <2>2
  <1>6. u \in [1 .. n -> Int]
    BY <1>3, <1>5, Zenon
  <1>7. Piece(u, n)
    BY <1>6 DEF Piece
  <1>8. ASSUME NEW i \in 1 .. m, new[i] # Hole PROVE u[i] = new[i]
    <2>1. i \in 1 .. n /\ i =< m
      OBVIOUS
    <2> QED
      BY <1>3, <1>8, <2>1, Zenon
  <1> QED
    BY <1>7, <1>8

\* The size of what the payload contains is a number.
LEMMA InnerIsNumber ==
  ASSUME NEW L \in Seq(Asdu)
  PROVE  InnerSize(L) \in Nat
  <1>1. PICK n \in Nat : n = Len(L)
    BY AsdusTyped
  <1>2. PICK total \in Nat : total = TotalAsduLength(L)
    <2>1. n \in 0 .. n
      OBVIOUS
    <2> QED
      BY <1>1, <2>1, LengthEquations
  <1>3. PICK u \in 1 .. 5 : u = BerEncoder_UInt32determineEncodedSize(Seconds(n))
    <2>1. 128 \in Nat
      OBVIOUS
    <2> QED
      BY <1>1, <2>1, NumberIsPiece
  <1>4. PICK l \in 1 .. 4 : l = BerEncoder_determineLengthSize(total)
    BY LengthSize
  <1>5. InnerSize(L) = 2 + u + 1 + l + total
    BY <1>1, <1>2, <1>3, <1>4 DEF InnerSize
  <1> QED
    BY <1>5

\* The payload fits into the buffer.
InBuffer(L) ==
    1 + BerEncoder_determineLengthSize(InnerSize(L)) + InnerSize(L) =< BufferSize

\* A payload that fits into the buffer is short enough for its lengths to be
\* computed right.
LEMMA InBufferFits ==
  ASSUME NEW L \in Seq(Asdu), InBuffer(L)
  PROVE  PayloadFits(L) /\ AsduAt(L, Len(L)) =< BufferSize
  <1>1. PICK n \in Nat : n = InnerSize(L)
    BY InnerIsNumber
  <1>2. PICK l \in 1 .. 4 : l = BerEncoder_determineLengthSize(n)
    BY LengthSize
  <1>3. 1 + l + n =< BufferSize
    BY <1>1, <1>2, Zenon DEF InBuffer
  <1>4. PayloadFits(L)
    BY <1>1, <1>2, <1>3, SvLayoutAssumption, SMT DEF PayloadFits
  <1>5. AsduAt(L, Len(L)) = 1 + l + n
    BY <1>1, <1>2, <1>4, AsduPlaces, Zenon
  <1> QED
    BY <1>3, <1>4, <1>5, Zenon

\* An octet of an ASDU is in the payload at its place.
LEMMA CarriedOctet ==
  ASSUME NEW L \in Seq(Asdu), PayloadFits(L), NEW j \in 1 .. Len(L),
         NEW x \in 1 .. AsduLength(L[j])
  PROVE  /\ AsduAt(L, j - 1) + x \in 1 .. AsduAt(L, Len(L))
         /\ Payload(L)[AsduAt(L, j - 1) + x] = SVPublisher_ASDU_encodeToBuffer(L[j])[x]
  <1>1. SameLayouts(L, L)
    BY DEF SameLayouts, SameLayout
  <1>2. Carries(Payload(L), L, Len(L))
    BY <1>1, PayloadOctets
  <1>3. Payload(L)[AsduAt(L, j - 1) + x] = SVPublisher_ASDU_encodeToBuffer(L[j])[x]
    BY <1>2, Zenon DEF Carries
  <1> QED
    BY <1>3, Slots

\* What SVPublisher_setupComplete leaves.
SetsUp(pub2, pub) ==
    /\ pub \in Publisher /\ Len(pub.buffer) = BufferSize
    /\ \A j \in 1 .. Len(pub.asduList) : TimePlaced(pub.asduList[j])
    /\ InBuffer(pub.asduList) /\ pub2 = SVPublisher_setupComplete(pub)

\* What SVPublisher_setupComplete leaves in the publisher.
LEMMA SetUpTyped ==
  ASSUME NEW pub, NEW pub2, SetsUp(pub2, pub)
  PROVE  /\ pub2 \in Publisher /\ Len(pub2.buffer) = BufferSize
         /\ pub.asduList \in Seq(Asdu) /\ PayloadFits(pub.asduList)
         /\ pub2.payloadLength = AsduAt(pub.asduList, Len(pub.asduList))
         /\ pub2.payloadLength =< BufferSize
         /\ Len(pub2.asduList) = Len(pub.asduList)
         /\ \A j \in 1 .. Len(pub.asduList) :
                Points(pub2.asduList[j], pub.asduList[j], AsduAt(pub.asduList, j - 1))
         /\ \A p \in 1 .. pub2.payloadLength :
                Payload(pub.asduList)[p] # Hole
                    => pub2.buffer[p] = Payload(pub.asduList)[p]
  <1>0. /\ pub \in Publisher /\ Len(pub.buffer) = BufferSize
        /\ \A j \in 1 .. Len(pub.asduList) : TimePlaced(pub.asduList[j])
        /\ InBuffer(pub.asduList) /\ pub2 = SVPublisher_setupComplete(pub)
    BY Zenon DEF SetsUp
  <1>1. PICK L \in Seq(Asdu), n \in Nat : L = pub.asduList /\ n = Len(L)
    BY <1>0, PublisherTyped
  <1>2. PayloadFits(L) /\ AsduAt(L, n) =< BufferSize
    BY <1>0, <1>1, InBufferFits
  <1>3. SameLayouts(L, L)
    BY DEF SameLayouts, SameLayout
  <1>4. Piece(Payload(L), AsduAt(L, n)) /\ \A k \in 0 .. n : Len(PayloadUpTo(L)[k]) = AsduAt(L, k)
    BY <1>1, <1>2, <1>3, PayloadOctets
  <1>5. PICK size \in Nat, len \in Nat : size = BufferSize /\ len = AsduAt(L, n) /\ len =< size
    <2>1. n \in 0 .. n
      OBVIOUS
    <2>2. AsduAt(L, n) \in Nat
      BY <1>1, <1>2, <2>1, AsduPlaces
    <2>3. BufferSize \in Nat
      BY SvLayoutAssumption
    <2> QED
      BY <1>2, <2>2, <2>3, Zenon
  <1>6. PICK buf : Overlays(buf, pub.buffer, Payload(L))
    BY DEF Overlays
  <1>7. Piece(pub.buffer, size)
    BY <1>0, <1>5, PublisherTyped DEF Piece
  <1>8. Piece(buf, size) /\ \A p \in 1 .. len : Payload(L)[p] # Hole => buf[p] = Payload(L)[p]
    BY <1>4, <1>5, <1>6, <1>7, Overlaid
  <1>9. PICK list : list = [j \in 1 .. n |-> WithPointers(L[j], Len(PayloadUpTo(L)[j - 1]))]
    OBVIOUS
  <1>10. \A j \in 1 .. n : Points(list[j], L[j], AsduAt(L, j - 1))
    <2> TAKE j \in 1 .. n
    <2>1. j - 1 \in 0 .. n
      OBVIOUS
    <2> QED
      BY <1>4, <1>9, <2>1, Zenon DEF Points
  <1>11. \A j \in 1 .. n : list[j] \in Asdu
    <2> TAKE j \in 1 .. n
    <2>1. j - 1 \in 0 .. n
      OBVIOUS
    <2>2. PICK a \in Asdu, at \in Nat : a = L[j] /\ at = AsduAt(L, j - 1)
      <3>1. L[j] \in Asdu
        BY <1>1, AsdusTyped
      <3>2. AsduAt(L, j - 1) \in Nat
        BY <1>1, <1>2, <2>1, AsduPlaces
      <3> QED
        BY <3>1, <3>2, Zenon
    <2>3. Fits(a) /\ TimePlaced(a)
      BY <1>0, <1>1, <1>2, <2>2, HeadIsPiece
    <2>4. PICK b : b = list[j]
      OBVIOUS
    <2>5. Points(b, a, at)
      BY <1>10, <2>2, <2>4, Zenon
    <2> QED
      BY <2>3, <2>4, <2>5, Pointed
  <1>12. list \in [1 .. n -> Asdu]
    BY <1>9, <1>11, Zenon
  <1>13. list \in Seq(Asdu) /\ Len(list) = n
    BY <1>12
  <1>14. Len(Payload(L)) = len
    BY <1>4, <1>5 DEF Piece
  <1>15. pub2 = [pub EXCEPT !.asduList = list, !.buffer = buf, !.payloadLength = len]
    BY <1>0, <1>1, <1>6, <1>9, <1>14, Zenon DEF SVPublisher_setupComplete, Overlays
  <1>16. buf \in Seq(Int) /\ Len(buf) = size
    BY <1>8 DEF Piece
  <1>17. /\ pub2 \in Publisher /\ pub2.asduList = list /\ pub2.buffer = buf
         /\ pub2.payloadLength = len
    BY <1>0, <1>13, <1>15, <1>16 DEF Publisher
  <1> QED
    BY <1>1, <1>2, <1>5, <1>8, <1>10, <1>13, <1>16, <1>17, Zenon

\* ... and what of each ASDU: its pointers, and its counters in the buffer.
LEMMA SetUpAsdu ==
  ASSUME NEW pub, NEW pub2, SetsUp(pub2, pub), NEW j \in 1 .. Len(pub.asduList)
  PROVE  /\ PlacedAsdu(pub2.asduList[j], pub.asduList[j], AsduAt(pub.asduList, j - 1))
         /\ pub2.asduList[j].dataSize = pub.asduList[j].dataSize
         /\ TimePlaced(pub2.asduList[j]) /\ CounterHeld(pub2.buffer, pub2.asduList[j])
  <1>1. PICK L \in Seq(Asdu) : L = pub.asduList
    BY SetUpTyped
  <1>2. /\ PayloadFits(L) /\ j \in 1 .. Len(L) /\ TimePlaced(L[j]) /\ L[j] \in Asdu /\ Fits(L[j])
    BY <1>1, SetUpTyped, AsdusTyped, HeadIsPiece DEF SetsUp
  <1>3. PICK a \in Asdu : a = L[j]
    BY <1>2
  <1>18. PICK b : b = pub2.asduList[j]
    OBVIOUS
  <1>4. PICK at \in Nat : at = AsduAt(L, j - 1)
    <2>1. j - 1 \in 0 .. Len(L)
      BY <1>2
    <2> QED
      BY <1>2, <2>1, AsduPlaces
  <1>5. Fits(a) /\ TimePlaced(a) /\ Points(b, a, at)
    BY <1>1, <1>2, <1>3, <1>4, <1>18, SetUpTyped, Zenon
  <1>6. /\ b \in Asdu /\ PlacedAsdu(b, a, at) /\ b.dataSize = a.dataSize
        /\ b.hasRefrTm = a.hasRefrTm /\ b.smpCnt = a.smpCnt /\ b.smpSynch = a.smpSynch
    BY <1>5, Pointed
  <1>7. PICK c \in Nat, r \in Nat, q \in Nat, len \in Nat :
           c = SmpCntAt(a) /\ r = RefrTmAt(a) /\ q = SmpSynchAt(a) /\ len = AsduLength(a)
    BY Places
  <1>8. /\ c + 1 \in 1 .. len /\ c + 2 \in 1 .. len /\ q + 1 \in 1 .. len
        /\ a.hasRefrTm => r + 8 =< len
    <2>1. PICK t \in Nat, d \in Nat : t = DataAt(a) /\ d = a.dataSize
      BY Places, AsduTyped
    <2>2. /\ c + 8 =< r /\ r + 2 =< q /\ q + 3 =< t /\ t + d =< len
          /\ a.hasRefrTm => r + 10 = q
      <3>1. PICK z \in Nat : z = IF a.hasSmpMod THEN 4 ELSE 0
        OBVIOUS
      <3>2. /\ c + 8 =< r /\ r + 2 =< q /\ q + 3 =< t /\ len = t + d + z
            /\ a.hasRefrTm => r + 10 = q
        BY <1>7, <2>1, <3>1, Places, Zenon
      <3>3. t + d =< len
        BY <3>2
      <3> QED
        BY <3>2, <3>3, Zenon
    <2> QED
      BY <2>1, <2>2
  <1>9. ASSUME NEW x \in 1 .. len, SVPublisher_ASDU_encodeToBuffer(a)[x] # Hole
        PROVE  pub2.buffer[at + x] = SVPublisher_ASDU_encodeToBuffer(a)[x]
    <2>1. x \in 1 .. AsduLength(L[j])
      BY <1>3, <1>7, Zenon
    <2>2. /\ at + x \in 1 .. AsduAt(L, Len(L))
          /\ Payload(L)[at + x] = SVPublisher_ASDU_encodeToBuffer(a)[x]
      BY <1>2, <1>3, <1>4, <2>1, CarriedOctet
    <2> QED
      BY <1>1, <1>9, <2>2, SetUpTyped, Zenon
  <1>10. TimePlaced(b)
    <2>1. CASE a.hasRefrTm
      <3>1. b.refrTm = at + r
        BY <1>6, <1>7, <2>1, Zenon DEF PlacedAsdu
      <3>2. PICK n \in Nat, size \in Nat : n = AsduAt(L, Len(L)) /\ size = BufferSize /\ n =< size
        BY <1>1, SetUpTyped, SvLayoutAssumption, PublisherTyped
      <3>3. at + len =< n
        <4>1. len \in 1 .. AsduLength(L[j])
          <5>1. len \in 1 .. len
            BY <1>8
          <5> QED
            BY <1>3, <1>7, <5>1, Zenon
        <4> QED
          BY <1>2, <1>4, <3>2, <4>1, Slots
      <3>4. at + r + 8 =< size
        <4>1. r + 8 =< len
          BY <1>8, <2>1, Zenon
        <4> QED
          BY <3>2, <3>3, <4>1
      <3> QED
        BY <1>6, <2>1, <3>1, <3>2, <3>4, Zenon DEF TimePlaced
    <2>2. CASE ~a.hasRefrTm
      <3>1. b.refrTm = NoPos
        BY <1>6, <2>2, Zenon DEF PlacedAsdu
      <3> QED
        BY <3>1, Zenon DEF TimePlaced
    <2> QED
      BY <2>1, <2>2
  <1>11. PICK x \in Nat, y \in Nat : x = a.smpCnt /\ y = a.smpSynch
    BY AsduTyped
  <1>12. PICK s : s = SVPublisher_ASDU_encodeToBuffer(a)
    OBVIOUS
  <1>13. s[c + 1] = x \div 256 /\ s[c + 2] = x % 256 /\ s[q + 1] = y
    <2>1. SameLayout(a, a)
      BY DEF SameLayout
    <2>2. CountHeld(s, a) /\ SynchHeld(s, a)
      BY <1>5, <1>12, <2>1, AsduIsPiece
    <2> QED
      BY <1>7, <1>11, <2>2, Zenon DEF CountHeld, SynchHeld
  <1>14. x \div 256 # Hole /\ x % 256 # Hole /\ y # Hole
    BY QuotientsAreNumbers DEF Hole
  <1>15. /\ pub2.buffer[at + (c + 1)] = x \div 256 /\ pub2.buffer[at + (c + 2)] = x % 256
         /\ pub2.buffer[at + (q + 1)] = y
    <2>1. \A i \in 1 .. len : s[i] # Hole => pub2.buffer[at + i] = s[i]
      BY <1>9, <1>12, Zenon
    <2>2. s[c + 1] # Hole /\ s[c + 2] # Hole /\ s[q + 1] # Hole
      BY <1>13, <1>14, Zenon
    <2>3. /\ pub2.buffer[at + (c + 1)] = s[c + 1] /\ pub2.buffer[at + (c + 2)] = s[c + 2]
          /\ pub2.buffer[at + (q + 1)] = s[q + 1]
      BY <1>8, <2>1, <2>2, Zenon
    <2> QED
      BY <1>13, <2>3, Zenon
  <1>16. /\ b.smpCntBuf + 1 = at + (c + 1) /\ b.smpCntBuf + 2 = at + (c + 2)
         /\ b.smpSynchBuf + 1 = at + (q + 1)
    <2>1. b.smpCntBuf = at + c /\ b.smpSynchBuf = at + q
      BY <1>6, <1>7, Zenon DEF PlacedAsdu
    <2>2. at + c + 1 = at + (c + 1) /\ at + c + 2 = at + (c + 2) /\ at + q + 1 = at + (q + 1)
      OBVIOUS
    <2> QED
      BY <2>1, <2>2, Zenon
  <1>17. CounterHeld(pub2.buffer, b)
    BY <1>6, <1>11, <1>15, <1>16, ZenonT(40) DEF CounterHeld
  <1> QED
    BY <1>1, <1>3, <1>4, <1>6, <1>10, <1>17, <1>18, Zenon

\* ... and what the application knows then.
Forgets(app2, app, L) ==
    /\ Len(L) = Len(app.asdus)
    /\ app2 =
           [asdus |-> [j \in 1 .. Len(L) |->
               [refrTm |-> Unknown,
                elements |-> [k \in DOMAIN app.asdus[j].elements |->
                    [app.asdus[j].elements[k] EXCEPT !.value = Unknown]]]],
            laid |-> L, ready |-> TRUE]

Forgot(app2, app, L) ==
    /\ app2 \in Application /\ Len(app2.asdus) = Len(L) /\ app2.laid = L /\ app2.ready
    /\ \A j \in 1 .. Len(L) :
           /\ Len(app2.asdus[j].elements) = Len(app.asdus[j].elements)
           /\ \A k \in 1 .. Len(app.asdus[j].elements) :
                   /\ app2.asdus[j].elements[k].kind = app.asdus[j].elements[k].kind
                   /\ app2.asdus[j].elements[k].index = app.asdus[j].elements[k].index
                   /\ app2.asdus[j].elements[k].value = Unknown

\* After SVPublisher_setupComplete no element is set, and all are where they were
\* in the data.
LEMMA Forgotten ==
  ASSUME NEW app \in Application, NEW L \in Seq(Asdu),
         NEW app2, Forgets(app2, app, L)
  PROVE  Forgot(app2, app, L)
  <1>1. PICK n \in Nat : n = Len(L) /\ n = Len(app.asdus)
    BY AsdusTyped, Zenon DEF Forgets
  <1>2. PICK asdus : asdus = [j \in 1 .. n |->
               [refrTm |-> Unknown,
                elements |-> [k \in DOMAIN app.asdus[j].elements |->
                    [app.asdus[j].elements[k] EXCEPT !.value = Unknown]]]]
    OBVIOUS
  <1>3. ASSUME NEW j \in 1 .. n
        PROVE  /\ asdus[j] \in Known
               /\ Len(asdus[j].elements) = Len(app.asdus[j].elements)
               /\ \A k \in 1 .. Len(app.asdus[j].elements) :
                        /\ asdus[j].elements[k].kind = app.asdus[j].elements[k].kind
                        /\ asdus[j].elements[k].index = app.asdus[j].elements[k].index
                        /\ asdus[j].elements[k].value = Unknown
    <2>1. PICK els \in Seq(Element), z \in Nat : els = app.asdus[j].elements /\ z = Len(els)
      BY <1>1, ApplicationTyped
    <2>2. PICK els2 : els2 = [k \in 1 .. z |-> [els[k] EXCEPT !.value = Unknown]]
      OBVIOUS
    <2>3. DOMAIN els = 1 .. z
      BY <2>1, LenProperties
    <2>4. asdus[j] = [refrTm |-> Unknown, elements |-> els2]
      BY <1>2, <2>1, <2>2, <2>3, Zenon
    <2>5. ASSUME NEW k \in 1 .. z
          PROVE  /\ els2[k] \in Element /\ els2[k].kind = els[k].kind
                 /\ els2[k].index = els[k].index /\ els2[k].value = Unknown
      <3>1. PICK e \in Element : e = els[k]
        BY <2>1, ElementOfSeq
      <3>2. PICK e2 : e2 = [e EXCEPT !.value = Unknown]
        OBVIOUS
      <3>3. e \in [kind : DOMAIN ElementValues, value : Values, index : Nat] /\ Unknown \in Values
        BY DEF Element, Values
      <3>4. /\ e2 \in [kind : DOMAIN ElementValues, value : Values, index : Nat]
            /\ e2.kind = e.kind /\ e2.index = e.index /\ e2.value = Unknown
        BY <3>2, <3>3
      <3>5. e2 \in Element
        BY <3>4 DEF Element
      <3>6. els2[k] = e2
        BY <2>2, <3>1, <3>2, Zenon
      <3> QED
        BY <3>1, <3>4, <3>5, <3>6, Zenon
    <2>6. els2 \in [1 .. z -> Element]
      BY <2>2, <2>5, Zenon
    <2>7. els2 \in Seq(Element) /\ Len(els2) = z
      BY <2>6
    <2>8. asdus[j] \in Known /\ asdus[j].elements = els2
      BY <2>4, <2>7 DEF Known
    <2> QED
      BY <2>1, <2>5, <2>7, <2>8, Zenon
  <1>4. asdus \in [1 .. n -> Known]
    BY <1>2, <1>3, Zenon
  <1>5. asdus \in Seq(Known) /\ Len(asdus) = n
    BY <1>4
  <1>6. app2 = [asdus |-> asdus, laid |-> L, ready |-> TRUE]
    BY <1>1, <1>2, Zenon DEF Forgets
  <1>7. app2 \in Application /\ app2.asdus = asdus /\ app2.laid = L /\ app2.ready
    BY <1>5, <1>6 DEF Application
  <1> QED
    BY <1>1, <1>3, <1>5, <1>7, Zenon DEF Forgot

\* SVPublisher_setupComplete establishes the invariant of a complete layout.
LEMMA SetupCompleteSound ==
  ASSUME NEW pub, NEW app, Sound(pub, app), NEW pub2, SetsUp(pub2, pub),
         NEW app2, Forgets(app2, app, pub.asduList)
  PROVE  Sound(pub2, app2)
  <1>1. /\ pub \in Publisher /\ app \in Application /\ Len(app.asdus) = Len(pub.asduList)
        /\ \A j \in 1 .. Len(pub.asduList) :
              ElementsFit(pub.asduList[j], app.asdus[j].elements)
    BY SoundParts
  <1>2. PICK L \in Seq(Asdu), n \in Nat : L = pub.asduList /\ n = Len(L)
    BY <1>1, PublisherTyped
  <1>3. /\ pub2 \in Publisher /\ Len(pub2.buffer) = BufferSize /\ PayloadFits(L)
        /\ pub2.payloadLength = AsduAt(L, n) /\ pub2.payloadLength =< BufferSize
        /\ Len(pub2.asduList) = n
        /\ \A p \in 1 .. pub2.payloadLength :
                Payload(L)[p] # Hole => pub2.buffer[p] = Payload(L)[p]
    BY <1>2, SetUpTyped
  <1>4. ASSUME NEW j \in 1 .. n
        PROVE  /\ PlacedAsdu(pub2.asduList[j], L[j], AsduAt(L, j - 1))
               /\ pub2.asduList[j].dataSize = L[j].dataSize
               /\ TimePlaced(pub2.asduList[j]) /\ CounterHeld(pub2.buffer, pub2.asduList[j])
    BY <1>2, SetUpAsdu
  <1>5. Placed(pub2, L)
    BY <1>2, <1>3, <1>4, Zenon DEF Placed
  <1>6. OctetsHeld(pub2, L)
    BY <1>3, Zenon DEF OctetsHeld
  <1>7. /\ app2 \in Application /\ Len(app2.asdus) = n /\ app2.laid = L /\ app2.ready
        /\ \A j \in 1 .. n :
                /\ Len(app2.asdus[j].elements) = Len(app.asdus[j].elements)
                /\ \A k \in 1 .. Len(app.asdus[j].elements) :
                        /\ app2.asdus[j].elements[k].kind = app.asdus[j].elements[k].kind
                        /\ app2.asdus[j].elements[k].index = app.asdus[j].elements[k].index
                        /\ app2.asdus[j].elements[k].value = Unknown
    <2>1. Forgets(app2, app, L)
      BY <1>2, Zenon
    <2>2. app \in Application
      BY <1>1
    <2>3. Forgot(app2, app, L)
      BY <2>1, <2>2, Forgotten
    <2> QED
      BY <1>2, <2>3, Zenon DEF Forgot
  <1>8. ASSUME NEW j \in 1 .. n, NEW k \in 1 .. Len(app2.asdus[j].elements)
        PROVE  ElementHeld(pub2.buffer, pub2.asduList[j], app2.asdus[j].elements[k])
    BY <1>7, Zenon DEF ElementHeld
  <1>9. ASSUME NEW j \in 1 .. n
        PROVE  ElementsFit(pub2.asduList[j], app2.asdus[j].elements)
    <2>1. PICK els \in Seq(Element), z \in Nat : els = app.asdus[j].elements /\ z = Len(els)
      BY <1>1, <1>2, ApplicationTyped
    <2>2. PICK els2 : els2 = app2.asdus[j].elements
      OBVIOUS
    <2>3. ElementsFit(L[j], els)
      BY <1>1, <1>2, <2>1, Zenon
    <2>4. Len(els2) = z /\ \A k \in 1 .. z : els2[k].kind = els[k].kind /\ els2[k].index = els[k].index
      BY <1>7, <2>1, <2>2, Zenon
    <2>5. ASSUME NEW k \in 1 .. z
          PROVE  /\ els2[k].index + ElementSize[els2[k].kind] =< L[j].dataSize
                 /\ \A m \in 1 .. k - 1 :
                        els2[m].index + ElementSize[els2[m].kind] =< els2[k].index
      <3>1. /\ els[k].index + ElementSize[els[k].kind] =< L[j].dataSize
            /\ \A m \in 1 .. k - 1 : els[m].index + ElementSize[els[m].kind] =< els[k].index
        BY <2>1, <2>3, Zenon DEF ElementsFit
      <3>2. \A m \in 1 .. k - 1 : m \in 1 .. z
        OBVIOUS
      <3> QED
        BY <2>4, <3>1, <3>2, Zenon
    <2> QED
      BY <1>4, <2>2, <2>4, <2>5, Zenon DEF ElementsFit
  <1>10. Held(pub2, app2)
    BY <1>3, <1>4, <1>6, <1>7, <1>8, Zenon DEF Held
  <1> QED
    BY <1>3, <1>4, <1>5, <1>7, <1>9, <1>10, Zenon DEF Sound

-----------------------------------------------------------------------------
\* The invariant is Sound of the publisher and the application.
LEMMA SoundInvariant == LayoutInv <=> Sound(svPub, svApp)
  BY Zenon DEF LayoutInv, TypeInv, Sound

\* SVPublisher_create establishes the invariant.
LEMMA InitSound == LayoutInit => LayoutInv
  <1> SUFFICES ASSUME LayoutInit PROVE Sound(svPub, svApp)
    BY SoundInvariant
  <1>1. PICK g \in Garbage :
           svPub = [asduList |-> <<>>, buffer |-> [i \in 1 .. BufferSize |-> g],
                    payloadLength |-> 0]
    BY DEF LayoutInit
  <1>2. PICK size \in Nat : size = BufferSize
    BY SvLayoutAssumption
  <1>3. PICK h \in Int : h = g
    <2>1. g \in Octet
      BY SvLayoutAssumption
    <2> QED
      BY <2>1 DEF Octet
  <1>4. PICK buf : buf = [i \in 1 .. size |-> h]
    OBVIOUS
  <1>5. buf \in [1 .. size -> Int]
    BY <1>4
  <1>6. buf \in Seq(Int) /\ Len(buf) = size
    BY <1>5
  <1>7. svPub = [asduList |-> <<>>, buffer |-> buf, payloadLength |-> 0]
    BY <1>1, <1>2, <1>3, <1>4, Zenon
  <1>8. svPub \in Publisher /\ svPub.buffer = buf /\ svPub.asduList = <<>>
    BY <1>6, <1>7 DEF Publisher
  <1>9. svApp = [asdus |-> <<>>, laid |-> <<>>, ready |-> FALSE]
    BY DEF LayoutInit
  <1>10. svApp \in Application /\ svApp.asdus = <<>> /\ svApp.ready = FALSE
    BY <1>9 DEF Application
  <1>11. Len(svApp.asdus) = Len(svPub.asduList) /\ Len(svPub.asduList) = 0
    BY <1>8, <1>10
  <1>12. 1 .. Len(svPub.asduList) = {}
    BY <1>11
  <1> QED
    BY <1>2, <1>6, <1>8, <1>10, <1>11, <1>12, Zenon DEF Sound

\* The invariant implies that the layout is exact.
LEMMA LayoutHolds == LayoutInv => LayoutExact
  <1> SUFFICES ASSUME LayoutInv, svApp.ready PROVE SizesComputed /\ AreasApart /\ PayloadCurrent
    BY Zenon DEF LayoutExact
  <1>1. TypeInv /\ Placed(svPub, svApp.laid) /\ Held(svPub, svApp)
    BY Zenon DEF LayoutInv
  <1> QED
    BY <1>1, PlacedSizes, PlacedApart, HeldCurrent

\* The calls that set a counter preserve the invariant.
LEMMA SetCounterSound ==
  ASSUME Sound(svPub, svApp), SetCounter
  PROVE  Sound(svPub', svApp')
  <1>1. PICK j \in 1 .. Len(svPub.asduList) :
           /\ \/ \E n \in Counts : svPub' = SVPublisher_ASDU_setSmpCnt(svPub, j, n)
              \/ \E n \in Wraps : svPub' = SVPublisher_ASDU_setSmpCntWrap(svPub, j, n)
              \/ svPub' = SVPublisher_ASDU_increaseSmpCnt(svPub, j)
           /\ svApp' = svApp
    BY Zenon DEF SetCounter, Asdus
  <1>2. svPub \in Publisher
    BY SoundParts
  <1>3. ASSUME NEW n \in Nat, svPub' = SVPublisher_ASDU_setSmpCnt(svPub, j, n)
        PROVE  Sound(svPub', svApp')
    <2>1. Sound(SVPublisher_ASDU_setSmpCnt(svPub, j, n), svApp)
      BY SetSmpCntSound
    <2> QED
      BY <1>1, <1>3, <2>1, Zenon
  <1>4. CASE \E n \in Counts : svPub' = SVPublisher_ASDU_setSmpCnt(svPub, j, n)
    <2>1. \A n \in Counts : n \in Nat
      BY SvLayoutAssumption
    <2> QED
      BY <1>3, <1>4, <2>1, Zenon
  <1>5. ASSUME NEW n \in Wraps, svPub' = SVPublisher_ASDU_setSmpCntWrap(svPub, j, n)
        PROVE  Sound(svPub', svApp')
    <2>1. n \in Nat /\ n # 0
      BY SvLayoutAssumption
    <2>2. Sets(svPub, SVPublisher_ASDU_setSmpCntWrap(svPub, j, n), j)
      BY <1>2, <2>1, SetOptions
    <2>3. Sound(SVPublisher_ASDU_setSmpCntWrap(svPub, j, n), svApp)
      BY <2>2, SetsSound
    <2> QED
      BY <1>1, <1>5, <2>3, Zenon
  <1>6. CASE svPub' = SVPublisher_ASDU_increaseSmpCnt(svPub, j)
    <2>1. PICK a \in Asdu : a = svPub.asduList[j]
      BY <1>2, PublisherTyped
    <2>2. PICK c \in Nat, limit \in Nat \ {0} : c = a.smpCnt /\ limit = a.smpCntLimit
      BY DEF Asdu
    <2>3. PICK n \in Nat : n = (c + 1) % limit
      OBVIOUS
    <2>4. svPub' = SVPublisher_ASDU_setSmpCnt(svPub, j, n)
      BY <1>6, <2>1, <2>2, <2>3, Zenon DEF SVPublisher_ASDU_increaseSmpCnt
    <2> QED
      BY <1>3, <2>4
  <1> QED
    BY <1>1, <1>4, <1>5, <1>6

\* The calls that set smpRate, smpMod and smpSynch preserve the invariant.
LEMMA SetOptionSound ==
  ASSUME Sound(svPub, svApp), SetOption
  PROVE  Sound(svPub', svApp')
  <1>1. PICK j \in 1 .. Len(svPub.asduList), n \in Counts :
           /\ \/ svPub' = SVPublisher_ASDU_setSmpRate(svPub, j, n)
              \/ svPub' = SVPublisher_ASDU_setSmpMod(svPub, j, n % 3)
              \/ svPub' = SVPublisher_ASDU_setSmpSynch(svPub, j, n)
           /\ svApp' = svApp
    BY Zenon DEF SetOption, Asdus
  <1>2. svPub \in Publisher
    BY SoundParts
  <1>3. n \in Nat
    BY SvLayoutAssumption
  <1>4. PICK m \in Nat : m = n % 3
    BY <1>3
  <1>5. CASE svPub' = SVPublisher_ASDU_setSmpRate(svPub, j, n)
    <2>1. Sets(svPub, SVPublisher_ASDU_setSmpRate(svPub, j, n), j)
      BY <1>2, <1>3, SetOptions
    <2>2. Sound(SVPublisher_ASDU_setSmpRate(svPub, j, n), svApp)
      BY <2>1, SetsSound
    <2> QED
      BY <1>1, <1>5, <2>2, Zenon
  <1>6. CASE svPub' = SVPublisher_ASDU_setSmpMod(svPub, j, n % 3)
    <2>1. Sets(svPub, SVPublisher_ASDU_setSmpMod(svPub, j, m), j)
      BY <1>2, SetOptions
    <2>2. Sound(SVPublisher_ASDU_setSmpMod(svPub, j, m), svApp)
      BY <2>1, SetsSound
    <2> QED
      BY <1>1, <1>4, <1>6, <2>2, Zenon
  <1>7. CASE svPub' = SVPublisher_ASDU_setSmpSynch(svPub, j, n)
    <2>1. Sound(SVPublisher_ASDU_setSmpSynch(svPub, j, n), svApp)
      BY <1>3, SetSmpSynchSound
    <2> QED
      BY <1>1, <1>7, <2>1, Zenon
  <1> QED
    BY <1>1, <1>5, <1>6, <1>7

\* SVPublisher_ASDU_enableRefrTm preserves the invariant.
LEMMA EnableRefrTmSound ==
  ASSUME Sound(svPub, svApp), EnableRefrTm
  PROVE  Sound(svPub', svApp')
  <1>1. PICK j \in 1 .. Len(svPub.asduList) :
           svPub' = SVPublisher_ASDU_enableRefrTm(svPub, j) /\ svApp' = svApp
    BY Zenon DEF EnableRefrTm, Asdus
  <1>2. svPub \in Publisher /\ 0 \in Nat
    BY SoundParts
  <1>3. Sets(svPub, SVPublisher_ASDU_enableRefrTm(svPub, j), j)
    BY <1>2, SetOptions
  <1>4. Sound(SVPublisher_ASDU_enableRefrTm(svPub, j), svApp)
    BY <1>3, SetsSound
  <1> QED
    BY <1>1, <1>4, Zenon

\* The calls that set a refresh time preserve the invariant.
LEMMA SetRefrTimeSound ==
  ASSUME Sound(svPub, svApp), SetRefrTime
  PROVE  Sound(svPub', svApp')
  <1>1. PICK j \in 1 .. Len(svPub.asduList), t \in RefrTimes :
           SetsRefrTime(svPub', svPub, j, t) /\ KnowsTime(svApp', svApp, j, t)
    BY Zenon DEF SetRefrTime, Asdus, SetsRefrTime, KnowsTime
  <1> QED
    BY <1>1, SetRefreshTimeSound

\* The calls that set an element preserve the invariant.
LEMMA SetElementSound ==
  ASSUME Sound(svPub, svApp), SetElement
  PROVE  Sound(svPub', svApp')
  <1>7. PICK j \in 1 .. Len(svPub.asduList) :
           \E k \in DOMAIN svApp.asdus[j].elements :
               \E v \in ElementValues[svApp.asdus[j].elements[k].kind] :
                   /\ svApp.ready
                   /\ svPub' = SVPublisher_ASDU_set(svPub, j, svApp.asdus[j].elements[k].index,
                                                    svApp.asdus[j].elements[k].kind, v)
                   /\ svApp' = [svApp EXCEPT !.asdus[j].elements[k].value = v]
    BY Zenon DEF SetElement, Asdus
  <1>8. PICK k \in DOMAIN svApp.asdus[j].elements :
           \E v \in ElementValues[svApp.asdus[j].elements[k].kind] :
               /\ svApp.ready
               /\ svPub' = SVPublisher_ASDU_set(svPub, j, svApp.asdus[j].elements[k].index,
                                                svApp.asdus[j].elements[k].kind, v)
               /\ svApp' = [svApp EXCEPT !.asdus[j].elements[k].value = v]
    BY <1>7, Zenon
  <1>1. PICK v \in ElementValues[svApp.asdus[j].elements[k].kind] :
           /\ svApp.ready
           /\ svPub' = SVPublisher_ASDU_set(svPub, j, svApp.asdus[j].elements[k].index,
                                            svApp.asdus[j].elements[k].kind, v)
           /\ svApp' = [svApp EXCEPT !.asdus[j].elements[k].value = v]
    BY <1>8, Zenon
  <1>2. svApp \in Application /\ j \in 1 .. Len(svApp.asdus)
    BY SoundParts
  <1>3. DOMAIN svApp.asdus[j].elements = 1 .. Len(svApp.asdus[j].elements)
    <2>1. PICK els \in Seq(Element) : els = svApp.asdus[j].elements
      BY <1>2, ApplicationTyped
    <2>2. DOMAIN els = 1 .. Len(els)
      BY LenProperties
    <2> QED
      BY <2>1, <2>2, Zenon
  <1>4. SetsElement(svPub', svPub, j, svApp.asdus[j].elements[k], v)
    BY <1>1, Zenon DEF SetsElement
  <1>5. k \in 1 .. Len(svApp.asdus[j].elements)
    BY <1>3, Zenon
  <1>6. KnowsValue(svApp', svApp, j, k, v)
    BY <1>1, <1>2, <1>5, Zenon DEF KnowsValue
  <1> QED
    BY <1>1, <1>4, <1>5, <1>6, SetValueSound

\* Every call of the application preserves the invariant.
LEMMA StepSound ==
  ASSUME Sound(svPub, svApp), [LayoutNext]_layoutVars
  PROVE  Sound(svPub', svApp')
  <1>1. CASE AddAsdu
    <2>1. PICK n \in Names : Adds(svPub', svApp', svPub, svApp, n)
      BY <1>1, Zenon DEF AddAsdu, Adds
    <2> QED
      BY <2>1, AddAsduSound
  <1>2. CASE AddElement
    <2>1. PICK j \in 1 .. Len(svPub.asduList), kind \in DOMAIN ElementValues :
             AddsElement(svPub', svApp', svPub, svApp, j, kind)
      BY <1>2, Zenon DEF AddElement, AddsElement, Asdus
    <2> QED
      BY <2>1, AddElementSound
  <1>3. CASE ResetElements
    <2>1. PICK j \in 1 .. Len(svPub.asduList) : Resets(svPub', svApp', svPub, svApp, j)
      BY <1>3, Zenon DEF ResetElements, Resets, Asdus
    <2> QED
      BY <2>1, ResetSound
  <1>4. CASE SetupComplete
    <2>1. SetsUp(svPub', svPub)
      BY <1>4, SoundParts, Zenon DEF SetupComplete, SetsUp, InBuffer
    <2>2. Len(svPub.asduList) = Len(svApp.asdus)
      BY SoundParts
    <2>3. Forgets(svApp', svApp, svPub.asduList)
      BY <1>4, <2>2, Zenon DEF SetupComplete, Forgets, Asdus
    <2> QED
      BY <2>1, <2>3, SetupCompleteSound
  <1>5. CASE SetElement
    BY <1>5, SetElementSound
  <1>6. CASE SetCounter
    BY <1>6, SetCounterSound
  <1>7. CASE SetOption
    BY <1>7, SetOptionSound
  <1>8. CASE EnableRefrTm
    BY <1>8, EnableRefrTmSound
  <1>9. CASE SetRefrTime
    BY <1>9, SetRefrTimeSound
  <1>10. CASE UNCHANGED layoutVars
    BY <1>10, Zenon DEF layoutVars
  <1> QED
    BY <1>1, <1>2, <1>3, <1>4, <1>5, <1>6, <1>7, <1>8, <1>9, <1>10, Zenon DEF LayoutNext

\* The invariant holds in every state, for every set of names, values, counters
\* and times, every size of the buffer below 65535 and every number of ASDUs and
\* calls.
THEOREM LayoutInvariant == LayoutSpec => []LayoutInv
  <1>1. LayoutInit => LayoutInv
    BY InitSound
  <1>2. LayoutInv /\ [LayoutNext]_layoutVars => LayoutInv'
    <2> SUFFICES ASSUME LayoutInv, [LayoutNext]_layoutVars PROVE LayoutInv'
      OBVIOUS
    <2>1. Sound(svPub', svApp')
      BY SoundInvariant, StepSound
    <2> QED
      BY <2>1, Zenon DEF LayoutInv, TypeInv, Sound
  <1> QED
    BY <1>1, <1>2, PTL DEF LayoutSpec

\* Once SVPublisher_setupComplete has run, the sizes it computed are right, the
\* places it keeps for later writes lie apart in the payload, and the payload is
\* the encoding of what the application has set, whatever it calls in whatever
\* order.
THEOREM LayoutIsExact == LayoutSpec => []LayoutExact
  BY LayoutInvariant, LayoutHolds, PTL
=============================================================================
