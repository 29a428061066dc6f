--------------------------- MODULE SvStreamProofs ---------------------------
(***************************************************************************)
(* Proofs about the stream of sampled values, for every set of             *)
(* configurations that satisfies StreamAssumption.                         *)
(*                                                                         *)
(* The argument: the calls of Measure are an interval apart, so that the   *)
(* k-th sample (from 0) is taken at time k * Interval.  Message m (from 1) *)
(* is then a function of m alone, AsduOf(m, j) in its ASDU j, and at any   *)
(* time the buffer holds message sent + 1 up to sampleIndex and message    *)
(* sent behind it.  Messages on their way carry different numbers and are  *)
(* due in the order of their numbers, all of them behind the one the       *)
(* subscriber saw last.                                                    *)
(***************************************************************************)
EXTENDS SvStream, ArithmeticLemmas, SequenceTheorems

\* The number of a sample, from 0, and the time it is taken.
Number(m, j) == (m - 1) * attr.samplesPerMessage + (j - 1)

SampleTime(k) == k * Interval(attr)

Blank == [smpCnt |-> 0, val |-> Unset, ts |-> [secs |-> 0, frac |-> 0]]

\* ASDU j of message m; no message has number 0.
AsduOf(m, j) ==
    IF m = 0 THEN Blank
    ELSE [smpCnt |-> m % SmpCntLimit, val |-> SampleTime(Number(m, j)),
          ts |-> Timestamp_setTimeInNanoseconds(SampleTime(Number(m, j)))]

Message(m) == [j \in 1 .. attr.samplesPerMessage |-> AsduOf(m, j)]

FrameOf(m) == Frame("sv", SvAppId, Message(m))

\* When message m is sent: with its last sample.
SentAt(m) == SampleTime(Number(m, attr.samplesPerMessage))

-----------------------------------------------------------------------------
\* The start of the publisher is the first event and happens once.
StartOnce ==
    /\ \A e \in sim.pending : e.fn.name = "StartPublisher" =>
            e = [at |-> 0, uid |-> 0, fn |-> Call("StartPublisher")] /\ publisher = "created"
    /\ \A e \in sim.pending : e.fn.name = "StopPublisher" => e.at > 0
    /\ publisher = "created" =>
            /\ [at |-> 0, uid |-> 0, fn |-> Call("StartPublisher")] \in sim.pending
            /\ sent = 0 /\ sampleIndex = 0 /\ taken = 0 /\ sim.now = 0

\* Whatever is pending has its own identifier or an older one, and is due.
Pending == \A e \in sim.pending : e.uid < sim.uid /\ sim.now =< e.at

\* The calls of Measure: at most one is pending, at the time of the next sample.
Chain ==
    /\ \A e, f \in Measures : e = f
    /\ \A e \in Measures : publisher = "running" /\ e.uid = eventId /\ e.at = SampleTime(taken)
    /\ publisher = "running" /\ count # 0 => Measures # {}
    /\ taken = sent * attr.samplesPerMessage + sampleIndex
    /\ sampleIndex < attr.samplesPerMessage

\* The message whose sample ASDU j of the buffer holds.
Latest(j) == IF j =< sampleIndex THEN sent + 1 ELSE sent

Buffer ==
    publisher # "created" =>
        /\ svPublisher.asduList = [j \in 1 .. attr.samplesPerMessage |-> Latest(j) % SmpCntLimit]
        /\ svPublisher.buffer = [j \in 1 .. attr.samplesPerMessage |-> AsduOf(Latest(j), j)]

\* Event e is the arrival of message m.
Carries(e, m) == e.fn.name = "Receive" /\ e.fn.frame = FrameOf(m)

Network ==
    /\ \A e \in sim.pending : e.fn.name = "Receive" =>
            \/ e.fn.frame \in attr.noise
            \/ \E m \in 1 .. sent, d \in Delays : Carries(e, m) /\ e.at = SentAt(m) + d
    /\ \A e, f \in sim.pending : \A k, m \in 1 .. sent :
            Carries(e, k) /\ Carries(f, m) =>
                (k = m => e = f) /\ (k < m => Precedes(e, f))

\* What the listener keeps of ASDU j of message m, received at time t.
SampleOf(m, j, t) ==
    [sampleTimestamp |-> Timestamp_getTimeInNs(AsduOf(m, j).ts), receivedTimestamp |-> t,
     smpCnt |-> AsduOf(m, j).smpCnt, val |-> AsduOf(m, j).val]

\* The last sample the listener saw is ASDU j of message m.
Saw(m, j) == \E d \in Delays : lastSample = SampleOf(m, j, SentAt(m) + d)

\* Whole messages and j samples have been received.
Count(j) == received % attr.samplesPerMessage = j

\* Every message on its way is newer than message m.
Behind(m) == \A e \in sim.pending : \A k \in 1 .. sent : Carries(e, k) => m < k

Idle ==
    rest = <<>> =>
        \/ received = 0
        \/ Count(0) /\ \E m \in 1 .. sent : Saw(m, attr.samplesPerMessage) /\ Behind(m)

\* The listener is being called for message m, j of whose ASDUs it saw.
Busy ==
    rest # <<>> =>
        \E m \in 1 .. sent, j \in 0 .. attr.samplesPerMessage - 1 :
            /\ rest = SubSeq(Message(m), j + 1, attr.samplesPerMessage)
            /\ Behind(m)
            /\ Count(j)
            /\ \E d \in Delays : sim.now = SentAt(m) + d
            /\ IF j > 0 THEN lastSample = SampleOf(m, j, sim.now)
               ELSE received = 0 \/ \E k \in 1 .. m - 1 : Saw(k, attr.samplesPerMessage)

StreamInv ==
    TypeOK /\ StartOnce /\ Pending /\ Chain /\ Buffer /\ Network /\ Idle /\ Busy

-----------------------------------------------------------------------------
\* The fraction of a time stamp and the nanoseconds it is decoded to: the two
\* divisions round down, by less than one unit of the fraction and one nanosecond.
LEMMA FractionRoundTrip ==
  ASSUME NEW r \in 0 .. NsPerSec - 1
  PROVE  LET f == (r * FracMod) \div NsPerSec
             g == (f * NsPerSec) \div FracMod
         IN  /\ f \in 0 .. FracMod - 1
             /\ g \in Nat /\ g =< r /\ r =< g + Resolution
  <1> DEFINE N == NsPerSec
             F == FracMod
             f == (r * F) \div N
             g == (f * N) \div F
             d == N \div F
  <1>1. N \in Nat \ {0} /\ F \in Nat \ {0}
    BY UtcTimeAssumption
  <1> HIDE DEF N, F
  <1>2. r \in Nat /\ r < N
    BY <1>1 DEF N
  <1>3. PICK x \in 0 .. N - 1 : f \in Nat /\ r * F = f * N + x
    <2>1. r * F \in Nat
      BY <1>1, <1>2, Products
    <2> QED
      BY <1>1, <2>1, Division
  <1> HIDE DEF f
  <1>4. PICK y \in 0 .. F - 1 : g \in Nat /\ f * N = g * F + y
    <2>1. f * N \in Nat
      BY <1>1, <1>3, Products
    <2> QED
      BY <1>1, <2>1, Division
  <1>5. PICK z \in 0 .. F - 1 : d \in Nat /\ N = d * F + z
    BY <1>1, Division
  <1> HIDE DEF g, d
  <1>6. /\ r * F \in Nat /\ f * N \in Nat /\ g * F \in Nat /\ d * F \in Nat /\ F * N \in Nat
    BY <1>1, <1>2, <1>3, <1>4, <1>5, Products
  <1>7. f < F
    <2>1. SUFFICES ASSUME F =< f PROVE FALSE
      BY <1>1, <1>3
    <2>2. r * F + F =< N * F
      BY <1>1, <1>2, Products
    <2>3. F * N =< f * N
      <3>1. F < f => F * N + N =< f * N
        BY <1>1, <1>3, Products
      <3> QED
        BY <1>1, <1>3, <1>6, <2>1, <3>1
    <2> QED
      BY <1>1, <1>3, <1>6, <2>2, <2>3
  <1>8. g =< r
    <2>1. SUFFICES ASSUME r < g PROVE FALSE
      BY <1>2, <1>4
    <2>2. r * F + F =< g * F
      BY <1>1, <1>2, <1>4, <2>1, Products
    <2> QED
      BY <1>1, <1>3, <1>4, <1>6, <2>2
  <1>9. r =< g + (d + 1)
    <2>1. SUFFICES ASSUME g + d + 1 < r PROVE FALSE
      BY <1>2, <1>4, <1>5
    <2>2. (g + d + 1) * F + F =< r * F
      <3>1. g + d + 1 \in Nat
        BY <1>4, <1>5
      <3>2. PICK h \in Nat : h = g + d + 1
        BY <3>1
      <3> QED
        BY <1>1, <1>2, <2>1, <3>2, Products
    <2>3. (g + d + 1) * F = g * F + d * F + F
      BY <1>1, <1>4, <1>5
    <2> QED
      BY <1>1, <1>3, <1>4, <1>5, <1>6, <2>2, <2>3
  <1> QED
    BY <1>1, <1>3, <1>4, <1>7, <1>8, <1>9 DEF Resolution, d, f, g, F, N

\* The time stamp of a time, and what is read from it.
LEMMA TimestampRoundTrip ==
  ASSUME NEW ns \in Nat
  PROVE  /\ Timestamp_setTimeInNanoseconds(ns) \in Timestamp
         /\ Timestamp_getTimeInNs(Timestamp_setTimeInNanoseconds(ns)) \in Nat
         /\ InEpoch(ns) =>
                LET t == Timestamp_getTimeInNs(Timestamp_setTimeInNanoseconds(ns))
                IN  t =< ns /\ ns =< t + Resolution
  <1> DEFINE q == ns \div NsPerSec
             r == ns % NsPerSec
             c == q % SecsMod
             f == (r * FracMod) \div NsPerSec
             g == (f * NsPerSec) \div FracMod
             t == c * NsPerSec + g
  <1>1. q \in Nat /\ r \in 0 .. NsPerSec - 1 /\ ns = q * NsPerSec + r
    BY UtcTimeAssumption, Division
  <1>2. /\ Timestamp_setTimeInNanoseconds(ns) = [secs |-> c, frac |-> f]
        /\ Timestamp_getTimeInNs(Timestamp_setTimeInNanoseconds(ns)) = t
    BY DEF Timestamp_setTimeInNanoseconds, Timestamp_getTimeInNs
  <1> HIDE DEF q, r
  <1>3. f \in 0 .. FracMod - 1 /\ g \in Nat /\ g =< r /\ r =< g + Resolution
    BY <1>1, FractionRoundTrip
  <1>4. c \in 0 .. SecsMod - 1
    BY <1>1, UtcTimeAssumption, Division
  <1> HIDE DEF f, g
  <1>5. t \in Nat
    <2>1. c \in Nat /\ NsPerSec \in Nat
      BY <1>4, UtcTimeAssumption
    <2> HIDE DEF c
    <2> QED
      BY <2>1, <1>3, Products
  <1>6. ASSUME InEpoch(ns) PROVE c = q
    <2>1. q < SecsMod
      <3>1. SUFFICES ASSUME SecsMod =< q PROVE FALSE
        BY <1>1, UtcTimeAssumption
      <3>2. SecsMod * NsPerSec =< q * NsPerSec
        <4>1. SecsMod < q => SecsMod * NsPerSec + NsPerSec =< q * NsPerSec
          BY <1>1, UtcTimeAssumption, Products
        <4>2. SecsMod * NsPerSec \in Nat
          BY UtcTimeAssumption, Products
        <4> QED
          BY <1>1, <3>1, <4>1, <4>2, UtcTimeAssumption
      <3>3. SecsMod * NsPerSec \in Nat /\ q * NsPerSec \in Nat
        BY <1>1, UtcTimeAssumption, Products
      <3> QED
        BY <1>1, <1>6, <3>2, <3>3, UtcTimeAssumption DEF InEpoch
    <2>2. q \in 0 .. SecsMod - 1 /\ 0 * SecsMod + q = q
      BY <1>1, <2>1, UtcTimeAssumption
    <2> QED
      BY <2>2, UtcTimeAssumption, DivisionUnique
  <1>7. ASSUME InEpoch(ns) PROVE t =< ns /\ ns =< t + Resolution
    <2>1. t = q * NsPerSec + g /\ q * NsPerSec \in Nat
      BY <1>1, <1>6, <1>7, UtcTimeAssumption, Products
    <2>2. Resolution \in Nat
      BY UtcTimeAssumption, Division DEF Resolution
    <2> HIDE DEF t
    <2> QED
      BY <1>1, <1>3, <2>1, <2>2, UtcTimeAssumption
  <1>8. [secs |-> c, frac |-> f] \in Timestamp
    BY <1>3, <1>4 DEF Timestamp
  <1> HIDE DEF t, c
  <1> QED
    BY <1>2, <1>5, <1>7, <1>8

-----------------------------------------------------------------------------
\* The types of the attributes the handlers read; an interval is a positive
\* number of whole microseconds.
LEMMA AttrTypes ==
  ASSUME TypeOK
  PROVE  /\ attr.samplesPerMessage \in 1 .. MaxAsdus /\ attr.samplesPerMessage \in Nat \ {0}
         /\ Interval(attr) \in Nat \ {0} /\ NsPerUs =< Interval(attr)
         /\ attr.noise \subseteq OtherFrames
  <1>1. attr \in Attributes /\ Interval(attr) > 0
    BY StreamAssumption DEF TypeOK
  <1>2. attr.samplesPerMessage \in 1 .. MaxAsdus /\ attr.samplesPerMessage \in Nat \ {0}
    BY <1>1 DEF Attributes, MaxAsdus
  <1>3. attr.noise \subseteq OtherFrames
    BY <1>1 DEF Attributes
  <1>4. Interval(attr) \in Nat \ {0} /\ NsPerUs =< Interval(attr)
    <2> DEFINE rate == attr.frequency * attr.samplesPerCycle
               us == UsPerSec \div rate
    <2>1. rate \in Nat
      BY <1>1, Products DEF Attributes
    <2>2. attr.frequency \in Nat \ {0} /\ attr.samplesPerCycle \in Nat \ {0}
      BY <1>1 DEF Attributes
    <2>3. rate # 0
      <3>1. PICK k \in Nat : attr.frequency = k + 1
        <4>1. attr.frequency - 1 \in Nat /\ attr.frequency = (attr.frequency - 1) + 1
          BY <2>2
        <4> QED
          BY <4>1
      <3>2. rate = k * attr.samplesPerCycle + attr.samplesPerCycle /\ k * attr.samplesPerCycle \in Nat
        BY <2>2, <3>1, Products
      <3> QED
        BY <2>2, <3>2
    <2>4. us \in Nat
      <3> HIDE DEF rate
      <3> QED
        BY <2>1, <2>3, StreamAssumption, Division
    <2>5. Interval(attr) = us * NsPerUs
      BY DEF Interval
    <2> HIDE DEF us
    <2>6. us # 0
      BY <1>1, <2>5, StreamAssumption
    <2>7. PICK k \in Nat : us = k + 1
      <3>1. us - 1 \in Nat /\ us = (us - 1) + 1
        BY <2>4, <2>6
      <3> QED
        BY <3>1
    <2>8. us * NsPerUs = k * NsPerUs + NsPerUs /\ k * NsPerUs \in Nat
      BY <2>7, StreamAssumption, Products
    <2> QED
      BY <2>5, <2>8, StreamAssumption
  <1> QED
    BY <1>2, <1>3, <1>4

\* The samples are taken in the order of their numbers, a microsecond or more apart.
LEMMA SampleTimes ==
  ASSUME TypeOK
  PROVE  /\ SampleTime(0) = 0
         /\ \A k \in Nat : SampleTime(k) \in Nat /\ SampleTime(k + 1) = SampleTime(k) + Interval(attr)
         /\ \A k, n \in Nat : k < n => SampleTime(k) + NsPerUs =< SampleTime(n)
         /\ \A k, n \in Nat : SampleTime(k) = SampleTime(n) => k = n
  <1>1. Interval(attr) \in Nat \ {0} /\ NsPerUs =< Interval(attr) /\ NsPerUs \in Nat \ {0}
    BY AttrTypes, StreamAssumption
  <1>2. SampleTime(0) = 0
    BY <1>1 DEF SampleTime
  <1>3. \A k \in Nat : SampleTime(k) \in Nat /\ SampleTime(k + 1) = SampleTime(k) + Interval(attr)
    BY <1>1, Products DEF SampleTime
  <1>4. \A k, n \in Nat : k < n => SampleTime(k) + NsPerUs =< SampleTime(n)
    <2> SUFFICES ASSUME NEW k \in Nat, NEW n \in Nat, k < n
                 PROVE  SampleTime(k) + NsPerUs =< SampleTime(n)
      OBVIOUS
    <2>1. SampleTime(k) + Interval(attr) =< SampleTime(n)
      BY <1>1, Products DEF SampleTime
    <2>2. SampleTime(k) \in Nat /\ SampleTime(n) \in Nat
      BY <1>3
    <2> QED
      BY <1>1, <2>1, <2>2
  <1>5. \A k, n \in Nat : SampleTime(k) = SampleTime(n) => k = n
    <2> SUFFICES ASSUME NEW k \in Nat, NEW n \in Nat, SampleTime(k) = SampleTime(n)
                 PROVE  k = n
      OBVIOUS
    <2>1. SampleTime(k) \in Nat /\ SampleTime(n) \in Nat
      BY <1>3
    <2>2. ~(k < n) /\ ~(n < k)
      BY <1>1, <1>4, <2>1
    <2> QED
      BY <2>2
  <1> QED
    BY <1>2, <1>3, <1>4, <1>5

\* The numbers of the samples of a message, and of two messages.
LEMMA Numbers ==
  ASSUME TypeOK, NEW m \in Nat \ {0}, NEW i \in 1 .. attr.samplesPerMessage
  PROVE  /\ Number(m, i) \in Nat
         /\ Number(m, i) = Number(m, 1) + (i - 1)
         /\ \A j \in 1 .. attr.samplesPerMessage : i < j => Number(m, i) < Number(m, j)
         /\ \A k \in Nat \ {0} : \A j \in 1 .. attr.samplesPerMessage :
                m < k => Number(m, i) < Number(k, j)
         /\ Number(m, i) = (m - 1) * attr.samplesPerMessage + (i - 1)
  <1> DEFINE n == attr.samplesPerMessage
  <1>1. n \in Nat \ {0} /\ i \in 1 .. n
    BY AttrTypes
  <1>2. \A k \in Nat \ {0}, j \in 1 .. n : Number(k, j) = (k - 1) * n + (j - 1)
    BY DEF Number
  <1> HIDE DEF n
  <1>3. \A k \in Nat \ {0} : k - 1 \in Nat /\ (k - 1) * n \in Nat
    <2> TAKE k \in Nat \ {0}
    <2>1. PICK x \in Nat : x = k - 1
      OBVIOUS
    <2>2. x * n \in Nat
      BY <1>1, <2>1, Products
    <2> QED
      BY <2>1, <2>2
  <1>4. Number(m, i) \in Nat /\ Number(m, i) = Number(m, 1) + (i - 1)
    <2>1. 1 \in 1 .. n
      BY <1>1
    <2>2. (m - 1) * n \in Nat
      BY <1>3
    <2>3. Number(m, i) = (m - 1) * n + (i - 1) /\ Number(m, 1) = (m - 1) * n + (1 - 1)
      BY <1>1, <1>2, <2>1
    <2> QED
      BY <1>1, <2>2, <2>3
  <1>5. ASSUME NEW j \in 1 .. n, i < j PROVE Number(m, i) < Number(m, j)
    <2>1. (m - 1) * n \in Nat
      BY <1>3
    <2>2. Number(m, i) = (m - 1) * n + (i - 1) /\ Number(m, j) = (m - 1) * n + (j - 1)
      BY <1>1, <1>2
    <2> QED
      BY <1>1, <1>5, <2>1, <2>2
  <1>6. ASSUME NEW k \in Nat \ {0}, NEW j \in 1 .. n, m < k PROVE Number(m, i) < Number(k, j)
    <2>1. PICK x \in Nat : x = m - 1
      OBVIOUS
    <2>2. PICK y \in Nat : y = k - 1
      OBVIOUS
    <2>3. x * n + n =< y * n /\ x * n \in Nat /\ y * n \in Nat
      BY <1>1, <1>6, <2>1, <2>2, Products
    <2>4. Number(m, i) = x * n + (i - 1) /\ Number(k, j) = y * n + (j - 1)
      BY <1>1, <1>2, <2>1, <2>2
    <2> QED
      BY <1>1, <2>3, <2>4
  <1> QED
    BY <1>1, <1>2, <1>4, <1>5, <1>6 DEF n

\* An ASDU of a message, and of the buffer before the first message, has its type.
LEMMA AsduTypes ==
  ASSUME TypeOK, NEW m \in Nat, NEW j \in 1 .. attr.samplesPerMessage
  PROVE  /\ AsduOf(m, j) \in Asdu
         /\ m # 0 => /\ AsduOf(m, j).val = SampleTime(Number(m, j))
                     /\ AsduOf(m, j).smpCnt = m % SmpCntLimit
                     /\ AsduOf(m, j).ts =
                            Timestamp_setTimeInNanoseconds(SampleTime(Number(m, j)))
                     /\ SampleTime(Number(m, j)) \in Nat
  <1>1. CASE m = 0
    <2>1. [secs |-> 0, frac |-> 0] \in Timestamp
      BY UtcTimeAssumption DEF Timestamp
    <2>2. 0 \in SmpCnt
      BY SvPublisherAssumption DEF SmpCnt
    <2> QED
      BY <1>1, <2>1, <2>2 DEF AsduOf, Blank, Asdu
  <1>2. CASE m # 0
    <2>1. SampleTime(Number(m, j)) \in Nat
      BY <1>2, Numbers, SampleTimes
    <2>2. Timestamp_setTimeInNanoseconds(SampleTime(Number(m, j))) \in Timestamp
      BY <2>1, TimestampRoundTrip
    <2>3. m % SmpCntLimit \in SmpCnt
      BY SvPublisherAssumption, Division DEF SmpCnt
    <2> QED
      BY <1>2, <2>1, <2>2, <2>3 DEF AsduOf, Asdu
  <1> QED
    BY <1>1, <1>2

\* The frames of the publisher: typed, told apart by their numbers and from the
\* frames of other senders.
LEMMA MessageFrames ==
  ASSUME TypeOK, NEW m \in Nat
  PROVE  /\ Message(m) \in Seq(Asdu) /\ Len(Message(m)) = attr.samplesPerMessage
         /\ \A j \in 1 .. attr.samplesPerMessage : Message(m)[j] = AsduOf(m, j)
         /\ FrameOf(m) \in Frames
         /\ FrameOf(m) \notin attr.noise
         /\ Matches(FrameOf(m)) /\ FrameOf(m).asdus = Message(m)
         /\ \A k \in Nat \ {0} : m # 0 /\ FrameOf(m) = FrameOf(k) => m = k
  <1> DEFINE n == attr.samplesPerMessage
  <1>1. n \in Nat \ {0}
    BY AttrTypes
  <1>2. \A k \in Nat : \A j \in 1 .. n : Message(k)[j] = AsduOf(k, j)
    BY DEF Message
  <1>3. Message(m) \in Seq(Asdu) /\ Len(Message(m)) = n
    <2>1. \A j \in 1 .. n : AsduOf(m, j) \in Asdu
      BY AsduTypes
    <2>2. Message(m) = [j \in 1 .. n |-> AsduOf(m, j)]
      BY DEF Message
    <2> HIDE DEF n
    <2> QED
      BY <1>1, <2>1, <2>2
  <1>4. FrameOf(m) = [etherType |-> "sv", appId |-> SvAppId, asdus |-> Message(m)]
    BY DEF FrameOf, Frame
  <1>5. FrameOf(m) \in Frames
    BY <1>3, <1>4, SvPublisherAssumption DEF Frames
  <1>6. FrameOf(m) \notin attr.noise
    BY <1>4, AttrTypes DEF OtherFrames
  <1>7. ASSUME NEW k \in Nat \ {0}, m # 0, FrameOf(m) = FrameOf(k) PROVE m = k
    <2>1. Message(m) = Message(k)
      BY <1>7 DEF FrameOf, Frame
    <2>2. 1 \in 1 .. n
      BY <1>1
    <2>3. AsduOf(m, 1) = AsduOf(k, 1)
      BY <1>2, <2>1, <2>2
    <2>4. SampleTime(Number(m, 1)) = SampleTime(Number(k, 1))
      <3>1. /\ AsduOf(m, 1).val = SampleTime(Number(m, 1))
            /\ AsduOf(k, 1).val = SampleTime(Number(k, 1))
        BY <1>7, <2>2, AsduTypes
      <3> QED
        BY <2>3, <3>1
    <2>5. Number(m, 1) \in Nat /\ Number(k, 1) \in Nat /\ Number(m, 1) = Number(k, 1)
      <3>1. Number(m, 1) \in Nat /\ Number(k, 1) \in Nat
        BY <1>7, <2>2, Numbers
      <3> QED
        BY <2>4, <3>1, SampleTimes
    <2>6. ~(m < k) /\ ~(k < m)
      <3>1. m < k => Number(m, 1) < Number(k, 1)
        BY <1>7, <2>2, Numbers
      <3>2. k < m => Number(k, 1) < Number(m, 1)
        BY <1>7, <2>2, Numbers
      <3> QED
        BY <2>5, <3>1, <3>2
    <2> QED
      BY <1>7, <2>6
  <1> QED
    BY <1>2, <1>3, <1>4, <1>5, <1>6, <1>7 DEF Matches

-----------------------------------------------------------------------------
\* A well-formed event list.
Fns == [name : FnNames, frame : Frames]

SimOK(s) == s \in Simulator(Fns) /\ \A e \in s.pending : e.uid < s.uid /\ s.now =< e.at

\* Taking the next event keeps the event list well-formed and sets the clock.
LEMMA DispatchOK ==
  ASSUME StreamInv, NEW e \in sim.pending, IsNext(sim, e)
  PROVE  /\ SimOK(sim) /\ SimOK(Dispatch(sim, e))
         /\ Dispatch(sim, e).now = e.at /\ e.at \in Nat
         /\ Dispatch(sim, e).uid = sim.uid /\ sim.uid \in Nat
         /\ Dispatch(sim, e).pending = sim.pending \ {e}
  <1>1. SimOK(sim)
    BY DEF StreamInv, TypeOK, Pending, SimOK, Fns
  <1> QED
    BY <1>1 DEF SimOK, Dispatch, Simulator, Event, IsNext, Precedes

\* Simulator::Schedule adds one event with a new identifier.
LEMMA ScheduleOK ==
  ASSUME NEW s, SimOK(s), NEW d \in Nat, NEW f \in Fns
  PROVE  /\ SimOK(Schedule(s, d, f))
         /\ Schedule(s, d, f).now = s.now
         /\ Schedule(s, d, f).uid = s.uid + 1
         /\ Schedule(s, d, f).pending =
                s.pending \cup {[at |-> s.now + d, uid |-> s.uid, fn |-> f]}
  <1> DEFINE new == [at |-> s.now + d, uid |-> s.uid, fn |-> f]
  <1>1. new \in Event(Fns) /\ new.uid = s.uid /\ s.now =< new.at
    BY DEF SimOK, Simulator, Event
  <1>2. /\ Schedule(s, d, f).now = s.now
        /\ Schedule(s, d, f).uid = s.uid + 1
        /\ Schedule(s, d, f).pending = s.pending \cup {new}
    BY DEF Schedule
  <1>3. Schedule(s, d, f) \in Simulator(Fns)
    BY <1>1 DEF Schedule, SimOK, Simulator
  <1> HIDE DEF new
  <1>4. SimOK(Schedule(s, d, f))
    BY <1>1, <1>2, <1>3 DEF SimOK, Simulator, Event
  <1> QED
    BY <1>2, <1>4 DEF new

\* The calls the applications schedule are typed.
LEMMA CallTypes ==
  /\ \A f \in FnNames : Call(f) \in Fns /\ Call(f).name = f
  /\ \A f \in Frames : Arrival(f) \in Fns /\ Arrival(f).name = "Receive" /\ Arrival(f).frame = f
  <1>1. NoFrame \in Frames
    <2>1. <<>> \in Seq(Asdu) /\ 0 \in Nat
      OBVIOUS
    <2> QED
      BY <2>1 DEF NoFrame, Frame, Frames
  <1>2. "Receive" \in FnNames
    BY DEF FnNames
  <1> QED
    BY <1>1, <1>2 DEF Call, Arrival, Fns

\* What depends on the attributes alone does not change.
LEMMA Frozen ==
  ASSUME attr' = attr
  PROVE  /\ Interval(attr)' = Interval(attr)
         /\ \A k \in Nat : SampleTime(k)' = SampleTime(k)
         /\ \A m \in Nat : /\ SentAt(m)' = SentAt(m)
                           /\ Message(m)' = Message(m)
                           /\ FrameOf(m)' = FrameOf(m)
         /\ \A m \in Nat, j \in Nat : AsduOf(m, j)' = AsduOf(m, j)
  BY DEF Interval, SampleTime, SentAt, Message, FrameOf, Frame, AsduOf, Number, SampleTime

\* Events other than StartPublisher leave it the first event until it has run.
LEMMA QuietStart ==
  ASSUME StreamInv, NEW e \in sim.pending, IsNext(sim, e), e.fn.name # "StartPublisher",
         sim'.now = e.at,
         \A f \in sim'.pending : f.fn.name \in {"StartPublisher", "StopPublisher"} => f \in sim.pending,
         \/ publisher # "created" /\ publisher' # "created"
         \/ /\ sim.pending \ {e} \subseteq sim'.pending
            /\ UNCHANGED <<publisher, sent, sampleIndex, taken>>
  PROVE  StartOnce'
  <1> DEFINE start == [at |-> 0, uid |-> 0, fn |-> Call("StartPublisher")]
  <1>1. /\ \A f \in sim.pending : f.fn.name = "StartPublisher" => f = start /\ publisher = "created"
        /\ \A f \in sim.pending : f.fn.name = "StopPublisher" => f.at > 0
        /\ publisher = "created" =>
                start \in sim.pending /\ sent = 0 /\ sampleIndex = 0 /\ taken = 0 /\ sim.now = 0
    BY DEF StreamInv, StartOnce
  <1>2. \A f \in sim'.pending : f.fn.name = "StopPublisher" => f.at > 0
    BY <1>1
  <1>3. \A f \in sim'.pending : f.fn.name = "StartPublisher" => f = start /\ publisher' = "created"
    BY <1>1
  <1>4. ASSUME publisher' = "created"
        PROVE  /\ start \in sim'.pending
               /\ sent' = 0 /\ sampleIndex' = 0 /\ taken' = 0 /\ sim'.now = 0
    <2>1. publisher = "created" /\ start \in sim.pending
      BY <1>1, <1>4
    <2>2. start.fn.name = "StartPublisher" /\ start.at = 0
      BY DEF Call
    <2>3. e # start
      BY <2>2
    <2>4. e.at \in Nat /\ ~(0 < e.at)
      <3>1. e.at \in Nat
        BY DispatchOK
      <3>2. Precedes(e, start)
        BY <2>1, <2>3 DEF IsNext
      <3> QED
        BY <3>1, <3>2, <2>2 DEF Precedes
    <2> QED
      BY <1>1, <1>4, <2>1, <2>3, <2>4
  <1> QED
    BY <1>2, <1>3, <1>4 DEF StartOnce

\* Without a new message the network keeps the order of the old ones.
LEMMA QuietNetwork ==
  ASSUME StreamInv, attr' = attr, sent' = sent,
         \A f \in sim'.pending : f.fn.name = "Receive" => f \in sim.pending
  PROVE  /\ Network'
         /\ \A m \in Nat : Behind(m) => Behind(m)'
  <1>1. sent \in Nat /\ Network
    BY DEF StreamInv, TypeOK
  <1>2. \A m \in 1 .. sent : m \in Nat
    BY <1>1
  <1>3. \A m \in 1 .. sent : SentAt(m)' = SentAt(m) /\ FrameOf(m)' = FrameOf(m)
    BY <1>2, Frozen
  <1>4. \A f \in sim'.pending : \A m \in 1 .. sent : Carries(f, m)' => Carries(f, m) /\ f \in sim.pending
    BY <1>3 DEF Carries
  <1>5. \A f \in sim.pending : \A m \in 1 .. sent : Carries(f, m) => Carries(f, m)'
    BY <1>3 DEF Carries
  <1>6. \A f \in sim'.pending : f.fn.name = "Receive" =>
            \/ f.fn.frame \in attr'.noise
            \/ \E m \in 1 .. sent', d \in Delays : Carries(f, m)' /\ f.at = SentAt(m)' + d
    BY <1>1, <1>3, <1>5 DEF Network
  <1>7. \A e, f \in sim'.pending : \A k, m \in 1 .. sent' :
            Carries(e, k)' /\ Carries(f, m)' => (k = m => e = f) /\ (k < m => Precedes(e, f))
    BY <1>1, <1>4 DEF Network
  <1>8. Network'
    BY <1>6, <1>7 DEF Network
  <1>9. \A m \in Nat : Behind(m) => Behind(m)'
    BY <1>4 DEF Behind
  <1> QED
    BY <1>8, <1>9

\* Between two messages the subscriber keeps what it saw.
LEMMA QuietSubscriber ==
  ASSUME StreamInv, rest = <<>>, rest' = <<>>, UNCHANGED <<attr, received, lastSample>>,
         sent' \in Nat, sent =< sent', \A m \in 1 .. sent : Behind(m) => Behind(m)'
  PROVE  Idle' /\ Busy'
  <1>1. sent \in Nat
    BY DEF StreamInv, TypeOK
  <1>2. attr.samplesPerMessage \in Nat \ {0}
    BY AttrTypes DEF StreamInv
  <1>3. received = 0 \/ (Count(0) /\ \E m \in 1 .. sent : Saw(m, attr.samplesPerMessage) /\ Behind(m))
    BY DEF StreamInv, Idle
  <1>4. ASSUME NEW m \in 1 .. sent, Saw(m, attr.samplesPerMessage)
        PROVE  Saw(m, attr.samplesPerMessage)'
    <2>1. m \in Nat /\ attr.samplesPerMessage \in Nat
      BY <1>1, <1>2
    <2>2. SentAt(m)' = SentAt(m) /\ AsduOf(m, attr.samplesPerMessage)' = AsduOf(m, attr.samplesPerMessage)
      BY <2>1, Frozen
    <2> QED
      BY <1>4, <2>2 DEF Saw, SampleOf
  <1>5. Count(0) => Count(0)'
    BY DEF Count
  <1>6. 1 .. sent \subseteq 1 .. sent'
    BY <1>1
  <1> QED
    BY <1>3, <1>4, <1>5, <1>6 DEF Idle, Busy

-----------------------------------------------------------------------------
\* The invariant holds before the applications start.
LEMMA InitInv == Init => StreamInv
  <1> SUFFICES ASSUME Init PROVE StreamInv
    OBVIOUS
  <1> DEFINE start == [at |-> 0, uid |-> 0, fn |-> Call("StartPublisher")]
             substart == [at |-> attr.subscriberStart, uid |-> 1, fn |-> Call("StartSubscriber")]
             stop == [at |-> attr.stopTime, uid |-> 2, fn |-> Call("StopPublisher")]
             substop == [at |-> attr.subscriberStop, uid |-> 3, fn |-> Call("StopSubscriber")]
             noise(f) == [at |-> NsPerUs, uid |-> 4, fn |-> Arrival(f)]
  <1>1. /\ attr \in Attributes /\ attr \in Attrs /\ Interval(attr) > 0
        /\ attr.stopTime \in Nat /\ attr.subscriberStart \in Nat /\ attr.subscriberStop \in Nat
        /\ attr.noise \subseteq Frames /\ attr.maxPackets \in 0 .. CountMod - 1
        /\ attr.samplesPerMessage \in 1 .. MaxAsdus
    BY StreamAssumption DEF Init, Attributes, OtherFrames
  <1>2. /\ sim.now = 0 /\ sim.uid = 5
        /\ sim.pending = {start, substart} \cup {e \in {stop, substop} : e.at # 0}
                            \cup {noise(f) : f \in attr.noise}
        /\ sim = [now |-> 0, uid |-> 5, pending |-> sim.pending]
    BY DEF Init
  <1>3. \A e \in sim.pending :
            e = start \/ e = substart \/ (e = stop /\ e.at # 0) \/ e = substop
                \/ \E f \in attr.noise : e = noise(f)
    BY <1>2
  <1>4. \A e \in sim.pending : e \in Event(Fns) /\ e.uid < 5 /\ 0 =< e.at
    <2> TAKE e \in sim.pending
    <2>1. CASE e = start
      BY <2>1, CallTypes DEF Event, FnNames
    <2>2. CASE e = substart
      BY <1>1, <2>2, CallTypes DEF Event, FnNames
    <2>3. CASE e = stop
      BY <1>1, <2>3, CallTypes DEF Event, FnNames
    <2>4. CASE e = substop
      BY <1>1, <2>4, CallTypes DEF Event, FnNames
    <2>5. ASSUME NEW f \in attr.noise, e = noise(f) PROVE e \in Event(Fns) /\ e.uid < 5 /\ 0 =< e.at
      BY <1>1, <2>5, CallTypes, StreamAssumption DEF Event
    <2> QED
      BY <1>3, <2>1, <2>2, <2>3, <2>4, <2>5
  <1>5. /\ \A e \in sim.pending : e.fn.name = "StartPublisher" => e = start
        /\ \A e \in sim.pending : e.fn.name = "StopPublisher" => e.at # 0
        /\ \A e \in sim.pending : e.fn.name # "Measure"
        /\ \A e \in sim.pending : e.fn.name = "Receive" => e.fn.frame \in attr.noise
    BY <1>3 DEF Call, Arrival
  <1>6. start \in sim.pending
    BY <1>2
  <1> HIDE DEF start, substart, stop, substop, noise
  <1>7. TypeOK
    <2>1. sim \in Simulator(Fns)
      BY <1>2, <1>4 DEF Simulator
    <2>2. svPublisher \in SVPublisher
      BY DEF Init, SVPublisher, SVPublisher_create
    <2>3. lastSample \in [sampleTimestamp : Nat, receivedTimestamp : Nat, smpCnt : SmpCnt, val : Nat]
      BY SvPublisherAssumption DEF Init, NoSample, SmpCnt
    <2> QED
      BY <1>1, <2>1, <2>2, <2>3 DEF TypeOK, Init, Fns, MaxAsdus
  <1>8. StartOnce
    <2>1. \A e \in sim.pending : e.fn.name = "StopPublisher" => e.at > 0
      BY <1>4, <1>5 DEF Event
    <2> QED
      BY <1>2, <1>5, <1>6, <2>1 DEF StartOnce, Init, start
  <1>9. Pending
    BY <1>2, <1>4 DEF Pending
  <1>10. Chain
    <2>1. Measures = {}
      BY <1>5 DEF Measures
    <2>2. attr.samplesPerMessage \in Nat \ {0}
      BY <1>7, AttrTypes
    <2>3. taken = 0 /\ sent = 0 /\ sampleIndex = 0 /\ publisher = "created"
      BY DEF Init
    <2>4. 0 * attr.samplesPerMessage + 0 = 0 /\ 0 < attr.samplesPerMessage
      BY <2>2
    <2> QED
      BY <2>1, <2>3, <2>4 DEF Chain
  <1>11. Buffer
    BY DEF Buffer, Init
  <1>12. Network
    <2>1. sent = 0 /\ 1 .. 0 = {}
      BY DEF Init
    <2> QED
      BY <1>5, <2>1 DEF Network
  <1>13. Idle /\ Busy
    BY DEF Idle, Busy, Init
  <1> QED
    BY <1>7, <1>8, <1>9, <1>10, <1>11, <1>12, <1>13 DEF StreamInv

-----------------------------------------------------------------------------
\* StartPublisher runs as the first event: the buffer is laid out, blank, and
\* the first call of Measure is due at once.
LEMMA StartPublisherInv == StreamInv /\ StartPublisher => StreamInv'
  <1> SUFFICES ASSUME StreamInv, StartPublisher PROVE StreamInv'
    OBVIOUS
  <1>1. PICK e \in sim.pending : StartPublisher!(e)
    BY DEF StartPublisher
  <1> DEFINE s == Dispatch(sim, e)
             n == attr.samplesPerMessage
             measure == [at |-> s.now + 0, uid |-> s.uid, fn |-> Call("Measure")]
  <1>2. rest = <<>> /\ IsNext(sim, e) /\ e.fn.name = "StartPublisher"
    BY <1>1 DEF Runs
  <1>3. /\ publisher = "created" /\ e.at = 0 /\ sent = 0 /\ sampleIndex = 0 /\ taken = 0
        /\ \A f \in sim.pending : f.fn.name = "StartPublisher" => f = e
        /\ \A f \in sim.pending : f.fn.name = "StopPublisher" => f.at > 0
    BY <1>2 DEF StreamInv, StartOnce
  <1>4. /\ SimOK(s) /\ s.now = 0 /\ s.uid = sim.uid /\ sim.uid \in Nat
        /\ s.pending = sim.pending \ {e}
    BY <1>2, <1>3, DispatchOK
  <1>5. /\ publisher' = "running" /\ sent' = 0 /\ sampleIndex' = 0 /\ taken' = 0
        /\ svPublisher' = WithAsdus(n)
        /\ count' = IF count = 0 THEN CountMod - 1 ELSE count
        /\ sim' = Schedule(s, 0, Call("Measure")) /\ eventId' = s.uid
        /\ UNCHANGED <<attr, subscriber, rest, received, lastSample>>
    BY <1>1, <1>3 DEF subVars
  <1> HIDE DEF s
  <1>6. /\ SimOK(sim') /\ sim'.now = 0
        /\ sim'.pending = s.pending \cup {measure}
    <2>1. Call("Measure") \in Fns /\ 0 \in Nat
      BY CallTypes DEF FnNames
    <2> QED
      BY <1>4, <1>5, <2>1, ScheduleOK, SMTT(30)
  <1>7. measure.fn.name = "Measure" /\ measure.uid = eventId' /\ measure.at = 0
    BY <1>4, <1>5 DEF Call
  <1> HIDE DEF measure
  <1>8. n \in 1 .. MaxAsdus /\ n \in Nat \ {0}
    BY AttrTypes DEF StreamInv
  <1>9. /\ svPublisher' = [asduList |-> [j \in 1 .. n |-> 0], buffer |-> [j \in 1 .. n |-> Blank]]
        /\ svPublisher' \in SVPublisher
        /\ Len(svPublisher'.buffer) = n
    <2> HIDE DEF n
    <2>1. <<>> \o [j \in 1 .. n |-> 0] = [j \in 1 .. n |-> 0] /\ Len([j \in 1 .. n |-> 0]) = n
      BY <1>8
    <2>2. SVPublisher_addASDUs(SVPublisher_create, n) = [asduList |-> [j \in 1 .. n |-> 0], buffer |-> <<>>]
      <3> DEFINE zeros == [j \in 1 .. n |-> 0]
      <3>1. <<>> \o zeros = zeros
        BY <2>1
      <3> HIDE DEF zeros
      <3>2. PICK p : p = SVPublisher_create
        OBVIOUS
      <3>3. p = [asduList |-> <<>>, buffer |-> <<>>]
        BY <3>2 DEF SVPublisher_create
      <3>4. PICK w : w = <<>> \o zeros
        OBVIOUS
      <3>5. SVPublisher_addASDUs(p, n) = [p EXCEPT !.asduList = w]
        BY <3>3, <3>4 DEF SVPublisher_addASDUs, zeros
      <3>6. [p EXCEPT !.asduList = w] = [asduList |-> w, buffer |-> <<>>]
        BY <3>3
      <3> QED
        BY <3>1, <3>2, <3>4, <3>5, <3>6 DEF zeros
    <2>3. svPublisher' = [asduList |-> [j \in 1 .. n |-> 0], buffer |-> [j \in 1 .. n |-> Blank]]
      <3> DEFINE zeros == [j \in 1 .. n |-> 0]
      <3>1. Len(zeros) = n /\ \A j \in 1 .. n : zeros[j] = 0
        BY <2>1
      <3> HIDE DEF zeros
      <3>2. SVPublisher_setupComplete([asduList |-> zeros, buffer |-> <<>>])
                = [asduList |-> zeros, buffer |-> [j \in 1 .. n |-> Blank]]
        BY <3>1 DEF SVPublisher_setupComplete, Blank
      <3> QED
        BY <1>5, <2>2, <3>2 DEF WithAsdus, zeros
    <2>4. Blank \in Asdu /\ 0 \in SmpCnt
      BY UtcTimeAssumption, SvPublisherAssumption DEF Blank, Asdu, Timestamp, SmpCnt
    <2>5. [j \in 1 .. n |-> 0] \in Seq(SmpCnt) /\ [j \in 1 .. n |-> Blank] \in Seq(Asdu)
      BY <1>8, <2>4
    <2>6. svPublisher' \in SVPublisher
      BY <2>3, <2>5 DEF SVPublisher
    <2>7. Len([j \in 1 .. n |-> Blank]) = n
      BY <1>8
    <2> QED
      BY <2>3, <2>6, <2>7
  <1> HIDE DEF n
  <1>10. TypeOK'
    <2>1. count' \in 0 .. CountMod - 1
      BY <1>5, StreamAssumption DEF StreamInv, TypeOK
    <2>2. eventId' \in Nat
      BY <1>4, <1>5
    <2>3. sampleIndex' \in 0 .. MaxAsdus - 1 /\ sampleIndex' < Len(svPublisher'.buffer)
      BY <1>5, <1>8, <1>9 DEF MaxAsdus
    <2> QED
      BY <1>5, <1>6, <1>9, <2>1, <2>2, <2>3 DEF StreamInv, TypeOK, SimOK, Fns
  <1>11. StartOnce'
    <2>1. \A f \in sim'.pending : f = measure \/ (f \in sim.pending /\ f # e)
      BY <1>4, <1>6
    <2> QED
      BY <1>3, <1>5, <1>7, <2>1 DEF StartOnce
  <1>12. Pending'
    BY <1>6 DEF Pending, SimOK
  <1>13. Chain'
    <2>1. Measures = {}
      BY <1>3 DEF StreamInv, Chain
    <2>2. Measures' = {measure}
      BY <1>2, <1>4, <1>6, <1>7, <2>1 DEF Measures
    <2>3. SampleTime(0)' = SampleTime(0) /\ SampleTime(0) = 0
      BY <1>5, Frozen, SampleTimes DEF StreamInv
    <2>4. attr'.samplesPerMessage = n
      BY <1>5 DEF n
    <2>5. 0 = 0 * n + 0 /\ 0 < n
      BY <1>8
    <2>6. SampleTime(taken)' = 0
      BY <1>5, <2>3
    <2> QED
      BY <1>5, <1>7, <2>2, <2>4, <2>5, <2>6 DEF Chain
  <1>14. Buffer'
    <2>1. \A j \in 1 .. n : Latest(j)' = 0
      BY <1>5, <1>8 DEF Latest
    <2>2. 0 % SmpCntLimit = 0
      <3>1. 0 * SmpCntLimit + 0 = 0 /\ 0 \in 0 .. SmpCntLimit - 1
        BY SvPublisherAssumption
      <3> QED
        BY <3>1, SvPublisherAssumption, DivisionUnique
    <2>3. \A j \in 1 .. n : Latest(j)' % SmpCntLimit = 0 /\ AsduOf(Latest(j), j)' = Blank
      BY <2>1, <2>2 DEF AsduOf
    <2>4. attr'.samplesPerMessage = n
      BY <1>5 DEF n
    <2> QED
      BY <1>9, <2>3, <2>4 DEF Buffer
  <1>15. \A f \in sim'.pending : f.fn.name = "Receive" => f \in sim.pending
    BY <1>4, <1>6, <1>7
  <1>16. Network' /\ \A m \in Nat : Behind(m) => Behind(m)'
    BY <1>3, <1>5, <1>15, QuietNetwork
  <1>17. Idle' /\ Busy'
    <2>1. \A m \in 1 .. sent : Behind(m) => Behind(m)'
      BY <1>3, <1>16
    <2> QED
      BY <1>2, <1>3, <1>5, <2>1, QuietSubscriber
  <1> QED
    BY <1>10, <1>11, <1>12, <1>13, <1>14, <1>16, <1>17 DEF StreamInv

\* A publisher that was set up with n ASDUs.
Complete(n) == [asduList : [1 .. n -> SmpCnt], buffer : [1 .. n -> Asdu]]

\* The functions of the library that write to ASDU j leave the other ASDUs alone.
LEMMA SetFloat ==
  ASSUME NEW n \in Nat, NEW j \in 1 .. n, NEW self \in Complete(n), NEW v \in Nat
  PROVE  LET p == SVPublisher_ASDU_setFLOAT(self, j, v)
         IN  /\ p \in Complete(n) /\ p.asduList = self.asduList
             /\ p.buffer[j] = [smpCnt |-> self.buffer[j].smpCnt, val |-> v, ts |-> self.buffer[j].ts]
             /\ \A i \in 1 .. n : i # j => p.buffer[i] = self.buffer[i]
  <1> DEFINE r == [self.buffer[j] EXCEPT !.val = v]
             b == [self.buffer EXCEPT ![j] = r]
  <1>1. SVPublisher_ASDU_setFLOAT(self, j, v) = [self EXCEPT !.buffer = b]
    BY DEF SVPublisher_ASDU_setFLOAT
  <1>2. r = [smpCnt |-> self.buffer[j].smpCnt, val |-> v, ts |-> self.buffer[j].ts] /\ r \in Asdu
    BY DEF Complete, Asdu
  <1> HIDE DEF r
  <1>3. b \in [1 .. n -> Asdu] /\ b[j] = r /\ \A i \in 1 .. n : i # j => b[i] = self.buffer[i]
    BY <1>2 DEF Complete
  <1> HIDE DEF b
  <1> QED
    BY <1>1, <1>2, <1>3 DEF Complete

\* SVPublisher_ASDU_setTimestamp writes the time of one ASDU and nothing else.
LEMMA SetTimestamp ==
  ASSUME NEW n \in Nat, NEW j \in 1 .. n, NEW self \in Complete(n), NEW t \in Timestamp
  PROVE  LET p == SVPublisher_ASDU_setTimestamp(self, j, t)
         IN  /\ p \in Complete(n) /\ p.asduList = self.asduList
             /\ p.buffer[j] = [smpCnt |-> self.buffer[j].smpCnt, val |-> self.buffer[j].val, ts |-> t]
             /\ \A i \in 1 .. n : i # j => p.buffer[i] = self.buffer[i]
  <1> DEFINE r == [self.buffer[j] EXCEPT !.ts = t]
             b == [self.buffer EXCEPT ![j] = r]
  <1>1. SVPublisher_ASDU_setTimestamp(self, j, t) = [self EXCEPT !.buffer = b]
    BY DEF SVPublisher_ASDU_setTimestamp
  <1>2. r = [smpCnt |-> self.buffer[j].smpCnt, val |-> self.buffer[j].val, ts |-> t] /\ r \in Asdu
    BY DEF Complete, Asdu
  <1> HIDE DEF r
  <1>3. b \in [1 .. n -> Asdu] /\ b[j] = r /\ \A i \in 1 .. n : i # j => b[i] = self.buffer[i]
    BY <1>2 DEF Complete
  <1> HIDE DEF b
  <1> QED
    BY <1>1, <1>2, <1>3 DEF Complete

\* The counter of ASDU j is increased in the list and in the buffer.
LEMMA IncreaseSmpCnt ==
  ASSUME NEW n \in Nat, NEW j \in 1 .. n, NEW self \in Complete(n)
  PROVE  LET p == SVPublisher_ASDU_increaseSmpCnt(self, j)
             c == (self.asduList[j] + 1) % SmpCntLimit
         IN  /\ p \in Complete(n) /\ p.asduList[j] = c
             /\ p.buffer[j] = [smpCnt |-> c, val |-> self.buffer[j].val, ts |-> self.buffer[j].ts]
             /\ \A i \in 1 .. n : i # j => /\ p.buffer[i] = self.buffer[i]
                                           /\ p.asduList[i] = self.asduList[i]
  <1> DEFINE c == (self.asduList[j] + 1) % SmpCntLimit
             r == [self.buffer[j] EXCEPT !.smpCnt = c]
             b == [self.buffer EXCEPT ![j] = r]
             a == [self.asduList EXCEPT ![j] = c]
  <1>1. c \in SmpCnt
    <2>1. self.asduList[j] \in SmpCnt
      BY DEF Complete
    <2>2. PICK x \in Nat : x = self.asduList[j] + 1
      BY <2>1, SvPublisherAssumption DEF SmpCnt
    <2>3. SmpCntLimit \in Nat \ {0}
      BY SvPublisherAssumption
    <2> QED
      BY <2>2, <2>3, Division DEF SmpCnt
  <1>2. self.buffer # <<>>
    <2>1. DOMAIN self.buffer = 1 .. n /\ DOMAIN <<>> = {}
      BY DEF Complete
    <2> QED
      BY <2>1
  <1>3. SVPublisher_ASDU_increaseSmpCnt(self, j) = [asduList |-> a, buffer |-> b]
    BY <1>2 DEF SVPublisher_ASDU_increaseSmpCnt, SetSmpCnt
  <1> HIDE DEF c
  <1>4. r = [smpCnt |-> c, val |-> self.buffer[j].val, ts |-> self.buffer[j].ts] /\ r \in Asdu
    BY <1>1 DEF Complete, Asdu
  <1> HIDE DEF r
  <1>5. b \in [1 .. n -> Asdu] /\ b[j] = r /\ \A i \in 1 .. n : i # j => b[i] = self.buffer[i]
    BY <1>4 DEF Complete
  <1>6. a \in [1 .. n -> SmpCnt] /\ a[j] = c /\ \A i \in 1 .. n : i # j => a[i] = self.asduList[i]
    BY <1>1 DEF Complete
  <1> HIDE DEF b, a
  <1> QED
    BY <1>3, <1>4, <1>5, <1>6 DEF Complete, c

\* What Measure writes: the ASDU behind the ones of message sent + 1 becomes
\* the next one of them.
Written(i) == IF i =< sampleIndex + 1 THEN sent + 1 ELSE sent

\* What Measure leaves in the buffer: the sample it took and those before it belong to
\* the message under construction, those behind it still to the message sent last.
LEMMA SampledBuffer ==
  ASSUME StreamInv, publisher # "created"
  PROVE  LET p == Sampled(svPublisher, sampleIndex + 1, SampleTime(taken))
             n == attr.samplesPerMessage
         IN  /\ p.asduList = [i \in 1 .. n |-> Written(i) % SmpCntLimit]
             /\ p.buffer = [i \in 1 .. n |-> AsduOf(Written(i), i)]
             /\ p \in SVPublisher
             /\ Len(p.buffer) = n
  <1> DEFINE n == attr.samplesPerMessage
             j == sampleIndex + 1
             A == svPublisher.asduList
             B == svPublisher.buffer
             now == SampleTime(taken)
             ts == Timestamp_setTimeInNanoseconds(now)
             p1 == SVPublisher_ASDU_setFLOAT(svPublisher, j, now)
             p2 == SVPublisher_ASDU_increaseSmpCnt(p1, j)
             p == SVPublisher_ASDU_setTimestamp(p2, j, ts)
  <1>1. n \in Nat \ {0} /\ sent \in Nat /\ sampleIndex \in Nat /\ sampleIndex < n
    BY AttrTypes DEF StreamInv, TypeOK, Chain
  <1>2. j \in 1 .. n /\ n \in Nat
    BY <1>1
  <1>3. /\ A = [i \in 1 .. n |-> Latest(i) % SmpCntLimit]
        /\ B = [i \in 1 .. n |-> AsduOf(Latest(i), i)]
        /\ svPublisher = [asduList |-> A, buffer |-> B]
    BY DEF StreamInv, Buffer, TypeOK, SVPublisher
  <1>4. Latest(j) = sent /\ \A i \in 1 .. n : i # j => Latest(i) = Written(i)
    BY <1>1, <1>2 DEF Latest, Written
  <1>5. Written(j) = sent + 1 /\ \A i \in 1 .. n : Written(i) \in Nat /\ Latest(i) \in Nat
    BY <1>1, <1>2 DEF Written, Latest
  <1>6. taken = Number(sent + 1, j) /\ sent + 1 \in Nat \ {0}
    <2>1. taken = sent * n + sampleIndex
      BY DEF StreamInv, Chain
    <2>2. Number(sent + 1, j) = (sent + 1 - 1) * n + (j - 1)
      BY <1>1 DEF Number
    <2>3. sent + 1 - 1 = sent /\ j - 1 = sampleIndex
      BY <1>1
    <2> QED
      BY <1>1, <2>1, <2>2, <2>3
  <1>7. /\ now \in Nat /\ ts \in Timestamp
        /\ AsduOf(sent + 1, j) = [smpCnt |-> (sent + 1) % SmpCntLimit, val |-> now, ts |-> ts]
    <2>1. Number(sent + 1, j) \in Nat
      BY <1>2, <1>6, Numbers DEF StreamInv
    <2>2. now \in Nat
      BY <1>6, <2>1, SampleTimes DEF StreamInv
    <2>3. ts \in Timestamp
      <3> HIDE DEF now
      <3> QED
        BY <2>2, TimestampRoundTrip
    <2> QED
      BY <1>6, <2>2, <2>3 DEF AsduOf
  <1>8. svPublisher \in Complete(n)
    <2>1. \A i \in 1 .. n : AsduOf(Latest(i), i) \in Asdu
      BY <1>5, AsduTypes DEF StreamInv
    <2>2. \A i \in 1 .. n : Latest(i) % SmpCntLimit \in SmpCnt
      <3>1. \A x \in Nat : x % SmpCntLimit \in SmpCnt
        BY SvPublisherAssumption, Division DEF SmpCnt
      <3> QED
        BY <1>5, <3>1
    <2> HIDE DEF n
    <2>3. A \in [1 .. n -> SmpCnt] /\ B \in [1 .. n -> Asdu]
      BY <1>3, <2>1, <2>2
    <2>4. svPublisher \in [asduList : Seq(SmpCnt), buffer : Seq(Asdu)]
      BY DEF StreamInv, TypeOK, SVPublisher
    <2>5. \A q \in [asduList : Seq(SmpCnt), buffer : Seq(Asdu)] :
            q.asduList \in [1 .. n -> SmpCnt] /\ q.buffer \in [1 .. n -> Asdu] => q \in Complete(n)
      BY DEF Complete
    <2> QED
      BY <2>3, <2>4, <2>5
  <1> HIDE DEF n, j, now, ts
  <1>9. /\ p1 \in Complete(n) /\ p1.asduList = A /\ p1.buffer[j].val = now
        /\ \A i \in 1 .. n : i # j => p1.buffer[i] = B[i]
    <2>1. /\ p1 \in Complete(n) /\ p1.asduList = svPublisher.asduList
          /\ p1.buffer[j] = [smpCnt |-> svPublisher.buffer[j].smpCnt, val |-> now,
                             ts |-> svPublisher.buffer[j].ts]
          /\ \A i \in 1 .. n : i # j => p1.buffer[i] = svPublisher.buffer[i]
      BY <1>2, <1>7, <1>8, SetFloat
    <2> HIDE DEF p1
    <2> QED
      BY <2>1
  <1> HIDE DEF p1
  <1>10. /\ p2 \in Complete(n) /\ p2.asduList[j] = (A[j] + 1) % SmpCntLimit
         /\ p2.buffer[j].smpCnt = (A[j] + 1) % SmpCntLimit /\ p2.buffer[j].val = now
         /\ \A i \in 1 .. n : i # j => p2.buffer[i] = B[i] /\ p2.asduList[i] = A[i]
    <2>1. /\ p2 \in Complete(n) /\ p2.asduList[j] = (p1.asduList[j] + 1) % SmpCntLimit
          /\ p2.buffer[j] = [smpCnt |-> (p1.asduList[j] + 1) % SmpCntLimit,
                             val |-> p1.buffer[j].val, ts |-> p1.buffer[j].ts]
          /\ \A i \in 1 .. n : i # j => /\ p2.buffer[i] = p1.buffer[i]
                                        /\ p2.asduList[i] = p1.asduList[i]
      BY <1>2, <1>9, IncreaseSmpCnt
    <2> HIDE DEF p2, A, B
    <2> QED
      BY <1>9, <2>1
  <1> HIDE DEF p2
  <1>11. /\ p \in Complete(n) /\ p.asduList = p2.asduList
         /\ p.buffer[j] = [smpCnt |-> (A[j] + 1) % SmpCntLimit, val |-> now, ts |-> ts]
         /\ \A i \in 1 .. n : i # j => p.buffer[i] = B[i]
    <2>1. /\ p \in Complete(n) /\ p.asduList = p2.asduList
          /\ p.buffer[j] = [smpCnt |-> p2.buffer[j].smpCnt, val |-> p2.buffer[j].val, ts |-> ts]
          /\ \A i \in 1 .. n : i # j => p.buffer[i] = p2.buffer[i]
      BY <1>2, <1>7, <1>10, SetTimestamp
    <2> HIDE DEF p, A, B
    <2> QED
      BY <1>10, <2>1
  <1>12. (A[j] + 1) % SmpCntLimit = (sent + 1) % SmpCntLimit
    <2>1. A[j] = sent % SmpCntLimit
      BY <1>2, <1>3, <1>4
    <2>2. SmpCntLimit \in Nat \ {0}
      BY SvPublisherAssumption
    <2>3. ((sent % SmpCntLimit) + 1) % SmpCntLimit = (sent + 1) % SmpCntLimit
      BY <1>1, <2>2, Remainders
    <2> HIDE DEF A
    <2> QED
      BY <2>1, <2>3
  <1>13. Sampled(svPublisher, j, now) = p
    BY DEF Sampled, p1, p2, p, ts
  <1> HIDE DEF A, B, p
  <1>14. p.asduList = [i \in 1 .. n |-> Written(i) % SmpCntLimit]
    <2>1. p.asduList \in [1 .. n -> SmpCnt]
      BY <1>11 DEF Complete
    <2>2. \A i \in 1 .. n : p.asduList[i] = Written(i) % SmpCntLimit
      BY <1>2, <1>3, <1>4, <1>5, <1>10, <1>11, <1>12
    <2> QED
      BY <2>1, <2>2
  <1>15. p.buffer = [i \in 1 .. n |-> AsduOf(Written(i), i)]
    <2>1. p.buffer \in [1 .. n -> Asdu]
      BY <1>11 DEF Complete
    <2>2. \A i \in 1 .. n : p.buffer[i] = AsduOf(Written(i), i)
      BY <1>2, <1>3, <1>4, <1>5, <1>7, <1>11, <1>12
    <2> QED
      BY <2>1, <2>2
  <1>16. p \in SVPublisher /\ Len(p.buffer) = n
    <2>1. p \in [asduList : Seq(SmpCnt), buffer : Seq(Asdu)] /\ Len(p.buffer) = n
      BY <1>2, <1>11 DEF Complete
    <2> QED
      BY <2>1 DEF SVPublisher
  <1> QED
    BY <1>13, <1>14, <1>15, <1>16 DEF n, j, now

-----------------------------------------------------------------------------
\* The call of Measure that runs is the only one, at the time of its sample.
LEMMA MeasureRuns ==
  ASSUME StreamInv, NEW e \in sim.pending, Runs(e, "Measure")
  PROVE  /\ publisher = "running" /\ e.at = SampleTime(taken) /\ Measures = {e}
         /\ rest = <<>> /\ IsNext(sim, e) /\ e.fn.name = "Measure"
         /\ taken \in Nat /\ SampleTime(taken) \in Nat
  <1>1. rest = <<>> /\ IsNext(sim, e) /\ e.fn.name = "Measure"
    BY DEF Runs
  <1>2. e \in Measures
    BY <1>1 DEF Measures
  <1>3. publisher = "running" /\ e.at = SampleTime(taken) /\ Measures = {e}
    BY <1>2 DEF StreamInv, Chain
  <1>4. taken \in Nat
    BY DEF StreamInv, TypeOK
  <1>5. SampleTime(taken) \in Nat
    BY <1>4, SampleTimes DEF StreamInv
  <1> QED
    BY <1>1, <1>3, <1>4, <1>5

\* With the quota used up Measure returns: nothing is pending of it.
LEMMA ExhaustedInv ==
  ASSUME StreamInv, NEW e \in sim.pending, Runs(e, "Measure"), Exhausted(Dispatch(sim, e)),
         UNCHANGED <<attr, subVars>>
  PROVE  StreamInv'
  <1>1. /\ publisher = "running" /\ e.at = SampleTime(taken) /\ Measures = {e}
        /\ rest = <<>> /\ IsNext(sim, e) /\ e.fn.name = "Measure"
    BY MeasureRuns
  <1>2. /\ count = 0 /\ sim' = Dispatch(sim, e)
        /\ UNCHANGED <<publisher, svPublisher, count, sent, sampleIndex, eventId, taken>>
        /\ UNCHANGED <<attr, subscriber, rest, received, lastSample>>
    BY DEF Exhausted, pubVars, subVars
  <1>3. SimOK(sim') /\ sim'.now = e.at /\ sim'.pending = sim.pending \ {e}
    BY <1>1, <1>2, DispatchOK
  <1>4. TypeOK'
    BY <1>2, <1>3 DEF StreamInv, TypeOK, SimOK, Fns
  <1>5. StartOnce'
    BY <1>1, <1>2, <1>3, QuietStart
  <1>6. Pending'
    BY <1>3 DEF Pending, SimOK
  <1>7. Chain'
    <2>1. Measures' = {}
      BY <1>1, <1>3 DEF Measures
    <2> QED
      BY <1>2, <2>1 DEF StreamInv, Chain
  <1>8. Buffer'
    BY <1>2 DEF StreamInv, Buffer, Latest, AsduOf, Number, SampleTime, Interval
  <1>9. Network' /\ \A m \in Nat : Behind(m) => Behind(m)'
    BY <1>2, <1>3, QuietNetwork
  <1>10. Idle' /\ Busy'
    <2>1. sent \in Nat
      BY DEF StreamInv, TypeOK
    <2> QED
      BY <1>1, <1>2, <1>9, <2>1, QuietSubscriber
  <1> QED
    BY <1>4, <1>5, <1>6, <1>7, <1>8, <1>9, <1>10 DEF StreamInv

\* Measure schedules its next call an interval later, behind the frame it sent if any.
LEMMA NextMeasure ==
  ASSUME StreamInv, NEW e \in sim.pending, Runs(e, "Measure"),
         NEW net, SimOK(net), net.now = e.at,
         \A f \in net.pending : f.fn.name = "Measure" => f \in sim.pending \ {e},
         sim' = Schedule(net, Interval(attr), Call("Measure")), eventId' = net.uid,
         UNCHANGED <<attr, publisher>>, taken' = taken + 1
  PROVE  /\ SimOK(sim') /\ sim'.now = e.at
         /\ \E f : /\ sim'.pending = net.pending \cup {f}
                   /\ f.fn.name = "Measure"
         /\ \A f, g \in Measures' : f = g
         /\ \A f \in Measures' : publisher' = "running" /\ f.uid = eventId' /\ f.at = SampleTime(taken)'
         /\ Measures' # {}
         /\ eventId' \in Nat /\ taken' \in Nat
  <1> DEFINE new == [at |-> net.now + Interval(attr), uid |-> net.uid, fn |-> Call("Measure")]
  <1>1. /\ publisher = "running" /\ e.at = SampleTime(taken) /\ Measures = {e}
        /\ taken \in Nat /\ SampleTime(taken) \in Nat
    BY MeasureRuns
  <1>2. Call("Measure") \in Fns /\ Interval(attr) \in Nat
    <2>1. Call("Measure") \in Fns
      BY CallTypes DEF FnNames
    <2> QED
      BY <2>1, AttrTypes DEF StreamInv
  <1>3. SimOK(sim') /\ sim'.now = e.at /\ sim'.pending = net.pending \cup {new}
    BY <1>2, ScheduleOK
  <1>4. new.fn.name = "Measure" /\ new.uid = eventId' /\ new.at = SampleTime(taken)'
    <2>1. SampleTime(taken + 1) = SampleTime(taken) + Interval(attr)
      BY <1>1, SampleTimes DEF StreamInv
    <2>2. SampleTime(taken)' = SampleTime(taken + 1)
      BY DEF SampleTime, Interval
    <2> QED
      BY <1>1, <2>1, <2>2 DEF Call
  <1>5. eventId' \in Nat /\ taken' \in Nat
    BY <1>1 DEF SimOK, Simulator
  <1> HIDE DEF new
  <1>6. Measures' = {new}
    <2>1. \A f \in net.pending : f.fn.name # "Measure"
      BY <1>1 DEF Measures
    <2> QED
      BY <1>3, <1>4, <2>1 DEF Measures
  <1> QED
    BY <1>1, <1>3, <1>4, <1>5, <1>6

\* A sample that does not complete a message is written and nothing is sent.
LEMMA StoreSampleInv ==
  ASSUME StreamInv, NEW e \in sim.pending, Runs(e, "Measure"), StoreSample(Dispatch(sim, e)),
         taken' = taken + 1, UNCHANGED <<attr, publisher, subVars>>
  PROVE  StreamInv'
  <1> DEFINE s == Dispatch(sim, e)
             n == attr.samplesPerMessage
             p == Sampled(svPublisher, sampleIndex + 1, SampleTime(taken))
  <1>1. /\ publisher = "running" /\ e.at = SampleTime(taken) /\ Measures = {e}
        /\ rest = <<>> /\ IsNext(sim, e) /\ e.fn.name = "Measure"
    BY MeasureRuns
  <1>2. SimOK(s) /\ s.now = e.at /\ s.pending = sim.pending \ {e}
    BY <1>1, DispatchOK
  <1>3. /\ sampleIndex + 1 # n
        /\ svPublisher' = Sampled(svPublisher, sampleIndex + 1, s.now)
        /\ sampleIndex' = (sampleIndex + 1) % 256
        /\ sim' = Schedule(s, Interval(attr), Call("Measure"))
        /\ eventId' = s.uid
        /\ UNCHANGED <<count, sent, attr, publisher, subscriber, rest, received, lastSample>>
    BY DEF StoreSample, subVars
  <1> HIDE DEF s
  <1>4. /\ SimOK(sim') /\ sim'.now = e.at
        /\ \E f : sim'.pending = s.pending \cup {f} /\ f.fn.name = "Measure"
        /\ \A f, g \in Measures' : f = g
        /\ \A f \in Measures' : publisher' = "running" /\ f.uid = eventId' /\ f.at = SampleTime(taken)'
        /\ Measures' # {}
        /\ eventId' \in Nat /\ taken' \in Nat
    BY <1>2, <1>3, NextMeasure
  <1>5. \A f \in sim'.pending : f.fn.name # "Measure" => f \in sim.pending
    BY <1>2, <1>4
  <1>6. /\ n \in 1 .. MaxAsdus /\ n \in Nat \ {0} /\ sent \in Nat
        /\ sampleIndex \in Nat /\ sampleIndex < n /\ taken = sent * n + sampleIndex
    BY AttrTypes DEF StreamInv, TypeOK, Chain
  <1>7. sampleIndex' = sampleIndex + 1 /\ sampleIndex' < n /\ sampleIndex' \in 0 .. MaxAsdus - 1
    <2>1. sampleIndex + 1 < n /\ sampleIndex + 1 \in 0 .. 7
      BY <1>3, <1>6 DEF MaxAsdus
    <2>2. (sampleIndex + 1) % 256 = sampleIndex + 1
      <3> HIDE DEF n
      <3> QED
        BY <2>1
    <2> QED
      BY <1>3, <2>1, <2>2 DEF MaxAsdus
  <1>8. /\ svPublisher' = p
        /\ p.asduList = [i \in 1 .. n |-> Written(i) % SmpCntLimit]
        /\ p.buffer = [i \in 1 .. n |-> AsduOf(Written(i), i)]
        /\ p \in SVPublisher /\ Len(p.buffer) = n
    BY <1>1, <1>2, <1>3, SampledBuffer
  <1> HIDE DEF p, n
  <1>9. TypeOK'
    <2>1. sampleIndex' < Len(svPublisher'.buffer) /\ svPublisher' \in SVPublisher
      BY <1>7, <1>8
    <2>2. sim' \in Simulator([name : FnNames, frame : Frames])
      BY <1>4 DEF SimOK, Fns
    <2> QED
      BY <1>1, <1>3, <1>4, <1>7, <2>1, <2>2 DEF StreamInv, TypeOK
  <1>10. StartOnce'
    BY <1>1, <1>3, <1>4, <1>5, QuietStart
  <1>11. Pending'
    BY <1>4 DEF Pending, SimOK
  <1>12. Chain'
    <2>1. taken' = sent * n + sampleIndex'
      <3>1. sent * n \in Nat
        BY <1>6, Products
      <3> QED
        BY <1>6, <1>7, <3>1
    <2>2. attr'.samplesPerMessage = n /\ sent' = sent
      BY <1>3 DEF n
    <2> QED
      BY <1>4, <1>7, <2>1, <2>2 DEF Chain
  <1>13. Buffer'
    <2>1. \A i \in 1 .. n : Latest(i)' = Written(i) /\ Written(i) \in Nat /\ i \in Nat
      BY <1>3, <1>6, <1>7 DEF Latest, Written
    <2>2. \A i \in 1 .. n : AsduOf(Latest(i), i)' = AsduOf(Written(i), i)
      BY <1>3, <2>1 DEF AsduOf, Number, SampleTime, Interval
    <2>3. attr'.samplesPerMessage = n
      BY <1>3 DEF n
    <2>4. /\ [i \in 1 .. n |-> Latest(i)' % SmpCntLimit] = p.asduList
          /\ [i \in 1 .. n |-> AsduOf(Latest(i), i)'] = p.buffer
      BY <1>8, <2>1, <2>2
    <2> QED
      BY <1>8, <2>3, <2>4 DEF Buffer
  <1>14. Network' /\ \A m \in Nat : Behind(m) => Behind(m)'
    BY <1>3, <1>5, QuietNetwork
  <1>15. Idle' /\ Busy'
    BY <1>1, <1>3, <1>6, <1>14, QuietSubscriber
  <1> QED
    BY <1>9, <1>10, <1>11, <1>12, <1>13, <1>14, <1>15 DEF StreamInv

\* The arrival of message m, d after it was sent.
ArrivalOf(s, m, d) == [at |-> s.now + d, uid |-> s.uid, fn |-> Arrival(FrameOf(m))]

\* The network takes a message: it loses it, or delivers it behind every
\* message before it.
LEMMA TransmitOK ==
  ASSUME TypeOK, NEW s, SimOK(s), NEW m \in Nat, NEW net \in Transmit(s, FrameOf(m))
  PROVE  /\ SimOK(net) /\ net.now = s.now
         /\ \/ net.pending = s.pending
            \/ \E d \in Delays :
                /\ net.pending = s.pending \cup {ArrivalOf(s, m, d)}
                /\ \A f \in s.pending : f.fn.name = "Receive" => f.at =< s.now + d
  <1>1. Arrival(FrameOf(m)) \in Fns
    BY MessageFrames, CallTypes
  <1>2. ASSUME NEW d \in Delays, net = Schedule(s, d, Arrival(FrameOf(m)))
        PROVE  SimOK(net) /\ net.now = s.now /\ net.pending = s.pending \cup {ArrivalOf(s, m, d)}
    <2>1. d \in Nat
      BY StreamAssumption
    <2> QED
      BY <1>1, <1>2, <2>1, ScheduleOK DEF ArrivalOf
  <1>3. \/ net = s
        \/ \E d \in Delays : /\ net = Schedule(s, d, Arrival(FrameOf(m)))
                             /\ \A f \in s.pending : f.fn.name = "Receive" => f.at =< s.now + d
    BY DEF Transmit
  <1> QED
    BY <1>2, <1>3

\* A new message, sent now, is behind every other one: the network still holds
\* each message at most once and in the order of their numbers.
LEMMA SentNetwork ==
  ASSUME StreamInv, NEW s, SimOK(s), s.pending \subseteq sim.pending, s.uid = sim.uid,
         s.now = SentAt(sent + 1), NEW net \in Transmit(s, FrameOf(sent + 1)),
         attr' = attr, sent' = sent + 1,
         \A f \in sim'.pending : f.fn.name = "Receive" => f \in net.pending
  PROVE  /\ Network'
         /\ \A m \in 1 .. sent : Behind(m) => Behind(m)'
  <1> DEFINE new(d) == ArrivalOf(s, sent + 1, d)
  <1>1. TypeOK /\ sent \in Nat /\ sent + 1 \in Nat \ {0} /\ Network
    BY DEF StreamInv, TypeOK
  <1>2. /\ \A m \in 1 .. sent + 1 : SentAt(m)' = SentAt(m) /\ FrameOf(m)' = FrameOf(m)
        /\ \A m \in 1 .. sent + 1 : m \in Nat \ {0}
    BY <1>1, Frozen
  <1>3. /\ \A m \in 1 .. sent : FrameOf(m) # FrameOf(sent + 1)
        /\ FrameOf(sent + 1) \notin attr.noise
    <2>1. \A m \in 1 .. sent : m \in Nat \ {0} /\ m # sent + 1
      BY <1>1
    <2> QED
      BY <1>1, <2>1, MessageFrames
  <1>4. \A f \in sim.pending : ~Carries(f, sent + 1)
    BY <1>3 DEF StreamInv, Network, Carries
  <1>5. \A f \in sim'.pending : \A m \in 1 .. sent + 1 : Carries(f, m)' => Carries(f, m) /\ f \in net.pending
    BY <1>2 DEF Carries
  <1>6. \A f \in net.pending : \A m \in 1 .. sent + 1 : Carries(f, m) => Carries(f, m)'
    BY <1>2 DEF Carries
  <1>7. 1 .. sent \subseteq 1 .. sent + 1 /\ sent + 1 \in 1 .. sent + 1
        /\ \A m \in 1 .. sent + 1 : m = sent + 1 \/ m \in 1 .. sent
    BY <1>1
  <1>8. CASE net.pending = s.pending
    <2>1. \A f \in sim'.pending : f.fn.name = "Receive" => f \in sim.pending
      BY <1>8
    <2>2. \A f \in sim'.pending : \A m \in 1 .. sent + 1 :
              Carries(f, m)' => m \in 1 .. sent /\ Carries(f, m) /\ f \in sim.pending
      BY <1>4, <1>5, <1>7, <1>8
    <2>3. \A f \in sim'.pending : f.fn.name = "Receive" =>
            \/ f.fn.frame \in attr'.noise
            \/ \E m \in 1 .. sent', d \in Delays : Carries(f, m)' /\ f.at = SentAt(m)' + d
      <3> SUFFICES ASSUME NEW f \in sim'.pending, f.fn.name = "Receive", f.fn.frame \notin attr.noise
                   PROVE  \E m \in 1 .. sent + 1, d \in Delays : Carries(f, m)' /\ f.at = SentAt(m)' + d
        OBVIOUS
      <3>1. PICK m \in 1 .. sent, d \in Delays : Carries(f, m) /\ f.at = SentAt(m) + d
        BY <1>1, <2>1 DEF Network
      <3>2. m \in 1 .. sent + 1 /\ Carries(f, m)' /\ SentAt(m)' = SentAt(m)
        BY <1>2, <1>6, <1>7, <1>8, <2>1, <3>1
      <3> QED
        BY <3>1, <3>2
    <2>4. \A e, f \in sim'.pending : \A k, m \in 1 .. sent' :
            Carries(e, k)' /\ Carries(f, m)' => (k = m => e = f) /\ (k < m => Precedes(e, f))
      BY <1>1, <2>2 DEF Network
    <2>5. \A m \in 1 .. sent : Behind(m) => Behind(m)'
      BY <2>2 DEF Behind
    <2> QED
      BY <2>3, <2>4, <2>5 DEF Network
  <1>9. ASSUME NEW d \in Delays, net.pending = s.pending \cup {new(d)},
               \A f \in s.pending : f.fn.name = "Receive" => f.at =< s.now + d
        PROVE  /\ Network'
               /\ \A m \in 1 .. sent : Behind(m) => Behind(m)'
    <2> DEFINE a == new(d)
    <2>1. a.fn.name = "Receive" /\ a.fn.frame = FrameOf(sent + 1) /\ a.at = s.now + d /\ a.uid = s.uid
      BY DEF ArrivalOf, Arrival
    <2> HIDE DEF a
    <2>2. Carries(a, sent + 1) /\ \A m \in 1 .. sent : ~Carries(a, m)
      BY <1>3, <2>1 DEF Carries
    <2>3. \A f \in sim'.pending : f.fn.name = "Receive" => f \in sim.pending \/ f = a
      BY <1>9 DEF a
    <2>4. \A f \in sim'.pending : \A m \in 1 .. sent + 1 :
              Carries(f, m)' => /\ Carries(f, m)
                                /\ \/ m \in 1 .. sent /\ f \in s.pending /\ f \in sim.pending
                                   \/ m = sent + 1 /\ f = a
      <3> SUFFICES ASSUME NEW f \in sim'.pending, NEW m \in 1 .. sent + 1, Carries(f, m)'
                   PROVE  /\ Carries(f, m)
                          /\ \/ m \in 1 .. sent /\ f \in s.pending /\ f \in sim.pending
                             \/ m = sent + 1 /\ f = a
        OBVIOUS
      <3>1. Carries(f, m) /\ f \in net.pending
        BY <1>5
      <3>2. f = a \/ f \in s.pending
        BY <1>9, <3>1 DEF a
      <3>3. CASE f = a
        BY <1>7, <2>2, <3>1, <3>3
      <3>4. CASE f \in s.pending
        BY <1>4, <1>7, <3>1, <3>4
      <3> QED
        BY <3>2, <3>3, <3>4
    <2>5. \A f \in sim'.pending : f.fn.name = "Receive" =>
            \/ f.fn.frame \in attr'.noise
            \/ \E m \in 1 .. sent', b \in Delays : Carries(f, m)' /\ f.at = SentAt(m)' + b
      <3> SUFFICES ASSUME NEW f \in sim'.pending, f.fn.name = "Receive", f.fn.frame \notin attr.noise
                   PROVE  \E m \in 1 .. sent + 1, b \in Delays : Carries(f, m)' /\ f.at = SentAt(m)' + b
        OBVIOUS
      <3>0. f \in net.pending
        OBVIOUS
      <3>1. CASE f = a
        <4>1. PICK m \in 1 .. sent + 1 : m = sent + 1
          BY <1>7
        <4>2. Carries(f, m) /\ f.at = SentAt(m) + d
          BY <2>1, <2>2, <3>1, <4>1
        <4>3. Carries(f, m)' /\ f.at = SentAt(m)' + d
          BY <1>2, <1>6, <3>0, <4>2
        <4> QED
          BY <4>3
      <3>2. CASE f \in sim.pending
        <4>1. PICK m \in 1 .. sent, b \in Delays : Carries(f, m) /\ f.at = SentAt(m) + b
          BY <1>1, <3>2 DEF Network
        <4>2. m \in 1 .. sent + 1 /\ Carries(f, m)' /\ SentAt(m)' = SentAt(m)
          BY <1>2, <1>6, <1>7, <3>0, <4>1
        <4> QED
          BY <4>1, <4>2
      <3> QED
        BY <2>3, <3>1, <3>2
    <2>6. \A f \in s.pending : f.fn.name = "Receive" => Precedes(f, a)
      <3> SUFFICES ASSUME NEW f \in s.pending, f.fn.name = "Receive" PROVE Precedes(f, a)
        OBVIOUS
      <3>1. f.at =< a.at /\ f.uid < a.uid
        BY <1>9, <2>1 DEF SimOK
      <3>2. f.at \in Nat /\ a.at \in Nat
        <4>1. d \in Nat /\ s.now \in Nat /\ f \in Event(Fns)
          BY StreamAssumption DEF SimOK, Simulator
        <4> QED
          BY <2>1, <4>1 DEF Event
      <3> QED
        BY <3>1, <3>2 DEF Precedes
    <2>7. ASSUME NEW e \in sim'.pending, NEW f \in sim'.pending, NEW k \in 1 .. sent + 1,
                 NEW m \in 1 .. sent + 1, Carries(e, k)', Carries(f, m)'
          PROVE  (k = m => e = f) /\ (k < m => Precedes(e, f))
      <3>1. /\ Carries(e, k)
            /\ \/ k \in 1 .. sent /\ e \in s.pending /\ e \in sim.pending
               \/ k = sent + 1 /\ e = a
        BY <2>4, <2>7
      <3>2. /\ Carries(f, m)
            /\ \/ m \in 1 .. sent /\ f \in s.pending /\ f \in sim.pending
               \/ m = sent + 1 /\ f = a
        BY <2>4, <2>7
      <3>3. CASE k \in 1 .. sent /\ m \in 1 .. sent
        <4>1. e \in sim.pending /\ f \in sim.pending
          BY <1>1, <3>1, <3>2, <3>3
        <4> QED
          BY <1>1, <3>1, <3>2, <3>3, <4>1 DEF Network
      <3>4. CASE k \in 1 .. sent /\ m = sent + 1
        <4>1. f = a /\ e \in s.pending /\ e.fn.name = "Receive" /\ k # m
          BY <1>1, <3>1, <3>2, <3>4 DEF Carries
        <4> QED
          BY <2>6, <4>1
      <3>5. CASE k = sent + 1
        <4>1. e = a /\ ~(k < m)
          BY <1>1, <3>1, <3>5
        <4>2. k = m => f = a
          BY <1>1, <3>2, <3>5
        <4> QED
          BY <4>1, <4>2
      <3> QED
        BY <1>7, <3>3, <3>4, <3>5
    <2>8. \A m \in 1 .. sent : Behind(m) => Behind(m)'
      <3> SUFFICES ASSUME NEW m \in 1 .. sent, Behind(m),
                          NEW f \in sim'.pending, NEW k \in 1 .. sent + 1, Carries(f, k)'
                   PROVE  m < k
        BY DEF Behind
      <3>1. \/ k \in 1 .. sent /\ f \in sim.pending /\ Carries(f, k)
            \/ k = sent + 1
        BY <2>4
      <3> QED
        BY <1>1, <3>1 DEF Behind
    <2>9. Network'
      BY <2>5, <2>7 DEF Network
    <2> QED
      BY <2>8, <2>9
  <1> QED
    BY <1>1, <1>8, <1>9, TransmitOK

\* A sample that completes a message is written and the buffer is sent.
LEMMA SendMessageInv ==
  ASSUME StreamInv, NEW e \in sim.pending, Runs(e, "Measure"), SendMessage(Dispatch(sim, e)),
         count # 0, taken' = taken + 1, UNCHANGED <<attr, publisher, subVars>>
  PROVE  StreamInv'
  <1> DEFINE s == Dispatch(sim, e)
             n == attr.samplesPerMessage
             p == Sampled(svPublisher, sampleIndex + 1, SampleTime(taken))
  <1>1. /\ publisher = "running" /\ e.at = SampleTime(taken) /\ Measures = {e}
        /\ rest = <<>> /\ IsNext(sim, e) /\ e.fn.name = "Measure"
    BY MeasureRuns
  <1>2. SimOK(s) /\ s.now = e.at /\ s.pending = sim.pending \ {e} /\ s.uid = sim.uid
    BY <1>1, DispatchOK
  <1>3. /\ sampleIndex + 1 = n
        /\ svPublisher' = Sampled(svPublisher, sampleIndex + 1, s.now)
        /\ sampleIndex' = 0
        /\ Send(s, svPublisher')
        /\ UNCHANGED <<attr, publisher, subscriber, rest, received, lastSample>>
    BY DEF SendMessage, subVars
  <1>4. count' = count - 1 /\ sent' = sent + 1
    BY <1>3 DEF Send
  <1>5. PICK net \in Transmit(s, SVPublisher_publish(svPublisher')) :
            sim' = Schedule(net, Interval(attr), Call("Measure")) /\ eventId' = net.uid
    BY <1>3 DEF Send
  <1> HIDE DEF s
  <1>6. /\ n \in 1 .. MaxAsdus /\ n \in Nat \ {0} /\ sent \in Nat
        /\ sampleIndex \in Nat /\ taken = sent * n + sampleIndex
    BY AttrTypes DEF StreamInv, TypeOK, Chain
  <1>7. /\ svPublisher' = p
        /\ p.asduList = [i \in 1 .. n |-> Written(i) % SmpCntLimit]
        /\ p.buffer = [i \in 1 .. n |-> AsduOf(Written(i), i)]
        /\ p \in SVPublisher /\ Len(p.buffer) = n
    BY <1>1, <1>2, <1>3, SampledBuffer
  <1> HIDE DEF p
  <1>8. \A i \in 1 .. n : Written(i) = sent + 1
    BY <1>3, <1>6 DEF Written
  <1>9. SVPublisher_publish(svPublisher') = FrameOf(sent + 1)
    <2>1. p.buffer = Message(sent + 1)
      BY <1>7, <1>8 DEF Message
    <2> QED
      BY <1>7, <2>1 DEF SVPublisher_publish, FrameOf
  <1>10. s.now = SentAt(sent + 1)
    <2>1. Number(sent + 1, n) = (sent + 1 - 1) * n + (n - 1)
      BY <1>6 DEF Number
    <2>2. sent + 1 - 1 = sent /\ n - 1 = sampleIndex
      BY <1>3, <1>6
    <2>3. Number(sent + 1, n) = taken
      <3> HIDE DEF n
      <3> QED
        BY <1>6, <2>1, <2>2
    <2> QED
      BY <1>1, <1>2, <2>3 DEF SentAt
  <1>11. net \in Transmit(s, FrameOf(sent + 1))
    BY <1>5, <1>9
  <1> HIDE DEF n
  <1>12. /\ SimOK(net) /\ net.now = s.now
         /\ \/ net.pending = s.pending
            \/ \E d \in Delays : net.pending = s.pending \cup {ArrivalOf(s, sent + 1, d)}
    <2>1. sent + 1 \in Nat /\ TypeOK
      BY <1>6 DEF StreamInv
    <2> QED
      BY <1>2, <1>11, <2>1, TransmitOK
  <1>13. \A f \in net.pending : f.fn.name # "Receive" => f \in sim.pending \ {e}
    <2>1. \A d \in Delays : ArrivalOf(s, sent + 1, d).fn.name = "Receive"
      BY DEF ArrivalOf, Arrival
    <2> QED
      BY <1>2, <1>12, <2>1
  <1>14. /\ SimOK(sim') /\ sim'.now = e.at
         /\ \E f : sim'.pending = net.pending \cup {f} /\ f.fn.name = "Measure"
         /\ \A f, g \in Measures' : f = g
         /\ \A f \in Measures' : publisher' = "running" /\ f.uid = eventId' /\ f.at = SampleTime(taken)'
         /\ Measures' # {}
         /\ eventId' \in Nat /\ taken' \in Nat
    <2>1. \A f \in net.pending : f.fn.name = "Measure" => f \in sim.pending \ {e}
      BY <1>13
    <2> QED
      BY <1>2, <1>3, <1>5, <1>12, <2>1, NextMeasure
  <1>15. /\ \A f \in sim'.pending : f.fn.name \notin {"Measure", "Receive"} => f \in sim.pending
         /\ \A f \in sim'.pending : f.fn.name = "Receive" => f \in net.pending
    BY <1>13, <1>14
  <1>16. TypeOK'
    <2>1. sampleIndex' \in 0 .. MaxAsdus - 1 /\ sampleIndex' < Len(svPublisher'.buffer)
          /\ svPublisher' \in SVPublisher
      BY <1>3, <1>6, <1>7 DEF MaxAsdus
    <2>2. sim' \in Simulator([name : FnNames, frame : Frames])
      BY <1>14 DEF SimOK, Fns
    <2>3. count' \in 0 .. CountMod - 1
      <3>1. count \in 0 .. CountMod - 1
        BY DEF StreamInv, TypeOK
      <3> QED
        BY <1>4, <3>1, StreamAssumption
    <2>4. sent' \in Nat
      BY <1>4, <1>6
    <2> QED
      BY <1>1, <1>3, <1>14, <2>1, <2>2, <2>3, <2>4 DEF StreamInv, TypeOK
  <1>17. StartOnce'
    BY <1>1, <1>3, <1>14, <1>15, QuietStart
  <1>18. Pending'
    BY <1>14 DEF Pending, SimOK
  <1>19. Chain'
    <2>1. taken' = sent' * n + sampleIndex'
      <3>1. sent * n \in Nat /\ (sent + 1) * n = sent * n + n
        BY <1>6, Products
      <3> QED
        BY <1>3, <1>4, <1>6, <3>1
    <2>2. attr'.samplesPerMessage = n
      BY <1>3 DEF n
    <2>3. sampleIndex' < n
      BY <1>3, <1>6
    <2> QED
      BY <1>14, <2>1, <2>2, <2>3 DEF Chain
  <1>20. Buffer'
    <2>1. \A i \in 1 .. n : Latest(i)' = Written(i) /\ Written(i) \in Nat /\ i \in Nat
      BY <1>3, <1>4, <1>6, <1>8 DEF Latest
    <2>2. \A i \in 1 .. n : AsduOf(Latest(i), i)' = AsduOf(Written(i), i)
      BY <1>3, <2>1 DEF AsduOf, Number, SampleTime, Interval
    <2>3. attr'.samplesPerMessage = n
      BY <1>3 DEF n
    <2>4. /\ [i \in 1 .. n |-> Latest(i)' % SmpCntLimit] = p.asduList
          /\ [i \in 1 .. n |-> AsduOf(Latest(i), i)'] = p.buffer
      BY <1>7, <2>1, <2>2
    <2> QED
      BY <1>7, <2>3, <2>4 DEF Buffer
  <1>21. Network' /\ \A m \in 1 .. sent : Behind(m) => Behind(m)'
    <2>1. s.pending \subseteq sim.pending
      BY <1>2
    <2> QED
      BY <1>2, <1>3, <1>4, <1>10, <1>11, <1>15, <2>1, SentNetwork
  <1>22. Idle' /\ Busy'
    <2>1. sent' \in Nat /\ sent =< sent'
      BY <1>4, <1>6
    <2> QED
      BY <1>1, <1>3, <1>21, <2>1, QuietSubscriber
  <1> QED
    BY <1>16, <1>17, <1>18, <1>19, <1>20, <1>21, <1>22 DEF StreamInv

\* Measure as a whole: the quota is used up, a sample is stored, or a message is sent.
LEMMA MeasureInv == StreamInv /\ Measure => StreamInv'
  <1> SUFFICES ASSUME StreamInv, Measure PROVE StreamInv'
    OBVIOUS
  <1>1. PICK e \in sim.pending : Measure!(e)
    BY DEF Measure
  <1>2. Runs(e, "Measure") /\ UNCHANGED <<attr, subVars>>
    BY <1>1
  <1>3. CASE Exhausted(Dispatch(sim, e))
    BY <1>2, <1>3, ExhaustedInv
  <1>4. CASE /\ count # 0 /\ StoreSample(Dispatch(sim, e))
             /\ taken' = taken + 1 /\ UNCHANGED publisher
    <2>1. UNCHANGED <<attr, publisher, subVars>>
      BY <1>2, <1>4
    <2> QED
      BY <1>2, <1>4, <2>1, StoreSampleInv
  <1>5. CASE /\ count # 0 /\ SendMessage(Dispatch(sim, e))
             /\ taken' = taken + 1 /\ UNCHANGED publisher
    <2>1. UNCHANGED <<attr, publisher, subVars>>
      BY <1>2, <1>5
    <2> QED
      BY <1>2, <1>5, <2>1, SendMessageInv
  <1> QED
    BY <1>1, <1>3, <1>4, <1>5

\* StopPublisher never runs before StartPublisher, and cancels the only call of Measure.
LEMMA StopPublisherInv == StreamInv /\ StopPublisher => StreamInv'
  <1> SUFFICES ASSUME StreamInv, StopPublisher PROVE StreamInv'
    OBVIOUS
  <1>1. PICK e \in sim.pending : StopPublisher!(e)
    BY DEF StopPublisher
  <1>2. rest = <<>> /\ IsNext(sim, e) /\ e.fn.name = "StopPublisher"
    BY <1>1 DEF Runs
  <1>3. /\ sim' = Cancel(Dispatch(sim, e), eventId) /\ publisher' = "stopped"
        /\ UNCHANGED <<attr, svPublisher, count, sent, sampleIndex, eventId, taken>>
        /\ UNCHANGED <<subscriber, rest, received, lastSample>>
    BY <1>1 DEF subVars
  <1>4. publisher # "created"
    <2> SUFFICES ASSUME publisher = "created" PROVE FALSE
      OBVIOUS
    <2> DEFINE start == [at |-> 0, uid |-> 0, fn |-> Call("StartPublisher")]
    <2>1. start \in sim.pending /\ e.at > 0
      BY <1>2 DEF StreamInv, StartOnce
    <2>2. start.at = 0 /\ start.fn.name = "StartPublisher"
      BY DEF Call
    <2>3. start # e
      BY <1>2, <2>2
    <2>4. Precedes(e, start) /\ e.at \in Nat
      BY <1>2, <2>1, <2>3, DispatchOK DEF IsNext
    <2> HIDE DEF start
    <2> QED
      BY <2>1, <2>2, <2>4 DEF Precedes
  <1>5. /\ SimOK(sim') /\ sim'.now = e.at /\ sim'.pending \subseteq sim.pending
        /\ \A f \in sim'.pending : f.uid # eventId
    <2> DEFINE s == Dispatch(sim, e)
    <2>1. SimOK(s) /\ s.now = e.at /\ s.pending \subseteq sim.pending
      BY <1>2, DispatchOK
    <2> HIDE DEF s
    <2>2. sim' = [now |-> s.now, uid |-> s.uid, pending |-> {f \in s.pending : f.uid # eventId}]
      BY <1>3 DEF Cancel, s
    <2> QED
      BY <2>1, <2>2 DEF SimOK, Simulator
  <1>6. Measures' = {}
    <2>1. \A f \in sim.pending : f.fn.name = "Measure" => f.uid = eventId
      BY DEF StreamInv, Chain, Measures
    <2> QED
      BY <1>5, <2>1 DEF Measures
  <1>7. TypeOK'
    BY <1>3, <1>5 DEF StreamInv, TypeOK, SimOK, Fns
  <1>8. StartOnce'
    BY <1>2, <1>3, <1>4, <1>5, QuietStart
  <1>9. Pending'
    BY <1>5 DEF Pending, SimOK
  <1>10. Chain'
    BY <1>3, <1>6 DEF StreamInv, Chain
  <1>11. Buffer'
    BY <1>3, <1>4 DEF StreamInv, Buffer, Latest, AsduOf, Number, SampleTime, Interval
  <1>12. Network' /\ \A m \in Nat : Behind(m) => Behind(m)'
    BY <1>3, <1>5, QuietNetwork
  <1>13. Idle' /\ Busy'
    <2>1. sent \in Nat
      BY DEF StreamInv, TypeOK
    <2> QED
      BY <1>2, <1>3, <1>12, <2>1, QuietSubscriber
  <1> QED
    BY <1>7, <1>8, <1>9, <1>10, <1>11, <1>12, <1>13 DEF StreamInv

\* The events of the subscriber leave the publisher and its timer alone.
LEMMA PublisherKept ==
  ASSUME StreamInv, NEW e \in sim.pending, IsNext(sim, e),
         e.fn.name \in {"StartSubscriber", "StopSubscriber", "Receive"},
         sim' = Dispatch(sim, e), UNCHANGED <<attr, pubVars>>
  PROVE  /\ SimOK(sim') /\ sim'.now = e.at /\ sim'.pending = sim.pending \ {e}
         /\ StartOnce' /\ Pending' /\ Chain' /\ Buffer' /\ Network'
         /\ \A m \in Nat : Behind(m) => Behind(m)'
  <1>1. UNCHANGED <<attr, publisher, svPublisher, count, sent, sampleIndex, eventId, taken>>
    BY DEF pubVars
  <1>2. SimOK(sim') /\ sim'.now = e.at /\ sim'.pending = sim.pending \ {e}
    BY DispatchOK
  <1>3. StartOnce'
    BY <1>1, <1>2, QuietStart
  <1>4. Pending'
    BY <1>2 DEF Pending, SimOK
  <1>5. Chain'
    <2>1. Measures' = Measures
      BY <1>2 DEF Measures
    <2>2. SampleTime(taken)' = SampleTime(taken)
      BY <1>1 DEF SampleTime, Interval
    <2> QED
      BY <1>1, <2>1, <2>2 DEF StreamInv, Chain
  <1>6. Buffer'
    BY <1>1 DEF StreamInv, Buffer, Latest, AsduOf, Number, SampleTime, Interval
  <1>7. Network' /\ \A m \in Nat : Behind(m) => Behind(m)'
    BY <1>1, <1>2, QuietNetwork
  <1> QED
    BY <1>2, <1>3, <1>4, <1>5, <1>6, <1>7

\* The subscriber application starts: nothing of the stream changes.
LEMMA StartSubscriberInv == StreamInv /\ StartSubscriber => StreamInv'
  <1> SUFFICES ASSUME StreamInv, StartSubscriber PROVE StreamInv'
    OBVIOUS
  <1>1. PICK e \in sim.pending : StartSubscriber!(e)
    BY DEF StartSubscriber
  <1>2. rest = <<>> /\ IsNext(sim, e) /\ e.fn.name = "StartSubscriber"
    BY <1>1 DEF Runs
  <1>3. /\ SimOK(sim') /\ sim'.now = e.at /\ sim'.pending = sim.pending \ {e}
        /\ StartOnce' /\ Pending' /\ Chain' /\ Buffer' /\ Network'
    BY <1>1, <1>2, PublisherKept
  <1>4. /\ subscriber' = "running" /\ received' = 0 /\ lastSample' = NoSample /\ rest' = <<>>
        /\ UNCHANGED <<attr, publisher, svPublisher, count, sent, sampleIndex, eventId, taken>>
    BY <1>1, <1>2 DEF pubVars
  <1>5. TypeOK'
    <2>1. lastSample' \in [sampleTimestamp : Nat, receivedTimestamp : Nat, smpCnt : SmpCnt, val : Nat]
      BY <1>4, SvPublisherAssumption DEF NoSample, SmpCnt
    <2>2. rest' \in Seq(Asdu)
      BY <1>4
    <2> QED
      BY <1>3, <1>4, <2>1, <2>2 DEF StreamInv, TypeOK, SimOK, Fns
  <1>6. Idle' /\ Busy'
    BY <1>4 DEF Idle, Busy
  <1> QED
    BY <1>3, <1>5, <1>6 DEF StreamInv

\* The subscriber application stops; frames on their way stay on their way.
LEMMA StopSubscriberInv == StreamInv /\ StopSubscriber => StreamInv'
  <1> SUFFICES ASSUME StreamInv, StopSubscriber PROVE StreamInv'
    OBVIOUS
  <1>1. PICK e \in sim.pending : StopSubscriber!(e)
    BY DEF StopSubscriber
  <1>2. rest = <<>> /\ IsNext(sim, e) /\ e.fn.name = "StopSubscriber"
    BY <1>1 DEF Runs
  <1>3. /\ SimOK(sim') /\ sim'.now = e.at /\ sim'.pending = sim.pending \ {e}
        /\ StartOnce' /\ Pending' /\ Chain' /\ Buffer' /\ Network'
        /\ \A m \in Nat : Behind(m) => Behind(m)'
    BY <1>1, <1>2, PublisherKept
  <1>4. /\ subscriber' = "stopped" /\ UNCHANGED <<received, lastSample, rest>>
        /\ UNCHANGED <<attr, publisher, svPublisher, count, sent, sampleIndex, eventId, taken>>
    BY <1>1, <1>2 DEF pubVars
  <1>5. TypeOK'
    BY <1>3, <1>4 DEF StreamInv, TypeOK, SimOK, Fns
  <1>6. Idle' /\ Busy'
    <2>1. sent \in Nat
      BY DEF StreamInv, TypeOK
    <2> QED
      BY <1>2, <1>3, <1>4, <2>1, QuietSubscriber
  <1> QED
    BY <1>3, <1>5, <1>6 DEF StreamInv

\* A frame that arrives is a message newer than the last one, or not of this stream.
LEMMA ReceiveInv == StreamInv /\ Receive => StreamInv'
  <1> SUFFICES ASSUME StreamInv, Receive PROVE StreamInv'
    OBVIOUS
  <1>1. PICK e \in sim.pending : Receive!(e)
    BY DEF Receive
  <1> DEFINE n == attr.samplesPerMessage
  <1>2. rest = <<>> /\ IsNext(sim, e) /\ e.fn.name = "Receive"
    BY <1>1 DEF Runs
  <1>3. /\ SimOK(sim') /\ sim'.now = e.at /\ sim'.pending = sim.pending \ {e}
        /\ StartOnce' /\ Pending' /\ Chain' /\ Buffer' /\ Network'
        /\ \A m \in Nat : Behind(m) => Behind(m)'
    BY <1>1, <1>2, PublisherKept
  <1>4. /\ UNCHANGED <<subscriber, received, lastSample>>
        /\ UNCHANGED <<attr, publisher, svPublisher, count, sent, sampleIndex, eventId, taken>>
        /\ rest' = <<>> \/ rest' = Parsed(e.fn.frame)
    BY <1>1 DEF pubVars
  <1>5. TypeOK /\ sent \in Nat /\ n \in Nat \ {0} /\ received \in Nat
    BY AttrTypes DEF StreamInv, TypeOK
  <1>6. ASSUME rest' = <<>> PROVE StreamInv'
    <2>1. TypeOK'
      <3>1. rest' \in Seq(Asdu)
        BY <1>6
      <3> QED
        BY <1>3, <1>4, <3>1 DEF StreamInv, TypeOK, SimOK, Fns
    <2>2. Idle' /\ Busy'
      BY <1>2, <1>3, <1>4, <1>5, <1>6, QuietSubscriber
    <2> QED
      BY <1>3, <2>1, <2>2 DEF StreamInv
  <1>7. CASE e.fn.frame \in attr.noise
    <2>1. e.fn.frame \in OtherFrames
      BY <1>5, <1>7, AttrTypes
    <2>2. Parsed(e.fn.frame) = <<>>
      BY <2>1 DEF Parsed, Matches, OtherFrames
    <2> QED
      BY <1>4, <1>6, <2>2
  <1>8. ASSUME NEW m \in 1 .. sent, NEW d \in Delays, Carries(e, m), e.at = SentAt(m) + d,
               rest' # <<>>
        PROVE  StreamInv'
    <2>1. m \in Nat \ {0}
      BY <1>5
    <2>2. /\ rest' = Message(m) /\ Message(m) \in Seq(Asdu) /\ Len(Message(m)) = n
      BY <1>4, <1>5, <1>8, <2>1, MessageFrames DEF Parsed, Carries
    <2>3. TypeOK'
      BY <1>3, <1>4, <2>2 DEF StreamInv, TypeOK, SimOK, Fns
    <2>4. Behind(m)'
      <3> SUFFICES ASSUME NEW f \in sim'.pending, NEW k \in 1 .. sent', Carries(f, k)'
                   PROVE  m < k
        BY DEF Behind
      <3>1. k \in 1 .. sent /\ k \in Nat /\ f \in sim.pending /\ f # e
        BY <1>3, <1>4, <1>5
      <3>2. Carries(f, k)
        BY <1>4, <3>1, Frozen DEF Carries
      <3>3. k # m /\ (k < m => Precedes(f, e))
        BY <1>8, <3>1, <3>2 DEF StreamInv, Network
      <3>4. Precedes(e, f) /\ e \in Event(Fns) /\ f \in Event(Fns)
        BY <1>2, <3>1 DEF IsNext, StreamInv, TypeOK, Simulator, Fns
      <3>5. ~Precedes(f, e)
        BY <3>4 DEF Precedes, Event
      <3> QED
        BY <2>1, <3>1, <3>3, <3>5
    <2>5. Count(0)'
      <3>1. Count(0)
        <4>1. CASE received = 0
          <5>1. 0 * n + 0 = 0 /\ 0 \in 0 .. n - 1
            BY <1>5
          <5>2. 0 % n = 0
            BY <1>5, <5>1, DivisionUnique
          <5> QED
            BY <4>1, <5>2 DEF Count
        <4>2. CASE received # 0
          BY <1>2, <4>2 DEF StreamInv, Idle
        <4> QED
          BY <4>1, <4>2
      <3> QED
        BY <1>4, <3>1 DEF Count
    <2>6. received' = 0 \/ \E k \in 1 .. m - 1 : Saw(k, attr.samplesPerMessage)'
      <3> SUFFICES ASSUME received # 0 PROVE \E k \in 1 .. m - 1 : Saw(k, attr.samplesPerMessage)'
        BY <1>4
      <3>1. PICK k \in 1 .. sent : Saw(k, n) /\ Behind(k)
        BY <1>2 DEF StreamInv, Idle
      <3>2. k < m
        BY <1>8, <3>1 DEF Behind
      <3>3. k \in Nat /\ n \in Nat /\ k \in 1 .. m - 1
        BY <1>5, <2>1, <3>2
      <3>4. SentAt(k)' = SentAt(k) /\ AsduOf(k, n)' = AsduOf(k, n)
        BY <1>4, <3>3 DEF AsduOf, SentAt, Number, SampleTime, Interval
      <3>5. Saw(k, attr.samplesPerMessage)'
        BY <1>4, <3>1, <3>4 DEF Saw, SampleOf
      <3> QED
        BY <3>3, <3>5
    <2>7. rest' = SubSeq(Message(m), 1, n)
      <3> HIDE DEF n
      <3> QED
        BY <1>5, <2>2
    <2>8. m \in 1 .. sent' /\ 0 \in 0 .. n - 1 /\ 0 + 1 = 1 /\ ~(0 > 0)
      BY <1>4, <1>5
    <2>9. SentAt(m)' = SentAt(m) /\ Message(m)' = Message(m) /\ attr'.samplesPerMessage = n
      BY <1>4, <2>1, Frozen
    <2>10. sim'.now = SentAt(m)' + d
      BY <1>3, <1>8, <2>9
    <2>11. rest' = SubSeq(Message(m)', 0 + 1, attr'.samplesPerMessage)
      BY <2>7, <2>8, <2>9
    <2>12. Busy'
      BY <2>4, <2>5, <2>6, <2>8, <2>9, <2>10, <2>11 DEF Busy
    <2>13. Idle'
      BY <1>8 DEF Idle
    <2> QED
      BY <1>3, <2>3, <2>12, <2>13 DEF StreamInv
  <1> QED
    BY <1>2, <1>6, <1>7, <1>8 DEF StreamInv, Network

-----------------------------------------------------------------------------
\* The first element of the end of a sequence, and what is behind it.
LEMMA EndOfSequence ==
  ASSUME NEW S, NEW s \in Seq(S), NEW j \in 0 .. Len(s) - 1
  PROVE  /\ Head(SubSeq(s, j + 1, Len(s))) = s[j + 1]
         /\ Tail(SubSeq(s, j + 1, Len(s))) = SubSeq(s, j + 2, Len(s))
         /\ SubSeq(s, j + 2, Len(s)) \in Seq(S)
         /\ SubSeq(s, j + 2, Len(s)) = <<>> <=> j + 1 = Len(s)
  <1>0. PICK n \in Nat : n = Len(s)
    OBVIOUS
  <1>1. PICK m \in 1 .. n : m = j + 1
    BY <1>0
  <1>2. m \in 1 .. Len(s) /\ n \in m .. Len(s) /\ m + 1 = j + 2
    BY <1>0, <1>1
  <1>3. Head(SubSeq(s, m, n)) = s[m] /\ Tail(SubSeq(s, m, n)) = SubSeq(s, m + 1, n)
    BY <1>2, HeadTailOfSubSeq
  <1>4. /\ SubSeq(s, m + 1, n) \in Seq(S)
        /\ Len(SubSeq(s, m + 1, n)) = IF m + 1 <= n THEN n - m ELSE 0
    <2>1. PICK k \in Int : k = m + 1
      BY <1>2
    <2>2. \A i \in k .. n : s[i] \in S
      BY <1>2, <2>1
    <2>3. /\ SubSeq(s, k, n) \in Seq(S)
          /\ Len(SubSeq(s, k, n)) = IF k <= n THEN n - k + 1 ELSE 0
      BY <2>2, SubSeqProperties
    <2> QED
      BY <2>1, <2>3
  <1>5. SubSeq(s, m + 1, n) = <<>> <=> m = n
    <2> DEFINE t == SubSeq(s, m + 1, n)
    <2>0. t \in Seq(S)
      BY <1>4
    <2> HIDE DEF t
    <2>1. t = <<>> <=> Len(t) = 0
      BY <2>0, EmptySeq
    <2>2. Len(t) = 0 <=> m = n
      BY <1>1, <1>4 DEF t
    <2> QED
      BY <2>1, <2>2 DEF t
  <1>6. /\ Head(SubSeq(s, m, n)) = s[m] /\ Tail(SubSeq(s, m, n)) = SubSeq(s, j + 2, n)
        /\ SubSeq(s, j + 2, n) \in Seq(S)
        /\ SubSeq(s, j + 2, n) = <<>> <=> m = n
    BY <1>2, <1>3, <1>4, <1>5
  <1> QED
    BY <1>0, <1>1, <1>6

\* The listener is called for the next ASDU of the message being parsed.
LEMMA ListenerSees ==
  ASSUME StreamInv, Listener
  PROVE  LET n == attr.samplesPerMessage
         IN  \E m \in 1 .. sent, j \in 0 .. n - 1 :
                /\ Behind(m) /\ Count(j)
                /\ \E d \in Delays : sim.now = SentAt(m) + d
                /\ lastSample' = SampleOf(m, j + 1, sim.now)
                /\ rest' = SubSeq(Message(m), j + 2, n) /\ rest' \in Seq(Asdu)
                /\ rest' = <<>> <=> j + 1 = n
                /\ IF j > 0 THEN lastSample = SampleOf(m, j, sim.now)
                   ELSE received = 0 \/ \E k \in 1 .. m - 1 : Saw(k, n)
  <1> DEFINE n == attr.samplesPerMessage
  <1>1. rest # <<>> /\ rest' = Tail(rest)
        /\ lastSample' = [sampleTimestamp |-> Timestamp_getTimeInNs(Head(rest).ts),
                          receivedTimestamp |-> sim.now,
                          smpCnt |-> Head(rest).smpCnt,
                          val |-> Head(rest).val]
    BY DEF Listener
  <1>2. PICK m \in 1 .. sent, j \in 0 .. n - 1 :
            /\ rest = SubSeq(Message(m), j + 1, n)
            /\ Behind(m)
            /\ Count(j)
            /\ \E d \in Delays : sim.now = SentAt(m) + d
            /\ IF j > 0 THEN lastSample = SampleOf(m, j, sim.now)
               ELSE received = 0 \/ \E k \in 1 .. m - 1 : Saw(k, n)
    BY <1>1 DEF StreamInv, Busy
  <1>3. TypeOK /\ m \in Nat /\ n \in Nat \ {0} /\ j + 1 \in 1 .. n
    BY AttrTypes DEF StreamInv, TypeOK
  <1>4. Message(m) \in Seq(Asdu) /\ Len(Message(m)) = n /\ Message(m)[j + 1] = AsduOf(m, j + 1)
    BY <1>3, MessageFrames
  <1>5. /\ Head(rest) = AsduOf(m, j + 1)
        /\ Tail(rest) = SubSeq(Message(m), j + 2, n) /\ Tail(rest) \in Seq(Asdu)
        /\ Tail(rest) = <<>> <=> j + 1 = n
    <2>0. PICK q : q = Message(m)
      OBVIOUS
    <2>1. q \in Seq(Asdu) /\ n \in Nat /\ n = Len(q) /\ j \in 0 .. n - 1
      BY <1>3, <1>4, <2>0
    <2> HIDE DEF n
    <2>2. /\ Head(SubSeq(q, j + 1, n)) = q[j + 1]
          /\ Tail(SubSeq(q, j + 1, n)) = SubSeq(q, j + 2, n)
          /\ SubSeq(q, j + 2, n) \in Seq(Asdu)
          /\ SubSeq(q, j + 2, n) = <<>> <=> j + 1 = n
      <3>1. j \in 0 .. Len(q) - 1
        BY <2>1
      <3>2. /\ Head(SubSeq(q, j + 1, Len(q))) = q[j + 1]
            /\ Tail(SubSeq(q, j + 1, Len(q))) = SubSeq(q, j + 2, Len(q))
            /\ SubSeq(q, j + 2, Len(q)) \in Seq(Asdu)
            /\ SubSeq(q, j + 2, Len(q)) = <<>> <=> j + 1 = Len(q)
        BY <2>1, <3>1, EndOfSequence
      <3> QED
        BY <2>1, <3>2
    <2>3. rest = SubSeq(q, j + 1, n) /\ q[j + 1] = AsduOf(m, j + 1)
      BY <1>2, <1>4, <2>0
    <2> QED
      BY <2>0, <2>2, <2>3
  <1>6. lastSample' = SampleOf(m, j + 1, sim.now)
    BY <1>1, <1>5 DEF SampleOf
  <1> QED
    BY <1>1, <1>2, <1>5, <1>6

\* What the listener keeps of a message is typed.
LEMMA SampleTypes ==
  ASSUME TypeOK, NEW m \in Nat \ {0}, NEW j \in 1 .. attr.samplesPerMessage, NEW t \in Nat
  PROVE  /\ SampleOf(m, j, t) \in [sampleTimestamp : Nat, receivedTimestamp : Nat,
                                   smpCnt : SmpCnt, val : Nat]
         /\ SampleOf(m, j, t).val = SampleTime(Number(m, j))
         /\ SampleOf(m, j, t).smpCnt = m % SmpCntLimit
         /\ SampleOf(m, j, t).receivedTimestamp = t
         /\ SampleOf(m, j, t).sampleTimestamp =
                Timestamp_getTimeInNs(Timestamp_setTimeInNanoseconds(SampleTime(Number(m, j))))
  <1> DEFINE a == AsduOf(m, j)
             ns == SampleTime(Number(m, j))
  <1>1. /\ a \in Asdu /\ a.val = ns /\ a.smpCnt = m % SmpCntLimit
        /\ a.ts = Timestamp_setTimeInNanoseconds(ns) /\ ns \in Nat
    BY AsduTypes
  <1> HIDE DEF ns
  <1>2. Timestamp_getTimeInNs(Timestamp_setTimeInNanoseconds(ns)) \in Nat
    BY <1>1, TimestampRoundTrip
  <1>3. a.smpCnt \in SmpCnt
    BY <1>1 DEF Asdu
  <1> QED
    BY <1>1, <1>2, <1>3 DEF SampleOf, ns

\* The listener takes one ASDU of the message that arrived and leaves the others.
LEMMA ListenerInv == StreamInv /\ Listener => StreamInv'
  <1> SUFFICES ASSUME StreamInv, Listener PROVE StreamInv'
    OBVIOUS
  <1> DEFINE n == attr.samplesPerMessage
  <1>1. PICK m \in 1 .. sent, j \in 0 .. n - 1 :
            /\ Behind(m) /\ Count(j)
            /\ \E d \in Delays : sim.now = SentAt(m) + d
            /\ lastSample' = SampleOf(m, j + 1, sim.now)
            /\ rest' = SubSeq(Message(m), j + 2, n) /\ rest' \in Seq(Asdu)
            /\ rest' = <<>> <=> j + 1 = n
    BY ListenerSees
  <1>2. /\ received' = received + 1
        /\ UNCHANGED <<attr, sim, publisher, svPublisher, count, sent, sampleIndex, eventId, taken,
                       subscriber>>
    BY DEF Listener, pubVars
  <1>3. /\ TypeOK /\ m \in Nat \ {0} /\ n \in Nat \ {0} /\ j + 1 \in 1 .. n /\ j \in Nat
        /\ received \in Nat /\ sent \in Nat /\ sim.now \in Nat
    <2>1. TypeOK /\ n \in Nat \ {0}
      BY AttrTypes DEF StreamInv
    <2>2. received \in Nat /\ sent \in Nat /\ sim.now \in Nat
      BY <2>1 DEF TypeOK, Simulator
    <2> HIDE DEF n
    <2> QED
      BY <2>1, <2>2
  <1>4. TypeOK'
    <2>1. lastSample' \in [sampleTimestamp : Nat, receivedTimestamp : Nat, smpCnt : SmpCnt, val : Nat]
      BY <1>1, <1>3, SampleTypes
    <2>2. received' \in Nat
      BY <1>2, <1>3
    <2> QED
      BY <1>1, <1>2, <2>1, <2>2 DEF StreamInv, TypeOK
  <1>5. StartOnce' /\ Pending'
    BY <1>2 DEF StreamInv, StartOnce, Pending
  <1>6. Chain'
    <2>1. Measures' = Measures /\ SampleTime(taken)' = SampleTime(taken)
      BY <1>2 DEF Measures, SampleTime, Interval
    <2> QED
      BY <1>2, <2>1 DEF StreamInv, Chain
  <1>7. Buffer'
    BY <1>2 DEF StreamInv, Buffer, Latest, AsduOf, Number, SampleTime, Interval
  <1>8. Network' /\ Behind(m)'
    BY <1>1, <1>2, <1>3, QuietNetwork
  <1>9. /\ SentAt(m)' = SentAt(m) /\ Message(m)' = Message(m) /\ attr'.samplesPerMessage = n
        /\ SampleOf(m, j + 1, sim.now)' = SampleOf(m, j + 1, sim.now)
    BY <1>2 DEF SentAt, Message, SampleOf, AsduOf, Number, SampleTime, Interval
  <1>10. (received + 1) % n = (j + 1) % n
    <2>1. received % n = j
      BY <1>1 DEF Count
    <2>2. ((received % n) + 1) % n = (received + 1) % n
      <3> HIDE DEF n
      <3> QED
        BY <1>3, Remainders
    <2> QED
      BY <2>1, <2>2
  <1>11. CASE j + 1 = n
    <2>1. (received + 1) % n = 0
      <3> HIDE DEF n
      <3>1. n = 1 * n + 0 /\ 0 \in 0 .. n - 1
        BY <1>3
      <3>2. (1 * n + 0) % n = 0
        BY <1>3, <3>1, DivisionUnique
      <3> QED
        BY <1>10, <1>11, <3>1, <3>2
    <2>2. Count(0)'
      BY <1>2, <2>1 DEF Count
    <2>3. Saw(m, attr.samplesPerMessage)'
      <3>1. PICK d \in Delays : sim.now = SentAt(m) + d
        BY <1>1
      <3>2. SampleOf(m, j + 1, sim.now) = SampleOf(m, n, SentAt(m) + d)
        BY <1>11, <3>1
      <3>3. SampleOf(m, n, SentAt(m) + d) = SampleOf(m, attr.samplesPerMessage, SentAt(m) + d)'
        BY <1>2 DEF SentAt, SampleOf, AsduOf, Number, SampleTime, Interval
      <3> QED
        BY <1>1, <3>2, <3>3 DEF Saw
    <2>4. m \in 1 .. sent' /\ rest' = <<>>
      BY <1>1, <1>2, <1>11
    <2>5. Idle' /\ Busy'
      BY <1>8, <2>2, <2>3, <2>4 DEF Idle, Busy
    <2> QED
      BY <1>4, <1>5, <1>6, <1>7, <1>8, <2>5 DEF StreamInv
  <1>12. CASE j + 1 # n
    <2>1. PICK i \in 1 .. n - 1 : i = j + 1
      BY <1>3, <1>12
    <2>2. i \in 0 .. n - 1 /\ i > 0 /\ i + 1 = j + 2 /\ m \in 1 .. sent' /\ rest' # <<>>
      BY <1>1, <1>2, <1>3, <1>12, <2>1
    <2>3. Count(i)'
      <3>1. i % n = i
        <4> HIDE DEF n
        <4>1. 0 * n + i = i
          BY <1>3, <2>2
        <4> QED
          BY <1>3, <2>2, <4>1, DivisionUnique
      <3> QED
        BY <1>2, <1>10, <2>1, <3>1 DEF Count
    <2>4. rest' = SubSeq(Message(m), i + 1, n)
      BY <1>1, <2>2
    <2>5. \E d \in Delays : sim'.now = SentAt(m)' + d
      BY <1>1, <1>2, <1>9
    <2>6. lastSample' = SampleOf(m, i, sim.now)'
      <3>1. SampleOf(m, i, sim.now)' = SampleOf(m, i, sim.now)
        BY <1>2 DEF SampleOf, AsduOf, Number, SampleTime, Interval
      <3> QED
        BY <1>1, <2>1, <3>1
    <2>7. Busy'
      BY <1>8, <1>9, <2>2, <2>3, <2>4, <2>5, <2>6 DEF Busy
    <2>8. Idle'
      BY <2>2 DEF Idle
    <2> QED
      BY <1>4, <1>5, <1>6, <1>7, <1>8, <2>7, <2>8 DEF StreamInv
  <1> QED
    BY <1>11, <1>12

-----------------------------------------------------------------------------
\* Every step of the applications and of the network keeps the invariant.
THEOREM StreamInvariant == Spec => []StreamInv
  <1>1. StreamInv /\ [Next]_vars => StreamInv'
    <2> SUFFICES ASSUME StreamInv, [Next]_vars PROVE StreamInv'
      OBVIOUS
    <2>1. CASE Next
      BY <2>1, StartPublisherInv, MeasureInv, StopPublisherInv, StartSubscriberInv,
         ReceiveInv, ListenerInv, StopSubscriberInv DEF Next
    <2>2. CASE UNCHANGED vars
      <3>1. /\ UNCHANGED <<attr, sim, publisher, svPublisher, count, sent, sampleIndex, eventId>>
            /\ UNCHANGED <<subscriber, rest, received, lastSample, taken>>
        BY <2>2 DEF vars, pubVars, subVars
      <3>2. TypeOK' /\ StartOnce' /\ Pending'
        BY <3>1 DEF StreamInv, TypeOK, StartOnce, Pending
      <3>3. Chain'
        BY <3>1 DEF StreamInv, Chain, Measures, SampleTime, Interval
      <3>4. Buffer'
        BY <3>1 DEF StreamInv, Buffer, Latest, AsduOf, Number, SampleTime, Interval
      <3>5. Network' /\ \A m \in Nat : Behind(m) => Behind(m)'
        BY <3>1, QuietNetwork
      <3>6. sent \in Nat
        BY DEF StreamInv, TypeOK
      <3>7. Idle' /\ Busy'
        <4>1. CASE rest = <<>>
          BY <3>1, <3>5, <3>6, <4>1, QuietSubscriber
        <4>2. CASE rest # <<>>
          <5> DEFINE n == attr.samplesPerMessage
          <5>1. PICK m \in 1 .. sent, j \in 0 .. n - 1 :
                    /\ rest = SubSeq(Message(m), j + 1, n)
                    /\ Behind(m)
                    /\ Count(j)
                    /\ \E d \in Delays : sim.now = SentAt(m) + d
                    /\ IF j > 0 THEN lastSample = SampleOf(m, j, sim.now)
                       ELSE received = 0 \/ \E k \in 1 .. m - 1 : Saw(k, n)
            BY <4>2 DEF StreamInv, Busy
          <5>2. m \in Nat /\ m \in 1 .. sent' /\ attr'.samplesPerMessage = n /\ rest' # <<>>
            BY <3>1, <3>6, <4>2
          <5>3. Message(m)' = Message(m) /\ SentAt(m)' = SentAt(m) /\ Behind(m)' /\ Count(j)'
            BY <3>1, <3>5, <5>1, <5>2, Frozen DEF Count
          <5>4. SampleOf(m, j, sim.now)' = SampleOf(m, j, sim.now)
            BY <3>1 DEF SampleOf, AsduOf, Number, SampleTime, Interval
          <5>5. \A k \in 1 .. m - 1 : Saw(k, n) => Saw(k, attr.samplesPerMessage)'
            BY <3>1 DEF Saw, SentAt, SampleOf, AsduOf, Number, SampleTime, Interval
          <5>6. /\ rest' = SubSeq(Message(m)', j + 1, attr'.samplesPerMessage)
                /\ \E d \in Delays : sim'.now = SentAt(m)' + d
                /\ IF j > 0 THEN lastSample' = SampleOf(m, j, sim.now)'
                   ELSE received' = 0 \/ \E k \in 1 .. m - 1 : Saw(k, attr.samplesPerMessage)'
            BY <3>1, <5>1, <5>2, <5>3, <5>4, <5>5
          <5>7. j \in 0 .. attr'.samplesPerMessage - 1
            BY <5>2
          <5>8. Busy'
            <6> HIDE DEF n
            <6> QED
              BY <5>2, <5>3, <5>6, <5>7 DEF Busy
          <5> QED
            BY <5>2, <5>8 DEF Idle
        <4> QED
          BY <4>1, <4>2
      <3> QED
        BY <3>2, <3>3, <3>4, <3>5, <3>7 DEF StreamInv
    <2> QED
      BY <2>1, <2>2
  <1> QED
    BY InitInv, <1>1, PTL DEF Spec

\* Every variable has its type, and Measure writes within the arrays of ASDUs.
THEOREM StreamTypes == Spec => []TypeOK
  <1>1. StreamInv => TypeOK
    BY DEF StreamInv
  <1> QED
    BY StreamInvariant, <1>1, PTL

\* OneMeasure: there is one chain of calls of Measure, and StopApplication ends it.
THEOREM OneMeasureChain == Spec => []OneMeasure
  <1>1. StreamInv => OneMeasure
    <2> SUFFICES ASSUME StreamInv PROVE OneMeasure
      OBVIOUS
    <2>1. /\ \A e, f \in Measures : e = f
          /\ \A e \in Measures : publisher = "running" /\ e.uid = eventId
          /\ publisher = "running" /\ count # 0 => Measures # {}
      BY DEF StreamInv, Chain
    <2> QED
      BY <2>1 DEF OneMeasure
  <1> QED
    BY StreamInvariant, <1>1, PTL

\* The times of two samples differ by whole intervals.
LEMMA SampleTimeSum ==
  ASSUME TypeOK, NEW a \in Nat, NEW b \in Nat
  PROVE  SampleTime(a + b) = SampleTime(a) + b * Interval(attr)
  <1>1. PICK i \in Nat : i = Interval(attr)
    BY AttrTypes
  <1>2. (a + b) * i = a * i + b * i
    OBVIOUS
  <1> QED
    BY <1>1, <1>2 DEF SampleTime

\* MessageCoherent: a message on its way is one of the messages AsduOf describes.
THEOREM MessagesCoherent == Spec => []MessageCoherent
  <1>1. StreamInv => MessageCoherent
    <2> SUFFICES ASSUME StreamInv, NEW q \in InFlight
                 PROVE  /\ Len(q) = attr.samplesPerMessage /\ q[1].val # Unset
                        /\ \A j \in 1 .. Len(q) : /\ q[j].val = q[1].val + (j - 1) * Interval(attr)
                                                  /\ q[j].smpCnt = q[1].smpCnt
      BY DEF MessageCoherent
    <2> DEFINE n == attr.samplesPerMessage
    <2>1. TypeOK /\ sent \in Nat /\ n \in Nat \ {0}
      BY AttrTypes DEF StreamInv, TypeOK
    <2>2. PICK e \in sim.pending :
              e.fn.name = "Receive" /\ e.fn.frame \notin attr.noise /\ q = e.fn.frame.asdus
      BY DEF InFlight
    <2>3. PICK m \in 1 .. sent : e.fn.frame = FrameOf(m)
      BY <2>2 DEF StreamInv, Network, Carries
    <2>4. m \in Nat \ {0} /\ 1 \in 1 .. n
      BY <2>1
    <2>5. Len(q) = n /\ \A j \in 1 .. n : q[j] = AsduOf(m, j)
      BY <2>1, <2>2, <2>3, <2>4, MessageFrames
    <2>6. \A j \in 1 .. n : /\ q[j].val = SampleTime(Number(m, j)) /\ q[j].smpCnt = m % SmpCntLimit
                            /\ q[j].val \in Nat
      <3> SUFFICES ASSUME NEW j \in 1 .. n
                   PROVE  /\ q[j].val = SampleTime(Number(m, j)) /\ q[j].smpCnt = m % SmpCntLimit
                          /\ q[j].val \in Nat
        OBVIOUS
      <3>1. /\ AsduOf(m, j).val = SampleTime(Number(m, j)) /\ AsduOf(m, j).smpCnt = m % SmpCntLimit
            /\ AsduOf(m, j).val \in Nat
        BY <2>1, <2>4, AsduTypes
      <3> QED
        BY <2>5, <3>1
    <2>7. \A j \in 1 .. n : q[j].val = q[1].val + (j - 1) * Interval(attr)
      <3> SUFFICES ASSUME NEW j \in 1 .. n PROVE q[j].val = q[1].val + (j - 1) * Interval(attr)
        OBVIOUS
      <3>1. PICK b \in Nat : b = j - 1
        BY <2>1
      <3>2. PICK a \in Nat : a = Number(m, 1)
        BY <2>1, <2>4, Numbers
      <3>3. Number(m, j) = a + b
        BY <2>1, <2>4, <3>1, <3>2, Numbers
      <3>4. SampleTime(a + b) = SampleTime(a) + b * Interval(attr)
        BY <2>1, SampleTimeSum
      <3> QED
        BY <2>4, <2>6, <3>1, <3>2, <3>3, <3>4
    <2>8. q[1].val # Unset
      BY <2>4, <2>6 DEF Unset
    <2> QED
      BY <2>4, <2>5, <2>6, <2>7, <2>8
  <1> QED
    BY StreamInvariant, <1>1, PTL

\* The last sample the subscriber received is one of a message.
LEMMA LastSample ==
  ASSUME StreamInv, received > 0
  PROVE  \E m \in 1 .. sent, j \in 1 .. attr.samplesPerMessage, d \in Delays :
            lastSample = SampleOf(m, j, SentAt(m) + d)
  <1> DEFINE n == attr.samplesPerMessage
  <1>1. sent \in Nat /\ n \in Nat \ {0} /\ received \in Nat
    BY AttrTypes DEF StreamInv, TypeOK
  <1>2. n \in 1 .. n
    BY <1>1
  <1>3. CASE rest = <<>>
    <2>1. \E m \in 1 .. sent : Saw(m, n)
      BY <1>1, <1>3 DEF StreamInv, Idle
    <2> QED
      BY <1>2, <2>1 DEF Saw
  <1>4. CASE rest # <<>>
    <2>1. PICK m \in 1 .. sent, j \in 0 .. n - 1 :
              /\ \E d \in Delays : sim.now = SentAt(m) + d
              /\ IF j > 0 THEN lastSample = SampleOf(m, j, sim.now)
                 ELSE received = 0 \/ \E k \in 1 .. m - 1 : Saw(k, n)
      BY <1>4 DEF StreamInv, Busy
    <2>2. CASE j > 0
      <3>1. j \in 1 .. n
        BY <1>1, <2>2
      <3> QED
        BY <2>1, <2>2, <3>1
    <2>3. CASE ~(j > 0)
      <3>1. PICK k \in 1 .. m - 1 : Saw(k, n)
        BY <1>1, <2>1, <2>3
      <3>2. k \in 1 .. sent
        BY <1>1
      <3> QED
        BY <1>2, <3>1, <3>2 DEF Saw
    <2> QED
      BY <2>2, <2>3
  <1> QED
    BY <1>3, <1>4

\* SampleAge: how far the time stamp and the time of reception are from the sample.
THEOREM SamplesAged == Spec => []SampleAge
  <1>1. StreamInv => SampleAge
    <2> SUFFICES ASSUME StreamInv, received > 0
                 PROVE  /\ InEpoch(lastSample.val) =>
                                /\ lastSample.sampleTimestamp =< lastSample.val
                                /\ lastSample.val =< lastSample.sampleTimestamp + Resolution
                        /\ \E k \in 0 .. attr.samplesPerMessage - 1, d \in Delays :
                                lastSample.receivedTimestamp = lastSample.val + k * Interval(attr) + d
      BY DEF SampleAge
    <2> DEFINE n == attr.samplesPerMessage
    <2>1. TypeOK /\ sent \in Nat /\ n \in Nat \ {0}
      BY AttrTypes DEF StreamInv, TypeOK
    <2>2. PICK m \in 1 .. sent, j \in 1 .. n, d \in Delays :
              lastSample = SampleOf(m, j, SentAt(m) + d)
      BY LastSample
    <2>3. m \in Nat \ {0} /\ n \in 1 .. n /\ d \in Nat
      BY <2>1, StreamAssumption
    <2>4. PICK a \in Nat : a = Number(m, j)
      BY <2>1, <2>3, Numbers
    <2>5. PICK b \in 0 .. n - 1 : b = n - j
      BY <2>1
    <2>6. b \in Nat /\ Number(m, n) = a + b
      <3>1. Number(m, n) = Number(m, 1) + (n - 1) /\ a = Number(m, 1) + (j - 1)
        BY <2>1, <2>3, <2>4, Numbers
      <3>2. Number(m, 1) \in Nat
        <4>1. 1 \in 1 .. n
          BY <2>1
        <4> QED
          BY <2>1, <2>3, <4>1, Numbers
      <3> QED
        BY <2>1, <2>5, <3>1, <3>2
    <2>7. SentAt(m) = SampleTime(a) + b * Interval(attr)
      <3>1. SampleTime(a + b) = SampleTime(a) + b * Interval(attr)
        BY <2>1, <2>6, SampleTimeSum
      <3> QED
        BY <2>6, <3>1 DEF SentAt
    <2>8. SampleTime(a) \in Nat /\ SentAt(m) \in Nat
      <3>1. Number(m, n) \in Nat
        BY <2>6
      <3> QED
        BY <2>1, <3>1, SampleTimes DEF SentAt
    <2>9. /\ lastSample.val = SampleTime(a) /\ lastSample.receivedTimestamp = SentAt(m) + d
          /\ lastSample.sampleTimestamp =
                Timestamp_getTimeInNs(Timestamp_setTimeInNanoseconds(SampleTime(a)))
      <3>1. PICK t \in Nat : t = SentAt(m) + d
        BY <2>3, <2>8
      <3> QED
        BY <2>1, <2>2, <2>3, <2>4, <3>1, SampleTypes
    <2>10. InEpoch(lastSample.val) =>
                /\ lastSample.sampleTimestamp =< lastSample.val
                /\ lastSample.val =< lastSample.sampleTimestamp + Resolution
      BY <2>8, <2>9, TimestampRoundTrip
    <2>11. lastSample.receivedTimestamp = lastSample.val + b * Interval(attr) + d
      BY <2>7, <2>9
    <2> QED
      BY <2>10, <2>11
  <1> QED
    BY StreamInvariant, <1>1, PTL

-----------------------------------------------------------------------------
\* Only the listener counts a sample.
LEMMA OnlyListener ==
  ASSUME StreamInv, [Next]_vars, received' = received + 1
  PROVE  Listener
  <1>1. received \in Nat /\ received' # received /\ received' # 0
    BY DEF StreamInv, TypeOK
  <1>2. CASE Next
    BY <1>1, <1>2 DEF Next, StartPublisher, Measure, StopPublisher, StartSubscriber, Receive,
                      StopSubscriber, subVars
  <1>3. CASE UNCHANGED vars
    BY <1>1, <1>3 DEF vars, subVars
  <1> QED
    BY <1>2, <1>3

\* A sample that is counted after another one is a later one: ASDU i of message
\* k came before ASDU j of message m.
LEMMA TwoSamples ==
  ASSUME StreamInv, [Next]_vars, received > 0, received' = received + 1
  PROVE  LET n == attr.samplesPerMessage
         IN  \E k, m \in 1 .. sent, i, j \in 1 .. n :
                /\ lastSample.val = SampleTime(Number(k, i))
                /\ lastSample.smpCnt = k % SmpCntLimit
                /\ lastSample.sampleTimestamp =
                    Timestamp_getTimeInNs(Timestamp_setTimeInNanoseconds(SampleTime(Number(k, i))))
                /\ lastSample'.val = SampleTime(Number(m, j))
                /\ lastSample'.smpCnt = m % SmpCntLimit
                /\ lastSample'.sampleTimestamp =
                    Timestamp_getTimeInNs(Timestamp_setTimeInNanoseconds(SampleTime(Number(m, j))))
                /\ IF received % n = 0 THEN k < m /\ i = n /\ j = 1 ELSE k = m /\ j = i + 1
  <1> DEFINE n == attr.samplesPerMessage
  <1>1. /\ TypeOK /\ sent \in Nat /\ n \in Nat \ {0} /\ received \in Nat /\ sim.now \in Nat
    <2>1. TypeOK /\ n \in Nat \ {0}
      BY AttrTypes DEF StreamInv
    <2> QED
      BY <2>1 DEF TypeOK, Simulator
  <1>2. PICK m \in 1 .. sent, j \in 0 .. n - 1 :
            /\ Count(j)
            /\ lastSample' = SampleOf(m, j + 1, sim.now)
            /\ IF j > 0 THEN lastSample = SampleOf(m, j, sim.now)
               ELSE received = 0 \/ \E k \in 1 .. m - 1 : Saw(k, n)
    BY OnlyListener, ListenerSees
  <1>3. PICK l \in 1 .. n : l = j + 1
    BY <1>1
  <1>4. /\ lastSample'.val = SampleTime(Number(m, l))
        /\ lastSample'.smpCnt = m % SmpCntLimit
        /\ lastSample'.sampleTimestamp =
                Timestamp_getTimeInNs(Timestamp_setTimeInNanoseconds(SampleTime(Number(m, l))))
    <2>1. m \in Nat \ {0}
      BY <1>1
    <2> QED
      BY <1>1, <1>2, <1>3, <2>1, SampleTypes
  <1>5. CASE j > 0
    <2>1. j \in 1 .. n /\ m \in Nat \ {0}
      BY <1>1, <1>5
    <2>2. /\ lastSample.val = SampleTime(Number(m, j))
          /\ lastSample.smpCnt = m % SmpCntLimit
          /\ lastSample.sampleTimestamp =
                Timestamp_getTimeInNs(Timestamp_setTimeInNanoseconds(SampleTime(Number(m, j))))
      <3>1. lastSample = SampleOf(m, j, sim.now)
        BY <1>2, <1>5
      <3> HIDE DEF n
      <3>2. j \in 1 .. attr.samplesPerMessage
        BY <2>1 DEF n
      <3> QED
        BY <1>1, <2>1, <3>1, <3>2, SampleTypes
    <2>3. received % n # 0
      BY <1>2, <1>5 DEF Count
    <2> HIDE DEF n
    <2> QED
      BY <1>3, <1>4, <2>1, <2>2, <2>3 DEF n
  <1>6. CASE ~(j > 0)
    <2>1. j = 0 /\ l = 1 /\ received % n = 0
      BY <1>1, <1>2, <1>3, <1>6 DEF Count
    <2>2. PICK k \in 1 .. m - 1 : Saw(k, n)
      BY <1>1, <1>2, <1>6
    <2>3. k \in 1 .. sent /\ k < m /\ k \in Nat \ {0} /\ n \in 1 .. n
      BY <1>1
    <2>4. PICK d \in Delays : lastSample = SampleOf(k, n, SentAt(k) + d)
      BY <2>2 DEF Saw
    <2>5. PICK t \in Nat : t = SentAt(k) + d
      <3>1. Number(k, n) \in Nat
        BY <1>1, <2>3, Numbers
      <3>2. SentAt(k) \in Nat /\ d \in Nat
        BY <1>1, <3>1, SampleTimes, StreamAssumption DEF SentAt
      <3> QED
        BY <3>2
    <2>6. /\ lastSample.val = SampleTime(Number(k, n))
          /\ lastSample.smpCnt = k % SmpCntLimit
          /\ lastSample.sampleTimestamp =
                Timestamp_getTimeInNs(Timestamp_setTimeInNanoseconds(SampleTime(Number(k, n))))
      BY <1>1, <2>3, <2>4, <2>5, SampleTypes
    <2> HIDE DEF n
    <2> QED
      BY <1>4, <2>1, <2>3, <2>6 DEF n
  <1> QED
    BY <1>5, <1>6

\* TimestampsIncrease: the time stamps of two samples keep their order.
THEOREM TimestampsOrdered == Spec => TimestampsIncrease
  <1>1. StreamInv /\ [Next]_vars =>
            [received > 0 /\ received' = received + 1 /\ InEpoch(lastSample'.val) =>
                lastSample'.sampleTimestamp > lastSample.sampleTimestamp]_vars
    <2> SUFFICES ASSUME StreamInv, [Next]_vars, received > 0, received' = received + 1,
                        InEpoch(lastSample'.val)
                 PROVE  lastSample'.sampleTimestamp > lastSample.sampleTimestamp
      OBVIOUS
    <2> DEFINE n == attr.samplesPerMessage
               stamp(t) == Timestamp_getTimeInNs(Timestamp_setTimeInNanoseconds(t))
    <2>1. PICK k \in 1 .. sent, m \in 1 .. sent, i \in 1 .. n, j \in 1 .. n :
              /\ lastSample.val = SampleTime(Number(k, i))
              /\ lastSample.sampleTimestamp = stamp(SampleTime(Number(k, i)))
              /\ lastSample'.val = SampleTime(Number(m, j))
              /\ lastSample'.sampleTimestamp = stamp(SampleTime(Number(m, j)))
              /\ IF received % n = 0 THEN k < m /\ i = n /\ j = 1 ELSE k = m /\ j = i + 1
      BY TwoSamples
    <2>2. TypeOK /\ sent \in Nat /\ n \in Nat \ {0}
      BY AttrTypes DEF StreamInv, TypeOK
    <2>3. k \in Nat \ {0} /\ m \in Nat \ {0}
      BY <2>2
    <2>4. Number(k, i) \in Nat /\ Number(m, j) \in Nat /\ Number(k, i) < Number(m, j)
      <3>1. Number(k, i) \in Nat /\ Number(m, j) \in Nat
        BY <2>2, <2>3, Numbers
      <3>2. k < m => Number(k, i) < Number(m, j)
        BY <2>2, <2>3, Numbers
      <3>3. k = m /\ i < j => Number(k, i) < Number(m, j)
        BY <2>2, <2>3, Numbers
      <3>4. k < m \/ (k = m /\ i < j)
        BY <2>1, <2>2
      <3> QED
        BY <3>1, <3>2, <3>3, <3>4
    <2>5. PICK x \in Nat : x = SampleTime(Number(k, i))
      BY <2>2, <2>4, SampleTimes
    <2>6. PICK y \in Nat : y = SampleTime(Number(m, j))
      BY <2>2, <2>4, SampleTimes
    <2>7. x + NsPerUs =< y
      BY <2>2, <2>4, <2>5, <2>6, SampleTimes
    <2>8. InEpoch(y)
      BY <2>1, <2>6
    <2>9. InEpoch(x)
      <3>1. SecsMod * NsPerSec \in Nat
        BY UtcTimeAssumption, Products
      <3> QED
        BY <2>7, <2>8, <3>1, StreamAssumption DEF InEpoch
    <2>10. stamp(x) \in Nat /\ stamp(x) =< x /\ stamp(y) \in Nat /\ y =< stamp(y) + Resolution
      BY <2>8, <2>9, TimestampRoundTrip
    <2>11. lastSample.sampleTimestamp = stamp(x) /\ lastSample'.sampleTimestamp = stamp(y)
      BY <2>1, <2>5, <2>6
    <2>12. Resolution \in Nat /\ Resolution < NsPerUs /\ NsPerUs \in Nat
      <3>1. NsPerSec \div FracMod \in Nat
        BY UtcTimeAssumption, Division
      <3> QED
        BY <3>1, StreamAssumption DEF Resolution
    <2> HIDE DEF stamp
    <2>13. stamp(x) < stamp(y)
      <3>1. PICK u \in Nat : u = stamp(x)
        BY <2>10
      <3>2. PICK v \in Nat : v = stamp(y)
        BY <2>10
      <3>3. u =< x /\ y =< v + Resolution
        BY <2>10, <3>1, <3>2
      <3>4. u < v
        BY <2>7, <2>12, <3>3
      <3> QED
        BY <3>1, <3>2, <3>4
    <2> QED
      BY <2>10, <2>11, <2>13
  <1> QED
    BY StreamInvariant, <1>1, PTL DEF Spec, TimestampsIncrease

\* SamplesAccounted: the values and the counters of two samples tell how many
\* samples and messages are between them.
THEOREM SamplesAccountedFor == Spec => SamplesAccounted
  <1>1. ASSUME StreamInv, [Next]_vars, received > 0, received' = received + 1
        PROVE  LET steps == (lastSample'.val - lastSample.val) \div Interval(attr)
                   counted == (lastSample'.smpCnt + SmpCntLimit - lastSample.smpCnt) % SmpCntLimit
                   m == attr.samplesPerMessage
               IN  IF received % m = 0
                   THEN steps % m = 1 % m /\ counted = ((steps - 1) \div m + 1) % SmpCntLimit
                   ELSE steps = 1 /\ counted = 0
    <2> DEFINE n == attr.samplesPerMessage
               steps == (lastSample'.val - lastSample.val) \div Interval(attr)
               counted == (lastSample'.smpCnt + SmpCntLimit - lastSample.smpCnt) % SmpCntLimit
    <2>1. PICK k \in 1 .. sent, m \in 1 .. sent, i \in 1 .. n, j \in 1 .. n :
              /\ lastSample.val = SampleTime(Number(k, i))
              /\ lastSample.smpCnt = k % SmpCntLimit
              /\ lastSample'.val = SampleTime(Number(m, j))
              /\ lastSample'.smpCnt = m % SmpCntLimit
              /\ IF received % n = 0 THEN k < m /\ i = n /\ j = 1 ELSE k = m /\ j = i + 1
      BY <1>1, TwoSamples
    <2>2. TypeOK /\ sent \in Nat /\ n \in Nat \ {0} /\ Interval(attr) \in Nat \ {0}
      BY <1>1, AttrTypes DEF StreamInv, TypeOK
    <2>3. k \in Nat \ {0} /\ m \in Nat \ {0} /\ SmpCntLimit \in Nat \ {0}
      BY <2>2, SvPublisherAssumption
    <2>4. /\ Number(k, i) \in Nat /\ Number(m, j) \in Nat
          /\ Number(k, i) = (k - 1) * n + (i - 1) /\ Number(m, j) = (m - 1) * n + (j - 1)
      BY <2>2, <2>3, Numbers
    <2>5. counted = (m - k) % SmpCntLimit
      <3>1. k =< m
        BY <2>1, <2>3
      <3>2. ((m % SmpCntLimit) + SmpCntLimit - (k % SmpCntLimit)) % SmpCntLimit = (m - k) % SmpCntLimit
        BY <2>3, <3>1, Remainders
      <3> QED
        BY <2>1, <3>2
    <2>6. ASSUME NEW b \in Nat, Number(m, j) = Number(k, i) + b PROVE steps = b
      <3>1. PICK a \in Nat : a = Number(k, i)
        BY <2>4
      <3>2. SampleTime(a + b) = SampleTime(a) + b * Interval(attr) /\ SampleTime(a) \in Nat
        BY <2>2, SampleTimeSum, SampleTimes
      <3>3. b * Interval(attr) \in Nat
        BY <2>2, Products
      <3>4. SampleTime(a + b) - SampleTime(a) = b * Interval(attr) + 0
        BY <3>2, <3>3
      <3>5. lastSample'.val = SampleTime(a + b) /\ lastSample.val = SampleTime(a)
        BY <2>1, <2>6, <3>1
      <3>6. (b * Interval(attr) + 0) \div Interval(attr) = b
        <4>1. PICK l \in Nat \ {0} : l = Interval(attr)
          BY <2>2
        <4>2. 0 \in 0 .. l - 1
          BY <4>1
        <4>3. (b * l + 0) \div l = b
          BY <4>2, DivisionUnique
        <4> QED
          BY <4>1, <4>3
      <3> QED
        BY <3>4, <3>5, <3>6
    <2> HIDE DEF steps, counted
    <2>7. CASE received % n = 0
      <3>1. k < m /\ i = n /\ j = 1
        BY <2>1, <2>7
      <3>2. PICK c \in Nat : m = k + 1 + c
        <4>1. m - k - 1 \in Nat /\ m = k + 1 + (m - k - 1)
          BY <2>3, <3>1
        <4> QED
          BY <4>1
      <3>3. PICK x \in Nat : x = k - 1
        BY <2>3
      <3> HIDE DEF n
      <3>4. /\ x * n \in Nat /\ c * n \in Nat
            /\ (m - 1) * n = x * n + n + c * n
        <4>1. m - 1 = x + 1 + c
          BY <2>3, <3>2, <3>3
        <4>2. (x + 1 + c) * n = x * n + n + c * n
          BY <2>2, <3>2, <3>3
        <4> QED
          BY <2>2, <3>2, <3>3, <4>1, <4>2, Products
      <3>5. PICK b \in Nat : b = c * n + 1
        BY <3>4
      <3>6. Number(m, j) = Number(k, i) + b
        <4>1. Number(k, i) = x * n + (n - 1) /\ Number(m, j) = x * n + n + c * n + (1 - 1)
          BY <2>4, <3>1, <3>3, <3>4
        <4> QED
          BY <2>2, <3>4, <3>5, <4>1
      <3>7. steps = b
        BY <2>6, <3>6
      <3>8. b % n = 1 % n
        <4>1. CASE n = 1
          <5>1. b = b * 1 + 0 /\ 1 = 1 * 1 + 0 /\ 0 \in 0 .. 1 - 1
            OBVIOUS
          <5>2. (b * 1 + 0) % 1 = 0 /\ (1 * 1 + 0) % 1 = 0
            BY <5>1, DivisionUnique
          <5> QED
            BY <4>1, <5>1, <5>2
        <4>2. CASE n # 1
          <5>1. 1 \in 0 .. n - 1 /\ 1 = 0 * n + 1
            BY <2>2, <4>2
          <5>2. (c * n + 1) % n = 1 /\ (0 * n + 1) % n = 1
            BY <2>2, <3>2, <5>1, DivisionUnique
          <5> QED
            BY <3>5, <5>1, <5>2
        <4> QED
          BY <4>1, <4>2
      <3>9. (b - 1) \div n + 1 = m - k
        <4>1. b - 1 = c * n + 0 /\ 0 \in 0 .. n - 1
          BY <2>2, <3>4, <3>5
        <4>2. (c * n + 0) \div n = c
          BY <2>2, <3>2, <4>1, DivisionUnique
        <4>3. (b - 1) \div n = c
          BY <4>1, <4>2
        <4> QED
          BY <2>3, <3>2, <4>3
      <3>10. steps % n = 1 % n /\ counted = ((steps - 1) \div n + 1) % SmpCntLimit
        BY <2>5, <3>7, <3>8, <3>9
      <3> QED
        BY <2>7, <3>10 DEF steps, counted, n
    <2>8. CASE received % n # 0
      <3>1. k = m /\ j = i + 1
        BY <2>1, <2>8
      <3>2. Number(m, j) = Number(k, i) + 1
        <4>1. PICK y \in Nat : y = (m - 1) * n
          <5>1. PICK x \in Nat : x = m - 1
            BY <2>3
          <5> QED
            BY <2>2, <5>1, Products
        <4> QED
          BY <2>2, <2>4, <3>1, <4>1
      <3>3. steps = 1
        BY <2>6, <3>2
      <3>4. counted = 0
        <4>1. m - k = 0 /\ 0 * SmpCntLimit + 0 = 0 /\ 0 \in 0 .. SmpCntLimit - 1
          BY <2>3, <3>1
        <4>2. (0 * SmpCntLimit + 0) % SmpCntLimit = 0
          BY <2>3, <4>1, DivisionUnique
        <4> QED
          BY <2>5, <4>1, <4>2
      <3> QED
        BY <2>8, <3>3, <3>4 DEF steps, counted, n
    <2> QED
      BY <2>7, <2>8
  <1>2. StreamInv /\ [Next]_vars => SamplesAccounted!1
    BY <1>1
  <1> QED
    BY StreamInvariant, <1>2, PTL DEF Spec, SamplesAccounted
=============================================================================
