--------------------------- MODULE GooseLinkProofs ---------------------------
(***************************************************************************)
(* Proofs about the GOOSE link: what one frame does to the subscribers,    *)
(* and the invariants of FifoSpec.                                         *)
(***************************************************************************)
EXTENDS GooseLink, GooseReceiverProofs

-----------------------------------------------------------------------------
\* What parseGoosePayload does to the matching subscriber, as far as the
\* invariants tell: its type, who owns the data set, the numbers it remembers,
\* when it is valid and what the data set then is.
LEMMA ParsePayloadEffect ==
    ASSUME NEW self \in Subscriber, NEW f \in FrameType,
           self.dataSet.alloc = "receiver" => self.selfAllocated,
           self.dataSet.alloc = "app" => ~self.selfAllocated,
           ~self.isObserver /\ ~self.selfAllocated => self.dataSet.alloc = "app"
    PROVE  LET s == ParsePayload(self, f)
           IN  /\ s \in Subscriber
               /\ s.isObserver = self.isObserver /\ s.appId = self.appId
               /\ s.goCBRef = f.goCBRef /\ s.stNum = f.stNum /\ s.sqNum = f.sqNum
               /\ s.stateValid => InSequence(self, f)
               /\ s.dataSet.alloc = "receiver" => s.selfAllocated
               /\ s.dataSet.alloc = "app" => ~s.selfAllocated
               /\ ~s.isObserver /\ ~s.selfAllocated => s.dataSet.alloc = "app"
               /\ s.stateValid /\ s.dataSet # NoDataSet =>
                      /\ Len(s.dataSet.slots) = Len(f.data)
                      /\ \A k \in 1 .. Len(f.data) : f.data[k].tag # "reserved" =>
                             /\ s.dataSet.slots[k].type = f.data[k].tag
                             /\ s.dataSet.slots[k].val = f.data[k].val
<1> DEFINE s == ParsePayload(self, f)
           kept == DataSetKept(self, f)
<1>1. f.data \in Seq(Element) /\ \A k \in 1 .. Len(f.data) : ~LeftOut(f.data[k])
  BY DEF FrameType, Encodable
<1>2. /\ f.goCBRef \in STRING /\ f.stNum \in Nat /\ f.sqNum \in Nat /\ f.confRev \in Nat
      /\ f.timeAllowedToLive \in Int
  <2>1. Refs \subseteq STRING /\ TimeAllowedToLive \in Int /\ MaxConfRev \in Nat
    BY LinkAssumption
  <2>2. \A n \in Counter : n \in Nat
    BY CounterModAssumption DEF Counter
  <2>3. f.goCBRef \in Refs /\ f.timeAllowedToLive = TimeAllowedToLive
    BY DEF FrameType
  <2>4. f.stNum \in Counter /\ f.sqNum \in Counter /\ f.confRev \in 1 .. MaxConfRev
    BY DEF FrameType
  <2>5. f.goCBRef \in STRING
    BY <2>1, <2>3
  <2>6. f.confRev \in Nat
    BY <2>1, <2>4
  <2> QED
    BY <2>1, <2>2, <2>3, <2>4, <2>5, <2>6
<1>3. kept \in [alloc : {"none", "app", "receiver"}, slots : Seq(Slot)]
  <2>1. NoDataSet \in [alloc : {"none", "app", "receiver"}, slots : Seq(Slot)]
    BY DEF NoDataSet
  <2> QED
    BY <2>1 DEF DataSetKept, Subscriber
<1>4. InSequence(self, f) \in BOOLEAN /\ SelfAllocated(self, f) \in BOOLEAN
  BY DEF InSequence, SelfAllocated, Subscriber
<1>5. /\ Parsed(kept, f.data).slots \in Seq(Slot)
      /\ Parsed(kept, f.data).error \in GooseParseError
  <2>1. CASE kept # NoDataSet
    <3>1. kept.slots \in Seq(Slot)
      BY <1>3
    <3>2. Parsed(kept, f.data) = parseAllData(kept.slots, f.data)
      BY <2>1 DEF Parsed
    <3> HIDE DEF kept
    <3> QED
      BY <1>1, <3>1, <3>2, ParseAllDataType
  <2>2. CASE kept = NoDataSet
    <3>1. /\ Learnable(f.data) => parseAllDataUnknownValue(f.data) \in Seq(Slot)
          /\ <<>> \in Seq(Slot)
      BY <1>1, LearnedType
    <3> HIDE DEF kept
    <3> QED
      BY <2>2, <3>1 DEF Parsed, GooseParseError
  <2> QED
    BY <2>1, <2>2
<1>6. NewDataSet(kept, f.data) \in [alloc : {"none", "app", "receiver"}, slots : Seq(Slot)]
  BY <1>3, <1>5 DEF NewDataSet
<1>7. /\ s.isObserver = self.isObserver /\ s.appId = self.appId /\ s.dstMacSet = self.dstMacSet
      /\ s.goCBRef = f.goCBRef /\ s.stNum = f.stNum /\ s.sqNum = f.sqNum
      /\ s.dataSet = NewDataSet(kept, f.data)
      /\ s.selfAllocated = SelfAllocated(self, f)
      /\ s.stateValid = (Parsed(kept, f.data).error = "NO_ERROR" /\ InSequence(self, f))
  BY DEF ParsePayload, Subscriber
<1>8. s \in Subscriber
  <2> DEFINE e == IF kept = NoDataSet THEN self.parseError ELSE Parsed(kept, f.data).error
             v == Parsed(kept, f.data).error = "NO_ERROR" /\ InSequence(self, f)
  <2>2. e \in GooseParseError
    BY <1>5 DEF Subscriber
  <2>3. v \in BOOLEAN
    OBVIOUS
  <2>4. s = [self EXCEPT !.goCBRef = f.goCBRef, !.dataSet = NewDataSet(kept, f.data),
                !.selfAllocated = SelfAllocated(self, f), !.parseError = e, !.stateValid = v,
                !.confRev = f.confRev, !.stNum = f.stNum, !.sqNum = f.sqNum,
                !.timeLeft = f.timeAllowedToLive]
    BY DEF ParsePayload
  <2> HIDE DEF s, e, v, kept
  <2> QED
    BY <1>2, <1>4, <1>6, <2>2, <2>3, <2>4 DEF Subscriber
<1>9. /\ s.dataSet.alloc = IF kept = NoDataSet /\ Learnable(f.data) THEN "receiver" ELSE kept.alloc
      /\ s.dataSet.slots = Parsed(kept, f.data).slots
  BY <1>7 DEF NewDataSet
<1>10. kept = NoDataSet \/ kept = self.dataSet
  BY DEF DataSetKept
<1>11. ~self.isObserver /\ ~self.selfAllocated => kept = self.dataSet
  BY DEF DataSetKept
<1>12. self.dataSet.alloc = "app" => self.dataSet # NoDataSet
  BY DEF NoDataSet
<1>13. /\ s.dataSet.alloc = "receiver" => s.selfAllocated
       /\ s.dataSet.alloc = "app" => ~s.selfAllocated
       /\ ~s.isObserver /\ ~s.selfAllocated => s.dataSet.alloc = "app"
  <2>1. self.selfAllocated \in BOOLEAN
    BY DEF Subscriber
  <2>2. s.dataSet.alloc = "receiver" => s.selfAllocated
    <3>1. kept = NoDataSet /\ Learnable(f.data) => SelfAllocated(self, f)
      BY DEF SelfAllocated
    <3>2. kept.alloc = "receiver" => self.selfAllocated
      BY <1>10 DEF NoDataSet
    <3>3. self.selfAllocated => SelfAllocated(self, f)
      BY DEF SelfAllocated
    <3> QED
      BY <1>7, <1>9, <3>1, <3>2, <3>3
  <2>3. s.dataSet.alloc = "app" => ~s.selfAllocated
    <3>1. kept.alloc = "app" => kept # NoDataSet /\ ~self.selfAllocated
      BY <1>10 DEF NoDataSet
    <3>2. kept # NoDataSet /\ ~self.selfAllocated => ~SelfAllocated(self, f)
      BY DEF SelfAllocated
    <3> QED
      BY <1>7, <1>9, <3>1, <3>2
  <2>4. ~s.isObserver /\ ~s.selfAllocated => s.dataSet.alloc = "app"
    <3>1. ~SelfAllocated(self, f) => ~self.selfAllocated
      BY DEF SelfAllocated
    <3> QED
      BY <1>7, <1>9, <1>11, <1>12, <3>1
  <2> QED
    BY <2>2, <2>3, <2>4
<1>14. ASSUME s.stateValid, s.dataSet # NoDataSet
       PROVE  /\ Len(s.dataSet.slots) = Len(f.data)
              /\ \A k \in 1 .. Len(f.data) : f.data[k].tag # "reserved" =>
                     /\ s.dataSet.slots[k].type = f.data[k].tag
                     /\ s.dataSet.slots[k].val = f.data[k].val
  <2>1. Parsed(kept, f.data).error = "NO_ERROR"
    BY <1>7, <1>14
  <2>2. CASE kept # NoDataSet
    <3>1. Parsed(kept, f.data) = parseAllData(kept.slots, f.data)
      BY <2>2 DEF Parsed
    <3>2. kept.slots \in Seq(Slot)
      BY <1>3
    <3>3. s.dataSet.slots = parseAllData(kept.slots, f.data).slots
      BY <1>9, <3>1
    <3>4. parseAllData(kept.slots, f.data).error = "NO_ERROR"
      BY <2>1, <3>1
    <3> HIDE DEF s, kept
    <3> QED
      BY <1>1, <3>2, <3>3, <3>4, ParseAllDataWrites
  <2>3. CASE kept = NoDataSet
    <3>1. CASE Learnable(f.data)
      <4>1. s.dataSet.slots = parseAllDataUnknownValue(f.data)
        BY <1>9, <2>3, <3>1 DEF Parsed
      <4> HIDE DEF s, kept
      <4> QED
        BY <1>1, <3>1, <4>1, LearnedType, LearnedWrites
    <3>2. CASE ~Learnable(f.data)
      <4>1. NewDataSet(kept, f.data) = NoDataSet
        BY <2>3, <3>2 DEF NewDataSet, Parsed, NoDataSet
      <4> QED
        BY <4>1, <1>7, <1>14
    <3> QED
      BY <3>1, <3>2
  <2> QED
    BY <2>2, <2>3
<1>15. s.stateValid => InSequence(self, f)
  BY <1>7
<1> HIDE DEF s
<1>16. s.stateValid /\ s.dataSet # NoDataSet =>
          /\ Len(s.dataSet.slots) = Len(f.data)
          /\ \A k \in 1 .. Len(f.data) : f.data[k].tag # "reserved" =>
                 /\ s.dataSet.slots[k].type = f.data[k].tag
                 /\ s.dataSet.slots[k].val = f.data[k].val
  BY <1>14
<1> QED
  BY <1>7, <1>8, <1>13, <1>15, <1>16 DEF s

\* An observer that notes the header of a frame changes nothing but its APPID.
LEMMA NoteHeaderEffect ==
    ASSUME NEW list \in Seq(Subscriber), NEW f \in FrameType
    PROVE  LET noted == NoteHeader(list, f)
           IN  /\ noted \in Seq(Subscriber)
               /\ Len(noted) = Len(list)
               /\ \A j \in 1 .. Len(list) : \E a \in Int :
                      /\ noted[j] = [list[j] EXCEPT !.appId = a]
                      /\ list[j].isObserver \/ noted[j] = list[j]
<1> DEFINE hits == {j \in 1 .. Len(list) : Interested(list[j], f)}
           i == First(hits)
           noted == NoteHeader(list, f)
<1>1. Len(list) \in Nat /\ hits \subseteq 1 .. Len(list)
  OBVIOUS
<1>2. i = 0 \/ i \in 1 .. Len(list)
  <2> HIDE DEF hits
  <2> QED
    BY <1>1, FirstHit
<1>3. f.appId \in Int
  <2>1. AppIds \subseteq Nat
    BY LinkAssumption
  <2>2. f.appId \in AppIds
    BY DEF FrameType
  <2>3. f.appId \in Nat
    BY <2>1, <2>2
  <2> QED
    BY <2>3
<1>4. \A self \in Subscriber : /\ self.appId \in Int
                              /\ self = [self EXCEPT !.appId = self.appId]
                              /\ \A a \in Int : [self EXCEPT !.appId = a] \in Subscriber
  BY DEF Subscriber
<1>5. CASE i # 0 /\ list[i].isObserver
  <2>1. noted = [list EXCEPT ![i].appId = f.appId]
    BY <1>5 DEF NoteHeader
  <2>2. i \in 1 .. Len(list)
    BY <1>2, <1>5
  <2>3. list[i] \in Subscriber
    BY <2>2
  <2> DEFINE new == [list[i] EXCEPT !.appId = f.appId]
  <2>4. new \in Subscriber
    BY <1>3, <1>4, <2>3
  <2> HIDE DEF i, noted
  <2>5. noted = [list EXCEPT ![i] = new]
    BY <2>1
  <2>6. noted[i] = new /\ \A j \in 1 .. Len(list) : j # i => noted[j] = list[j]
    BY <2>2, <2>5
  <2>7. noted \in Seq(Subscriber) /\ Len(noted) = Len(list)
    <3> HIDE DEF new
    <3> QED
      BY <2>2, <2>4, <2>5, ExceptSeq
  <2>8. ASSUME NEW j \in 1 .. Len(list)
        PROVE  \E a \in Int : /\ noted[j] = [list[j] EXCEPT !.appId = a]
                              /\ list[j].isObserver \/ noted[j] = list[j]
    <3>1. CASE j = i
      BY <1>3, <1>5, <2>6, <3>1
    <3>2. CASE j # i
      <4>1. list[j] \in Subscriber /\ noted[j] = list[j]
        BY <2>6, <3>2
      <4> QED
        BY <1>4, <4>1
    <3> QED
      BY <3>1, <3>2
  <2> QED
    BY <2>7, <2>8 DEF noted
<1>6. CASE ~(i # 0 /\ list[i].isObserver)
  <2>1. noted = list
    BY <1>6 DEF NoteHeader
  <2>2. \A j \in 1 .. Len(list) : list[j] \in Subscriber
    OBVIOUS
  <2>3. \A j \in 1 .. Len(list) : \E a \in Int : list[j] = [list[j] EXCEPT !.appId = a]
    BY <1>4, <2>2
  <2> HIDE DEF i
  <2> QED
    BY <2>1, <2>3
<1> QED
  BY <1>5, <1>6

\* The data set of a subscriber is freed by the one who allocated it.
Owned(s) ==
    /\ s.dataSet.alloc = "receiver" => s.selfAllocated
    /\ s.dataSet.alloc = "app" => ~s.selfAllocated
    /\ ~s.isObserver /\ ~s.selfAllocated => s.dataSet.alloc = "app"

\* n is s but for its APPID.
SameButAppId(n, s) ==
    /\ n \in Subscriber
    /\ n.goCBRef = s.goCBRef /\ n.isObserver = s.isObserver /\ n.dataSet = s.dataSet
    /\ n.selfAllocated = s.selfAllocated /\ n.confRev = s.confRev
    /\ n.stNum = s.stNum /\ n.sqNum = s.sqNum
    /\ n.stateValid = s.stateValid

\* A frame is parsed by the matching subscriber, if there is one, and by no other.
LEMMA MessageEffect ==
    ASSUME NEW list \in Seq(Subscriber), NEW f \in FrameType,
           \A j \in 1 .. Len(list) : Owned(list[j])
    PROVE  LET new == parseGooseMessage(list, f)
               i == MatchingSubscriber(list, f)
           IN  /\ i = 0 \/ (i \in 1 .. Len(list)
                             /\ (list[i].isObserver \/ list[i].goCBRef = f.goCBRef))
               /\ new \in Seq(Subscriber) /\ Len(new) = Len(list)
               /\ \A j \in 1 .. Len(list) : \E n \in Subscriber :
                      /\ SameButAppId(n, list[j])
                      /\ new[j] = IF j = i THEN ParsePayload(n, f) ELSE n
<1> DEFINE noted == NoteHeader(list, f)
           i == MatchingSubscriber(list, f)
           new == parseGooseMessage(list, f)
           hits == {j \in 1 .. Len(list) : list[j].isObserver \/ list[j].goCBRef = f.goCBRef}
<1>1. /\ noted \in Seq(Subscriber) /\ Len(noted) = Len(list)
      /\ \A j \in 1 .. Len(list) : \E a \in Int : noted[j] = [list[j] EXCEPT !.appId = a]
  BY NoteHeaderEffect
<1>2. ASSUME NEW j \in 1 .. Len(list)
      PROVE  SameButAppId(noted[j], list[j])
  <2>1. PICK a \in Int : noted[j] = [list[j] EXCEPT !.appId = a]
    BY <1>1
  <2>2. list[j] \in Subscriber
    OBVIOUS
  <2>3. noted[j] \in Subscriber
    BY <1>1
  <2> HIDE DEF noted
  <2> QED
    BY <2>1, <2>2, <2>3 DEF SameButAppId, Subscriber
<1>3. Len(list) \in Nat /\ hits \subseteq 1 .. Len(list)
  OBVIOUS
<1>4. i = First(hits)
  BY DEF MatchingSubscriber
<1>5. i = 0 \/ i \in hits
  <2> HIDE DEF hits, i
  <2> QED
    BY <1>3, <1>4, FirstHit
<1>6. i = 0 \/ (i \in 1 .. Len(list) /\ (list[i].isObserver \/ list[i].goCBRef = f.goCBRef))
  <2> HIDE DEF i
  <2> QED
    BY <1>5
<1>7. MatchingSubscriber(noted, f) = i
  <2>1. {j \in 1 .. Len(noted) : noted[j].isObserver \/ noted[j].goCBRef = f.goCBRef} = hits
    <3> HIDE DEF noted
    <3> QED
      BY <1>1, <1>2 DEF SameButAppId
  <2> QED
    BY <2>1, <1>4 DEF MatchingSubscriber
<1>8. new = IF i = 0 THEN noted ELSE [noted EXCEPT ![i] = ParsePayload(noted[i], f)]
  <2> HIDE DEF noted, i
  <2> QED
    BY <1>7 DEF parseGooseMessage, noted
<1> HIDE DEF noted, i, new, hits
<1>9. new \in Seq(Subscriber) /\ Len(new) = Len(list)
  <2>1. CASE i = 0
    BY <1>1, <1>8, <2>1
  <2>2. CASE i # 0
    <3>1. i \in 1 .. Len(list)
      BY <1>6, <2>2
    <3>2. Owned(list[i]) /\ SameButAppId(noted[i], list[i])
      BY <1>2, <3>1
    <3>3. noted[i] \in Subscriber /\ Owned(noted[i])
      BY <3>2 DEF Owned, SameButAppId
    <3>4. ParsePayload(noted[i], f) \in Subscriber
      BY <3>3, ParsePayloadEffect DEF Owned
    <3> QED
      BY <1>1, <1>8, <2>2, <3>1, <3>4, ExceptSeq
  <2> QED
    BY <2>1, <2>2
<1>10. \A j \in 1 .. Len(list) : new[j] = IF j = i THEN ParsePayload(noted[j], f) ELSE noted[j]
  <2>1. CASE i = 0
    BY <1>8, <2>1
  <2>2. CASE i # 0
    BY <1>1, <1>6, <1>8, <2>2
  <2> QED
    BY <2>1, <2>2
<1>11. \A j \in 1 .. Len(list) : \E n \in Subscriber :
          /\ SameButAppId(n, list[j])
          /\ new[j] = IF j = i THEN ParsePayload(n, f) ELSE n
  BY <1>1, <1>2, <1>10
<1> QED
  BY <1>6, <1>9, <1>11 DEF i, new

-----------------------------------------------------------------------------
\* What holds on any network, also one that reorders frames.
BaseInv == TypeOK /\ OwnershipExact /\ ValidSnapshot

\* The counters keep their type.
LEMMA CounterTypes ==
    /\ \A n \in Counter : Increment(n) \in Counter
    /\ GoosePublisher_create(0) \in Publisher
    /\ \A p \in Publisher : /\ GoosePublisher_increaseStNum(p, 0) \in Publisher
                            /\ GoosePublisher_publish(p, TRUE) \in Publisher
<1>1. \A n \in Counter : Increment(n) \in Counter
  BY CounterModAssumption DEF Increment, Counter
<1>2. 0 \in Counter /\ 1 \in Counter
  BY CounterModAssumption DEF Counter
<1>3. GoosePublisher_create(0) \in Publisher
  BY <1>2 DEF GoosePublisher_create, Publisher
<1>4. ASSUME NEW p \in Publisher
      PROVE  /\ GoosePublisher_increaseStNum(p, 0) \in Publisher
             /\ GoosePublisher_publish(p, TRUE) \in Publisher
  BY <1>1, <1>2 DEF GoosePublisher_increaseStNum, GoosePublisher_publish, Publisher
<1> QED
  BY <1>1, <1>3, <1>4

\* The frame a publisher sends has the type of a frame.
LEMMA FrameIsTyped ==
    ASSUME TypeOK, NEW r \in Refs
    PROVE  Frame(r) \in FrameType
<1>1. /\ pub[r] \in Publisher /\ ident[r] \in Nat /\ boot[r] \in Nat /\ appId[r] \in AppIds
      /\ confRev[r] \in 1 .. MaxConfRev /\ data[r] \in Encodable
  BY DEF TypeOK
<1>2. Payload(pub[r]).stNum \in Counter /\ Payload(pub[r]).sqNum \in Counter
  BY <1>1 DEF Payload, Publisher
<1>3. ident[r] + 1 \in Nat \ {0}
  BY <1>1
<1> QED
  BY <1>1, <1>2, <1>3 DEF Frame, FrameType

\* The steps of the publishers leave the receiver alone and keep their types.
LEMMA SendKeepsBase ==
    ASSUME BaseInv, SendNext
    PROVE  BaseInv'
<1> USE DEF BaseInv
<1>1. OwnershipExact' /\ ValidSnapshot'
  <2>1. subs' = subs /\ got' = got
    BY DEF SendNext, NewState, GoosePublisher_setConfRev, Restart, Publish
  <2> QED
    BY <2>1 DEF OwnershipExact, ValidSnapshot, Plain
<1>2. PICK r \in Refs : NewState(r) \/ GoosePublisher_setConfRev(r) \/ Restart(r) \/ Publish(r)
  BY DEF SendNext
<1>3. pub[r] \in Publisher /\ confRev[r] \in 1 .. MaxConfRev
  BY DEF TypeOK
<1>4. MaxConfRev \in Nat /\ \A c \in 1 .. MaxConfRev : Datas[c] \subseteq Encodable
  BY LinkAssumption
<1>5. CASE NewState(r)
  <2>1. PICK d \in Datas[confRev[r]] : data' = [data EXCEPT ![r] = d]
    BY <1>5 DEF NewState
  <2>2. d \in Encodable
    BY <1>3, <1>4, <2>1
  <2>3. data' \in [Refs -> Encodable]
    BY <2>1, <2>2 DEF TypeOK
  <2>4. pub' \in [Refs -> Publisher]
    BY <1>3, <1>5, CounterTypes DEF TypeOK, NewState
  <2> QED
    BY <1>1, <1>5, <2>3, <2>4 DEF TypeOK, NewState
<1>6. CASE GoosePublisher_setConfRev(r)
  <2>1. confRev[r] + 1 \in 1 .. MaxConfRev
    BY <1>3, <1>4, <1>6 DEF GoosePublisher_setConfRev
  <2>2. PICK d \in Datas[confRev[r] + 1] : data' = [data EXCEPT ![r] = d]
    BY <1>6 DEF GoosePublisher_setConfRev
  <2>3. d \in Encodable
    BY <1>4, <2>1, <2>2
  <2>4. data' \in [Refs -> Encodable]
    BY <2>2, <2>3 DEF TypeOK
  <2>5. pub' \in [Refs -> Publisher]
    BY <1>3, <1>6, CounterTypes DEF TypeOK, GoosePublisher_setConfRev
  <2>6. confRev' \in [Refs -> 1 .. MaxConfRev]
    BY <1>6, <2>1 DEF TypeOK, GoosePublisher_setConfRev
  <2> QED
    BY <1>1, <1>6, <2>4, <2>5, <2>6 DEF TypeOK, GoosePublisher_setConfRev
<1>7. CASE Restart(r)
  <2>1. pub' \in [Refs -> Publisher]
    BY <1>7, CounterTypes DEF TypeOK, Restart
  <2>2. boot' \in [Refs -> Nat]
    BY <1>7 DEF TypeOK, Restart
  <2> QED
    BY <1>1, <1>7, <2>1, <2>2 DEF TypeOK, Restart
<1>8. CASE Publish(r)
  <2>1. pub' \in [Refs -> Publisher]
    BY <1>3, <1>8, CounterTypes DEF TypeOK, Publish
  <2>2. ident' \in [Refs -> Nat]
    BY <1>8 DEF TypeOK, Publish
  <2>3. net' \in SUBSET FrameType
    BY <1>8, FrameIsTyped DEF TypeOK, Publish
  <2> QED
    BY <1>1, <1>8, <2>1, <2>2, <2>3 DEF TypeOK, Publish
<1> QED
  BY <1>2, <1>5, <1>6, <1>7, <1>8

\* A millisecond changes nothing but the time left.
LEMMA TickKeepsBase ==
    ASSUME BaseInv, Tick
    PROVE  /\ BaseInv'
           /\ Len(subs') = Len(subs)
           /\ \A i \in 1 .. Len(subs) : SameButAppId(subs'[i], subs[i])
<1> USE DEF BaseInv
<1>1. subs \in Seq(Subscriber) /\ Len(subs) \in Nat
  BY DEF TypeOK
<1>2. \A s \in Subscriber : SameButAppId(Elapse(s), s)
  BY DEF Elapse, Subscriber, SameButAppId
<1>3. subs' = [i \in 1 .. Len(subs) |-> Elapse(subs[i])]
  BY DEF Tick
<1>4. \A i \in 1 .. Len(subs) : Elapse(subs[i]) \in Subscriber
  BY <1>1, <1>2 DEF SameButAppId
<1>5. subs' \in Seq(Subscriber) /\ Len(subs') = Len(subs)
  BY <1>1, <1>3, <1>4
<1>6. \A i \in 1 .. Len(subs) : SameButAppId(subs'[i], subs[i])
  BY <1>1, <1>2, <1>3
<1>7. UNCHANGED <<senderVars, net, arrived, got>>
  BY DEF Tick
<1>8. TypeOK'
  BY <1>5, <1>7 DEF TypeOK, senderVars
<1>9. OwnershipExact'
  BY <1>5, <1>6 DEF OwnershipExact, Plain, SameButAppId
<1>10. ValidSnapshot'
  <2>1. \A i \in 1 .. Len(subs) :
            subs'[i].dataSet = subs[i].dataSet /\ subs'[i].stateValid = subs[i].stateValid
    BY <1>6 DEF SameButAppId
  <2> QED
    BY <1>5, <1>7, <2>1, SMTT(30) DEF ValidSnapshot
<1> QED
  BY <1>5, <1>6, <1>8, <1>9, <1>10

\* A frame that arrives keeps the base invariant, and what it does to each subscriber.
LEMMA ArriveKeepsBase ==
    ASSUME BaseInv, NEW f \in net, Arrive(f)
    PROVE  LET i == MatchingSubscriber(subs, f)
           IN  /\ BaseInv'
               /\ Len(subs') = Len(subs)
               /\ i = 0 \/ (i \in 1 .. Len(subs)
                             /\ (subs[i].isObserver \/ subs[i].goCBRef = f.goCBRef))
               /\ \A j \in 1 .. Len(subs) :
                      IF j = i
                      THEN /\ got'[j] = Note(got[j], f)
                           /\ subs'[j].isObserver = subs[j].isObserver
                           /\ subs'[j].goCBRef = f.goCBRef
                           /\ subs'[j].stNum = f.stNum /\ subs'[j].sqNum = f.sqNum
                           /\ subs'[j].stateValid => InSequence(subs[j], f)
                      ELSE got'[j] = got[j] /\ SameButAppId(subs'[j], subs[j])
<1> USE DEF BaseInv
<1> DEFINE i == MatchingSubscriber(subs, f)
<1>1. f \in FrameType
  BY DEF TypeOK
<1>2. subs \in Seq(Subscriber) /\ Len(subs) \in Nat
  BY DEF TypeOK
<1>3. \A j \in 1 .. Len(subs) : Owned(subs[j])
  BY DEF OwnershipExact, Owned, Plain
<1>4. subs' = parseGooseMessage(subs, f)
  BY DEF Arrive
<1>5. /\ i = 0 \/ (i \in 1 .. Len(subs) /\ (subs[i].isObserver \/ subs[i].goCBRef = f.goCBRef))
      /\ subs' \in Seq(Subscriber) /\ Len(subs') = Len(subs)
      /\ \A j \in 1 .. Len(subs) : \E n \in Subscriber :
            /\ SameButAppId(n, subs[j])
            /\ subs'[j] = IF j = i THEN ParsePayload(n, f) ELSE n
  BY <1>1, <1>2, <1>3, <1>4, MessageEffect
<1>6. got' = IF i = 0 THEN got ELSE [got EXCEPT ![i] = Note(got[i], f)]
  BY DEF Arrive
<1> DEFINE GotType == [last : FrameType \cup {NothingGot.last}, newer : BOOLEAN, sameBoot : BOOLEAN]
<1>7. got \in [1 .. Len(subs) -> GotType]
  BY DEF TypeOK
<1>8. Note(got[i], f) \in GotType
  BY <1>1 DEF Note
<1> HIDE DEF i, GotType
<1>9. \A j \in 1 .. Len(subs) : got'[j] = IF j = i THEN Note(got[j], f) ELSE got[j]
  BY <1>5, <1>6, <1>7
<1>10. got' \in [1 .. Len(subs') -> GotType]
  BY <1>5, <1>6, <1>7, <1>8
<1>11. TypeOK'
  <2>1. net' \in SUBSET FrameType
    BY DEF TypeOK, Arrive
  <2>2. f.goCBRef \in Refs /\ f.id \in Nat
    BY <1>1 DEF FrameType
  <2>3. arrived' \in [Refs -> Nat]
    BY <2>2 DEF TypeOK, Arrive
  <2>4. UNCHANGED senderVars
    BY DEF Arrive
  <2> QED
    BY <1>5, <1>10, <2>1, <2>3, <2>4 DEF TypeOK, senderVars, GotType
<1>12. ASSUME NEW j \in 1 .. Len(subs), j = i
       PROVE  /\ subs'[j].isObserver = subs[j].isObserver
              /\ subs'[j].goCBRef = f.goCBRef
              /\ subs'[j].stNum = f.stNum /\ subs'[j].sqNum = f.sqNum
              /\ subs'[j].stateValid => InSequence(subs[j], f)
              /\ Owned(subs'[j])
              /\ subs'[j].stateValid /\ subs'[j].dataSet # NoDataSet =>
                    /\ Len(subs'[j].dataSet.slots) = Len(f.data)
                    /\ \A k \in 1 .. Len(f.data) : f.data[k].tag # "reserved" =>
                           /\ subs'[j].dataSet.slots[k].type = f.data[k].tag
                           /\ subs'[j].dataSet.slots[k].val = f.data[k].val
  <2>1. PICK n \in Subscriber : SameButAppId(n, subs[j]) /\ subs'[j] = ParsePayload(n, f)
    BY <1>5, <1>12
  <2>2. Owned(n)
    BY <1>3, <2>1 DEF Owned, SameButAppId
  <2>3. InSequence(n, f) => InSequence(subs[j], f)
    BY <2>1 DEF InSequence, SameButAppId
  <2>4. n.isObserver = subs[j].isObserver
    BY <2>1 DEF SameButAppId
  <2> DEFINE s == ParsePayload(n, f)
  <2>5. /\ s.isObserver = n.isObserver
        /\ s.goCBRef = f.goCBRef /\ s.stNum = f.stNum /\ s.sqNum = f.sqNum
        /\ s.stateValid => InSequence(n, f)
        /\ Owned(s)
        /\ s.stateValid /\ s.dataSet # NoDataSet =>
              /\ Len(s.dataSet.slots) = Len(f.data)
              /\ \A k \in 1 .. Len(f.data) : f.data[k].tag # "reserved" =>
                     /\ s.dataSet.slots[k].type = f.data[k].tag
                     /\ s.dataSet.slots[k].val = f.data[k].val
    BY <1>1, <2>2, ParsePayloadEffect DEF Owned
  <2>6. subs'[j] = s
    BY <2>1
  <2> HIDE DEF s
  <2> QED
    BY <2>3, <2>4, <2>5, <2>6
<1>13. ASSUME NEW j \in 1 .. Len(subs), j # i
       PROVE  SameButAppId(subs'[j], subs[j])
  BY <1>5, <1>13
<1>14. OwnershipExact'
  <2>1. ASSUME NEW j \in 1 .. Len(subs)
        PROVE  Owned(subs'[j])
    <3>1. CASE j = i
      BY <1>12, <3>1
    <3>2. CASE j # i
      BY <1>3, <1>13, <3>2 DEF Owned, SameButAppId
    <3> QED
      BY <3>1, <3>2
  <2> QED
    BY <1>5, <2>1 DEF OwnershipExact, Plain, Owned
<1>15. ValidSnapshot'
  <2> SUFFICES ASSUME NEW j \in 1 .. Len(subs), subs'[j].stateValid, subs'[j].dataSet # NoDataSet
               PROVE  LET slots == subs'[j].dataSet.slots
                          elements == got'[j].last.data
                      IN  /\ Len(slots) = Len(elements)
                          /\ \A k \in 1 .. Len(elements) : elements[k].tag # "reserved" =>
                                 slots[k].type = elements[k].tag /\ slots[k].val = elements[k].val
    BY <1>5 DEF ValidSnapshot
  <2>1. CASE j = i
    <3> DEFINE g == Note(got[j], f)
    <3>1. got'[j] = g
      BY <1>9, <2>1
    <3>2. g.last = f
      BY DEF Note
    <3> HIDE DEF g
    <3>3. got'[j].last.data = f.data
      BY <3>1, <3>2
    <3> QED
      BY <1>12, <2>1, <3>3
  <2>2. CASE j # i
    <3>1. got'[j] = got[j] /\ SameButAppId(subs'[j], subs[j])
      BY <1>9, <1>13, <2>2
    <3>2. subs[j].stateValid /\ subs'[j].dataSet = subs[j].dataSet
      BY <3>1 DEF SameButAppId
    <3> QED
      BY <3>1, <3>2 DEF ValidSnapshot
  <2> QED
    BY <2>1, <2>2
<1> QED
  BY <1>5, <1>9, <1>11, <1>12, <1>13, <1>14, <1>15 DEF i

\* The base invariant holds when the receiver starts.
LEMMA InitBase ==
    ASSUME Init
    PROVE  BaseInv
<1>1. subs \in Seq(Subscriber) /\ \A i \in 1 .. Len(subs) : Created(subs[i])
  BY LinkAssumption DEF Init
<1>2. ASSUME NEW i \in 1 .. Len(subs)
      PROVE  /\ subs[i].stateValid = FALSE
             /\ subs[i].selfAllocated = (subs[i].dataSet.slots = <<>>)
             /\ subs[i].dataSet.alloc = IF subs[i].dataSet.slots = <<>> THEN "none" ELSE "app"
  <2>1. subs[i] = GooseSubscriber_create(subs[i].goCBRef, subs[i].dataSet.slots, subs[i].appId,
                                         subs[i].dstMacSet, subs[i].isObserver)
    BY <1>1 DEF Created
  <2> DEFINE c == subs[i]
  <2>2. /\ c.stateValid = FALSE
        /\ c.selfAllocated = (c.dataSet.slots = <<>>)
        /\ c.dataSet = IF c.dataSet.slots = <<>> THEN NoDataSet
                       ELSE [alloc |-> "app", slots |-> c.dataSet.slots]
    BY <2>1 DEF GooseSubscriber_create
  <2> HIDE DEF c
  <2>3. c.dataSet.alloc = IF c.dataSet.slots = <<>> THEN "none" ELSE "app"
    BY <2>2 DEF NoDataSet
  <2> QED
    BY <2>2, <2>3 DEF c
<1>3. OwnershipExact
  BY <1>2 DEF OwnershipExact
<1>4. ValidSnapshot
  BY <1>2 DEF ValidSnapshot
<1>5. TypeOK
  <2>1. pub \in [Refs -> Publisher]
    BY CounterTypes DEF Init
  <2>2. data \in [Refs -> Encodable] /\ confRev \in [Refs -> 1 .. MaxConfRev]
    <3>1. 1 \in 1 .. MaxConfRev /\ Datas[1] \subseteq Encodable
      BY LinkAssumption
    <3> QED
      BY <3>1 DEF Init
  <2>3. got \in [1 .. Len(subs) -> [last : FrameType \cup {NothingGot.last}, newer : BOOLEAN,
                                    sameBoot : BOOLEAN]]
    BY DEF Init, NothingGot
  <2>4. /\ appId \in [Refs -> AppIds] /\ ident \in [Refs -> Nat] /\ boot \in [Refs -> Nat]
        /\ net \in SUBSET FrameType /\ arrived \in [Refs -> Nat]
    BY DEF Init
  <2> QED
    BY <1>1, <2>1, <2>2, <2>3, <2>4 DEF TypeOK
<1> QED
  BY <1>3, <1>4, <1>5 DEF BaseInv

\* Every step keeps the base invariant.
LEMMA StepKeepsBase ==
    ASSUME BaseInv, [ReorderNext]_vars
    PROVE  BaseInv'
<1>1. CASE SendNext
  BY <1>1, SendKeepsBase
<1>2. CASE Tick
  BY <1>2, TickKeepsBase
<1>3. ASSUME NEW f \in net, Arrive(f)
      PROVE  BaseInv'
  BY <1>3, ArriveKeepsBase
<1>4. ASSUME NEW f \in net, Lose(f)
      PROVE  BaseInv'
  <2>1. net' \subseteq net /\ UNCHANGED <<senderVars, arrived, subs, got>>
    BY <1>4 DEF Lose
  <2> QED
    BY <2>1 DEF BaseInv, TypeOK, OwnershipExact, ValidSnapshot, Plain, senderVars
<1>5. CASE UNCHANGED vars
  BY <1>5 DEF BaseInv, TypeOK, OwnershipExact, ValidSnapshot, Plain, vars
<1> QED
  BY <1>1, <1>2, <1>3, <1>4, <1>5 DEF ReorderNext

\* Whatever the network does to the frames, the variables keep their types, the
\* data sets are owned as GooseSubscriber_destroy expects, and a valid
\* subscriber holds the data of one message.
THEOREM ReorderBase == ReorderSpec => []BaseInv
<1>1. Init => BaseInv
  BY InitBase
<1>2. BaseInv /\ [ReorderNext]_vars => BaseInv'
  BY StepKeepsBase
<1> QED
  BY <1>1, <1>2, PTL DEF ReorderSpec

\* An ordered network is a special case.
THEOREM FifoBase == FifoSpec => []BaseInv
<1>1. Init => BaseInv
  BY InitBase
<1>2. BaseInv /\ [FifoNext]_vars => BaseInv'
  <2>1. FifoNext => ReorderNext
    BY DEF FifoNext, ReorderNext, DeliverInOrder
  <2> QED
    BY <2>1, StepKeepsBase
<1> QED
  BY <1>1, <1>2, PTL DEF FifoSpec

\* GooseSubscriber_destroy frees exactly the data sets the receiver allocated.
THEOREM DataSetsOwned == ReorderSpec => []OwnershipExact
<1>1. BaseInv => OwnershipExact
  BY DEF BaseInv
<1> QED
  BY <1>1, ReorderBase, PTL

\* A valid subscriber never holds a mixture of two messages.
THEOREM ValidDataIsOneMessage == ReorderSpec => []ValidSnapshot
<1>1. BaseInv => ValidSnapshot
  BY DEF BaseInv
<1> QED
  BY <1>1, ReorderBase, PTL

\* Every variable of the link keeps its type.
THEOREM LinkTypes == FifoSpec => []TypeOK
<1>1. BaseInv => TypeOK
  BY DEF BaseInv
<1> QED
  BY <1>1, FifoBase, PTL

-----------------------------------------------------------------------------
\* The frames in the network or last processed by a subscriber.
Seen == net \cup {got[i].last : i \in {j \in 1 .. Len(subs) : got[j].last.id > 0}}

\* A frame is known by its publisher and identity, and was sent.
FramesKnown ==
    /\ \A f \in Seen : f.id =< ident[f.goCBRef]
    /\ \A f, g \in Seen : f.goCBRef = g.goCBRef /\ f.id = g.id => f = g

\* A subscriber of one publisher remembers the numbers of the last frame it
\* processed, and no frame older than that can still arrive.
Tracks ==
    \A i \in 1 .. Len(subs) : Plain(i) /\ got[i].last.id > 0 =>
        /\ subs[i].goCBRef = got[i].last.goCBRef
        /\ subs[i].stNum = got[i].last.stNum /\ subs[i].sqNum = got[i].last.sqNum
        /\ got[i].last.id =< arrived[got[i].last.goCBRef]

\* The inductive invariant of FifoSpec: ValidIsNewer rests on what a subscriber
\* remembers, and that on the identity of frames.
FifoInv == BaseInv /\ FramesKnown /\ Tracks /\ ValidIsNewer

\* Everything seen is a frame.
LEMMA SeenAreFrames ==
    ASSUME TypeOK
    PROVE  Seen \subseteq FrameType
<1>1. net \subseteq FrameType
  BY DEF TypeOK
<1>2. ASSUME NEW i \in 1 .. Len(subs), got[i].last.id > 0
      PROVE  got[i].last \in FrameType
  <2>1. got[i].last \in FrameType \cup {NothingGot.last}
    BY DEF TypeOK
  <2>2. NothingGot.last.id = 0
    BY DEF NothingGot
  <2>3. got[i].last # NothingGot.last
    BY <1>2, <2>2
  <2> QED
    BY <2>1, <2>3
<1> QED
  BY <1>1, <1>2 DEF Seen

\* Publishers send frames under identities of their own.
LEMMA SendKeepsFrames ==
    ASSUME BaseInv, FramesKnown, SendNext
    PROVE  FramesKnown'
<1>1. subs' = subs /\ got' = got
  BY DEF SendNext, NewState, GoosePublisher_setConfRev, Restart, Publish
<1>2. PICK r \in Refs : NewState(r) \/ GoosePublisher_setConfRev(r) \/ Restart(r) \/ Publish(r)
  BY DEF SendNext
<1>3. CASE NewState(r) \/ GoosePublisher_setConfRev(r) \/ Restart(r)
  <2>1. net' = net /\ ident' = ident
    BY <1>3 DEF NewState, GoosePublisher_setConfRev, Restart
  <2> QED
    BY <1>1, <2>1 DEF FramesKnown, Seen
<1>4. CASE Publish(r)
  <2>1. TypeOK /\ ident \in [Refs -> Nat] /\ Seen \subseteq FrameType
    BY SeenAreFrames DEF BaseInv, TypeOK
  <2>2. Seen' = Seen \cup {Frame(r)}
    BY <1>1, <1>4 DEF Seen, Publish
  <2>3. Frame(r).goCBRef = r /\ Frame(r).id = ident[r] + 1
    BY DEF Frame
  <2>4. ident'[r] = ident[r] + 1 /\ \A q \in Refs : ident'[q] \in Nat /\ ident[q] =< ident'[q]
    BY <1>4, <2>1 DEF Publish
  <2>5. \A f \in Seen : f.goCBRef \in Refs /\ f.id \in Nat /\ f.id =< ident[f.goCBRef]
    BY <2>1 DEF FramesKnown, FrameType
  <2>6. \A f \in Seen' : f.id =< ident'[f.goCBRef]
    <3>1. \A f \in Seen : f.id =< ident'[f.goCBRef]
      BY <2>1, <2>4, <2>5
    <3> QED
      BY <2>1, <2>2, <2>3, <2>4, <3>1
  <2>7. \A f \in Seen : ~(f.goCBRef = Frame(r).goCBRef /\ f.id = Frame(r).id)
    BY <2>1, <2>3, <2>5
  <2>8. \A f, g \in Seen' : f.goCBRef = g.goCBRef /\ f.id = g.id => f = g
    BY <2>2, <2>7 DEF FramesKnown
  <2> QED
    BY <2>6, <2>8 DEF FramesKnown
<1> QED
  BY <1>2, <1>3, <1>4

\* What the receiver remembers is not touched by sending.
LEMMA SendKeepsFifo ==
    ASSUME FifoInv, SendNext
    PROVE  FifoInv'
<1>1. subs' = subs /\ got' = got /\ arrived' = arrived
  BY DEF SendNext, NewState, GoosePublisher_setConfRev, Restart, Publish
<1>2. Tracks' /\ ValidIsNewer'
  BY <1>1 DEF FifoInv, Tracks, ValidIsNewer, Plain
<1>3. BaseInv' /\ FramesKnown'
  BY SendKeepsBase, SendKeepsFrames DEF FifoInv
<1> QED
  BY <1>2, <1>3 DEF FifoInv

\* A frame that arrives in order is new, or the last one again.
LEMMA ArriveKeepsFifo ==
    ASSUME FifoInv, NEW f \in net, DeliverInOrder(f)
    PROVE  FifoInv'
<1> USE DEF FifoInv
<1> DEFINE i == MatchingSubscriber(subs, f)
<1>1. Arrive(f) /\ f.id >= arrived[f.goCBRef]
  BY DEF DeliverInOrder
<1>2. TypeOK /\ Seen \subseteq FrameType /\ f \in FrameType
  BY SeenAreFrames DEF BaseInv, TypeOK
<1>3. /\ BaseInv'
      /\ Len(subs') = Len(subs)
      /\ i = 0 \/ (i \in 1 .. Len(subs) /\ (subs[i].isObserver \/ subs[i].goCBRef = f.goCBRef))
      /\ \A j \in 1 .. Len(subs) :
            IF j = i
            THEN /\ got'[j] = Note(got[j], f)
                 /\ subs'[j].isObserver = subs[j].isObserver
                 /\ subs'[j].goCBRef = f.goCBRef
                 /\ subs'[j].stNum = f.stNum /\ subs'[j].sqNum = f.sqNum
                 /\ subs'[j].stateValid => InSequence(subs[j], f)
            ELSE got'[j] = got[j] /\ SameButAppId(subs'[j], subs[j])
  BY <1>1, ArriveKeepsBase
<1> HIDE DEF i
<1>4. f.goCBRef \in Refs /\ f.id \in Nat /\ f.id > 0
  BY <1>2 DEF FrameType
<1>5. \A g : Note(g, f).last = f /\ Note(g, f).newer = (f.id > g.last.id)
  BY DEF Note
<1>6. /\ arrived \in [Refs -> Nat] /\ arrived' = [arrived EXCEPT ![f.goCBRef] = f.id]
      /\ ident' = ident /\ net' \subseteq net
  BY <1>1, <1>2 DEF TypeOK, Arrive, senderVars
<1>7. FramesKnown'
  <2>1. ASSUME NEW j \in 1 .. Len(subs), got'[j].last.id > 0
        PROVE  got'[j].last \in Seen
    <3>1. CASE j = i
      BY <1>3, <1>5, <3>1 DEF Seen
    <3>2. CASE j # i
      BY <1>3, <2>1, <3>2 DEF Seen
    <3> QED
      BY <3>1, <3>2
  <2>2. Seen' \subseteq Seen
    BY <1>3, <1>6, <2>1 DEF Seen
  <2> QED
    BY <1>6, <2>2 DEF FramesKnown
<1>8. Tracks'
  <2> SUFFICES ASSUME NEW j \in 1 .. Len(subs), Plain(j)', got'[j].last.id > 0
               PROVE  /\ subs'[j].goCBRef = got'[j].last.goCBRef
                      /\ subs'[j].stNum = got'[j].last.stNum
                      /\ subs'[j].sqNum = got'[j].last.sqNum
                      /\ got'[j].last.id =< arrived'[got'[j].last.goCBRef]
    BY <1>3 DEF Tracks
  <2>1. CASE j = i
    <3>1. got'[j].last = f
      BY <1>3, <1>5, <2>1
    <3>2. arrived'[f.goCBRef] = f.id
      BY <1>4, <1>6
    <3> QED
      BY <1>3, <1>4, <2>1, <3>1, <3>2
  <2>2. CASE j # i
    <3>1. got'[j] = got[j] /\ SameButAppId(subs'[j], subs[j])
      BY <1>3, <2>2
    <3>2. Plain(j)
      BY <3>1 DEF Plain, SameButAppId
    <3>3. /\ subs[j].goCBRef = got[j].last.goCBRef
          /\ subs[j].stNum = got[j].last.stNum /\ subs[j].sqNum = got[j].last.sqNum
          /\ got[j].last.id =< arrived[got[j].last.goCBRef]
      BY <3>1, <3>2 DEF Tracks
    <3>4. got[j].last \in Seen
      BY <3>1 DEF Seen
    <3>5. got[j].last.goCBRef \in Refs /\ got[j].last.id \in Nat
      BY <1>2, <3>4 DEF FrameType
    <3>6. got[j].last.id =< arrived'[got[j].last.goCBRef]
      BY <1>1, <1>4, <1>6, <3>3, <3>5
    <3> QED
      BY <3>1, <3>3, <3>6 DEF SameButAppId
  <2> QED
    BY <2>1, <2>2
<1>9. ValidIsNewer'
  <2> SUFFICES ASSUME NEW j \in 1 .. Len(subs), Plain(j)', subs'[j].stateValid
               PROVE  got'[j].newer
    BY <1>3 DEF ValidIsNewer
  <2>1. CASE j # i
    <3>1. got'[j] = got[j] /\ SameButAppId(subs'[j], subs[j])
      BY <1>3, <2>1
    <3> QED
      BY <3>1 DEF ValidIsNewer, Plain, SameButAppId
  <2>2. CASE j = i
    <3>1. InSequence(subs[j], f) /\ got'[j].newer = (f.id > got[j].last.id)
      BY <1>3, <1>5, <2>2
    <3>2. Plain(j) /\ subs[j].goCBRef = f.goCBRef
      BY <1>3, <2>2 DEF Plain
    <3>3. got[j].last \in FrameType \cup {NothingGot.last}
      BY <1>2 DEF TypeOK
    <3>4. got[j].last.id \in Nat
      BY <3>3 DEF FrameType, NothingGot
    <3>5. CASE got[j].last.id = 0
      BY <1>4, <3>1, <3>5
    <3>6. CASE got[j].last.id > 0
      <4>1. /\ got[j].last.goCBRef = f.goCBRef
            /\ subs[j].stNum = got[j].last.stNum /\ subs[j].sqNum = got[j].last.sqNum
            /\ got[j].last.id =< arrived[f.goCBRef]
        BY <3>2, <3>6 DEF Tracks
      <4>2. got[j].last.id =< f.id
        BY <1>1, <1>4, <1>6, <3>4, <4>1
      <4>3. got[j].last \in Seen /\ f \in Seen
        BY <3>6 DEF Seen
      <4>4. got[j].last.id # f.id
        <5> SUFFICES ASSUME got[j].last.id = f.id
                     PROVE  FALSE
          OBVIOUS
        <5>1. got[j].last = f
          BY <4>1, <4>3 DEF FramesKnown
        <5>2. f.sqNum \in Nat
          BY <1>2, CounterModAssumption DEF FrameType, Counter
        <5> QED
          BY <3>1, <4>1, <5>1, <5>2 DEF InSequence
      <4>5. f.id > got[j].last.id
        BY <1>4, <3>4, <4>2, <4>4
      <4> QED
        BY <3>1, <4>5
    <3> QED
      BY <3>4, <3>5, <3>6
  <2> QED
    BY <2>1, <2>2
<1> QED
  BY <1>3, <1>7, <1>8, <1>9

\* The inductive invariant holds in every state of an ordered network.
THEOREM FifoInvariant == FifoSpec => []FifoInv
<1>1. Init => FifoInv
  <2> SUFFICES ASSUME Init
               PROVE  FifoInv
    OBVIOUS
  <2>1. BaseInv
    BY InitBase
  <2>2. \A j \in 1 .. Len(subs) : got[j].last.id = 0
    BY DEF Init, NothingGot
  <2>3. Seen = {}
    BY <2>2 DEF Seen, Init
  <2>4. FramesKnown /\ Tracks
    BY <2>2, <2>3 DEF FramesKnown, Tracks
  <2>5. ValidIsNewer
    <3>1. \A i \in 1 .. Len(subs) : Created(subs[i])
      BY LinkAssumption DEF Init
    <3>2. ASSUME NEW i \in 1 .. Len(subs)
          PROVE  subs[i].stateValid = FALSE
      <4>1. subs[i] = GooseSubscriber_create(subs[i].goCBRef, subs[i].dataSet.slots,
                            subs[i].appId, subs[i].dstMacSet, subs[i].isObserver)
        BY <3>1 DEF Created
      <4> DEFINE c == subs[i]
      <4>2. c.stateValid = FALSE
        BY <4>1 DEF GooseSubscriber_create
      <4> QED
        BY <4>2
    <3> QED
      BY <3>2 DEF ValidIsNewer
  <2> QED
    BY <2>1, <2>4, <2>5 DEF FifoInv
<1>2. FifoInv /\ [FifoNext]_vars => FifoInv'
  <2> SUFFICES ASSUME FifoInv, [FifoNext]_vars
               PROVE  FifoInv'
    OBVIOUS
  <2>1. CASE SendNext
    BY <2>1, SendKeepsFifo
  <2>2. CASE Tick
    <3>1. /\ BaseInv' /\ Len(subs') = Len(subs)
          /\ \A i \in 1 .. Len(subs) : SameButAppId(subs'[i], subs[i])
      BY <2>2, TickKeepsBase DEF FifoInv
    <3>2. net' = net /\ arrived' = arrived /\ got' = got /\ ident' = ident
      BY <2>2 DEF Tick, senderVars
    <3>3. FramesKnown'
      BY <3>1, <3>2 DEF FifoInv, FramesKnown, Seen
    <3>4. Tracks' /\ ValidIsNewer'
      BY <3>1, <3>2 DEF FifoInv, Tracks, ValidIsNewer, Plain, SameButAppId
    <3> QED
      BY <3>1, <3>3, <3>4 DEF FifoInv
  <2>3. ASSUME NEW f \in net, DeliverInOrder(f)
        PROVE  FifoInv'
    BY <2>3, ArriveKeepsFifo
  <2>4. ASSUME NEW f \in net, Lose(f)
        PROVE  FifoInv'
    <3>1. net' \subseteq net /\ arrived' = arrived /\ got' = got /\ ident' = ident /\ subs' = subs
      BY <2>4 DEF Lose, senderVars
    <3>2. BaseInv'
      <4>1. ReorderNext
        BY <2>4 DEF ReorderNext
      <4> QED
        BY <4>1, StepKeepsBase DEF FifoInv
    <3>3. Seen' \subseteq Seen
      BY <3>1 DEF Seen
    <3>4. FramesKnown'
      BY <3>1, <3>3 DEF FifoInv, FramesKnown
    <3>5. Tracks' /\ ValidIsNewer'
      BY <3>1 DEF FifoInv, Tracks, ValidIsNewer, Plain
    <3> QED
      BY <3>2, <3>4, <3>5 DEF FifoInv
  <2>5. CASE UNCHANGED vars
    <3>1. BaseInv'
      BY <2>5, StepKeepsBase DEF FifoInv
    <3>2. FramesKnown' /\ Tracks' /\ ValidIsNewer'
      BY <2>5 DEF FifoInv, FramesKnown, Tracks, ValidIsNewer, Seen, Plain, vars
    <3> QED
      BY <3>1, <3>2 DEF FifoInv
  <2> QED
    BY <2>1, <2>2, <2>3, <2>4, <2>5 DEF FifoNext
<1> QED
  BY <1>1, <1>2, PTL DEF FifoSpec

\* On a network that keeps the order of frames, a repeated frame never makes a
\* subscriber of one publisher valid.
THEOREM RepeatsAreInvalid == FifoSpec => []ValidIsNewer
<1>1. FifoInv => ValidIsNewer
  BY DEF FifoInv
<1> QED
  BY <1>1, FifoInvariant, PTL

-----------------------------------------------------------------------------
(***************************************************************************)
(* New messages are accepted.  The publisher's numbers grow from message   *)
(* to message of one boot, so that a newer one is in sequence whatever the *)
(* order of arrival; and the data set a subscriber holds was learned from  *)
(* a message of the layout it remembers, so that every other message of    *)
(* that layout can be written into it.                                     *)
(***************************************************************************)
\* The numbers a message of one boot carries are passed by the publisher.
Numbered ==
    /\ \A r \in Refs : /\ data[r] \in Datas[confRev[r]]
                       /\ pub[r].stNum \in 1 .. CounterMod - 2
                       /\ pub[r].sqNum =< ident[r] /\ ident[r] =< MaxFrames
    /\ \A f \in Seen :
        /\ f.data \in Datas[f.confRev] /\ f.stNum > 0
        /\ f.boot =< boot[f.goCBRef]
        /\ f.boot = boot[f.goCBRef] =>
                \/ f.stNum < pub[f.goCBRef].stNum
                \/ f.stNum = pub[f.goCBRef].stNum /\ f.sqNum < pub[f.goCBRef].sqNum
    /\ \A f, g \in Seen :
        f.goCBRef = g.goCBRef /\ f.boot = g.boot /\ f.id < g.id =>
            f.stNum # g.stNum \/ f.sqNum < g.sqNum

\* The slots were learned from a data set of layout rev.
FitsLayout(slots, rev) == \E d \in Datas[rev] :
    /\ Learnable(d) /\ Len(slots) = Len(d)
    /\ \A k \in 1 .. Len(d) : slots[k].type = NewSlot(d[k]).type /\ slots[k].max = NewSlot(d[k]).max

LearnedFor(s) ==
    ~s.isObserver /\ s.selfAllocated =>
        s.dataSet = NoDataSet \/ FitsLayout(s.dataSet.slots, s.confRev)

\* A subscriber of one publisher remembers the numbers of its last message.
Remembered ==
    \A i \in 1 .. Len(subs) :
        /\ LearnedFor(subs[i])
        /\ Plain(i) /\ got[i].last.id = 0 => subs[i].stNum = 0
        /\ Plain(i) /\ got[i].last.id > 0 => /\ subs[i].goCBRef = got[i].last.goCBRef
                                             /\ subs[i].stNum = got[i].last.stNum
                                             /\ subs[i].sqNum = got[i].last.sqNum

FreshInv == BaseInv /\ FramesKnown /\ Numbered /\ Remembered /\ FreshAccepted

\* Every data set of the publishers keeps its layout until its confRev changes.
FixedLayouts == \A c \in 1 .. MaxConfRev : OneLayout(Datas[c])

\* A message of a layout can be written into what another one of it has taught.
LEMMA LayoutFits ==
    ASSUME NEW d \in Encodable, NEW e \in Encodable, NEW D, OneLayout(D), d \in D, e \in D,
           Learnable(d), \A k \in 1 .. Len(e) : e[k].tag # "unknown",
           NEW slots \in Seq(Slot), Len(slots) = Len(d),
           \A k \in 1 .. Len(d) :
               slots[k].type = NewSlot(d[k]).type /\ slots[k].max = NewSlot(d[k]).max
    PROVE  Len(slots) = Len(e) /\ \A k \in 1 .. Len(e) : ~Fails(slots, e, k)
<1>1. Len(d) = Len(e)
  BY DEF OneLayout
<1>2. ASSUME NEW k \in 1 .. Len(e)
      PROVE  ~Fails(slots, e, k)
  <2>1. PICK a, b, s : a = d[k] /\ b = e[k] /\ s = slots[k]
    OBVIOUS
  <2>2. a \in Element /\ b \in Element /\ s \in Slot
    BY <1>1, <2>1, ElementOfSeq DEF Encodable
  <2>3. ~LeftOut(b) /\ b.tag # "unknown"
    BY <2>1 DEF Encodable
  <2>4. a.tag \notin {"reserved", "unknown"}
    BY <1>1, <2>1 DEF Learnable, Refused
  <2>5. s.type = a.tag /\ s.max = IF a.tag \in {"integer", "unsigned"}
                                  THEN IF 8 * a.len =< 32 THEN 5 ELSE 9 ELSE a.len
    BY <1>1, <2>1 DEF NewSlot
  <2>6. b.tag # "reserved" => SameElement(a, b)
    BY <1>1, <2>1, <2>3, <2>4 DEF OneLayout
  <2>7. ElementError(s, b) = "NO_ERROR"
    <3>1. CASE b.tag = "reserved"
      BY <3>1 DEF ElementError
    <3>2. CASE b.tag # "reserved"
      <4>1. SameElement(a, b)
        BY <2>6, <3>2
      <4>2. b.tag = s.type
        BY <2>5, <4>1 DEF SameElement
      <4>3. b.tag \in Nested \cup {"bitstring"} => b.len = s.max
        BY <2>5, <4>1 DEF SameElement, Nested
      <4>4. b.tag \in {"integer", "unsigned"} => ~(b.len > s.max)
        BY <2>2, <2>5, <4>1 DEF SameElement, Element
      <4>5. ~(b.tag = "utctime" /\ b.len # 8) /\ ~(b.tag = "float" /\ b.len \notin {5, 9})
        BY <2>3 DEF LeftOut
      <4> QED
        BY <2>3, <3>2, <4>2, <4>3, <4>4, <4>5 DEF ElementError
    <3> QED
      BY <3>1, <3>2
  <2>8. s # NoSlot
    <3>1. s.type # "null"
      BY <2>2, <2>5 DEF Element, Tags
    <3> QED
      BY <3>1 DEF NoSlot
  <2>9. ~(k > Len(slots))
    BY <1>1
  <2> QED
    BY <2>1, <2>7, <2>8, <2>9 DEF Fails
<1> QED
  BY <1>1, <1>2

\* Writing changes the values of the slots only.
LEMMA ParseKeepsLayout ==
    ASSUME NEW slots \in Seq(Slot), NEW elems \in Seq(Element)
    PROVE  LET parsed == parseAllData(slots, elems).slots
           IN  /\ Len(parsed) = Len(slots)
               /\ \A k \in 1 .. Len(slots) :
                      parsed[k].type = slots[k].type /\ parsed[k].max = slots[k].max
<1> DEFINE parsed == parseAllData(slots, elems).slots
<1>1. PICK w : w = Written(slots, elems)
  OBVIOUS
<1>2. parsed = [i \in 1 .. Len(slots) |->
                   IF i =< w THEN Write(slots[i], elems[i])
                   ELSE IF /\ i = w + 1 /\ w < Len(elems)
                           /\ slots[i] # NoSlot /\ ElementError(slots[i], elems[i]) = "SUBLEVEL"
                   THEN [slots[i] EXCEPT !.val = Torn]
                   ELSE slots[i]]
  BY <1>1 DEF parseAllData
<1>3. ASSUME NEW s \in Slot, NEW v
      PROVE  [s EXCEPT !.val = v].type = s.type /\ [s EXCEPT !.val = v].max = s.max
  BY DEF Slot
<1>4. ASSUME NEW s \in Slot, NEW el
      PROVE  Write(s, el).type = s.type /\ Write(s, el).max = s.max
  <2>1. PICK v : v = el.val
    OBVIOUS
  <2> QED
    BY <1>3, <2>1 DEF Write
<1> HIDE DEF parsed
<1>5. ASSUME NEW k \in 1 .. Len(slots)
      PROVE  parsed[k].type = slots[k].type /\ parsed[k].max = slots[k].max
  <2>1. PICK s \in Slot : s = slots[k]
    BY ElementOfSeq
  <2>1a. PICK el, v : el = elems[k] /\ v = Torn
    OBVIOUS
  <2>2. \/ parsed[k] = Write(s, el)
        \/ parsed[k] = [s EXCEPT !.val = v]
        \/ parsed[k] = s
    BY <1>2, <2>1, <2>1a
  <2>3. parsed[k].type = s.type /\ parsed[k].max = s.max
    <3>1. CASE parsed[k] = Write(s, el)
      BY <1>4, <3>1
    <3>2. CASE parsed[k] = [s EXCEPT !.val = v]
      BY <1>3, <3>2
    <3> QED
      BY <2>2, <3>1, <3>2
  <2> QED
    BY <2>1, <2>3
<1>6. Len(parsed) = Len(slots)
  BY <1>2
<1> QED
  BY <1>5, <1>6 DEF parsed

\* A subscriber that learns accepts a message in sequence, and its data set
\* remains one of the layout of that message.
LEMMA FreshPayload ==
    ASSUME FixedLayouts, NEW self \in Subscriber, NEW f \in FrameType,
           ~self.isObserver, self.selfAllocated, LearnedFor(self), f.data \in Datas[f.confRev]
    PROVE  LET s == ParsePayload(self, f)
           IN  /\ LearnedFor(s)
               /\ (\A k \in 1 .. Len(f.data) : f.data[k].tag # "unknown") /\ InSequence(self, f)
                      => s.stateValid
<1> DEFINE s == ParsePayload(self, f)
<1>1. PICK kept : kept = DataSetKept(self, f)
  OBVIOUS
<1>2. f.data \in Encodable /\ f.data \in Seq(Element) /\ f.confRev \in 1 .. MaxConfRev
      /\ \A k \in 1 .. Len(f.data) : ~LeftOut(f.data[k])
  BY DEF FrameType, Encodable
<1>3. OneLayout(Datas[f.confRev]) /\ Datas[f.confRev] \subseteq Encodable
  BY <1>2, LinkAssumption DEF FixedLayouts
<1>4. /\ s.dataSet = NewDataSet(kept, f.data) /\ s.confRev = f.confRev
      /\ s.stateValid = (Parsed(kept, f.data).error = "NO_ERROR" /\ InSequence(self, f))
  BY <1>1 DEF ParsePayload, Subscriber
<1> HIDE DEF s
<1>5. CASE kept = NoDataSet
  <2>1. Parsed(kept, f.data).error = "NO_ERROR"
    BY <1>5 DEF Parsed
  <2>2. CASE Learnable(f.data)
    <3>1. s.dataSet.slots = parseAllDataUnknownValue(f.data)
      BY <1>4, <1>5, <2>2 DEF NewDataSet, Parsed
    <3>2. /\ Len(s.dataSet.slots) = Len(f.data)
          /\ \A k \in 1 .. Len(f.data) : s.dataSet.slots[k] = NewSlot(f.data[k])
      BY <1>2, <2>2, <3>1, LearnedType, LearnedSlots
    <3>3. FitsLayout(s.dataSet.slots, s.confRev)
      BY <1>4, <2>2, <3>2 DEF FitsLayout
    <3> QED
      BY <1>4, <2>1, <3>3 DEF LearnedFor, s
  <2>3. CASE ~Learnable(f.data)
    <3>1. s.dataSet = NoDataSet
      BY <1>4, <1>5, <2>3 DEF NewDataSet, Parsed, NoDataSet
    <3> QED
      BY <1>4, <2>1, <3>1 DEF LearnedFor, s
  <2> QED
    BY <2>2, <2>3
<1>6. CASE kept # NoDataSet
  <2>1. kept = self.dataSet /\ self.confRev = f.confRev
    BY <1>1, <1>6 DEF DataSetKept
  <2>2. kept.slots \in Seq(Slot)
    BY <2>1 DEF Subscriber
  <2>3. PICK slots \in Seq(Slot) : slots = kept.slots
    BY <2>2
  <2>4. PICK d \in Datas[f.confRev] :
            /\ Learnable(d) /\ Len(slots) = Len(d)
            /\ \A k \in 1 .. Len(d) : /\ slots[k].type = NewSlot(d[k]).type
                                      /\ slots[k].max = NewSlot(d[k]).max
    BY <1>6, <2>1, <2>3 DEF LearnedFor, FitsLayout
  <2>5. /\ Parsed(kept, f.data) = parseAllData(slots, f.data)
        /\ s.dataSet.slots = parseAllData(slots, f.data).slots
    BY <1>4, <1>6, <2>3 DEF NewDataSet, Parsed
  <2>6. /\ Len(s.dataSet.slots) = Len(slots)
        /\ \A k \in 1 .. Len(slots) : /\ s.dataSet.slots[k].type = slots[k].type
                                      /\ s.dataSet.slots[k].max = slots[k].max
    BY <1>2, <2>5, ParseKeepsLayout
  <2>7. FitsLayout(s.dataSet.slots, s.confRev)
    BY <1>4, <2>4, <2>6 DEF FitsLayout
  <2>8. ASSUME \A k \in 1 .. Len(f.data) : f.data[k].tag # "unknown"
        PROVE  Parsed(kept, f.data).error = "NO_ERROR"
    <3>1. Len(slots) = Len(f.data) /\ \A k \in 1 .. Len(f.data) : ~Fails(slots, f.data, k)
      <4>1. PICK e \in Encodable : e = f.data
        BY <1>2
      <4>2. PICK D : D = Datas[f.confRev]
        OBVIOUS
      <4>3. d \in Encodable /\ OneLayout(D) /\ d \in D /\ e \in D
        BY <1>3, <2>4, <4>1, <4>2
      <4>4. Len(slots) = Len(e) /\ \A k \in 1 .. Len(e) : ~Fails(slots, e, k)
        BY <2>4, <2>8, <4>1, <4>3, LayoutFits
      <4> QED
        BY <4>1, <4>4
    <3>2. parseAllData(slots, f.data) =
               [slots |-> [k \in 1 .. Len(f.data) |-> Write(slots[k], f.data[k])],
                error |-> "NO_ERROR"]
      BY <1>2, <3>1, ParseAllDataFits
    <3> QED
      BY <2>5, <3>2
  <2> QED
    BY <1>4, <2>7, <2>8 DEF LearnedFor, s
<1> QED
  BY <1>5, <1>6

\* Publishing and what else its application does: the numbers grow.
LEMMA SendKeepsNumbered ==
    ASSUME FreshInv, SendNext
    PROVE  Numbered'
<1> USE DEF FreshInv
<1>1. subs' = subs /\ got' = got
  BY DEF SendNext, NewState, GoosePublisher_setConfRev, Restart, Publish
<1>2. PICK r \in Refs : NewState(r) \/ GoosePublisher_setConfRev(r) \/ Restart(r) \/ Publish(r)
  BY DEF SendNext
<1>3. /\ TypeOK /\ Seen \subseteq FrameType /\ pub \in [Refs -> Publisher]
      /\ confRev \in [Refs -> 1 .. MaxConfRev] /\ data \in [Refs -> Encodable]
      /\ ident \in [Refs -> Nat] /\ boot \in [Refs -> Nat]
  BY SeenAreFrames DEF BaseInv, TypeOK
<1>4. /\ CounterMod \in Nat /\ CounterMod > 2 /\ MaxFrames \in Nat /\ MaxFrames < CounterMod - 1
      /\ MaxStNum \in Nat /\ MaxStNum < CounterMod - 1
  BY CounterModAssumption, LinkAssumption
<1>5. /\ \A q \in Refs : pub[q].stNum \in Nat /\ pub[q].sqNum \in Nat /\ ident[q] \in Nat
      /\ \A f \in Seen : /\ f.goCBRef \in Refs /\ f.id \in Nat /\ f.boot \in Nat
                         /\ f.stNum \in Nat /\ f.sqNum \in Nat
  BY <1>3, <1>4 DEF Publisher, Counter, FrameType
<1>6. CASE NewState(r) \/ GoosePublisher_setConfRev(r)
  <2>1. /\ ident' = ident /\ boot' = boot /\ Seen' = Seen /\ pub[r].stNum < MaxStNum
        /\ pub' = [pub EXCEPT ![r] = GoosePublisher_increaseStNum(pub[r], 0)]
    BY <1>1, <1>6 DEF NewState, GoosePublisher_setConfRev, Seen
  <2>2. pub'[r] = GoosePublisher_increaseStNum(pub[r], 0) /\ \A q \in Refs \ {r} : pub'[q] = pub[q]
    BY <1>3, <2>1
  <2>3. pub'[r].stNum = pub[r].stNum + 1 /\ pub'[r].sqNum = 0
    <3>1. Increment(pub[r].stNum) = pub[r].stNum + 1
      BY <1>4, <1>5, <2>1 DEF Increment
    <3> QED
      BY <2>2, <3>1 DEF GoosePublisher_increaseStNum
  <2>4. \A q \in Refs : data'[q] \in Datas[confRev'[q]]
    <3>1. CASE NewState(r)
      BY <1>3, <3>1 DEF NewState, Numbered
    <3>2. CASE GoosePublisher_setConfRev(r)
      <4>1. PICK d \in Datas[confRev[r] + 1] : data' = [data EXCEPT ![r] = d]
        BY <3>2 DEF GoosePublisher_setConfRev
      <4>2. confRev' = [confRev EXCEPT ![r] = confRev[r] + 1]
        BY <3>2 DEF GoosePublisher_setConfRev
      <4> QED
        BY <1>3, <4>1, <4>2 DEF Numbered
    <3> QED
      BY <1>6, <3>1, <3>2
  <2>5. \A q \in Refs : /\ pub'[q].stNum \in 1 .. CounterMod - 2
                        /\ pub'[q].sqNum =< ident'[q] /\ ident'[q] =< MaxFrames
    BY <1>4, <1>5, <2>1, <2>2, <2>3 DEF Numbered
  <2>6. ASSUME NEW f \in Seen, f.boot = boot[f.goCBRef]
        PROVE  \/ f.stNum < pub'[f.goCBRef].stNum
               \/ f.stNum = pub'[f.goCBRef].stNum /\ f.sqNum < pub'[f.goCBRef].sqNum
    <3>1. f.stNum =< pub[f.goCBRef].stNum
      BY <1>5, <2>6 DEF Numbered
    <3>2. CASE f.goCBRef = r
      BY <1>5, <2>3, <3>1, <3>2
    <3>3. CASE f.goCBRef # r
      BY <1>5, <2>2, <2>6, <3>3 DEF Numbered
    <3> QED
      BY <3>2, <3>3
  <2> QED
    BY <2>1, <2>4, <2>5, <2>6 DEF Numbered
<1>7. CASE Restart(r)
  <2>1. /\ ident' = ident /\ data' = data /\ confRev' = confRev /\ Seen' = Seen
        /\ boot' = [boot EXCEPT ![r] = boot[r] + 1]
        /\ pub' = [pub EXCEPT ![r] = GoosePublisher_create(0)]
    BY <1>1, <1>7 DEF Restart, Seen
  <2>2. /\ pub'[r].stNum = 1 /\ pub'[r].sqNum = 0 /\ boot'[r] = boot[r] + 1
        /\ \A q \in Refs \ {r} : pub'[q] = pub[q] /\ boot'[q] = boot[q]
    BY <1>3, <2>1 DEF GoosePublisher_create
  <2>3. \A q \in Refs : /\ pub'[q].stNum \in 1 .. CounterMod - 2
                        /\ pub'[q].sqNum =< ident'[q] /\ ident'[q] =< MaxFrames
    BY <1>4, <1>5, <2>1, <2>2 DEF Numbered
  <2>4. ASSUME NEW f \in Seen
        PROVE  /\ f.boot =< boot'[f.goCBRef]
               /\ f.boot = boot'[f.goCBRef] =>
                    \/ f.stNum < pub'[f.goCBRef].stNum
                    \/ f.stNum = pub'[f.goCBRef].stNum /\ f.sqNum < pub'[f.goCBRef].sqNum
    <3>1. f.boot =< boot[f.goCBRef] /\ boot[f.goCBRef] \in Nat
      BY <1>3, <1>5 DEF Numbered
    <3>2. CASE f.goCBRef = r
      BY <1>5, <2>2, <3>1, <3>2
    <3>3. CASE f.goCBRef # r
      BY <1>5, <2>2, <3>3 DEF Numbered
    <3> QED
      BY <3>2, <3>3
  <2> QED
    BY <2>1, <2>3, <2>4 DEF Numbered
<1>8. CASE Publish(r)
  <2>1. PICK g : g = Frame(r)
    OBVIOUS
  <2>2. /\ g.id = ident[r] + 1 /\ g.boot = boot[r] /\ g.goCBRef = r
        /\ g.stNum = pub[r].stNum /\ g.sqNum = pub[r].sqNum
        /\ g.confRev = confRev[r] /\ g.data = data[r]
    BY <2>1 DEF Frame, Payload
  <2>3. /\ ident[r] < MaxFrames /\ ident' = [ident EXCEPT ![r] = ident[r] + 1]
        /\ data' = data /\ confRev' = confRev /\ boot' = boot /\ Seen' = Seen \cup {g}
        /\ pub' = [pub EXCEPT ![r] = GoosePublisher_publish(pub[r], TRUE)]
    BY <1>1, <1>8, <2>1 DEF Publish, Seen
  <2>4. /\ ident'[r] = ident[r] + 1 /\ \A q \in Refs \ {r} : ident'[q] = ident[q] /\ pub'[q] = pub[q]
        /\ pub'[r] = GoosePublisher_publish(pub[r], TRUE)
    BY <1>3, <2>3
  <2>5. pub'[r].stNum = pub[r].stNum /\ pub'[r].sqNum = pub[r].sqNum + 1
    <3>1. pub[r].sqNum =< ident[r]
      BY DEF Numbered
    <3>2. Increment(pub[r].sqNum) = pub[r].sqNum + 1
      BY <1>4, <1>5, <2>3, <3>1 DEF Increment
    <3>3. PICK p \in Publisher : p = pub[r]
      BY <1>3
    <3>3a. PICK n : n = pub[r].sqNum + 1
      OBVIOUS
    <3>4. pub'[r] = [p EXCEPT !.sqNum = n]
      BY <2>4, <3>2, <3>3, <3>3a DEF GoosePublisher_publish
    <3>5. pub'[r].stNum = p.stNum /\ pub'[r].sqNum = n
      BY <3>4 DEF Publisher
    <3> QED
      BY <3>3, <3>5, <3>3a
  <2>6. \A q \in Refs : /\ pub'[q].stNum \in 1 .. CounterMod - 2
                        /\ pub'[q].sqNum =< ident'[q] /\ ident'[q] =< MaxFrames
    <3>1. \A q \in Refs : /\ pub[q].stNum \in 1 .. CounterMod - 2
                          /\ pub[q].sqNum =< ident[q] /\ ident[q] =< MaxFrames
      BY DEF Numbered
    <3>2. pub'[r].sqNum =< ident'[r] /\ ident'[r] =< MaxFrames
      <4>1. PICK m \in Nat, n \in Nat : m = pub[r].sqNum /\ n = ident[r]
        BY <1>5
      <4>2. m =< n /\ n < MaxFrames
        BY <2>3, <3>1, <4>1
      <4>3. m + 1 =< n + 1 /\ n + 1 =< MaxFrames
        BY <1>4, <4>2
      <4> QED
        BY <2>4, <2>5, <4>1, <4>3
    <3>3. pub'[r].stNum \in 1 .. CounterMod - 2
      BY <2>5, <3>1
    <3> QED
      BY <2>4, <3>1, <3>2, <3>3
  <2>7. ASSUME NEW f \in Seen'
        PROVE  /\ f.data \in Datas[f.confRev] /\ f.stNum > 0
               /\ f.boot =< boot'[f.goCBRef]
               /\ f.boot = boot'[f.goCBRef] =>
                    \/ f.stNum < pub'[f.goCBRef].stNum
                    \/ f.stNum = pub'[f.goCBRef].stNum /\ f.sqNum < pub'[f.goCBRef].sqNum
    <3>1. CASE f = g
      <4>1. data[r] \in Datas[confRev[r]] /\ pub[r].stNum \in 1 .. CounterMod - 2 /\ boot[r] \in Nat
        BY <1>3 DEF Numbered
      <4>2. g.stNum > 0
        BY <1>4, <2>2, <4>1
      <4>3. g.boot =< boot'[r]
        BY <2>2, <2>3, <4>1
      <4>4. g.sqNum < pub'[r].sqNum /\ g.stNum = pub'[r].stNum
        BY <1>5, <2>2, <2>5
      <4> QED
        BY <2>2, <3>1, <4>1, <4>2, <4>3, <4>4
    <3>2. CASE f \in Seen
      <4>1. /\ f.data \in Datas[f.confRev] /\ f.stNum > 0
            /\ f.boot =< boot[f.goCBRef]
            /\ f.boot = boot[f.goCBRef] =>
                    \/ f.stNum < pub[f.goCBRef].stNum
                    \/ f.stNum = pub[f.goCBRef].stNum /\ f.sqNum < pub[f.goCBRef].sqNum
        BY <3>2 DEF Numbered
      <4>2. /\ f.goCBRef \in Refs /\ f.sqNum \in Nat /\ pub[f.goCBRef].sqNum \in Nat
            /\ pub'[f.goCBRef].stNum = pub[f.goCBRef].stNum
            /\ pub'[f.goCBRef].sqNum \in {pub[f.goCBRef].sqNum, pub[f.goCBRef].sqNum + 1}
        BY <1>5, <2>4, <2>5, <3>2
      <4>3. f.sqNum < pub[f.goCBRef].sqNum => f.sqNum < pub'[f.goCBRef].sqNum
        <5>1. PICK m \in Nat, n \in Nat : m = f.sqNum /\ n = pub[f.goCBRef].sqNum
          BY <4>2
        <5>2. m < n => m < n + 1
          OBVIOUS
        <5> QED
          BY <4>2, <5>1, <5>2
      <4>4. boot' = boot
        BY <2>3
      <4> QED
        BY <4>1, <4>2, <4>3, <4>4
    <3> QED
      BY <2>3, <3>1, <3>2
  <2>8. ASSUME NEW f \in Seen', NEW h \in Seen', f.goCBRef = h.goCBRef, f.boot = h.boot, f.id < h.id
        PROVE  f.stNum # h.stNum \/ f.sqNum < h.sqNum
    <3>1. \A k \in Seen : k.goCBRef = r => k.id < g.id
      BY <1>5, <2>2 DEF FramesKnown
    <3>2. f # g
      BY <1>5, <2>2, <2>3, <2>8, <3>1
    <3>3. CASE h = g
      BY <1>5, <2>2, <2>3, <2>8, <3>2, <3>3 DEF Numbered
    <3>4. CASE h # g
      BY <2>3, <2>8, <3>2, <3>4 DEF Numbered
    <3> QED
      BY <3>3, <3>4
  <2>9. \A q \in Refs : data'[q] \in Datas[confRev'[q]]
    BY <2>3 DEF Numbered
  <2> QED
    BY <2>6, <2>7, <2>8, <2>9 DEF Numbered
<1> QED
  BY <1>2, <1>6, <1>7, <1>8

\* What is no longer seen is forgotten.
LEMMA SeenShrinks ==
    ASSUME FreshInv, UNCHANGED senderVars, Seen' \subseteq Seen
    PROVE  FramesKnown' /\ Numbered'
<1>1. /\ ident' = ident /\ pub' = pub /\ boot' = boot /\ data' = data /\ confRev' = confRev
  BY DEF senderVars
<1>2. FramesKnown'
  BY <1>1 DEF FreshInv, FramesKnown
<1>3. Numbered'
  BY <1>1 DEF FreshInv, Numbered
<1> QED
  BY <1>2, <1>3

\* Subscribers that process no message remember what they did.
LEMMA RestKeepsMemory ==
    ASSUME FreshInv, Len(subs') = Len(subs), NEW j \in 1 .. Len(subs),
           SameButAppId(subs'[j], subs[j]), got'[j] = got[j]
    PROVE  /\ LearnedFor(subs'[j])
           /\ Plain(j)' /\ got'[j].last.id = 0 => subs'[j].stNum = 0
           /\ Plain(j)' /\ got'[j].last.id > 0 => /\ subs'[j].goCBRef = got'[j].last.goCBRef
                                                  /\ subs'[j].stNum = got'[j].last.stNum
                                                  /\ subs'[j].sqNum = got'[j].last.sqNum
           /\ /\ Learning(j)' /\ got'[j].newer /\ got'[j].sameBoot
              /\ \A k \in 1 .. Len(got'[j].last.data) : got'[j].last.data[k].tag # "unknown"
              => subs'[j].stateValid
<1>1. /\ subs'[j].goCBRef = subs[j].goCBRef /\ subs'[j].isObserver = subs[j].isObserver
      /\ subs'[j].dataSet = subs[j].dataSet /\ subs'[j].selfAllocated = subs[j].selfAllocated
      /\ subs'[j].confRev = subs[j].confRev /\ subs'[j].stNum = subs[j].stNum
      /\ subs'[j].sqNum = subs[j].sqNum /\ subs'[j].stateValid = subs[j].stateValid
  BY DEF SameButAppId
<1>2. LearnedFor(subs'[j])
  BY <1>1 DEF FreshInv, Remembered, LearnedFor
<1>3. /\ Plain(j)' /\ got'[j].last.id = 0 => subs'[j].stNum = 0
      /\ Plain(j)' /\ got'[j].last.id > 0 => /\ subs'[j].goCBRef = got'[j].last.goCBRef
                                             /\ subs'[j].stNum = got'[j].last.stNum
                                             /\ subs'[j].sqNum = got'[j].last.sqNum
  BY <1>1 DEF FreshInv, Remembered, Plain
<1>4. /\ Learning(j)' /\ got'[j].newer /\ got'[j].sameBoot
      /\ \A k \in 1 .. Len(got'[j].last.data) : got'[j].last.data[k].tag # "unknown"
      => subs'[j].stateValid
  BY <1>1 DEF FreshInv, FreshAccepted, Learning, Plain
<1> QED
  BY <1>2, <1>3, <1>4

\* A newer message of the same boot is in sequence, in whatever order messages arrive.
LEMMA NewerInSequence ==
    ASSUME FreshInv, NEW f \in net, NEW j \in 1 .. Len(subs), Plain(j),
           subs[j].goCBRef = f.goCBRef, f.id > got[j].last.id,
           got[j].last.id = 0 \/ f.boot = got[j].last.boot
    PROVE  InSequence(subs[j], f)
<1>1. TypeOK /\ f \in FrameType /\ f \in Seen
  BY DEF FreshInv, BaseInv, TypeOK, Seen
<1>2. got[j].last \in FrameType \cup {NothingGot.last}
  BY <1>1 DEF TypeOK
<1>3. got[j].last.id \in Nat
  BY <1>2 DEF FrameType, NothingGot
<1>4. CASE got[j].last.id = 0
  <2>1. subs[j].stNum = 0
    BY <1>4 DEF FreshInv, Remembered
  <2>2. f.stNum > 0 /\ f.stNum \in Nat
    BY <1>1, CounterModAssumption DEF FreshInv, Numbered, FrameType, Counter
  <2> QED
    BY <2>1, <2>2 DEF InSequence
<1>5. CASE got[j].last.id > 0
  <2>1. got[j].last \in Seen
    BY <1>5 DEF Seen
  <2>2. /\ got[j].last.goCBRef = f.goCBRef /\ got[j].last.boot = f.boot
        /\ subs[j].stNum = got[j].last.stNum /\ subs[j].sqNum = got[j].last.sqNum
    BY <1>5 DEF FreshInv, Remembered
  <2>3. got[j].last.id < f.id
    BY <1>1, <1>3 DEF FrameType
  <2>4. got[j].last.stNum # f.stNum \/ got[j].last.sqNum < f.sqNum
    BY <1>1, <2>1, <2>2, <2>3 DEF FreshInv, Numbered
  <2> QED
    BY <2>2, <2>4 DEF InSequence
<1> QED
  BY <1>3, <1>4, <1>5

\* A frame that arrives, in order or not.
LEMMA ArriveKeepsFresh ==
    ASSUME FixedLayouts, FreshInv, NEW f \in net, Arrive(f)
    PROVE  FreshInv'
<1> DEFINE i == MatchingSubscriber(subs, f)
<1>1. BaseInv /\ TypeOK /\ f \in FrameType /\ subs \in Seq(Subscriber)
  BY DEF FreshInv, BaseInv, TypeOK
<1>2. /\ BaseInv' /\ Len(subs') = Len(subs)
      /\ i = 0 \/ (i \in 1 .. Len(subs) /\ (subs[i].isObserver \/ subs[i].goCBRef = f.goCBRef))
      /\ \A j \in 1 .. Len(subs) :
            IF j = i
            THEN /\ got'[j] = Note(got[j], f)
                 /\ subs'[j].isObserver = subs[j].isObserver
                 /\ subs'[j].goCBRef = f.goCBRef
                 /\ subs'[j].stNum = f.stNum /\ subs'[j].sqNum = f.sqNum
            ELSE got'[j] = got[j] /\ SameButAppId(subs'[j], subs[j])
  BY <1>1, ArriveKeepsBase
<1>3. \A j \in 1 .. Len(subs) : j = i =>
        \E n \in Subscriber : SameButAppId(n, subs[j]) /\ subs'[j] = ParsePayload(n, f)
  <2>1. \A j \in 1 .. Len(subs) : Owned(subs[j])
    BY <1>1 DEF BaseInv, OwnershipExact, Owned, Plain
  <2>2. subs' = parseGooseMessage(subs, f)
    BY DEF Arrive
  <2> QED
    BY <1>1, <2>1, <2>2, MessageEffect
<1> HIDE DEF i
<1>4. f.goCBRef \in Refs /\ f.id \in Nat /\ f.id > 0 /\ f \in Seen
  BY <1>1 DEF FrameType, Seen
<1>5. \A g : /\ Note(g, f).last = f /\ Note(g, f).newer = (f.id > g.last.id)
             /\ Note(g, f).sameBoot = (g.last.id = 0 \/ f.boot = g.last.boot)
  BY DEF Note
<1>6. FramesKnown' /\ Numbered'
  <2>1. net' \subseteq net /\ UNCHANGED senderVars
    BY DEF Arrive
  <2>2. ASSUME NEW j \in 1 .. Len(subs), got'[j].last.id > 0
        PROVE  got'[j].last \in Seen
    <3>1. CASE j = i
      BY <1>2, <1>4, <1>5, <3>1
    <3>2. CASE j # i
      BY <1>2, <2>2, <3>2 DEF Seen
    <3> QED
      BY <3>1, <3>2
  <2>3. Seen' \subseteq Seen
    BY <1>2, <2>1, <2>2 DEF Seen
  <2> QED
    BY <2>1, <2>3, SeenShrinks
<1>7. ASSUME NEW j \in 1 .. Len(subs)
      PROVE  /\ LearnedFor(subs'[j])
             /\ Plain(j)' /\ got'[j].last.id = 0 => subs'[j].stNum = 0
             /\ Plain(j)' /\ got'[j].last.id > 0 => /\ subs'[j].goCBRef = got'[j].last.goCBRef
                                                    /\ subs'[j].stNum = got'[j].last.stNum
                                                    /\ subs'[j].sqNum = got'[j].last.sqNum
             /\ /\ Learning(j)' /\ got'[j].newer /\ got'[j].sameBoot
                /\ \A k \in 1 .. Len(got'[j].last.data) : got'[j].last.data[k].tag # "unknown"
                => subs'[j].stateValid
  <2>1. CASE j # i
    <3>1. got'[j] = got[j] /\ SameButAppId(subs'[j], subs[j])
      BY <1>2, <2>1
    <3> QED
      BY <1>2, <3>1, RestKeepsMemory
  <2>2. CASE j = i
    <3>1. /\ got'[j].last = f /\ got'[j].newer = (f.id > got[j].last.id)
          /\ got'[j].sameBoot = (got[j].last.id = 0 \/ f.boot = got[j].last.boot)
          /\ subs'[j].isObserver = subs[j].isObserver
          /\ subs'[j].goCBRef = f.goCBRef /\ subs'[j].stNum = f.stNum /\ subs'[j].sqNum = f.sqNum
          /\ subs[j].isObserver \/ subs[j].goCBRef = f.goCBRef
      BY <1>2, <1>5, <2>2
    <3>2. /\ Plain(j)' /\ got'[j].last.id = 0 => subs'[j].stNum = 0
          /\ Plain(j)' /\ got'[j].last.id > 0 => /\ subs'[j].goCBRef = got'[j].last.goCBRef
                                                 /\ subs'[j].stNum = got'[j].last.stNum
                                                 /\ subs'[j].sqNum = got'[j].last.sqNum
      BY <1>4, <3>1
    <3>3. PICK n \in Subscriber : SameButAppId(n, subs[j]) /\ subs'[j] = ParsePayload(n, f)
      BY <1>3, <2>2
    <3>4. /\ n.isObserver = subs[j].isObserver /\ n.dataSet = subs[j].dataSet
          /\ n.selfAllocated = subs[j].selfAllocated /\ n.confRev = subs[j].confRev
          /\ n.stNum = subs[j].stNum /\ n.sqNum = subs[j].sqNum
      BY <3>3 DEF SameButAppId
    <3>5. ASSUME ~subs'[j].isObserver, subs'[j].selfAllocated
          PROVE  /\ LearnedFor(subs'[j])
                 /\ /\ got'[j].newer /\ got'[j].sameBoot
                    /\ \A k \in 1 .. Len(f.data) : f.data[k].tag # "unknown"
                    => subs'[j].stateValid
      <4>1. ~n.isObserver /\ Plain(j) /\ subs[j].goCBRef = f.goCBRef
        BY <3>1, <3>4, <3>5 DEF Plain
      <4>2. n.selfAllocated
        <5> SUFFICES ASSUME ~n.selfAllocated PROVE FALSE
          OBVIOUS
        <5>1. n.dataSet.alloc = "app"
          BY <1>1, <3>4, <4>1 DEF BaseInv, OwnershipExact
        <5>2. DataSetKept(n, f) = n.dataSet /\ n.dataSet # NoDataSet
          BY <4>1, <5>1 DEF DataSetKept, NoDataSet
        <5>3. ~SelfAllocated(n, f)
          BY <5>2 DEF SelfAllocated
        <5>4. subs'[j].selfAllocated = SelfAllocated(n, f)
          BY <3>3 DEF ParsePayload, Subscriber
        <5> QED
          BY <3>5, <5>3, <5>4
      <4>3. LearnedFor(n)
        BY <3>4 DEF FreshInv, Remembered, LearnedFor
      <4>4. f.data \in Datas[f.confRev]
        BY <1>4 DEF FreshInv, Numbered
      <4>5. got'[j].newer /\ got'[j].sameBoot => InSequence(n, f)
        <5> SUFFICES ASSUME got'[j].newer, got'[j].sameBoot PROVE InSequence(n, f)
          OBVIOUS
        <5>1. f.id > got[j].last.id /\ (got[j].last.id = 0 \/ f.boot = got[j].last.boot)
          BY <3>1
        <5>2. InSequence(subs[j], f)
          BY <4>1, <5>1, NewerInSequence
        <5> QED
          BY <3>4, <5>2 DEF InSequence
      <4>6. /\ LearnedFor(subs'[j])
            /\ (\A k \in 1 .. Len(f.data) : f.data[k].tag # "unknown") /\ InSequence(n, f)
                   => subs'[j].stateValid
        BY <1>1, <3>3, <4>1, <4>2, <4>3, <4>4, FreshPayload
      <4> QED
        BY <4>5, <4>6
    <3>6. LearnedFor(subs'[j])
      BY <3>5 DEF LearnedFor
    <3>7. /\ Learning(j)' /\ got'[j].newer /\ got'[j].sameBoot
          /\ \A k \in 1 .. Len(got'[j].last.data) : got'[j].last.data[k].tag # "unknown"
          => subs'[j].stateValid
      BY <3>1, <3>5 DEF Learning, Plain
    <3> QED
      BY <3>2, <3>6, <3>7
  <2> QED
    BY <2>1, <2>2
<1>8. Remembered'
  BY <1>2, <1>7 DEF Remembered
<1>9. FreshAccepted'
  BY <1>2, <1>7 DEF FreshAccepted
<1> QED
  BY <1>2, <1>6, <1>8, <1>9 DEF FreshInv

\* On any network, a subscriber that learns its data set accepts every new message
\* (parseGoosePayload) of a publisher that was not restarted, as long as the data
\* sets keep their layouts; integers of 64 bits are what this does not hold for.
THEOREM NewMessagesAccepted == FixedLayouts => (ReorderSpec => []FreshAccepted)
<1> SUFFICES ASSUME FixedLayouts PROVE ReorderSpec => []FreshAccepted
  OBVIOUS
<1>1. Init => FreshInv
  <2> SUFFICES ASSUME Init PROVE FreshInv
    OBVIOUS
  <2>1. BaseInv
    BY InitBase
  <2>2. \A j \in 1 .. Len(subs) : got[j].last.id = 0 /\ got[j].newer = FALSE
    BY DEF Init, NothingGot
  <2>3. Seen = {}
    BY <2>2 DEF Seen, Init
  <2>4. FramesKnown
    BY <2>3 DEF FramesKnown
  <2>5. Numbered
    <3>1. \A r \in Refs : /\ data[r] \in Datas[confRev[r]] /\ ident[r] = 0
                          /\ pub[r].stNum = 1 /\ pub[r].sqNum = 0
      BY DEF Init, GoosePublisher_create
    <3> QED
      BY <2>3, <3>1, CounterModAssumption, LinkAssumption DEF Numbered
  <2>6. Remembered
    <3>1. \A j \in 1 .. Len(subs) : Created(subs[j])
      BY LinkAssumption DEF Init
    <3>2. ASSUME NEW j \in 1 .. Len(subs)
          PROVE  LearnedFor(subs[j]) /\ subs[j].stNum = 0
      <4>1. PICK c, slots : c = subs[j] /\ slots = subs[j].dataSet.slots
        OBVIOUS
      <4>2. c = GooseSubscriber_create(c.goCBRef, slots, c.appId, c.dstMacSet, c.isObserver)
        BY <3>1, <4>1 DEF Created
      <4>3. c.stNum = 0 /\ c.selfAllocated = (slots = <<>>)
            /\ c.dataSet = IF slots = <<>> THEN NoDataSet ELSE [alloc |-> "app", slots |-> slots]
        BY <4>2 DEF GooseSubscriber_create
      <4> QED
        BY <4>1, <4>3 DEF LearnedFor
    <3> QED
      BY <2>2, <3>2 DEF Remembered
  <2>7. FreshAccepted
    BY <2>2 DEF FreshAccepted
  <2> QED
    BY <2>1, <2>4, <2>5, <2>6, <2>7 DEF FreshInv
<1>2. FreshInv /\ [ReorderNext]_vars => FreshInv'
  <2> SUFFICES ASSUME FreshInv, [ReorderNext]_vars PROVE FreshInv'
    OBVIOUS
  <2>1. BaseInv'
    BY StepKeepsBase DEF FreshInv
  <2>2. CASE SendNext
    <3>1. subs' = subs /\ got' = got
      BY <2>2 DEF SendNext, NewState, GoosePublisher_setConfRev, Restart, Publish
    <3>2. Numbered'
      BY <2>2, SendKeepsNumbered
    <3>3. FramesKnown'
      BY <2>2, SendKeepsFrames DEF FreshInv
    <3>4. Remembered' /\ FreshAccepted'
      BY <3>1 DEF FreshInv, Remembered, FreshAccepted, Plain, Learning
    <3> QED
      BY <2>1, <3>2, <3>3, <3>4 DEF FreshInv
  <2>3. CASE Tick
    <3>1. /\ Len(subs') = Len(subs)
          /\ \A j \in 1 .. Len(subs) : SameButAppId(subs'[j], subs[j])
      BY <2>3, TickKeepsBase DEF FreshInv
    <3>2. net' = net /\ got' = got /\ UNCHANGED senderVars
      BY <2>3 DEF Tick
    <3>3. FramesKnown' /\ Numbered'
      <4>1. Seen' = Seen
        BY <3>1, <3>2 DEF Seen
      <4> QED
        BY <3>2, <4>1, SeenShrinks
    <3>4. Remembered'
      BY <3>1, <3>2, RestKeepsMemory DEF Remembered
    <3>5. FreshAccepted'
      BY <3>1, <3>2, RestKeepsMemory DEF FreshAccepted
    <3> QED
      BY <2>1, <3>3, <3>4, <3>5 DEF FreshInv
  <2>4. ASSUME NEW f \in net, Arrive(f)
        PROVE  FreshInv'
    BY <2>4, ArriveKeepsFresh
  <2>5. CASE UNCHANGED vars \/ \E f \in net : Lose(f)
    <3>1. net' \subseteq net /\ got' = got /\ subs' = subs /\ UNCHANGED senderVars
      BY <2>5 DEF Lose, vars, senderVars
    <3>2. FramesKnown' /\ Numbered'
      <4>1. Seen' \subseteq Seen
        BY <3>1 DEF Seen
      <4> QED
        BY <3>1, <4>1, SeenShrinks
    <3>3. Remembered' /\ FreshAccepted'
      BY <3>1 DEF FreshInv, Remembered, FreshAccepted, Plain, Learning
    <3> QED
      BY <2>1, <3>2, <3>3 DEF FreshInv
  <2> QED
    BY <2>2, <2>3, <2>4, <2>5 DEF ReorderNext
<1>3. FreshInv => FreshAccepted
  BY DEF FreshInv
<1> QED
  BY <1>1, <1>2, <1>3, PTL DEF ReorderSpec
=============================================================================
