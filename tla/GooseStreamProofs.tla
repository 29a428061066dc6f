-------------------------- MODULE GooseStreamProofs --------------------------
(***************************************************************************)
(* Proofs about the timers of the GOOSE publisher application, for every   *)
(* set of configurations, and about the stream of its messages to a        *)
(* subscriber, for every set of configurations, delays and losses.         *)
(*                                                                         *)
(* The argument for the application: every pending timer is one that a     *)
(* handle names, so that StopApplication cancels it, and while messages    *)
(* remain exactly one timer carries on.                                    *)
(*                                                                         *)
(* The argument for the stream: the state number of message n is a         *)
(* function of n, its position on the circle 1 .. CounterMod - 1, so that  *)
(* a frame is known by its number and the time it was sent, and the        *)
(* subscriber by the number of the message it took last. The network keeps *)
(* the order of messages and holds none older than that one; if nothing    *)
(* was lost it holds all the later ones. A message arrives between the     *)
(* shortest and the longest delay after it was sent, and the publisher's   *)
(* timers (TimerInv) put at most t0 between two messages: this bounds the  *)
(* silence a subscriber sees.                                              *)
(***************************************************************************)
EXTENDS GooseStream, GooseReceiverProofs, TLAPS

-----------------------------------------------------------------------------
\* The timers of the publisher application.

\* What StartApplication relies on: until it has run, it is the first event,
\* nothing was sent and no timer is pending; afterwards it never runs again.
StartOnce ==
    /\ \A e \in sim.pending : e.fn = "StartApplication" => life = "created"
    /\ \A e, f \in sim.pending :
            e.fn = "StartApplication" /\ f.fn = "StartApplication" => e = f
    /\ \A e \in sim.pending : e.fn = "StopApplication" => 0 < e.at
    /\ life = "created" =>
        /\ \E e \in sim.pending : e.fn = "StartApplication" /\ e.at = 0
        /\ Timers = {}
        /\ sim.now = 0
        /\ lastMsg = NoMsg /\ sent = 0 /\ burst = 0

\* Every pending timer is one a handle names, so Cancel can reach it, and
\* SendEvent timers exist only when events are enabled.
NoOrphanTimer ==
    /\ \A e, f \in sim.pending : e.uid = f.uid => e = f
    /\ \A e \in Timers : e.fn = "SendEvent" => sendEvents
    /\ \A e \in Timers : e.uid = eventId \/ (sendEvents /\ e.uid = gooseEventId)

\* OneSendChain with the times and the scheduling order of the two timers: if
\* both are due at once, the burst was scheduled first and runs first.
TimedChain ==
    life = "running" /\ count # 0 =>
        \E e \in Timers :
            /\ e.uid = eventId
            /\ sent > 0 => e.at \in lastMsg.at + 1 .. lastMsg.at + attr.t0
            /\ sent = 0 => e.fn = "Send"
            /\ IF e.fn = "Send" /\ sendEvents
               THEN \E g \in Timers : /\ g.uid = gooseEventId
                                      /\ g.fn = "SendEvent"
                                      /\ Timers = {e, g}
                                      /\ g.uid < e.uid
                                      /\ sent > 0 => lastMsg.at < g.at
                                      /\ sent = 0 => e.at < g.at
               ELSE Timers = {e}

TimerInv == TypeOK /\ StartOnce /\ NoOrphanTimer /\ StoppedIsQuiet /\ TimedChain

\* A counter changes with every increment and never becomes 0, also when it overflows.
LEMMA IncrementType == \A n \in Counter : Increment(n) \in Counter \ {0, n}
  BY CounterModAssumption DEF Increment, Counter

\* The operations of the library keep the type of a publisher.
LEMMA PublisherTypes ==
  ASSUME NEW p \in Publisher, NEW ms \in Nat
  PROVE  /\ GoosePublisher_create(ms) \in Publisher
         /\ GoosePublisher_increaseStNum(p, ms) \in Publisher
         /\ GoosePublisher_publish(p, TRUE) \in Publisher
  <1>1. 0 \in Counter /\ 1 \in Counter
    BY CounterModAssumption DEF Counter
  <1> QED
    BY <1>1, IncrementType DEF Publisher, GoosePublisher_create,
       GoosePublisher_increaseStNum, GoosePublisher_publish

\* The types of the attributes the handlers read.
LEMMA AttrTypes ==
  ASSUME TypeOK
  PROVE  /\ attr.t0 \in Nat /\ attr.t0 > 0
         /\ attr.eventInterval \in Nat
         /\ attr.eventMessages \in UInt8
  <1>1. attr \in Attributes
    BY AttrsAssumption DEF TypeOK
  <1> QED
    BY <1>1 DEF Attributes

\* The HAL's time in milliseconds is a natural number.
LEMMA HalTimeType == \A n \in Nat : Hal_getTimeInMs(n) \in Nat
  BY AttrsAssumption DEF Hal_getTimeInMs

\* The delays GOOSEPublisher::T yields during a burst are positive and at most t0.
LEMMA DelayType ==
  ASSUME NEW a \in Attrs, NEW n \in UInt8, n =< a.eventMessages
  PROVE  T(a, n) \in 1 .. a.t0
  <1>1. a \in Attributes
    BY AttrsAssumption
  <1>2. CASE n = 0
    BY <1>1, <1>2 DEF T, Attributes
  <1>3. CASE n # 0
    <2>1. n \in 1 .. a.eventMessages
      BY <1>1, <1>3 DEF UInt8, Attributes
    <2> QED
      BY <2>1, AttrsAssumption
  <1> QED
    BY <1>2, <1>3

\* The timer invariant holds before StartApplication.
LEMMA InitInv == Init => TimerInv
  <1> SUFFICES ASSUME Init PROVE TimerInv
    OBVIOUS
  <1>0. attr \in Attributes
    BY AttrsAssumption DEF Init
  <1>1. sim \in Simulator(Fns)
    BY <1>0 DEF Init, Simulator, Event, Fns, Attributes
  <1>2. publisher \in Publisher
    BY CounterModAssumption DEF Init, GoosePublisher_create, Publisher, Counter
  <1>3. TypeOK
    BY <1>0, <1>1, <1>2, AttrsAssumption, CounterModAssumption
    DEF Init, TypeOK, Attributes, NoMsg, Counter, UInt8
  <1>4. \A e \in sim.pending :
            \/ e = [at |-> 0, uid |-> 0, fn |-> "StartApplication"]
            \/ e = [at |-> attr.stopTime, uid |-> 1, fn |-> "StopApplication"] /\ attr.stopTime # 0
    BY DEF Init
  <1>5. [at |-> 0, uid |-> 0, fn |-> "StartApplication"] \in sim.pending
    BY DEF Init
  <1>6. Timers = {}
    BY <1>4 DEF Timers, SendFns
  <1>7. StartOnce
    <2>1. life = "created" /\ sim.now = 0 /\ lastMsg = NoMsg /\ sent = 0 /\ burst = 0
      BY DEF Init
    <2>2. \A e \in sim.pending : e.fn = "StopApplication" => 0 < e.at
      BY <1>0, <1>4 DEF Attributes
    <2>4. \A e, f \in sim.pending :
              e.fn = "StartApplication" /\ f.fn = "StartApplication" => e = f
      BY <1>4
    <2>3. \E e \in sim.pending : e.fn = "StartApplication" /\ e.at = 0
      BY <1>5
    <2> QED
      BY <1>6, <2>1, <2>2, <2>3, <2>4 DEF StartOnce
  <1>8. NoOrphanTimer
    BY <1>4, <1>6 DEF NoOrphanTimer
  <1>9. StoppedIsQuiet /\ TimedChain
    BY DEF Init, StoppedIsQuiet, TimedChain
  <1> QED
    BY <1>3, <1>7, <1>8, <1>9 DEF TimerInv

-----------------------------------------------------------------------------
(***************************************************************************)
(* The event list of a simulator s: well-formed, and its timers.           *)
(***************************************************************************)
SimOK(s) ==
    /\ s \in Simulator(Fns)
    /\ \A e \in s.pending : e.uid < s.uid /\ s.now =< e.at
    /\ \A e, f \in s.pending : e.uid = f.uid => e = f

TimersOf(s) == {e \in s.pending : e.fn \in SendFns}

\* The start and the stop of the application.
Others(s) == {e \in s.pending : e.fn \notin SendFns}

\* Taking the next event keeps the event list well-formed and moves the clock forward.
LEMMA DispatchOK ==
  ASSUME NEW s, SimOK(s), NEW e \in s.pending, IsNext(s, e)
  PROVE  /\ SimOK(Dispatch(s, e))
         /\ Dispatch(s, e).now = e.at
         /\ Dispatch(s, e).uid = s.uid
         /\ TimersOf(Dispatch(s, e)) = TimersOf(s) \ {e}
         /\ Others(Dispatch(s, e)) = Others(s) \ {e}
         /\ \A f \in s.pending \ {e} : e.at < f.at \/ (e.at = f.at /\ e.uid < f.uid)
  BY DEF SimOK, Dispatch, Simulator, Event, IsNext, Precedes, TimersOf, Others

\* Simulator::Schedule adds one event with a new identifier and keeps the list well-formed.
LEMMA ScheduleOK ==
  ASSUME NEW s, SimOK(s), NEW d \in Nat, NEW f \in SendFns
  PROVE  /\ SimOK(Schedule(s, d, f))
         /\ Schedule(s, d, f).now = s.now
         /\ Schedule(s, d, f).uid = s.uid + 1
         /\ TimersOf(Schedule(s, d, f)) =
                TimersOf(s) \cup {[at |-> s.now + d, uid |-> s.uid, fn |-> f]}
         /\ Others(Schedule(s, d, f)) = Others(s)
  <1> DEFINE new == [at |-> s.now + d, uid |-> s.uid, fn |-> f]
  <1>1. new \in Event(Fns) /\ new.uid = s.uid /\ new.fn = f /\ s.now =< new.at
    BY DEF SimOK, Simulator, Event, Fns, SendFns
  <1>2. /\ Schedule(s, d, f).now = s.now
        /\ Schedule(s, d, f).uid = s.uid + 1
        /\ Schedule(s, d, f).pending = s.pending \cup {new}
    BY DEF Schedule
  <1>3. Schedule(s, d, f) \in Simulator(Fns)
    BY <1>1 DEF Schedule, SimOK, Simulator
  <1> HIDE DEF new
  <1>4. SimOK(Schedule(s, d, f))
    BY <1>1, <1>2, <1>3 DEF SimOK, Simulator, Event
  <1>5. TimersOf(Schedule(s, d, f)) = TimersOf(s) \cup {new}
    BY <1>1, <1>2 DEF TimersOf
  <1>6. Others(Schedule(s, d, f)) = Others(s)
    BY <1>1, <1>2 DEF Others
  <1> QED
    BY <1>2, <1>4, <1>5, <1>6 DEF new

\* Simulator::Cancel removes the events of one identifier and keeps the list well-formed.
LEMMA CancelOK ==
  ASSUME NEW s, SimOK(s), NEW id
  PROVE  /\ SimOK(Cancel(s, id))
         /\ Cancel(s, id).now = s.now
         /\ Cancel(s, id).uid = s.uid
         /\ TimersOf(Cancel(s, id)) = {e \in TimersOf(s) : e.uid # id}
         /\ Others(Cancel(s, id)) \subseteq Others(s)
  BY DEF SimOK, Cancel, Simulator, TimersOf, Others

\* The timer invariant implies a well-formed event list.
LEMMA InvSimOK == TimerInv => SimOK(sim) /\ Timers = TimersOf(sim)
  BY DEF TimerInv, TypeOK, NoOrphanTimer, SimOK, Timers, TimersOf

\* The timer that runs next is due after the last message and within t0 of it.
LEMMA NextMessage ==
  ASSUME TimerInv, NEW e \in Timers, IsNext(sim, e), count # 0
  PROVE  /\ life = "running"
         /\ sent > 0 => e.at \in lastMsg.at + 1 .. lastMsg.at + attr.t0
         /\ e.fn = "SendEvent" => sent > 0
         /\ e.fn = "SendEvent" => {f \in Timers \ {e} : f.uid # eventId} = {}
         /\ e.fn = "Send" => e.uid = eventId
         /\ e.fn = "Send" /\ sendEvents =>
                \E g \in Timers : /\ g.uid = gooseEventId /\ g.fn = "SendEvent"
                                  /\ Timers \ {e} = {g} /\ e.at < g.at
         /\ e.fn = "Send" /\ ~sendEvents => Timers \ {e} = {}
  <1>1. life = "running"
    BY DEF TimerInv, StartOnce, StoppedIsQuiet, TypeOK
  <1>2. PICK c \in Timers :
            /\ c.uid = eventId
            /\ sent > 0 => c.at \in lastMsg.at + 1 .. lastMsg.at + attr.t0
            /\ sent = 0 => c.fn = "Send"
            /\ IF c.fn = "Send" /\ sendEvents
               THEN \E g \in Timers : /\ g.uid = gooseEventId
                                      /\ g.fn = "SendEvent"
                                      /\ Timers = {c, g}
                                      /\ g.uid < c.uid
                                      /\ sent > 0 => lastMsg.at < g.at
                                      /\ sent = 0 => c.at < g.at
               ELSE Timers = {c}
    BY <1>1 DEF TimerInv, TimedChain
  <1>3. /\ \A f \in Timers : f \in sim.pending /\ f \in Event(Fns) /\ f.fn \in SendFns
        /\ \A f \in Timers \ {e} : e.at < f.at \/ (e.at = f.at /\ e.uid < f.uid)
        /\ \A f, g \in Timers : f.uid = g.uid => f = g
        /\ lastMsg.at \in Nat /\ sent \in Nat /\ attr.t0 \in Nat
        /\ \A f \in Timers : f.fn = "SendEvent" => sendEvents
    BY AttrTypes DEF TimerInv, TypeOK, NoOrphanTimer, Timers, IsNext, Precedes, Simulator
  <1>4. CASE c.fn = "Send" /\ sendEvents
    <2>1. PICK g \in Timers : /\ g.uid = gooseEventId
                              /\ g.fn = "SendEvent"
                              /\ Timers = {c, g}
                              /\ g.uid < c.uid
                              /\ sent > 0 => lastMsg.at < g.at
                              /\ sent = 0 => c.at < g.at
      BY <1>2, <1>4
    <2>2. CASE e = c
      BY <1>1, <1>2, <1>3, <1>4, <2>1, <2>2 DEF Event
    <2>3. CASE e = g
      BY <1>1, <1>2, <1>3, <1>4, <2>1, <2>3 DEF Event
    <2> QED
      BY <2>1, <2>2, <2>3
  <1>5. CASE ~(c.fn = "Send" /\ sendEvents)
    <2>1. Timers = {c} /\ e = c
      BY <1>2, <1>5
    <2> QED
      BY <1>1, <1>2, <1>3, <1>5, <2>1 DEF Event
  <1> QED
    BY <1>4, <1>5

\* PublishNewState keeps the types.
LEMMA PublishTypes ==
  ASSUME TimerInv, count # 0, NEW now \in Nat, PublishNewState(now)
  PROVE  /\ publisher' \in Publisher
         /\ lastMsg' \in [stNum : Counter, sqNum : Counter, t : Nat, at : Nat]
         /\ lastMsg'.at = now
         /\ sent' \in Nat /\ sent' > 0
         /\ count' \in 0 .. CountMod - 1
  <1>1. Hal_getTimeInMs(now) \in Nat
    BY HalTimeType
  <1>2. GoosePublisher_increaseStNum(publisher, Hal_getTimeInMs(now)) \in Publisher
    BY <1>1, PublisherTypes DEF TimerInv, TypeOK
  <1>3. publisher' \in Publisher
    BY <1>2, PublisherTypes, <1>1 DEF PublishNewState
  <1>4. /\ lastMsg' \in [stNum : Counter, sqNum : Counter, t : Nat, at : Nat]
        /\ lastMsg'.at = now
    BY <1>2 DEF PublishNewState, Publisher
  <1>5. count' \in 0 .. CountMod - 1
    <2>1. count \in 0 .. CountMod - 1 /\ count' = count - 1
      BY DEF PublishNewState, TimerInv, TypeOK
    <2> QED
      BY <2>1, AttrsAssumption
  <1>6. sent' \in Nat /\ sent' > 0
    <2>1. sent \in Nat /\ sent' = sent + 1
      BY DEF PublishNewState, TimerInv, TypeOK
    <2> QED
      BY <2>1
  <1> QED
    BY <1>3, <1>4, <1>5, <1>6

\* StartApplication establishes the chain of timers.
LEMMA StartInv == TimerInv /\ StartApplication => TimerInv'
  <1> SUFFICES ASSUME TimerInv, StartApplication PROVE TimerInv'
    OBVIOUS
  <1>1. PICK e \in sim.pending : StartApplication!(e)
    BY DEF StartApplication
  <1> DEFINE s == Dispatch(sim, e)
             armed == IF sendEvents THEN Schedule(s, attr.eventInterval, "SendEvent") ELSE s
             g == [at |-> s.now + attr.eventInterval, uid |-> s.uid, fn |-> "SendEvent"]
             c == [at |-> armed.now + 0, uid |-> armed.uid, fn |-> "Send"]
  <1>2. IsNext(sim, e) /\ e.fn = "StartApplication"
    BY <1>1 DEF Runs
  <1>3. /\ attr.eventInterval \in Nat
        /\ e \in Event(Fns) /\ sim.uid \in Nat
    BY AttrTypes DEF TimerInv, TypeOK, Simulator
  <1>4. life = "created" /\ Timers = {} /\ sim.now = 0 /\ lastMsg = NoMsg
    BY <1>2 DEF TimerInv, StartOnce
  <1>5. e.at = 0
    BY <1>2, <1>3, <1>4 DEF TimerInv, StartOnce, TypeOK, Simulator, Event, IsNext, Precedes
  <1>6. SimOK(s) /\ s.now = 0 /\ s.uid = sim.uid /\ TimersOf(s) = {}
        /\ Others(s) = Others(sim) \ {e}
    BY <1>2, <1>4, <1>5, DispatchOK, InvSimOK
  <1>7. /\ SimOK(armed) /\ armed.now = 0
        /\ armed.uid = IF sendEvents THEN sim.uid + 1 ELSE sim.uid
        /\ TimersOf(armed) = IF sendEvents THEN {g} ELSE {}
        /\ Others(armed) = Others(s)
    <2> HIDE DEF s
    <2>1. CASE sendEvents
      <3>1. "SendEvent" \in SendFns
        BY DEF SendFns
      <3>2. armed = Schedule(s, attr.eventInterval, "SendEvent")
        BY <2>1
      <3>3. /\ SimOK(armed) /\ armed.now = s.now /\ armed.uid = s.uid + 1
            /\ TimersOf(armed) = TimersOf(s) \cup {g}
            /\ Others(armed) = Others(s)
        <4> HIDE DEF armed
        <4> QED
          BY <1>3, <1>6, <3>1, <3>2, ScheduleOK
      <3> QED
        BY <1>6, <2>1, <3>3
    <2>2. CASE ~sendEvents
      BY <1>3, <1>6, <2>2
    <2> QED
      BY <2>1, <2>2
  <1>8. /\ life' = "running" /\ sent' = 0 /\ eventCount' = 1
        /\ publisher' = GoosePublisher_create(Hal_getTimeInMs(s.now))
        /\ count' = IF count = 0 THEN CountMod - 1 ELSE count
        /\ gooseEventId' = IF sendEvents THEN s.uid ELSE gooseEventId
        /\ sim' = Schedule(armed, 0, "Send")
        /\ eventId' = armed.uid
        /\ attr' = attr /\ lastMsg' = lastMsg /\ burst' = burst
    BY <1>1
  <1> HIDE DEF s, armed
  <1>9. /\ SimOK(sim') /\ sim'.now = 0 /\ sim'.uid = armed.uid + 1
        /\ TimersOf(sim') = TimersOf(armed) \cup {c}
        /\ Others(sim') = Others(s)
    <2>1. "Send" \in SendFns /\ 0 \in Nat
      BY DEF SendFns
    <2> QED
      BY <1>7, <1>8, <2>1, ScheduleOK
  <1>10. TypeOK'
    <2>1. publisher' \in Publisher
      <3>1. Hal_getTimeInMs(s.now) \in Nat
        BY <1>6, HalTimeType
      <3>2. publisher \in Publisher
        BY DEF TimerInv, TypeOK
      <3> QED
        BY <1>8, <3>1, <3>2, PublisherTypes
    <2>2. count' \in 0 .. CountMod - 1
      BY <1>8, AttrsAssumption DEF TimerInv, TypeOK
    <2>3. eventCount' \in UInt8
      BY <1>8 DEF UInt8
    <2>4. /\ eventId' \in Nat /\ eventId' < sim'.uid
          /\ gooseEventId' \in Nat /\ gooseEventId' < sim'.uid
      BY <1>3, <1>6, <1>7, <1>8, <1>9 DEF TimerInv, TypeOK
    <2> QED
      BY <1>8, <1>9, <2>1, <2>2, <2>3, <2>4 DEF TimerInv, TypeOK, SimOK
  <1>11. StartOnce'
    <2>1. Others(sim') \subseteq sim.pending \ {e}
      BY <1>6, <1>9 DEF Others
    <2>2. \A f \in sim'.pending : f.fn = "StartApplication" \/ f.fn = "StopApplication"
                                    => f \in Others(sim')
      BY DEF Others, SendFns
    <2> QED
      BY <1>2, <1>8, <2>1, <2>2 DEF TimerInv, StartOnce
  <1>12. Timers' = IF sendEvents THEN {g, c} ELSE {c}
    BY <1>7, <1>9 DEF Timers, TimersOf
  <1>13. NoOrphanTimer'
    BY <1>6, <1>7, <1>8, <1>9, <1>12 DEF NoOrphanTimer, SimOK, sendEvents
  <1>14. StoppedIsQuiet'
    BY <1>8 DEF StoppedIsQuiet
  <1>15. TimedChain'
    <2>1. c \in Timers' /\ c.uid = eventId' /\ c.fn = "Send" /\ c.at = 0
      BY <1>7, <1>8, <1>12
    <2>2. sendEvents' = sendEvents
      BY <1>8 DEF sendEvents
    <2>3. CASE sendEvents
      <3>1. g \in Timers' /\ g.uid = gooseEventId' /\ g.fn = "SendEvent" /\ Timers' = {c, g}
        BY <1>6, <1>8, <1>12, <2>3
      <3>2. g.uid < c.uid /\ c.at < g.at
        BY <1>3, <1>6, <1>7, <2>3 DEF sendEvents
      <3> QED
        BY <1>8, <2>1, <2>2, <2>3, <3>1, <3>2 DEF TimedChain
    <2>4. CASE ~sendEvents
      <3>1. Timers' = {c}
        BY <1>12, <2>4
      <3> HIDE DEF c
      <3> QED
        BY <1>8, <2>1, <2>2, <2>4, <3>1 DEF TimedChain
    <2> QED
      BY <2>3, <2>4
  <1> QED
    BY <1>10, <1>11, <1>13, <1>14, <1>15 DEF TimerInv

\* An event that runs without arming a timer: the early returns, and the stop.
LEMMA QuietInv ==
  ASSUME TimerInv, NEW e \in sim.pending, IsNext(sim, e), e.fn # "StartApplication",
         SimOK(sim'), sim'.uid = sim.uid, Others(sim') \subseteq Others(sim),
         Timers' \subseteq Timers,
         UNCHANGED <<attr, publisher, count, sent, eventCount, eventId, gooseEventId,
                     lastMsg, burst>>,
         \/ life' = life /\ count = 0
         \/ life' = "stopped" /\ Timers' = {}
  PROVE  TimerInv'
  <1>1. life # "created"
    <2> SUFFICES ASSUME life = "created" PROVE FALSE
      OBVIOUS
    <2>1. PICK f \in sim.pending : f.fn = "StartApplication" /\ f.at = 0
      BY DEF TimerInv, StartOnce
    <2>2. e \in Event(Fns) /\ e \notin Timers /\ Timers = {}
      BY DEF TimerInv, StartOnce, TypeOK, Simulator
    <2>3. e.fn = "StopApplication"
      BY <2>2 DEF Timers, Fns, SendFns, Event
    <2>4. 0 < e.at /\ e # f
      BY <2>1, <2>3 DEF TimerInv, StartOnce
    <2>5. e.at < f.at \/ e.at = f.at
      BY <2>1, <2>4 DEF IsNext, Precedes
    <2> QED
      BY <2>1, <2>2, <2>4, <2>5 DEF Event
  <1>2. TypeOK'
    BY <1>1 DEF TimerInv, TypeOK, SimOK
  <1>3. StartOnce'
    <2>1. Others(sim') \subseteq sim.pending
      BY DEF Others
    <2>2. \A f \in sim'.pending : f.fn = "StartApplication" \/ f.fn = "StopApplication"
                                    => f \in Others(sim')
      BY DEF Others, SendFns
    <2>3. life' # "created"
      BY <1>1
    <2> QED
      BY <1>1, <2>1, <2>2, <2>3 DEF TimerInv, StartOnce
  <1>4. NoOrphanTimer'
    BY DEF TimerInv, NoOrphanTimer, SimOK, sendEvents
  <1>5. StoppedIsQuiet'
    BY DEF TimerInv, StoppedIsQuiet
  <1>6. TimedChain'
    BY DEF TimedChain
  <1> QED
    BY <1>2, <1>3, <1>4, <1>5, <1>6 DEF TimerInv

\* The early return of Send and SendEvent keeps the timer invariant.
LEMMA ExhaustedInv ==
  ASSUME TimerInv, NEW e \in sim.pending, IsNext(sim, e), e.fn \in SendFns,
         Exhausted(Dispatch(sim, e))
  PROVE  TimerInv'
  <1>1. /\ SimOK(sim') /\ sim'.uid = sim.uid
        /\ Others(sim') \subseteq Others(sim)
        /\ TimersOf(sim') \subseteq TimersOf(sim)
    BY DispatchOK, InvSimOK DEF Exhausted
  <1>2. Timers' \subseteq Timers
    BY <1>1 DEF Timers, TimersOf
  <1>3. e.fn # "StartApplication"
    BY DEF SendFns
  <1> QED
    BY <1>1, <1>2, <1>3, QuietInv DEF Exhausted

\* StopApplication keeps the timer invariant: its two Cancel calls reach every timer.
LEMMA StopInv == TimerInv /\ StopApplication => TimerInv'
  <1> SUFFICES ASSUME TimerInv, StopApplication PROVE TimerInv'
    OBVIOUS
  <1>1. PICK e \in sim.pending : StopApplication!(e)
    BY DEF StopApplication
  <1> DEFINE s == Dispatch(sim, e)
             s1 == Cancel(s, eventId)
             s2 == Cancel(s1, gooseEventId)
  <1>2. IsNext(sim, e) /\ e.fn = "StopApplication"
    BY <1>1 DEF Runs
  <1>3. /\ SimOK(s) /\ s.uid = sim.uid
        /\ Others(s) \subseteq Others(sim) /\ TimersOf(s) \subseteq Timers
    BY <1>2, DispatchOK, InvSimOK
  <1> HIDE DEF s
  <1>4. /\ SimOK(s1) /\ s1.uid = sim.uid
        /\ Others(s1) \subseteq Others(sim)
        /\ TimersOf(s1) = {f \in TimersOf(s) : f.uid # eventId}
    BY <1>3, CancelOK
  <1> HIDE DEF s1
  <1>5. /\ SimOK(s2) /\ s2.uid = sim.uid
        /\ Others(s2) \subseteq Others(sim)
        /\ TimersOf(s2) = {f \in TimersOf(s1) : f.uid # gooseEventId}
    BY <1>4, CancelOK
  <1> HIDE DEF s2
  <1>6. /\ sim' = IF sendEvents THEN s2 ELSE s1
        /\ life' = "stopped"
        /\ UNCHANGED <<attr, publisher, count, sent, eventCount, eventId, gooseEventId,
                       lastMsg, burst>>
    BY <1>1 DEF s, s1, s2
  <1>7. /\ SimOK(sim') /\ sim'.uid = sim.uid /\ Others(sim') \subseteq Others(sim)
    BY <1>4, <1>5, <1>6
  <1>8. Timers' = {}
    <2>1. \A f \in TimersOf(s) : f.uid = eventId \/ (sendEvents /\ f.uid = gooseEventId)
      BY <1>3 DEF TimerInv, NoOrphanTimer
    <2>2. TimersOf(sim') = {}
      BY <1>4, <1>5, <1>6, <2>1
    <2> QED
      BY <2>2 DEF Timers, TimersOf
  <1>9. e.fn # "StartApplication"
    BY <1>2
  <1> QED
    BY <1>2, <1>6, <1>7, <1>8, <1>9, QuietInv

\* An event that publishes: it leaves the timer c for the next message and, in
\* the stable phase, the timer g for the next burst.
LEMMA MessageInv ==
  ASSUME TimerInv, NEW e \in Timers, IsNext(sim, e), count # 0,
         PublishNewState(e.at), UNCHANGED <<attr, life>>,
         SimOK(sim'), Others(sim') \subseteq Others(sim),
         eventCount' \in UInt8, burst' \in Nat,
         eventId' \in Nat, eventId' < sim'.uid,
         gooseEventId' \in Nat, gooseEventId' < sim'.uid,
         NEW c, c.uid = eventId', c.at \in e.at + 1 .. e.at + attr.t0,
         NEW g,
         \/ c.fn = "Send" /\ ~sendEvents /\ Timers' = {c}
         \/ c.fn = "SendEvent" /\ sendEvents /\ Timers' = {c}
         \/ /\ c.fn = "Send" /\ sendEvents /\ Timers' = {c, g}
            /\ g.fn = "SendEvent" /\ g.uid = gooseEventId' /\ g.uid < c.uid /\ e.at < g.at
  PROVE  TimerInv'
  <1>1. life = "running" /\ e \in Event(Fns) /\ e.at \in Nat
    BY NextMessage DEF TimerInv, TypeOK, Timers, Simulator, Event
  <1>2. /\ publisher' \in Publisher
        /\ lastMsg' \in [stNum : Counter, sqNum : Counter, t : Nat, at : Nat]
        /\ lastMsg'.at = e.at
        /\ sent' \in Nat /\ sent' > 0
        /\ count' \in 0 .. CountMod - 1
    BY <1>1, PublishTypes
  <1>3. TypeOK'
    BY <1>2 DEF TimerInv, TypeOK, SimOK
  <1>4. StartOnce'
    <2>1. Others(sim') \subseteq sim.pending
      BY DEF Others
    <2>2. \A f \in sim'.pending : f.fn = "StartApplication" \/ f.fn = "StopApplication"
                                    => f \in Others(sim')
      BY DEF Others, SendFns
    <2> QED
      BY <1>1, <2>1, <2>2 DEF TimerInv, StartOnce
  <1>5. sendEvents' = sendEvents
    BY DEF sendEvents
  <1>6. NoOrphanTimer'
    BY <1>5 DEF NoOrphanTimer, SimOK
  <1>7. StoppedIsQuiet'
    BY <1>1 DEF StoppedIsQuiet
  <1>8. TimedChain'
    <2>1. c \in Timers' /\ c.at \in lastMsg'.at + 1 .. lastMsg'.at + attr'.t0 /\ ~(sent' = 0)
      BY <1>2
    <2>2. CASE Timers' = {c} /\ ~(c.fn = "Send" /\ sendEvents)
      BY <1>5, <2>1, <2>2 DEF TimedChain
    <2>3. CASE /\ c.fn = "Send" /\ sendEvents /\ Timers' = {c, g}
               /\ g.fn = "SendEvent" /\ g.uid = gooseEventId' /\ g.uid < c.uid /\ e.at < g.at
      BY <1>2, <1>5, <2>1, <2>3 DEF TimedChain
    <2> QED
      BY <2>2, <2>3
  <1> QED
    BY <1>3, <1>4, <1>6, <1>7, <1>8 DEF TimerInv

\* Send keeps the timer invariant.
LEMMA SendInv == TimerInv /\ Send => TimerInv'
  <1> SUFFICES ASSUME TimerInv, Send PROVE TimerInv'
    OBVIOUS
  <1>1. PICK e \in sim.pending : Send!(e)
    BY DEF Send
  <1>2. IsNext(sim, e) /\ e.fn = "Send"
    BY <1>1 DEF Runs
  <1>3. e.fn \in SendFns /\ e \in Timers /\ e \in Event(Fns)
    BY <1>2 DEF SendFns, Timers, TimerInv, TypeOK, Simulator
  <1>4. CASE Exhausted(Dispatch(sim, e))
    BY <1>2, <1>3, <1>4, ExhaustedInv
  <1>5. CASE ~Exhausted(Dispatch(sim, e))
    <2> DEFINE s == Dispatch(sim, e)
               c == [at |-> s.now + attr.t0, uid |-> s.uid, fn |-> "Send"]
    <2>1. /\ count # 0 /\ SendBody(s)
          /\ UNCHANGED <<attr, life, eventCount, gooseEventId, burst>>
      BY <1>1, <1>5
    <2>2. /\ SimOK(s) /\ s.now = e.at /\ s.uid = sim.uid
          /\ TimersOf(s) = Timers \ {e} /\ Others(s) \subseteq Others(sim)
      BY <1>2, DispatchOK, InvSimOK
    <2> HIDE DEF s
    <2>3. attr.t0 \in Nat /\ attr.t0 > 0 /\ sim.uid \in Nat /\ e.at \in Nat
      BY <1>3, AttrTypes DEF TimerInv, TypeOK, Simulator, Event
    <2>4. "Send" \in SendFns
      BY DEF SendFns
    <2>5. /\ SimOK(sim') /\ sim'.uid = sim.uid + 1
          /\ TimersOf(sim') = TimersOf(s) \cup {c} /\ Others(sim') = Others(s)
      <3>1. sim' = Schedule(s, attr.t0, "Send")
        BY <2>1 DEF SendBody
      <3>2. SimOK(s) /\ attr.t0 \in Nat
        BY <2>2, <2>3
      <3>3. /\ SimOK(sim') /\ sim'.uid = s.uid + 1
            /\ TimersOf(sim') = TimersOf(s) \cup {c} /\ Others(sim') = Others(s)
        BY <2>4, <3>1, <3>2, ScheduleOK
      <3> QED
        BY <2>2, <3>3
    <2>6. PublishNewState(e.at) /\ eventId' = sim.uid
      BY <2>1, <2>2 DEF SendBody
    <2>7. Timers' = (Timers \ {e}) \cup {c}
      BY <2>2, <2>5 DEF Timers, TimersOf
    <2>8. c.uid = eventId' /\ c.fn = "Send" /\ c.at \in e.at + 1 .. e.at + attr.t0
      BY <2>2, <2>3, <2>6
    <2> HIDE DEF c
    <2>9. /\ eventCount' \in UInt8 /\ burst' \in Nat
          /\ eventId' \in Nat /\ eventId' < sim'.uid
          /\ gooseEventId' \in Nat /\ gooseEventId' < sim'.uid
      BY <2>1, <2>3, <2>5, <2>6 DEF TimerInv, TypeOK
    <2>10. CASE sendEvents
      <3>1. PICK g \in Timers : /\ g.uid = gooseEventId /\ g.fn = "SendEvent"
                                /\ Timers \ {e} = {g} /\ e.at < g.at
        BY <1>2, <1>3, <2>1, <2>10, NextMessage
      <3>2. g.uid < c.uid
        BY <2>6, <2>8 DEF TimerInv, TypeOK, Timers
      <3> QED
        BY <1>2, <1>3, <2>1, <2>2, <2>5, <2>6, <2>7, <2>8, <2>9, <2>10, <3>1, <3>2, MessageInv
    <2>11. CASE ~sendEvents
      <3>1. Timers' = {c}
        BY <1>2, <1>3, <2>1, <2>7, <2>11, NextMessage
      <3> QED
        BY <1>2, <1>3, <2>1, <2>2, <2>5, <2>6, <2>8, <2>9, <2>11, <3>1, MessageInv
    <2> QED
      BY <2>10, <2>11
  <1> QED
    BY <1>4, <1>5

\* SendEvent keeps the timer invariant, within a burst and at its end.
LEMMA SendEventInv == TimerInv /\ SendEvent => TimerInv'
  <1> SUFFICES ASSUME TimerInv, SendEvent PROVE TimerInv'
    OBVIOUS
  <1>1. PICK e \in sim.pending : SendEvent!(e)
    BY DEF SendEvent
  <1>2. IsNext(sim, e) /\ e.fn = "SendEvent"
    BY <1>1 DEF Runs
  <1>3. e.fn \in SendFns /\ e \in Timers /\ e \in Event(Fns) /\ sendEvents
    BY <1>2 DEF SendFns, Timers, TimerInv, TypeOK, Simulator, NoOrphanTimer
  <1>4. CASE Exhausted(Dispatch(sim, e))
    BY <1>2, <1>3, <1>4, ExhaustedInv
  <1>5. CASE ~Exhausted(Dispatch(sim, e))
    <2> DEFINE d == Dispatch(sim, e)
               s == Cancel(d, eventId)
    <2>0. EndBurst(s) \/ BurstMessage(s)
      BY <1>1, <1>5
    <2>1. count # 0 /\ UNCHANGED <<attr, life>>
      BY <1>1, <1>5
    <2>2. /\ SimOK(d) /\ d.now = e.at /\ d.uid = sim.uid
          /\ TimersOf(d) = Timers \ {e} /\ Others(d) \subseteq Others(sim)
      BY <1>2, DispatchOK, InvSimOK
    <2> HIDE DEF d
    <2>3. /\ SimOK(s) /\ s.now = e.at /\ s.uid = sim.uid /\ Others(s) \subseteq Others(sim)
          /\ TimersOf(s) = {f \in TimersOf(d) : f.uid # eventId}
      BY <2>2, CancelOK
    <2>4. TimersOf(s) = {}
      <3>1. {f \in Timers \ {e} : f.uid # eventId} = {}
        BY <1>2, <1>3, <2>1, NextMessage
      <3> QED
        BY <2>2, <2>3, <3>1
    <2> HIDE DEF s
    <2>5. /\ attr \in Attrs /\ attr.t0 \in Nat /\ attr.t0 > 0 /\ sim.uid \in Nat
          /\ e.at \in Nat /\ attr.eventInterval \in Nat /\ attr.eventInterval > 0
          /\ attr.eventMessages \in UInt8 /\ eventCount \in UInt8 /\ burst \in Nat
          /\ gooseEventId \in Nat /\ gooseEventId < sim.uid
      BY <1>3, AttrTypes DEF TimerInv, TypeOK, Simulator, Event, sendEvents
    <2>6. "Send" \in SendFns /\ "SendEvent" \in SendFns
      BY DEF SendFns
    <2>7. CASE EndBurst(s)
      <3> DEFINE s1 == Schedule(s, attr.eventInterval, "SendEvent")
                 g == [at |-> s.now + attr.eventInterval, uid |-> s.uid, fn |-> "SendEvent"]
                 c == [at |-> s1.now + attr.t0, uid |-> s1.uid, fn |-> "Send"]
      <3>1. /\ eventCount' = 1 /\ gooseEventId' = s.uid /\ burst' = 0
            /\ PublishNewState(s1.now) /\ sim' = Schedule(s1, attr.t0, "Send") /\ eventId' = s1.uid
        BY <2>7 DEF EndBurst, SendBody
      <3>2. /\ SimOK(s1) /\ s1.now = e.at /\ s1.uid = sim.uid + 1
            /\ TimersOf(s1) = TimersOf(s) \cup {g} /\ Others(s1) = Others(s)
        <4>1. SimOK(s) /\ attr.eventInterval \in Nat
          BY <2>3, <2>5
        <4>2. /\ SimOK(s1) /\ s1.now = s.now /\ s1.uid = s.uid + 1
              /\ TimersOf(s1) = TimersOf(s) \cup {g} /\ Others(s1) = Others(s)
          BY <2>6, <4>1, ScheduleOK
        <4> HIDE DEF s1, g
        <4> QED
          BY <2>3, <4>2
      <3> HIDE DEF s1
      <3>3. /\ SimOK(sim') /\ sim'.uid = sim.uid + 2
            /\ TimersOf(sim') = TimersOf(s1) \cup {c} /\ Others(sim') = Others(s)
        <4>1. SimOK(s1) /\ attr.t0 \in Nat /\ sim' = Schedule(s1, attr.t0, "Send")
          BY <2>5, <3>1, <3>2
        <4>2. /\ SimOK(sim') /\ sim'.uid = s1.uid + 1
              /\ TimersOf(sim') = TimersOf(s1) \cup {c} /\ Others(sim') = Others(s1)
          BY <2>6, <4>1, ScheduleOK
        <4> HIDE DEF c, g
        <4> QED
          BY <2>5, <3>2, <4>2
      <3>4. Timers' = {c, g}
        BY <2>4, <3>2, <3>3 DEF Timers, TimersOf
      <3>5. /\ c.uid = eventId' /\ c.fn = "Send" /\ c.at \in e.at + 1 .. e.at + attr.t0
            /\ g.fn = "SendEvent" /\ g.uid = gooseEventId' /\ g.uid < c.uid /\ e.at < g.at
        BY <2>3, <2>5, <3>1, <3>2
      <3>6. /\ eventCount' \in UInt8 /\ burst' \in Nat
            /\ eventId' \in Nat /\ eventId' < sim'.uid
            /\ gooseEventId' \in Nat /\ gooseEventId' < sim'.uid
        BY <2>3, <2>5, <3>1, <3>2, <3>3 DEF UInt8
      <3>7. PublishNewState(e.at) /\ Others(sim') \subseteq Others(sim)
        BY <2>3, <3>1, <3>2, <3>3
      <3> HIDE DEF c, g
      <3> QED
        BY <1>2, <1>3, <2>1, <3>3, <3>4, <3>5, <3>6, <3>7, MessageInv
    <2>8. CASE BurstMessage(s)
      <3> DEFINE delay == T(attr, eventCount)
                 c == [at |-> s.now + delay, uid |-> s.uid, fn |-> "SendEvent"]
      <3>1. /\ eventCount' = (eventCount + 1) % 256 /\ gooseEventId' = gooseEventId
            /\ burst' = burst + 1 /\ eventId' = s.uid
            /\ PublishNewState(s.now) /\ sim' = Schedule(s, delay, "SendEvent")
        BY <2>8 DEF BurstMessage
      <3>2. delay \in 1 .. attr.t0
        <4>1. eventCount =< attr.eventMessages
          BY <2>5, <2>8 DEF BurstMessage, BurstOver, UInt8
        <4> QED
          BY <2>5, <4>1, DelayType
      <3> HIDE DEF delay
      <3>3. /\ SimOK(sim') /\ sim'.uid = sim.uid + 1
            /\ TimersOf(sim') = TimersOf(s) \cup {c} /\ Others(sim') = Others(s)
        <4>1. SimOK(s) /\ delay \in Nat /\ "SendEvent" \in SendFns
          BY <2>3, <2>5, <2>6, <3>2 DEF SendFns
        <4>2. /\ SimOK(Schedule(s, delay, "SendEvent"))
              /\ Schedule(s, delay, "SendEvent").uid = s.uid + 1
              /\ TimersOf(Schedule(s, delay, "SendEvent")) = TimersOf(s) \cup {c}
              /\ Others(Schedule(s, delay, "SendEvent")) = Others(s)
          BY <4>1, ScheduleOK
        <4>3. sim' = Schedule(s, delay, "SendEvent") /\ s.uid = sim.uid
          BY <2>3, <3>1
        <4> QED
          BY <4>2, <4>3, Zenon
      <3>4. Timers' = {c}
        BY <2>4, <3>3 DEF Timers, TimersOf
      <3>5. c.uid = eventId' /\ c.fn = "SendEvent" /\ c.at \in e.at + 1 .. e.at + attr.t0
        BY <2>3, <2>5, <3>1, <3>2
      <3>6. /\ eventCount' \in UInt8 /\ burst' \in Nat
            /\ eventId' \in Nat /\ eventId' < sim'.uid
            /\ gooseEventId' \in Nat /\ gooseEventId' < sim'.uid
        BY <2>3, <2>5, <3>1, <3>3 DEF UInt8
      <3>7. PublishNewState(e.at) /\ Others(sim') \subseteq Others(sim)
        BY <2>3, <3>1, <3>3
      <3> HIDE DEF c
      <3> QED
        BY <1>2, <1>3, <2>1, <3>3, <3>4, <3>5, <3>6, <3>7, MessageInv
    <2> QED
      BY <2>0, <2>7, <2>8
  <1> QED
    BY <1>4, <1>5

\* A stuttering step keeps the timer invariant.
LEMMA StutterInv == TimerInv /\ UNCHANGED vars => TimerInv'
  BY DEF TimerInv, TypeOK, StartOnce, NoOrphanTimer, StoppedIsQuiet, TimedChain, Timers,
     sendEvents, vars

\* The timer invariant holds in every reachable state.
THEOREM TimerInvariant == Spec => []TimerInv
  <1>1. TimerInv /\ [Next]_vars => TimerInv'
    BY StartInv, SendInv, SendEventInv, StopInv, StutterInv DEF Next
  <1> QED
    BY InitInv, <1>1, PTL DEF Spec

\* Type correctness: in particular count never passes 0 and the handles always
\* name events that were scheduled.
THEOREM TypeCorrect == Spec => []TypeOK
  <1>1. TimerInv => TypeOK
    BY DEF TimerInv
  <1> QED
    BY <1>1, TimerInvariant, PTL

\* After StopApplication no timer can call into the destroyed publisher.
THEOREM StopLeavesNoTimer == Spec => []StoppedIsQuiet
  <1>1. TimerInv => StoppedIsQuiet
    BY DEF TimerInv
  <1> QED
    BY <1>1, TimerInvariant, PTL

\* There is always exactly one timer for the next message.
THEOREM SingleChain == Spec => []OneSendChain
  <1>1. TimerInv => OneSendChain
    BY DEF TimerInv, TimedChain, OneSendChain
  <1> QED
    BY <1>1, TimerInvariant, PTL

-----------------------------------------------------------------------------
\* A step that changes sent while messages were sent before, or that increases
\* it, publishes one message at the time of the timer that runs.
LEMMA PublishingStep ==
  ASSUME TimerInv, Next, sent' # sent
  PROVE  \E e \in Timers : IsNext(sim, e) /\ count # 0 /\ PublishNewState(e.at)
  <1>1. CASE StartApplication
    <2>1. life = "created" /\ sent' = 0
      BY <1>1 DEF StartApplication, Runs, TimerInv, StartOnce
    <2> QED
      BY <2>1 DEF TimerInv, StartOnce
  <1>2. CASE Send
    <2>1. PICK e \in sim.pending : Send!(e)
      BY <1>2 DEF Send
    <2>2. IsNext(sim, e) /\ e \in Timers
      BY <2>1 DEF Runs, Timers, SendFns
    <2>3. count # 0 /\ PublishNewState(Dispatch(sim, e).now)
      BY <2>1 DEF Exhausted, SendBody
    <2> QED
      BY <2>2, <2>3 DEF Dispatch
  <1>3. CASE SendEvent
    <2>1. PICK e \in sim.pending : SendEvent!(e)
      BY <1>3 DEF SendEvent
    <2>2. IsNext(sim, e) /\ e \in Timers
      BY <2>1 DEF Runs, Timers, SendFns
    <2>3. /\ count # 0
          /\ LET s == Cancel(Dispatch(sim, e), eventId) IN
                PublishNewState(s.now) \/
                PublishNewState(Schedule(s, attr.eventInterval, "SendEvent").now)
      BY <2>1 DEF Exhausted, EndBurst, BurstMessage, SendBody
    <2> QED
      BY <2>2, <2>3 DEF Dispatch, Cancel, Schedule
  <1>4. CASE StopApplication
    BY <1>4 DEF StopApplication
  <1> QED
    BY <1>1, <1>2, <1>3, <1>4 DEF Next

\* A step that sends nothing leaves the last message and the publisher alone,
\* unless it is the start, which creates the publisher.
LEMMA QuietStep ==
  ASSUME TimerInv, Next, sent' = sent
  PROVE  /\ lastMsg' = lastMsg
         /\ \/ publisher' = publisher
            \/ life = "created" /\ sent = 0 /\ lastMsg = NoMsg /\ publisher'.stNum = 1
  <1>1. CASE StartApplication
    BY <1>1 DEF StartApplication, Runs, TimerInv, StartOnce, GoosePublisher_create
  <1>2. \A now : ~PublishNewState(now)
    <2>1. \A now : PublishNewState(now) => sent' = sent + 1
      BY DEF PublishNewState
    <2>2. sent \in Nat
      BY DEF TimerInv, TypeOK
    <2> QED
      BY <2>1, <2>2
  <1>3. CASE Send
    BY <1>2, <1>3 DEF Send, Exhausted, SendBody
  <1>4. CASE SendEvent
    BY <1>2, <1>4 DEF SendEvent, Exhausted, SendBody, EndBurst, BurstMessage
  <1>5. CASE StopApplication
    BY <1>5 DEF StopApplication
  <1> QED
    BY <1>1, <1>3, <1>4, <1>5 DEF Next

\* Consecutive messages are apart by at least one unit of time and at most t0.
THEOREM MessagesSpaced == Spec => SendSpacing
  <1> DEFINE Spaced == sent > 0 /\ sent' # sent
                          => lastMsg'.at \in lastMsg.at + 1 .. lastMsg.at + attr.t0
  <1>1. ASSUME TimerInv, [Next]_vars PROVE [Spaced]_vars
    <2> SUFFICES ASSUME Next, sent > 0, sent' # sent
                 PROVE  lastMsg'.at \in lastMsg.at + 1 .. lastMsg.at + attr.t0
      BY <1>1
    <2>1. PICK e \in Timers : IsNext(sim, e) /\ count # 0 /\ PublishNewState(e.at)
      BY <1>1, PublishingStep
    <2>2. e.at \in lastMsg.at + 1 .. lastMsg.at + attr.t0
      BY <1>1, <2>1, NextMessage
    <2>3. lastMsg'.at = e.at
      BY <2>1 DEF PublishNewState
    <2> QED
      BY <2>2, <2>3
  <1>2. SendSpacing <=> [][Spaced]_vars
    BY PTL DEF SendSpacing
  <1> QED
    BY <1>1, <1>2, TimerInvariant, PTL DEF Spec

\* The state number of the last message is the publisher's.
NumberInv == lastMsg.stNum \in {0, publisher.stNum}

\* No message passes for the one before, no state has number 0, and the first
\* message of a state has sequence number 0 and the time of the change.
THEOREM StatesFresh == Spec => FreshState
  <1> DEFINE Fresh ==
               sent' = sent + 1 =>
                 /\ lastMsg'.stNum # 0
                 /\ <<lastMsg'.stNum, lastMsg'.sqNum>> # <<lastMsg.stNum, lastMsg.sqNum>>
                 /\ lastMsg'.stNum # lastMsg.stNum => lastMsg'.sqNum = 0
                 /\ lastMsg'.sqNum = 0 => lastMsg'.t = Hal_getTimeInMs(lastMsg'.at)
             Inv == TimerInv /\ NumberInv
  <1>1. Init => NumberInv
    BY DEF Init, NumberInv, NoMsg
  <1>2. ASSUME TimerInv, NEW e \in Timers, PublishNewState(e.at)
        PROVE  /\ NumberInv'
               /\ lastMsg'.stNum = Increment(publisher.stNum)
               /\ lastMsg'.sqNum = 0
               /\ lastMsg'.t = Hal_getTimeInMs(lastMsg'.at)
    BY <1>2 DEF PublishNewState, NumberInv, GoosePublisher_increaseStNum, GoosePublisher_publish
  <1>3. ASSUME TimerInv, NumberInv, [Next]_vars PROVE NumberInv'
    <2>1. CASE UNCHANGED vars
      BY <1>3, <2>1 DEF vars, NumberInv
    <2>2. CASE Next /\ sent' # sent
      BY <1>2, <1>3, <2>2, PublishingStep
    <2>3. CASE Next /\ sent' = sent
      BY <1>3, <2>3, QuietStep DEF NumberInv, NoMsg
    <2> QED
      BY <1>3, <2>1, <2>2, <2>3
  <1>4. ASSUME TimerInv, NumberInv, [Next]_vars PROVE [Fresh]_vars
    <2> SUFFICES ASSUME Next, sent' = sent + 1
                 PROVE  Fresh
      BY <1>4
    <2>1. sent' # sent /\ publisher.stNum \in Counter
      BY <1>4 DEF TimerInv, TypeOK, Publisher
    <2>2. /\ lastMsg'.stNum = Increment(publisher.stNum)
          /\ lastMsg'.sqNum = 0 /\ lastMsg'.t = Hal_getTimeInMs(lastMsg'.at)
      BY <1>2, <1>4, <2>1, PublishingStep
    <2>3. lastMsg'.stNum \notin {0, lastMsg.stNum}
      BY <1>4, <2>1, <2>2, IncrementType DEF NumberInv
    <2> QED
      BY <2>2, <2>3
  <1>5. FreshState <=> [][Fresh]_vars
    BY PTL DEF FreshState
  <1> QED
    BY <1>1, <1>3, <1>4, <1>5, TimerInvariant, PTL DEF Spec

\* While the application runs, eventCount is the number of the next message of
\* the burst, provided that the uint8_t can hold it.
BurstInv ==
    /\ burst =< attr.eventMessages
    /\ life = "running" => eventCount = burst + 1

\* Every burst has exactly eventMessages messages, if eventMessages is below
\* the largest uint8_t.  (With 255 the counter wraps and the burst never ends.)
THEOREM BurstsComplete ==
  ASSUME \A a \in Attrs : a.eventMessages < 255
  PROVE  Spec => BurstComplete
  <1> DEFINE Complete == life = "running" /\ gooseEventId' # gooseEventId
                            => burst = attr.eventMessages
  <1>1. Init => BurstInv
    <2> SUFFICES ASSUME Init PROVE BurstInv
      OBVIOUS
    <2>1. TypeOK
      BY InitInv DEF TimerInv
    <2> QED
      BY <2>1, AttrTypes DEF Init, BurstInv, UInt8
  <1>2. ASSUME TimerInv, BurstInv, [Next]_vars PROVE BurstInv' /\ [Complete]_vars
    <2>1. /\ attr.eventMessages \in Nat /\ attr.eventMessages < 255
          /\ burst \in Nat /\ eventCount \in UInt8
      BY <1>2, AttrTypes DEF TimerInv, TypeOK, UInt8
    <2>2. CASE UNCHANGED vars
      BY <1>2, <2>2 DEF vars, BurstInv
    <2>3. CASE StartApplication
      <3>1. /\ life = "created" /\ burst' = burst /\ attr' = attr /\ eventCount' = 1
        BY <1>2, <2>3 DEF StartApplication, Runs, TimerInv, StartOnce
      <3> QED
        BY <1>2, <2>1, <3>1 DEF TimerInv, StartOnce, BurstInv
    <2>4. CASE Send
      <3>1. UNCHANGED <<attr, life, eventCount, gooseEventId, burst>>
        BY <2>4 DEF Send, Exhausted
      <3> QED
        BY <1>2, <3>1 DEF BurstInv
    <2>5. CASE StopApplication
      <3>1. UNCHANGED <<attr, eventCount, gooseEventId, burst>> /\ life' = "stopped"
        BY <2>5 DEF StopApplication
      <3> QED
        BY <1>2, <3>1 DEF BurstInv
    <2>6. CASE SendEvent
      <3>1. PICK e \in sim.pending : SendEvent!(e)
        BY <2>6 DEF SendEvent
      <3>2. IsNext(sim, e) /\ e \in Timers
        BY <3>1 DEF Runs, Timers, SendFns
      <3>3. CASE Exhausted(Dispatch(sim, e))
        BY <1>2, <3>3 DEF Exhausted, BurstInv
      <3>4. CASE ~Exhausted(Dispatch(sim, e))
        <4>1. /\ count # 0 /\ UNCHANGED <<attr, life>>
              /\ \/ eventCount > attr.eventMessages /\ eventCount' = 1 /\ burst' = 0
                 \/ /\ ~(eventCount > attr.eventMessages)
                    /\ eventCount' = (eventCount + 1) % 256
                    /\ burst' = burst + 1 /\ gooseEventId' = gooseEventId
          BY <3>1, <3>4 DEF EndBurst, BurstMessage, BurstOver
        <4>2. life = "running" /\ eventCount = burst + 1 /\ burst =< attr.eventMessages
          BY <1>2, <3>2, <4>1, NextMessage DEF BurstInv
        <4>3. CASE eventCount > attr.eventMessages
          <5>1. burst = attr.eventMessages
            BY <2>1, <4>2, <4>3
          <5> QED
            BY <2>1, <4>1, <4>3, <5>1 DEF BurstInv
        <4>4. CASE ~(eventCount > attr.eventMessages)
          <5>1. eventCount' = burst' + 1 /\ burst' =< attr.eventMessages
            BY <2>1, <4>1, <4>2, <4>4 DEF UInt8
          <5> QED
            BY <4>1, <4>4, <5>1 DEF BurstInv
        <4> QED
          BY <4>3, <4>4
      <3> QED
        BY <3>3, <3>4
    <2> QED
      BY <1>2, <2>2, <2>3, <2>4, <2>5, <2>6 DEF Next
  <1>3. BurstComplete <=> [][Complete]_vars
    BY PTL DEF BurstComplete
  <1> QED
    BY <1>1, <1>2, <1>3, TimerInvariant, PTL DEF Spec

-----------------------------------------------------------------------------
\* The stream.

\* The state number of message n; the publisher starts with that of message 0.
Num(n) == 1 + (n % (CounterMod - 1))

\* Message n, sent at time s, and the frame that carries it.
MsgOf(n, s) == [stNum |-> Num(n), sqNum |-> 0, t |-> Hal_getTimeInMs(s), at |-> s]

FrameOf(n, s) == Frame(MsgOf(n, s), rxAttr.appId, n)

\* The data set a subscriber learns from the application's messages.
Learned == parseAllDataUnknownValue(AppDataSet)

\* The subscriber as StartApplication creates it, and after it took message n.
NewSubscriber == GooseSubscriber_create(ControlBlock, <<>>, 1000, TRUE, FALSE)

SubscriberOf(n, valid) ==
    [goCBRef |-> ControlBlock, appId |-> 1000, dstMacSet |-> TRUE, isObserver |-> FALSE,
     dataSet |-> [alloc |-> "receiver", slots |-> Learned], selfAllocated |-> TRUE,
     confRev |-> 1, stNum |-> Num(n), sqNum |-> 0, stateValid |-> valid,
     timeLeft |-> TimeAllowedToLive, parseError |-> "NO_ERROR"]

-----------------------------------------------------------------------------
\* The publisher counts its messages in the state number.
Published ==
    /\ publisher.stNum = Num(sent)
    /\ sent > 0 => lastMsg = MsgOf(sent, lastMsg.at)

Packet == [frame : {FrameOf(n, s) : n \in Nat \ {0}, s \in Nat}, at : Nat]

\* Frames are in the order of their numbers, were sent and not yet received, and
\* arrive within the delays of the network.
Network ==
    /\ net \in Seq(Packet)
    /\ \A i \in 1 .. Len(net) :
        /\ net[i].frame.n \in rx.lastN + 1 .. sent
        /\ net[i].frame.sentAt =< lastMsg.at
        /\ \E c, d \in Delays : net[i].at \in net[i].frame.sentAt + c .. net[i].frame.sentAt + d
        /\ \A j \in 1 .. Len(net) : j < i => net[j].frame.n < net[i].frame.n

UtcTimes == {MmsValue_setUtcTimeMs(ms) : ms \in Nat}

SubscriberLists ==
    {<<>>, <<NewSubscriber>>} \cup {<<SubscriberOf(n, b)>> : n \in Nat, b \in BOOLEAN}

Receivers ==
    [handle : {"none", "open", "freed", "crashed"}, subs : SubscriberLists,
     at : Nat, timestamp : UtcTimes, received : Nat, lastReceivedTime : Nat, lastStNum : Nat,
     lastN : Nat]

\* The receiver remembers the message it took last.
Remembers ==
    /\ rx \in Receivers
    /\ rx.lastN =< sent
    /\ rx.handle = "none" => rx = NoReceiver
    /\ rx.handle # "none" /\ rx.received = 0 =>
            rx.subs = <<NewSubscriber>> /\ rx.lastN = 0 /\ rx.lastStNum = 0
    /\ rx.handle # "none" /\ rx.received > 0 =>
            /\ \E b \in BOOLEAN : rx.subs = <<SubscriberOf(rx.lastN, b)>>
            /\ rx.lastN > 0 /\ rx.lastStNum = Num(rx.lastN)

\* As long as nothing was lost, the network holds all messages the receiver has
\* not seen, sent t0 apart at most, and the last one received was valid.
Complete ==
    ~lost /\ rx.handle \in {"none", "open"} =>
        /\ sent = rx.lastN + Len(net)
        /\ \A i \in 1 .. Len(net) : net[i].frame.n = rx.lastN + i
        /\ \A i \in 1 .. Len(net) - 1 :
                net[i + 1].frame.sentAt =< net[i].frame.sentAt + attr.t0
        /\ net # <<>> => net[Len(net)].frame.sentAt = lastMsg.at
        /\ rx.received > 0 =>
            /\ rx.subs[1].stateValid
            /\ \E s \in Nat, c \in Delays :
                    /\ s + c =< rx.at
                    /\ IF net = <<>> THEN lastMsg.at = s ELSE net[1].frame.sentAt =< s + attr.t0

StreamInv ==
    /\ TimerInv
    /\ rxAttr \in [times : RxAttrs, appId : AppIds, lossy : BOOLEAN]
    /\ Published /\ Network /\ Remembers /\ Complete

-----------------------------------------------------------------------------
\* Seconds and fractions are put together again from their octets.
LEMMA Octets ==
  ASSUME NEW n \in Nat
  PROVE  /\ (n \div 16777216) * 16777216 + ((n \div 65536) % 256) * 65536
                + ((n \div 256) % 256) * 256 + (n % 256) = n
         /\ (n \div 65536) * 65536 + ((n \div 256) % 256) * 256 + (n % 256) = n
  BY SMTT(30)

\* A time in milliseconds survives its encoding: the fraction is rounded down
\* by less than what a millisecond takes.
LEMMA UtcTimeRoundTrip ==
  ASSUME NEW ms \in Nat
  PROVE  MmsValue_getUtcTimeInMs(MmsValue_setUtcTimeMs(ms)) = ms
  <1> DEFINE q == ms \div 1000
             r == ms % 1000
             f == Fraction(r)
             o == MmsValue_setUtcTimeMs(ms)
  <1>1. q \in Nat /\ r \in 0 .. 999 /\ ms = q * 1000 + r
    BY SMT
  <1>2. f \in Nat /\ f \div 16777 = r
    <2>1. (r * 216) \div 1000 \in 0 .. 215
      BY <1>1, SMT
    <2> HIDE DEF r
    <2> QED
      BY <1>1, <2>1, SMT DEF Fraction
  <1>3. /\ o[1] = q \div 16777216 /\ o[2] = (q \div 65536) % 256
        /\ o[3] = (q \div 256) % 256 /\ o[4] = q % 256
        /\ o[5] = f \div 65536 /\ o[6] = (f \div 256) % 256 /\ o[7] = f % 256
    BY SMT DEF MmsValue_setUtcTimeMs, setUtcTimeMs, Seconds
  <1> HIDE DEF q, r, f, o
  <1>4. SecondsOf(o) = q
    BY <1>1, <1>3, Octets, SMT DEF SecondsOf
  <1>5. FractionOf(o) = f
    BY <1>2, <1>3, Octets, SMT DEF FractionOf
  <1>6. MmsValue_getUtcTimeInMs(o) = ms
    BY <1>1, <1>2, <1>4, <1>5, SMT DEF MmsValue_getUtcTimeInMs
  <1> QED
    BY <1>6 DEF o

-----------------------------------------------------------------------------
\* State numbers go around the circle 1 .. CounterMod - 1, one step a message.
LEMMA StateNumbers ==
  ASSUME NEW n \in Nat
  PROVE  /\ Num(n) \in 1 .. CounterMod - 1 /\ Num(n) \in Nat
         /\ Num(0) = 1
         /\ Num(n + 1) = Increment(Num(n)) /\ Num(n + 1) # Num(n)
  <1> DEFINE b == CounterMod - 1
             s == n % b
  <1>1. b \in Nat \ {0} /\ b > 1
    BY CounterModAssumption
  <1>2. s \in 0 .. b - 1 /\ (s + 1) % b = (n + 1) % b /\ 0 % b = 0
    <2> HIDE DEF b
    <2>1. s \in 0 .. b - 1
      BY <1>1, Division
    <2>2. (s + 1) % b = (n + 1) % b
      BY <1>1, Remainders
    <2>3. 0 % b = 0
      BY <1>1
    <2> QED
      BY <2>1, <2>2, <2>3
  <1>3. (s + 1) % b = IF s + 1 = b THEN 0 ELSE s + 1
    <2> HIDE DEF b, s
    <2>1. CASE s + 1 = b
      BY <1>1, <2>1
    <2>2. CASE s + 1 < b
      BY <1>1, <1>2, <2>2
    <2> QED
      BY <1>1, <1>2, <2>1, <2>2
  <1>4. Num(n) = 1 + s /\ Num(n + 1) = 1 + ((n + 1) % b) /\ Num(0) = 1 + (0 % b)
    BY DEF Num
  <1>5. CounterMod = b + 1
    BY CounterModAssumption
  <1> HIDE DEF b, s
  <1>6. Num(n + 1) = IF s + 1 = b THEN 1 ELSE s + 2
    BY <1>1, <1>2, <1>3, <1>4
  <1>7. Increment(1 + s) = IF s + 1 = b THEN 1 ELSE s + 2
    BY <1>1, <1>2, <1>5 DEF Increment
  <1>8. Num(n) \in 1 .. CounterMod - 1 /\ Num(n) \in Nat
    BY <1>1, <1>2, <1>4, <1>5
  <1> QED
    BY <1>1, <1>2, <1>4, <1>6, <1>7, <1>8

\* The distance between two messages is that of their state numbers.
LEMMA NumberDifference ==
  ASSUME NEW a \in Nat, NEW c \in Nat, a =< c
  PROVE  (c - a) % (CounterMod - 1) = (Num(c) - Num(a)) % (CounterMod - 1)
  <1> DEFINE b == CounterMod - 1
             s == a % b
             t == c % b
  <1>1. b \in Nat \ {0}
    BY CounterModAssumption
  <1>2. Num(a) = 1 + s /\ Num(c) = 1 + t
    BY DEF Num
  <1> HIDE DEF b
  <1>3. s \in 0 .. b - 1 /\ t \in 0 .. b - 1
    BY <1>1, Division
  <1>4. (t + b - s) % b = (c - a) % b
    BY <1>1, Remainders
  <1> HIDE DEF s, t
  <1>5. (t + b - s) % b = (t - s) % b
    BY <1>1, <1>3
  <1>6. Num(c) - Num(a) = t - s
    BY <1>2, <1>3
  <1> QED
    BY <1>4, <1>5, <1>6 DEF b

\* What is learned from the application's messages, and what a later one does to it.
LEMMA LearnedDataSet ==
  /\ Len(AppDataSet) = 3 /\ Learnable(AppDataSet)
  /\ Learned \in Seq(Slot) /\ Len(Learned) = 3
  /\ \A i \in 1 .. 3 : Learned[i].val = AppDataSet[i].val
  /\ parseAllData(Learned, AppDataSet) = [slots |-> Learned, error |-> "NO_ERROR"]
  <1>1. AppDataSet \in Seq(Element) /\ Len(AppDataSet) = 3
    BY DEF AppDataSet, Element, Tags
  <1>2. \A i \in 1 .. 3 : ~LeftOut(AppDataSet[i]) /\ ~Refused(AppDataSet[i])
    BY DEF AppDataSet, LeftOut, Refused
  <1>3. Learned \in Seq(Slot) /\ Len(Learned) = 3
    BY <1>1, <1>2, LearnedType DEF Learned, Learnable
  <1>4. \A i \in 1 .. 3 : Learned[i] = NewSlot(AppDataSet[i])
    BY <1>1, <1>2, LearnedSlots DEF Learned
  <1>5. ASSUME NEW i \in 1 .. 3
        PROVE  ~Fails(Learned, AppDataSet, i) /\ Write(Learned[i], AppDataSet[i]) = Learned[i]
    <2>0. AppDataSet[i] \in Element /\ Learned[i] \in Slot
      <3>1. AppDataSet[i] \in Element
        BY <1>1, ElementOfSeq
      <3>2. Learned[i] \in Slot
        BY <1>3, ElementOfSeq
      <3> QED
        BY <3>1, <3>2
    <2>1. PICK el \in Element : el = AppDataSet[i]
      BY <2>0
    <2>2. (el.tag = "integer" /\ el.len = 2) \/ (el.tag = "binarytime" /\ el.len = 6)
      BY <2>1 DEF AppDataSet
    <2>3. PICK s \in Slot : s = Learned[i]
      BY <2>0
    <2>4. s.type = el.tag /\ s.max >= el.len /\ s.val = el.val
      <3>1. s = NewSlot(el)
        BY <1>4, <2>1, <2>3
      <3>2. s.type = el.tag /\ s.val = el.val
        BY <3>1 DEF NewSlot
      <3>3. s.max = IF el.tag = "integer" THEN 5 ELSE 6
        BY <2>2, <3>1 DEF NewSlot
      <3> QED
        BY <2>2, <3>2, <3>3
    <2>5. ElementError(s, el) = "NO_ERROR" /\ s # NoSlot
      <3>1. el.tag # "null" /\ el.tag \notin {"unknown", "reserved", "utctime", "bitstring", "float"}
                /\ el.tag \notin Nested
        BY <2>2 DEF Nested
      <3>2. el.len \in Nat /\ s.max \in Nat /\ ~(el.len > s.max)
        BY <2>4 DEF Element, Slot
      <3> QED
        BY <2>4, <3>1, <3>2 DEF ElementError, NoSlot
    <2>6. ~Fails(Learned, AppDataSet, i)
      BY <1>3, <2>1, <2>3, <2>5 DEF Fails
    <2>7. Write(s, el) = s
      <3>1. ~Skipped(el)
        BY <2>2 DEF Skipped
      <3>2. Write(s, el) = [s EXCEPT !.val = el.val]
        BY <3>1 DEF Write
      <3> QED
        BY <2>4, <3>2 DEF Slot
    <2> QED
      BY <2>1, <2>3, <2>6, <2>7
  <1>6. parseAllData(Learned, AppDataSet) =
            [slots |-> [i \in 1 .. 3 |-> Write(Learned[i], AppDataSet[i])], error |-> "NO_ERROR"]
    BY <1>1, <1>3, <1>5, ParseAllDataFits
  <1>7. [i \in 1 .. 3 |-> Write(Learned[i], AppDataSet[i])] = Learned
    BY <1>3, <1>5
  <1>8. \A i \in 1 .. 3 : Learned[i].val = AppDataSet[i].val
    BY <1>4 DEF NewSlot
  <1> QED
    BY <1>1, <1>2, <1>3, <1>6, <1>7, <1>8 DEF Learnable

-----------------------------------------------------------------------------
\* The subscribers of the application.
ControlBlocks == {ControlBlock}

AppSubscriber ==
    [goCBRef : ControlBlocks, appId : Int, dstMacSet : BOOLEAN, isObserver : BOOLEAN,
     dataSet : [alloc : {"none", "app", "receiver"}, slots : Seq(Slot)],
     selfAllocated : BOOLEAN, confRev : Nat, stNum : Nat, sqNum : Nat,
     stateValid : BOOLEAN, timeLeft : Int, parseError : GooseParseError]

\* Subscribers are equal if their fields are.
LEMMA SameSubscriber ==
  ASSUME NEW a \in AppSubscriber, NEW b \in AppSubscriber,
         a.goCBRef = b.goCBRef, a.appId = b.appId, a.dstMacSet = b.dstMacSet,
         a.isObserver = b.isObserver, a.dataSet = b.dataSet,
         a.selfAllocated = b.selfAllocated, a.confRev = b.confRev, a.stNum = b.stNum,
         a.sqNum = b.sqNum, a.stateValid = b.stateValid, a.timeLeft = b.timeLeft,
         a.parseError = b.parseError
  PROVE  a = b
  BY DEF AppSubscriber

\* The subscriber before its first and after its n-th message.
LEMMA SubscriberTypes ==
  /\ NewSubscriber \in AppSubscriber
  /\ \A n \in Nat, b \in BOOLEAN : SubscriberOf(n, b) \in AppSubscriber
  <1>1. <<>> \in Seq(Slot)
    OBVIOUS
  <1>2. "NO_ERROR" \in GooseParseError
    BY DEF GooseParseError
  <1>3. NewSubscriber \in AppSubscriber
    BY <1>1, <1>2, SMT DEF NewSubscriber, GooseSubscriber_create, NoDataSet, AppSubscriber,
       ControlBlocks
  <1>4. Learned \in Seq(Slot) /\ TimeAllowedToLive \in Int /\ \A n \in Nat : Num(n) \in Nat
    <2>1. Learned \in Seq(Slot)
      BY LearnedDataSet
    <2>2. TimeAllowedToLive \in Int
      BY StreamAssumption
    <2>3. \A n \in Nat : Num(n) \in Nat
      BY StateNumbers
    <2> QED
      BY <2>1, <2>2, <2>3
  <1>5. \A n \in Nat, b \in BOOLEAN : SubscriberOf(n, b) \in AppSubscriber
    BY <1>1, <1>2, <1>4, SMT DEF SubscriberOf, AppSubscriber, ControlBlocks
  <1> QED
    BY <1>3, <1>5

\* Subscriber self is base with another time left.
Waits(self, base, x) ==
    /\ x \in Int
    /\ self = [base EXCEPT !.timeLeft = x]
    /\ \/ base = NewSubscriber
       \/ \E k \in Nat, b \in BOOLEAN : base = SubscriberOf(k, b)

\* The fields of such a subscriber.
LEMMA Waiting ==
  ASSUME NEW self, NEW base, NEW x, Waits(self, base, x)
  PROVE  /\ self \in AppSubscriber
         /\ self.goCBRef = ControlBlock /\ self.appId = 1000 /\ self.dstMacSet
         /\ ~self.isObserver /\ self.selfAllocated
         /\ self.parseError = "NO_ERROR" /\ self.sqNum = 0
         /\ self.stNum = base.stNum /\ self.stateValid = base.stateValid /\ self.timeLeft = x
         /\ \/ self.dataSet = NoDataSet
            \/ self.confRev = 1 /\ self.dataSet = [alloc |-> "receiver", slots |-> Learned]
  <1>1. /\ base \in AppSubscriber
        /\ base.goCBRef = ControlBlock /\ base.appId = 1000 /\ base.dstMacSet
        /\ ~base.isObserver /\ base.selfAllocated
        /\ base.parseError = "NO_ERROR" /\ base.sqNum = 0
        /\ \/ base.dataSet = NoDataSet
           \/ base.confRev = 1 /\ base.dataSet = [alloc |-> "receiver", slots |-> Learned]
    <2>1. CASE base = NewSubscriber
      BY <2>1, SubscriberTypes DEF NewSubscriber, GooseSubscriber_create
    <2>2. CASE \E k \in Nat, b \in BOOLEAN : base = SubscriberOf(k, b)
      BY <2>2, SubscriberTypes DEF SubscriberOf
    <2> QED
      BY <2>1, <2>2 DEF Waits
  <1>2. x \in Int /\ self = [base EXCEPT !.timeLeft = x]
    BY DEF Waits
  <1>3. self \in AppSubscriber
    BY <1>1, <1>2 DEF AppSubscriber
  <1>4. /\ self.goCBRef = base.goCBRef /\ self.appId = base.appId
        /\ self.parseError = base.parseError
        /\ self.sqNum = base.sqNum /\ self.stNum = base.stNum /\ self.timeLeft = x
        /\ self.dataSet = base.dataSet /\ self.confRev = base.confRev
    BY <1>1, <1>2 DEF AppSubscriber
  <1>5. /\ self.dstMacSet = base.dstMacSet /\ self.isObserver = base.isObserver
        /\ self.selfAllocated = base.selfAllocated /\ self.stateValid = base.stateValid
    <2>1. base \in AppSubscriber
      BY <1>1
    <2> QED
      BY <2>1, <1>2 DEF AppSubscriber
  <1> QED
    BY <1>1, <1>3, <1>4, <1>5

\* The fields of a frame.
LEMMA FrameFields ==
  ASSUME NEW n, NEW s
  PROVE  LET f == FrameOf(n, s)
         IN  /\ f.goCBRef = ControlBlock /\ f.stNum = Num(n) /\ f.sqNum = 0
             /\ f.t = MmsValue_setUtcTimeMs(Hal_getTimeInMs(s))
             /\ f.timeAllowedToLive = TimeAllowedToLive /\ f.confRev = 1
             /\ f.data = AppDataSet /\ f.sentAt = s /\ f.n = n
  BY DEF FrameOf, Frame, MsgOf

\* parseGoosePayload: the subscriber is as any message n leaves it, and valid if
\* its state number differs from the one before.
LEMMA PayloadTaken ==
  ASSUME NEW self, NEW base, NEW x, Waits(self, base, x), NEW n \in Nat, NEW s
  PROVE  ParsePayload(self, FrameOf(n, s)) = SubscriberOf(n, self.stNum # Num(n))
  <1> DEFINE f == FrameOf(n, s)
             kept == DataSetKept(self, f)
             dataSet == [alloc |-> "receiver", slots |-> Learned]
             valid == self.stNum # Num(n)
             p == ParsePayload(self, f)
  <1>1. /\ f.goCBRef = ControlBlock /\ f.stNum = Num(n) /\ f.sqNum = 0
        /\ f.timeAllowedToLive = TimeAllowedToLive /\ f.confRev = 1 /\ f.data = AppDataSet
    BY FrameFields
  <1> HIDE DEF f
  <1>2. /\ self \in AppSubscriber
        /\ self.goCBRef = ControlBlock /\ self.appId = 1000 /\ self.dstMacSet
        /\ ~self.isObserver /\ self.selfAllocated
        /\ self.parseError = "NO_ERROR" /\ self.sqNum = 0
        /\ \/ self.dataSet = NoDataSet
           \/ self.confRev = 1 /\ self.dataSet = [alloc |-> "receiver", slots |-> Learned]
    BY Waiting
  <1>3. \/ kept = NoDataSet
        \/ kept = dataSet
    BY <1>1, <1>2 DEF DataSetKept
  <1>4. Parsed(kept, AppDataSet) = [slots |-> Learned, error |-> "NO_ERROR"]
    <2>1. CASE kept = NoDataSet
      BY <2>1, LearnedDataSet DEF Parsed, Learned
    <2>2. CASE kept = dataSet
      <3>1. kept # NoDataSet /\ kept.slots = Learned
        BY <2>2 DEF NoDataSet
      <3> QED
        BY <3>1, LearnedDataSet DEF Parsed
    <2> QED
      BY <1>3, <2>1, <2>2
  <1>5. NewDataSet(kept, AppDataSet) = dataSet
    <2>1. Parsed(kept, AppDataSet).slots = Learned
      BY <1>4
    <2>2. (IF kept = NoDataSet /\ Learnable(AppDataSet) THEN "receiver" ELSE kept.alloc)
              = "receiver"
      BY <1>3, LearnedDataSet
    <2> QED
      BY <2>1, <2>2 DEF NewDataSet
  <1>6. InSequence(self, f) = valid
    BY <1>1, <1>2 DEF InSequence
  <1>7. SelfAllocated(self, f) = TRUE
    BY <1>2 DEF SelfAllocated
  <1>8. Parsed(kept, AppDataSet).error = "NO_ERROR"
    BY <1>4
  <1>9. /\ dataSet \in [alloc : {"none", "app", "receiver"}, slots : Seq(Slot)]
        /\ valid \in BOOLEAN /\ Num(n) \in Nat /\ TimeAllowedToLive \in Int
    <2>2. Num(n) \in Nat /\ TimeAllowedToLive \in Int
      BY StateNumbers, StreamAssumption
    <2> QED
      BY <2>2, LearnedDataSet
  <1>10. p = [self EXCEPT !.goCBRef = f.goCBRef, !.dataSet = NewDataSet(kept, f.data),
                          !.selfAllocated = SelfAllocated(self, f),
                          !.parseError = IF kept = NoDataSet THEN self.parseError
                                         ELSE Parsed(kept, f.data).error,
                          !.stateValid = (Parsed(kept, f.data).error = "NO_ERROR"
                                          /\ InSequence(self, f)),
                          !.confRev = f.confRev, !.stNum = f.stNum, !.sqNum = f.sqNum,
                          !.timeLeft = f.timeAllowedToLive]
    BY DEF ParsePayload
  <1>11. /\ p \in AppSubscriber
         /\ p.goCBRef = ControlBlock /\ p.dataSet = dataSet /\ p.selfAllocated
         /\ p.parseError = "NO_ERROR" /\ p.stateValid = valid /\ p.confRev = 1
         /\ p.stNum = Num(n) /\ p.sqNum = 0 /\ p.timeLeft = TimeAllowedToLive
         /\ p.appId = self.appId /\ p.dstMacSet = self.dstMacSet
         /\ p.isObserver = self.isObserver
    <2>1. PICK e, v, a : /\ e = (IF kept = NoDataSet THEN self.parseError
                                 ELSE Parsed(kept, f.data).error)
                         /\ v = (Parsed(kept, f.data).error = "NO_ERROR" /\ InSequence(self, f))
                         /\ a = SelfAllocated(self, f)
      OBVIOUS
    <2>2. e = "NO_ERROR" /\ a = TRUE /\ NewDataSet(kept, f.data) = dataSet
      BY <1>1, <1>2, <1>5, <1>7, <1>8, <2>1
    <2>3. v = valid
      BY <1>1, <1>6, <1>8, <2>1
    <2>4. e \in GooseParseError
      BY <2>2 DEF GooseParseError
    <2> HIDE DEF kept, dataSet, valid, p
    <2>5. p = [self EXCEPT !.goCBRef = f.goCBRef, !.dataSet = NewDataSet(kept, f.data),
                           !.selfAllocated = a, !.parseError = e, !.stateValid = v,
                           !.confRev = f.confRev, !.stNum = f.stNum, !.sqNum = f.sqNum,
                           !.timeLeft = f.timeAllowedToLive]
      BY <1>10, <2>1
    <2>6. /\ f.goCBRef \in ControlBlocks /\ f.confRev \in Nat /\ f.stNum \in Nat
          /\ f.sqNum \in Nat /\ f.timeAllowedToLive \in Int /\ a \in BOOLEAN /\ v \in BOOLEAN
          /\ NewDataSet(kept, f.data) \in [alloc : {"none", "app", "receiver"}, slots : Seq(Slot)]
      BY <1>1, <1>9, <2>2, <2>3 DEF ControlBlocks
    <2>0. self \in AppSubscriber
      BY <1>2
    <2>7. p \in AppSubscriber
      <3>1. PICK g, d, c, k, l, w :
                /\ g = f.goCBRef /\ d = NewDataSet(kept, f.data) /\ c = f.confRev
                /\ k = f.stNum /\ l = f.sqNum /\ w = f.timeAllowedToLive
        OBVIOUS
      <3>2. p = [self EXCEPT !.goCBRef = g, !.dataSet = d, !.selfAllocated = a,
                             !.parseError = e, !.stateValid = v, !.confRev = c, !.stNum = k,
                             !.sqNum = l, !.timeLeft = w]
        BY <2>5, <3>1
      <3>3. /\ g \in ControlBlocks /\ c \in Nat /\ k \in Nat /\ l \in Nat /\ w \in Int
            /\ d \in [alloc : {"none", "app", "receiver"}, slots : Seq(Slot)]
        BY <2>6, <3>1
      <3>4. a \in BOOLEAN /\ v \in BOOLEAN
        BY <2>6
      <3> QED
        BY <2>0, <2>4, <3>2, <3>3, <3>4 DEF AppSubscriber
    <2>8. /\ p.goCBRef = f.goCBRef /\ p.dataSet = NewDataSet(kept, f.data)
          /\ p.parseError = e /\ p.confRev = f.confRev /\ p.stNum = f.stNum
          /\ p.sqNum = f.sqNum /\ p.timeLeft = f.timeAllowedToLive /\ p.appId = self.appId
      BY <1>2, <2>5 DEF AppSubscriber
    <2>9. /\ p.selfAllocated = a /\ p.stateValid = v /\ p.dstMacSet = self.dstMacSet
          /\ p.isObserver = self.isObserver
      BY <2>0, <2>5 DEF AppSubscriber
    <2> QED
      BY <1>1, <2>2, <2>3, <2>7, <2>8, <2>9
  <1> HIDE DEF kept, dataSet, valid, p
  <1>12. PICK q \in AppSubscriber : q = SubscriberOf(n, valid)
    BY <1>9, SubscriberTypes
  <1>13. p = q
    <2>1. /\ q.goCBRef = ControlBlock /\ q.dataSet = dataSet /\ q.selfAllocated
          /\ q.parseError = "NO_ERROR" /\ q.stateValid = valid /\ q.confRev = 1
          /\ q.stNum = Num(n) /\ q.sqNum = 0 /\ q.timeLeft = TimeAllowedToLive
          /\ q.appId = 1000 /\ q.dstMacSet /\ ~q.isObserver
      BY <1>12 DEF SubscriberOf, dataSet
    <2>2. /\ p.selfAllocated = q.selfAllocated /\ p.dstMacSet = q.dstMacSet
          /\ p.isObserver = q.isObserver
      BY <1>2, <1>11, <2>1 DEF AppSubscriber
    <2>3. /\ p.goCBRef = q.goCBRef /\ p.dataSet = q.dataSet /\ p.parseError = q.parseError
          /\ p.stateValid = q.stateValid /\ p.confRev = q.confRev /\ p.stNum = q.stNum
          /\ p.sqNum = q.sqNum /\ p.timeLeft = q.timeLeft /\ p.appId = q.appId
      BY <1>2, <1>11, <2>1
    <2> QED
      BY <1>11, <2>2, <2>3, SameSubscriber
  <1> QED
    BY <1>12, <1>13 DEF p, f, valid

\* parseGooseMessage, when the application's subscriber is the only one.
LEMMA MessageTaken ==
  ASSUME NEW self, NEW base, NEW x, Waits(self, base, x), NEW n \in Nat, NEW s
  PROVE  /\ MatchingSubscriber(<<self>>, FrameOf(n, s)) = 1
         /\ parseGooseMessage(<<self>>, FrameOf(n, s))
                = <<SubscriberOf(n, self.stNum # Num(n))>>
  <1> DEFINE f == FrameOf(n, s)
  <1>1. f.goCBRef = ControlBlock
    BY FrameFields
  <1>2. ParsePayload(self, f) = SubscriberOf(n, self.stNum # Num(n))
    BY PayloadTaken
  <1> HIDE DEF f
  <1>3. self.goCBRef = ControlBlock /\ ~self.isObserver
    BY Waiting
  <1>4. PICK list : list = <<self>>
    OBVIOUS
  <1>5. Len(list) = 1 /\ list[1] = self /\ DOMAIN list = 1 .. 1
    BY <1>4
  <1>6. MatchingSubscriber(list, f) = 1
    <2> DEFINE hits == {j \in 1 .. Len(list) : list[j].isObserver \/ list[j].goCBRef = f.goCBRef}
    <2>1. hits = {1}
      BY <1>1, <1>3, <1>5
    <2>2. First({1}) = 1
      <3>1. \A i \in {1} : i = 1 /\ \A j \in {1} : i =< j
        OBVIOUS
      <3> QED
        BY <3>1 DEF First
    <2> QED
      BY <2>1, <2>2 DEF MatchingSubscriber
  <1>7. NoteHeader(list, f) = list
    <2> DEFINE hits == {j \in 1 .. Len(list) : Interested(list[j], f)}
    <2>1. hits \subseteq 1 .. 1 /\ 1 \in Nat
      BY <1>5
    <2>2. First(hits) = 0 \/ First(hits) = 1
      <3> HIDE DEF hits
      <3>1. First(hits) = 0 \/ First(hits) \in hits
        BY <2>1, FirstHit
      <3>2. First(hits) \in hits => First(hits) \in 1 .. 1
        BY <2>1
      <3>3. \A i \in 1 .. 1 : i = 1
        OBVIOUS
      <3> QED
        BY <3>1, <3>2, <3>3
    <2>3. ~(First(hits) # 0 /\ list[First(hits)].isObserver)
      BY <1>3, <1>5, <2>2
    <2> QED
      BY <2>3 DEF NoteHeader
  <1>8. parseGooseMessage(list, f) = [list EXCEPT ![1] = ParsePayload(list[1], f)]
    BY <1>6, <1>7 DEF parseGooseMessage
  <1>9. [list EXCEPT ![1] = ParsePayload(list[1], f)] = <<ParsePayload(self, f)>>
    BY <1>4, <1>5
  <1> QED
    BY <1>2, <1>4, <1>6, <1>8, <1>9 DEF f

\* Whose only subscriber is base.
Has(r, base) ==
    /\ r.subs = <<base>>
    /\ \/ base = NewSubscriber
       \/ \E k \in Nat, b \in BOOLEAN : base = SubscriberOf(k, b)

\* GooseReceiver_tick, parseGooseMessage and the listener, for message n.
LEMMA ReceiveTaken ==
  ASSUME NEW r \in Receivers, NEW base, Has(r, base),
         NEW n \in Nat \ {0}, NEW s \in Nat, NEW t \in Nat
  PROVE  LET q == Receive(r, FrameOf(n, s), t)
         IN  /\ q \in Receivers
             /\ q.handle = r.handle /\ q.at = t /\ q.received = r.received + 1
             /\ q.lastStNum = Num(n) /\ q.lastN = n /\ q.lastReceivedTime = Hal_getTimeInMs(s)
             /\ q.subs = <<SubscriberOf(n, base.stNum # Num(n))>>
  <1> DEFINE f == FrameOf(n, s)
             self == ElapseTo(base, r.at, t)
             ms == Hal_getTimeInMs(t) - Hal_getTimeInMs(r.at)
             x == IF base.timeLeft < ms THEN -1 ELSE base.timeLeft - ms
             v == base.stNum # Num(n)
             list == <<SubscriberOf(n, v)>>
  <1>1. Waits(self, base, x)
    <2>1. base \in AppSubscriber
      BY SubscriberTypes DEF Has
    <2>2. base.timeLeft \in Int
      BY <2>1 DEF AppSubscriber
    <2>3. r.at \in Nat
      BY DEF Receivers
    <2>4. ms \in Int
      BY <2>3, HalTimeType
    <2>5. x \in Int
      BY <2>2, <2>4
    <2>6. self = [base EXCEPT !.timeLeft = x]
      BY DEF ElapseTo
    <2> QED
      BY <2>5, <2>6 DEF Waits, Has
  <1>2. self.stNum = base.stNum
    BY <1>1, Waiting
  <1>3. r.subs[1] = base
    BY DEF Has
  <1> HIDE DEF self, x
  <1>4. /\ MatchingSubscriber(<<self>>, f) = 1
        /\ parseGooseMessage(<<self>>, f) = list
    BY <1>1, <1>2, MessageTaken
  <1>5. /\ f.t = MmsValue_setUtcTimeMs(Hal_getTimeInMs(s)) /\ f.n = n
        /\ f.t \in UtcTimes /\ MmsValue_getUtcTimeInMs(f.t) = Hal_getTimeInMs(s)
    BY FrameFields, HalTimeType, UtcTimeRoundTrip DEF UtcTimes
  <1> HIDE DEF f
  <1>6. list \in SubscriberLists /\ list[1].stNum = Num(n) /\ Num(n) \in Nat
    <2>1. list \in SubscriberLists
      <3>1. v \in BOOLEAN
        OBVIOUS
      <3>2. PICK b \in BOOLEAN : b = v
        BY <3>1
      <3> HIDE DEF v
      <3>3. list = <<SubscriberOf(n, b)>> /\ n \in Nat
        BY <3>2
      <3> QED
        BY <3>3 DEF SubscriberLists
    <2>2. list[1] = SubscriberOf(n, v)
      OBVIOUS
    <2>3. SubscriberOf(n, v).stNum = Num(n)
      BY DEF SubscriberOf
    <2>4. Num(n) \in Nat
      BY StateNumbers
    <2> QED
      BY <2>1, <2>2, <2>3, <2>4
  <1> HIDE DEF list
  <1>7. PICK p : p = [r EXCEPT !.subs = list, !.at = t]
    OBVIOUS
  <1>8. PICK o : o = [p EXCEPT !.timestamp = f.t]
    OBVIOUS
  <1>9. Receive(r, f, t) = Listener(o, f)
    <2>1. <<ElapseTo(r.subs[1], r.at, t)>> = <<self>>
      BY <1>3 DEF self
    <2>2. PICK z : z = <<self>>
      OBVIOUS
    <2>3. MatchingSubscriber(z, f) # 0 /\ parseGooseMessage(z, f) = list
      BY <1>4, <2>2
    <2> QED
      BY <1>7, <1>8, <2>1, <2>2, <2>3 DEF Receive
  <1>10. /\ p \in Receivers /\ p.subs = list /\ p.at = t /\ p.handle = r.handle
         /\ p.received = r.received
    BY <1>6, <1>7 DEF Receivers
  <1>11. /\ o \in Receivers /\ o.subs = list /\ o.at = t /\ o.handle = r.handle
         /\ o.received = r.received /\ o.timestamp = f.t
    BY <1>5, <1>8, <1>10 DEF Receivers
  <1>12. PICK k, m : k = o.received + 1 /\ m = Hal_getTimeInMs(s)
    OBVIOUS
  <1>13. k \in Nat /\ m \in Nat /\ Num(n) \in Nat
    BY <1>6, <1>11, <1>12, HalTimeType DEF Receivers
  <1>14. Listener(o, f) = [o EXCEPT !.received = k, !.lastStNum = Num(n),
                                    !.lastReceivedTime = m, !.lastN = n]
    BY <1>5, <1>6, <1>11, <1>12 DEF Listener
  <1>15. PICK q : q = Listener(o, f)
    OBVIOUS
  <1>16. /\ q \in Receivers
         /\ q.handle = r.handle /\ q.at = t /\ q.received = k
         /\ q.lastStNum = Num(n) /\ q.lastN = n /\ q.lastReceivedTime = m
         /\ q.subs = list
    BY <1>11, <1>13, <1>14, <1>15 DEF Receivers
  <1>17. k = r.received + 1
    BY <1>11, <1>12
  <1> QED
    BY <1>9, <1>12, <1>15, <1>16, <1>17 DEF f, list

-----------------------------------------------------------------------------
\* No step of the publisher changes its configuration.
LEMMA AttrFixed == Next => attr' = attr
  <1>1. StartApplication => attr' = attr
    BY DEF StartApplication
  <1>2. Send => attr' = attr
    BY DEF Send, Exhausted
  <1>3. SendEvent => attr' = attr
    BY DEF SendEvent, Exhausted
  <1>4. StopApplication => attr' = attr
    BY DEF StopApplication
  <1> QED
    BY <1>1, <1>2, <1>3, <1>4 DEF Next

\* At most one event is the next one.
LEMMA NextUnique ==
  ASSUME TimerInv, NEW e \in sim.pending, NEW f \in sim.pending, IsNext(sim, e), IsNext(sim, f)
  PROVE  e = f
  <1>1. e \in Event(Fns) /\ f \in Event(Fns)
    BY DEF TimerInv, TypeOK, Simulator
  <1>2. e # f => Precedes(e, f) /\ Precedes(f, e)
    BY DEF IsNext
  <1> QED
    BY <1>1, <1>2 DEF Event, Precedes

\* A step of the publisher sends nothing, or message sent + 1 with its state number,
\* within t0 of the message before.
LEMMA PublisherEffect ==
  ASSUME TimerInv, Published, Next, NEW e \in sim.pending, IsNext(sim, e)
  PROVE  /\ Published'
         /\ \/ sent' = sent /\ lastMsg' = lastMsg
            \/ /\ sent' = sent + 1 /\ lastMsg' = MsgOf(sent + 1, e.at)
               /\ sent > 0 => e.at \in lastMsg.at + 1 .. lastMsg.at + attr.t0
  <1>1. sent \in Nat /\ publisher \in Publisher
    BY DEF TimerInv, TypeOK
  <1>2. CASE sent' = sent
    <2>1. Num(0) = 1
      BY StateNumbers
    <2>2. lastMsg' = lastMsg /\ (publisher' = publisher \/ (sent = 0 /\ publisher'.stNum = 1))
      BY <1>2, QuietStep
    <2>3. publisher'.stNum = Num(sent)
      BY <2>1, <2>2 DEF Published
    <2> QED
      BY <1>2, <2>2, <2>3 DEF Published
  <1>3. CASE sent' # sent
    <2>1. PICK g \in Timers : IsNext(sim, g) /\ count # 0 /\ PublishNewState(g.at)
      BY <1>3, PublishingStep
    <2>2. g = e
      BY <2>1, NextUnique DEF Timers
    <2>3. sent' = sent + 1
      BY <2>1 DEF PublishNewState
    <2>4. PICK m : m = sent + 1
      OBVIOUS
    <2>5. Num(m) = Increment(Num(sent))
      BY <1>1, <2>4, StateNumbers
    <2>6. lastMsg' = MsgOf(m, e.at) /\ publisher'.stNum = Num(m)
      <3>1. publisher.stNum = Num(sent)
        BY DEF Published
      <3>2. PICK p : p = GoosePublisher_increaseStNum(publisher, Hal_getTimeInMs(e.at))
        OBVIOUS
      <3>3. p.stNum = Num(m) /\ p.sqNum = 0 /\ p.t = Hal_getTimeInMs(e.at)
        BY <2>5, <3>1, <3>2 DEF GoosePublisher_increaseStNum
      <3>4. publisher' = GoosePublisher_publish(p, TRUE)
            /\ lastMsg' = [stNum |-> p.stNum, sqNum |-> p.sqNum, t |-> p.t, at |-> e.at]
        BY <2>1, <2>2, <3>2 DEF PublishNewState
      <3>5. publisher'.stNum = p.stNum
        BY <3>2, <3>4 DEF GoosePublisher_publish, GoosePublisher_increaseStNum
      <3> QED
        BY <3>3, <3>4, <3>5 DEF MsgOf
    <2>7. sent > 0 => e.at \in lastMsg.at + 1 .. lastMsg.at + attr.t0
      BY <2>1, <2>2, NextMessage
    <2>8. Published'
      <3>1. lastMsg'.at = e.at
        BY <2>6 DEF MsgOf
      <3>2. lastMsg' = MsgOf(m, lastMsg'.at)
        BY <2>6, <3>1
      <3> QED
        BY <2>3, <2>4, <2>6, <3>2 DEF Published, MsgOf, Num, Hal_getTimeInMs
    <2> QED
      BY <2>3, <2>4, <2>6, <2>7, <2>8
  <1> QED
    BY <1>2, <1>3

-----------------------------------------------------------------------------
\* What is in a packet.
LEMMA PacketFields ==
  ASSUME NEW p \in Packet
  PROVE  /\ p.at \in Nat /\ p.frame.n \in Nat \ {0} /\ p.frame.sentAt \in Nat
         /\ p.frame = FrameOf(p.frame.n, p.frame.sentAt)
  <1>1. p.at \in Nat /\ p.frame \in {FrameOf(n, s) : n \in Nat \ {0}, s \in Nat}
    BY DEF Packet
  <1>2. PICK n \in Nat \ {0}, s \in Nat : p.frame = FrameOf(n, s)
    BY <1>1
  <1>3. p.frame.n = n /\ p.frame.sentAt = s
    BY <1>2, FrameFields
  <1> QED
    BY <1>1, <1>2, <1>3

\* The packet of message n.
LEMMA PacketMade ==
  ASSUME NEW n \in Nat \ {0}, NEW s \in Nat, NEW t \in Nat
  PROVE  [frame |-> FrameOf(n, s), at |-> t] \in Packet
  BY DEF Packet

\* The types of what the invariant speaks of.
LEMMA StreamTypes ==
  ASSUME StreamInv
  PROVE  /\ sent \in Nat /\ lastMsg.at \in Nat /\ attr.t0 \in Nat
         /\ net \in Seq(Packet) /\ Len(net) \in Nat
         /\ \A i \in 1 .. Len(net) : /\ net[i] \in Packet /\ net[i].at \in Nat
                                     /\ net[i].frame.n \in Nat \ {0}
                                     /\ net[i].frame.sentAt \in Nat
         /\ rx \in Receivers /\ rx.lastN \in Nat /\ rx.received \in Nat /\ rx.at \in Nat
         /\ Delays \subseteq Nat
  <1>1. sent \in Nat /\ lastMsg.at \in Nat /\ attr.t0 \in Nat
    BY AttrTypes DEF StreamInv, TimerInv, TypeOK
  <1>2. net \in Seq(Packet) /\ Len(net) \in Nat
    BY DEF StreamInv, Network
  <1>3. \A i \in 1 .. Len(net) : net[i] \in Packet
    BY <1>2
  <1>4. \A i \in 1 .. Len(net) : /\ net[i].at \in Nat /\ net[i].frame.n \in Nat \ {0}
                                 /\ net[i].frame.sentAt \in Nat
    BY <1>3, PacketFields
  <1>5. rx \in Receivers /\ rx.lastN \in Nat /\ rx.received \in Nat /\ rx.at \in Nat
    BY DEF StreamInv, Remembers, Receivers
  <1> QED
    BY <1>1, <1>2, <1>3, <1>4, <1>5, StreamAssumption

\* A frame that is sent joins the others behind them.
LEMMA TransmitInv ==
  ASSUME StreamInv, rxAttr' = rxAttr, rx' = rx, attr' = attr, lost' = lost,
         NEW now \in Nat, sent' = sent + 1, lastMsg' = MsgOf(sent + 1, now),
         sent > 0 => now \in lastMsg.at + 1 .. lastMsg.at + attr.t0,
         Transmit(Frame(lastMsg', rxAttr.appId, sent'), now)
  PROVE  Network' /\ Complete'
  <1>1. /\ sent \in Nat /\ lastMsg.at \in Nat /\ attr.t0 \in Nat
        /\ net \in Seq(Packet) /\ Len(net) \in Nat
        /\ \A i \in 1 .. Len(net) : /\ net[i] \in Packet /\ net[i].at \in Nat
                                    /\ net[i].frame.n \in Nat \ {0}
                                    /\ net[i].frame.sentAt \in Nat
        /\ rx \in Receivers /\ rx.lastN \in Nat /\ rx.received \in Nat /\ rx.at \in Nat
        /\ Delays \subseteq Nat
    BY StreamTypes
  <1>2. lastMsg'.at = now
    BY DEF MsgOf
  <1>3. PICK m \in Nat \ {0} : m = sent + 1
    BY <1>1
  <1>4. PICK f : f = FrameOf(m, now)
    OBVIOUS
  <1>5. Frame(lastMsg', rxAttr.appId, sent') = f
    BY <1>3, <1>4 DEF FrameOf
  <1>6. f.n = m /\ f.sentAt = now
    BY <1>4, FrameFields
  <1>7. \A i \in 1 .. Len(net) :
            /\ net[i].frame.n \in rx.lastN + 1 .. sent
            /\ net[i].frame.sentAt =< lastMsg.at
            /\ \E c, d \in Delays : net[i].at \in net[i].frame.sentAt + c .. net[i].frame.sentAt + d
            /\ \A j \in 1 .. Len(net) : j < i => net[j].frame.n < net[i].frame.n
    BY DEF StreamInv, Network
  <1>8. \A i \in 1 .. Len(net) : sent > 0 /\ net[i].frame.sentAt =< now
    <2> SUFFICES ASSUME NEW i \in 1 .. Len(net) PROVE sent > 0 /\ net[i].frame.sentAt =< now
      OBVIOUS
    <2>1. net[i].frame.n \in rx.lastN + 1 .. sent /\ net[i].frame.sentAt =< lastMsg.at
          /\ net[i].frame.sentAt \in Nat
      BY <1>1, <1>7
    <2>2. sent \in Nat /\ rx.lastN \in Nat /\ lastMsg.at \in Nat /\ attr.t0 \in Nat
      BY <1>1
    <2>3. sent > 0
      BY <2>1, <2>2
    <2> QED
      BY <2>1, <2>2, <2>3
  <1>9. PICK d \in Delays : \E at :
            /\ at = (IF now + d < (IF net = <<>> THEN 0 ELSE net[Len(net)].at)
                     THEN (IF net = <<>> THEN 0 ELSE net[Len(net)].at) ELSE now + d)
            /\ net' = Append(net, [frame |-> f, at |-> at])
    BY <1>5 DEF Transmit
  <1>9a. PICK at :
            /\ at = (IF now + d < (IF net = <<>> THEN 0 ELSE net[Len(net)].at)
                     THEN (IF net = <<>> THEN 0 ELSE net[Len(net)].at) ELSE now + d)
            /\ net' = Append(net, [frame |-> f, at |-> at])
    BY <1>9
  <1>10. at \in Nat /\ \E b, c \in Delays : at \in now + b .. now + c
    <2>1. d \in Nat
      BY <1>1
    <2>2. CASE net = <<>>
      BY <1>9a, <2>1, <2>2
    <2>3. CASE net # <<>>
      <3>1. Len(net) \in 1 .. Len(net)
        BY <1>1, <2>3
      <3>2. PICK l : l = Len(net)
        OBVIOUS
      <3>3. PICK c \in Delays : net[l].at =< net[l].frame.sentAt + c
        BY <1>1, <1>7, <3>1, <3>2, SMTT(30)
      <3>4. net[l].at \in Nat /\ net[l].frame.sentAt \in Nat /\ net[l].frame.sentAt =< now
            /\ c \in Nat
        <4>1. c \in Nat
          BY <1>1
        <4>2. net[l].at \in Nat /\ net[l].frame.sentAt \in Nat
          BY <1>1, <3>1, <3>2
        <4>3. net[l].frame.sentAt =< now
          BY <1>8, <3>1, <3>2
        <4> QED
          BY <4>1, <4>2, <4>3
      <3>5. at = IF now + d < net[l].at THEN net[l].at ELSE now + d
        BY <1>9a, <2>3, <3>2
      <3>6. at \in Nat
        BY <2>1, <3>4, <3>5
      <3>7. at \in now + d .. now + c \/ at \in now + d .. now + d
        BY <2>1, <3>3, <3>4, <3>5
      <3> QED
        BY <3>6, <3>7
    <2> QED
      BY <2>2, <2>3
  <1>11. PICK p \in Packet : p = [frame |-> f, at |-> at]
    BY <1>3, <1>4, <1>10, PacketMade
  <1>12. p.frame = f /\ p.at = at
    BY <1>11
  <1>13. PICK l \in Nat : l = Len(net)
    BY <1>1
  <1>14. /\ net' \in Seq(Packet) /\ Len(net') = l + 1
         /\ \A i \in 1 .. l : net'[i] = net[i]
         /\ net'[l + 1] = p
    BY <1>1, <1>9a, <1>11, <1>13
  <1>15. Packet' = Packet
    BY DEF Packet, FrameOf, Frame, MsgOf, Num, Hal_getTimeInMs
  <1>16. Network'
    <2>1. rx.lastN =< sent
      BY DEF StreamInv, Remembers
    <2>2. ASSUME NEW i \in 1 .. l + 1
          PROVE  /\ net'[i].frame.n \in rx.lastN + 1 .. m
                 /\ net'[i].frame.sentAt =< now
                 /\ \E b, c \in Delays :
                        net'[i].at \in net'[i].frame.sentAt + b .. net'[i].frame.sentAt + c
                 /\ \A j \in 1 .. l + 1 : j < i => net'[j].frame.n < net'[i].frame.n
      <3>1. CASE i = l + 1
        <4>1. net'[i] = p
          BY <1>14, <3>1
        <4>2. net'[i].frame.n = m /\ net'[i].frame.sentAt = now /\ net'[i].at = at
          BY <1>6, <1>12, <4>1
        <4>3. \A j \in 1 .. l + 1 : j < i => j \in 1 .. l /\ net'[j].frame.n < m
          <5>1. \A j \in 1 .. l + 1 : j < i => j \in 1 .. l
            BY <1>13, <3>1
          <5>2. ASSUME NEW j \in 1 .. l PROVE net'[j].frame.n < m
            <6>1. net'[j] = net[j] /\ sent \in Nat /\ rx.lastN \in Nat
              BY <1>1, <1>14
            <6>2. net[j].frame.n \in rx.lastN + 1 .. sent
              BY <1>7, <1>13
            <6> QED
              BY <1>3, <6>1, <6>2
          <5> QED
            BY <5>1, <5>2
        <4>4. m \in rx.lastN + 1 .. m
          BY <1>1, <1>3, <2>1
        <4> QED
          BY <1>10, <4>2, <4>3, <4>4
      <3>2. CASE i \in 1 .. l
        <4>1. net'[i] = net[i]
          BY <1>14, <3>2
        <4>2. net[i].frame.n \in rx.lastN + 1 .. m /\ net[i].frame.sentAt =< now
          <5>1. net[i].frame.n \in rx.lastN + 1 .. sent /\ net[i].frame.sentAt =< now
            BY <1>7, <1>8, <1>13, <3>2
          <5>2. rx.lastN + 1 .. sent \subseteq rx.lastN + 1 .. m
            BY <1>1, <1>3
          <5> QED
            BY <5>1, <5>2
        <4>3. \A j \in 1 .. l + 1 : j < i => net'[j].frame.n < net[i].frame.n
          <5>1. \A j \in 1 .. l + 1 : j < i => j \in 1 .. l
            BY <1>13, <3>2
          <5>2. \A j \in 1 .. l : j < i => net[j].frame.n < net[i].frame.n
            BY <1>7, <1>13, <3>2
          <5> QED
            BY <1>14, <5>1, <5>2
        <4> QED
          BY <1>7, <1>13, <3>2, <4>1, <4>2, <4>3
      <3> QED
        BY <1>13, <3>1, <3>2
    <2> QED
      BY <1>2, <1>3, <1>14, <1>15, <2>2 DEF Network
  <1>17. Complete'
    <2> SUFFICES ASSUME ~lost, rx.handle \in {"none", "open"} PROVE Complete'
      BY DEF Complete
    <2>1. /\ sent = rx.lastN + l
          /\ \A i \in 1 .. l : net[i].frame.n = rx.lastN + i
          /\ \A i \in 1 .. l - 1 : net[i + 1].frame.sentAt =< net[i].frame.sentAt + attr.t0
          /\ net # <<>> => net[l].frame.sentAt = lastMsg.at
          /\ rx.received > 0 =>
              /\ rx.subs[1].stateValid
              /\ \E s \in Nat, c \in Delays :
                    /\ s + c =< rx.at
                    /\ IF net = <<>> THEN lastMsg.at = s ELSE net[1].frame.sentAt =< s + attr.t0
      BY <1>13 DEF StreamInv, Complete
    <2>2. sent' = rx.lastN + Len(net')
      BY <1>1, <1>13, <1>14, <2>1
    <2>3. \A i \in 1 .. l + 1 : net'[i].frame.n = rx.lastN + i
      <3>1. net'[l + 1].frame.n = rx.lastN + (l + 1)
        <4>1. net'[l + 1].frame.n = sent + 1
          BY <1>3, <1>6, <1>12, <1>14
        <4>2. rx.lastN \in Nat /\ sent = rx.lastN + l
          BY <1>1, <2>1
        <4> QED
          BY <1>13, <4>1, <4>2
      <3>2. \A i \in 1 .. l : net'[i].frame.n = rx.lastN + i
        BY <1>14, <2>1
      <3> QED
        BY <1>13, <3>1, <3>2
    <2>4. l # 0 => sent > 0 /\ net[l].frame.sentAt = lastMsg.at
      <3>1. l # 0 => net # <<>> /\ l \in 1 .. l
        BY <1>1, <1>13
      <3> QED
        BY <1>8, <1>13, <2>1, <3>1
    <2>5. \A i \in 1 .. l : net'[i + 1].frame.sentAt =< net'[i].frame.sentAt + attr.t0
      <3>1. ASSUME NEW i \in 1 .. l, i = l
            PROVE  net'[i + 1].frame.sentAt =< net'[i].frame.sentAt + attr.t0
        <4>1. net'[i + 1].frame.sentAt = now /\ net'[i] = net[l]
          BY <1>6, <1>12, <1>14, <3>1
        <4>2. now =< lastMsg.at + attr.t0
          BY <1>1, <1>13, <2>4, <3>1
        <4>3. l # 0
          BY <3>1
        <4> QED
          BY <2>4, <4>1, <4>2, <4>3
      <3>2. ASSUME NEW i \in 1 .. l, i # l
            PROVE  net'[i + 1].frame.sentAt =< net'[i].frame.sentAt + attr.t0
        <4>1. i \in 1 .. l - 1 /\ i + 1 \in 1 .. l
          BY <1>13, <3>2
        <4>2. net'[i + 1] = net[i + 1] /\ net'[i] = net[i]
          BY <1>14, <4>1
        <4> QED
          BY <2>1, <4>1, <4>2
      <3> QED
        BY <3>1, <3>2
    <2>6. net'[Len(net')].frame.sentAt = lastMsg'.at /\ net' # <<>>
      BY <1>1, <1>2, <1>6, <1>12, <1>13, <1>14
    <2>7. ASSUME rx.received > 0
          PROVE  \E s \in Nat, c \in Delays :
                    s + c =< rx.at /\ net'[1].frame.sentAt =< s + attr.t0
      <3>1. PICK s \in Nat, c \in Delays :
                /\ s + c =< rx.at
                /\ IF net = <<>> THEN lastMsg.at = s ELSE net[1].frame.sentAt =< s + attr.t0
        BY <2>1, <2>7
      <3>2. CASE net = <<>>
        <4>1. l = 0 /\ net'[1].frame.sentAt = now
          BY <1>6, <1>12, <1>13, <1>14, <3>2
        <4>2. sent > 0
          <5>1. rx.handle # "none"
            BY <2>7 DEF StreamInv, Remembers, NoReceiver
          <5>2. rx.lastN > 0
            BY <2>7, <5>1 DEF StreamInv, Remembers
          <5> QED
            BY <1>1, <2>1, <4>1, <5>2
        <4> QED
          BY <1>1, <3>1, <3>2, <4>1, <4>2
      <3>3. CASE net # <<>>
        <4>1. 1 \in 1 .. l
          BY <1>1, <1>13, <3>3
        <4> QED
          BY <1>14, <3>1, <3>3, <4>1
      <3> QED
        BY <3>2, <3>3
    <2>8. \A i \in 1 .. Len(net') - 1 : i \in 1 .. l
      BY <1>13, <1>14
    <2> QED
      BY <1>14, <2>1, <2>2, <2>3, <2>5, <2>6, <2>7, <2>8 DEF Complete
  <1> QED
    BY <1>16, <1>17

\* What stays the same if neither the network nor the receiver does anything.
LEMMA PacketsFixed == rxAttr' = rxAttr => Packet' = Packet
  BY DEF Packet, FrameOf, Frame, MsgOf, Num, Hal_getTimeInMs

\* What does not depend on the state.
LEMMA ReceiversFixed ==
  /\ Receivers' = Receivers /\ NoReceiver' = NoReceiver /\ NewSubscriber' = NewSubscriber
  /\ \A n, b : SubscriberOf(n, b)' = SubscriberOf(n, b) /\ Num(n)' = Num(n)
  BY DEF Receivers, SubscriberLists, UtcTimes, NoReceiver, NewSubscriber, SubscriberOf, Num,
     Learned

\* The receiver remembers the same as before, also when more was sent.
LEMMA RemembersFixed ==
  ASSUME StreamInv, rx' = rx, sent' \in Nat, sent' >= sent
  PROVE  Remembers'
  <1>1. Receivers' = Receivers /\ NoReceiver' = NoReceiver /\ NewSubscriber' = NewSubscriber
    BY DEF Receivers, SubscriberLists, UtcTimes, NoReceiver, NewSubscriber, SubscriberOf, Num,
       Learned
  <1>2. rx.lastN =< sent' /\ rx.lastN \in Nat
    <2>1. rx.lastN =< sent /\ sent \in Nat /\ rx.lastN \in Nat
      BY StreamTypes DEF StreamInv, Remembers
    <2> QED
      BY <2>1
  <1>3. SubscriberOf(rx.lastN, TRUE)' = SubscriberOf(rx.lastN, TRUE)
        /\ SubscriberOf(rx.lastN, FALSE)' = SubscriberOf(rx.lastN, FALSE)
    BY DEF SubscriberOf, Num, Learned
  <1>4. Num(rx.lastN)' = Num(rx.lastN)
    BY DEF Num
  <1>5. Remembers
    BY DEF StreamInv
  <1> QED
    BY <1>1, <1>2, <1>3, <1>4, <1>5 DEF Remembers

\* A step of the publisher application.
LEMMA PublisherStepInv == StreamInv /\ PublisherStep => StreamInv'
  <1> SUFFICES ASSUME StreamInv, PublisherStep PROVE StreamInv'
    OBVIOUS
  <1>1. PICK e \in sim.pending : PublisherStep!(e)
    BY DEF PublisherStep
  <1>2. TimerInv /\ Next /\ IsNext(sim, e) /\ UNCHANGED <<rxAttr, rx>>
    BY <1>1 DEF StreamInv
  <1>3. TimerInv'
    BY <1>2, StartInv, SendInv, SendEventInv, StopInv DEF Next
  <1>4. attr' = attr
    BY <1>2, AttrFixed
  <1>5. /\ Published'
        /\ \/ sent' = sent /\ lastMsg' = lastMsg
           \/ /\ sent' = sent + 1 /\ lastMsg' = MsgOf(sent + 1, e.at)
              /\ sent > 0 => e.at \in lastMsg.at + 1 .. lastMsg.at + attr.t0
    BY <1>2, PublisherEffect DEF StreamInv
  <1>6. /\ sent \in Nat /\ lastMsg.at \in Nat /\ attr.t0 \in Nat
        /\ net \in Seq(Packet) /\ Len(net) \in Nat
        /\ \A i \in 1 .. Len(net) : net[i].frame.n \in Nat /\ net[i].frame.sentAt \in Nat
        /\ rx.lastN \in Nat
    BY StreamTypes
  <1>7. e.at \in Nat
    BY <1>2 DEF TimerInv, TypeOK, Simulator, Event
  <1>8. Remembers'
    BY <1>2, <1>5, <1>6, RemembersFixed
  <1>9. Packet' = Packet
    BY <1>2, PacketsFixed
  <1>10. Network' /\ Complete'
    <2>1. CASE sent' = sent /\ lastMsg' = lastMsg
      <3>1. UNCHANGED <<net, lost>>
        <4>1. sent' # sent + 1
          BY <1>6, <2>1
        <4> QED
          BY <1>1, <4>1
      <3> QED
        BY <1>2, <1>4, <1>9, <2>1, <3>1 DEF StreamInv, Network, Complete
    <2>2. CASE sent' = sent + 1 /\ lost' = TRUE /\ net' = net
      <3>1. Complete'
        BY <2>2 DEF Complete
      <3>2. lastMsg' = MsgOf(sent + 1, e.at)
            /\ (sent > 0 => e.at \in lastMsg.at + 1 .. lastMsg.at + attr.t0)
        BY <1>5, <1>6, <2>2
      <3>3. lastMsg'.at = e.at
        BY <3>2 DEF MsgOf
      <3>4. ASSUME NEW i \in 1 .. Len(net)
            PROVE  /\ net[i].frame.n \in rx.lastN + 1 .. sent'
                   /\ net[i].frame.sentAt =< lastMsg'.at
        <4>1. net[i].frame.n \in rx.lastN + 1 .. sent /\ net[i].frame.sentAt =< lastMsg.at
          BY DEF StreamInv, Network
        <4>0. sent \in Nat /\ rx.lastN \in Nat /\ lastMsg.at \in Nat /\ attr.t0 \in Nat
              /\ net[i].frame.sentAt \in Nat
          BY StreamTypes
        <4>2. sent > 0 /\ net[i].frame.n \in rx.lastN + 1 .. sent'
          BY <2>2, <4>0, <4>1
        <4>3. lastMsg.at =< lastMsg'.at
          BY <3>2, <3>3, <4>0, <4>2
        <4>4. net[i].frame.sentAt =< lastMsg'.at
          <5>1. PICK x \in Nat, y \in Nat, z \in Nat :
                    x = net[i].frame.sentAt /\ y = lastMsg.at /\ z = lastMsg'.at
            BY <1>7, <3>3, <4>0
          <5>2. x =< y /\ y =< z
            BY <4>1, <4>3, <5>1
          <5> QED
            BY <5>1, <5>2
        <4> QED
          BY <4>2, <4>4
      <3>5. Network'
        BY <1>2, <1>9, <2>2, <3>4 DEF StreamInv, Network
      <3> QED
        BY <3>1, <3>5
    <2>3. CASE /\ sent' = sent + 1 /\ lost' = lost
               /\ Transmit(Frame(lastMsg', rxAttr.appId, sent'), e.at)
      <3>1. lastMsg' = MsgOf(sent + 1, e.at)
            /\ (sent > 0 => e.at \in lastMsg.at + 1 .. lastMsg.at + attr.t0)
        BY <1>5, <1>6, <2>3
      <3>2. rxAttr' = rxAttr /\ rx' = rx
        BY <1>2
      <3> QED
        BY <1>4, <1>7, <2>3, <3>1, <3>2, TransmitInv
    <2> QED
      BY <1>1, <1>5, <2>1, <2>2, <2>3
  <1>11. rxAttr' \in [times : RxAttrs, appId : AppIds, lossy : BOOLEAN]
    BY <1>2 DEF StreamInv
  <1> QED
    BY <1>3, <1>5, <1>8, <1>10, <1>11 DEF StreamInv

\* The publisher's part of the invariant, in a step of the receiver or the network.
LEMMA PublisherRests ==
  ASSUME StreamInv, UNCHANGED <<vars, rxAttr>>
  PROVE  /\ TimerInv' /\ Published' /\ Packet' = Packet
         /\ rxAttr' \in [times : RxAttrs, appId : AppIds, lossy : BOOLEAN]
         /\ attr' = attr /\ sent' = sent /\ lastMsg' = lastMsg
  <1>1. TimerInv'
    BY StutterInv DEF StreamInv
  <1>2. Packet' = Packet
    BY PacketsFixed
  <1>3. attr' = attr /\ sent' = sent /\ lastMsg' = lastMsg /\ publisher' = publisher
    BY DEF vars
  <1>4. Published'
    BY <1>3 DEF StreamInv, Published, Num, MsgOf, Hal_getTimeInMs
  <1> QED
    BY <1>1, <1>2, <1>3, <1>4 DEF StreamInv

\* The receiver application stops: its objects are freed.
LEMMA StopReceiverInv == StreamInv /\ StopReceiver => StreamInv'
  <1> SUFFICES ASSUME StreamInv, StopReceiver PROVE StreamInv'
    OBVIOUS
  <1>1. /\ rx.handle = "open" /\ rx' = [rx EXCEPT !.handle = "freed"]
        /\ UNCHANGED <<vars, rxAttr>> /\ net' = net /\ lost' = lost
    BY DEF StopReceiver, RxStopDue
  <1>2. /\ TimerInv' /\ Published' /\ Packet' = Packet
        /\ rxAttr' \in [times : RxAttrs, appId : AppIds, lossy : BOOLEAN]
        /\ attr' = attr /\ sent' = sent /\ lastMsg' = lastMsg
    BY <1>1, PublisherRests
  <1>3. rx \in Receivers
    BY StreamTypes
  <1>4. /\ rx' \in Receivers /\ rx'.handle = "freed" /\ rx'.subs = rx.subs
        /\ rx'.received = rx.received /\ rx'.lastN = rx.lastN /\ rx'.lastStNum = rx.lastStNum
    BY <1>1, <1>3 DEF Receivers
  <1>5. Network'
    BY <1>1, <1>2, <1>4 DEF StreamInv, Network
  <1>6. Complete'
    BY <1>4 DEF Complete
  <1>7. Remembers'
    BY <1>1, <1>2, <1>4, ReceiversFixed DEF StreamInv, Remembers
  <1> QED
    BY <1>2, <1>5, <1>6, <1>7 DEF StreamInv

-----------------------------------------------------------------------------
\* The first frame leaves the network.
LEMMA FirstLeaves ==
  ASSUME StreamInv, net # <<>>, net' = Tail(net)
  PROVE  /\ Len(net) \in Nat \ {0} /\ Head(net) = net[1]
         /\ net' \in Seq(Packet) /\ Len(net') = Len(net) - 1
         /\ \A i \in 1 .. Len(net') : net'[i] = net[i + 1] /\ i + 1 \in 1 .. Len(net)
         /\ net' = <<>> => Len(net) = 1
  <1>1. net \in Seq(Packet)
    BY StreamTypes
  <1>2. Len(net) \in Nat \ {0} /\ Head(net) = net[1]
    BY <1>1
  <1>3. net' \in Seq(Packet) /\ Len(net') = Len(net) - 1
    BY <1>1
  <1>4. \A i \in 1 .. Len(net') : net'[i] = net[i + 1]
    BY <1>1
  <1>5. \A i \in 1 .. Len(net') : i + 1 \in 1 .. Len(net)
    BY <1>2, <1>3
  <1>6. net' = <<>> => Len(net') = 0
    BY <1>3
  <1> QED
    BY <1>2, <1>3, <1>4, <1>5, <1>6

\* What remains in the network is newer than the frame that left.
LEMMA RestInv ==
  ASSUME StreamInv, net # <<>>, net' = Tail(net), UNCHANGED <<vars, rxAttr>>,
         rx'.lastN \in {rx.lastN, net[1].frame.n}
  PROVE  Network'
  <1>1. /\ Len(net) \in Nat \ {0}
        /\ net' \in Seq(Packet) /\ Len(net') = Len(net) - 1
        /\ \A i \in 1 .. Len(net') : net'[i] = net[i + 1] /\ i + 1 \in 1 .. Len(net)
    BY FirstLeaves
  <1>2. Packet' = Packet /\ sent' = sent /\ lastMsg' = lastMsg
    BY PublisherRests
  <1>3. /\ sent \in Nat /\ rx.lastN \in Nat
        /\ \A i \in 1 .. Len(net) : net[i].frame.n \in Nat /\ net[i].frame.sentAt \in Nat
    BY StreamTypes
  <1>4. \A i \in 1 .. Len(net) :
            /\ net[i].frame.n \in rx.lastN + 1 .. sent
            /\ net[i].frame.sentAt =< lastMsg.at
            /\ \E c, d \in Delays : net[i].at \in net[i].frame.sentAt + c .. net[i].frame.sentAt + d
            /\ \A j \in 1 .. Len(net) : j < i => net[j].frame.n < net[i].frame.n
    BY DEF StreamInv, Network
  <1>5. ASSUME NEW i \in 1 .. Len(net')
        PROVE  /\ net'[i].frame.n \in rx'.lastN + 1 .. sent
               /\ net'[i].frame.sentAt =< lastMsg.at
               /\ \E c, d \in Delays :
                      net'[i].at \in net'[i].frame.sentAt + c .. net'[i].frame.sentAt + d
               /\ \A j \in 1 .. Len(net') : j < i => net'[j].frame.n < net'[i].frame.n
    <2>1. PICK k \in 1 .. Len(net) : k = i + 1
      BY <1>1
    <2>2. net'[i] = net[k]
      BY <1>1, <2>1
    <2>3. 1 \in 1 .. Len(net) /\ 1 < k
      BY <1>1, <2>1
    <2>4. net[1].frame.n < net[k].frame.n
      BY <1>4, <2>3
    <2>5. net[k].frame.n \in rx'.lastN + 1 .. sent
      <3>1. net[k].frame.n \in rx.lastN + 1 .. sent /\ net[k].frame.n \in Nat
            /\ net[1].frame.n \in Nat
        BY <1>3, <1>4, <2>3
      <3>2. PICK a \in Nat, b \in Nat : a = net[1].frame.n /\ b = net[k].frame.n /\ a < b
        BY <2>4, <3>1
      <3>3. b \in rx.lastN + 1 .. sent /\ b \in a + 1 .. sent
        <4>1. PICK l \in Nat, m \in Nat : l = rx.lastN /\ m = sent
          BY <1>3
        <4>2. b \in l + 1 .. m
          BY <3>1, <3>2, <4>1
        <4>3. b =< m /\ a < b
          BY <3>2, <4>1, <4>2
        <4>4. b \in a + 1 .. m
          BY <4>3
        <4> QED
          BY <4>1, <4>2, <4>4
      <3> QED
        BY <3>2, <3>3
    <2>6. ASSUME NEW j \in 1 .. Len(net'), j < i PROVE net'[j].frame.n < net[k].frame.n
      <3>1. PICK l \in 1 .. Len(net) : l = j + 1
        BY <1>1
      <3>2. l < k
        BY <2>1, <2>6, <3>1
      <3>3. net'[j] = net[l]
        BY <1>1, <3>1
      <3> QED
        BY <1>4, <3>2, <3>3
    <2> QED
      BY <1>4, <2>2, <2>5, <2>6
  <1> QED
    BY <1>1, <1>2, <1>5 DEF Network

\* The subscriber the receiver has, and the state number it knows.
LEMMA HasSubscriber ==
  ASSUME StreamInv, rx.handle # "none"
  PROVE  \E base : /\ Has(rx, base)
                   /\ base.stNum = IF rx.received = 0 THEN 0 ELSE Num(rx.lastN)
  <1>1. rx.received \in Nat /\ rx.lastN \in Nat
    BY StreamTypes
  <1>2. CASE rx.received = 0
    <2>1. rx.subs = <<NewSubscriber>>
      BY <1>2 DEF StreamInv, Remembers
    <2>2. NewSubscriber.stNum = 0
      BY DEF NewSubscriber, GooseSubscriber_create
    <2> QED
      BY <1>2, <2>1, <2>2 DEF Has
  <1>3. CASE rx.received > 0
    <2>1. PICK b \in BOOLEAN : rx.subs = <<SubscriberOf(rx.lastN, b)>>
      BY <1>3 DEF StreamInv, Remembers
    <2>2. SubscriberOf(rx.lastN, b).stNum = Num(rx.lastN)
      BY DEF SubscriberOf
    <2>3. Has(rx, SubscriberOf(rx.lastN, b))
      BY <1>1, <2>1, SMTT(30) DEF Has
    <2> QED
      BY <1>3, <2>2, <2>3
  <1> QED
    BY <1>1, <1>2, <1>3

\* The receiver takes the first frame, whether it is open or freed.
LEMMA TakeInv ==
  ASSUME StreamInv, net # <<>>, net' = Tail(net), UNCHANGED <<vars, rxAttr>>,
         rx.handle \in {"open", "freed"},
         rx' = Receive(rx, Head(net).frame, Head(net).at)
  PROVE  /\ Network' /\ Remembers' /\ rx' \in Receivers
         /\ rx'.handle = rx.handle /\ rx'.received = rx.received + 1 /\ rx'.at = net[1].at
         /\ rx'.lastN = net[1].frame.n /\ rx'.lastStNum = Num(net[1].frame.n)
         /\ rx'.lastReceivedTime = Hal_getTimeInMs(net[1].frame.sentAt)
         /\ rx'.subs = <<SubscriberOf(net[1].frame.n,
                                      rx.received = 0 \/ Num(rx.lastN) # Num(net[1].frame.n))>>
  <1>1. Head(net) = net[1] /\ 1 \in 1 .. Len(net)
    BY FirstLeaves
  <1>2. /\ net[1] \in Packet /\ sent \in Nat /\ rx \in Receivers /\ rx.received \in Nat
        /\ rx.lastN \in Nat
    BY <1>1, StreamTypes
  <1>3. PICK n \in Nat \ {0}, s \in Nat, t \in Nat :
            /\ n = net[1].frame.n /\ s = net[1].frame.sentAt /\ t = net[1].at
            /\ net[1].frame = FrameOf(n, s)
    BY <1>2, PacketFields
  <1>4. PICK base : /\ Has(rx, base)
                    /\ base.stNum = IF rx.received = 0 THEN 0 ELSE Num(rx.lastN)
    BY HasSubscriber
  <1>5. rx' = Receive(rx, FrameOf(n, s), t)
    BY <1>1, <1>3
  <1>6. /\ rx' \in Receivers
        /\ rx'.handle = rx.handle /\ rx'.at = t /\ rx'.received = rx.received + 1
        /\ rx'.lastStNum = Num(n) /\ rx'.lastN = n /\ rx'.lastReceivedTime = Hal_getTimeInMs(s)
        /\ rx'.subs = <<SubscriberOf(n, base.stNum # Num(n))>>
    <2>1. PICK r \in Receivers : r = rx
      BY <1>2
    <2>2. Has(r, base)
      BY <1>4, <2>1
    <2>3. PICK q : q = Receive(r, FrameOf(n, s), t)
      OBVIOUS
    <2>4. /\ q \in Receivers
          /\ q.handle = r.handle /\ q.at = t /\ q.received = r.received + 1
          /\ q.lastStNum = Num(n) /\ q.lastN = n /\ q.lastReceivedTime = Hal_getTimeInMs(s)
          /\ q.subs = <<SubscriberOf(n, base.stNum # Num(n))>>
      BY <2>2, <2>3, ReceiveTaken
    <2> QED
      BY <1>5, <2>1, <2>3, <2>4
  <1>7. PICK v \in BOOLEAN : v = (base.stNum # Num(n))
    OBVIOUS
  <1>8. v = (rx.received = 0 \/ Num(rx.lastN) # Num(n))
    <2>1. Num(n) # 0
      BY StateNumbers
    <2> QED
      BY <1>4, <1>7, <2>1
  <1>9. rx'.subs = <<SubscriberOf(n, v)>>
    BY <1>6, <1>7
  <1>10. Network'
    BY <1>3, <1>6, RestInv
  <1>11. Remembers'
    <2>1. sent' = sent
      BY PublisherRests
    <2>2. n =< sent
      <3>1. n \in rx.lastN + 1 .. sent
        BY <1>1, <1>3 DEF StreamInv, Network
      <3> QED
        BY <1>2, <3>1
    <2>3. rx'.received > 0 /\ n > 0 /\ rx'.handle # "none"
      BY <1>2, <1>3, <1>6
    <2>4. rx'.received # 0
      BY <1>2, <1>6
    <2> QED
      BY <1>6, <1>9, <2>1, <2>2, <2>3, <2>4, ReceiversFixed DEF Remembers
  <1> QED
    BY <1>3, <1>6, <1>8, <1>9, <1>10, <1>11

\* A frame that arrives at an open receiver, or before there is one.
LEMMA ArriveInv == StreamInv /\ Arrive => StreamInv'
  <1> SUFFICES ASSUME StreamInv, Arrive PROVE StreamInv'
    OBVIOUS
  <1>1. /\ net # <<>> /\ net' = Tail(net) /\ UNCHANGED <<vars, rxAttr>>
        /\ rx' = (IF rx.handle = "open" THEN Receive(rx, Head(net).frame, Head(net).at) ELSE rx)
        /\ lost' = (lost \/ rx.handle = "none")
        /\ rx.handle # "freed" /\ rx.handle # "crashed"
    BY DEF Arrive, IsDue
  <1>2. /\ TimerInv' /\ Published' /\ attr' = attr /\ sent' = sent /\ lastMsg' = lastMsg
        /\ rxAttr' \in [times : RxAttrs, appId : AppIds, lossy : BOOLEAN]
    BY <1>1, PublisherRests
  <1>3. /\ sent \in Nat /\ lastMsg.at \in Nat /\ attr.t0 \in Nat /\ rx \in Receivers
        /\ rx.lastN \in Nat /\ rx.received \in Nat
        /\ \A i \in 1 .. Len(net) : net[i].at \in Nat /\ net[i].frame.sentAt \in Nat
        /\ Delays \subseteq Nat
    BY StreamTypes
  <1>4. CASE rx.handle # "open"
    <2>1. rx' = rx /\ rx.handle = "none"
      BY <1>1, <1>3, <1>4 DEF Receivers
    <2>2. lost' = TRUE
      BY <1>1, <2>1
    <2>3. Complete'
      BY <2>2 DEF Complete
    <2>4. Network'
      BY <1>1, <2>1, RestInv
    <2>5. Remembers'
      BY <1>2, <1>3, <2>1, RemembersFixed
    <2> QED
      BY <1>2, <2>3, <2>4, <2>5 DEF StreamInv
  <1>5. CASE rx.handle = "open"
    <2>1. PICK n, s : n = net[1].frame.n /\ s = net[1].frame.sentAt
      OBVIOUS
    <2>2. rx' = Receive(rx, Head(net).frame, Head(net).at)
      BY <1>1, <1>5
    <2>3. /\ Network' /\ Remembers'
          /\ rx'.handle = "open" /\ rx'.received = rx.received + 1 /\ rx'.at = net[1].at
          /\ rx'.lastN = n
          /\ rx'.subs = <<SubscriberOf(n, rx.received = 0 \/ Num(rx.lastN) # Num(n))>>
      BY <1>1, <1>5, <2>1, <2>2, TakeInv
    <2>4. Complete'
      <3> SUFFICES ASSUME ~lost PROVE Complete'
        BY <1>1, <1>5 DEF Complete
      <3>1. PICK l \in Nat \ {0} : l = Len(net)
        BY <1>1, FirstLeaves
      <3>2. /\ Len(net') = l - 1
            /\ \A i \in 1 .. l - 1 : net'[i] = net[i + 1] /\ i + 1 \in 1 .. l
            /\ net' = <<>> => l = 1
        BY <1>1, <3>1, FirstLeaves
      <3>3. /\ sent = rx.lastN + l
            /\ \A i \in 1 .. l : net[i].frame.n = rx.lastN + i
            /\ \A i \in 1 .. l - 1 : net[i + 1].frame.sentAt =< net[i].frame.sentAt + attr.t0
            /\ net[l].frame.sentAt = lastMsg.at
        BY <1>1, <1>5, <3>1 DEF StreamInv, Complete
      <3>4. n = rx.lastN + 1 /\ 1 \in 1 .. l
        BY <2>1, <3>1, <3>3
      <3>0. /\ rx'.lastN = rx.lastN + 1 /\ rx.lastN \in Nat
            /\ rx.lastN + l = (rx.lastN + 1) + (l - 1)
            /\ \A i \in 1 .. l - 1 : rx.lastN + (i + 1) = (rx.lastN + 1) + i
        <4>1. rx'.lastN = rx.lastN + 1
          BY <2>3, <3>4
        <4>2. PICK k \in Nat : k = rx.lastN
          BY <1>3
        <4>3. k + l = (k + 1) + (l - 1)
          BY <3>1
        <4>4. \A i \in 1 .. l - 1 : k + (i + 1) = (k + 1) + i
          BY <3>1
        <4> QED
          BY <4>1, <4>2, <4>3, <4>4
      <3>5. sent' = rx'.lastN + Len(net')
        <4>1. sent' = sent /\ sent = rx.lastN + l /\ Len(net') = l - 1
          BY <1>2, <3>2, <3>3
        <4> QED
          BY <3>0, <4>1
      <3>6. \A i \in 1 .. l - 1 : net'[i].frame.n = rx'.lastN + i
        <4>1. \A i \in 1 .. l - 1 : net[i + 1].frame.n = rx.lastN + (i + 1)
          BY <3>2, <3>3
        <4>2. \A i \in 1 .. l - 1 : net'[i].frame.n = rx.lastN + (i + 1)
          BY <3>2, <4>1
        <4> QED
          BY <3>0, <4>2
      <3>7. ASSUME NEW i \in 1 .. (l - 1) - 1
            PROVE  net'[i + 1].frame.sentAt =< net'[i].frame.sentAt + attr.t0
        <4>1. PICK k \in 1 .. l - 1 : k = i + 1
          BY <3>1
        <4>2. i \in 1 .. l - 1
          BY <3>1
        <4>3. net'[k] = net[k + 1] /\ net'[i] = net[k]
          BY <3>2, <4>1, <4>2
        <4>4. net[k + 1].frame.sentAt =< net[k].frame.sentAt + attr.t0
          BY <3>3
        <4> QED
          BY <4>1, <4>3, <4>4
      <3>8. net' # <<>> => net'[l - 1].frame.sentAt = lastMsg.at
        <4>1. ASSUME net' # <<>> PROVE l - 1 \in 1 .. l - 1
          <5>1. Len(net') # 0
            BY <1>1, <4>1, FirstLeaves
          <5> QED
            BY <3>1, <3>2, <5>1
        <4>2. l - 1 \in 1 .. l - 1 => net'[l - 1] = net[(l - 1) + 1]
          BY <3>2
        <4>3. (l - 1) + 1 = l
          BY <3>1
        <4> QED
          BY <3>3, <4>1, <4>2, <4>3
      <3>9. rx'.subs[1].stateValid
        <4>1. Num(rx.lastN) # Num(n)
          BY <1>3, <3>4, StateNumbers
        <4>2. rx'.subs = <<SubscriberOf(n, TRUE)>>
          BY <2>3, <4>1
        <4>3. SubscriberOf(n, TRUE).stateValid
          BY DEF SubscriberOf
        <4>4. rx'.subs[1] = SubscriberOf(n, TRUE)
          BY <4>2
        <4> QED
          BY <4>3, <4>4
      <3>10. \E r \in Nat, c \in Delays :
                /\ r + c =< rx'.at
                /\ IF net' = <<>> THEN lastMsg.at = r ELSE net'[1].frame.sentAt =< r + attr.t0
        <4>1. s \in Nat /\ net[1].at \in Nat
          BY <1>3, <2>1, <3>1, <3>4
        <4>2. PICK c, d \in Delays :
                  net[1].at \in net[1].frame.sentAt + c .. net[1].frame.sentAt + d
          BY <3>1, <3>4 DEF StreamInv, Network
        <4>3. s + c =< rx'.at
          BY <1>3, <2>1, <2>3, <4>1, <4>2
        <4>4. net' = <<>> => lastMsg.at = s
          BY <2>1, <3>2, <3>3
        <4>5. net' # <<>> => net'[1].frame.sentAt =< s + attr.t0
          <5>1. ASSUME net' # <<>> PROVE 1 \in 1 .. l - 1
            <6>1. Len(net') # 0
              BY <1>1, <5>1, FirstLeaves
            <6> QED
              BY <3>1, <3>2, <6>1
          <5>2. 1 \in 1 .. l - 1 => /\ net'[1] = net[1 + 1]
                                    /\ net[1 + 1].frame.sentAt =< net[1].frame.sentAt + attr.t0
            BY <3>2, <3>3
          <5> QED
            BY <2>1, <5>1, <5>2
        <4> QED
          BY <4>1, <4>3, <4>4, <4>5
      <3> QED
        BY <1>2, <3>2, <3>5, <3>6, <3>7, <3>8, <3>9, <3>10 DEF Complete
    <2> QED
      BY <1>2, <2>3, <2>4 DEF StreamInv
  <1> QED
    BY <1>4, <1>5

\* A frame that arrives at freed memory.
LEMMA ArriveAtFreedInv == StreamInv /\ ArriveAtFreed => StreamInv'
  <1> SUFFICES ASSUME StreamInv, ArriveAtFreed PROVE StreamInv'
    OBVIOUS
  <1>1. /\ net # <<>> /\ net' = Tail(net) /\ UNCHANGED <<vars, rxAttr>>
        /\ rx.handle = "freed"
        /\ \/ rx' = [rx EXCEPT !.handle = "crashed"]
           \/ rx' = Receive(rx, Head(net).frame, Head(net).at)
           \/ rx' = rx
    BY DEF ArriveAtFreed
  <1>2. /\ TimerInv' /\ Published' /\ sent' = sent
        /\ rxAttr' \in [times : RxAttrs, appId : AppIds, lossy : BOOLEAN]
    BY <1>1, PublisherRests
  <1>3. rx \in Receivers /\ sent \in Nat
    BY StreamTypes
  <1>4. CASE rx' = [rx EXCEPT !.handle = "crashed"]
    <2>1. /\ rx' \in Receivers /\ rx'.handle = "crashed" /\ rx'.subs = rx.subs
          /\ rx'.received = rx.received /\ rx'.lastN = rx.lastN /\ rx'.lastStNum = rx.lastStNum
      BY <1>3, <1>4 DEF Receivers
    <2>2. Network'
      BY <1>1, <2>1, RestInv
    <2>3. Remembers'
      BY <1>1, <1>2, <2>1, ReceiversFixed DEF StreamInv, Remembers
    <2>4. Complete'
      BY <2>1 DEF Complete
    <2> QED
      BY <1>2, <2>2, <2>3, <2>4 DEF StreamInv
  <1>5. CASE rx' = Receive(rx, Head(net).frame, Head(net).at)
    <2>1. Network' /\ Remembers' /\ rx'.handle = "freed"
      BY <1>1, <1>5, TakeInv
    <2>2. Complete'
      BY <2>1 DEF Complete
    <2> QED
      BY <1>2, <2>1, <2>2 DEF StreamInv
  <1>6. CASE rx' = rx
    <2>1. Network'
      BY <1>1, <1>6, RestInv
    <2>2. Remembers'
      BY <1>2, <1>3, <1>6, RemembersFixed
    <2>3. Complete'
      BY <1>1, <1>6 DEF Complete
    <2> QED
      BY <1>2, <2>1, <2>2, <2>3 DEF StreamInv
  <1> QED
    BY <1>1, <1>4, <1>5, <1>6

\* The receiver application starts, with one new subscriber.
LEMMA StartReceiverInv == StreamInv /\ StartReceiver => StreamInv'
  <1> SUFFICES ASSUME StreamInv, StartReceiver PROVE StreamInv'
    OBVIOUS
  <1>1. PICK t : t = rxAttr.times.startTime
    OBVIOUS
  <1>2. /\ rx.handle = "none" /\ UNCHANGED <<vars, rxAttr>> /\ net' = net /\ lost' = lost
        /\ rx' = GooseReceiver_start([NoReceiver EXCEPT !.subs = <<NewSubscriber>>, !.at = t])
    BY <1>1 DEF StartReceiver, RxStartDue, NewSubscriber
  <1>3. t \in Nat
    BY <1>1, StreamAssumption DEF StreamInv
  <1>4. /\ TimerInv' /\ Published' /\ Packet' = Packet
        /\ rxAttr' \in [times : RxAttrs, appId : AppIds, lossy : BOOLEAN]
        /\ attr' = attr /\ sent' = sent /\ lastMsg' = lastMsg
    BY <1>2, PublisherRests
  <1>5. rx = NoReceiver /\ rx \in Receivers /\ sent \in Nat
    BY <1>2, StreamTypes DEF StreamInv, Remembers
  <1>6. rx.received = 0 /\ rx.lastN = 0 /\ rx.lastStNum = 0
    BY <1>5 DEF NoReceiver
  <1>7. PICK o, list : list = <<NewSubscriber>> /\ o = [rx EXCEPT !.subs = list, !.at = t]
    OBVIOUS
  <1>8. list \in SubscriberLists
    BY <1>7 DEF SubscriberLists
  <1>9. rx' = [o EXCEPT !.handle = "open"]
    BY <1>2, <1>5, <1>7 DEF GooseReceiver_start
  <1>10. /\ o \in Receivers /\ o.subs = list /\ o.received = 0 /\ o.lastN = 0
         /\ o.lastStNum = 0
    BY <1>3, <1>5, <1>6, <1>7, <1>8 DEF Receivers
  <1>11. /\ rx' \in Receivers /\ rx'.handle = "open" /\ rx'.subs = list /\ rx'.received = 0
         /\ rx'.lastN = 0 /\ rx'.lastStNum = 0
    BY <1>9, <1>10 DEF Receivers
  <1>12. Network'
    BY <1>2, <1>4, <1>6, <1>11 DEF StreamInv, Network
  <1>13. Remembers'
    BY <1>4, <1>5, <1>7, <1>11, ReceiversFixed DEF Remembers
  <1>14. Complete'
    BY <1>2, <1>4, <1>6, <1>11 DEF StreamInv, Complete
  <1> QED
    BY <1>4, <1>12, <1>13, <1>14 DEF StreamInv

\* The invariant holds at the start.
LEMMA StreamInitInv == StreamInit => StreamInv
  <1> SUFFICES ASSUME StreamInit PROVE StreamInv
    OBVIOUS
  <1>1. /\ TimerInv /\ net = <<>> /\ rx = NoReceiver /\ sent = 0
        /\ publisher = GoosePublisher_create(0)
    BY InitInv DEF StreamInit, Init
  <1>2. Published
    BY <1>1, StateNumbers DEF Published, GoosePublisher_create
  <1>3. rx \in Receivers
    <2>1. <<>> \in SubscriberLists /\ MmsValue_setUtcTimeMs(0) \in UtcTimes
      BY DEF SubscriberLists, UtcTimes
    <2> QED
      BY <1>1, <2>1 DEF NoReceiver, Receivers
  <1>4. rx.handle = "none" /\ rx.received = 0 /\ rx.lastN = 0
    BY <1>1 DEF NoReceiver
  <1>5. Remembers
    BY <1>1, <1>3, <1>4 DEF Remembers
  <1>6. net \in Seq(Packet) /\ Len(net) = 0
    BY <1>1
  <1>7. Network
    BY <1>6 DEF Network
  <1>8. Complete
    BY <1>1, <1>4, <1>6 DEF Complete
  <1> QED
    BY <1>1, <1>2, <1>5, <1>7, <1>8 DEF StreamInv, StreamInit

\* Nothing happens.
LEMMA StreamStutterInv == StreamInv /\ UNCHANGED streamVars => StreamInv'
  <1> SUFFICES ASSUME StreamInv, UNCHANGED streamVars PROVE StreamInv'
    OBVIOUS
  <1>1. UNCHANGED <<vars, rxAttr>> /\ net' = net /\ lost' = lost /\ rx' = rx
    BY DEF streamVars
  <1>2. /\ TimerInv' /\ Published' /\ Packet' = Packet
        /\ rxAttr' \in [times : RxAttrs, appId : AppIds, lossy : BOOLEAN]
        /\ attr' = attr /\ sent' = sent /\ lastMsg' = lastMsg
    BY <1>1, PublisherRests
  <1>3. sent \in Nat
    BY StreamTypes
  <1>4. Remembers'
    BY <1>1, <1>2, <1>3, RemembersFixed
  <1>5. Network' /\ Complete'
    BY <1>1, <1>2 DEF StreamInv, Network, Complete
  <1> QED
    BY <1>2, <1>4, <1>5 DEF StreamInv

\* The invariant of the stream holds in every reachable state.
THEOREM StreamInvariant == StreamSpec => []StreamInv
  <1>1. StreamInv /\ [StreamNext]_streamVars => StreamInv'
    BY PublisherStepInv, StartReceiverInv, ArriveInv, StopReceiverInv, ArriveAtFreedInv,
       StreamStutterInv DEF StreamNext
  <1> QED
    BY StreamInitInv, <1>1, PTL DEF StreamSpec

-----------------------------------------------------------------------------
\* The listener is called in a step of a listening receiver: a frame arrived.
LEMMA CallOfListener ==
  ASSUME StreamInv, StreamNext, Listening, rx'.received = rx.received + 1
  PROVE  /\ net # <<>> /\ net' = Tail(net) /\ UNCHANGED <<vars, rxAttr>>
         /\ rx' = Receive(rx, Head(net).frame, Head(net).at)
  <1>1. rx \in Receivers /\ rx.received \in Nat
    BY StreamTypes
  <1>2. rx.handle = "open"
    BY DEF Listening
  <1>3. ~PublisherStep
    BY <1>1 DEF PublisherStep
  <1>4. ~StartReceiver
    BY <1>2 DEF StartReceiver, RxStartDue
  <1>5. ~StopReceiver
    BY <1>1 DEF StopReceiver, Receivers
  <1>6. ~ArriveAtFreed
    BY <1>2 DEF ArriveAtFreed
  <1>7. Arrive
    BY <1>3, <1>4, <1>5, <1>6 DEF StreamNext
  <1> QED
    BY <1>2, <1>7 DEF Arrive

\* What the listener of a listening receiver finds, by the message n it is called for.
LEMMA ListenerCalled ==
  ASSUME StreamInv, StreamNext, Listening, rx'.received = rx.received + 1
  PROVE  \E n \in Nat :
            /\ n > rx.lastN /\ rx'.lastN = n /\ rx'.lastStNum = Num(n)
            /\ rx'.lastReceivedTime = Hal_getTimeInMs(Head(net).frame.sentAt)
            /\ rx'.subs = <<SubscriberOf(n, rx.received = 0 \/ Num(rx.lastN) # Num(n))>>
  <1>1. /\ net # <<>> /\ net' = Tail(net) /\ UNCHANGED <<vars, rxAttr>>
        /\ rx' = Receive(rx, Head(net).frame, Head(net).at)
    BY CallOfListener
  <1>2. rx.handle \in {"open", "freed"}
    BY DEF Listening
  <1>3. PICK n : n = net[1].frame.n
    OBVIOUS
  <1>4. Head(net) = net[1] /\ 1 \in 1 .. Len(net)
    BY <1>1, FirstLeaves
  <1>5. n \in rx.lastN + 1 .. sent /\ rx.lastN \in Nat /\ sent \in Nat
    BY <1>3, <1>4, StreamTypes DEF StreamInv, Network
  <1>6. /\ rx'.lastN = n /\ rx'.lastStNum = Num(n)
        /\ rx'.lastReceivedTime = Hal_getTimeInMs(Head(net).frame.sentAt)
        /\ rx'.subs = <<SubscriberOf(n, rx.received = 0 \/ Num(rx.lastN) # Num(n))>>
    BY <1>1, <1>2, <1>3, <1>4, TakeInv
  <1>7. n \in Nat /\ n > rx.lastN
    BY <1>5
  <1> QED
    BY <1>6, <1>7

\* Between two calls of the listener (GOOSEReceiver::Receive) the state number
\* advances by the number of messages sent, however many were lost between them.
THEOREM StateNumbersCount == StreamSpec => StNumCountsMessages
  <1> DEFINE Counts == Listening /\ rx.received > 0 /\ rx'.received = rx.received + 1 =>
                          (rx'.lastN - rx.lastN) % (CounterMod - 1)
                              = (rx'.lastStNum - rx.lastStNum) % (CounterMod - 1)
  <1>1. ASSUME StreamInv, [StreamNext]_streamVars PROVE [Counts]_streamVars
    <2> SUFFICES ASSUME StreamNext, Listening, rx.received > 0, rx'.received = rx.received + 1
                 PROVE  (rx'.lastN - rx.lastN) % (CounterMod - 1)
                            = (rx'.lastStNum - rx.lastStNum) % (CounterMod - 1)
      BY <1>1
    <2>1. PICK n \in Nat : n > rx.lastN /\ rx'.lastN = n /\ rx'.lastStNum = Num(n)
      BY <1>1, ListenerCalled
    <2>2. rx.lastStNum = Num(rx.lastN) /\ rx.lastN \in Nat
      BY <1>1, StreamTypes DEF StreamInv, Remembers, Listening
    <2>3. (n - rx.lastN) % (CounterMod - 1) = (Num(n) - Num(rx.lastN)) % (CounterMod - 1)
      <3>1. PICK m \in Nat : m = rx.lastN /\ m =< n
        BY <2>1, <2>2
      <3> QED
        BY <3>1, NumberDifference
    <2> QED
      BY <2>1, <2>2, <2>3
  <1>2. StNumCountsMessages <=> [][Counts]_streamVars
    BY PTL DEF StNumCountsMessages
  <1> QED
    BY <1>1, <1>2, StreamInvariant, PTL DEF StreamSpec

\* Whenever the listener is called with a new state number it finds the subscriber
\* valid, without parse error and with the values sent; and always with the time
\* the message was sent, in milliseconds.
THEOREM ListenerFollows == StreamSpec => ListenerInStep
  <1> DEFINE
        InStep ==
            Listening /\ rx'.received = rx.received + 1 =>
              LET s == rx'.subs[1]
                  f == Head(net).frame
              IN  /\ rx'.lastStNum # rx.lastStNum =>
                        /\ GooseSubscriber_isValid(s) /\ s.parseError = "NO_ERROR"
                        /\ [i \in 1 .. Len(s.dataSet.slots) |-> s.dataSet.slots[i].val]
                                = [i \in 1 .. Len(AppDataSet) |-> AppDataSet[i].val]
                  /\ rx'.lastReceivedTime = Hal_getTimeInMs(f.sentAt)
  <1>1. ASSUME StreamInv, [StreamNext]_streamVars PROVE [InStep]_streamVars
    <2> SUFFICES ASSUME StreamNext, Listening, rx'.received = rx.received + 1
                 PROVE  /\ rx'.lastStNum # rx.lastStNum =>
                            /\ GooseSubscriber_isValid(rx'.subs[1])
                            /\ rx'.subs[1].parseError = "NO_ERROR"
                            /\ [i \in 1 .. Len(rx'.subs[1].dataSet.slots) |->
                                        rx'.subs[1].dataSet.slots[i].val]
                                    = [i \in 1 .. Len(AppDataSet) |-> AppDataSet[i].val]
                        /\ rx'.lastReceivedTime = Hal_getTimeInMs(Head(net).frame.sentAt)
      BY <1>1
    <2>1. PICK n \in Nat :
            /\ rx'.lastStNum = Num(n)
            /\ rx'.lastReceivedTime = Hal_getTimeInMs(Head(net).frame.sentAt)
            /\ rx'.subs = <<SubscriberOf(n, rx.received = 0 \/ Num(rx.lastN) # Num(n))>>
      BY <1>1, ListenerCalled
    <2>2. ASSUME rx'.lastStNum # rx.lastStNum
          PROVE  rx.received = 0 \/ Num(rx.lastN) # Num(n)
      <3>1. rx.received \in Nat
        BY <1>1, StreamTypes
      <3>2. rx.received > 0 => rx.lastStNum = Num(rx.lastN)
        BY <1>1 DEF StreamInv, Remembers, Listening
      <3> QED
        BY <2>1, <2>2, <3>1, <3>2
    <2>3. PICK v \in BOOLEAN : v = (rx.received = 0 \/ Num(rx.lastN) # Num(n))
      OBVIOUS
    <2>3a. PICK s : s = SubscriberOf(n, v)
      OBVIOUS
    <2>4. rx'.subs[1] = s
      BY <2>1, <2>3, <2>3a
    <2>5. s.parseError = "NO_ERROR" /\ s.dataSet.slots = Learned
      BY <2>3a DEF SubscriberOf
    <2>6. v => GooseSubscriber_isValid(s)
      <3>1. s.stateValid = v /\ s.timeLeft = TimeAllowedToLive
        BY <2>3a DEF SubscriberOf
      <3>2. TimeAllowedToLive >= 0
        BY StreamAssumption
      <3> QED
        BY <3>1, <3>2 DEF GooseSubscriber_isValid
    <2>7. [i \in 1 .. Len(Learned) |-> Learned[i].val]
            = [i \in 1 .. Len(AppDataSet) |-> AppDataSet[i].val]
      BY LearnedDataSet
    <2> QED
      BY <2>1, <2>2, <2>3, <2>4, <2>5, <2>6, <2>7
  <1>2. ListenerInStep <=> [][InStep]_streamVars
    BY PTL DEF ListenerInStep
  <1> QED
    BY <1>1, <1>2, StreamInvariant, PTL DEF StreamSpec

-----------------------------------------------------------------------------
\* Nothing that is due is overtaken: time advances to what is due first.
LEMMA TimeAdvances ==
  ASSUME StreamInv, StreamNext
  PROVE  IsDue(clock') /\ clock' \in Nat
  <1>1. /\ \A e \in sim.pending : e.at \in Nat
        /\ rxAttr.times.startTime \in Nat /\ rxAttr.times.stopTime \in Nat
        /\ net # <<>> => Head(net).at \in Nat
    <2>1. \A e \in sim.pending : e.at \in Nat
      BY DEF StreamInv, TimerInv, TypeOK, Simulator, Event
    <2>2. rxAttr.times \in [startTime : Nat, stopTime : Nat]
      BY StreamAssumption DEF StreamInv
    <2>3. net # <<>> => Head(net).at \in Nat
      <3> SUFFICES ASSUME net # <<>> PROVE Head(net).at \in Nat
        OBVIOUS
      <3>1. Head(net) = net[1] /\ 1 \in 1 .. Len(net)
        BY StreamTypes
      <3> QED
        BY <3>1, StreamTypes
    <2> QED
      BY <2>1, <2>2, <2>3
  <1>2. CASE PublisherStep
    BY <1>1, <1>2 DEF PublisherStep
  <1>3. CASE StartReceiver
    BY <1>1, <1>3 DEF StartReceiver
  <1>4. CASE Arrive
    BY <1>1, <1>4 DEF Arrive
  <1>5. CASE StopReceiver
    BY <1>1, <1>5 DEF StopReceiver
  <1>6. CASE ArriveAtFreed
    BY <1>1, <1>6 DEF ArriveAtFreed
  <1> QED
    BY <1>2, <1>3, <1>4, <1>5, <1>6 DEF StreamNext

\* Truncated to milliseconds, k milliseconds do not become more than k.
LEMMA Truncation ==
  ASSUME NEW u \in Nat \ {0}, NEW a \in Nat, NEW b \in Nat, NEW k \in Nat, a =< b + k * u
  PROVE  (a \div u) - (b \div u) =< k
  <1>1. PICK p \in Nat, r \in 0 .. u - 1 : p = a \div u /\ a = p * u + r
    BY Division
  <1>2. PICK q \in Nat, t \in 0 .. u - 1 : q = b \div u /\ b = q * u + t
    BY Division
  <1>3. PICK m \in Nat : m = q + k
    <2>1. q + k \in Nat
      BY <1>2
    <2> QED
      BY <2>1
  <1>4. m * u = q * u + k * u /\ m * u \in Nat /\ p * u \in Nat /\ k * u \in Nat /\ q * u \in Nat
    BY <1>1, <1>2, <1>3
  <1>7. m < p => m * u + u =< p * u
    BY <1>1, <1>3, Products
  <1>8. p * u + r < m * u + u
    BY <1>1, <1>2, <1>4
  <1>9. ~(m < p)
    BY <1>1, <1>4, <1>7, <1>8
  <1> QED
    BY <1>1, <1>2, <1>3, <1>9

\* A message sent at s arrives at r at the earliest after c; the next one is sent
\* within z and arrives within d after it was sent.
LEMMA NextInTime ==
  ASSUME NEW s \in Nat, NEW c \in Nat, NEW r \in Nat, NEW z \in Nat, NEW y \in Nat,
         NEW d \in Nat, NEW x \in Nat, NEW t \in Nat, NEW k \in Nat,
         s + c =< r, y =< s + z, x =< y + d, t =< x, z + d - c =< k
  PROVE  t =< r + k
  OBVIOUS

\* Up to the next thing that happens, the silence a listening receiver sees is not
\* longer than the lifetime of the last message.
LEMMA Silence ==
  ASSUME StreamInv, IsDue(clock'), clock' \in Nat, Healthy, Listening, rx.received > 0, ~lost,
         net # <<>> \/ (life = "running" /\ count # 0)
  PROVE  /\ clock' =< rx.at + TimeAllowedToLive * UnitsPerMs
         /\ rx.subs[1].stateValid
  <1>1. /\ sent \in Nat /\ lastMsg.at \in Nat /\ attr.t0 \in Nat /\ rx.at \in Nat
        /\ rx.lastN \in Nat /\ Len(net) \in Nat
        /\ \A i \in 1 .. Len(net) : net[i].at \in Nat /\ net[i].frame.sentAt \in Nat
        /\ Delays \subseteq Nat
    BY StreamTypes
  <1>2. PICK life0 \in Nat : life0 = TimeAllowedToLive * UnitsPerMs
    BY StreamAssumption, AttrsAssumption, Products
  <1>3. /\ sent = rx.lastN + Len(net) /\ rx.subs[1].stateValid
        /\ \E s \in Nat, c \in Delays :
              /\ s + c =< rx.at
              /\ IF net = <<>> THEN lastMsg.at = s ELSE net[1].frame.sentAt =< s + attr.t0
    BY DEF StreamInv, Complete, Listening
  <1>4. PICK s \in Nat, c \in Delays :
              /\ s + c =< rx.at
              /\ IF net = <<>> THEN lastMsg.at = s ELSE net[1].frame.sentAt =< s + attr.t0
    BY <1>3
  <1>5. \A d \in Delays : attr.t0 + d - c =< life0
    BY <1>2, <1>4 DEF Healthy
  <1>6. CASE net # <<>>
    <2>1. 1 \in 1 .. Len(net)
      BY <1>6, StreamTypes
    <2>2. PICK d \in Delays : net[1].at =< net[1].frame.sentAt + d
      BY <1>1, <2>1 DEF StreamInv, Network
    <2>3. clock' =< net[1].at
      BY <2>1 DEF IsDue
    <2>4. net[1].frame.sentAt =< s + attr.t0
      BY <1>4, <1>6
    <2>5. PICK x \in Nat, y \in Nat, z \in Nat : x = net[1].at /\ y = net[1].frame.sentAt /\ z = attr.t0
      BY <1>1, <2>1
    <2>6. z + d - c =< life0 /\ y =< s + z /\ x =< y + d /\ clock' =< x /\ s + c =< rx.at
      BY <1>4, <1>5, <2>2, <2>3, <2>4, <2>5
    <2>7. c \in Nat /\ d \in Nat /\ rx.at \in Nat /\ s \in Nat
      BY <1>1, <1>4, <2>2
    <2>8. clock' =< rx.at + life0
      <3>1. PICK t \in Nat, r \in Nat, f \in Nat, g \in Nat :
                t = clock' /\ r = rx.at /\ f = c /\ g = d
        BY <2>7
      <3>2. z + g - f =< life0 /\ y =< s + z /\ x =< y + g /\ t =< x /\ s + f =< r
        BY <2>6, <3>1
      <3>3. t =< r + life0
        BY <3>2, NextInTime
      <3> QED
        BY <3>1, <3>3
    <2> QED
      BY <1>2, <1>3, <2>8
  <1>7. CASE net = <<>>
    <2>1. PICK e \in Timers : sent > 0 => e.at \in lastMsg.at + 1 .. lastMsg.at + attr.t0
      BY <1>7 DEF StreamInv, TimerInv, TimedChain
    <2>2. rx.lastN > 0
      BY DEF StreamInv, Remembers, Listening
    <2>3. sent > 0
      BY <1>1, <1>3, <2>2
    <2>4. clock' =< e.at
      BY <2>1 DEF IsDue, Timers
    <2>5. e.at =< lastMsg.at + attr.t0 /\ lastMsg.at = s /\ e.at \in Nat
      <3>1. lastMsg.at \in Nat /\ attr.t0 \in Nat
        BY <1>1
      <3>2. e.at \in lastMsg.at + 1 .. lastMsg.at + attr.t0 /\ lastMsg.at = s
        BY <1>4, <1>7, <2>1, <2>3
      <3> QED
        BY <3>1, <3>2
    <2>6. c \in Nat
      BY <1>1, <1>4
    <2>7. PICK d \in Nat : attr.t0 + d - c =< life0
      BY <1>5, <2>6
    <2>8. clock' =< rx.at + life0
      <3>1. PICK t \in Nat, r \in Nat, f \in Nat, z \in Nat, x \in Nat :
                t = clock' /\ r = rx.at /\ f = c /\ z = attr.t0 /\ x = e.at
        BY <1>1, <2>5, <2>6
      <3>2. z + d - f =< life0 /\ x =< s + z /\ t =< x /\ s + f =< r
        BY <1>4, <2>4, <2>5, <2>7, <3>1
      <3>3. x =< x + d /\ x =< s + z
        BY <3>2
      <3>4. t =< r + life0
        BY <3>2, <3>3, NextInTime
      <3> QED
        BY <3>1, <3>4
    <2> QED
      BY <1>2, <1>3, <2>8
  <1> QED
    BY <1>6, <1>7

\* With a stable period that leaves room for the delays and nothing lost, a
\* subscriber that has received a message stays valid at every instant until the
\* publisher has sent its last message or stops.
THEOREM SubscriberStaysValid == StreamSpec => HealthyStaysValid
  <1> DEFINE Stays == Healthy /\ Listening /\ rx.received > 0 /\ ~lost
                      /\ (net # <<>> \/ (life = "running" /\ count # 0))
                      => GooseSubscriber_isValid(ElapseTo(rx.subs[1], rx.at, clock'))
  <1>1. ASSUME StreamInv, [StreamNext]_streamVars PROVE [Stays]_streamVars
    <2> SUFFICES ASSUME StreamNext, Healthy, Listening, rx.received > 0, ~lost,
                        net # <<>> \/ (life = "running" /\ count # 0)
                 PROVE  GooseSubscriber_isValid(ElapseTo(rx.subs[1], rx.at, clock'))
      BY <1>1
    <2>1. IsDue(clock') /\ clock' \in Nat
      BY <1>1, TimeAdvances
    <2>2. clock' =< rx.at + TimeAllowedToLive * UnitsPerMs /\ rx.subs[1].stateValid
      BY <1>1, <2>1, Silence
    <2>3. PICK b \in BOOLEAN : rx.subs = <<SubscriberOf(rx.lastN, b)>>
      BY <1>1 DEF StreamInv, Remembers, Listening
    <2>4. rx.lastN \in Nat /\ rx.at \in Nat
      BY <1>1, StreamTypes
    <2>5. PICK self \in AppSubscriber : self = rx.subs[1] /\ self.timeLeft = TimeAllowedToLive
      <3>1. rx.subs[1] = SubscriberOf(rx.lastN, b)
        BY <2>3
      <3>2. SubscriberOf(rx.lastN, b) \in AppSubscriber
        BY <2>3, <2>4, SubscriberTypes
      <3>3. SubscriberOf(rx.lastN, b).timeLeft = TimeAllowedToLive
        BY DEF SubscriberOf
      <3> QED
        BY <3>1, <3>2, <3>3
    <2>6. PICK ms \in Int : /\ ms = Hal_getTimeInMs(clock') - Hal_getTimeInMs(rx.at)
                            /\ ms =< TimeAllowedToLive
      <3>1. PICK u \in Nat \ {0}, a \in Nat, k \in Nat :
                u = UnitsPerMs /\ a = rx.at /\ k = TimeAllowedToLive
        BY <2>4, AttrsAssumption, StreamAssumption
      <3>2. PICK now \in Nat : now = clock' /\ now =< a + k * u
        BY <2>1, <2>2, <3>1
      <3>3. (now \div u) - (a \div u) =< k /\ (now \div u) - (a \div u) \in Int
        <4>1. now \div u \in Nat /\ a \div u \in Nat
          BY <3>1, <3>2, Division
        <4>2. (now \div u) - (a \div u) =< k
          BY <3>1, <3>2, Truncation
        <4> QED
          BY <4>1, <4>2
      <3> QED
        BY <3>1, <3>2, <3>3 DEF Hal_getTimeInMs
    <2>7. PICK left \in Int : left = TimeAllowedToLive - ms /\ left >= 0
      BY <2>6, StreamAssumption
    <2>8. ElapseTo(self, rx.at, clock') = [self EXCEPT !.timeLeft = left]
      <3>1. ~(self.timeLeft < ms)
        BY <2>5, <2>6, StreamAssumption
      <3> QED
        BY <2>5, <2>6, <2>7, <3>1 DEF ElapseTo
    <2>9. [self EXCEPT !.timeLeft = left].stateValid = self.stateValid
      BY <2>5 DEF AppSubscriber
    <2>10. [self EXCEPT !.timeLeft = left].timeLeft = left
      BY <2>5 DEF AppSubscriber
    <2> QED
      BY <2>2, <2>5, <2>7, <2>8, <2>9, <2>10 DEF GooseSubscriber_isValid
  <1>2. HealthyStaysValid <=> [][Stays]_streamVars
    BY PTL DEF HealthyStaysValid
  <1> QED
    BY <1>1, <1>2, StreamInvariant, PTL DEF StreamSpec
=============================================================================
