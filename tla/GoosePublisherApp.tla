-------------------------- MODULE GoosePublisherApp --------------------------
(***************************************************************************)
(* ns3::GOOSEPublisher (model/goose-publisher-app.cc): the application     *)
(* that drives the GOOSE publisher of libiec61850 from simulator timers.   *)
(*                                                                         *)
(* In the stable phase Send runs every t0.  Every eventInterval a burst    *)
(* starts: SendEvent replaces the stable timer, publishes eventMessages    *)
(* messages at the growing delays T(1), T(2), ..., and hands over to Send  *)
(* again.  Two handles name the pending timers: eventId (the next message  *)
(* of the running phase) and gooseEventId (the start of the next burst).   *)
(* All the trouble this component can have is in these two timers: a timer *)
(* left behind, lost or duplicated when one phase replaces the other.      *)
(*                                                                         *)
(* Times are in an abstract unit, the code's nanosecond; T truncates to    *)
(* it.  attr is the record of the attributes set before the start; a       *)
(* stopTime of 0 means that the application is never stopped.              *)
(***************************************************************************)
EXTENDS GoosePublisher, Ns3Simulator

CONSTANTS
    CountMod,       \* 2^64 in the code: the modulus of count
    UnitsPerMs,     \* units of simulated time in a millisecond (10^6 ns in the code)
    Attrs           \* the configurations of the application

VARIABLES
    attr,           \* t0, t1, eventMessages, eventInterval, maxPackets, stopTime
    sim,            \* the simulator's clock and event list
    life,           \* the objects StartApplication makes and StopApplication frees
    publisher,      \* the library's publisher
    count,          \* messages that may still be sent
    sent,           \* messages sent (the Sent trace source)
    eventCount,     \* uint8_t: number of the next message of the burst
    eventId,
    gooseEventId,
    lastMsg,        \* history: the last message on the wire, and when it was sent
    burst           \* history: messages SendEvent sent since the last burst was over

vars == <<attr, sim, life, publisher, count, sent, eventCount, eventId, gooseEventId,
          lastMsg, burst>>

UInt8 == 0 .. 255

Fns == {"StartApplication", "StopApplication", "Send", "SendEvent"}

\* The calls the application schedules itself, all of which use the publisher.
SendFns == {"Send", "SendEvent"}

Attributes ==
    [t0 : Nat \ {0}, t1 : Nat \ {0}, eventMessages : UInt8, eventInterval : Nat,
     maxPackets : 0 .. CountMod - 1, stopTime : Nat]

\* GOOSEPublisher::T(n): t1 * rate^(n-1) truncated, where rate is the
\* eventMessages-th root of the integer quotient t0 / t1.
T(a, n) ==
    CASE n = 0 -> a.t0
      [] n = 1 -> a.t1
      [] OTHER ->
            CHOOSE k \in a.t1 .. a.t0 :
                LET m == a.eventMessages
                    bound == (a.t1)^m * (a.t0 \div a.t1)^(n - 1)
                IN  k^m =< bound /\ (k = a.t0 \/ (k + 1)^m > bound)

\* The configurations: the delays of a burst are positive and at most t0, which
\* takes t1 =< t0 (TLC evaluates this on every configuration of a run).
ASSUME AttrsAssumption ==
    /\ CountMod \in Nat /\ CountMod > 1
    /\ UnitsPerMs \in Nat \ {0}
    /\ Attrs \subseteq Attributes
    /\ \A a \in Attrs : \A n \in 1 .. a.eventMessages : T(a, n) \in 1 .. a.t0

Hal_getTimeInMs(now) == now \div UnitsPerMs

sendEvents == attr.eventInterval # 0

NoMsg == [stNum |-> 0, sqNum |-> 0, t |-> 0, at |-> 0]

-----------------------------------------------------------------------------
\* Application::DoInitialize of ns-3 schedules the start and, if there is a
\* stop time, the stop.
Init ==
    /\ attr \in Attrs
    /\ sim = [now |-> 0, uid |-> 2,
              pending |-> {[at |-> 0, uid |-> 0, fn |-> "StartApplication"]} \cup
                          {e \in {[at |-> attr.stopTime, uid |-> 1, fn |-> "StopApplication"]} :
                              attr.stopTime # 0}]
    /\ life = "created"
    /\ publisher = GoosePublisher_create(0)
    /\ count = attr.maxPackets
    /\ sent = 0
    /\ eventCount = 0
    /\ eventId = 0
    /\ gooseEventId = 0
    /\ lastMsg = NoMsg
    /\ burst = 0

\* The next event of the simulator is a call of f, dispatched as e.
Runs(e, f) == IsNext(sim, e) /\ e.fn = f

StartApplication == \E e \in sim.pending :
    LET s == Dispatch(sim, e)
        armed == IF sendEvents THEN Schedule(s, attr.eventInterval, "SendEvent") ELSE s
    IN  /\ Runs(e, "StartApplication")
        /\ life' = "running"
        /\ publisher' = GoosePublisher_create(Hal_getTimeInMs(s.now))
        /\ count' = IF count = 0 THEN CountMod - 1 ELSE count
        /\ sent' = 0
        /\ eventCount' = 1
        /\ gooseEventId' = IF sendEvents THEN s.uid ELSE gooseEventId
        /\ sim' = Schedule(armed, 0, "Send")
        /\ eventId' = armed.uid
        /\ UNCHANGED <<attr, lastMsg, burst>>

\* What Send and SendEvent have in common: a new state is published.
PublishNewState(now) ==
    LET p == GoosePublisher_increaseStNum(publisher, Hal_getTimeInMs(now))
    IN  /\ publisher' = GoosePublisher_publish(p, TRUE)
        /\ lastMsg' = [stNum |-> p.stNum, sqNum |-> p.sqNum, t |-> p.t, at |-> now]
        /\ sent' = sent + 1
        /\ count' = count - 1

SendWithoutReschedule(s) ==
    /\ PublishNewState(s.now)
    /\ sim' = s
    /\ UNCHANGED eventId

\* The body of GOOSEPublisher::Send after its early return, called with simulator s.
SendBody(s) ==
    /\ PublishNewState(s.now)
    /\ sim' = Schedule(s, attr.t0, "Send")
    /\ eventId' = s.uid

\* The early return of both handlers: count == 0.
Exhausted(s) ==
    /\ count = 0
    /\ sim' = s
    /\ UNCHANGED <<attr, life, publisher, count, sent, eventCount, eventId,
                   gooseEventId, lastMsg, burst>>

SendIgnoringCount == \E e \in sim.pending :
    /\ Runs(e, "Send")
    /\ SendBody(Dispatch(sim, e))
    /\ UNCHANGED <<attr, life, eventCount, gooseEventId, burst>>

Send == \E e \in sim.pending :
    /\ Runs(e, "Send")
    /\ \/ Exhausted(Dispatch(sim, e))
       \/ /\ count # 0
          /\ SendBody(Dispatch(sim, e))
          /\ UNCHANGED <<attr, life, eventCount, gooseEventId, burst>>

BurstOverTooEarly == eventCount >= attr.eventMessages

BurstOver == eventCount > attr.eventMessages

EndBurstSendFirst(s) ==
    /\ BurstOver
    /\ eventCount' = 1
    /\ PublishNewState(s.now)
    /\ eventId' = s.uid
    /\ gooseEventId' = s.uid + 1
    /\ sim' = Schedule(Schedule(s, attr.t0, "Send"), attr.eventInterval, "SendEvent")
    /\ burst' = 0

EndBurstNotRearmed(s) ==
    /\ BurstOver
    /\ eventCount' = 1
    /\ SendBody(s)
    /\ burst' = 0
    /\ UNCHANGED gooseEventId

\* The burst is over: SendEvent arms the next one, then hands over to Send.
EndBurst(s) ==
    /\ BurstOver
    /\ eventCount' = 1
    /\ gooseEventId' = s.uid
    /\ SendBody(Schedule(s, attr.eventInterval, "SendEvent"))
    /\ burst' = 0

\* One more message of the burst.
BurstMessage(s) ==
    /\ ~BurstOver
    /\ PublishNewState(s.now)
    /\ sim' = Schedule(s, T(attr, eventCount), "SendEvent")
    /\ eventId' = s.uid
    /\ eventCount' = (eventCount + 1) % 256
    /\ burst' = burst + 1
    /\ UNCHANGED gooseEventId

SendEventNoCancel == \E e \in sim.pending :
    LET s == Dispatch(sim, e)
    IN  /\ Runs(e, "SendEvent")
        /\ \/ Exhausted(s)
           \/ /\ count # 0
              /\ EndBurst(s) \/ BurstMessage(s)
              /\ UNCHANGED <<attr, life>>

SendEvent == \E e \in sim.pending :
    LET s == Cancel(Dispatch(sim, e), eventId)
    IN  /\ Runs(e, "SendEvent")
        /\ \/ Exhausted(Dispatch(sim, e))
           \/ /\ count # 0
              /\ EndBurst(s) \/ BurstMessage(s)
              /\ UNCHANGED <<attr, life>>

StopApplicationOneCancel == \E e \in sim.pending :
    /\ Runs(e, "StopApplication")
    /\ sim' = Cancel(Dispatch(sim, e), eventId)
    /\ life' = "stopped"
    /\ UNCHANGED <<attr, publisher, count, sent, eventCount, eventId, gooseEventId,
                   lastMsg, burst>>

StopApplication == \E e \in sim.pending :
    LET s == Cancel(Dispatch(sim, e), eventId)
    IN  /\ Runs(e, "StopApplication")
        /\ sim' = IF sendEvents THEN Cancel(s, gooseEventId) ELSE s
        /\ life' = "stopped"
        /\ UNCHANGED <<attr, publisher, count, sent, eventCount, eventId, gooseEventId,
                       lastMsg, burst>>

Next == StartApplication \/ Send \/ SendEvent \/ StopApplication

Spec == Init /\ [][Next]_vars

\* Simulator::Run keeps taking events while there are any.
FairSpec == Spec /\ WF_vars(Next)

-----------------------------------------------------------------------------
Timers == {e \in sim.pending : e.fn \in SendFns}

\* The messages the application may send in its life: MaxPackets, or as many
\* as count can hold when MaxPackets is 0.
Quota == IF attr.maxPackets = 0 THEN CountMod - 1 ELSE attr.maxPackets

\* Every variable has its type, the handles name events that were scheduled,
\* and the clock has not passed a pending event.
TypeOK ==
    /\ attr \in Attrs
    /\ sim \in Simulator(Fns)
    /\ \A e \in sim.pending : e.uid < sim.uid /\ sim.now =< e.at
    /\ life \in {"created", "running", "stopped"}
    /\ publisher \in Publisher
    /\ count \in 0 .. CountMod - 1
    /\ sent \in Nat
    /\ eventCount \in UInt8
    /\ eventId \in Nat /\ eventId < sim.uid
    /\ gooseEventId \in Nat /\ gooseEventId < sim.uid
    /\ lastMsg \in [stNum : Counter, sqNum : Counter, t : Nat, at : Nat]
    /\ burst \in Nat

\* Once StopApplication has destroyed the publisher and the data set, no timer
\* is left that would call Send or SendEvent on them: its two Cancel calls
\* reach every timer the two phases ever left pending.
StoppedIsQuiet == life = "stopped" => Timers = {}

\* While messages remain to be sent there is exactly one timer for the next
\* message, the one eventId names: a Send, with the start of the next burst
\* pending beside it, or a SendEvent, with no other burst pending.  So the
\* phases never run side by side and neither loses its timer.
OneSendChain ==
    life = "running" /\ count # 0 =>
        \E e \in Timers :
            /\ e.uid = eventId
            /\ IF e.fn = "Send" /\ sendEvents
               THEN \E g \in Timers : /\ g.uid = gooseEventId
                                      /\ g.fn = "SendEvent"
                                      /\ Timers = {e, g}
               ELSE Timers = {e}

\* Two consecutive messages are never sent at the same instant and never more
\* than t0 apart, whatever the phases they belong to; in particular a burst
\* that starts when a stable message is due replaces that message.
SendSpacing ==
    [][sent > 0 /\ sent' # sent => lastMsg'.at \in lastMsg.at + 1 .. lastMsg.at + attr.t0]_vars

\* The next burst is armed only when the running one has sent exactly
\* eventMessages messages.
BurstComplete ==
    [][life = "running" /\ gooseEventId' # gooseEventId => burst = attr.eventMessages]_vars

\* "Number of messages sent when an event occures" (attribute EventMessages).
BurstLength == burst =< attr.eventMessages

\* No message passes for the one before: it has another state number or another
\* sequence number, and no state has number 0, also across the overflow.  The
\* sequence number of a new state starts at 0, and the first message of a state
\* carries the time of the change.  Whether a message is a reason for a new state
\* is left open here; the code takes every one for it (UnchangedKeepsState in
\* GooseStream).
FreshState ==
    [][sent' = sent + 1 =>
        /\ lastMsg'.stNum # 0
        /\ <<lastMsg'.stNum, lastMsg'.sqNum>> # <<lastMsg.stNum, lastMsg.sqNum>>
        /\ lastMsg'.stNum # lastMsg.stNum => lastMsg'.sqNum = 0
        /\ lastMsg'.sqNum = 0 => lastMsg'.t = Hal_getTimeInMs(lastMsg'.at)]_vars

\* An application that is never stopped sends all its messages.
AllSent == attr.stopTime = 0 => <>[](sent = Quota)

\* The messages of a burst and of the stable phase after it, at most.
Cycle == attr.eventMessages + attr.eventInterval \div attr.t0 + 2

\* The application does not spend its messages in one phase: as long as enough
\* are left for a whole burst and a whole stable phase, a burst ends, and the
\* next one starts, before they run out.
PhasesAlternate ==
    sendEvents /\ attr.eventMessages > 0 =>
        \A busy \in BOOLEAN :
            life = "running" /\ (burst > 0) = busy /\ count > Cycle
                ~> ((burst > 0) # busy /\ count > 0) \/ life = "stopped"
=============================================================================
