----------------------------- MODULE GooseStream -----------------------------
(***************************************************************************)
(* ns3::GOOSEPublisher and ns3::GOOSEReceiver (model/goose-receiver-app.cc) *)
(* on two nodes: every message the publisher application sends travels     *)
(* through the network to the socket the receiver application has opened.  *)
(*                                                                         *)
(* A link of ns-3 keeps the order of frames; it delays them differently    *)
(* and may lose them.  Frames in flight carry the time they are due.  All  *)
(* of this runs in one simulator, so that the next thing to happen is the  *)
(* one that is due first; what is due at the same instant happens in       *)
(* either order.  clock is the time of what happened last.                 *)
(*                                                                         *)
(* The time a subscriber remains valid is the business of this module: the *)
(* messages carry a fixed timeAllowedToLive, while the spacing of messages *)
(* is an attribute of the publisher.                                       *)
(***************************************************************************)
EXTENDS GoosePublisherApp, GooseReceiver, MsTime

CONSTANTS
    Delays,             \* the delays of frames, in units of time
    TimeAllowedToLive,  \* 500 in the code, in milliseconds
    AppIds,             \* the AppId attribute of the publisher
    RxAttrs             \* when the receiver application starts and stops (0: never)

ASSUME StreamAssumption ==
    /\ Delays \subseteq Nat /\ Delays # {}
    /\ TimeAllowedToLive \in Nat /\ AppIds \subseteq Nat
    /\ RxAttrs \subseteq [startTime : Nat, stopTime : Nat]

VARIABLES
    clock,
    net,        \* the frames in flight, in the order they are due
    lost,       \* history: a frame was lost, or came when nobody listened
    rxAttr,     \* times of the receiver application, AppId of the publisher, whether
                \* the network loses frames
    rx          \* the receiver application and what it has created

streamVars == <<vars, clock, net, lost, rxAttr, rx>>

ControlBlock == "simpleIOGenericIO/LLN0$GO$gcbAnalogValues"

\* The three values of GOOSEPublisher::StartApplication: 1234, a binary time,
\* 5678.  The application never changes them.
AppDataSet ==
    << [tag |-> "integer", len |-> 2, val |-> 1234],
       [tag |-> "binarytime", len |-> 6, val |-> 1],
       [tag |-> "integer", len |-> 2, val |-> 5678] >>

\* The message on the wire: the time is encoded, n is its number (history).
Frame(m, id, n) ==
    [goCBRef |-> ControlBlock, appId |-> id, stNum |-> m.stNum, sqNum |-> m.sqNum,
     t |-> MmsValue_setUtcTimeMs(m.t), timeAllowedToLive |-> TimeAllowedToLive,
     confRev |-> 1, data |-> AppDataSet, sentAt |-> m.at, n |-> n]

\* The receiver application before its start.  handle is the state of the
\* GooseReceiver its socket's callback is bound to.
NoReceiver ==
    [handle |-> "none", subs |-> <<>>, at |-> 0, timestamp |-> MmsValue_setUtcTimeMs(0),
     received |-> 0, lastReceivedTime |-> 0, lastStNum |-> 0, lastN |-> 0]

StreamInit ==
    /\ Init
    /\ clock = 0
    /\ net = <<>>
    /\ lost = FALSE
    /\ rxAttr \in [times : RxAttrs, appId : AppIds, lossy : BOOLEAN]
    /\ rx = NoReceiver

-----------------------------------------------------------------------------
\* The receiver's own events are not among those of sim: start, then stop.
RxStartDue == rx.handle = "none"

RxStopDue == rx.handle = "open" /\ rxAttr.times.stopTime # 0

\* Nothing is due before time t.
IsDue(t) ==
    /\ rx.handle # "crashed"
    /\ t >= clock
    /\ \A e \in sim.pending : t =< e.at
    /\ \A i \in 1 .. Len(net) : t =< net[i].at
    /\ RxStartDue => t =< rxAttr.times.startTime
    /\ RxStopDue => t =< rxAttr.times.stopTime

\* The time passed since subscriber self was left with its timeLeft; at is the
\* time the receiver was last called.
ElapseTo(self, at, t) ==
    LET ms == Hal_getTimeInMs(t) - Hal_getTimeInMs(at)
    IN  [self EXCEPT !.timeLeft = IF self.timeLeft < ms THEN -1 ELSE self.timeLeft - ms]

\* Ethernet_sendPacket: the frame is due after some delay, and not before the
\* frames in front of it.
Transmit(f, now) == \E d \in Delays :
    LET last == IF net = <<>> THEN 0 ELSE net[Len(net)].at
        at == IF now + d < last THEN last ELSE now + d
    IN  net' = Append(net, [frame |-> f, at |-> at])

\* A step of the publisher application; what it sends enters the network.
PublisherStep == \E e \in sim.pending :
    /\ IsNext(sim, e) /\ IsDue(e.at)
    /\ Next
    /\ clock' = e.at
    /\ IF sent' = sent + 1
       THEN \/ /\ Transmit(Frame(lastMsg', rxAttr.appId, sent'), e.at)
               /\ UNCHANGED lost
            \/ /\ rxAttr.lossy /\ lost' = TRUE
               /\ UNCHANGED net
       ELSE UNCHANGED <<net, lost>>
    /\ UNCHANGED <<rxAttr, rx>>

\* GooseReceiver_start: a socket is opened at once, and its callback is bound to
\* the receiver.  It takes every frame of the device: the protocol filter and the
\* multicast addresses set for the subscribers have no effect in this HAL.
GooseReceiver_start(r) == [r EXCEPT !.handle = "open"]

\* GOOSEReceiver::StartApplication: a receiver with one subscriber that learns
\* its data set.
StartReceiver ==
    LET s == GooseSubscriber_create(ControlBlock, <<>>, 1000, TRUE, FALSE)
    IN  /\ RxStartDue /\ IsDue(rxAttr.times.startTime)
        /\ clock' = rxAttr.times.startTime
        /\ rx' = GooseReceiver_start([NoReceiver EXCEPT !.subs = <<s>>,
                                                       !.at = rxAttr.times.startTime])
        /\ UNCHANGED <<vars, net, lost, rxAttr>>

\* GOOSEReceiver::Receive, called for the subscriber that took frame f.
Listener(r, f) ==
    [r EXCEPT !.received = @ + 1, !.lastStNum = r.subs[1].stNum,
              !.lastReceivedTime = MmsValue_getUtcTimeInMs(r.timestamp), !.lastN = f.n]

\* GooseReceiver_tick and parseGooseMessage; the listener is called for the
\* subscriber that matches.
Receive(r, f, t) ==
    LET subscribers == <<ElapseTo(r.subs[1], r.at, t)>>
        parsed == [r EXCEPT !.subs = parseGooseMessage(subscribers, f), !.at = t]
    IN  IF MatchingSubscriber(subscribers, f) = 0 THEN parsed
        ELSE Listener([parsed EXCEPT !.timestamp = f.t], f)

\* The first frame of the network arrives at time t.
Arrive == net # <<>> /\ LET f == Head(net).frame  t == Head(net).at IN
    /\ IsDue(t)
    /\ clock' = t
    /\ net' = Tail(net)
    /\ rx' = IF rx.handle = "open" THEN Receive(rx, f, t) ELSE rx
    /\ lost' = (lost \/ rx.handle = "none")
    /\ rx.handle # "freed"
    /\ UNCHANGED <<vars, rxAttr>>

\* GOOSEReceiver::StopApplication: GooseReceiver_stop does nothing and
\* GooseReceiver_destroy frees the receiver, its subscribers and its buffer,
\* but neither closes the socket nor takes its callback away.
StopReceiver ==
    /\ RxStopDue /\ IsDue(rxAttr.times.stopTime)
    /\ clock' = rxAttr.times.stopTime
    /\ rx' = [rx EXCEPT !.handle = "freed"]
    /\ UNCHANGED <<vars, net, lost, rxAttr>>

\* A frame that arrives then is parsed by a receiver in freed memory: the
\* program may crash, or find the memory as it was, or find nothing in it.
ArriveAtFreed == net # <<>> /\ LET f == Head(net).frame  t == Head(net).at IN
    /\ rx.handle = "freed" /\ IsDue(t)
    /\ clock' = t
    /\ net' = Tail(net)
    /\ rx' \in {[rx EXCEPT !.handle = "crashed"], Receive(rx, f, t), rx}
    /\ UNCHANGED <<vars, lost, rxAttr>>

StreamNext == PublisherStep \/ StartReceiver \/ Arrive \/ StopReceiver \/ ArriveAtFreed

StreamSpec == StreamInit /\ [][StreamNext]_streamVars

\* The simulator has nothing left to do; StreamNext is enabled otherwise.
Idle ==
    \/ rx.handle = "crashed"
    \/ sim.pending = {} /\ net = <<>> /\ ~RxStartDue /\ ~RxStopDue

\* Simulator::Run takes the next event as long as there is one: weak fairness of
\* StreamNext, written with Idle, which is cheaper to evaluate than ENABLED.
FairStreamSpec == StreamSpec /\ ([]<>Idle \/ []<><<StreamNext>>_streamVars)

-----------------------------------------------------------------------------
Listening == rx.handle = "open"

\* The stable period and the differences between delays fit the lifetime.
Healthy == \A c, d \in Delays : attr.t0 + d - c =< TimeAllowedToLive * UnitsPerMs

\* A subscriber that has received a message stays valid, at every instant up to
\* the next thing that happens, as long as the publisher keeps sending, nothing
\* is lost and the stable period leaves room for the delays: neither a burst,
\* nor the change between phases, nor the truncation of the times to
\* milliseconds makes it invalid for a moment.
HealthyStaysValid ==
    [][Healthy /\ Listening /\ rx.received > 0 /\ ~lost
       /\ (net # <<>> \/ (life = "running" /\ count # 0))
       => GooseSubscriber_isValid(ElapseTo(rx.subs[1], rx.at, clock'))]_streamVars

\* Losses can be counted: between two calls of the listener the state number
\* grows by the number of messages sent, on the circle 1 .. CounterMod - 1.  It
\* does so because the application announces a new state with every message,
\* although its values never change; UnchangedKeepsState is what the library's
\* documentation says instead.
StNumCountsMessages ==
    [][Listening /\ rx.received > 0 /\ rx'.received = rx.received + 1 =>
        (rx'.lastN - rx.lastN) % (CounterMod - 1)
            = (rx'.lastStNum - rx.lastStNum) % (CounterMod - 1)]_streamVars

\* "The state number is increased if any of the values in the GOOSE data set
\* changed", "the sequence number is increased for every consecutive GOOSE message
\* without state change" (goose_subscriber.h, getStNum and getSqNum): a listener
\* that finds the values it has already seen finds their state number, too.
UnchangedKeepsState ==
    [][LET before == rx.subs[1]
           after == rx'.subs[1]
       IN  /\ Listening /\ rx.received > 0 /\ rx'.received = rx.received + 1
           /\ after.dataSet = before.dataSet
           => after.stNum = before.stNum /\ after.sqNum > before.sqNum]_streamVars

\* Every call of the listener sees a valid subscriber without a parse error, the
\* learned data set with the values sent, and the time of the change of state
\* in the milliseconds of the publisher's clock, also when state numbers wrap.
\* Only when exactly CounterMod - 1 messages are lost in a row does the next one
\* look like a repetition.
ListenerInStep ==
    [][Listening /\ rx'.received = rx.received + 1 =>
        LET s == rx'.subs[1]
            f == Head(net).frame
        IN  /\ rx'.lastStNum # rx.lastStNum =>
                    /\ GooseSubscriber_isValid(s) /\ s.parseError = "NO_ERROR"
                    /\ [i \in 1 .. Len(s.dataSet.slots) |-> s.dataSet.slots[i].val]
                            = [i \in 1 .. Len(AppDataSet) |-> AppDataSet[i].val]
            /\ rx'.lastReceivedTime = Hal_getTimeInMs(f.sentAt)]_streamVars

\* A receiver that listens from the start to the end receives every message, if
\* none is lost and the publisher is not stopped.
AllDelivered ==
    attr.stopTime = 0 /\ rxAttr.times = [startTime |-> 0, stopTime |-> 0] /\ ~rxAttr.lossy =>
        <>(rx.received = Quota)
=============================================================================
