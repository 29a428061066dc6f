------------------------------ MODULE SvStream ------------------------------
(***************************************************************************)
(* A stream of sampled values: the application ns3::SVPublisher            *)
(* (model/sv-publisher-app.cc), the network, the receiver of libiec61850   *)
(* (sampled_values/sv_subscriber.cc) and the application ns3::SVSubscriber *)
(* (model/sv-subscriber-app.cc).                                           *)
(*                                                                         *)
(* Measure runs every interval, writes one sample into its ASDU of the     *)
(* publisher's only buffer and, with every samplesPerMessage-th sample,    *)
(* sends the buffer.  The receiver calls the subscriber application once   *)
(* for every ASDU of a message.                                            *)
(*                                                                         *)
(* Everything runs from the simulator's event list.  The network is        *)
(* external: it loses a message, or delivers it after a delay, in the      *)
(* order of sending.  attr holds the attributes of the two applications,   *)
(* their start and stop times (a stop time of 0 means never), whether the  *)
(* network loses messages and the frames of other senders on it.           *)
(***************************************************************************)
EXTENDS SvPublisher, Ns3Simulator

CONSTANTS
    CountMod,       \* 2^64 in the code: the modulus of count
    UsPerSec,       \* 10^6 in the code
    NsPerUs,        \* 10^3 in the code
    Delays,         \* the delays of the network
    Attrs           \* the configurations

VARIABLES
    attr,
    sim,            \* the simulator's clock and event list
    publisher,      \* "created", "running" or "stopped": ns3::SVPublisher
    svPublisher,    \* the library's publisher
    count,          \* messages that may still be sent
    sent,           \* messages sent (the Sent trace source)
    sampleIndex,    \* uint8_t: the ASDU the next sample goes to, from 0
    eventId,
    subscriber,     \* "created", "running" or "stopped": ns3::SVSubscriber
    rest,           \* ASDUs of the received message the listener was not yet called for
    received,       \* samples received (the Received trace source)
    lastSample,
    taken           \* history: the number of calls of Measure that took a sample

pubVars == <<publisher, svPublisher, count, sent, sampleIndex, eventId, taken>>

subVars == <<subscriber, rest, received, lastSample>>

vars == <<attr, sim, pubVars, subVars>>

\* The size of the arrays asdus, offsets, vals and tss of the application.
MaxAsdus == 8

\* MicroSeconds(1000000. / (frequency * samplesPerCycle)): whole microseconds.
Interval(a) == (UsPerSec \div (a.frequency * a.samplesPerCycle)) * NsPerUs

NoFrame == Frame("sv", 0, <<>>)

Call(f) == [name |-> f, frame |-> NoFrame]

Arrival(f) == [name |-> "Receive", frame |-> f]

\* What other senders put on the network: nothing for the APPID of this stream.
OtherFrames == {f \in Frames : f.etherType # "sv" \/ f.appId # SvAppId}

Attributes ==
    [frequency : Nat \ {0}, samplesPerCycle : Nat \ {0}, samplesPerMessage : 1 .. MaxAsdus,
     maxPackets : 0 .. CountMod - 1, stopTime : Nat, subscriberStart : Nat,
     subscriberStop : Nat, lossy : BOOLEAN, noise : SUBSET OtherFrames]

\* The attributes are not validated by the code: these are the values for which
\* the arrays are large enough and the interval is not truncated to 0.  A time
\* stamp is finer than a microsecond (60 nanoseconds in the code).
ASSUME StreamAssumption ==
    /\ CountMod \in Nat /\ CountMod > 1
    /\ UsPerSec \in Nat \ {0} /\ NsPerUs \in Nat \ {0} /\ NsPerSec = UsPerSec * NsPerUs
    /\ Resolution < NsPerUs
    /\ Delays \subseteq Nat /\ Delays # {}
    /\ Attrs \subseteq Attributes
    /\ \A a \in Attrs : Interval(a) > 0

-----------------------------------------------------------------------------
NoSample == [sampleTimestamp |-> 0, receivedTimestamp |-> 0, smpCnt |-> 0, val |-> 0]

Init ==
    /\ attr \in Attrs
    /\ sim = [now |-> 0, uid |-> 5,
              pending |->
                {[at |-> 0, uid |-> 0, fn |-> Call("StartPublisher")],
                 [at |-> attr.subscriberStart, uid |-> 1, fn |-> Call("StartSubscriber")]} \cup
                {e \in {[at |-> attr.stopTime, uid |-> 2, fn |-> Call("StopPublisher")],
                        [at |-> attr.subscriberStop, uid |-> 3, fn |-> Call("StopSubscriber")]} :
                    e.at # 0} \cup
                {[at |-> NsPerUs, uid |-> 4, fn |-> Arrival(f)] : f \in attr.noise}]
    /\ publisher = "created"
    /\ svPublisher = SVPublisher_create
    /\ count = attr.maxPackets
    /\ sent = 0
    /\ sampleIndex = 0
    /\ eventId = 0
    /\ subscriber = "created"
    /\ rest = <<>>
    /\ received = 0
    /\ lastSample = NoSample
    /\ taken = 0

\* The receiver handles a frame to the end before the next event runs.
Runs(e, f) == rest = <<>> /\ IsNext(sim, e) /\ e.fn.name = f

\* StartApplication of the publisher: one ASDU for every sample of a message.
WithAsdus(n) == SVPublisher_setupComplete(SVPublisher_addASDUs(SVPublisher_create, n))

StartPublisher == \E e \in sim.pending :
    LET s == Dispatch(sim, e)
    IN  /\ Runs(e, "StartPublisher")
        /\ publisher' = "running"
        /\ svPublisher' = WithAsdus(attr.samplesPerMessage)
        /\ count' = IF count = 0 THEN CountMod - 1 ELSE count
        /\ sent' = 0
        /\ sampleIndex' = 0
        /\ sim' = Schedule(s, 0, Call("Measure"))
        /\ eventId' = s.uid
        /\ UNCHANGED <<attr, taken, subVars>>

StopPublisherNoCancel == \E e \in sim.pending :
    /\ Runs(e, "StopPublisher")
    /\ sim' = Dispatch(sim, e)
    /\ publisher' = "stopped"
    /\ UNCHANGED <<attr, svPublisher, count, sent, sampleIndex, eventId, taken, subVars>>

\* StopApplication of the publisher: SVPublisher_destroy frees the ASDUs.
StopPublisher == \E e \in sim.pending :
    /\ Runs(e, "StopPublisher")
    /\ sim' = Cancel(Dispatch(sim, e), eventId)
    /\ publisher' = "stopped"
    /\ UNCHANGED <<attr, svPublisher, count, sent, sampleIndex, eventId, taken, subVars>>

\* The sample of time now, written into ASDU j.  The floats of UpdateValues are
\* a function of the time, which stands for them.
Sampled(self, j, now) ==
    SVPublisher_ASDU_setTimestamp(
        SVPublisher_ASDU_increaseSmpCnt(SVPublisher_ASDU_setFLOAT(self, j, now), j),
        j, Timestamp_setTimeInNanoseconds(now))

\* The network takes a frame: it is lost, or arrives after every frame before it.
Transmit(s, f) ==
    {Schedule(s, d, Arrival(f)) :
        d \in {d \in Delays : \A e \in s.pending : e.fn.name = "Receive" => e.at =< s.now + d}}
    \cup (IF attr.lossy THEN {s} ELSE {})

\* Measure, called with simulator s, takes a sample that does not complete a message.
StoreSample(s) ==
    /\ sampleIndex + 1 # attr.samplesPerMessage
    /\ svPublisher' = Sampled(svPublisher, sampleIndex + 1, s.now)
    /\ sampleIndex' = (sampleIndex + 1) % 256
    /\ sim' = Schedule(s, Interval(attr), Call("Measure"))
    /\ eventId' = s.uid
    /\ UNCHANGED <<count, sent>>

\* Send, then the rest of Measure: the next call is scheduled after the frame.
Send(s, self) ==
    /\ count' = count - 1
    /\ sent' = sent + 1
    /\ \E net \in Transmit(s, SVPublisher_publish(self)) :
            /\ sim' = Schedule(net, Interval(attr), Call("Measure"))
            /\ eventId' = net.uid

SendMessageStale(s) ==
    /\ sampleIndex + 1 = attr.samplesPerMessage
    /\ svPublisher' = Sampled(svPublisher, sampleIndex + 1, s.now)
    /\ sampleIndex' = 0
    /\ Send(s, svPublisher)

SendMessageNoReset(s) ==
    /\ sampleIndex + 1 = attr.samplesPerMessage
    /\ svPublisher' = Sampled(svPublisher, sampleIndex + 1, s.now)
    /\ sampleIndex' = sampleIndex + 1
    /\ Send(s, svPublisher')

\* Measure takes the sample that completes a message.
SendMessage(s) ==
    /\ sampleIndex + 1 = attr.samplesPerMessage
    /\ svPublisher' = Sampled(svPublisher, sampleIndex + 1, s.now)
    /\ sampleIndex' = 0
    /\ Send(s, svPublisher')

\* The last message has been sent: Measure returns and is not scheduled again.
Exhausted(s) ==
    /\ count = 0
    /\ sim' = s
    /\ UNCHANGED pubVars

Measure == \E e \in sim.pending :
    LET s == Dispatch(sim, e)
    IN  /\ Runs(e, "Measure")
        /\ \/ Exhausted(s)
           \/ /\ count # 0
              /\ StoreSample(s) \/ SendMessage(s)
              /\ taken' = taken + 1
              /\ UNCHANGED publisher
        /\ UNCHANGED <<attr, subVars>>

-----------------------------------------------------------------------------
\* StartApplication of the subscriber: a receiver with one subscriber.
StartSubscriber == \E e \in sim.pending :
    /\ Runs(e, "StartSubscriber")
    /\ sim' = Dispatch(sim, e)
    /\ subscriber' = "running"
    /\ received' = 0
    /\ lastSample' = NoSample
    /\ UNCHANGED <<attr, pubVars, rest>>

\* StopApplication of the subscriber: SVReceiver_destroy.  The callback of the
\* socket stays.
StopSubscriber == \E e \in sim.pending :
    /\ Runs(e, "StopSubscriber")
    /\ sim' = Dispatch(sim, e)
    /\ subscriber' = "stopped"
    /\ UNCHANGED <<attr, pubVars, rest, received, lastSample>>

MatchesAnyEtherType(f) == f.appId = SvAppId

\* parseSVMessage: the Ethertype and the APPID of the only subscriber (the check
\* of the destination address is off).
Matches(f) == f.etherType = "sv" /\ f.appId = SvAppId

\* parseSVPayload and parseSequenceOfASDU: the ASDUs the listener is called for.
Parsed(f) == IF Matches(f) THEN f.asdus ELSE <<>>

\* A frame arrives at the subscriber's node.  Without a socket it is dropped.
\* After StopSubscriber the callback uses the receiver that was freed: the frame
\* is handled as before or it is not (or the program crashes, which is a
\* behaviour that ends here).
Receive == \E e \in sim.pending :
    /\ Runs(e, "Receive")
    /\ sim' = Dispatch(sim, e)
    /\ \/ subscriber # "running" /\ rest' = <<>>
       \/ subscriber # "created" /\ rest' = Parsed(e.fn.frame)
    /\ UNCHANGED <<attr, pubVars, subscriber, received, lastSample>>

\* The listener, SVSubscriber::Receive, for the next ASDU of the message.
Listener ==
    /\ rest # <<>>
    /\ rest' = Tail(rest)
    /\ received' = received + 1
    /\ lastSample' = [sampleTimestamp |-> Timestamp_getTimeInNs(Head(rest).ts),
                      receivedTimestamp |-> sim.now,
                      smpCnt |-> Head(rest).smpCnt,
                      val |-> Head(rest).val]
    /\ UNCHANGED <<attr, sim, pubVars, subscriber>>

Next ==
    \/ StartPublisher \/ Measure \/ StopPublisher
    \/ StartSubscriber \/ Receive \/ Listener \/ StopSubscriber

Spec == Init /\ [][Next]_vars

\* Simulator::Run keeps taking events while there are any.
FairSpec == Spec /\ WF_vars(Next)

-----------------------------------------------------------------------------
Quota == IF attr.maxPackets = 0 THEN CountMod - 1 ELSE attr.maxPackets

Measures == {e \in sim.pending : e.fn.name = "Measure"}

\* The frames of the publisher that are on their way or being parsed.
InFlight == {e.fn.frame.asdus : e \in {e \in sim.pending :
                                        e.fn.name = "Receive" /\ e.fn.frame \notin attr.noise}}

FnNames == {"StartPublisher", "StopPublisher", "Measure", "StartSubscriber",
            "StopSubscriber", "Receive"}

\* Every variable has its type; sampleIndex stays within the arrays of ASDUs.
TypeOK ==
    /\ attr \in Attrs
    /\ sim \in Simulator([name : FnNames, frame : Frames])
    /\ publisher \in {"created", "running", "stopped"}
    /\ svPublisher \in SVPublisher
    /\ count \in 0 .. CountMod - 1
    /\ sent \in Nat
    /\ sampleIndex \in 0 .. MaxAsdus - 1
    /\ publisher = "running" => sampleIndex < Len(svPublisher.buffer)
    /\ eventId \in Nat
    /\ subscriber \in {"created", "running", "stopped"}
    /\ rest \in Seq(Asdu)
    /\ received \in Nat
    /\ lastSample \in [sampleTimestamp : Nat, receivedTimestamp : Nat,
                       smpCnt : SmpCnt, val : Nat]
    /\ taken \in Nat

\* While messages remain to be sent exactly one call of Measure is pending, the
\* one eventId names; once SVPublisher_destroy has freed the ASDUs there is none.
OneMeasure ==
    /\ publisher = "running" /\ count # 0 =>
            \E e \in Measures : Measures = {e} /\ e.uid = eventId
    /\ publisher = "stopped" => Measures = {}

\* A message carries samplesPerMessage consecutive samples, an interval apart
\* and in the order of its ASDUs, although its buffer is the one of every
\* message before it: no ASDU is sent twice or before it was written.
MessageCoherent ==
    \A m \in InFlight :
        /\ Len(m) = attr.samplesPerMessage /\ m[1].val # Unset
        /\ \A j \in 1 .. Len(m) : /\ m[j].val = m[1].val + (j - 1) * Interval(attr)
                                  /\ m[j].smpCnt = m[1].smpCnt

\* The subscriber can account for every sample.  Within a message the samples
\* are an interval apart and share one smpCnt; between two messages smpCnt
\* advances by the number of messages sent, also when it wraps at its limit, so
\* that it tells how many samples the network has lost.
SamplesAccounted ==
    [][received > 0 /\ received' = received + 1 =>
        LET steps == (lastSample'.val - lastSample.val) \div Interval(attr)
            counted == (lastSample'.smpCnt + SmpCntLimit - lastSample.smpCnt) % SmpCntLimit
            m == attr.samplesPerMessage
        IN  IF received % m = 0
            THEN steps % m = 1 % m /\ counted = ((steps - 1) \div m + 1) % SmpCntLimit
            ELSE steps = 1 /\ counted = 0]_vars

\* The seconds of a time have not overflowed the 32 bits of a time stamp.
InEpoch(ns) == ns < SecsMod * NsPerSec

\* The time stamp of a sample survives its encoding: until the seconds overflow
\* it is never later than the sample and earlier by at most the resolution.
\* And a sample is received with a message of which it is the last one or for
\* which it waited at most samplesPerMessage - 1 intervals, plus a delay of the
\* network.
SampleAge ==
    received > 0 =>
        /\ InEpoch(lastSample.val) =>
                /\ lastSample.sampleTimestamp =< lastSample.val
                /\ lastSample.val =< lastSample.sampleTimestamp + Resolution
        /\ \E k \in 0 .. attr.samplesPerMessage - 1, d \in Delays :
                lastSample.receivedTimestamp = lastSample.val + k * Interval(attr) + d

\* Time stamps tell samples apart and keep their order, because the interval,
\* a microsecond or more, is longer than the resolution of a time stamp, until
\* the seconds overflow.
TimestampsIncrease ==
    [][received > 0 /\ received' = received + 1 /\ InEpoch(lastSample'.val) =>
        lastSample'.sampleTimestamp > lastSample.sampleTimestamp]_vars

\* If neither application is stopped and the network loses nothing, the
\* subscriber receives every sample of every message, once.
AllReceived ==
    /\ attr.stopTime = 0 /\ attr.subscriberStop = 0 /\ attr.subscriberStart = 0 /\ ~attr.lossy
    => <>[](received = attr.samplesPerMessage * Quota /\ received = taken)

\* "The SmpCnt (sample counter) is increased for each ASDU to identify the
\* sample" (sv_subscriber.h, SVSubscriber_ASDU_getSmpCnt).
SmpCntPerSample ==
    [][received > 0 /\ received' = received + 1 => lastSample'.smpCnt # lastSample.smpCnt]_vars
=============================================================================
