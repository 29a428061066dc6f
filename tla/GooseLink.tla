------------------------------ MODULE GooseLink ------------------------------
(***************************************************************************)
(* GOOSE publishers, a network and a receiver with its subscribers.        *)
(*                                                                         *)
(* Every control block has one publisher (GoosePublisher), which its       *)
(* application drives through the library's API: it announces new states,  *)
(* changes the configuration, publishes, and is restarted.  The network is *)
(* external: it loses and repeats frames and, in ReorderSpec, delivers     *)
(* them in any order.  In FifoSpec the frames of one publisher arrive in   *)
(* the order in which they were sent.  The receiver (GooseReceiver) parses *)
(* a frame when it arrives.                                                *)
(***************************************************************************)
EXTENDS GoosePublisher, GooseReceiver, FiniteSets

CONSTANTS
    Refs,               \* control block references, one publisher each
    AppIds,             \* APPIDs the publishers use
    MaxConfRev,         \* bound on confRev
    Datas,              \* per confRev: the values the data set of that layout takes
    SubscriberLists,    \* lists of subscribers the receiver is started with
    TimeAllowedToLive,  \* in milliseconds
    MaxFrames,          \* bound on frames a publisher sends
    MaxStNum,           \* bound on states of a publisher
    MaxBoots,           \* bound on restarts of a publisher
    MaxInFlight         \* bound on frames in the network

\* What the encoder of the publisher produces: elements of the lengths the
\* receiver expects of their type.
Encodable == {d \in Seq(Element) : \A k \in 1 .. Len(d) : ~LeftOut(d[k])}

ASSUME LinkAssumption ==
    /\ TimeAllowedToLive \in Nat
    /\ MaxFrames \in Nat /\ MaxFrames < CounterMod - 1
    /\ MaxStNum \in Nat /\ MaxStNum < CounterMod - 1
    /\ MaxConfRev \in Nat \ {0} /\ MaxBoots \in Nat /\ MaxInFlight \in Nat
    /\ Refs \subseteq STRING /\ AppIds \subseteq Nat
    /\ \A c \in 1 .. MaxConfRev : Datas[c] \subseteq Encodable
    /\ \A l \in SubscriberLists : l \in Seq(Subscriber) /\ \A i \in 1 .. Len(l) : Created(l[i])

VARIABLES
    pub,        \* per control block: the publisher's counters
    appId,      \* per control block: the APPID of its frames
    data,       \* per control block: the values of the data set
    confRev,    \* per control block
    ident,      \* history: number of frames sent, which identifies the last one
    boot,       \* history: number of restarts of the publisher
    net,        \* the frames in the network
    arrived,    \* per control block: identity of the last frame that arrived
    subs,       \* the list of subscribers of the receiver
    got         \* history, per subscriber: the last frame it processed, whether that
                \* one was newer than the one before, and from the same boot

vars == <<pub, appId, data, confRev, ident, boot, net, arrived, subs, got>>

senderVars == <<pub, appId, data, confRev, ident, boot>>

NothingGot == [last |-> [id |-> 0, boot |-> 0], newer |-> FALSE, sameBoot |-> FALSE]

Init ==
    /\ pub = [r \in Refs |-> GoosePublisher_create(0)]
    /\ appId \in [Refs -> AppIds]
    /\ data \in [Refs -> Datas[1]]
    /\ confRev = [r \in Refs |-> 1]
    /\ ident = [r \in Refs |-> 0]
    /\ boot = [r \in Refs |-> 0]
    /\ net = {}
    /\ arrived = [r \in Refs |-> 0]
    /\ subs \in SubscriberLists
    /\ got = [i \in 1 .. Len(subs) |-> NothingGot]

-----------------------------------------------------------------------------
\* The application changes values of the data set and announces a new state.
NewState(r) ==
    /\ pub[r].stNum < MaxStNum
    /\ \E d \in Datas[confRev[r]] : data' = [data EXCEPT ![r] = d]
    /\ pub' = [pub EXCEPT ![r] = GoosePublisher_increaseStNum(@, 0)]
    /\ UNCHANGED <<appId, confRev, ident, boot, net, arrived, subs, got>>

\* The data set gets another layout: a new confRev, and a new state.
GoosePublisher_setConfRev(r) ==
    /\ confRev[r] < MaxConfRev /\ pub[r].stNum < MaxStNum
    /\ confRev' = [confRev EXCEPT ![r] = @ + 1]
    /\ \E d \in Datas[confRev[r] + 1] : data' = [data EXCEPT ![r] = d]
    /\ pub' = [pub EXCEPT ![r] = GoosePublisher_increaseStNum(@, 0)]
    /\ UNCHANGED <<appId, ident, boot, net, arrived, subs, got>>

\* The application is stopped and started: it creates a new publisher.
Restart(r) ==
    /\ boot[r] < MaxBoots
    /\ boot' = [boot EXCEPT ![r] = @ + 1]
    /\ pub' = [pub EXCEPT ![r] = GoosePublisher_create(0)]
    /\ UNCHANGED <<appId, data, confRev, ident, net, arrived, subs, got>>

Frame(r) ==
    [id |-> ident[r] + 1, boot |-> boot[r], goCBRef |-> r, appId |-> appId[r],
     stNum |-> Payload(pub[r]).stNum, sqNum |-> Payload(pub[r]).sqNum,
     timeAllowedToLive |-> TimeAllowedToLive, confRev |-> confRev[r], data |-> data[r]]

Publish(r) ==
    /\ ident[r] < MaxFrames
    /\ Cardinality(net) < MaxInFlight
    /\ ident' = [ident EXCEPT ![r] = @ + 1]
    /\ net' = net \cup {Frame(r)}
    /\ pub' = [pub EXCEPT ![r] = GoosePublisher_publish(@, TRUE)]
    /\ UNCHANGED <<appId, data, confRev, boot, arrived, subs, got>>

Note(g, f) ==
    [last |-> f, newer |-> f.id > g.last.id, sameBoot |-> g.last.id = 0 \/ f.boot = g.last.boot]

\* A frame reaches the receiver; the network may deliver it again later.
Arrive(f) ==
    LET i == MatchingSubscriber(subs, f)
    IN  /\ net' \in {net, net \ {f}}
        /\ arrived' = [arrived EXCEPT ![f.goCBRef] = f.id]
        /\ subs' = parseGooseMessage(subs, f)
        /\ got' = IF i = 0 THEN got ELSE [got EXCEPT ![i] = Note(@, f)]
        /\ UNCHANGED senderVars

DeliverInOrder(f) == f.id >= arrived[f.goCBRef] /\ Arrive(f)

Lose(f) ==
    /\ net' = net \ {f}
    /\ UNCHANGED <<senderVars, arrived, subs, got>>

\* A millisecond passes at the receiver.
Tick ==
    /\ \E i \in 1 .. Len(subs) : subs[i].timeLeft >= 0
    /\ subs' = [i \in 1 .. Len(subs) |-> Elapse(subs[i])]
    /\ UNCHANGED <<senderVars, net, arrived, got>>

SendNext == \E r \in Refs :
    NewState(r) \/ GoosePublisher_setConfRev(r) \/ Restart(r) \/ Publish(r)

FifoNext == SendNext \/ Tick \/ \E f \in net : DeliverInOrder(f) \/ Lose(f)

ReorderNext == SendNext \/ Tick \/ \E f \in net : Arrive(f) \/ Lose(f)

FifoSpec == Init /\ [][FifoNext]_vars

\* Time passes at the receiver.
FairFifoSpec == FifoSpec /\ WF_vars(Tick)

ReorderSpec == Init /\ [][ReorderNext]_vars

-----------------------------------------------------------------------------
FrameType ==
    [id : Nat \ {0}, boot : Nat, goCBRef : Refs, appId : AppIds, stNum : Counter,
     sqNum : Counter, timeAllowedToLive : {TimeAllowedToLive}, confRev : 1 .. MaxConfRev,
     data : Encodable]

\* The subscribers that take the messages of one publisher only, and those
\* among them whose data set the receiver allocates.
Plain(i) == ~subs[i].isObserver

Learning(i) == Plain(i) /\ subs[i].selfAllocated

\* Every variable has its type.
TypeOK ==
    /\ pub \in [Refs -> Publisher]
    /\ appId \in [Refs -> AppIds]
    /\ confRev \in [Refs -> 1 .. MaxConfRev]
    /\ data \in [Refs -> Encodable]
    /\ ident \in [Refs -> Nat]
    /\ boot \in [Refs -> Nat]
    /\ net \in SUBSET FrameType
    /\ arrived \in [Refs -> Nat]
    /\ subs \in Seq(Subscriber)
    /\ got \in [1 .. Len(subs) -> [last : FrameType \cup {NothingGot.last}, newer : BOOLEAN,
                                   sameBoot : BOOLEAN]]

\* A subscriber of one publisher is valid only if the last message it processed
\* is newer than the one before: a repeated or an outdated message makes it
\* invalid.
ValidIsNewer ==
    \A i \in 1 .. Len(subs) :
        Plain(i) /\ subs[i].stateValid => got[i].newer

\* Conversely, a subscriber that learns its data set accepts every new message
\* of a publisher that was not restarted, also the first one of another layout,
\* unless the message has an element the receiver cannot decode.
FreshAccepted ==
    \A i \in 1 .. Len(subs) :
        LET f == got[i].last
        IN  /\ Learning(i)
            /\ got[i].newer /\ got[i].sameBoot
            /\ \A k \in 1 .. Len(f.data) : f.data[k].tag # "unknown"
            => subs[i].stateValid

\* The values of one layout: of the same types and shapes, and of integers no
\* wider than 32 bits.  A value may be missing (reserved) or not be decodable.
SameElement(a, b) ==
    /\ a.tag = b.tag
    /\ a.tag \in Nested \cup {"bitstring"} => a.len = b.len
    /\ a.tag \in {"integer", "unsigned"} => a.len =< 5 /\ b.len =< 5

OneLayout(D) ==
    \A d, e \in D :
        /\ Len(d) = Len(e)
        /\ \A k \in 1 .. Len(d) :
                {d[k].tag, e[k].tag} \cap {"reserved", "unknown"} = {} => SameElement(d[k], e[k])

\* While a subscriber is valid, its data set is the one of the last message it
\* processed, element by element: a message that fails half-way never leaves a
\* mixture behind that passes for valid.  Only the element of a data access
\* error keeps an older value.
ValidSnapshot ==
    \A i \in 1 .. Len(subs) :
        LET slots == subs[i].dataSet.slots
            elements == got[i].last.data
        IN  subs[i].stateValid /\ subs[i].dataSet # NoDataSet =>
                /\ Len(slots) = Len(elements)
                /\ \A k \in 1 .. Len(elements) : elements[k].tag # "reserved" =>
                        slots[k].type = elements[k].tag /\ slots[k].val = elements[k].val

\* GooseSubscriber_destroy frees the data set exactly when the receiver has
\* allocated it, and not the one the application provided; only an observer
\* loses the application's data set.
OwnershipExact ==
    \A i \in 1 .. Len(subs) :
        /\ subs[i].dataSet.alloc = "receiver" => subs[i].selfAllocated
        /\ subs[i].dataSet.alloc = "app" => ~subs[i].selfAllocated
        /\ Plain(i) /\ ~subs[i].selfAllocated => subs[i].dataSet.alloc = "app"

\* When the messages of a publisher stop, its subscribers become invalid
\* (the number of messages is bounded here, and a repeated one is not valid).
SilenceDetected ==
    \A i \in UNION {1 .. Len(l) : l \in SubscriberLists} :
        (i =< Len(subs) /\ Plain(i) /\ GooseSubscriber_isValid(subs[i]))
            ~> (i =< Len(subs) /\ ~GooseSubscriber_isValid(subs[i]))

\* "If APPID is set the subscriber will ignore all messages with other APPID
\* values" (goose_subscriber.h, GooseSubscriber_setAppId).
AppIdRespected ==
    \A i \in 1 .. Len(subs) :
        Plain(i) /\ subs[i].appId # AnyAppId /\ got[i].last.id > 0
            => got[i].last.appId = subs[i].appId
=============================================================================
