# GridGooseSV in TLA+

GridGooseSV brings two protocols of IEC 61850 to the ns-3 network simulator: GOOSE,
which announces changes of state of a substation device, and SV, which streams
sampled values. The repository has four ns-3 applications (`model/*.cc`) on top of a
port of libiec61850 (`model/libiec61850`). This project models both protocols from the
applications down to the octets on the wire, and the libraries below them (containers,
strings, the ASN.1 codec), checks the models with TLC and proves the safety properties of
both protocols, from the applications to the listener, with TLAPS.

## The system

Everything runs in one thread, from the event list of the simulator. The hard part is
not parallelism but the order of events: timers that replace each other, frames that
are lost, repeated, late or of another layout, buffers and data sets that are written
in place, and objects that are freed while something may still call them.

| Part | State | Operations | Talks to |
|---|---|---|---|
| GOOSE publisher application (`goose-publisher-app.cc`) | attributes, `count`, `sent`, `eventCount`, the timer handles `eventId` and `gooseEventId` | `StartApplication`, `Send`, `SendEvent`, `T`, `StopApplication` | simulator (timers), GOOSE publisher (calls) |
| GOOSE publisher (`goose_publisher.cc`) | `stNum`, `sqNum`, time of the state, `confRev`, one buffer | create, `increaseStNum`, setters, `publish`, destroy | Ethernet HAL |
| GOOSE receiver and subscribers (`goose_receiver.cc`, `goose_subscriber.cc`) | list of subscribers; per subscriber the data set and who owns it, `confRev`, `stNum`, `sqNum`, validity, `invalidityTime`, `parseError` | parse a frame, learn a data set, `isValid`, start, stop, destroy | socket callback, listener of the application |
| GOOSE receiver application (`goose-receiver-app.cc`) | `received`, last `stNum` | start, `Receive`, stop | receiver |
| SV publisher application (`sv-publisher-app.cc`) | `count`, `sent`, `sampleIndex`, `eventId`, arrays for eight ASDUs | `StartApplication`, `Measure`, `Send`, `StopApplication` | simulator, SV publisher |
| SV publisher (`sv_publisher.cc`) | list of ASDUs with `smpCnt`, one buffer written in place | add ASDU, `setupComplete`, setters, `increaseSmpCnt`, `publish` | Ethernet HAL |
| SV receiver and subscriber (`sv_subscriber.cc`) | list of subscribers | parse a frame, call the listener per ASDU | socket callback, listener |
| SV subscriber application (`sv-subscriber-app.cc`) | `received`, `lastSample` | start, `Receive`, stop | receiver |
| Time stamps (`iec61850_common.cc`) | none | encode and decode a time | both SV applications |
| HAL (`hal/ethernet/ns3`, `hal/time/ns3`) | sockets | create, send, receive, destroy, now | ns-3 |
| BER codec and MMS values (`mms/asn1`, `mms_value.cc`, `mms_access_result.cc`) | none; values are trees | create, set, size, encode, decode | GOOSE and SV libraries |
| Containers (`common`: lists, maps, byte buffers, arenas) | cells of the heap, an arena, a buffer | create, add, insert, remove, find, sort, destroy | both libraries |
| Strings and conversions (`common`) | none | copy into buffers, digits, order of names, IPv6 addresses, generalized times | containers, MMS |
| ASN.1 compiler output (`mms/iso_mms/asn1c`) | structure under construction with the decoder's place in it | decode in pieces, check, encode, release | nothing in this repository calls it |

What makes each part correct:

- *Publisher application*: one chain of timers at any time, complete bursts, no timer
  after the stop, no message that passes for the one before, the whole quota sent.
- *Publisher and receiver of GOOSE*: a subscriber is valid exactly when the last message
  was new and was stored completely, time alone invalidates it, and the owner of a data
  set is the one who frees it.
- *SV stream*: a message holds consecutive samples although all messages share a buffer,
  no sample is lost unnoticed, time stamps keep order and accuracy.
- *Both GOOSE applications together*: a healthy publisher never lets its subscriber
  become invalid, and the listener learns of every loss.
- *Codecs*: decoding inverts encoding, computed sizes are the sizes written, a decoder
  that is fed in pieces decodes as if it had the whole, and memory is given back.
- *Containers*: cells behave as sequences, no cell leaks or is freed twice.

## Modules

| Module | Models |
|---|---|
| `Ns3Simulator` | the event list of ns-3 (external), from its use in the applications |
| `GoosePublisher` | the counters of the GOOSE publisher |
| `GoosePublisherApp` | the GOOSE publisher application with its timers |
| `GooseDataSet` | `parseAllData` and `parseAllDataUnknownValue` as operators |
| `GooseReceiver` | what one frame does to the list of subscribers |
| `GooseLink` | publishers, network and receiver composed |
| `UtcTime` | time stamps in nanoseconds |
| `SvPublisher` | ASDUs, sample counters and the buffer of the SV publisher |
| `SvStream` | both SV applications, the network and the SV receiver composed |
| `MsTime` | time stamps in milliseconds, in the eight octets of UtcTime |
| `GooseStream` | both GOOSE applications, the network and the receiver on one clock |
| `BerEncoder` | the encoder: tags, lengths, shortest integers, Booleans, strings, bit strings, floats |
| `BerCodec` | the decoder; signed and unsigned integers, object identifiers |
| `MmsValue` | MMS values, their encoding and its size |
| `GoosePdu` | GOOSE frames and payloads octet by octet, both directions |
| `MmsCodec` | a GOOSE publisher and a subscriber exchanging such messages |
| `TimeStamp` | time stamps octet by octet, with their flags |
| `Iec61850Common` | quality, double point positions, functional constraints, time stamps as MMS values |
| `SvAsdu` | the message of the SV publisher octet by octet: sizes, encoding, setters |
| `SvLayout` | calls of the SV publisher API in any order |
| `SvPdu` | an SV message in the hands of a receiver and of a listener |
| `SvCodec` | the application of `SvLayout` publishing, and a listener reading the result |
| `PduCodec` | `MmsCodec` and `SvCodec` in one specification |
| `StringUtils` | strings, digits, the order of names, IPv6 addresses, generalized times |
| `LinkedList` | lists and maps as operators on a heap of cells |
| `SeqContainers` | what containers promise: sequences |
| `Containers` | lists, maps, arena lists and byte buffers at work |
| `Asn1Types` | the tables of the MMS grammar |
| `Asn1Ber`, `Asn1Struct` | the restartable decoder; encoder, constraint checks and release |
| `Asn1Codec` | a message on its way through them, in pieces |
| `LibraryCode` | `Containers` and `Asn1Codec` in one specification |
| `MC...` | instances for TLC |
| `GooseStreamProofs`, `GooseLinkProofs`, `SvStreamProofs`, `SvLayoutProofs`, `ContainersProofs` | theorems |
| `ArithmeticLemmas`, `GooseReceiverProofs`, `LinkedListProofs` | lemmas they share: quotients and products, induction and recursion; what the functions of the receiver, of lists and of maps do |

**GoosePublisherApp.** The variables have the names of the members; `sim` is the
simulator, `life` stands for the objects made at the start and freed at the stop,
`lastMsg` and `burst` are history. The actions are the four handlers, each the whole
handler: `Send` is `Exhausted` or `SendBody`, `SendEvent` is `Exhausted`, `EndBurst`
(which calls `Send`) or `BurstMessage`. `T` yields the delays of a burst as the code
does, by a root of the integer quotient of the periods, truncated. `eventCount` keeps
its 8 bits.

**GooseDataSet, GooseReceiver.** The data of a message is a sequence of typed elements
with the length of their encoding; nested arrays and structures are one element with a
shape. `parseAllData` writes element after element and keeps what it wrote when one
fails; the error it returns is the one that survives the check after the loop.
`parseGooseMessage` has no effect but that of the observer's header and of
`parseGoosePayload`, since the code ignores whether an interested subscriber was found.
Frames come from publishers, so malformed payloads are not modelled. `timeLeft` is
`invalidityTime` relative to the clock.

**GooseLink.** The application's side of the publisher API is nondeterministic:
`NewState`, `GoosePublisher_setConfRev`, `Restart`, `Publish`. A frame in the network
can be lost (`Lose`) or arrive (`Arrive`) and stay, to arrive again. `FifoSpec` delivers
the frames of one publisher in order, `ReorderSpec` in any order. `got` is history: the
last frame a subscriber processed, whether it was newer than the one before and from
the same boot.

**SvStream.** All actions are events of the simulator, but for `Listener`: the receiver
calls it for one ASDU after the other (`rest`) before the next event runs. The network
turns a sent frame into an arrival event after a delay, in order, or loses it. A frame
that arrives after the subscriber application has destroyed its receiver is undefined
behaviour in the code: the model lets it be handled or not.

**GooseStream.** Extends the publisher application and `GooseReceiver`; the next thing to
happen is the one that is due first among the publisher's timers, the frames in flight
and the receiver application's start and stop. `ElapseTo` brings a subscriber's `timeLeft`
to the current time. The network keeps the order of frames, delays them differently and,
in lossy configurations, loses them. `ArriveAtFreed` is a frame after `StopApplication`:
the receiver is freed while the socket's callback is bound to it, so the model lets the
program crash, use the memory as it was, or find nothing.

**BerEncoder, BerCodec, MmsValue, GoosePdu, MmsCodec.** Octets are numbers, machine integers are
sequences of octets of their width (so that 32 and 64 bits keep their overflow and sign),
values are records of type, octets, capacity and components. `createGoosePayload` has its
two passes, sizes first; `parseAllDataOctets` and `LearnOctets` are `parseAllData` and
`parseAllDataUnknownValue`, recursive as in the code. In `MmsCodec` messages of all types
follow each other, with changes of `confRev`, so that values are learned from one and
overwritten by another. `DS == INSTANCE GooseDataSet` links the two levels: the decisions
of the octets are those of the abstract elements the proofs are about.

**TimeStamp, SvAsdu, SvLayout, SvPdu, SvCodec.** The publisher keeps one buffer; `SVPublisher_setupComplete` lays out
the ASDUs and leaves pointers into the buffer (positions here), through which the setters
write. Octets nobody has written are the garbage of `malloc`. The application makes up to
`MaxCalls` calls in any order the header allows; `svApp` is what it believes to have set.
Setting up and setting (`SvLayout`) are apart from publishing and reading (`SvCodec`), and
the encoder (`BerEncoder`, `TimeStamp`, `SvAsdu`) from the decoder: what is proved about
uses none of the recursive operators of the rest.

**StringUtils, LinkedList, Containers.** A heap is a function from block addresses to
cells; `malloc` takes the smallest free one, so that what one container frees the other
gets next. Dereferencing `NULL` (`LinkedList_get` with an index on an empty list) is the
result `Fault`. `StringUtils_sortList` is the insertion sort of the code on the cells.
`Text` gives the string behind a pointer; equal strings are ordered by address.

**Asn1Types, Asn1Ber, Asn1Struct, Asn1Codec.** asn1c's run-time library interprets one
descriptor per type; the tables are translated one by one, and the decoder, encoder, checks
and release as operators over them. Every structure under construction has the four fields
of `asn_struct_ctx_t` (`phase`, `step`, `left`, `ptr`). The peer of `Asn1Codec` may use any
of four encodings BER allows (`Forms`) and send another type than the one expected.

## Runs

| Run | Checks | Result |
|---|---|---|
| `goose_publisher_app` | timers, bursts, quota and states of the application | holds |
| `burst_255` | `BurstLength` with the longest burst the attribute admits | violated: `eventCount` wraps and the burst never ends |
| `goose_link` | validity, data and ownership of subscribers over a lossy, repeating network with restarts and new layouts | holds |
| `learned_int64` | `FreshAccepted` with an integer that grows beyond five octets | violated: rejected until `confRev` changes |
| `appid_filter` | `AppIdRespected` | violated: the APPID is not checked |
| `sv_stream` | samples, counters and time stamps from measurement to listener | holds |
| `smpcnt_per_sample` | `SmpCntPerSample` with several samples per message | violated: they share one counter value |
| `goose_stream` | both GOOSE applications on one clock | holds |
| `unchanged_state` | `UnchangedKeepsState` in the stable phase | violated: every message announces a new state, though no value changes |
| `pdu_codec` | GOOSE and SV messages octet by octet | holds |
| `smpmod_read` | `SmpModReadAsSet` | violated: a listener reads 0 |
| `library_code` | heap, arena, and lists and maps as sequences; the asn1c library on the MMS grammar | holds |

What the properties of the passing runs say (every one is violated by a mutant of the
definition it depends on):

- `goose_publisher_app`: `StoppedIsQuiet` (no timer reaches the destroyed publisher),
  `OneSendChain` (exactly one timer for the next message, plus the next burst),
  `SendSpacing` (messages are more than 0 and at most `t0` apart, across phases),
  `BurstComplete` (the next burst is armed after exactly `eventMessages`),
  `FreshState` (no message repeats the state and sequence numbers of the one before, also
  when they overflow; a new state starts at sequence number 0 with the time of its change),
  `AllSent` (the quota is used up),
  `PhasesAlternate` (with enough messages left for a burst and a stable phase, each phase
  ends before they run out).
- `goose_link`: `ValidIsNewer` (repeated or outdated messages make a subscriber invalid),
  `FreshAccepted` (a learning subscriber accepts new messages, also of a new layout),
  `ValidSnapshot` (valid data is the data of one message), `OwnershipExact` (a data set
  is freed by the one who allocated it), `SilenceDetected` (when messages stop, a
  subscriber becomes invalid).
- `sv_stream`: `OneMeasure` (one pending measurement, none after the stop),
  `MessageCoherent` (the reused buffer always holds consecutive samples),
  `SamplesAccounted` (`smpCnt` counts lost messages, also when it wraps), `SampleAge`
  (the encoded time stamp is early by at most the resolution, 60 ns in the code, which two
  roundings can lose completely; age on arrival), `TimestampsIncrease` (until the 32 bits
  of the seconds overflow time stamps grow from sample to sample),
  `AllReceived` (without loss every sample arrives once).
- `goose_stream`: `HealthyStaysValid` (if the stable period plus any difference of two delays
  fits the lifetime of a message, a subscriber stays valid at every instant while the
  publisher sends, through bursts, phases and truncated times), `StNumCountsMessages`
  (as long as the application raises `stNum` with every message, `stNum` counts lost
  messages, on a circle that skips 0), `ListenerInStep` (every call of
  the listener sees the values and the time sent and a valid subscriber), `AllDelivered`
  (without loss every message is received).
- `pdu_codec`: `SizesExact` (the size computed first is the size written, but for bit
  strings of 127 and 255 octets, where the code is wrong), `HeaderInverts`, `LearnInverts`,
  `UpdateInverts` (a subscriber has what the publisher sent: header, learned data set,
  overwritten data set), `UpdateRefines` (same errors and same slots as `GooseDataSet`),
  `LayoutExact` (from `setupComplete` on the sizes computed are those written, the places
  kept for later writes lie apart in the payload, and the payload, with its tags, lengths,
  counters and elements, is the encoding of what the application has set, whatever it
  calls), `ListenerReadsAsSet` (an SV
  listener reads what was set last, times up to their rounding and `smpMod` excepted, which
  the run `smpmod_read` is about).
- `library_code`, containers: `HeapExact` (memory in use is what live containers reach), `ArenaBlocks`
  (aligned, inside, disjoint), `ImplementsSequences` (refinement of `SeqContainers` with
  the results of all calls; a map key stands for its first entry, sorting permutes).
- `library_code`, asn1c: `ChunkedInverts` (the value sent is decoded however it is cut),
  `FreeExact` (release at any moment gives back every block), `Reusable` (what was decoded
  passes its checks and encodes to DER, in a buffer that is large enough and in no
  other, again and again although encoding changes the structure).

Pure functions are checked by assumptions of the MC modules, over the inputs named there.
`MCPduCodec`: `IntegersSurvive`, `IdentifiersSurvive`, `BitStringsAreNumbers`,
`QualitiesSurvive`, `PositionsSurvive`, `ConstraintsSurvive`, `FlagsIndependent`,
`TimesSurvive`. `MCLibraryCode`: `CutConcatenation`, `PartsFound`, `DigitsSurvive`,
`NamesOrdered`, `AddressesExpanded`, `LeadingZerosRefused`, `GeneralizedTimesSurvive`.

### Behaviours of the code worth knowing

The models keep them; where a property touches one, it states it as an exception or a run
shows it violated.

- The application raises `stNum` with every message, in the stable phase and within bursts
  (`goose-publisher-app.cc:147` and `:180`), although its three values are set once and never
  change; `sqNum` is always 0. The library's headers mean `stNum` to grow on a change of a
  value and `sqNum` with a message without one (`goose_subscriber.h:203` and `:215-216`,
  `goose_publisher.h:160` and `:192`). The run `unchanged_state` shows it; that losses can be counted
  by `stNum` (`StNumCountsMessages`) is a consequence of it.
- `getParseError` is documented as the error of the last message
  (`goose_subscriber.h:148`), but the check after the loop of `parseAllData`
  (`goose_receiver.cc:361-363`) replaces whatever was wrong with an element that is there by `UNDERFLOW`, and
  learning a data set leaves the error of an older message in place.
- Only a message with the `stNum` of the last one is compared by its `sqNum`
  (`goose_receiver.cc:854`). If frames were reordered, a late message of an older state
  would make the subscriber valid; `FifoSpec` is about links that keep the order, as those
  of ns-3 do. After a restart of a publisher, a message is rejected if it has the `stNum` of the
  last message from before and no higher `sqNum`; that message still sets the
  subscriber's counters, so only the first one can be rejected for that reason.
- A bit string of 127 or 255 octets makes the GOOSE message one octet longer than its
  length says (`ber_encoder.cc:173`).
- A GOOSE publisher without VLAN tags is never received: `Ethernet_sendPacket` cuts 14
  octets off and the Ethertype with them (`HeaderInverts`).
- SV: `getSmpMod` reads the first octet of two and yields 0 for every mode that can be set
  (`smpmod_read`); `getRefrTmAsMs` can be one ms too low, since the fraction of a second is
  rounded down when it is written and when it is read; `smpRate`,
  `smpMod` and `enableRefrTm` set after `setupComplete` never reach the message, a refresh
  time set before it is lost; `setSmpSynch` before it writes through `NULL`; the check of
  the destination address (`sv_subscriber.cc:443`) looks at the VLAN tag, the Ethertype
  and the APPID; no check keeps a message below `SV_MAX_MESSAGE_SIZE`; the quality octet
  of the refresh time and elements nobody set are whatever the memory held.
- `sv-publisher-app.cc:82` hands the ASDUs a string that is out of scope when
  `setupComplete` reads it; no receiver looks at the name.
- An IPv6 address with fewer zeros in its `::` than blocks behind it is expanded wrongly,
  and one that begins with `::` is refused (`string_utilities.cc:612-629`).
- `LinkedList_get` with an index above 0 on an empty list dereferences `NULL`.
- `ByteBuffer_setSize` accepts a negative size (`byte_buffer.cc:103`); nothing in the
  repository calls it with one, and the model's calls are with sizes from 0 on.

Bounds, and why they are enough:

- `goose_publisher_app`: every configuration with `t1 =< t0` of the small sets `MCAttrs`
  names. Periods that do and do not divide each other, bursts of 0, 1, 3 and 5
  messages, event intervals shorter than, equal to and longer than `t0`, quotas of 2, 17
  and unlimited (`CountMod - 1 = 24`), and stops on and between timers. The quotas cover
  several bursts; `CounterMod = 7` lets `stNum` overflow.
- `goose_link`: one publisher, three frames, two states, two layouts, one restart, two
  frames in flight, and lists with a learning subscriber, one with a data set of the
  application, one that matches no frame, and observers. Three frames are the least
  with which a repeated frame can meet an old and a new state. The counters
  do not overflow within these bounds (`LinkAssumption` requires it).
- `sv_stream`: a second of 25 ns, 5 us of 5 ns each, a fraction of 8 steps: as in the code
  a microsecond is longer than the resolution and the resolution does not divide a
  second. `SmpCntLimit = 4` lets the counter wrap, the streams last several seconds, and
  delays of 0 and 7 ns are shorter and longer than the shortest interval; with `SecsMod = 6`
  the seconds do not overflow before a stream ends. Foreign frames are those of GOOSE and of
  other APPIDs. Three sampling
  rates, one of which is truncated; one and three samples per message; every
  combination of quota, start, stop, loss and foreign frames.
- `goose_stream`: lifetime of 6 units (3 ms of 2), stable periods of 4 and 9, so within and
  beyond it, delays of 1 and 3; no events, and bursts of one and two messages before and
  after a lifetime has passed; `CounterMod = 5` lets `stNum` wrap within the quota of
  `CountMod - 1 = 8`; receivers that start late or stop, publishers that stop; APPIDs that
  do and do not match.
- `pdu_codec`: `MCMessages` has every type, with the edges of each: signs, all lengths from
  one to eight octets, empty, short and long forms, unused bits, nested values, a payload
  over `MaxPayloadSize = 350` (1518 less the header in the code: the length form of two
  octets occurs below 350 too). Two values of `confRev` let a data set be learned twice.
  SV: up to two ASDUs and `MaxCalls = 5` calls: set up, change, set up again, publish and
  one more; `BufferSize = 240` holds two of them. GOOSE and SV share no state, so one side
  moves while the other rests (`PduCodec`). The view `Ahead` leaves out what no further
  action reads: the message behind a packet that has arrived, and what a listener was given.
- `smpmod_read`: the instance of `pdu_codec` with one ASDU.
- `unchanged_state`: the instance of `goose_stream` with a quota of three and no events, which
  is enough to see three messages of the stable phase.
- `library_code`, containers: six blocks, enough for a map of two entries or a list of three beside a map
  of one, two keys with the same text, an arena of eight units; arena and buffer share no
  memory with the heap and are exercised on their own (`HeapOnly`, `Alone`). The view
  `Both` leaves out `ret`, which no action reads. Containers and asn1c share no state, so one
  side moves while the other rests (`LibraryCode`).
- `library_code`, asn1c: for every type its smallest value and those that differ from it in one
  member, alternative or element (`MCDepth = 1`), pieces of one, three and all octets,
  buffers one octet too small, exact and larger. One member at a time is enough, since
  the decoder's place in a structure depends on one member at a time; all members
  together are in it as well.

`CHECK_DEADLOCK FALSE` is set everywhere but in `library_code`: a simulation ends when its
event list is empty, and a bounded exchange ends when all messages are spent.

Fairness: `FairSpec` of the two applications is weak fairness of `Next`, which is what
`Simulator::Run` does: it takes events as long as there are any. `FairStreamSpec` is the
same, written with the negation of `ENABLED` (`Idle`), which TLC evaluates faster.
`FairFifoSpec` assumes
only that time passes (`Tick`); neither sending nor delivery is fair.

## Proofs

`GooseStreamProofs`, first part, about the publisher application (from `CounterModAssumption` and `AttrsAssumption`: `t0`, `t1`
positive, the delays of a burst in `1 .. t0`): the inductive invariant `TimerInv`
strengthens `TypeOK`, `StoppedIsQuiet` and `OneSendChain` by three facts. `StartOnce`:
nothing happens before the start, and there is one. `NoOrphanTimer`: every pending timer
is named by a handle, which is why two `Cancel` calls are enough. `TimedChain`: the next
message is due within `t0` of the last one, and of two timers due at the same instant
the burst was scheduled first, so that it runs first and cancels the other one; without
this order the stable message would be sent at the same instant as the burst's. From it
follow `TypeCorrect`, `StopLeavesNoTimer`, `SingleChain`, `MessagesSpaced` and
`StatesFresh`. `BurstsComplete` adds that `eventCount` is one more than the messages of
the burst, and holds for bursts of at most 254 messages.

`GooseLinkProofs` (from `CounterModAssumption` and `LinkAssumption`): lemmas say what
`parseAllData`, `parseAllDataUnknownValue` and one frame (`ParsePayloadEffect`,
`MessageEffect`) do. `BaseInv`, the conjunction of `TypeOK`, `OwnershipExact` and
`ValidSnapshot`, is inductive for any order of delivery (`DataSetsOwned`,
`ValidDataIsOneMessage`, `LinkTypes`). `FifoInv` adds `FramesKnown` (every frame in
the network or remembered was sent, and publisher and identity determine it) and `Tracks`
(a subscriber that is not an observer holds the counters of the last frame
it processed, and no frame older than that can still arrive); they are needed to show that
an arrival that is not newer is the same frame again, so its counters are equal and the
subscriber marks it invalid. `RepeatsAreInvalid` follows: `ValidIsNewer` for any number
of publishers, subscribers, frames and restarts.

`FreshInv` adds what is needed to see a new message accepted in any order of arrival.
`Numbered`: the publisher has passed the numbers of every message of its boot, and of two
messages of one boot the later one has another state number or a higher sequence number,
so a newer one is in sequence. `Remembered`: a subscriber holds the numbers of the message
it processed last, and a data set of the receiver's own was learned from a message of the
layout it remembers (`LearnedFor`), so that `parseAllData` finds a slot of the right type
and size for every element. `NewMessagesAccepted` states `FreshAccepted` under
`FixedLayouts`, that the data sets of one `confRev` agree in types and in the sizes that are
learned. The hypothesis is needed: the run `learned_int64`, whose integers do not satisfy
it, violates the property. `MCGooseLink` states which data sets satisfy it (`Layouts`).

`SvStreamProofs` (from `StreamAssumption` and `UtcTimeAssumption`: an interval of at least
one microsecond, a resolution of time stamps below it, any delays): calls of `Measure` are
an interval apart, so sample `k` is taken at `k * Interval` and message `m` is a function
of `m` alone (`AsduOf`). `Chain` and `Buffer`: the one pending call is at the time of the
next sample, and the reused buffer holds message `sent + 1` up to `sampleIndex` and message
`sent` behind it. `Network`: an arrival carries a message that was sent, at most one arrival
carries it, and arrivals are in the order of the numbers, by time or by the identifier of
the event; this depends on `Transmit` scheduling a frame behind all others. `Idle` and
`Busy`: what the listener saw last is the end of a message, or a sample of the message it is
being called for, and everything on its way is newer. `OneMeasureChain`, `MessagesCoherent`,
`StreamTypes` follow. `SamplesAged` and `TimestampsOrdered` add the arithmetic of a time
stamp (`FractionRoundTrip`: encoding and decoding round down by at most the resolution);
`SamplesAccountedFor` the arithmetic of positions: sample numbers divided by the samples per
message.

`GooseStreamProofs`, second part (from the assumptions of the publisher application and
`StreamAssumption`): the state number of message `n` is its position on the circle
`1 .. CounterMod - 1` (`Published`), so a frame is known by its number and the time it was
sent, and a subscriber by the number of the message it took last (`Remembers`). `Network`:
frames are in order, sent, newer than that message and due within the delays. `Complete`: as
long as nothing was lost the network holds all later messages, sent at most `t0` apart.
`TimerInv` of the publisher application, which `GooseStream` keeps, gives the last bound.
From this `StateNumbersCount`, and `ListenerFollows` with the lemmas on the receiver and on
the round trip of a time in ms. `SubscriberStaysValid`: the last message arrived at least the
shortest delay after it was sent, the next one is sent within `t0` and arrives within the
longest delay, so the silence is at most `t0` and the difference of the delays.

`ContainersProofs` (from `HeapAssumption`, `SizesAssumption`, `NoneAssumption` and
`ContentsAssumption`: addresses are finitely many positive numbers, sizes are numbers, a
pointer has at least one octet; a container is not the absence of one; no element and no
value is `NULL`, which the calls return for none; strings are sequences of octets).
A chain (`Chain`, in `LinkedListProofs`) is the sequence of the cells of a list, head first:
no cell twice, each pointing to the next, the last one to `NULL`. `WalkOfChain`: following
the next pointers gives the chain, so it ends within the number of blocks in use.
`LinkedList_add`, `LinkedList_insertAfter`, `LinkedList_remove` and `StringUtils_sortList`
take a chain to the chain with a cell more, a cell less, or the same cells in another order
(`AddEffect`, `InsertEffect`, `RemoveEffect`, `SortEffect`); the operations of maps also
to their entries (`MapAddEffect`, `MapRemoveEffect`, `MapDeleteEffect`). `HeapInv`: the
list owns a chain; the map owns a chain, its object, and one entry for each cell behind the
head, all different (`OwnEntries`); the two parts are disjoint and make up the memory in
use. `HeapExact` alone is not inductive: that entries are different and are no cells is what
makes the `free` of an entry leave the rest alone. An operation that replaces what one
container owns (`Replaces`) leaves what the other owns (`ListReplaced`, `MapReplaced`).
`ArenaInv`: the position is a multiple of the pointer size, and the blocks given out end
before it. From these `TypeCorrect`, `NoLeakNoDangling` and `BlocksApart`. The walk and the
insertion sort are recursive functions; `ArithmeticLemmas` shows once that a recursive
function of the natural numbers exists (`Recursion`) and that a set that contains 0 and
successors contains all of them (`Induction`), from the well-foundedness of `<`.

`SequencesImplemented` (`Spec => ImplementsSequences`): the sequence a list stands for is
the data of its chain (`Held`, `DataIsHeld`), that of a map the pairs of its entries
(`PairsOf`), that of an arena the data of its cells, that of a buffer the first octets of
its memory. The lemmas on chains give the new sequence of each operation (`AddHolds`,
`InsertHolds`, `RemoveHolds`) and its result: the size is the length (`SizeOfHeld`), the
walk of `LinkedList_get` ends where the index says (`GetHolds`), `LinkedList_remove` and the
maps find the first occurrence (`FirstHit`, `FirstPair`), and `LinkedList_destroyDeep` hands
over everything, in order (`AllDeleted`). The insertion sort leaves the cells in order
(`SortedInOrder`, from `InsertedInOrder` for one turn of its loop, with the comparison a
total preorder by `StringsCompared`) and every datum as often as it was (`SortHolds`).
`ListRefines`, `MapRefines`, `ArenaRefines` and `BufferRefines` put these together, one
step of `SeqContainers` per action; `ListFrame` and `MapFrame` show that the container that
was not called stands for the same sequence, although both live on one heap. `Contents`
says of what kind the sequences are.

`SvLayoutProofs` (from `SvLayoutAssumption`: a buffer below 65535 octets, where
`SV_MAX_MESSAGE_SIZE` is 1518; elements of the size of their type; counters and limits of
16 bits, no limit of 0; less than a second of nanoseconds in a time) shows `LayoutExact` for every
buffer size, number of ASDUs, set of names, elements and times, and any number of calls. The
sizes first: every part of the encoding has as many octets as were computed for it, short
and long lengths included (`Piece`, `AsduIsPiece`, `PayloadOctets`), so an ASDU begins at a
sum of sizes (`Slots`), its fields at sums within it, and they lie apart (`FieldsApart`).
Counters change the encoding only in their own octets (`SameLayoutSameSize`,
`SameLayoutSamePlaces`). `LayoutExact` is not inductive: it does not say where the pointers
lead, and `SVPublisher_resetBuffer`, new elements and options set after a layout move places
while the old pointers stay. `LayoutInv` adds types, that each element lies behind the one
before and within its ASDU (`ElementsFit`), that an ASDU without a refresh time has no pointer
to one and any such pointer stays within the buffer (`TimePlaced`), and, once the layout is
complete, that the pointers name the places the sums give (`Placed`) and the buffer holds
each field (`Held`). Every setter writes one field of one ASDU and leaves the rest of the
buffer alone (`FieldCallSound`). `LayoutInvariant` and `LayoutIsExact` follow. A step of
`SvCodec` is a step of `SvLayout` or leaves its variables alone, so what `pdu_codec` checks of
`LayoutExact` on a small instance is what is proved here.

Model-checked only: the liveness properties (`AllSent`, `PhasesAlternate`,
`SilenceDetected`, `AllReceived`, `AllDelivered`), which need fairness; of the codecs
`SizesExact`, `HeaderInverts`, `LearnInverts`, `UpdateInverts`, `UpdateRefines`,
`ListenerReadsAsSet` and the properties of `Asn1Codec`, whose nested values and decoders
need recursive operators, which are out of the prover's reach.

## Not modelled

- Of asn1c: XML and PER, printing, `ANY`, extension markers, `SET_OF_encode_der`, and the
  check and encoder of `GeneralizedTime`, which go through the C library's clock.
- Failing allocations, but for a full heap in `Containers` and a full arena.
- Messages that no publisher of the library makes: the receivers are shown what publishers
  send, possibly of another type or layout, not arbitrary octets.
- The names of MMS variables (`MmsMapping_*`), local times in generalized times (`mktime`
  reads a field nobody set), printing, logging, files.
- The MMS and ACSI headers (`iec61850_client.h`, `iec61850_server.h`, ...): declarations
  of a client and a server whose code is not in the repository. They are a quarter of the
  lines and have nothing to model.
- Helpers, utilities and examples, which hold no protocol logic.
- Attribute values the applications do not validate (`T1 > T0`, more than eight or no
  samples per message, an interval truncated to 0), which the assumptions exclude.

## Plan

All that was planned for these modules is done. Worth adding one day: `ByteBuffer_wrap`, the
release of publishers and of MMS values, and asn1c's encoders other than DER.
