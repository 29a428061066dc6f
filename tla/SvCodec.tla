------------------------------ MODULE SvCodec -------------------------------
(***************************************************************************)
(* The application of SvLayout publishes; a subscriber parses what arrives *)
(* and reads it with the functions of its API, octet by octet (SvPdu).     *)
(* SvStream has the two applications of this repository, with one layout   *)
(* and abstract samples.                                                   *)
(***************************************************************************)
EXTENDS SvPdu, SvLayout

VARIABLES
    svFrame,    \* the frame on its way, and what it should carry; <<>> if none
    svGot       \* the ASDUs the listener was called with

svVars == <<layoutVars, svFrame, svGot>>

AppId == 16384

Subscriber == [appId |-> AppId, ethAddr |-> <<1, 12, 205, 4, 0, 1>>]

\* SVReceiver_create and SVSubscriber_create keep no state but the list of
\* subscribers.
SvInit == LayoutInit /\ svFrame = <<>> /\ svGot = <<>>

\* SVPublisher_publish hands a copy of the buffer over.
SvPublish ==
    /\ svApp.ready /\ svFrame = <<>>
    /\ svFrame' = <<[octets |-> SVPublisher_frame(svPub, AppId), app |-> svApp,
                     asdus |-> svPub.asduList]>>
    /\ svGot' = <<>>
    /\ UNCHANGED layoutVars

\* SVReceiver_tick.
SvReceive ==
    /\ svFrame # <<>>
    /\ svGot' = parseSVMessage(Subscriber, FALSE, svFrame[1].octets)
    /\ svFrame' = <<>>
    /\ UNCHANGED layoutVars

SvNext ==
    \/ LayoutNext /\ UNCHANGED <<svFrame, svGot>>
    \/ SvPublish
    \/ SvReceive

SvSpec == SvInit /\ [][SvNext]_svVars

-----------------------------------------------------------------------------
\* A time loses less than a millisecond, or less than 60 ns, on its way.
RefrTmRead(a, t) ==
    CASE t = Unknown -> TRUE
      [] t.by = "ms" -> SVSubscriber_ASDU_getRefrTmAsMs(a) \in {t.time - 1, t.time}
      [] t.by = "ns" -> LET r == SVSubscriber_ASDU_getRefrTmAsNs(a)
                        IN  r.secs = t.time.secs /\ r.ns \in t.time.ns - 60 .. t.time.ns
      [] t.by = "timestamp" -> SVSubscriber_ASDU_getRefrTmAsNs(a) = Timestamp_getTimeInNs(t.time)

\* What the listener reads from ASDU a is what the application has set in the
\* publisher: asdu is the publisher's ASDU, laid the one at the last layout and
\* app what the application has set since.  smpRate and the presence of the
\* options are those of the layout; smpMod has SmpModReadAsSet to itself.
ReadsAsSet(a, asdu, laid, app) ==
    /\ SVSubscriber_ASDU_getSvId(a) = laid.svID
    /\ SVSubscriber_ASDU_hasDatSet(a) = (laid.datset # <<>>)
    /\ SVSubscriber_ASDU_getDatSet(a) = laid.datset
    /\ SVSubscriber_ASDU_getConfRev(a) = laid.confRev
    /\ SVSubscriber_ASDU_getSmpCnt(a) = asdu.smpCnt
    /\ SVSubscriber_ASDU_getSmpSynch(a) = asdu.smpSynch
    /\ SVSubscriber_ASDU_hasSmpRate(a) = laid.hasSmpRate
    /\ laid.hasSmpRate => SVSubscriber_ASDU_getSmpRate(a) = laid.smpRate
    /\ SVSubscriber_ASDU_hasSmpMod(a) = laid.hasSmpMod
    /\ SVSubscriber_ASDU_hasRefrTm(a) = laid.hasRefrTm
    /\ laid.hasRefrTm => RefrTmRead(a, app.refrTm)
    /\ SVSubscriber_ASDU_getDataSize(a) = laid.dataSize
    /\ \A k \in DOMAIN app.elements :
            LET e == app.elements[k]
            IN  /\ e.value # Unknown => SVSubscriber_ASDU_get(a, e.index, e.kind) = e.value
                /\ e.value # Unknown /\ e.kind = "INT32" =>
                        SVSubscriber_ASDU_get(a, e.index + 2, "INT16")
                        \o SVSubscriber_ASDU_get(a, e.index, "INT16") = e.value

\* The listener is called once for every ASDU of a message, in their order, and
\* reads from each what the application had set when it published, whatever it
\* has set in the publisher's only buffer since then.
ListenerReadsAsSet ==
    [][svFrame # <<>> /\ svFrame' = <<>> =>
        LET f == svFrame[1]
        IN  /\ Len(svGot') = Len(f.asdus)
            /\ \A j \in 1 .. Len(f.asdus) :
                    ReadsAsSet(svGot'[j], f.asdus[j], f.app.laid[j], f.app.asdus[j])]_svVars

\* "Return the SmpMod value included in the SV ASDU" (sv_subscriber.h,
\* SVSubscriber_ASDU_getSmpMod): the listener reads the one that was set.
SmpModReadAsSet ==
    [][svFrame # <<>> /\ svFrame' = <<>> =>
        \A j \in 1 .. Len(svGot') :
            SVSubscriber_ASDU_hasSmpMod(svGot'[j]) =>
                SVSubscriber_ASDU_getSmpMod(svGot'[j]) = svFrame[1].app.laid[j].smpMod]_svVars
=============================================================================
