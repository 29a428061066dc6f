----------------------------- MODULE MCSvStream -----------------------------
(***************************************************************************)
(* Configurations of the stream of sampled values for TLC.                 *)
(***************************************************************************)
EXTENDS SvStream

Other(etherType, appId) ==
    Frame(etherType, appId, <<[smpCnt |-> 3, val |-> 2, ts |-> [secs |-> 0, frac |-> 1]]>>)

\* Messages of one and of several samples, three sampling rates, one of which
\* does not divide a second, enough messages for smpCnt to wrap and for time
\* stamps to pass a second, finite and unlimited quotas, every start and stop
\* before, on and between timers, with and without loss, and frames of other
\* senders: GOOSE and another APPID.
MCAttrs ==
    [frequency : {1}, samplesPerCycle : {1, 2, 5}, samplesPerMessage : {1, 3},
     maxPackets : {0, 3}, stopTime : {0, 33, 50}, subscriberStart : {0, 12},
     subscriberStop : {0, 60}, lossy : BOOLEAN,
     noise : {{}, {Other("goose", SvAppId)}, {Other("sv", SvAppId + 1)}}]
=============================================================================
