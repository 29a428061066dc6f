------------------------ MODULE MCGoosePublisherApp ------------------------
(***************************************************************************)
(* Configurations of the GOOSE publisher application for TLC.              *)
(***************************************************************************)
EXTENDS GoosePublisherApp

\* Stable and burst periods that divide each other or not, bursts of no, one and
\* several messages, burst intervals shorter than, equal to and longer than t0,
\* finite and unlimited quotas, stops before, on and between timers.
MCAttrs ==
    {a \in [t0 : {1, 8, 20}, t1 : {1, 3}, eventMessages : {0, 1, 3, 5},
            eventInterval : {0, 5, 20, 40}, maxPackets : {0, 2, 17},
            stopTime : {0, 20, 43}] :
        a.t1 =< a.t0}

\* The longest burst that the attribute EventMessages can ask for.
MCLongestBurst ==
    {[t0 |-> 1, t1 |-> 1, eventMessages |-> 255, eventInterval |-> 5, maxPackets |-> 0,
      stopTime |-> 0]}
=============================================================================
