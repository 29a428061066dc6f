--------------------------- MODULE MCGooseStream ---------------------------
(***************************************************************************)
(* Configurations of the GOOSE stream for TLC.                             *)
(***************************************************************************)
EXTENDS GooseStream

\* A stable period within and one beyond the lifetime of a message (6 units);
\* no bursts, bursts of one and of several messages that come before and after
\* the lifetime is over; messages beyond the overflow of the state number.
MCAttrs ==
    [t0 : {4, 9}, t1 : {1}, eventMessages : {1, 2}, eventInterval : {0, 6, 11},
     maxPackets : {0, 3}, stopTime : {0, 15}]

\* Receivers that start with the publisher or later, and stop or do not stop.
MCRxAttrs ==
    {[startTime |-> 0, stopTime |-> 0], [startTime |-> 5, stopTime |-> 0],
     [startTime |-> 0, stopTime |-> 13]}

\* No events at all: the stable phase repeats what it has sent.
MCStableAttrs ==
    {[t0 |-> 4, t1 |-> 1, eventMessages |-> 1, eventInterval |-> 0, maxPackets |-> 3,
      stopTime |-> 0]}
=============================================================================
