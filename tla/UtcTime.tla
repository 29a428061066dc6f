------------------------------ MODULE UtcTime ------------------------------
(***************************************************************************)
(* The time stamps of IEC 61850 (struct Timestamp of                       *)
(* model/libiec61850/src/iec61850/common/iec61850_common.cc): the seconds  *)
(* since the epoch in 32 bits and a binary fraction of a second in 24      *)
(* bits.  A time in nanoseconds is rounded down twice, when it is encoded  *)
(* and when it is decoded.                                                 *)
(***************************************************************************)
EXTENDS Naturals

CONSTANTS
    NsPerSec,       \* 10^9 in the code
    SecsMod,        \* 2^32 in the code
    FracMod         \* 2^24 in the code

ASSUME UtcTimeAssumption ==
    /\ NsPerSec \in Nat \ {0} /\ SecsMod \in Nat \ {0} /\ FracMod \in Nat \ {0}
    /\ FracMod =< NsPerSec

Timestamp == [secs : 0 .. SecsMod - 1, frac : 0 .. FracMod - 1]

\* The low bits of the fraction are not stored.
SetTimeCoarsely(ns) ==
    [secs |-> (ns \div NsPerSec) % SecsMod,
     frac |-> (((ns % NsPerSec) * FracMod) \div NsPerSec) \div 4]

Timestamp_setTimeInNanoseconds(ns) ==
    [secs |-> (ns \div NsPerSec) % SecsMod,
     frac |-> ((ns % NsPerSec) * FracMod) \div NsPerSec]

\* The fraction is not scaled back to nanoseconds.
GetTimeUnscaled(ts) == ts.secs * NsPerSec + ts.frac * NsPerSec

Timestamp_getTimeInNs(ts) ==
    ts.secs * NsPerSec + (ts.frac * NsPerSec) \div FracMod

\* What the two roundings can take away from a time: 60 nanoseconds in the code.
Resolution == NsPerSec \div FracMod + 1
=============================================================================
