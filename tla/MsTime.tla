------------------------------- MODULE MsTime -------------------------------
(***************************************************************************)
(* UTC times as MMS values hold them (setUtcTimeMs, MmsValue_setUtcTimeMs, *)
(* MmsValue_getUtcTimeInMs of mms_value.cc): four octets of seconds, three *)
(* of a binary fraction of a second and one of quality.  A time is the     *)
(* sequence of these eight octets.                                         *)
(***************************************************************************)
EXTENDS Integers, Sequences

\* The uint32_t seconds, below 2^31 here.
Seconds(n) == <<n \div 16777216, (n \div 65536) % 256, (n \div 256) % 256, n % 256>>

\* 2^24 / 1000 is 16777.216; the code adds the part behind the point apart.
Fraction(r) == r * 16777 + ((r * 216) \div 1000)

setUtcTimeMs(ms, quality) ==
    LET f == Fraction(ms % 1000)
    IN  Seconds(ms \div 1000) \o <<f \div 65536, (f \div 256) % 256, f % 256, quality>>

\* Ten bits of the fraction are accurate.
MmsValue_setUtcTimeMs(ms) == setUtcTimeMs(ms, 10)

\* The fraction and the quality stay.
MmsValue_setUtcTime(o, secs) == Seconds(secs) \o SubSeq(o, 5, 8)

SecondsOf(o) == o[1] * 16777216 + o[2] * 65536 + o[3] * 256 + o[4]

FractionOf(o) == o[5] * 65536 + o[6] * 256 + o[7]

\* Dividing by the rounded factor loses a millisecond.
UtcTimeInMsRounded(o) == SecondsOf(o) * 1000 + FractionOf(o) \div 16778

MmsValue_getUtcTimeInMs(o) == SecondsOf(o) * 1000 + FractionOf(o) \div 16777
=============================================================================
