----------------------------- MODULE TimeStamp ------------------------------
(***************************************************************************)
(* Time stamps octet by octet (model/libiec61850/src/iec61850/common/      *)
(* iec61850_common.cc).  UtcTime has them as numbers.                      *)
(***************************************************************************)
EXTENDS BerEncoder, MsTime

IsSet(n, bit) == (n \div bit) % 2 = 1

WithBit(n, bit, set) == IF set = IsSet(n, bit) THEN n ELSE IF set THEN n + bit ELSE n - bit

-----------------------------------------------------------------------------
\* Time stamps: eight octets.
Timestamp_create == Zeros(8)

Timestamp_createFromByteArray(octets) == SubSeq(octets, 1, 8)

\* The last octet: three flags and the number of valid bits of the fraction.
Timestamp_clearFlags(ts) == [ts EXCEPT ![8] = 0]

Timestamp_isLeapSecondKnown(ts) == IsSet(ts[8], 128)

Timestamp_setLeapSecondKnown(ts, b) == [ts EXCEPT ![8] = WithBit(@, 128, b)]

Timestamp_hasClockFailure(ts) == IsSet(ts[8], 64)

Timestamp_setClockFailure(ts, b) == [ts EXCEPT ![8] = WithBit(@, 64, b)]

Timestamp_isClockNotSynchronized(ts) == IsSet(ts[8], 32)

Timestamp_setClockNotSynchronized(ts, b) == [ts EXCEPT ![8] = WithBit(@, 32, b)]

Timestamp_getSubsecondPrecision(ts) == ts[8] % 32

Timestamp_setSubsecondPrecision(ts, bits) == [ts EXCEPT ![8] = (@ \div 32) * 32 + (bits % 32)]

\* The times themselves; none of the functions touches the last octet.
FractionOctets(f) == <<f \div 65536, (f \div 256) % 256, f % 256>>

Timestamp_setTimeInSeconds(ts, secs) == Seconds(secs) \o Zeros(3) \o <<ts[8]>>

Timestamp_setTimeInMilliseconds(ts, ms) ==
    Seconds(ms \div 1000) \o FractionOctets(Fraction(ms % 1000)) \o <<ts[8]>>

\* (ns * 2^24) / 10^9 and (f * 10^9) / 2^24, rounded down, bit by bit: neither
\* product fits the integers of TLC.
FractionOfNs(ns) ==
    LET bits[k \in 0 .. 24] ==
            IF k = 0 THEN [f |-> 0, rest |-> ns]
            ELSE LET r == bits[k - 1]
                 IN  [f    |-> 2 * r.f + (2 * r.rest) \div 1000000000,
                      rest |-> (2 * r.rest) % 1000000000]
    IN  bits[24].f

NsOfFraction(f) ==
    LET bits[k \in 0 .. 24] ==
            IF k = 0 THEN [ns |-> 0, rest |-> f]
            ELSE LET r == bits[k - 1]
                 IN  [ns   |-> (r.ns + (r.rest % 2) * 1000000000) \div 2,
                      rest |-> r.rest \div 2]
    IN  bits[24].ns

\* A time in nanoseconds is [secs, ns].
Timestamp_setTimeInNanoseconds(ts, t) ==
    Seconds(t.secs) \o FractionOctets(FractionOfNs(t.ns)) \o <<ts[8]>>

Timestamp_getTimeInSeconds(ts) == SecondsOf(ts)

Timestamp_getTimeInMs(ts) == SecondsOf(ts) * 1000 + FractionOf(ts) \div 16777

Timestamp_getTimeInNs(ts) ==
    [secs |-> SecondsOf(ts), ns |-> NsOfFraction(FractionOf(ts))]
=============================================================================
