----------------------------- MODULE StringUtils -----------------------------
(***************************************************************************)
(* string_utilities.cc and conversions.cc of libiec61850: strings in       *)
(* buffers of a given size, numbers in decimal and hexadecimal digits, the *)
(* order of names, IPv6 addresses and generalized times.                   *)
(*                                                                         *)
(* A string is the sequence of its octets without the 0 that ends it.      *)
(***************************************************************************)
EXTENDS Integers, Sequences, SequencesExt, FiniteSetsExt

Failed == -1

Upto(s, n) == SubSeq(s, 1, Min({n, Len(s)}))

StringUtils_copySubString(s, startPos, endPos) == SubSeq(s, startPos + 1, endPos)

\* The octets of a buffer, read as a string: up to the first 0.
StringUtils_createStringFromBuffer(buf, size) ==
    LET zeros == {i \in 1 .. size : buf[i] = 0}
    IN  SubSeq(buf, 1, IF zeros = {} THEN size ELSE Min(zeros) - 1)

\* What does not fit is cut off, and the last octet is always the 0.
StringUtils_appendString(dest, maxBufferSize, str) ==
    IF maxBufferSize = 0 THEN dest ELSE Upto(dest \o str, maxBufferSize - 1)

StringUtils_createStringInBuffer(bufSize, strs) ==
    FoldLeft(LAMBDA dest, str : StringUtils_appendString(dest, bufSize, str), <<>>, strs)

StringUtils_createString(strs) == FlattenSeq(strs)

StringUtils_concatString(maxBufferSize, str1, str2) == Upto(str1 \o str2, maxBufferSize - 1)

StringUtils_copyStringMax(maxBufferSize, str1) == Upto(str1, maxBufferSize - 1)

StringUtils_replace(s, oldChar, newChar) ==
    [i \in DOMAIN s |-> IF s[i] = oldChar THEN newChar ELSE s[i]]

StringUtils_startsWith(s, prefix) == IsPrefix(prefix, s)

StringUtils_endsWith(s, suffix) == IsSuffix(suffix, s)

-----------------------------------------------------------------------------
\* Digits.
StringUtils_isDigit(c) == c \in 48 .. 57

StringUtils_digitToInt(c) == IF StringUtils_isDigit(c) THEN c - 48 ELSE Failed

StringUtils_digitsToInt(s, count) ==
    FoldLeft(LAMBDA value, c :
                IF value = Failed \/ ~StringUtils_isDigit(c) THEN Failed
                ELSE value * 10 + StringUtils_digitToInt(c),
             0, SubSeq(s, 1, count))

\* n has at most that many digits.
Conversions_intToStringBuffer(n, numberOfDigits) ==
    [i \in 1 .. numberOfDigits |-> 48 + ((n \div 10 ^ (numberOfDigits - i)) % 10)]

toInt(c) ==
    CASE c \in 48 .. 57 -> c - 48 [] c \in 65 .. 70 -> c - 55 [] c \in 97 .. 102 -> c - 87
      [] OTHER -> Failed

\* <<>> stands for the result -1, and for the empty string's 0.
StringUtils_createBufferFromHexString(hex) ==
    IF Len(hex) % 2 # 0 \/ \E i \in DOMAIN hex : toInt(hex[i]) = Failed THEN <<>>
    ELSE [i \in 1 .. Len(hex) \div 2 |-> toInt(hex[2 * i - 1]) * 16 + toInt(hex[2 * i])]

convertHexStrToUint16(hex) ==
    IF Len(hex) > 4 THEN Failed
    ELSE FoldLeft(LAMBDA val, c : IF val = Failed \/ toInt(c) = Failed THEN Failed
                                  ELSE val * 16 + toInt(c), 0, hex)

-----------------------------------------------------------------------------
\* The order of names: A, a, B, b, ..., then "$", "_" and the digits; every other
\* character is in front of them.  A char is signed.
CharOrder ==
    FlattenSeq([i \in 1 .. 26 |-> <<64 + i, 96 + i>>]) \o <<36, 95>> \o [i \in 1 .. 10 |-> 47 + i]

Others == SelectSeq([c \in 1 .. 127 |-> c], LAMBDA c : c \notin ToSet(CharOrder))

Weights == [c \in 1 .. 127 |-> SelectInSeq(Others \o CharOrder, LAMBDA o : o = c)]

getCharWeight(c) == IF c > 127 THEN c - 256 ELSE IF c = 0 THEN 0 ELSE Weights[c]

StringUtils_compareChars(a, b) == getCharWeight(a) - getCharWeight(b)

\* Equal strings are ordered by their addresses p and q.
StringUtils_compareStrings(a, p, b, q) ==
    LET x == Append(a, 0)
        y == Append(b, 0)
        differ == {i \in 1 .. Min({Len(x), Len(y)}) : x[i] # y[i]}
    IN  IF differ = {} THEN q - p
        ELSE StringUtils_compareChars(x[Min(differ)], y[Min(differ)])

-----------------------------------------------------------------------------
\* IPv6 addresses.  The tokens between the colons of an address; the one behind
\* a colon at the end is not looked at.
Tokens(s) ==
    LET cut == FoldLeft(LAMBDA a, c :
                           IF c = 58 THEN [tokens |-> Append(a.tokens, a.token), token |-> <<>>]
                           ELSE [a EXCEPT !.token = Append(@, c)],
                        [tokens |-> <<>>, token |-> <<>>], s)
    IN  IF cut.token = <<>> THEN cut.tokens ELSE Append(cut.tokens, cut.token)

\* The blocks read from the tokens, and behind how many the empty one was found;
\* nothing is read behind the eighth block or after a token that is refused.
ReadToken(r, token) ==
    LET val == convertHexStrToUint16(token)
    IN  CASE ~r.ok \/ Len(r.blocks) = 8 -> r
          [] r.ok /\ Len(r.blocks) < 8 /\ token = <<>> ->
                [r EXCEPT !.ok = r.empty = Failed, !.empty = Len(r.blocks)]
          [] OTHER -> IF val = Failed THEN [r EXCEPT !.ok = FALSE]
                      ELSE [r EXCEPT !.blocks = Append(@, val)]

BlocksOf(tokens) ==
    FoldLeft(ReadToken, [ok |-> TRUE, blocks |-> <<>>, empty |-> Failed], tokens)

\* The blocks behind the empty one are moved to the end one by one, the first of
\* them first, and a 0 is left where each was.
Shift(blocks, empty) ==
    LET shift == 8 - Len(blocks)
        filled == blocks \o [i \in 1 .. shift |-> 0]
    IN  FoldLeft(LAMBDA a, s : [a EXCEPT ![s + shift] = a[s], ![s] = 0],
                 filled, [i \in 1 .. Len(blocks) - empty |-> empty + i])

\* Eight blocks; <<>> if the string is refused.
StringUtils_convertIPv6AddressStringToByteArray(s) ==
    LET read == IF 58 \in ToSet(s) THEN BlocksOf(Tokens(s))
                ELSE [ok |-> FALSE, blocks |-> <<>>, empty |-> Failed]
        blocks == IF read.empty = Failed THEN read.blocks ELSE Shift(read.blocks, read.empty)
    IN  IF ~read.ok \/ Len(blocks) # 8 THEN <<>> ELSE blocks

-----------------------------------------------------------------------------
\* Generalized times.  A time is [secs, ms] since 1970, the milliseconds below
\* 1000; a broken-down time is [year, month, day, hour, min, sec].  timegm is the
\* one the repository has for platforms without it.
days_from_civil(year, m, d) ==
    LET y == IF m =< 2 THEN year - 1 ELSE year
        era == y \div 400
        yoe == y - era * 400
        doy == (153 * (m + (IF m > 2 THEN -3 ELSE 9)) + 2) \div 5 + d - 1
    IN  era * 146097 + yoe * 365 + yoe \div 4 - yoe \div 100 + doy - 719468

timegm(t) ==
    60 * (60 * (24 * days_from_civil(t.year, t.month, t.day) + t.hour) + t.min) + t.sec

\* The C library's gmtime_r.
gmtime_r(secs) ==
    LET days == secs \div 86400
        year == Max({y \in 1970 .. 2038 : days_from_civil(y, 1, 1) =< days})
        month == Max({m \in 1 .. 12 : days_from_civil(year, m, 1) =< days})
    IN  [year |-> year, month |-> month, day |-> 1 + days - days_from_civil(year, month, 1),
         hour |-> (secs \div 3600) % 24, min |-> (secs \div 60) % 60, sec |-> secs % 60]

Conversions_msTimeToGeneralizedTime(t) ==
    LET tm == gmtime_r(t.secs)
        two(n) == Conversions_intToStringBuffer(n, 2)
    IN  Conversions_intToStringBuffer(tm.year, 4) \o two(tm.month) \o two(tm.day)
        \o two(tm.hour) \o two(tm.min) \o two(tm.sec)
        \o <<46>> \o Conversions_intToStringBuffer(t.ms, 3) \o <<90>>

\* -1 when there is no digit where one is expected; it is then taken for an offset.
getSecondsOffset(s) ==
    LET hour == StringUtils_digitsToInt(s, 2)
        min == StringUtils_digitsToInt(Tail(Tail(s)), 2)
    IN  IF hour = Failed \/ min = Failed THEN -1 ELSE hour * 3600 + min * 60

\* The digits at the start of s.
Digits(s) == Upto(s, Min({i \in 1 .. Len(s) : ~StringUtils_isDigit(s[i])} \cup {Len(s) + 1}) - 1)

NoTime == [secs |-> Failed, ms |-> 0]

\* Times with "Z" or an offset.  A time without either is local time, for which
\* mktime reads a tm_isdst that nobody has set: it is left out.
Conversions_generalizedTimeToMsTime(s) ==
    LET number(from, n) == StringUtils_digitsToInt(SubSeq(s, from, from + n - 1), n)
        fields == [year |-> number(1, 4), month |-> number(5, 2), day |-> number(7, 2),
                   hour |-> number(9, 2), min |-> number(11, 2), sec |-> number(13, 2)]
        fraction == IF Len(s) > 14 /\ s[15] = 46 THEN Digits(SubSeq(s, 16, Len(s))) ELSE <<>>
        ms == IF fraction = <<>> THEN 0
              ELSE (StringUtils_digitsToInt(fraction, Len(fraction)) * 1000) \div 10 ^ Len(fraction)
        rest == SubSeq(s, IF Len(s) > 14 /\ s[15] = 46 THEN 16 + Len(fraction) ELSE 15, Len(s))
    IN  IF Len(s) < 14 \/ \E f \in DOMAIN fields : fields[f] = Failed THEN NoTime
        ELSE CASE rest[1] = 90 -> [secs |-> timegm(fields), ms |-> ms]
               [] rest[1] = 43 -> [secs |-> timegm(fields) - getSecondsOffset(Tail(rest)), ms |-> ms]
               [] rest[1] = 45 -> [secs |-> timegm(fields) + getSecondsOffset(Tail(rest)), ms |-> ms]
               [] OTHER -> NoTime
=============================================================================
