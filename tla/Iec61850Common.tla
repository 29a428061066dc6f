--------------------------- MODULE Iec61850Common ---------------------------
(***************************************************************************)
(* The data types that the parts of libiec61850 share (model/libiec61850/  *)
(* src/iec61850/common/iec61850_common.cc): qualities, double point        *)
(* positions, functional constraints, and time stamps as MMS values.       *)
(***************************************************************************)
EXTENDS MmsValue, TimeStamp

-----------------------------------------------------------------------------
\* A quality is a uint16_t: two bits of validity below the flags.
Quality_getValidity(q) == q % 4

Quality_setValidity(q, validity) == (q \div 4) * 4 + validity

Quality_isFlagSet(q, flag) == IsSet(q, flag)

Quality_setFlag(q, flag) == WithBit(q, flag, TRUE)

Quality_unsetFlag(q, flag) == WithBit(q, flag, FALSE)

\* As an MMS value it is a bit string of 13 bits.
Quality_fromMmsValue(v) == MmsValue_getBitStringAsInteger(v)

Quality_toMmsValue(q, v) ==
    MmsValue_setBitStringFromInteger(
        IF v = NullValue THEN MmsValue_newBitString(13) ELSE v, q)

Dbpos_fromMmsValue(v) == MmsValue_getBitStringAsIntegerBigEndian(v)

\* NullValue when the value that is to hold the position is not of two bits.
Dbpos_toMmsValue(v, dbpos) ==
    IF v # NullValue /\ ~(v.type = "bitstring" /\ v.max = 2) THEN NullValue
    ELSE MmsValue_setBitStringFromIntegerBigEndian(
            IF v = NullValue THEN MmsValue_newBitString(2) ELSE v, dbpos)

-----------------------------------------------------------------------------
\* Functional constraints have names of two letters.
FunctionalConstraint ==
    {"ST", "MX", "SP", "SV", "CF", "DC", "SG", "SE", "SR", "OR", "BL", "EX", "CO", "US",
     "MS", "RP", "BR", "LG", "GO"}

Letters == [fc \in FunctionalConstraint |->
    CASE fc = "ST" -> <<"S", "T">> [] fc = "MX" -> <<"M", "X">> [] fc = "SP" -> <<"S", "P">>
      [] fc = "SV" -> <<"S", "V">> [] fc = "CF" -> <<"C", "F">> [] fc = "DC" -> <<"D", "C">>
      [] fc = "SG" -> <<"S", "G">> [] fc = "SE" -> <<"S", "E">> [] fc = "SR" -> <<"S", "R">>
      [] fc = "OR" -> <<"O", "R">> [] fc = "BL" -> <<"B", "L">> [] fc = "EX" -> <<"E", "X">>
      [] fc = "CO" -> <<"C", "O">> [] fc = "US" -> <<"U", "S">> [] fc = "MS" -> <<"M", "S">>
      [] fc = "RP" -> <<"R", "P">> [] fc = "BR" -> <<"B", "R">> [] fc = "LG" -> <<"L", "G">>
      [] fc = "GO" -> <<"G", "O">>]

\* <<>> stands for NULL.
FunctionalConstraint_toString(fc) == IF fc \in FunctionalConstraint THEN Letters[fc] ELSE <<>>

\* The letters that may follow the first one.
Second ==
    [c \in {"S", "M", "C", "D", "O", "B", "E", "U", "R", "L", "G"} |->
        CASE c = "S" -> {"T", "P", "V", "G", "E", "R"} [] c = "M" -> {"X", "S"}
          [] c = "C" -> {"F", "O"} [] c = "D" -> {"C"} [] c = "O" -> {"R"}
          [] c = "B" -> {"L", "R"} [] c = "E" -> {"X"} [] c = "U" -> {"S"}
          [] c = "R" -> {"P"} [] c = "L" -> {"G"} [] c = "G" -> {"O"}]

\* Two letters are read, whatever follows them.
FunctionalConstraint_fromString(s) ==
    IF s[1] \in DOMAIN Second /\ s[2] \in Second[s[1]]
    THEN CHOOSE fc \in FunctionalConstraint : Letters[fc] = <<s[1], s[2]>>
    ELSE "NONE"

-----------------------------------------------------------------------------
\* Time stamps, see TimeStamp.
Timestamp_toMmsValue(ts) == Value("utctime", ts, 0)

\* When the value is not a time the one keeps the time stamp and the other
\* returns NULL, <<>> here.
Timestamp_setByMmsUtcTime(ts, v) == IF v.type = "utctime" THEN v.octets ELSE ts

Timestamp_fromMmsValue(v) == IF v.type = "utctime" THEN v.octets ELSE <<>>
=============================================================================
