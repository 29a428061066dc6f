---------------------------- MODULE SvPublisher ----------------------------
(***************************************************************************)
(* The sampled values publisher of libiec61850                             *)
(* (model/libiec61850/src/sampled_values/sv_publisher.cc).                 *)
(*                                                                         *)
(* A publisher is the list of the sample counters of its ASDUs and, once   *)
(* SVPublisher_setupComplete has laid the ASDUs out, one buffer with all   *)
(* of them.  The buffer is written in place and sent again and again: an   *)
(* ASDU that is not written before a publish goes out with the content of  *)
(* an earlier message.  val stands for the eight floats of a sample.       *)
(***************************************************************************)
EXTENDS UtcTime, Integers, Sequences

CONSTANTS
    SmpCntLimit,    \* smpCntLimit, UINT16_MAX (65535) in the code
    SvAppId         \* CONFIG_SV_DEFAULT_APPID, 0x4000 in the code

ASSUME SvPublisherAssumption ==
    /\ SmpCntLimit \in Nat /\ SmpCntLimit > 1
    /\ SvAppId \in Nat

SmpCnt == 0 .. SmpCntLimit - 1

\* The data of an ASDU that was never set: the buffer is not initialised.
Unset == -1

Asdu == [smpCnt : SmpCnt, val : Nat \cup {Unset}, ts : Timestamp]

SVPublisher == [asduList : Seq(SmpCnt), buffer : Seq(Asdu)]

SVPublisher_create == [asduList |-> <<>>, buffer |-> <<>>]

\* n calls of SVPublisher_addASDU.
SVPublisher_addASDUs(self, n) == [self EXCEPT !.asduList = @ \o [j \in 1 .. n |-> 0]]

SVPublisher_setupComplete(self) ==
    [self EXCEPT !.buffer =
        [j \in 1 .. Len(self.asduList) |->
            [smpCnt |-> self.asduList[j], val |-> Unset, ts |-> [secs |-> 0, frac |-> 0]]]]

SVPublisher_ASDU_setFLOAT(self, j, val) == [self EXCEPT !.buffer[j].val = val]

SVPublisher_ASDU_setTimestamp(self, j, ts) == [self EXCEPT !.buffer[j].ts = ts]

\* The counter is increased in the ASDU and, if the buffer exists, written to it.
SetSmpCnt(self, j, n) ==
    [asduList |-> [self.asduList EXCEPT ![j] = n],
     buffer |-> IF self.buffer = <<>> THEN <<>> ELSE [self.buffer EXCEPT ![j].smpCnt = n]]

\* The counter is reset when it has passed its limit.
IncreaseSmpCntLate(self, j) == SetSmpCnt(self, j, (self.asduList[j] + 1) % (SmpCntLimit + 1))

SVPublisher_ASDU_increaseSmpCnt(self, j) ==
    SetSmpCnt(self, j, (self.asduList[j] + 1) % SmpCntLimit)

\* A frame: the header that preparePacketBuffer writes, and the ASDUs.
Frame(etherType, appId, payload) ==
    [etherType |-> etherType, appId |-> appId, asdus |-> payload]

Frames == [etherType : {"sv", "goose"}, appId : Nat, asdus : Seq(Asdu)]

\* SVPublisher_publish hands the socket a copy of the buffer.
SVPublisher_publish(self) == Frame("sv", SvAppId, self.buffer)
=============================================================================
