------------------------------ MODULE PduCodec ------------------------------
(***************************************************************************)
(* The two protocols of libiec61850 in one specification: GOOSE messages   *)
(* (MmsCodec) and sampled values (SvCodec), on top of the same encoding    *)
(* rules and MMS values.                                                   *)
(*                                                                         *)
(* Neither has state or code of its own that the other one changes, so a   *)
(* behaviour of one is looked at with the other one at rest: nothing would *)
(* be seen in an interleaving of the two that is not seen here.            *)
(***************************************************************************)
EXTENDS MmsCodec, SvCodec

BothInit == Init /\ SvInit

GooseStep == svCalls = 0 /\ Next /\ UNCHANGED svVars

SvStep == header = NoHeader /\ confRev = 1 /\ SvNext /\ UNCHANGED vars

BothNext == GooseStep \/ SvStep

BothSpec == BothInit /\ [][BothNext]_<<vars, svVars>>
=============================================================================
