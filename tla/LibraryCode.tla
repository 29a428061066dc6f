----------------------------- MODULE LibraryCode ------------------------------
(***************************************************************************)
(* The two parts of the library that the applications do not call          *)
(* themselves: the containers (Containers) and the run-time code of asn1c  *)
(* (Asn1Codec), whose structures are not on the heap of Containers.        *)
(*                                                                         *)
(* Neither calls the other or changes what it keeps, so each is looked at  *)
(* while the other one is at rest: nothing would be seen in an             *)
(* interleaving of the two that is not seen here.                          *)
(***************************************************************************)
EXTENDS Containers, Asn1Codec

LibraryInit == Init /\ CodecInit

CodecAtRest == code = "idle" /\ UNCHANGED codecVars

ContainersStep ==
    \/ ListNext /\ UNCHANGED <<map, arena, buffer>> /\ CodecAtRest
    \/ MapNext /\ UNCHANGED <<list, arena, buffer>> /\ CodecAtRest
    \/ ArenaNext /\ UNCHANGED <<mem, list, map, buffer>> /\ CodecAtRest
    \/ BufferNext /\ UNCHANGED <<mem, list, map, arena>> /\ CodecAtRest

CodecStep == Alone /\ CodecNext /\ UNCHANGED vars

LibraryNext == ContainersStep \/ CodecStep

LibrarySpec == LibraryInit /\ [][LibraryNext]_<<vars, codecVars>>
=============================================================================
