---------------------------- MODULE SeqContainers -----------------------------
(***************************************************************************)
(* What the containers of libiec61850 promise, with no heap: a list is a   *)
(* sequence, a map a sequence of pairs in the order they were added in     *)
(* which a key stands for its first pair, a list in an arena is a sequence *)
(* that may refuse to grow, and a byte buffer is a sequence of bounded     *)
(* length. ret is what the last call returned or handed to free.           *)
(***************************************************************************)
EXTENDS Integers, Sequences, SequencesExt

CONSTANTS Data, Keys, Values, Octets, Indexes, MaxSize, Text(_), Fault, None,
          Order(_, _)      \* negative if the first datum comes before the second

VARIABLES list, map, arena, buffer, ret

vars == <<list, map, arena, buffer, ret>>

Init == list = None /\ map = None /\ arena = None /\ buffer = None /\ ret = <<"none">>

-----------------------------------------------------------------------------
(* The list. *)
ListCreate == ret' = <<"created">> /\ list = None /\ list' = << >>

ListAdd == ret' = <<"void">> /\ list # None /\ \E d \in Data : list' = Append(list, d)

ListInsertAfter ==
    /\ list # None
    /\ \E d \in Data :
          ret' = <<"data", d>> /\ list' \in {InsertAt(list, i + 1, d) : i \in 0 .. Len(list)}

ListRemove ==
    /\ list # None
    /\ \E d \in Data : ret' = <<"bool", Contains(list, d)>> /\ list' = RemoveFirst(list, d)

ListContains ==
    /\ list # None
    /\ \E d \in Data : ret' = <<"bool", Contains(list, d)>>
    /\ list' = list

ListSize == list # None /\ ret' = <<"size", Len(list)>> /\ list' = list

ListGet ==
    /\ list # None
    /\ \E i \in Indexes :
          ret' = IF list = << >> /\ i > 0 THEN <<"fault">>
                 ELSE IF Max({i, 0}) < Len(list)
                      THEN <<"data", list[Max({i, 0}) + 1]>> ELSE <<"NULL">>
    /\ list' = list

(* Sorting keeps what the list holds, as often as it holds it. *)
Count(s, d) == Cardinality({i \in 1 .. Len(s) : s[i] = d})

Rearranged(s, t) == \A d \in Data : Count(t, d) = Count(s, d)

Ordered(s) == \A i \in 1 .. Len(s) - 1 : Order(s[i + 1], s[i]) >= 0

ListSort ==
    /\ ret' = <<"void">> /\ list # None
    /\ list' \in {s \in [1 .. Len(list) -> Data] : Rearranged(list, s) /\ Ordered(s)}

ListDestroy == list # None /\ list' = None /\ ret' \in {<<"freed", list>>, <<"void">>}

ListStep ==
    \/ ListCreate \/ ListAdd \/ ListInsertAfter \/ ListRemove \/ ListContains
    \/ ListSize \/ ListGet \/ ListSort \/ ListDestroy

-----------------------------------------------------------------------------
(* The map: pairs <<key, value>>. byText says which comparison the map uses. *)
SameKey(k, j) == IF map.byText THEN Text(k) = Text(j) ELSE k = j

Position(k) == SelectInSeq(map.pairs, LAMBDA pair : SameKey(k, pair[1]))

ValueOf(k) == IF Position(k) = 0 THEN <<"NULL">> ELSE <<"value", map.pairs[Position(k)][2]>>

MapCreate ==
    /\ ret' = <<"created">> /\ map = None
    /\ \E b \in BOOLEAN : map' = [byText |-> b, pairs |-> << >>]

MapAddEntry ==
    /\ map # None
    /\ \E k \in Keys, v \in Values :
          /\ ret' = <<"key", k>>
          /\ map' = [byText |-> map.byText, pairs |-> Append(map.pairs, <<k, v>>)]

MapRemoveEntry ==
    /\ map # None
    /\ \E k \in Keys, deleteKey \in BOOLEAN :
          \/ Position(k) = 0 /\ ret' = ValueOf(k) /\ map' = map
          \/ /\ Position(k) # 0
             /\ ret' = ValueOf(k) \o (IF deleteKey THEN <<map.pairs[Position(k)][1]>> ELSE << >>)
             /\ map' = [byText |-> map.byText, pairs |-> RemoveAt(map.pairs, Position(k))]

MapGetEntry == map # None /\ (\E k \in Keys : ret' = ValueOf(k)) /\ map' = map

MapSize == map # None /\ ret' = <<"size", Len(map.pairs)>> /\ map' = map

(* What is given up with the map: keys, values, both or none, in order. *)
MapDelete ==
    /\ map # None /\ map' = None
    /\ \E deleteKey, deleteValues \in BOOLEAN :
          ret' = <<"freed",
                   [i \in 1 .. Len(map.pairs) |->
                       (IF deleteKey THEN <<map.pairs[i][1]>> ELSE << >>)
                       \o (IF deleteValues THEN <<map.pairs[i][2]>> ELSE << >>)]>>

MapStep ==
    \/ MapCreate \/ MapAddEntry \/ MapRemoveEntry \/ MapGetEntry \/ MapSize
    \/ MapDelete

-----------------------------------------------------------------------------
(* The list in an arena: an addition is made or refused, and a block that
   something else takes from the arena never disturbs it. *)
ArenaCreate == arena = None /\ arena' = << >> /\ ret' = <<"created">>

ArenaAdd ==
    /\ arena # None
    /\ \E d \in Data : \/ arena' = Append(arena, d) /\ ret' = <<"data", d>>
                       \/ arena' = arena /\ ret' = <<"NULL">>

ArenaAllocate == arena # None /\ arena' = arena /\ ret' \in {<<"block">>, <<"NULL">>}

ArenaStep == ArenaCreate \/ ArenaAdd \/ ArenaAllocate

-----------------------------------------------------------------------------
(* The byte buffer: octets are appended whole or not at all. *)
BufferCreate == buffer = None /\ buffer' = << >> /\ ret' = <<"created">>

BufferAppend ==
    /\ buffer # None
    /\ \E octets \in {<<o>> : o \in Octets} \union (Octets \X Octets) :
          \/ /\ Len(buffer) + Len(octets) =< MaxSize
             /\ buffer' = buffer \o octets /\ ret' = <<"size", Len(octets)>>
          \/ /\ Len(buffer) + Len(octets) > MaxSize
             /\ buffer' = buffer /\ ret' \in {<<"size", 0>>, <<"size", -1>>}

BufferSetSize ==
    /\ buffer # None
    /\ \E n \in 0 .. MaxSize :
          /\ buffer' \in [1 .. n -> Octets]
          /\ \A i \in 1 .. n : i =< Len(buffer) => buffer'[i] = buffer[i]
          /\ ret' = <<"size", n>>

BufferDestroy == buffer # None /\ buffer' = None /\ ret' = <<"void">>

BufferStep == BufferCreate \/ BufferAppend \/ BufferSetSize \/ BufferDestroy

Next ==
    \/ UNCHANGED <<map, arena, buffer>> /\ ListStep
    \/ UNCHANGED <<list, arena, buffer>> /\ MapStep
    \/ UNCHANGED <<list, map, buffer>> /\ ArenaStep
    \/ UNCHANGED <<list, map, arena>> /\ BufferStep

Spec == Init /\ [][Next]_vars
=============================================================================
