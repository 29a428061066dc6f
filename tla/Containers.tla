------------------------------ MODULE Containers ------------------------------
(***************************************************************************)
(* The containers of libiec61850 at work: a linked list and a map whose    *)
(* cells come from one heap, so that what one frees the other reuses, a    *)
(* list whose cells come from an arena (simple_allocator), and a byte      *)
(* buffer. One action per function.                                        *)
(***************************************************************************)
EXTENDS LinkedList

CONSTANTS Data, Keys, Values,   \* what the list and the map hold
          Octets, MaxSize,      \* of the byte buffer
          Indexes,              \* the indexes LinkedList_get is called with
          PointerSize,          \* the alignment of the arena's blocks
          ArenaSize,            \* octets of the arena
          BlockSizes,           \* the sizes other users take from it
          MaxLength,            \* of the list (a bound)
          None                  \* no such container

ASSUME SizesAssumption ==
    /\ PointerSize \in Nat \ {0} /\ ArenaSize \in Nat /\ BlockSizes \subseteq Nat
    /\ MaxSize \in Nat /\ 0 \in Octets

(* A container is not the absence of one. *)
ASSUME NoneAssumption ==
    /\ None \notin Heap /\ None \notin Seq(Data) /\ None \notin Seq(Octets)
    /\ None \notin [byText : BOOLEAN, pairs : Seq(Keys \X Values)]
    /\ None \notin [pos : Nat, cells : Seq([data : Data \union {NULL}, next : Nat]),
                    blocks : SUBSET (Nat \X Nat)]
    /\ None \notin [octets : [1 .. MaxSize -> Octets], size : Nat]

(* NULL as a result says that there is no such element or entry, so that none
   is NULL itself; what a list is sorted by are strings of chars at addresses. *)
ASSUME ContentsAssumption ==
    /\ NULL \notin Data /\ NULL \notin Values /\ Fault \notin Heap \union {NULL}
    /\ Data \subseteq Int /\ \A d \in Data : Text(d) \in Seq(0 .. 255)
    /\ Indexes \subseteq Int

VARIABLES mem,      \* the heap
          list,     \* the head of the list, or None
          map,      \* the map object, or None
          arena,    \* [pos, cells, blocks], or None
          buffer,   \* [octets, size], or None
          ret       \* what the last call returned or handed to free

vars == <<mem, list, map, arena, buffer, ret>>

(* A bound: the arena and the buffer share no memory with the heap, so that
   they are exercised on their own, the list and the map together. *)
HeapOnly == arena = None /\ buffer = None
Alone == list = None /\ map = None /\ arena = None /\ buffer = None

Init ==
    /\ mem = << >>
    /\ list = None /\ map = None /\ arena = None /\ buffer = None
    /\ ret = <<"none">>

-----------------------------------------------------------------------------
(* The list. *)
ListCreate ==
    /\ list = None /\ HeapOnly /\ HasRoom(mem, 1)
    /\ mem' = LinkedList_create(mem).mem
    /\ list' = LinkedList_create(mem).ret
    /\ ret' = <<"created">>

ListAdd ==
    /\ list # None /\ HasRoom(mem, 1) /\ LinkedList_size(mem, list) < MaxLength
    /\ \E d \in Data : mem' = LinkedList_add(mem, list, d)
    /\ ret' = <<"void">>
    /\ UNCHANGED list

ListInsertAfter ==
    /\ list # None /\ HasRoom(mem, 1) /\ LinkedList_size(mem, list) < MaxLength
    /\ \E d \in Data, element \in {list} \union ToSet(Elements(mem, list)) :
          /\ mem' = LinkedList_insertAfter(mem, element, d)
          /\ ret' = <<"data", d>>
    /\ UNCHANGED list

ListRemove ==
    /\ list # None
    /\ \E d \in Data :
          LET removed == LinkedList_remove(mem, list, d)
          IN  mem' = removed.mem /\ ret' = <<"bool", removed.ret>>
    /\ UNCHANGED list

ListContains ==
    /\ list # None
    /\ \E d \in Data : ret' = <<"bool", LinkedList_contains(mem, list, d)>>
    /\ UNCHANGED <<mem, list>>

ListSize ==
    /\ list # None
    /\ ret' = <<"size", LinkedList_size(mem, list)>>
    /\ UNCHANGED <<mem, list>>

ListGet ==
    /\ list # None
    /\ \E index \in Indexes :
          LET element == LinkedList_get(mem, list, index)
          IN  ret' = IF element = Fault THEN <<"fault">>
                     ELSE IF element = NULL THEN <<"NULL">>
                     ELSE <<"data", mem[element].data>>
    /\ UNCHANGED <<mem, list>>

ListSort ==
    /\ list # None
    /\ mem' = StringUtils_sortList(mem, list)
    /\ ret' = <<"void">>
    /\ UNCHANGED list

ListDestroyDeep ==
    /\ list # None
    /\ mem' = LinkedList_destroyDeep(mem, list).mem
    /\ ret' = <<"freed", LinkedList_destroyDeep(mem, list).ret>>
    /\ list' = None

ListDestroyStatic ==
    /\ list # None
    /\ mem' = LinkedList_destroyStatic(mem, list)
    /\ ret' = <<"void">>
    /\ list' = None

-----------------------------------------------------------------------------
(* The map. *)
MapCreate ==
    /\ map = None /\ HeapOnly /\ HasRoom(mem, 2)
    /\ \E compareKeys \in {"pointer", "strcmp"} :
          /\ mem' = Map_create(mem, compareKeys).mem
          /\ map' = Map_create(mem, compareKeys).ret
    /\ ret' = <<"created">>

MapAddEntry ==
    /\ map # None /\ HasRoom(mem, 2)
    /\ \E key \in Keys, value \in Values :
          /\ mem' = Map_addEntry(mem, map, key, value)
          /\ ret' = <<"key", key>>
    /\ UNCHANGED map

MapRemoveEntry ==
    /\ map # None
    /\ \E key \in Keys, deleteKey \in BOOLEAN :
          LET removed == Map_removeEntry(mem, map, key, deleteKey)
          IN  /\ mem' = removed.mem
              /\ ret' = (IF removed.ret = NULL THEN <<"NULL">> ELSE <<"value", removed.ret>>)
                        \o removed.freed
    /\ UNCHANGED map

MapGetEntry ==
    /\ map # None
    /\ \E key \in Keys :
          LET value == Map_getEntry(mem, map, key)
          IN  ret' = IF value = NULL THEN <<"NULL">> ELSE <<"value", value>>
    /\ UNCHANGED <<mem, map>>

MapSize ==
    /\ map # None
    /\ ret' = <<"size", Map_size(mem, map)>>
    /\ UNCHANGED <<mem, map>>

MapDelete ==
    /\ map # None
    /\ \E deleteKey \in BOOLEAN :
          \E deleted \in {Map_delete(mem, map, deleteKey),
                          Map_deleteStatic(mem, map, deleteKey),
                          Map_deleteDeep(mem, map, deleteKey)} :
             mem' = deleted.mem /\ ret' = <<"freed", deleted.freed>>
    /\ map' = None

-----------------------------------------------------------------------------
(* simple_allocator.cc and mem_alloc_linked_list.cc: a block of memory given
   out from its start, and a list with its head and its cells in it. *)
(* Rounding down instead of up. *)
AlignedDown(size) == PointerSize * (size \div PointerSize)

MemoryAllocator_getAlignedSize(size) ==
    IF size % PointerSize > 0
    THEN PointerSize * ((size + PointerSize - 1) \div PointerSize) ELSE size

MemoryAllocator_fits(a, size) == a.pos + MemoryAllocator_getAlignedSize(size) =< ArenaSize

MemoryAllocator_allocate(a, size) ==
    [a EXCEPT !.pos = @ + MemoryAllocator_getAlignedSize(size),
              !.blocks = @ \union {<<a.pos, size>>}]

HeadSize == 3 * PointerSize
CellSize == 2 * PointerSize

MemAllocLinkedList_create ==
    /\ Alone
    /\ LET a == [pos |-> 0, cells |-> << >>, blocks |-> {}]
       IN  /\ MemoryAllocator_fits(a, HeadSize)
           /\ arena' = [MemoryAllocator_allocate(a, HeadSize) EXCEPT
                           !.cells = <<[data |-> NULL, next |-> NULL]>>]
    /\ ret' = <<"created">>

(* The cells of the arena's list are named by the order they were allocated
   in; their places are in blocks. *)
MemAllocLinkedList_add ==
    /\ arena # None
    /\ \E d \in Data :
          IF MemoryAllocator_fits(arena, CellSize)
          THEN /\ arena' = [MemoryAllocator_allocate(arena, CellSize) EXCEPT
                               !.cells = [Append(@, [data |-> d, next |-> NULL])
                                             EXCEPT ![LinkedList_getLastElement(@, 1)].next
                                                       = Len(arena.cells) + 1]]
               /\ ret' = <<"data", d>>
          ELSE ret' = <<"NULL">> /\ UNCHANGED arena

(* Another user of the arena takes a block. *)
ArenaAllocate ==
    /\ arena # None
    /\ \E size \in BlockSizes :
          IF MemoryAllocator_fits(arena, size)
          THEN arena' = MemoryAllocator_allocate(arena, size) /\ ret' = <<"block">>
          ELSE ret' = <<"NULL">> /\ UNCHANGED arena

-----------------------------------------------------------------------------
(* byte_buffer.cc *)
ByteBuffer_create ==
    /\ Alone
    /\ buffer' = [octets |-> [i \in 1 .. MaxSize |-> 0], size |-> 0]
    /\ ret' = <<"created">>

Overwrite(b, octets) ==
    [b EXCEPT !.octets = [i \in 1 .. MaxSize |->
                             IF i > b.size /\ i =< b.size + Len(octets)
                             THEN octets[i - b.size] ELSE b.octets[i]],
              !.size = @ + Len(octets)]

AppendRoomOffByOne(b, octets) == b.size + Len(octets) =< MaxSize + 1

AppendRoom(b, octets) == b.size + Len(octets) =< MaxSize

ByteBuffer_append ==
    /\ buffer # None
    /\ \E octets \in Octets \X Octets :
          IF AppendRoom(buffer, octets)
          THEN buffer' = Overwrite(buffer, octets) /\ ret' = <<"size", Len(octets)>>
          ELSE ret' = <<"size", -1>> /\ UNCHANGED buffer

ByteBuffer_appendByte ==
    /\ buffer # None
    /\ \E octet \in Octets :
          IF buffer.size < MaxSize
          THEN buffer' = Overwrite(buffer, <<octet>>) /\ ret' = <<"size", 1>>
          ELSE ret' = <<"size", 0>> /\ UNCHANGED buffer

ByteBuffer_setSize ==
    /\ buffer # None
    /\ \E size \in 0 .. MaxSize + 1 :
          /\ buffer' = IF size =< MaxSize THEN [buffer EXCEPT !.size = size] ELSE buffer
          /\ ret' = <<"size", buffer'.size>>

ByteBuffer_destroy == buffer # None /\ buffer' = None /\ ret' = <<"void">>

-----------------------------------------------------------------------------
ListNext ==
    \/ ListCreate \/ ListAdd \/ ListInsertAfter \/ ListRemove \/ ListContains
    \/ ListSize \/ ListGet \/ ListSort \/ ListDestroyDeep \/ ListDestroyStatic

MapNext ==
    \/ MapCreate \/ MapAddEntry \/ MapRemoveEntry \/ MapGetEntry \/ MapSize
    \/ MapDelete

ArenaNext == MemAllocLinkedList_create \/ MemAllocLinkedList_add \/ ArenaAllocate

BufferNext ==
    \/ ByteBuffer_create \/ ByteBuffer_append \/ ByteBuffer_appendByte
    \/ ByteBuffer_setSize \/ ByteBuffer_destroy

Next ==
    \/ ListNext /\ UNCHANGED <<map, arena, buffer>>
    \/ MapNext /\ UNCHANGED <<list, arena, buffer>>
    \/ ArenaNext /\ UNCHANGED <<mem, list, map, buffer>>
    \/ BufferNext /\ UNCHANGED <<mem, list, map, arena>>

Spec == Init /\ [][Next]_vars

-----------------------------------------------------------------------------
(* The list, the map, the arena and the buffer are what they are declared to
   be: heads and map objects are addresses in use, the arena's position and
   the buffer's size stay within the memory they were created with. *)
TypeOK ==
    /\ DOMAIN mem \subseteq Heap
    /\ list = None \/ list \in DOMAIN mem
    /\ map = None \/ map \in DOMAIN mem
    /\ arena = None \/ arena.pos \in 0 .. ArenaSize
    /\ buffer = None \/ /\ buffer.octets \in [1 .. MaxSize -> Octets]
                        /\ buffer.size \in 0 .. MaxSize

(* What the live list and the live map reach: heads, cells, entries, object. *)
ListBlocks == IF list = None THEN {} ELSE {list} \union ToSet(Elements(mem, list))

MapBlocks ==
    IF map = None THEN {}
    ELSE {map, mem[map].entries} \union ToSet(Elements(mem, mem[map].entries))
         \union ToSet(DataOf(mem, mem[map].entries))

(* No leak and no dangling pointer: the memory in use is exactly what the live
   list and the live map reach, and neither reaches a block of the other, after
   any sequence of adding, inserting, removing and destroying. *)
HeapExact ==
    /\ DOMAIN mem = ListBlocks \union MapBlocks
    /\ ListBlocks \intersect MapBlocks = {}

(* The blocks taken from the arena are aligned, lie in the arena and do not
   overlap, whatever the order of the calls. *)
ArenaBlocks ==
    arena # None =>
        \A b \in arena.blocks :
            /\ b[1] % PointerSize = 0
            /\ b[1] + b[2] =< ArenaSize
            /\ \A c \in arena.blocks : b # c => b[1] + b[2] =< c[1] \/ c[1] + c[2] =< b[1]

(* The containers implement SeqContainers: seen from outside, cells and
   entries behave as the sequences they stand for, with the same results. *)
MapPairs ==
    LET walk == Elements(mem, mem[map].entries)
    IN  [i \in 1 .. Len(walk) |-> <<Entry(mem, walk[i]).key, Entry(mem, walk[i]).value>>]

Promise == INSTANCE SeqContainers WITH
    Order <- LAMBDA a, b : StringUtils_compareStrings(Text(a), a, Text(b), b),
    list <- IF list = None THEN None ELSE DataOf(mem, list),
    map <- IF map = None THEN None
           ELSE [byText |-> mem[map].compareKeys = "strcmp", pairs |-> MapPairs],
    arena <- IF arena = None THEN None ELSE DataOf(arena.cells, 1),
    buffer <- IF buffer = None THEN None ELSE SubSeq(buffer.octets, 1, buffer.size)

ImplementsSequences == Promise!Spec
=============================================================================
