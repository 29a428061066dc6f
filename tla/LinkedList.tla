------------------------------ MODULE LinkedList ------------------------------
(***************************************************************************)
(* The linked list of libiec61850 and the map built on it, as operations   *)
(* on a heap: a function from the addresses in use to what is stored there *)
(* (a list cell, a map entry or a map object). Every operation gives the   *)
(* heap it leaves and its result. A walk reads the next fields one by one, *)
(* as the loops of the code do; what the lists mean is SeqContainers.      *)
(***************************************************************************)
EXTENDS StringUtils

CONSTANTS Heap,    \* the addresses malloc may return, positive numbers
          Fault,   \* what reading through NULL gives
          Text(_)  \* the string at an address

NULL == 0

ASSUME HeapAssumption == Heap \subseteq Nat \ {NULL} /\ IsFiniteSet(Heap)

(* malloc and free: any free address may be returned; the lowest one is the
   one that is reused soonest after a free. *)
Fresh(m) == Min(Heap \ DOMAIN m)

HasRoom(m, n) == Cardinality(Heap \ DOMAIN m) >= n

Memory_malloc(m, block) ==
    [a \in DOMAIN m \union {Fresh(m)} |-> IF a = Fresh(m) THEN block ELSE m[a]]

Memory_free(m, A) == [a \in DOMAIN m \ A |-> m[a]]

(* Following one next pointer; a pointer to freed memory leads nowhere. *)
LinkedList_getNext(m, cell) == IF cell \in DOMAIN m THEN m[cell].next ELSE NULL

(* The cells behind the head, in the order a walk meets them. *)
Elements(m, list) ==
    LET next == [cell \in Nat |-> LinkedList_getNext(m, cell)]
        at[n \in Nat] == IF n = 0 THEN list ELSE next[at[n - 1]]
        length == CHOOSE n \in 0 .. Cardinality(DOMAIN m) : at[n] # NULL /\ next[at[n]] = NULL
    IN  [n \in 1 .. length |-> at[n]]

LinkedList_getLastElement(m, list) == Last(<<list>> \o Elements(m, list))

LinkedList_create(m) ==
    [mem |-> Memory_malloc(m, [data |-> NULL, next |-> NULL]), ret |-> Fresh(m)]

LinkedList_size(m, list) == Len(Elements(m, list))

LinkedList_add(m, list, data) ==
    [Memory_malloc(m, [data |-> data, next |-> NULL])
        EXCEPT ![LinkedList_getLastElement(m, list)].next = Fresh(m)]

LinkedList_contains(m, list, data) ==
    \E i \in 1 .. Len(Elements(m, list)) : m[Elements(m, list)[i]].data = data

(* Taking the i-th cell out: the cell before it, perhaps the head, is made to
   point past it. *)
Unlink(m, list, i) ==
    LET walk == <<list>> \o Elements(m, list)
    IN  Memory_free([m EXCEPT ![walk[i]].next = m[walk[i + 1]].next], {walk[i + 1]})

LinkedList_remove(m, list, data) ==
    LET i == SelectInSeq(Elements(m, list), LAMBDA cell : m[cell].data = data)
    IN  [mem |-> IF i = 0 THEN m ELSE Unlink(m, list, i), ret |-> i # 0]

LinkedList_insertAfter(m, element, data) ==
    [Memory_malloc(m, [data |-> data, next |-> LinkedList_getNext(m, element)])
        EXCEPT ![element].next = Fresh(m)]

(* The index counts from the first element, and an index below 0 gives the
   first element too. The first getNext is not checked before the second is
   made: on an empty list an index above 0 reads through NULL. *)
LinkedList_get(m, list, index) ==
    LET walk == Elements(m, list)
    IN  CASE index =< 0 /\ walk = << >> -> NULL
          [] index =< 0 /\ walk # << >> -> walk[1]
          [] index > 0 /\ walk = << >> -> Fault
          [] index > 0 /\ walk # << >> /\ index < Len(walk) -> walk[index + 1]
          [] index > 0 /\ walk # << >> /\ index >= Len(walk) -> NULL

DataOf(m, list) ==
    LET walk == Elements(m, list) IN [i \in 1 .. Len(walk) |-> m[walk[i]].data]

(* What the value delete function has been called with after n cells: their
   data, in order, except for NULL. *)
Deleted(data) ==
    LET deleted[n \in 0 .. Len(data)] ==
            IF n = 0 THEN << >>
            ELSE IF data[n] = NULL THEN deleted[n - 1] ELSE Append(deleted[n - 1], data[n])
    IN  deleted

(* Freeing every cell; the data of the head is NULL. *)
LinkedList_destroyDeep(m, list) ==
    [mem |-> Memory_free(m, {list} \union ToSet(Elements(m, list))),
     ret |-> Deleted(DataOf(m, list))[LinkedList_size(m, list)]]

LinkedList_destroyStatic(m, list) ==
    Memory_free(m, {list} \union ToSet(Elements(m, list)))

LinkedList_destroy(m, list) ==
    Memory_free(LinkedList_destroyDeep(m, list).mem, ToSet(DataOf(m, list)) \ {NULL})

(* StringUtils_sortList: the cells are taken from the front one by one and put
   before the first one whose string is greater; nothing is allocated. *)
IsBefore(m, cell, other) ==
    StringUtils_compareStrings(Text(m[cell].data), m[cell].data,
                               Text(m[other].data), m[other].data) < 0

Inserted(m, sorted, cell) ==
    LET i == SelectInSeq(sorted, LAMBDA other : IsBefore(m, cell, other))
    IN  IF i = 0 THEN Append(sorted, cell) ELSE InsertAt(sorted, i, cell)

(* The first n cells of a walk in order. *)
Sorted(m, cells) ==
    LET sorted[n \in 0 .. Len(cells)] ==
            IF n = 0 THEN << >> ELSE Inserted(m, sorted[n - 1], cells[n])
    IN  sorted

StringUtils_sortList(m, list) ==
    LET sorted == Sorted(m, Elements(m, list))[LinkedList_size(m, list)]
        walk == <<list>> \o sorted \o <<NULL>>
        Successor(a) == walk[SelectInSeq(walk, LAMBDA b : b = a) + 1]
    IN  [a \in DOMAIN m |->
            IF a \in ToSet(walk) THEN [m[a] EXCEPT !.next = Successor(a)] ELSE m[a]]

-----------------------------------------------------------------------------
(* map.cc and string_map.cc: a list of entries, keys compared by address or,
   for the maps StringMap_create makes, by the text they point to. *)
Map_create(m, compareKeys) ==
    LET list == LinkedList_create(m)
    IN  [mem |-> Memory_malloc(list.mem, [entries |-> list.ret, compareKeys |-> compareKeys]),
         ret |-> Fresh(list.mem)]

comparePointerKeys(key1, key2) == key1 = key2

SameKey(compareKeys, key1, key2) ==
    IF compareKeys = "strcmp" THEN Text(key1) = Text(key2)
                              ELSE comparePointerKeys(key1, key2)

Entry(m, cell) == m[m[cell].data]

(* The last entry with the key instead of the first. *)
LastWith(m, map, key) ==
    SelectLastInSeq(Elements(m, m[map].entries),
                    LAMBDA cell : SameKey(m[map].compareKeys, key, Entry(m, cell).key))

(* The position of the first entry with the key, 0 if there is none. *)
FirstWith(m, map, key) ==
    SelectInSeq(Elements(m, m[map].entries),
                LAMBDA cell : SameKey(m[map].compareKeys, key, Entry(m, cell).key))

Map_size(m, map) == LinkedList_size(m, m[map].entries)

Map_addEntry(m, map, key, value) ==
    LinkedList_add(Memory_malloc(m, [key |-> key, value |-> value]),
                   m[map].entries, Fresh(m))

Map_getEntry(m, map, key) ==
    LET i == FirstWith(m, map, key)
    IN  IF i = 0 THEN NULL ELSE Entry(m, Elements(m, m[map].entries)[i]).value

(* Only the cell is freed, not the entry. *)
RemoveEntryLeaking(m, map, key, deleteKey) ==
    LET i == FirstWith(m, map, key)
        cell == Elements(m, m[map].entries)[i]
    IN  IF i = 0
        THEN [mem |-> m, ret |-> NULL, freed |-> << >>]
        ELSE [mem |-> Unlink(m, m[map].entries, i),
              ret |-> Entry(m, cell).value,
              freed |-> IF deleteKey THEN <<Entry(m, cell).key>> ELSE << >>]

(* The entry and its cell are freed, the key when the caller says so. *)
Map_removeEntry(m, map, key, deleteKey) ==
    LET i == FirstWith(m, map, key)
        cell == Elements(m, m[map].entries)[i]
    IN  IF i = 0
        THEN [mem |-> m, ret |-> NULL, freed |-> << >>]
        ELSE [mem |-> Memory_free(Unlink(m, m[map].entries, i), {m[cell].data}),
              ret |-> Entry(m, cell).value,
              freed |-> IF deleteKey THEN <<Entry(m, cell).key>> ELSE << >>]

(* Map_delete, Map_deleteStatic and Map_deleteDeep: the keys and the values
   given up, in order, then the entries, the list and the map itself. *)
MapDeleted(m, map, deleteKey, deleteValues) ==
    LET walk == Elements(m, m[map].entries)
    IN  [mem |-> Memory_free(LinkedList_destroy(m, m[map].entries), {map}),
         freed |-> [i \in 1 .. Len(walk) |->
                       (IF deleteKey THEN <<Entry(m, walk[i]).key>> ELSE << >>)
                       \o (IF deleteValues THEN <<Entry(m, walk[i]).value>> ELSE << >>)]]

Map_delete(m, map, deleteKey) == MapDeleted(m, map, deleteKey, TRUE)

Map_deleteStatic(m, map, deleteKey) == MapDeleted(m, map, deleteKey, FALSE)

Map_deleteDeep(m, map, deleteKey) == MapDeleted(m, map, deleteKey, TRUE)
=============================================================================
