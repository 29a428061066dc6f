--------------------------- MODULE ContainersProofs ---------------------------
(***************************************************************************)
(* Proofs about Containers, for every heap, arena and buffer size: what    *)
(* each container keeps true of its memory, and that all of them implement *)
(* SeqContainers.                                                          *)
(***************************************************************************)
EXTENDS Containers, LinkedListProofs

\* The live containers own disjoint parts of the heap, and nothing else is in use.
OwnsList(A) == IF list = None THEN A = {} ELSE ListOwns(mem, list, A)

OwnsMap(B) == IF map = None THEN B = {} ELSE MapOwns(mem, map, B)

Shared(A, B) == OwnsList(A) /\ OwnsMap(B) /\ A \cap B = {} /\ DOMAIN mem = A \cup B

HeapInv == DOMAIN mem \subseteq Heap /\ \E A, B : Shared(A, B)

\* The arena: its position is aligned, the blocks given out end before it, and
\* none overlaps another.
Apart(b, c) == b[1] + b[2] =< c[1] \/ c[1] + c[2] =< b[1]

Aligned(n) == n \in Nat /\ \E k \in Nat : n = PointerSize * k

GivenOut(b, pos) ==
    b = <<b[1], b[2]>> /\ Aligned(b[1]) /\ b[2] \in Nat /\ b[1] + b[2] =< pos

ArenaState(a) ==
    /\ a = [pos |-> a.pos, cells |-> a.cells, blocks |-> a.blocks]
    /\ Aligned(a.pos) /\ a.pos =< ArenaSize
    /\ \A b \in a.blocks : GivenOut(b, a.pos)
    /\ \A b, c \in a.blocks : b # c => Apart(b, c)

ArenaInv == arena = None \/ ArenaState(arena)

BufferState(b) ==
    /\ b = [octets |-> b.octets, size |-> b.size]
    /\ b.octets \in [1 .. MaxSize -> Octets] /\ b.size \in 0 .. MaxSize

BufferInv == buffer = None \/ BufferState(buffer)

-----------------------------------------------------------------------------
\* A step that changes only what the list owns, or only what the map owns, keeps
\* the heap shared between them.
LEMMA ListReplaced ==
  ASSUME HeapInv, NEW A, NEW B, Shared(A, B), NEW A2, Replaces(mem, A, mem', A2),
         A2 \subseteq Heap, IF list' = None THEN A2 = {} ELSE ListOwns(mem', list', A2),
         map' = map
  PROVE  HeapInv' /\ Keeps(mem, B, mem')
  <1>1. OwnsMap(B) /\ A \cap B = {} /\ DOMAIN mem = A \cup B
    BY DEF Shared
  <1>2. DOMAIN mem \ A = B
    BY <1>1
  <1>3. DOMAIN mem' = A2 \cup B /\ A2 \cap B = {} /\ \A a \in B : mem'[a] = mem[a]
    BY <1>2 DEF Replaces
  <1>4. OwnsMap(B)'
    <2>1. CASE map = None
      BY <1>1, <2>1 DEF OwnsMap
    <2>2. CASE map # None
      <3>1. MapOwns(mem, map, B)
        BY <1>1, <2>2 DEF OwnsMap
      <3>2. MapOwns(mem', map, B)
        <4>1. PICK m, m2, h : m = mem /\ m2 = mem' /\ h = map
          OBVIOUS
        <4>2. MapOwns(m, h, B) /\ B \subseteq DOMAIN m2 /\ \A a \in B : m2[a] = m[a]
          BY <1>3, <3>1, <4>1
        <4>3. MapOwns(m2, h, B)
          BY <4>2, OwnedFrame
        <4> QED
          BY <4>1, <4>3
      <3> QED
        BY <2>2, <3>2 DEF OwnsMap
    <2> QED
      BY <2>1, <2>2
  <1>5. Shared(A2, B)'
    BY <1>3, <1>4 DEF Shared, OwnsList
  <1>6. DOMAIN mem' \subseteq Heap
    BY <1>1, <1>3 DEF HeapInv
  <1> QED
    BY <1>3, <1>5, <1>6 DEF HeapInv, Keeps

\* The same for the map.
LEMMA MapReplaced ==
  ASSUME HeapInv, NEW A, NEW B, Shared(A, B), NEW B2, Replaces(mem, B, mem', B2),
         B2 \subseteq Heap, IF map' = None THEN B2 = {} ELSE MapOwns(mem', map', B2),
         list' = list
  PROVE  HeapInv' /\ Keeps(mem, A, mem')
  <1>1. OwnsList(A) /\ A \cap B = {} /\ DOMAIN mem = A \cup B
    BY DEF Shared
  <1>2. DOMAIN mem \ B = A
    BY <1>1
  <1>3. DOMAIN mem' = A \cup B2 /\ A \cap B2 = {} /\ \A a \in A : mem'[a] = mem[a]
    BY <1>2 DEF Replaces
  <1>4. OwnsList(A)'
    <2>1. CASE list = None
      BY <1>1, <2>1 DEF OwnsList
    <2>2. CASE list # None
      <3>1. ListOwns(mem, list, A)
        BY <1>1, <2>2 DEF OwnsList
      <3>2. ListOwns(mem', list, A)
        <4>1. PICK m, m2, h : m = mem /\ m2 = mem' /\ h = list
          OBVIOUS
        <4>2. ListOwns(m, h, A) /\ A \subseteq DOMAIN m2 /\ \A a \in A : m2[a] = m[a]
          BY <1>3, <3>1, <4>1
        <4>3. ListOwns(m2, h, A)
          BY <4>2, OwnedFrame
        <4> QED
          BY <4>1, <4>3
      <3> QED
        BY <2>2, <3>2 DEF OwnsList
    <2> QED
      BY <2>1, <2>2
  <1>5. Shared(A, B2)'
    BY <1>3, <1>4 DEF Shared, OwnsMap
  <1>6. DOMAIN mem' \subseteq Heap
    BY <1>1, <1>3 DEF HeapInv
  <1> QED
    BY <1>3, <1>5, <1>6 DEF HeapInv, Keeps

-----------------------------------------------------------------------------
\* At first nothing is in use.
LEMMA HeapInit == Init => HeapInv
  <1> SUFFICES ASSUME Init PROVE HeapInv
    OBVIOUS
  <1>1. DOMAIN mem = {}
    BY DEF Init
  <1>2. Shared({}, {})
    BY <1>1 DEF Init, Shared, OwnsList, OwnsMap
  <1> QED
    BY <1>1, <1>2 DEF HeapInv

\* A step of the list.
LEMMA HeapListStep ==
  ASSUME HeapInv, ListNext, UNCHANGED map, NEW A, NEW B, Shared(A, B)
  PROVE  HeapInv' /\ Keeps(mem, B, mem')
  <1>0. DOMAIN mem \subseteq Heap /\ map' = map
    BY DEF HeapInv
  <1>1. Shared(A, B)
    OBVIOUS
  <1>2. ASSUME list # None PROVE ListOwns(mem, list, A)
    BY <1>1, <1>2 DEF Shared, OwnsList
  <1>3. ASSUME list # None, list' = list, NEW A2, ListOwns(mem', list, A2),
               Replaces(mem, A, mem', A2), A2 \subseteq Heap
        PROVE  HeapInv' /\ Keeps(mem, B, mem')
    <2>1. IF list' = None THEN A2 = {} ELSE ListOwns(mem', list', A2)
      BY <1>3
    <2> QED
      BY <1>0, <1>1, <1>3, <2>1, ListReplaced
  <1>4. ASSUME mem' = mem, list' = list PROVE HeapInv' /\ Keeps(mem, B, mem')
    <2>1. Shared(A, B)'
      BY <1>0, <1>1, <1>4 DEF Shared, OwnsList, OwnsMap
    <2>2. B \subseteq DOMAIN mem
      BY DEF Shared
    <2> QED
      BY <1>0, <1>4, <2>1, <2>2 DEF HeapInv, Keeps
  <1>5. CASE ListCreate
    <2>1. /\ list = None /\ HasRoom(mem, 1) /\ mem' = LinkedList_create(mem).mem
          /\ list' = LinkedList_create(mem).ret
      BY <1>5 DEF ListCreate
    <2>2. PICK m, m2, f : m = mem /\ m2 = mem' /\ f = list'
      OBVIOUS
    <2>3. f \in Heap /\ Chain(m2, <<f>>) /\ Replaces(m, {}, m2, {f})
      BY <1>0, <2>1, <2>2, CreateEffect
    <2>4. PICK w : w = <<f>>
      OBVIOUS
    <2>5. Blocks(w) = {f} /\ w[1] = f
      <3>1. Len(w) = 1 /\ w[1] = f
        BY <2>4
      <3>2. 1 .. 1 = {1}
        OBVIOUS
      <3> QED
        BY <3>1, <3>2 DEF Blocks
    <2>6. ListOwns(m2, f, {f})
      BY <2>3, <2>4, <2>5 DEF ListOwns
    <2>7. A = {}
      BY <1>1, <2>1 DEF Shared, OwnsList
    <2>8. IF list' = None THEN {f} = {} ELSE ListOwns(mem', list', {f})
      BY <2>2, <2>3, <2>6, NoneAssumption
    <2>9. Replaces(mem, A, mem', {f}) /\ {f} \subseteq Heap
      BY <2>2, <2>3, <2>7
    <2> QED
      BY <1>0, <1>1, <2>8, <2>9, ListReplaced
  <1>6. CASE ListAdd
    <2>1. PICK d : mem' = LinkedList_add(mem, list, d)
      BY <1>6 DEF ListAdd
    <2>2. list # None /\ HasRoom(mem, 1) /\ list' = list
      BY <1>6 DEF ListAdd
    <2>3. PICK A2 : ListOwns(mem', list, A2) /\ Replaces(mem, A, mem', A2) /\ A2 \subseteq Heap
      BY <1>0, <1>2, <2>1, <2>2, ListOperations
    <2> QED
      BY <1>3, <2>2, <2>3
  <1>7. CASE ListInsertAfter
    <2>1. PICK d, element : /\ element \in {list} \cup ToSet(Elements(mem, list))
                            /\ mem' = LinkedList_insertAfter(mem, element, d)
      BY <1>7 DEF ListInsertAfter
    <2>2. list # None /\ HasRoom(mem, 1) /\ list' = list
      BY <1>7 DEF ListInsertAfter
    <2>3. PICK A2 : ListOwns(mem', list, A2) /\ Replaces(mem, A, mem', A2) /\ A2 \subseteq Heap
      BY <1>0, <1>2, <2>1, <2>2, ListOperations
    <2> QED
      BY <1>3, <2>2, <2>3
  <1>8. CASE ListRemove
    <2>1. PICK d : mem' = LinkedList_remove(mem, list, d).mem
      BY <1>8 DEF ListRemove
    <2>2. list # None /\ list' = list
      BY <1>8 DEF ListRemove
    <2>3. PICK A2 : ListOwns(mem', list, A2) /\ Replaces(mem, A, mem', A2) /\ A2 \subseteq Heap
      BY <1>0, <1>2, <2>1, <2>2, ListOperations
    <2> QED
      BY <1>3, <2>2, <2>3
  <1>9. CASE ListSort
    <2>1. list # None /\ list' = list /\ mem' = StringUtils_sortList(mem, list)
      BY <1>9 DEF ListSort
    <2>2. PICK A2 : ListOwns(mem', list, A2) /\ Replaces(mem, A, mem', A2) /\ A2 \subseteq Heap
      BY <1>0, <1>2, <2>1, ListOperations
    <2> QED
      BY <1>3, <2>1, <2>2
  <1>10. CASE ListDestroyDeep \/ ListDestroyStatic
    <2>1. /\ list # None /\ list' = None
          /\ mem' = Memory_free(mem, {list} \cup ToSet(Elements(mem, list)))
      BY <1>10 DEF ListDestroyDeep, ListDestroyStatic, LinkedList_destroyDeep,
                   LinkedList_destroyStatic
    <2>2. A = {list} \cup ToSet(Elements(mem, list))
      BY <1>0, <1>2, <2>1, ListOperations
    <2>3. Replaces(mem, A, mem', {})
      BY <2>1, <2>2 DEF Replaces, Memory_free
    <2>4. IF list' = None THEN {} = {} ELSE ListOwns(mem', list', {})
      BY <2>1
    <2>5. {} \subseteq Heap
      OBVIOUS
    <2> QED
      BY <1>0, <1>1, <2>3, <2>4, <2>5, ListReplaced
  <1>11. CASE ListContains \/ ListSize \/ ListGet
    BY <1>4, <1>11 DEF ListContains, ListSize, ListGet
  <1> QED
    BY <1>5, <1>6, <1>7, <1>8, <1>9, <1>10, <1>11 DEF ListNext

\* A step of the map.
LEMMA HeapMapStep ==
  ASSUME HeapInv, MapNext, UNCHANGED list, NEW A, NEW B, Shared(A, B)
  PROVE  HeapInv' /\ Keeps(mem, A, mem')
  <1>0. DOMAIN mem \subseteq Heap /\ list' = list
    BY DEF HeapInv
  <1>1. Shared(A, B)
    OBVIOUS
  <1>2. ASSUME map # None PROVE MapOwns(mem, map, B)
    BY <1>1, <1>2 DEF Shared, OwnsMap
  <1>3. ASSUME map # None, map' = map, NEW B2, MapOwns(mem', map, B2),
               Replaces(mem, B, mem', B2), B2 \subseteq Heap
        PROVE  HeapInv' /\ Keeps(mem, A, mem')
    <2>1. IF map' = None THEN B2 = {} ELSE MapOwns(mem', map', B2)
      BY <1>3
    <2> QED
      BY <1>0, <1>1, <1>3, <2>1, MapReplaced
  <1>4. CASE MapCreate
    <2>1. PICK compareKeys : /\ mem' = Map_create(mem, compareKeys).mem
                             /\ map' = Map_create(mem, compareKeys).ret
      BY <1>4 DEF MapCreate
    <2>2. map = None /\ HasRoom(mem, 2)
      BY <1>4 DEF MapCreate
    <2>3. PICK B2 : MapOwns(mem', map', B2) /\ Replaces(mem, {}, mem', B2) /\ B2 \subseteq Heap
      BY <1>0, <2>1, <2>2, MapCreateEffect
    <2>4. map' # None
      <3>1. map' \in B2
        BY <2>3, OwnedInUse
      <3> QED
        BY <2>3, <3>1, NoneAssumption
    <2>5. B = {}
      BY <1>1, <2>2 DEF Shared, OwnsMap
    <2>6. IF map' = None THEN B2 = {} ELSE MapOwns(mem', map', B2)
      BY <2>3, <2>4
    <2>7. Replaces(mem, B, mem', B2) /\ B2 \subseteq Heap
      BY <2>3, <2>5
    <2> QED
      BY <1>0, <1>1, <2>6, <2>7, MapReplaced
  <1>5. CASE MapAddEntry
    <2>1. PICK key, value : mem' = Map_addEntry(mem, map, key, value)
      BY <1>5 DEF MapAddEntry
    <2>2. map # None /\ HasRoom(mem, 2) /\ map' = map
      BY <1>5 DEF MapAddEntry
    <2>3. PICK B2 : MapOwns(mem', map, B2) /\ Replaces(mem, B, mem', B2) /\ B2 \subseteq Heap
      BY <1>0, <1>2, <2>1, <2>2, MapAddEffect
    <2> QED
      BY <1>3, <2>2, <2>3
  <1>6. CASE MapRemoveEntry
    <2>1. PICK key, deleteKey : mem' = Map_removeEntry(mem, map, key, deleteKey).mem
      BY <1>6 DEF MapRemoveEntry
    <2>2. map # None /\ map' = map
      BY <1>6 DEF MapRemoveEntry
    <2>3. PICK B2 : MapOwns(mem', map, B2) /\ Replaces(mem, B, mem', B2) /\ B2 \subseteq Heap
      BY <1>0, <1>2, <2>1, <2>2, MapRemoveEffect
    <2> QED
      BY <1>3, <2>2, <2>3
  <1>7. CASE MapDelete
    <2>1. PICK deleteKey, deleteValues : mem' = MapDeleted(mem, map, deleteKey, deleteValues).mem
      BY <1>7 DEF MapDelete, Map_delete, Map_deleteStatic, Map_deleteDeep
    <2>2. map # None /\ map' = None
      BY <1>7 DEF MapDelete
    <2>3. Replaces(mem, B, mem', {})
      BY <1>0, <1>2, <2>1, <2>2, MapDeleteEffect
    <2>4. IF map' = None THEN {} = {} ELSE MapOwns(mem', map', {})
      BY <2>2
    <2>5. {} \subseteq Heap
      OBVIOUS
    <2> QED
      BY <1>0, <1>1, <2>3, <2>4, <2>5, MapReplaced
  <1>8. CASE MapGetEntry \/ MapSize
    <2>1. mem' = mem /\ map' = map
      BY <1>8 DEF MapGetEntry, MapSize
    <2>2. Shared(A, B)'
      BY <1>0, <1>1, <2>1 DEF Shared, OwnsList, OwnsMap
    <2>3. A \subseteq DOMAIN mem
      BY DEF Shared
    <2> QED
      BY <1>0, <2>1, <2>2, <2>3 DEF HeapInv, Keeps
  <1> QED
    BY <1>4, <1>5, <1>6, <1>7, <1>8 DEF MapNext

-----------------------------------------------------------------------------
\* The rounding of the arena: up, to a multiple of the size of a pointer.
LEMMA AlignedSize ==
  ASSUME NEW size \in Nat
  PROVE  Aligned(MemoryAllocator_getAlignedSize(size)) /\ size =< MemoryAllocator_getAlignedSize(size)
  <1>1. PICK p \in Nat \ {0} : p = PointerSize
    BY SizesAssumption
  <1>2. PICK q \in Nat, r \in 0 .. p - 1 : q = size \div p /\ r = size % p /\ size = q * p + r
    <2>1. size \div p \in Nat /\ size % p \in 0 .. p - 1 /\ size = (size \div p) * p + (size % p)
      BY Division
    <2> QED
      BY <2>1
  <1>3. q * p = p * q /\ p * q \in Nat /\ p * (q + 1) = p * q + p
    <2>1. q * p = p * q
      OBVIOUS
    <2> QED
      BY <2>1, Products
  <1>4. CASE r = 0
    <2>1. MemoryAllocator_getAlignedSize(size) = size
      BY <1>1, <1>2, <1>4 DEF MemoryAllocator_getAlignedSize
    <2>2. size = p * q
      BY <1>2, <1>3, <1>4
    <2> QED
      BY <1>1, <2>1, <2>2 DEF Aligned
  <1>5. CASE r # 0
    <2>1. size + p - 1 = (q + 1) * p + (r - 1) /\ q + 1 \in Nat /\ r - 1 \in 0 .. p - 1
      <3>1. (q + 1) * p = q * p + p
        BY Products
      <3>2. PICK x \in Int : x = q * p
        BY <1>3
      <3> QED
        BY <1>2, <1>5, <3>1, <3>2
    <2>2. PICK a \in Nat : a = q + 1
      OBVIOUS
    <2>3. PICK s \in 0 .. p - 1 : s = r - 1
      BY <2>1
    <2>4. (a * p + s) \div p = a
      BY DivisionUnique
    <2>5. (size + p - 1) \div p = q + 1
      BY <2>1, <2>2, <2>3, <2>4
    <2>6. size % p > 0
      BY <1>2, <1>5
    <2>7. MemoryAllocator_getAlignedSize(size) = p * (q + 1)
      BY <1>1, <2>5, <2>6 DEF MemoryAllocator_getAlignedSize
    <2>8. size =< p * (q + 1) /\ p * (q + 1) \in Nat
      <3>1. PICK x \in Nat : x = p * q
        BY <1>3
      <3>2. size = x + r /\ p * (q + 1) = x + p
        BY <1>2, <1>3, <3>1
      <3> QED
        BY <3>1, <3>2
    <2>9. Aligned(p * (q + 1))
      BY <1>1, <2>8 DEF Aligned
    <2> QED
      BY <2>7, <2>8, <2>9
  <1> QED
    BY <1>4, <1>5

\* Sums of multiples are multiples, and multiples have no remainder.
LEMMA AlignedSum ==
  ASSUME NEW a, NEW b, Aligned(a), Aligned(b)
  PROVE  Aligned(a + b) /\ a % PointerSize = 0
  <1>1. PICK p \in Nat \ {0} : p = PointerSize
    BY SizesAssumption
  <1>2. PICK k \in Nat : a = p * k
    BY <1>1 DEF Aligned
  <1>3. PICK n \in Nat : b = p * n
    BY <1>1 DEF Aligned
  <1>4. a + b = p * (k + n) /\ k + n \in Nat /\ a + b \in Nat
    <2>1. a \in Nat /\ b \in Nat
      BY DEF Aligned
    <2>2. p * k + p * n = p * (k + n)
      OBVIOUS
    <2> QED
      BY <1>2, <1>3, <2>1, <2>2
  <1>5. a % p = 0
    <2>1. 0 \in 0 .. p - 1 /\ p * k = k * p + 0
      OBVIOUS
    <2>2. (k * p + 0) % p = 0
      BY <2>1, DivisionUnique
    <2> QED
      BY <1>2, <2>1, <2>2
  <1> QED
    BY <1>1, <1>4, <1>5 DEF Aligned

\* Taking a block keeps the arena in order, whatever becomes of the cells.
LEMMA AllocateEffect ==
  ASSUME NEW a, ArenaState(a), NEW size \in Nat, MemoryAllocator_fits(a, size), NEW cells
  PROVE  /\ ArenaState(MemoryAllocator_allocate(a, size))
         /\ ArenaState([MemoryAllocator_allocate(a, size) EXCEPT !.cells = cells])
  <1>1. PICK p, c, b, n : /\ a = [pos |-> p, cells |-> c, blocks |-> b]
                          /\ n = MemoryAllocator_getAlignedSize(size)
    BY DEF ArenaState
  <1>2. a.pos = p /\ a.blocks = b /\ a.cells = c
    BY <1>1
  <1>3. /\ Aligned(p) /\ p =< ArenaSize /\ \A x \in b : GivenOut(x, p)
        /\ \A x, y \in b : x # y => Apart(x, y)
    BY <1>2 DEF ArenaState
  <1>4. Aligned(n) /\ size =< n /\ p \in Nat /\ n \in Nat
    BY <1>1, <1>3, AlignedSize DEF Aligned
  <1>5. p + n =< ArenaSize
    BY <1>1, <1>2 DEF MemoryAllocator_fits
  <1>6. PICK new : new = <<p, size>>
    OBVIOUS
  <1>7. new[1] = p /\ new[2] = size /\ new = <<new[1], new[2]>>
    BY <1>6
  <1>8. GivenOut(new, p + n)
    BY <1>3, <1>4, <1>7 DEF GivenOut
  <1>9. ASSUME NEW x \in b PROVE GivenOut(x, p + n) /\ Apart(x, new) /\ Apart(new, x)
    <2>1. GivenOut(x, p)
      BY <1>3
    <2>2. PICK s, t : s = x[1] /\ t = x[2]
      OBVIOUS
    <2>3. s \in Nat /\ t \in Nat /\ s + t =< p
      BY <2>1, <2>2 DEF GivenOut, Aligned
    <2>4. s + t =< p + n
      BY <1>4, <2>3
    <2> QED
      BY <1>7, <2>1, <2>2, <2>3, <2>4 DEF GivenOut, Apart
  <1>10. Aligned(p + n)
    BY <1>3, <1>4, AlignedSum
  <1>11. ASSUME NEW d, NEW r, r = [pos |-> p + n, cells |-> d, blocks |-> b \cup {new}]
         PROVE  ArenaState(r)
    <2>1. r.pos = p + n /\ r.blocks = b \cup {new} /\ r.cells = d
      BY <1>11
    <2>2. \A x \in b \cup {new} : GivenOut(x, p + n)
      BY <1>8, <1>9
    <2>3. \A x, y \in b \cup {new} : x # y => Apart(x, y)
      BY <1>3, <1>9
    <2>4. r = [pos |-> r.pos, cells |-> r.cells, blocks |-> r.blocks]
      BY <1>11, <2>1
    <2> QED
      BY <1>5, <1>10, <2>1, <2>2, <2>3, <2>4 DEF ArenaState
  <1>12. MemoryAllocator_allocate(a, size) = [pos |-> p + n, cells |-> c, blocks |-> b \cup {new}]
    <2>1. MemoryAllocator_allocate(a, size) = [a EXCEPT !.pos = p + n, !.blocks = b \cup {new}]
      BY <1>1, <1>2, <1>6 DEF MemoryAllocator_allocate
    <2> QED
      BY <1>1, <2>1
  <1>13. [MemoryAllocator_allocate(a, size) EXCEPT !.cells = cells]
            = [pos |-> p + n, cells |-> cells, blocks |-> b \cup {new}]
    BY <1>12
  <1> QED
    BY <1>11, <1>12, <1>13

\* A step of the arena.
LEMMA ArenaStep ==
  ASSUME ArenaInv, ArenaNext
  PROVE  ArenaInv'
  <1>0. HeadSize \in Nat /\ CellSize \in Nat
    BY SizesAssumption DEF HeadSize, CellSize
  <1>1. CASE MemAllocLinkedList_create
    <2>1. PICK a, cells : /\ a = [pos |-> 0, cells |-> << >>, blocks |-> {}]
                          /\ MemoryAllocator_fits(a, HeadSize)
                          /\ arena' = [MemoryAllocator_allocate(a, HeadSize) EXCEPT !.cells = cells]
      BY <1>1 DEF MemAllocLinkedList_create
    <2>2. ArenaState(a)
      <3>1. a.pos = 0 /\ a.cells = << >> /\ a.blocks = {}
        BY <2>1
      <3>2. Aligned(0)
        <4>1. PointerSize * 0 = 0
          BY SizesAssumption
        <4> QED
          BY <4>1 DEF Aligned
      <3> QED
        BY <2>1, <3>1, <3>2, SizesAssumption DEF ArenaState
    <2> QED
      BY <1>0, <2>1, <2>2, AllocateEffect DEF ArenaInv
  <1>2. CASE MemAllocLinkedList_add
    <2>1. ArenaState(arena)
      BY <1>2 DEF MemAllocLinkedList_add, ArenaInv
    <2>2. \/ arena' = arena
          \/ /\ MemoryAllocator_fits(arena, CellSize)
             /\ \E cells : arena' = [MemoryAllocator_allocate(arena, CellSize) EXCEPT !.cells = cells]
      BY <1>2 DEF MemAllocLinkedList_add
    <2> QED
      BY <1>0, <2>1, <2>2, AllocateEffect DEF ArenaInv
  <1>3. CASE ArenaAllocate
    <2>1. ArenaState(arena)
      BY <1>3 DEF ArenaAllocate, ArenaInv
    <2>2. \/ arena' = arena
          \/ \E size \in Nat : /\ MemoryAllocator_fits(arena, size)
                               /\ arena' = MemoryAllocator_allocate(arena, size)
      BY <1>3, SizesAssumption DEF ArenaAllocate
    <2> QED
      BY <2>1, <2>2, AllocateEffect DEF ArenaInv
  <1> QED
    BY <1>1, <1>2, <1>3 DEF ArenaNext

-----------------------------------------------------------------------------
\* Octets written behind the ones in the buffer stay in it.
LEMMA OverwriteEffect ==
  ASSUME NEW b, BufferState(b), NEW octets \in Seq(Octets), b.size + Len(octets) =< MaxSize
  PROVE  BufferState(Overwrite(b, octets))
  <1>1. PICK o, s : b = [octets |-> o, size |-> s]
    BY DEF BufferState
  <1>2. b.octets = o /\ b.size = s /\ o \in [1 .. MaxSize -> Octets] /\ s \in 0 .. MaxSize
    BY <1>1 DEF BufferState
  <1>3. PICK n : n = Len(octets)
    OBVIOUS
  <1>4. n \in Nat /\ octets \in [1 .. n -> Octets] /\ s + n =< MaxSize /\ s \in Nat /\ MaxSize \in Nat
    BY <1>2, <1>3, LenProperties, SizesAssumption
  <1> DEFINE p == [i \in 1 .. MaxSize |-> IF i > s /\ i =< s + n THEN octets[i - s] ELSE o[i]]
  <1>5. ASSUME NEW i \in 1 .. MaxSize
        PROVE  (IF i > s /\ i =< s + n THEN octets[i - s] ELSE o[i]) \in Octets
    <2>1. CASE i > s /\ i =< s + n
      <3>1. i - s \in 1 .. n
        BY <1>4, <2>1
      <3> QED
        BY <1>4, <2>1, <3>1
    <2>2. CASE ~(i > s /\ i =< s + n)
      BY <1>2, <2>2
    <2> QED
      BY <2>1, <2>2
  <1>6. p \in [1 .. MaxSize -> Octets]
    BY <1>5
  <1>7. Overwrite(b, octets) = [octets |-> p, size |-> s + n]
    <2>1. Overwrite(b, octets) = [b EXCEPT !.octets = p, !.size = s + n]
      BY <1>2, <1>3 DEF Overwrite
    <2> HIDE DEF p
    <2> QED
      BY <1>1, <2>1
  <1> HIDE DEF p
  <1>8. s + n \in 0 .. MaxSize
    BY <1>4
  <1> QED
    BY <1>6, <1>7, <1>8 DEF BufferState

\* A step of the buffer.
LEMMA BufferStep ==
  ASSUME BufferInv, BufferNext
  PROVE  BufferInv'
  <1>1. CASE ByteBuffer_create
    <2>1. PICK o : o = [i \in 1 .. MaxSize |-> 0] /\ buffer' = [octets |-> o, size |-> 0]
      BY <1>1 DEF ByteBuffer_create
    <2>2. o \in [1 .. MaxSize -> Octets] /\ 0 \in 0 .. MaxSize
      BY <2>1, SizesAssumption
    <2> QED
      BY <2>1, <2>2 DEF BufferInv, BufferState
  <1>2. CASE ByteBuffer_append
    <2>1. BufferState(buffer)
      BY <1>2 DEF ByteBuffer_append, BufferInv
    <2>2. PICK octets \in Octets \X Octets :
              \/ AppendRoom(buffer, octets) /\ buffer' = Overwrite(buffer, octets)
              \/ buffer' = buffer
      BY <1>2 DEF ByteBuffer_append
    <2>3. octets \in Seq(Octets)
      <3>1. PICK x \in Octets, y \in Octets : octets = <<x, y>>
        OBVIOUS
      <3> QED
        BY <3>1
    <2>4. CASE AppendRoom(buffer, octets) /\ buffer' = Overwrite(buffer, octets)
      BY <2>1, <2>3, <2>4, OverwriteEffect DEF AppendRoom, BufferInv
    <2> QED
      BY <2>1, <2>2, <2>4 DEF BufferInv
  <1>3. CASE ByteBuffer_appendByte
    <2>1. BufferState(buffer)
      BY <1>3 DEF ByteBuffer_appendByte, BufferInv
    <2>2. PICK octet \in Octets :
              \/ buffer.size < MaxSize /\ buffer' = Overwrite(buffer, <<octet>>)
              \/ buffer' = buffer
      BY <1>3 DEF ByteBuffer_appendByte
    <2>3. PICK octets : octets = <<octet>>
      OBVIOUS
    <2>4. octets \in Seq(Octets) /\ Len(octets) = 1
      BY <2>3
    <2>5. CASE buffer.size < MaxSize /\ buffer' = Overwrite(buffer, <<octet>>)
      <3>1. buffer.size + Len(octets) =< MaxSize
        <4>1. buffer.size \in 0 .. MaxSize
          BY <2>1 DEF BufferState
        <4>2. PICK s \in Int : s = buffer.size
          BY <4>1, SizesAssumption
        <4> QED
          BY <2>4, <2>5, <4>2, SizesAssumption
      <3> QED
        BY <2>1, <2>3, <2>4, <2>5, <3>1, OverwriteEffect DEF BufferInv
    <2> QED
      BY <2>1, <2>2, <2>5 DEF BufferInv
  <1>4. CASE ByteBuffer_setSize
    <2>1. BufferState(buffer)
      BY <1>4 DEF ByteBuffer_setSize, BufferInv
    <2>2. PICK o, s : buffer = [octets |-> o, size |-> s] /\ o = buffer.octets
      BY <2>1 DEF BufferState
    <2>3. PICK size \in 0 .. MaxSize + 1 :
              buffer' = IF size =< MaxSize THEN [buffer EXCEPT !.size = size] ELSE buffer
      BY <1>4 DEF ByteBuffer_setSize
    <2>4. CASE size =< MaxSize
      <3>1. buffer' = [octets |-> o, size |-> size]
        BY <2>2, <2>3, <2>4
      <3>2. size \in 0 .. MaxSize /\ o \in [1 .. MaxSize -> Octets]
        BY <2>1, <2>2, <2>4, SizesAssumption DEF BufferState
      <3> QED
        BY <3>1, <3>2 DEF BufferInv, BufferState
    <2> QED
      BY <2>1, <2>3, <2>4 DEF BufferInv
  <1>5. CASE ByteBuffer_destroy
    BY <1>5 DEF ByteBuffer_destroy, BufferInv
  <1> QED
    BY <1>1, <1>2, <1>3, <1>4, <1>5 DEF BufferNext

-----------------------------------------------------------------------------
\* The inductive invariant of the containers.
IInv == HeapInv /\ ArenaInv /\ BufferInv

\* It holds at first and every step of every container keeps it.
THEOREM Inductive == Spec => []IInv
  <1>1. Init => IInv
    BY HeapInit DEF Init, IInv, ArenaInv, BufferInv
  <1>2. IInv /\ [Next]_vars => IInv'
    <2> SUFFICES ASSUME IInv, [Next]_vars PROVE IInv'
      OBVIOUS
    <2>0. HeapInv /\ ArenaInv /\ BufferInv
      BY DEF IInv
    <2>1. ASSUME arena' = arena PROVE ArenaInv'
      BY <2>0, <2>1 DEF ArenaInv
    <2>2. ASSUME buffer' = buffer PROVE BufferInv'
      BY <2>0, <2>2 DEF BufferInv
    <2>3. ASSUME mem' = mem, list' = list, map' = map PROVE HeapInv'
      BY <2>0, <2>3 DEF HeapInv, Shared, OwnsList, OwnsMap
    <2>4. CASE ListNext /\ UNCHANGED <<map, arena, buffer>>
      <3>1. PICK A, B : Shared(A, B)
        BY <2>0 DEF HeapInv
      <3>2. HeapInv'
        BY <2>0, <2>4, <3>1, HeapListStep
      <3> QED
        BY <2>1, <2>2, <2>4, <3>2 DEF IInv
    <2>5. CASE MapNext /\ UNCHANGED <<list, arena, buffer>>
      <3>1. PICK A, B : Shared(A, B)
        BY <2>0 DEF HeapInv
      <3>2. HeapInv'
        BY <2>0, <2>5, <3>1, HeapMapStep
      <3> QED
        BY <2>1, <2>2, <2>5, <3>2 DEF IInv
    <2>6. CASE ArenaNext /\ UNCHANGED <<mem, list, map, buffer>>
      <3>1. ArenaInv'
        BY <2>0, <2>6, ArenaStep
      <3> QED
        BY <2>2, <2>3, <2>6, <3>1 DEF IInv
    <2>7. CASE BufferNext /\ UNCHANGED <<mem, list, map, arena>>
      <3>1. BufferInv'
        BY <2>0, <2>7, BufferStep
      <3> QED
        BY <2>1, <2>3, <2>7, <3>1 DEF IInv
    <2>8. CASE UNCHANGED vars
      BY <2>1, <2>2, <2>3, <2>8 DEF IInv, vars
    <2> QED
      BY <2>4, <2>5, <2>6, <2>7, <2>8 DEF Next
  <1> QED
    BY <1>1, <1>2, PTL DEF Spec

\* The list's head and the map's object are addresses in use, the arena's position
\* and the buffer's size stay within the memory they were created with.
THEOREM TypeCorrect == Spec => []TypeOK
  <1>1. IInv => TypeOK
    <2> SUFFICES ASSUME IInv PROVE TypeOK
      OBVIOUS
    <2>1. PICK A, B : Shared(A, B)
      BY DEF IInv, HeapInv
    <2>2. list = None \/ list \in DOMAIN mem
      BY <2>1, OwnedInUse DEF Shared, OwnsList
    <2>3. map = None \/ map \in DOMAIN mem
      BY <2>1, OwnedInUse DEF Shared, OwnsMap
    <2>4. arena = None \/ arena.pos \in 0 .. ArenaSize
      BY SizesAssumption DEF IInv, ArenaInv, ArenaState, Aligned
    <2>5. buffer = None \/ /\ buffer.octets \in [1 .. MaxSize -> Octets]
                           /\ buffer.size \in 0 .. MaxSize
      BY DEF IInv, BufferInv, BufferState
    <2>6. DOMAIN mem \subseteq Heap
      BY DEF IInv, HeapInv
    <2> QED
      BY <2>2, <2>3, <2>4, <2>5, <2>6 DEF TypeOK
  <1> QED
    BY <1>1, Inductive, PTL

\* No leak and no dangling pointer: after any calls of the list and the map, the
\* blocks in use are those the live containers reach, and no block is reached by both.
THEOREM NoLeakNoDangling == Spec => []HeapExact
  <1>1. IInv => HeapExact
    <2> SUFFICES ASSUME IInv PROVE HeapExact
      OBVIOUS
    <2>1. PICK A, B : Shared(A, B)
      BY DEF IInv, HeapInv
    <2>2. DOMAIN mem \subseteq Heap
      BY DEF IInv, HeapInv
    <2>3. ListBlocks = A
      <3>1. CASE list = None
        BY <2>1, <3>1 DEF Shared, OwnsList, ListBlocks
      <3>2. CASE list # None
        <4>1. ListOwns(mem, list, A)
          BY <2>1, <3>2 DEF Shared, OwnsList
        <4>2. A = {list} \cup ToSet(Elements(mem, list))
          BY <2>2, <4>1, ListOperations
        <4> QED
          BY <3>2, <4>2 DEF ListBlocks
      <3> QED
        BY <3>1, <3>2
    <2>4. MapBlocks = B
      <3>1. CASE map = None
        BY <2>1, <3>1 DEF Shared, OwnsMap, MapBlocks
      <3>2. CASE map # None
        <4>1. PICK w : /\ Chain(mem, w) /\ MapObject(mem, map, w)
                       /\ B = Blocks(w) \cup Owned(mem, w) \cup {map}
          BY <2>1, <3>2 DEF Shared, OwnsMap, MapOwns
        <4>2. Addresses(mem)
          BY <2>2, HeapAssumption, FS_Subset DEF Addresses
        <4>3. {w[1]} \cup ToSet(Elements(mem, w[1])) = Blocks(w)
          BY <4>1, <4>2, WalkOfChain
        <4>4. ToSet(DataOf(mem, w[1])) = Owned(mem, w)
          BY <4>1, <4>2, DataOfChain
        <4>5. mem[map].entries = w[1]
          BY <4>1 DEF MapObject
        <4>6. MapBlocks = {map, w[1]} \cup ToSet(Elements(mem, w[1])) \cup ToSet(DataOf(mem, w[1]))
          BY <3>2, <4>5 DEF MapBlocks
        <4> QED
          BY <4>1, <4>3, <4>4, <4>6
      <3> QED
        BY <3>1, <3>2
    <2> QED
      BY <2>1, <2>3, <2>4 DEF Shared, HeapExact
  <1> QED
    BY <1>1, Inductive, PTL

\* The blocks taken from the arena are aligned, lie in it and do not overlap.
THEOREM BlocksApart == Spec => []ArenaBlocks
  <1>1. IInv => ArenaBlocks
    <2> SUFFICES ASSUME IInv, arena # None, NEW b \in arena.blocks
                 PROVE  /\ b[1] % PointerSize = 0
                        /\ b[1] + b[2] =< ArenaSize
                        /\ \A c \in arena.blocks : b # c => b[1] + b[2] =< c[1] \/ c[1] + c[2] =< b[1]
      BY DEF ArenaBlocks
    <2>1. /\ Aligned(arena.pos) /\ arena.pos =< ArenaSize /\ GivenOut(b, arena.pos)
          /\ \A c \in arena.blocks : b # c => Apart(b, c)
      BY DEF IInv, ArenaInv, ArenaState
    <2>2. PICK p, s, t : p = arena.pos /\ s = b[1] /\ t = b[2]
      OBVIOUS
    <2>3. p \in Nat /\ s \in Nat /\ t \in Nat /\ s + t =< p /\ p =< ArenaSize /\ Aligned(s)
      BY <2>1, <2>2 DEF GivenOut, Aligned
    <2>4. s % PointerSize = 0
      BY <2>3, AlignedSum
    <2>5. s + t =< ArenaSize
      BY <2>3, SizesAssumption
    <2> QED
      BY <2>1, <2>2, <2>4, <2>5 DEF Apart
  <1> QED
    BY <1>1, Inductive, PTL

-----------------------------------------------------------------------------
\* What the live list and the live map hold.
ListHolds == list # None => DataOf(mem, list) \in Seq(Data)

MapHolds == map # None => PairsOf(mem, map) \in Seq(Keys \X Values)

\* A step of the list is a step of the sequence it stands for.
LEMMA ListRefines ==
  ASSUME HeapInv, ListHolds, ListNext, UNCHANGED map
  PROVE  ListHolds' /\ Promise!ListStep
  <1>0. DOMAIN mem \subseteq Heap
    BY DEF HeapInv
  <1>1. PICK A, B : Shared(A, B)
    BY DEF HeapInv
  <1>2. HeapInv'
    BY <1>1, HeapListStep
  <1>3. DOMAIN mem' \subseteq Heap
    BY <1>2 DEF HeapInv
  <1>4. ASSUME list # None PROVE ListOwns(mem, list, A)
    BY <1>1, <1>4 DEF Shared, OwnsList
  <1>5. \A t \in Seq(Data) : t # None
    BY NoneAssumption
  <1>6. PICK s, t : s = DataOf(mem, list) /\ t = DataOf(mem', list')
    OBVIOUS
  <1>7. list # None => s \in Seq(Data) /\ s # None
    BY <1>5, <1>6 DEF ListHolds
  <1>8. ASSUME t \in Seq(Data) PROVE ListHolds' /\ t # None
    BY <1>5, <1>6, <1>8 DEF ListHolds
  <1>9. CASE ListCreate
    <2>1. /\ list = None /\ HasRoom(mem, 1) /\ mem' = LinkedList_create(mem).mem
          /\ list' = LinkedList_create(mem).ret /\ ret' = <<"created">>
      BY <1>9 DEF ListCreate
    <2>2. PICK m, m2, f : m = mem /\ m2 = mem' /\ f = list'
      OBVIOUS
    <2>3. f \in Heap /\ Chain(m2, <<f>>)
      BY <1>0, <2>1, <2>2, CreateEffect
    <2>4. PICK w : w = <<f>>
      OBVIOUS
    <2>5. DataOf(m2, w[1]) = Held(m2, w)
      BY <1>3, <2>2, <2>3, <2>4, HeapAddresses, DataIsHeld
    <2>6. t = << >>
      <3>1. Held(m2, w) = << >>
        BY <2>4 DEF Held
      <3> QED
        BY <1>6, <2>2, <2>4, <2>5, <3>1
    <2>7. list' # None
      BY <2>2, <2>3, NoneAssumption
    <2>8. Promise!ListCreate
      BY <1>6, <2>1, <2>6, <2>7 DEF Promise!ListCreate
    <2>9. t \in Seq(Data)
      BY <2>6
    <2> QED
      BY <1>8, <2>8, <2>9 DEF Promise!ListStep
  <1>10. CASE ListAdd
    <2>1. PICK d \in Data : mem' = LinkedList_add(mem, list, d)
      BY <1>10 DEF ListAdd
    <2>2. list # None /\ HasRoom(mem, 1) /\ list' = list /\ ret' = <<"void">>
      BY <1>10 DEF ListAdd
    <2>3. t = Append(s, d)
      BY <1>0, <1>4, <1>6, <1>7, <2>1, <2>2, ListContents
    <2>4. t \in Seq(Data)
      BY <1>7, <2>2, <2>3, EditsTyped
    <2>5. Promise!ListAdd
      BY <1>6, <1>7, <2>2, <2>3 DEF Promise!ListAdd
    <2> QED
      BY <1>8, <2>4, <2>5 DEF Promise!ListStep
  <1>11. CASE ListInsertAfter
    <2>1. PICK d, element : /\ d \in Data /\ element \in {list} \cup ToSet(Elements(mem, list))
                            /\ mem' = LinkedList_insertAfter(mem, element, d)
                            /\ ret' = <<"data", d>>
      BY <1>11 DEF ListInsertAfter
    <2>2. list # None /\ HasRoom(mem, 1) /\ list' = list
      BY <1>11 DEF ListInsertAfter
    <2>3. PICK i \in 0 .. Len(s) : t = InsertAt(s, i + 1, d)
      BY <1>0, <1>4, <1>6, <1>7, <2>1, <2>2, ListContents
    <2>4. t \in Seq(Data)
      <3>1. d \in Data /\ s \in Seq(Data)
        BY <1>7, <2>1, <2>2
      <3> QED
        BY <2>3, <3>1, EditsTyped
    <2>5. t = Promise!InsertAt(s, i + 1, d)
      BY <2>3 DEF InsertAt, Promise!InsertAt
    <2>6. Promise!ListInsertAfter
      BY <1>6, <1>7, <2>1, <2>2, <2>5 DEF Promise!ListInsertAfter
    <2> QED
      BY <1>8, <2>4, <2>6 DEF Promise!ListStep
  <1>12. CASE ListRemove
    <2>1. PICK d \in Data : /\ mem' = LinkedList_remove(mem, list, d).mem
                            /\ ret' = <<"bool", LinkedList_remove(mem, list, d).ret>>
      BY <1>12 DEF ListRemove
    <2>2. list # None /\ list' = list
      BY <1>12 DEF ListRemove
    <2>3. t = RemoveFirst(s, d) /\ (LinkedList_remove(mem, list, d).ret <=> Contains(s, d))
      BY <1>0, <1>4, <1>6, <1>7, <2>1, <2>2, ListContents
    <2>4. t \in Seq(Data)
      BY <1>7, <2>2, <2>3, EditsTyped
    <2>5. t = Promise!RemoveFirst(s, d)
      BY <2>3 DEF RemoveFirst, Promise!RemoveFirst, RemoveAt, Promise!RemoveAt, SelectInSeq,
                  Promise!SelectInSeq, Min, Promise!Min
    <2>6. LinkedList_remove(mem, list, d).ret = Promise!Contains(s, d)
      <3>1. LinkedList_remove(mem, list, d).ret \in BOOLEAN
        BY DEF LinkedList_remove
      <3>2. Contains(s, d) <=> Promise!Contains(s, d)
        BY DEF Contains, Promise!Contains
      <3>3. Promise!Contains(s, d) \in BOOLEAN
        BY DEF Promise!Contains
      <3> QED
        BY <2>3, <3>1, <3>2, <3>3
    <2>7. Promise!ListRemove
      BY <1>6, <1>7, <2>1, <2>2, <2>5, <2>6 DEF Promise!ListRemove
    <2> QED
      BY <1>8, <2>4, <2>7 DEF Promise!ListStep
  <1>13. ASSUME list # None, mem' = mem, list' = list PROVE t = s /\ ListHolds' /\ s # None
    BY <1>6, <1>7, <1>8, <1>13
  <1>14. CASE ListContains
    <2>1. PICK d \in Data : ret' = <<"bool", LinkedList_contains(mem, list, d)>>
      BY <1>14 DEF ListContains
    <2>2. list # None /\ list' = list /\ mem' = mem
      BY <1>14 DEF ListContains
    <2>3. LinkedList_contains(mem, list, d) <=> Contains(s, d)
      BY <1>0, <1>4, <1>6, <1>7, <2>2, ListContents
    <2>4. LinkedList_contains(mem, list, d) = Promise!Contains(s, d)
      <3>1. LinkedList_contains(mem, list, d) \in BOOLEAN
        BY DEF LinkedList_contains
      <3>2. Contains(s, d) <=> Promise!Contains(s, d)
        BY DEF Contains, Promise!Contains
      <3>3. Promise!Contains(s, d) \in BOOLEAN
        BY DEF Promise!Contains
      <3> QED
        BY <2>3, <3>1, <3>2, <3>3
    <2>5. Promise!ListContains
      BY <1>6, <1>13, <2>1, <2>2, <2>4 DEF Promise!ListContains
    <2> QED
      BY <1>13, <2>2, <2>5 DEF Promise!ListStep
  <1>15. CASE ListSize
    <2>1. list # None /\ list' = list /\ mem' = mem /\ ret' = <<"size", LinkedList_size(mem, list)>>
      BY <1>15 DEF ListSize
    <2>2. LinkedList_size(mem, list) = Len(s)
      BY <1>0, <1>4, <1>6, <1>7, <2>1, ListContents
    <2>3. Promise!ListSize
      BY <1>6, <1>13, <2>1, <2>2 DEF Promise!ListSize
    <2> QED
      BY <1>13, <2>1, <2>3 DEF Promise!ListStep
  <1>16. CASE ListGet
    <2>1. PICK i, a : /\ i \in Indexes /\ a = LinkedList_get(mem, list, i)
                      /\ ret' = IF a = Fault THEN <<"fault">> ELSE IF a = NULL THEN <<"NULL">>
                                ELSE <<"data", mem[a].data>>
      BY <1>16 DEF ListGet
    <2>2. list # None /\ list' = list /\ mem' = mem
      BY <1>16 DEF ListGet
    <2>3. PICK w : Chain(mem, w) /\ w[1] = list
      BY <1>4, <2>2 DEF ListOwns
    <2>4. s = Held(mem, w) /\ Addresses(mem)
      BY <1>0, <1>6, <2>3, HeapAddresses, DataIsHeld
    <2>5. i \in Int /\ Fault \notin DOMAIN mem /\ Fault # NULL
      BY <1>0, <2>1, ContentsAssumption
    <2>6. \/ s = << >> /\ i > 0 /\ a = Fault
          \/ ~(s = << >> /\ i > 0) /\ Max({i, 0}) < Len(s) /\ a # Fault /\ a # NULL
                /\ mem[a].data = s[Max({i, 0}) + 1]
          \/ ~(s = << >> /\ i > 0) /\ ~(Max({i, 0}) < Len(s)) /\ a = NULL
      <3>1. a = LinkedList_get(mem, w[1], i)
        BY <2>1, <2>3
      <3> QED
        BY <2>3, <2>4, <2>5, <3>1, GetHolds
    <2>7. PICK x : x = Max({i, 0}) /\ x = Promise!Max({i, 0})
      BY DEF Max, Promise!Max
    <2>8. ret' = IF s = << >> /\ i > 0 THEN <<"fault">>
                 ELSE IF x < Len(s) THEN <<"data", s[x + 1]>> ELSE <<"NULL">>
      BY <2>1, <2>5, <2>6, <2>7
    <2>9. Promise!ListGet
      BY <1>6, <1>13, <2>1, <2>2, <2>7, <2>8 DEF Promise!ListGet
    <2> QED
      BY <1>13, <2>2, <2>9 DEF Promise!ListStep
  <1>17. CASE ListSort
    <2>1. list # None /\ list' = list /\ mem' = StringUtils_sortList(mem, list) /\ ret' = <<"void">>
      BY <1>17 DEF ListSort
    <2>2. Comparable(Data)
      BY ContentsAssumption DEF Comparable
    <2>3. /\ t \in [1 .. Len(s) -> Data]
          /\ \A i \in 1 .. Len(t) - 1 : Compared(t[i + 1], t[i]) >= 0
          /\ \A d : Occurs(t, d) = Occurs(s, d)
      <3>1. ListOwns(mem, list, A) /\ s \in Seq(Data) /\ t = DataOf(StringUtils_sortList(mem, list), list)
        BY <1>4, <1>6, <1>7, <2>1
      <3> QED
        BY <1>0, <1>6, <2>2, <3>1, SortContents
    <2>4. t \in Seq(Data)
      <3>1. Len(s) \in Nat
        BY <1>7, <2>1, LenProperties
      <3> QED
        BY <2>3, <3>1
    <2>5. Promise!Rearranged(s, t)
      <3>1. ASSUME NEW S PROVE Promise!Cardinality(S) = Cardinality(S)
        BY Zenon DEF Cardinality, Promise!Cardinality
      <3>2. \A d \in Data : Promise!Count(t, d) = Promise!Count(s, d)
        BY <2>3, <3>1 DEF Promise!Count, Occurs
      <3> QED
        BY <3>2 DEF Promise!Rearranged
    <2>6. Promise!Ordered(t)
      BY <2>3 DEF Promise!Ordered, Compared
    <2>7. Promise!ListSort
      BY <1>6, <1>7, <2>1, <2>3, <2>5, <2>6 DEF Promise!ListSort
    <2> QED
      BY <1>8, <2>4, <2>7 DEF Promise!ListStep
  <1>18. CASE ListDestroyDeep \/ ListDestroyStatic
    <2>1. list # None /\ list' = None /\ ListHolds'
      BY <1>18 DEF ListDestroyDeep, ListDestroyStatic, ListHolds
    <2>2. ret' = <<"freed", s>> \/ ret' = <<"void">>
      <3>1. CASE ListDestroyDeep
        <4>1. ret' = <<"freed", Deleted(s)[LinkedList_size(mem, list)]>>
          BY <1>6, <3>1 DEF ListDestroyDeep, LinkedList_destroyDeep
        <4>2. LinkedList_size(mem, list) = Len(s)
          BY <1>0, <1>4, <1>6, <1>7, <2>1, ListContents
        <4>3. Deleted(s)[Len(s)] = s
          <5>1. NULL \notin Data /\ s \in Seq(Data)
            BY <1>7, <2>1, ContentsAssumption
          <5> QED
            BY <5>1, AllDeleted
        <4> QED
          BY <4>1, <4>2, <4>3
      <3>2. CASE ListDestroyStatic
        BY <3>2 DEF ListDestroyStatic
      <3> QED
        BY <1>18, <3>1, <3>2
    <2>3. Promise!ListDestroy
      BY <1>6, <1>7, <2>1, <2>2 DEF Promise!ListDestroy
    <2> QED
      BY <2>1, <2>3 DEF Promise!ListStep
  <1> QED
    BY <1>9, <1>10, <1>11, <1>12, <1>14, <1>15, <1>16, <1>17, <1>18 DEF ListNext

\* A step of the map is a step of the sequence of its pairs.
LEMMA MapRefines ==
  ASSUME HeapInv, MapHolds, MapNext, UNCHANGED list
  PROVE  MapHolds' /\ Promise!MapStep
  <1>0. DOMAIN mem \subseteq Heap
    BY DEF HeapInv
  <1>1. PICK A, B : Shared(A, B)
    BY DEF HeapInv
  <1>2. ASSUME map # None PROVE MapOwns(mem, map, B)
    BY <1>1, <1>2 DEF Shared, OwnsMap
  <1>3. PICK b, c : /\ b = (mem[map].compareKeys = "strcmp")
                    /\ c = (mem'[map'].compareKeys = "strcmp")
    OBVIOUS
  <1>4. b \in BOOLEAN /\ c \in BOOLEAN
    BY <1>3
  <1>5. PICK p, q : p = PairsOf(mem, map) /\ q = PairsOf(mem', map')
    OBVIOUS
  <1>6. p = MapPairs /\ q = MapPairs'
    BY <1>5 DEF PairsOf, MapPairs
  <1>7. PICK x, y : x = [byText |-> b, pairs |-> p] /\ y = [byText |-> c, pairs |-> q]
    OBVIOUS
  <1>8. x.byText = b /\ x.pairs = p /\ y.byText = c /\ y.pairs = q
    BY <1>7
  <1>9. /\ (IF map = None THEN None
            ELSE [byText |-> mem[map].compareKeys = "strcmp", pairs |-> MapPairs])
               = IF map = None THEN None ELSE x
        /\ (IF map' = None THEN None
            ELSE [byText |-> mem'[map'].compareKeys = "strcmp", pairs |-> MapPairs'])
               = IF map' = None THEN None ELSE y
    BY <1>3, <1>6, <1>7
  <1>10. ASSUME map # None PROVE p \in Seq(Keys \X Values) /\ x # None
    <2>1. p \in Seq(Keys \X Values)
      BY <1>5, <1>10 DEF MapHolds
    <2>2. x \in [byText : BOOLEAN, pairs : Seq(Keys \X Values)]
      BY <1>4, <1>7, <2>1
    <2> QED
      BY <2>1, <2>2, NoneAssumption
  <1>11. ASSUME q \in Seq(Keys \X Values) PROVE MapHolds' /\ y # None
    <2>1. y \in [byText : BOOLEAN, pairs : Seq(Keys \X Values)]
      BY <1>4, <1>7, <1>11
    <2> QED
      BY <1>5, <1>11, <2>1, NoneAssumption DEF MapHolds
  <1>12. ASSUME map # None, NEW key PROVE Promise!Position(key) = FirstPair(p, b, key)
    <2>1. PICK I : I = PairHits(p, b, key)
      OBVIOUS
    <2>2. I = {i \in 1 .. Len(p) : IF b THEN Text(key) = Text(p[i][1]) ELSE key = p[i][1]}
      BY <2>1 DEF PairHits
    <2> DEFINE M == IF map = None THEN None
                    ELSE [byText |-> mem[map].compareKeys = "strcmp", pairs |-> MapPairs]
    <2>3. M.byText = b /\ M.pairs = p
      BY <1>8, <1>9, <1>12
    <2>4. {i \in 1 .. Len(M.pairs) :
              IF M.byText THEN Text(key) = Text(M.pairs[i][1]) ELSE key = M.pairs[i][1]} = I
      <3> HIDE DEF M
      <3> QED
        BY <2>2, <2>3
    <2>5. Promise!Position(key) = IF I # {} THEN Promise!Min(I) ELSE 0
      BY <2>4 DEF Promise!Position, Promise!SelectInSeq, Promise!SameKey
    <2>6. Promise!Min(I) = Min(I)
      BY DEF Promise!Min, Min
    <2> QED
      BY <2>1, <2>5, <2>6 DEF FirstPair
  <1>13. CASE MapCreate
    <2>1. PICK compareKeys : /\ mem' = Map_create(mem, compareKeys).mem
                             /\ map' = Map_create(mem, compareKeys).ret
      BY <1>13 DEF MapCreate
    <2>2. map = None /\ HasRoom(mem, 2) /\ ret' = <<"created">>
      BY <1>13 DEF MapCreate
    <2>3. q = << >> /\ map' # None
      <3>1. PICK B2 : MapOwns(mem', map', B2) /\ B2 \subseteq Heap
        BY <1>0, <2>1, <2>2, MapCreateEffect
      <3>2. PairsOf(mem', map') = << >>
        BY <1>0, <2>1, <2>2, MapCreateEffect
      <3>3. map' \in B2
        BY <3>1, OwnedInUse
      <3> QED
        BY <1>5, <3>1, <3>2, <3>3, NoneAssumption
    <2>4. Promise!MapCreate
      BY <1>4, <1>7, <1>9, <2>2, <2>3 DEF Promise!MapCreate
    <2>5. q \in Seq(Keys \X Values)
      BY <2>3
    <2> QED
      BY <1>11, <2>4, <2>5 DEF Promise!MapStep
  <1>14. CASE MapAddEntry
    <2>1. PICK key \in Keys, value \in Values : /\ mem' = Map_addEntry(mem, map, key, value)
                                                /\ ret' = <<"key", key>>
      BY <1>14 DEF MapAddEntry
    <2>2. map # None /\ HasRoom(mem, 2) /\ map' = map
      BY <1>14 DEF MapAddEntry
    <2>3. q = Grown(p, Len(p), <<key, value>>) /\ c = b
      BY <1>0, <1>2, <1>3, <1>5, <2>1, <2>2, MapAddEffect
    <2>4. PICK pair \in Keys \X Values : pair = <<key, value>>
      OBVIOUS
    <2>5. q = Append(p, pair) /\ q \in Seq(Keys \X Values)
      <3>1. PICK S : S = Keys \X Values
        OBVIOUS
      <3>2. p \in Seq(S) /\ pair \in S
        BY <1>10, <2>2, <3>1
      <3>3. Append(p, pair) = Grown(p, Len(p), pair) /\ Append(p, pair) \in Seq(S)
        BY <3>2, GrownIsInserted
      <3> QED
        BY <2>3, <2>4, <3>1, <3>3
    <2>6. Promise!MapAddEntry
      BY <1>7, <1>8, <1>9, <1>10, <2>1, <2>2, <2>3, <2>4, <2>5 DEF Promise!MapAddEntry
    <2> QED
      BY <1>11, <2>5, <2>6 DEF Promise!MapStep
  <1>15. ASSUME map # None, NEW key
         PROVE  /\ Promise!Position(key) = FirstWith(mem, map, key)
                /\ FirstWith(mem, map, key) \in 0 .. Len(p)
                /\ FirstWith(mem, map, key) # 0 =>
                      /\ FirstWith(mem, map, key) \in 1 .. Len(p)
                      /\ p[FirstWith(mem, map, key)][2] \in Values
    <2>1. MapOwns(mem, map, B)
      BY <1>2, <1>15
    <2>2. PICK i : i = FirstWith(mem, map, key)
      OBVIOUS
    <2>3. i = FirstPair(p, b, key) /\ i \in 0 .. Len(p) /\ Len(p) \in Nat
      BY <1>0, <1>3, <1>5, <2>1, <2>2, MapReads
    <2>4. Promise!Position(key) = i
      BY <1>12, <1>15, <2>3
    <2>5. i # 0 => i \in 1 .. Len(p)
      BY <2>3
    <2>6. i # 0 => p[i] \in Keys \X Values
      BY <1>10, <1>15, <2>5, ElementOfSeq
    <2>7. i # 0 => p[i][2] \in Values
      BY <2>6
    <2> QED
      BY <2>2, <2>3, <2>4, <2>5, <2>7
  <1>16. CASE MapRemoveEntry
    <2>1. PICK key \in Keys, deleteKey \in BOOLEAN :
             /\ mem' = Map_removeEntry(mem, map, key, deleteKey).mem
             /\ ret' = (IF Map_removeEntry(mem, map, key, deleteKey).ret = NULL THEN <<"NULL">>
                        ELSE <<"value", Map_removeEntry(mem, map, key, deleteKey).ret>>)
                       \o Map_removeEntry(mem, map, key, deleteKey).freed
      BY <1>16 DEF MapRemoveEntry
    <2>2. map # None /\ map' = map
      BY <1>16 DEF MapRemoveEntry
    <2>3. PICK i : i = FirstWith(mem, map, key)
      OBVIOUS
    <2>4. /\ Promise!Position(key) = i /\ i \in 0 .. Len(p)
          /\ i # 0 => i \in 1 .. Len(p) /\ p[i][2] \in Values
      BY <1>15, <2>2, <2>3
    <2>5. /\ c = b
          /\ i # 0 => q = Cut(p, i)
          /\ i = 0 => mem' = mem
      BY <1>0, <1>2, <1>3, <1>5, <2>1, <2>2, <2>3, MapRemoveEffect
    <2>6. /\ Map_removeEntry(mem, map, key, deleteKey).ret = IF i = 0 THEN NULL ELSE p[i][2]
          /\ Map_removeEntry(mem, map, key, deleteKey).freed
                = IF i # 0 /\ deleteKey THEN <<p[i][1]>> ELSE << >>
      BY <1>0, <1>2, <1>5, <2>2, <2>3, MapReads
    <2>7. CASE i = 0
      <3>1. q = p /\ y = x
        BY <1>5, <1>7, <2>2, <2>5, <2>7
      <3>2. ret' = <<"NULL">>
        BY <2>1, <2>6, <2>7
      <3>3. Promise!ValueOf(key) = <<"NULL">>
        BY <2>4, <2>7 DEF Promise!ValueOf
      <3>4. Promise!MapRemoveEntry
        BY <1>9, <1>10, <2>2, <2>4, <2>7, <3>1, <3>2, <3>3 DEF Promise!MapRemoveEntry
      <3> QED
        BY <1>10, <1>11, <2>2, <3>1, <3>4 DEF Promise!MapStep
    <2>8. CASE i # 0
      <3>1. q = RemoveAt(p, i) /\ q \in Seq(Keys \X Values)
        BY <1>10, <2>2, <2>4, <2>5, <2>8, EditsTyped
      <3>2. q = Promise!RemoveAt(p, i)
        BY <3>1 DEF RemoveAt, Promise!RemoveAt
      <3>3. PICK value : value = p[i][2] /\ value # NULL
        BY <2>4, <2>8, ContentsAssumption
      <3>4. ret' = <<"value", value>> \o (IF deleteKey THEN <<p[i][1]>> ELSE << >>)
        BY <2>1, <2>6, <2>8, <3>3
      <3>5. Promise!ValueOf(key) = <<"value", value>>
        BY <1>8, <1>9, <2>2, <2>4, <2>8, <3>3 DEF Promise!ValueOf
      <3>6. y = [byText |-> b, pairs |-> Promise!RemoveAt(p, i)]
        BY <1>7, <2>5, <3>2
      <3>7. Promise!MapRemoveEntry
        BY <1>8, <1>9, <1>10, <2>2, <2>4, <2>8, <3>4, <3>5, <3>6 DEF Promise!MapRemoveEntry
      <3> QED
        BY <1>11, <3>1, <3>7 DEF Promise!MapStep
    <2> QED
      BY <2>7, <2>8
  <1>17. ASSUME map # None, mem' = mem, map' = map PROVE y = x /\ MapHolds' /\ x # None
    BY <1>3, <1>5, <1>7, <1>10, <1>11, <1>17
  <1>18. CASE MapGetEntry
    <2>1. PICK key \in Keys : ret' = IF Map_getEntry(mem, map, key) = NULL THEN <<"NULL">>
                                     ELSE <<"value", Map_getEntry(mem, map, key)>>
      BY <1>18 DEF MapGetEntry
    <2>2. map # None /\ map' = map /\ mem' = mem
      BY <1>18 DEF MapGetEntry
    <2>3. PICK i : i = FirstWith(mem, map, key)
      OBVIOUS
    <2>4. /\ Promise!Position(key) = i
          /\ i # 0 => p[i][2] \in Values
      BY <1>15, <2>2, <2>3
    <2>5. Map_getEntry(mem, map, key) = IF i = 0 THEN NULL ELSE p[i][2]
      BY <1>0, <1>2, <1>5, <2>2, <2>3, MapReads
    <2>6. ret' = IF i = 0 THEN <<"NULL">> ELSE <<"value", p[i][2]>>
      BY <2>1, <2>4, <2>5, ContentsAssumption
    <2>7. ret' = Promise!ValueOf(key)
      BY <1>8, <1>9, <2>2, <2>4, <2>6 DEF Promise!ValueOf
    <2>8. Promise!MapGetEntry
      BY <1>9, <1>17, <2>2, <2>7 DEF Promise!MapGetEntry
    <2> QED
      BY <1>17, <2>2, <2>8 DEF Promise!MapStep
  <1>19. CASE MapSize
    <2>1. map # None /\ map' = map /\ mem' = mem /\ ret' = <<"size", Map_size(mem, map)>>
      BY <1>19 DEF MapSize
    <2>2. Map_size(mem, map) = Len(p)
      BY <1>0, <1>2, <1>5, <2>1, MapReads
    <2>3. Promise!MapSize
      BY <1>8, <1>9, <1>17, <2>1, <2>2 DEF Promise!MapSize
    <2> QED
      BY <1>17, <2>1, <2>3 DEF Promise!MapStep
  <1>20. CASE MapDelete
    <2>1. PICK deleteKey \in BOOLEAN, deleteValues \in BOOLEAN :
             ret' = <<"freed", MapDeleted(mem, map, deleteKey, deleteValues).freed>>
      BY <1>20 DEF MapDelete, Map_delete, Map_deleteStatic, Map_deleteDeep
    <2>2. map # None /\ map' = None
      BY <1>20 DEF MapDelete
    <2>3. MapDeleted(mem, map, deleteKey, deleteValues).freed
             = GivenUp(p, deleteKey, deleteValues)
      BY <1>0, <1>2, <1>5, <2>2, MapReads
    <2>4. Promise!MapDelete
      <3>1. ret' = <<"freed", GivenUp(p, deleteKey, deleteValues)>>
        BY <2>1, <2>3
      <3> QED
        BY <1>8, <1>9, <1>10, <2>2, <3>1 DEF Promise!MapDelete, GivenUp
    <2>5. MapHolds'
      BY <2>2 DEF MapHolds
    <2> QED
      BY <2>4, <2>5 DEF Promise!MapStep
  <1> QED
    BY <1>13, <1>14, <1>16, <1>18, <1>19, <1>20 DEF MapNext

-----------------------------------------------------------------------------
\* The cells of the arena's list, named by the order they were allocated in, are a
\* chain from the first one.
Cells == [data : Data \cup {NULL}, next : Nat]

CellsHold(c) ==
    /\ c \in Seq(Cells) /\ \E w : Chain(c, w) /\ w[1] = 1
    /\ DataOf(c, 1) \in Seq(Data)

ArenaHolds == arena # None => CellsHold(arena.cells)

\* The head alone.
LEMMA FirstCell ==
  ASSUME NEW c, c = <<[data |-> NULL, next |-> NULL]>>
  PROVE  CellsHold(c) /\ DataOf(c, 1) = << >>
  <1>1. DOMAIN c = {1} /\ c[1] = [data |-> NULL, next |-> NULL]
    BY DEF NULL
  <1>2. PICK w : w = <<1>>
    OBVIOUS
  <1>3. w[1] = 1 /\ Len(w) = 1 /\ w \in Seq(DOMAIN c) /\ w # << >> /\ 1 .. 1 = {1} /\ 1 .. 0 = {}
    BY <1>1, <1>2
  <1>4. Chain(c, w)
    <2>1. NoRepeats(w)
      BY <1>3 DEF NoRepeats
    <2>2. c[1].next = NULL /\ c[1].data = NULL
      BY <1>1
    <2>3. Linked(c, w)
      BY <1>1, <1>3, <2>2 DEF Linked, IsCell
    <2> QED
      BY <1>3, <2>1, <2>3 DEF Chain
  <1>5. Addresses(c)
    <2>1. IsFiniteSet({1})
      BY FS_Singleton
    <2> QED
      BY <1>1, <2>1 DEF Addresses, NULL
  <1>6. DataOf(c, 1) = << >>
    <2>1. DataOf(c, w[1]) = Held(c, w)
      BY <1>4, <1>5, DataIsHeld
    <2>2. Held(c, w) = << >>
      BY <1>3 DEF Held
    <2> QED
      BY <1>3, <2>1, <2>2
  <1>7. c \in Seq(Cells)
    <2>1. [data |-> NULL, next |-> NULL] \in Cells
      BY DEF Cells, NULL
    <2> QED
      BY <2>1
  <1>8. DataOf(c, 1) \in Seq(Data)
    <2>1. << >> \in Seq(Data)
      OBVIOUS
    <2> QED
      BY <1>6, <2>1
  <1>9. \E v : Chain(c, v) /\ v[1] = 1
    BY <1>3, <1>4
  <1> QED
    BY <1>6, <1>7, <1>8, <1>9 DEF CellsHold

\* One more.
LEMMA CellsGrow ==
  ASSUME NEW c, CellsHold(c), NEW d \in Data,
         NEW c2, c2 = [Append(c, [data |-> d, next |-> NULL])
                          EXCEPT ![LinkedList_getLastElement(c, 1)].next = Len(c) + 1]
  PROVE  CellsHold(c2) /\ DataOf(c2, 1) = Append(DataOf(c, 1), d)
  <1>1. PICK n \in Nat : n = Len(c) /\ DOMAIN c = 1 .. n /\ c \in Seq(Cells)
    BY LenProperties DEF CellsHold
  <1>2. PICK w : Chain(c, w) /\ w[1] = 1
    BY DEF CellsHold
  <1>3. PICK r, a : r = [data |-> d, next |-> NULL] /\ a = Append(c, r)
    OBVIOUS
  <1>4. /\ a \in Seq(Cells) /\ Len(a) = n + 1 /\ DOMAIN a = 1 .. n + 1
        /\ a[n + 1] = r /\ \A i \in 1 .. n : a[i] = c[i]
    <2>1. r \in Cells
      BY <1>3 DEF Cells, NULL
    <2>2. a \in Seq(Cells) /\ Len(a) = n + 1 /\ a[n + 1] = r /\ \A i \in 1 .. n : a[i] = c[i]
      BY <1>1, <1>3, <2>1, AppendProperties
    <2>3. DOMAIN a = 1 .. n + 1
      BY <2>2, LenProperties
    <2> QED
      BY <2>2, <2>3
  <1>5. Addresses(c)
    <2>1. IsFiniteSet(1 .. n)
      <3>1. 1 \in Int /\ n \in Int
        OBVIOUS
      <3> QED
        BY <3>1, FS_Interval
    <2>2. 1 .. n \subseteq Nat \ {0}
      OBVIOUS
    <2> QED
      BY <1>1, <2>1, <2>2 DEF Addresses, NULL
  <1>6. PICK f \in Nat : f = n + 1
    OBVIOUS
  <1>7. PICK x : x = LinkedList_getLastElement(c, 1) /\ c2 = [a EXCEPT ![x].next = f]
    BY <1>1, <1>3, <1>6
  <1>8. LinksIn(c, w, Len(w), f, d, c2)
    <2>1. f \notin DOMAIN c /\ DOMAIN a = DOMAIN c \cup {f}
      BY <1>1, <1>4, <1>6
    <2>2. a[f] = [data |-> d, next |-> NULL] /\ \A y \in DOMAIN c : a[y] = c[y]
      BY <1>1, <1>3, <1>4, <1>6
    <2>3. c2 = [a EXCEPT ![LinkedList_getLastElement(c, w[1])].next = f]
      BY <1>2, <1>7
    <2> QED
      BY <1>2, <1>5, <2>1, <2>2, <2>3, LinkEffect
  <1>9. PICK L \in Nat \ {0} : L = Len(w)
    BY <1>2, LenProperties, EmptySeq DEF Chain
  <1>10. PICK h : h = Held(c, w) /\ h = DataOf(c, 1) /\ h \in Seq(Data)
    <2>1. DataOf(c, w[1]) = Held(c, w)
      BY <1>2, <1>5, DataIsHeld
    <2> QED
      BY <1>2, <2>1 DEF CellsHold
  <1>11. Len(h) = L - 1
    BY <1>9, <1>10 DEF Held
  <1>12. DataOf(c2, 1) = Append(h, d)
    <2>1. f \in Nat \ {NULL} /\ L \in 1 .. Len(w)
      BY <1>6, <1>9 DEF NULL
    <2>2. LinksIn(c, w, L, f, d, c2) /\ Chain(c, w)
      BY <1>2, <1>8, <1>9
    <2>3. DataOf(c2, w[1]) = Grown(Held(c, w), L - 1, d)
      <3>1. PICK e : e = c2
        OBVIOUS
      <3>2. LinksIn(c, w, L, f, d, e)
        BY <2>2, <3>1
      <3>3. DataOf(e, w[1]) = Grown(Held(c, w), L - 1, d)
        BY ONLY <1>5, <2>1, <2>2, <3>2, LinkInHolds
      <3> QED
        BY <3>1, <3>3
    <2>4. Append(h, d) = Grown(h, Len(h), d)
      BY <1>10, GrownIsInserted
    <2> QED
      BY <1>2, <1>10, <1>11, <2>3, <2>4
  <1>13. \E v : Chain(c2, v) /\ v[1] = 1
    <2>1. Len(w) \in 1 .. Len(w)
      BY <1>9
    <2>2. Chain(c2, Grown(w, Len(w), f))
      BY <1>2, <1>8, <2>1, ChainGrows
    <2>3. Grown(w, Len(w), f)[1] = w[1]
      BY <1>2, <1>8, <2>1, LinkInOwns, ZenonT(40)
    <2> QED
      BY <1>2, <2>2, <2>3
  <1>14. c2 \in Seq(Cells)
    <2>1. a \in [1 .. n + 1 -> Cells]
      BY <1>4, LenProperties
    <2>2. \A y \in 1 .. n + 1 : [a[y] EXCEPT !.next = f] \in Cells
      BY <1>6, <2>1 DEF Cells
    <2>3. c2 = [y \in DOMAIN a |-> IF y = x THEN [a[y] EXCEPT !.next = f] ELSE a[y]]
      BY <1>7
    <2>4. PICK k \in Nat : k = n + 1
      OBVIOUS
    <2>5. \A y \in 1 .. k : (IF y = x THEN [a[y] EXCEPT !.next = f] ELSE a[y]) \in Cells
      BY <2>1, <2>2, <2>4
    <2>6. c2 = [y \in 1 .. k |-> IF y = x THEN [a[y] EXCEPT !.next = f] ELSE a[y]]
      BY <1>4, <2>3, <2>4
    <2>7. c2 \in [1 .. k -> Cells]
      BY <2>5, <2>6
    <2>8. \A S, q : q \in [1 .. k -> S] => q \in Seq(S)
      BY <2>4
    <2> QED
      BY <2>7, <2>8
  <1>15. DataOf(c2, 1) \in Seq(Data)
    <2>1. Append(h, d) \in Seq(Data)
      BY <1>10
    <2> QED
      BY <1>12, <2>1
  <1> QED
    BY <1>10, <1>12, <1>13, <1>14, <1>15 DEF CellsHold

\* An arena that holds such cells is not the absence of one.
LEMMA ArenaIsOne ==
  ASSUME NEW a, ArenaState(a), a.cells \in Seq(Cells)
  PROVE  a # None
  <1>1. PICK p, c, b : a = [pos |-> p, cells |-> c, blocks |-> b]
    BY DEF ArenaState
  <1>2. p = a.pos /\ c = a.cells /\ b = a.blocks
    BY <1>1
  <1>3. p \in Nat /\ c \in Seq(Cells)
    BY <1>2 DEF ArenaState, Aligned
  <1>4. b \in SUBSET (Nat \X Nat)
    <2>1. ASSUME NEW x \in b PROVE x \in Nat \X Nat
      <3>1. GivenOut(x, p)
        BY <1>2, <2>1 DEF ArenaState
      <3>2. x = <<x[1], x[2]>> /\ x[1] \in Nat /\ x[2] \in Nat
        BY <3>1 DEF GivenOut, Aligned
      <3> QED
        BY <3>2
    <2> QED
      BY <2>1
  <1>5. a \in [pos : Nat, cells : Seq(Cells), blocks : SUBSET (Nat \X Nat)]
    BY <1>1, <1>3, <1>4
  <1> QED
    BY <1>5, NoneAssumption DEF Cells

\* Taking a block leaves the cells.
LEMMA AllocateKeepsCells ==
  ASSUME NEW a, a = [pos |-> a.pos, cells |-> a.cells, blocks |-> a.blocks], NEW size, NEW cells
  PROVE  /\ MemoryAllocator_allocate(a, size).cells = a.cells
         /\ [MemoryAllocator_allocate(a, size) EXCEPT !.cells = cells].cells = cells
  <1>1. PICK p, c, b : a = [pos |-> p, cells |-> c, blocks |-> b]
    OBVIOUS
  <1>2. PICK q, e : MemoryAllocator_allocate(a, size) = [a EXCEPT !.pos = q, !.blocks = e]
    BY DEF MemoryAllocator_allocate
  <1>3. MemoryAllocator_allocate(a, size) = [pos |-> q, cells |-> c, blocks |-> e]
    BY <1>1, <1>2
  <1> QED
    BY <1>1, <1>3

\* A step of the arena is a step of the sequence its list stands for.
LEMMA ArenaRefines ==
  ASSUME ArenaInv, ArenaHolds, ArenaNext
  PROVE  ArenaHolds' /\ Promise!ArenaStep
  <1>0. ArenaInv'
    BY ArenaStep
  <1>1. PICK s, t : s = DataOf(arena.cells, 1) /\ t = DataOf(arena'.cells, 1)
    OBVIOUS
  <1>2. \A x \in Seq(Data) : x # None
    BY NoneAssumption
  <1>3. arena # None => s \in Seq(Data) /\ s # None /\ CellsHold(arena.cells) /\ ArenaState(arena)
    BY <1>1, <1>2 DEF ArenaHolds, CellsHold, ArenaInv
  <1>4. ASSUME CellsHold(arena'.cells), ArenaState(arena')
        PROVE  ArenaHolds' /\ t \in Seq(Data) /\ t # None /\ arena' # None
    <2>1. arena' # None
      BY <1>4, ArenaIsOne DEF CellsHold
    <2>2. t \in Seq(Data) /\ t # None
      BY <1>1, <1>2, <1>4 DEF CellsHold
    <2> QED
      BY <1>4, <2>1, <2>2 DEF ArenaHolds
  <1>5. HeadSize \in Nat /\ CellSize \in Nat
    BY SizesAssumption DEF HeadSize, CellSize
  <1>6. ASSUME arena # None, arena' = arena
        PROVE  ArenaHolds' /\ t = s /\ arena' # None
    BY <1>1, <1>3, <1>6 DEF ArenaHolds
  <1>7. CASE MemAllocLinkedList_create
    <2>1. PICK a, cells : /\ a = [pos |-> 0, cells |-> << >>, blocks |-> {}]
                          /\ MemoryAllocator_fits(a, HeadSize)
                          /\ cells = <<[data |-> NULL, next |-> NULL]>>
                          /\ arena' = [MemoryAllocator_allocate(a, HeadSize) EXCEPT !.cells = cells]
      BY <1>7 DEF MemAllocLinkedList_create
    <2>2. arena = None /\ ret' = <<"created">>
      BY <1>7 DEF MemAllocLinkedList_create, Alone
    <2>3. a = [pos |-> a.pos, cells |-> a.cells, blocks |-> a.blocks]
      BY <2>1
    <2>4. arena'.cells = cells
      BY <2>1, <2>3, AllocateKeepsCells
    <2>5. ArenaState(arena')
      <3>1. ArenaState(a)
        <4>1. a.pos = 0 /\ a.blocks = {}
          BY <2>1
        <4>2. Aligned(0)
          BY SizesAssumption DEF Aligned
        <4> QED
          BY <2>3, <4>1, <4>2, SizesAssumption DEF ArenaState
      <3> QED
        BY <1>5, <2>1, <3>1, AllocateEffect
    <2>6. CellsHold(arena'.cells) /\ t = << >>
      BY <1>1, <2>1, <2>4, FirstCell
    <2>7. ArenaHolds' /\ arena' # None
      BY <1>4, <2>5, <2>6
    <2>8. Promise!ArenaCreate
      BY <1>1, <2>2, <2>6, <2>7 DEF Promise!ArenaCreate
    <2> QED
      BY <2>7, <2>8 DEF Promise!ArenaStep
  <1>8. CASE MemAllocLinkedList_add
    <2>1. PICK d \in Data :
             \/ /\ MemoryAllocator_fits(arena, CellSize) /\ ret' = <<"data", d>>
                /\ arena' = [MemoryAllocator_allocate(arena, CellSize) EXCEPT
                               !.cells = [Append(@, [data |-> d, next |-> NULL])
                                             EXCEPT ![LinkedList_getLastElement(@, 1)].next
                                                       = Len(arena.cells) + 1]]
             \/ ret' = <<"NULL">> /\ arena' = arena
      BY <1>8 DEF MemAllocLinkedList_add
    <2>2. arena # None
      BY <1>8 DEF MemAllocLinkedList_add
    <2>3. CASE ret' = <<"NULL">> /\ arena' = arena
      <3>1. Promise!ArenaAdd
        BY <1>1, <1>3, <1>6, <2>2, <2>3 DEF Promise!ArenaAdd
      <3> QED
        BY <1>6, <2>2, <2>3, <3>1 DEF Promise!ArenaStep
    <2>4. CASE /\ MemoryAllocator_fits(arena, CellSize) /\ ret' = <<"data", d>>
               /\ arena' = [MemoryAllocator_allocate(arena, CellSize) EXCEPT
                               !.cells = [Append(@, [data |-> d, next |-> NULL])
                                             EXCEPT ![LinkedList_getLastElement(@, 1)].next
                                                       = Len(arena.cells) + 1]]
      <3>1. PICK a, c : a = MemoryAllocator_allocate(arena, CellSize) /\ c = arena.cells
        OBVIOUS
      <3>2. PICK c2 : c2 = [Append(c, [data |-> d, next |-> NULL])
                               EXCEPT ![LinkedList_getLastElement(c, 1)].next = Len(c) + 1]
        OBVIOUS
      <3>3. a.cells = c
        BY <1>3, <2>2, <3>1, AllocateKeepsCells DEF ArenaState
      <3>4. arena' = [a EXCEPT !.cells = c2]
        BY <2>4, <3>1, <3>2, <3>3
      <3>5. arena'.cells = c2
        BY <1>3, <2>2, <3>1, <3>4, AllocateKeepsCells DEF ArenaState
      <3>6. ArenaState(arena')
        <4>1. ArenaState(arena) /\ MemoryAllocator_fits(arena, CellSize)
          BY <1>3, <2>2, <2>4
        <4>2. ArenaState([MemoryAllocator_allocate(arena, CellSize) EXCEPT !.cells = c2])
          BY <1>5, <4>1, AllocateEffect
        <4> QED
          BY <3>1, <3>4, <4>2
      <3>7. CellsHold(c2) /\ DataOf(c2, 1) = Append(DataOf(c, 1), d)
        BY <1>3, <2>2, <3>1, <3>2, CellsGrow
      <3>8. t = Append(s, d) /\ ArenaHolds' /\ arena' # None
        BY <1>1, <1>4, <3>1, <3>5, <3>6, <3>7
      <3>9. Promise!ArenaAdd
        BY <1>1, <1>3, <2>2, <2>4, <3>8 DEF Promise!ArenaAdd
      <3> QED
        BY <3>8, <3>9 DEF Promise!ArenaStep
    <2> QED
      BY <2>1, <2>3, <2>4
  <1>9. CASE ArenaAllocate
    <2>1. PICK size \in BlockSizes :
             \/ /\ MemoryAllocator_fits(arena, size)
                /\ arena' = MemoryAllocator_allocate(arena, size) /\ ret' = <<"block">>
             \/ ret' = <<"NULL">> /\ arena' = arena
      BY <1>9 DEF ArenaAllocate
    <2>2. arena # None /\ size \in Nat
      BY <1>9, SizesAssumption DEF ArenaAllocate
    <2>3. arena' # None /\ t = s /\ ArenaHolds'
      <3>1. CASE arena' = arena
        BY <1>6, <2>2, <3>1
      <3>2. CASE MemoryAllocator_fits(arena, size) /\ arena' = MemoryAllocator_allocate(arena, size)
        <4>1. arena'.cells = arena.cells
          BY <1>3, <2>2, <3>2, AllocateKeepsCells DEF ArenaState
        <4>2. ArenaState(arena')
          BY <1>3, <2>2, <3>2, AllocateEffect
        <4>3. CellsHold(arena'.cells)
          BY <1>3, <2>2, <4>1
        <4> QED
          BY <1>1, <1>4, <4>1, <4>2, <4>3
      <3> QED
        BY <2>1, <3>1, <3>2
    <2>4. Promise!ArenaAllocate
      BY <1>1, <1>3, <2>1, <2>2, <2>3 DEF Promise!ArenaAllocate
    <2> QED
      BY <2>3, <2>4 DEF Promise!ArenaStep
  <1> QED
    BY <1>7, <1>8, <1>9 DEF ArenaNext

-----------------------------------------------------------------------------
\* The octets a buffer holds: the first of its memory.
LEMMA FirstOctets ==
  ASSUME NEW S, NEW N \in Nat, NEW o \in [1 .. N -> S], NEW k \in 0 .. N
  PROVE  /\ SubSeq(o, 1, k) \in [1 .. k -> S] /\ Len(SubSeq(o, 1, k)) = k
         /\ \A i \in 1 .. k : SubSeq(o, 1, k)[i] = o[i]
  <1>1. k \in Nat /\ k =< N
    OBVIOUS
  <1>2. \A i \in 1 .. k : o[i] \in S
    BY <1>1
  <1>3. 1 \in Int /\ k \in Int
    BY <1>1
  <1>4. /\ SubSeq(o, 1, k) \in Seq(S)
        /\ Len(SubSeq(o, 1, k)) = IF 1 <= k THEN k - 1 + 1 ELSE 0
        /\ \A i \in 1 .. k - 1 + 1 : SubSeq(o, 1, k)[i] = o[1 + i - 1]
    BY <1>2, <1>3, SubSeqProperties
  <1>5. Len(SubSeq(o, 1, k)) = k /\ k - 1 + 1 = k
    BY <1>1, <1>4
  <1>6. \A i \in 1 .. k : SubSeq(o, 1, k)[i] = o[i]
    BY <1>4, <1>5
  <1>7. SubSeq(o, 1, k) \in [1 .. k -> S]
    <2>1. SubSeq(o, 1, k) \in [1 .. Len(SubSeq(o, 1, k)) -> S]
      BY <1>4, LenProperties
    <2> QED
      BY <1>5, <2>1
  <1> QED
    BY <1>5, <1>6, <1>7

\* Octets written behind them follow them.
LEMMA OverwriteContents ==
  ASSUME NEW b, BufferState(b), NEW octets \in Seq(Octets), b.size + Len(octets) =< MaxSize
  PROVE  SubSeq(Overwrite(b, octets).octets, 1, Overwrite(b, octets).size)
            = SubSeq(b.octets, 1, b.size) \o octets
  <1>1. PICK o, s : b = [octets |-> o, size |-> s]
    BY DEF BufferState
  <1>2. b.octets = o /\ b.size = s /\ o \in [1 .. MaxSize -> Octets] /\ s \in 0 .. MaxSize
    BY <1>1 DEF BufferState
  <1>3. PICK n \in Nat : n = Len(octets) /\ octets \in [1 .. n -> Octets]
    BY LenProperties
  <1>4. PICK p, N : /\ N = MaxSize
                    /\ p = [i \in 1 .. MaxSize |-> IF i > s /\ i =< s + n THEN octets[i - s] ELSE o[i]]
    OBVIOUS
  <1>5. N \in Nat /\ s \in Nat /\ s + n =< N /\ s + n \in 0 .. N
    BY <1>2, <1>3, <1>4, SizesAssumption
  <1>6. Overwrite(b, octets) = [octets |-> p, size |-> s + n]
    <2>1. Overwrite(b, octets) = [b EXCEPT !.octets = p, !.size = s + n]
      BY <1>2, <1>3, <1>4 DEF Overwrite
    <2> QED
      BY <1>1, <2>1
  <1>7. PICK k \in Nat : k = s + n
    BY <1>3, <1>5
  <1>8. PICK q : q = Overwrite(b, octets) /\ q.octets = p /\ q.size = k
    BY <1>6, <1>7
  <1>9. p \in [1 .. N -> Octets]
    <2>1. BufferState(q)
      BY <1>8, OverwriteEffect
    <2> QED
      BY <1>4, <1>8, <2>1 DEF BufferState
  <1>10. PICK u, v : u = SubSeq(p, 1, k) /\ v = SubSeq(o, 1, s)
    OBVIOUS
  <1>11. u \in [1 .. k -> Octets] /\ Len(u) = k /\ \A i \in 1 .. k : u[i] = p[i]
    <2>1. k \in 0 .. N
      BY <1>5, <1>7
    <2> QED
      BY <1>5, <1>9, <1>10, <2>1, FirstOctets
  <1>12. v \in [1 .. s -> Octets] /\ Len(v) = s /\ \A i \in 1 .. s : v[i] = o[i]
    BY <1>2, <1>4, <1>5, <1>10, FirstOctets
  <1>13. v \in Seq(Octets)
    BY <1>5, <1>12
  <1>14. /\ v \o octets \in Seq(Octets) /\ Len(v \o octets) = s + n
         /\ \A i \in 1 .. s + n : (v \o octets)[i] = IF i =< s THEN v[i] ELSE octets[i - s]
    BY <1>3, <1>12, <1>13, ConcatProperties
  <1>15. PICK w : w = v \o octets
    OBVIOUS
  <1>16. w \in [1 .. k -> Octets]
    <2>1. w \in Seq(Octets) /\ Len(w) = k
      BY <1>7, <1>14, <1>15
    <2> QED
      BY <2>1, LenProperties
  <1>17. ASSUME NEW i \in 1 .. k PROVE u[i] = w[i]
    <2>1. i \in 1 .. N /\ i \in Nat
      BY <1>5, <1>7
    <2>2. u[i] = IF i > s /\ i =< s + n THEN octets[i - s] ELSE o[i]
      BY <1>4, <1>11, <2>1
    <2>3. w[i] = IF i =< s THEN v[i] ELSE octets[i - s]
      BY <1>7, <1>14, <1>15
    <2>4. CASE i =< s
      <3>1. i \in 1 .. s
        BY <2>1, <2>4
      <3>2. v[i] = o[i]
        BY <1>12, <3>1
      <3> QED
        BY <1>5, <2>1, <2>2, <2>3, <2>4, <3>2
    <2>5. CASE i > s
      BY <1>5, <1>7, <2>1, <2>2, <2>3, <2>5
    <2> QED
      BY <1>5, <2>1, <2>4, <2>5
  <1>18. u = w
    BY <1>11, <1>16, <1>17
  <1> QED
    BY <1>2, <1>10, <1>15, <1>18, <1>8

\* A buffer is not the absence of one.
LEMMA BufferIsOne ==
  ASSUME NEW b, BufferState(b)
  PROVE  b # None
  <1>1. PICK o, s : b = [octets |-> o, size |-> s]
    BY DEF BufferState
  <1>2. o \in [1 .. MaxSize -> Octets] /\ s \in 0 .. MaxSize
    BY <1>1 DEF BufferState
  <1>3. s \in Nat
    BY <1>2, SizesAssumption
  <1>4. b \in [octets : [1 .. MaxSize -> Octets], size : Nat]
    BY <1>1, <1>2, <1>3
  <1> QED
    BY <1>4, NoneAssumption

\* A step of the buffer is a step of the sequence it holds.
LEMMA BufferRefines ==
  ASSUME BufferInv, BufferNext
  PROVE  Promise!BufferStep
  <1>1. BufferInv'
    BY BufferStep
  <1>2. PICK s, t : s = SubSeq(buffer.octets, 1, buffer.size) /\ t = SubSeq(buffer'.octets, 1, buffer'.size)
    OBVIOUS
  <1>3. PICK N \in Nat : N = MaxSize
    BY SizesAssumption
  <1>4. ASSUME NEW b, BufferState(b)
        PROVE  /\ b.size \in 0 .. N /\ SubSeq(b.octets, 1, b.size) \in [1 .. b.size -> Octets]
               /\ Len(SubSeq(b.octets, 1, b.size)) = b.size
               /\ \A i \in 1 .. b.size : SubSeq(b.octets, 1, b.size)[i] = b.octets[i]
               /\ SubSeq(b.octets, 1, b.size) # None
    <2>1. PICK o, k : o = b.octets /\ k = b.size
      OBVIOUS
    <2>2. o \in [1 .. N -> Octets] /\ k \in 0 .. N
      BY <1>3, <1>4, <2>1 DEF BufferState
    <2>3. /\ SubSeq(o, 1, k) \in [1 .. k -> Octets] /\ Len(SubSeq(o, 1, k)) = k
          /\ \A i \in 1 .. k : SubSeq(o, 1, k)[i] = o[i]
      BY <2>2, FirstOctets
    <2>4. SubSeq(o, 1, k) # None
      <3>1. k \in Nat
        BY <2>2
      <3>2. SubSeq(o, 1, k) \in Seq(Octets)
        <4>1. PICK q : q = SubSeq(o, 1, k)
          OBVIOUS
        <4>2. q \in [1 .. k -> Octets]
          BY <2>3, <4>1
        <4>3. q \in Seq(Octets)
          BY <3>1, <4>2
        <4> QED
          BY <4>1, <4>3
      <3> QED
        BY <3>2, NoneAssumption
    <2> QED
      BY <2>1, <2>2, <2>3, <2>4
  <1>5. buffer # None => /\ BufferState(buffer) /\ Len(s) = buffer.size /\ buffer.size \in 0 .. N
                         /\ s # None /\ \A i \in 1 .. buffer.size : s[i] = buffer.octets[i]
    BY <1>2, <1>4 DEF BufferInv
  <1>6. ASSUME BufferState(buffer')
        PROVE  /\ buffer' # None /\ buffer'.size \in 0 .. N /\ t \in [1 .. buffer'.size -> Octets]
               /\ \A i \in 1 .. buffer'.size : t[i] = buffer'.octets[i]
    BY <1>2, <1>4, <1>6, BufferIsOne
  <1>7. ASSUME buffer # None, buffer' = buffer
        PROVE  t = s /\ buffer' # None
    BY <1>2, <1>7
  <1>8. CASE ByteBuffer_create
    <2>1. PICK o : o = [i \in 1 .. MaxSize |-> 0] /\ buffer' = [octets |-> o, size |-> 0]
      BY <1>8 DEF ByteBuffer_create
    <2>2. buffer = None /\ ret' = <<"created">>
      BY <1>8 DEF ByteBuffer_create, Alone
    <2>3. BufferState(buffer')
      <3>1. o \in [1 .. MaxSize -> Octets] /\ 0 \in 0 .. MaxSize
        BY <2>1, SizesAssumption
      <3> QED
        BY <2>1, <3>1 DEF BufferState
    <2>4. buffer' # None /\ t = << >>
      <3>1. buffer'.size = 0
        BY <2>1
      <3>2. t = << >>
        <4>1. 1 \in Int /\ 0 \in Int /\ 0 < 1
          OBVIOUS
        <4>2. \A x : SubSeq(x, 1, 0) = << >>
          BY <4>1, SubSeqEmpty
        <4> QED
          BY <1>2, <3>1, <4>2
      <3> QED
        BY <1>6, <2>3, <3>2
    <2>5. Promise!BufferCreate
      BY <1>2, <2>2, <2>4 DEF Promise!BufferCreate
    <2> QED
      BY <2>5 DEF Promise!BufferStep
  <1>9. ASSUME buffer # None, NEW octets \in Seq(Octets), buffer.size + Len(octets) =< MaxSize,
               buffer' = Overwrite(buffer, octets)
        PROVE  t = s \o octets /\ buffer' # None
    <2>1. BufferState(buffer)
      BY <1>5, <1>9
    <2>2. BufferState(buffer')
      BY <1>9, <2>1, OverwriteEffect
    <2>3. t = s \o octets
      BY <1>2, <1>9, <2>1, OverwriteContents
    <2> QED
      BY <1>6, <2>2, <2>3
  <1>10. CASE ByteBuffer_append
    <2>1. PICK octets \in Octets \X Octets :
             \/ AppendRoom(buffer, octets) /\ buffer' = Overwrite(buffer, octets) /\ ret' = <<"size", Len(octets)>>
             \/ ~AppendRoom(buffer, octets) /\ ret' = <<"size", -1>> /\ buffer' = buffer
      BY <1>10 DEF ByteBuffer_append
    <2>2. buffer # None
      BY <1>10 DEF ByteBuffer_append
    <2>3. octets \in Seq(Octets) /\ Len(octets) = 2
      <3>1. PICK x \in Octets, y \in Octets : octets = <<x, y>>
        OBVIOUS
      <3> QED
        BY <3>1
    <2>4. octets \in {<<o>> : o \in Octets} \cup (Octets \X Octets)
      OBVIOUS
    <2>5. \/ Len(s) + Len(octets) =< MaxSize /\ t = s \o octets /\ ret' = <<"size", Len(octets)>>
          \/ Len(s) + Len(octets) > MaxSize /\ t = s /\ ret' = <<"size", -1>>
      <3>1. CASE AppendRoom(buffer, octets) /\ buffer' = Overwrite(buffer, octets) /\ ret' = <<"size", Len(octets)>>
        <4>1. buffer.size + Len(octets) =< MaxSize /\ Len(s) = buffer.size
          BY <1>5, <2>2, <3>1 DEF AppendRoom
        <4>2. t = s \o octets
          BY <1>9, <2>2, <2>3, <3>1, <4>1
        <4> QED
          BY <3>1, <4>1, <4>2
      <3>2. CASE ~AppendRoom(buffer, octets) /\ ret' = <<"size", -1>> /\ buffer' = buffer
        <4>1. Len(s) = buffer.size /\ buffer.size \in Nat
          BY <1>5, <2>2
        <4>2. Len(s) + Len(octets) > MaxSize
          BY <1>3, <2>3, <3>2, <4>1 DEF AppendRoom
        <4> QED
          BY <1>7, <2>2, <3>2, <4>2
      <3> QED
        BY <2>1, <3>1, <3>2
    <2>6. buffer' # None
      <3>1. CASE AppendRoom(buffer, octets) /\ buffer' = Overwrite(buffer, octets)
        BY <1>9, <2>2, <2>3, <3>1 DEF AppendRoom
      <3> QED
        BY <2>1, <2>2, <3>1
    <2>7. Promise!BufferAppend
      BY <1>2, <1>5, <2>2, <2>4, <2>5, <2>6 DEF Promise!BufferAppend
    <2> QED
      BY <2>7 DEF Promise!BufferStep
  <1>11. CASE ByteBuffer_appendByte
    <2>1. PICK octet \in Octets :
             \/ buffer.size < MaxSize /\ buffer' = Overwrite(buffer, <<octet>>) /\ ret' = <<"size", 1>>
             \/ ~(buffer.size < MaxSize) /\ ret' = <<"size", 0>> /\ buffer' = buffer
      BY <1>11 DEF ByteBuffer_appendByte
    <2>2. buffer # None
      BY <1>11 DEF ByteBuffer_appendByte
    <2>3. PICK octets : octets = <<octet>>
      OBVIOUS
    <2>4. octets \in Seq(Octets) /\ Len(octets) = 1
      BY <2>3
    <2>5. octets \in {<<o>> : o \in Octets} \cup (Octets \X Octets)
      BY <2>3
    <2>6. PICK k \in 0 .. N : k = buffer.size /\ k = Len(s)
      BY <1>5, <2>2
    <2>7. \/ /\ Len(s) + Len(octets) =< MaxSize /\ t = s \o octets /\ buffer' # None
             /\ ret' = <<"size", Len(octets)>>
          \/ /\ Len(s) + Len(octets) > MaxSize /\ t = s /\ buffer' # None
             /\ ret' = <<"size", 0>>
      <3>1. CASE buffer.size < MaxSize /\ buffer' = Overwrite(buffer, <<octet>>) /\ ret' = <<"size", 1>>
        <4>1. buffer.size + Len(octets) =< MaxSize /\ Len(s) + Len(octets) =< MaxSize
          BY <1>3, <2>4, <2>6, <3>1
        <4>2. t = s \o octets /\ buffer' # None
          BY <1>9, <2>2, <2>3, <2>4, <3>1, <4>1
        <4> QED
          BY <2>4, <3>1, <4>1, <4>2
      <3>2. CASE ~(buffer.size < MaxSize) /\ ret' = <<"size", 0>> /\ buffer' = buffer
        <4>1. Len(s) + Len(octets) > MaxSize
          BY <1>3, <2>4, <2>6, <3>2
        <4> QED
          BY <1>7, <2>2, <3>2, <4>1
      <3> QED
        BY <2>1, <3>1, <3>2
    <2>8. Promise!BufferAppend
      BY <1>2, <1>5, <2>2, <2>5, <2>7 DEF Promise!BufferAppend
    <2> QED
      BY <2>8 DEF Promise!BufferStep
  <1>12. CASE ByteBuffer_setSize
    <2>1. PICK size \in 0 .. MaxSize + 1 :
              buffer' = IF size =< MaxSize THEN [buffer EXCEPT !.size = size] ELSE buffer
      BY <1>12 DEF ByteBuffer_setSize
    <2>2. buffer # None /\ ret' = <<"size", buffer'.size>>
      BY <1>12 DEF ByteBuffer_setSize
    <2>3. BufferState(buffer)
      BY <1>5, <2>2
    <2>4. PICK o, k : buffer = [octets |-> o, size |-> k] /\ o = buffer.octets /\ k = buffer.size
      BY <2>3 DEF BufferState
    <2>5. PICK n \in 0 .. N : buffer' = [octets |-> o, size |-> n]
      <3>1. CASE size =< MaxSize
        <4>1. buffer' = [octets |-> o, size |-> size]
          BY <2>1, <2>4, <3>1
        <4>2. size \in 0 .. N
          BY <1>3, <3>1
        <4> QED
          BY <4>1, <4>2
      <3>2. CASE ~(size =< MaxSize)
        <4>1. buffer' = [octets |-> o, size |-> k]
          BY <2>1, <2>4, <3>2
        <4>2. k \in 0 .. N
          BY <1>5, <2>2, <2>4
        <4> QED
          BY <4>1, <4>2
      <3> QED
        BY <3>1, <3>2
    <2>6. buffer'.octets = o /\ buffer'.size = n /\ o \in [1 .. MaxSize -> Octets]
      BY <2>3, <2>4, <2>5 DEF BufferState
    <2>7. BufferState(buffer')
      BY <1>3, <2>5, <2>6 DEF BufferState
    <2>8. t \in [1 .. n -> Octets] /\ buffer' # None /\ \A i \in 1 .. n : t[i] = o[i]
      BY <1>6, <2>6, <2>7
    <2>9. \A i \in 1 .. n : i =< Len(s) => t[i] = s[i]
      <3>1. k \in Nat /\ Len(s) = k /\ \A i \in 1 .. k : s[i] = o[i]
        BY <1>5, <2>2, <2>4
      <3>2. ASSUME NEW i \in 1 .. n, i =< k PROVE t[i] = s[i]
        <4>1. i \in 1 .. k
          BY <3>1, <3>2
        <4> QED
          BY <2>8, <3>1, <4>1
      <3> QED
        BY <3>1, <3>2
    <2>10. n \in 0 .. MaxSize /\ ret' = <<"size", n>>
      BY <1>3, <2>2, <2>6
    <2>11. Promise!BufferSetSize
      BY <1>2, <1>5, <2>2, <2>8, <2>9, <2>10 DEF Promise!BufferSetSize
    <2> QED
      BY <2>11 DEF Promise!BufferStep
  <1>13. CASE ByteBuffer_destroy
    <2>1. buffer # None /\ buffer' = None /\ ret' = <<"void">>
      BY <1>13 DEF ByteBuffer_destroy
    <2>2. Promise!BufferDestroy
      BY <1>2, <1>5, <2>1 DEF Promise!BufferDestroy
    <2> QED
      BY <2>2 DEF Promise!BufferStep
  <1> QED
    BY <1>8, <1>10, <1>11, <1>12, <1>13 DEF BufferNext

-----------------------------------------------------------------------------
\* What the containers hold is of the kinds that are put in them.
Contents == ListHolds /\ MapHolds /\ ArenaHolds

\* A step keeps that, and is a step of SeqContainers or leaves what it sees alone.
LEMMA StepRefines ==
  ASSUME IInv, Contents, [Next]_vars
  PROVE  Contents' /\ [Promise!Next]_(Promise!vars)
  <1>0. /\ HeapInv /\ ArenaInv /\ BufferInv /\ ListHolds /\ MapHolds /\ ArenaHolds
        /\ DOMAIN mem \subseteq Heap
    BY DEF IInv, Contents, HeapInv
  <1> DEFINE L == IF list = None THEN None ELSE DataOf(mem, list)
             M == IF map = None THEN None
                  ELSE [byText |-> mem[map].compareKeys = "strcmp", pairs |-> MapPairs]
             A == IF arena = None THEN None ELSE DataOf(arena.cells, 1)
             B == IF buffer = None THEN None ELSE SubSeq(buffer.octets, 1, buffer.size)
  <1>1. ASSUME mem' = mem, list' = list PROVE ListHolds' /\ L' = L
    BY <1>0, <1>1 DEF ListHolds
  <1>2. ASSUME mem' = mem, map' = map PROVE MapHolds' /\ M' = M
    BY <1>0, <1>2 DEF MapHolds, MapPairs
  <1>3. ASSUME arena' = arena PROVE ArenaHolds' /\ A' = A
    BY <1>0, <1>3 DEF ArenaHolds
  <1>4. ASSUME buffer' = buffer PROVE B' = B
    BY <1>4
  <1>5. CASE ListNext /\ UNCHANGED <<map, arena, buffer>>
    <2>1. ListHolds' /\ Promise!ListStep
      BY <1>0, <1>5, ListRefines
    <2>2. PICK X, Y : Shared(X, Y)
      BY <1>0 DEF HeapInv
    <2>3. DOMAIN mem' \subseteq Heap /\ Keeps(mem, Y, mem') /\ map' = map
      BY <1>0, <1>5, <2>2, HeapListStep DEF HeapInv
    <2>4. MapHolds' /\ M' = M
      <3>1. CASE map = None
        BY <2>3, <3>1 DEF MapHolds
      <3>2. CASE map # None
        <4>1. MapOwns(mem, map, Y)
          BY <2>2, <3>2 DEF Shared, OwnsMap
        <4>2. mem'[map] = mem[map] /\ PairsOf(mem', map) = PairsOf(mem, map)
          BY <1>0, <2>3, <4>1, MapFrame
        <4>3. MapPairs = PairsOf(mem, map) /\ MapPairs' = PairsOf(mem', map')
          BY DEF MapPairs, PairsOf
        <4> QED
          BY <1>0, <2>3, <3>2, <4>2, <4>3 DEF MapHolds
      <3> QED
        BY <3>1, <3>2
    <2>5. Promise!Next
      BY <1>3, <1>4, <1>5, <2>1, <2>4 DEF Promise!Next
    <2> QED
      BY <1>3, <1>5, <2>1, <2>4, <2>5 DEF Contents
  <1>6. CASE MapNext /\ UNCHANGED <<list, arena, buffer>>
    <2>1. MapHolds' /\ Promise!MapStep
      BY <1>0, <1>6, MapRefines
    <2>2. PICK X, Y : Shared(X, Y)
      BY <1>0 DEF HeapInv
    <2>3. DOMAIN mem' \subseteq Heap /\ Keeps(mem, X, mem') /\ list' = list
      BY <1>0, <1>6, <2>2, HeapMapStep DEF HeapInv
    <2>4. ListHolds' /\ L' = L
      <3>1. CASE list = None
        BY <2>3, <3>1 DEF ListHolds
      <3>2. CASE list # None
        <4>1. ListOwns(mem, list, X)
          BY <2>2, <3>2 DEF Shared, OwnsList
        <4>2. DataOf(mem', list) = DataOf(mem, list)
          BY <1>0, <2>3, <4>1, ListFrame
        <4> QED
          BY <1>0, <2>3, <3>2, <4>2 DEF ListHolds
      <3> QED
        BY <3>1, <3>2
    <2>5. Promise!Next
      BY <1>3, <1>4, <1>6, <2>1, <2>4 DEF Promise!Next
    <2> QED
      BY <1>3, <1>6, <2>1, <2>4, <2>5 DEF Contents
  <1>7. CASE ArenaNext /\ UNCHANGED <<mem, list, map, buffer>>
    <2>1. ArenaHolds' /\ Promise!ArenaStep
      BY <1>0, <1>7, ArenaRefines
    <2>2. Promise!Next
      BY <1>1, <1>2, <1>4, <1>7, <2>1 DEF Promise!Next
    <2> QED
      BY <1>1, <1>2, <1>7, <2>1, <2>2 DEF Contents
  <1>8. CASE BufferNext /\ UNCHANGED <<mem, list, map, arena>>
    <2>1. Promise!BufferStep
      BY <1>0, <1>8, BufferRefines
    <2>2. Promise!Next
      BY <1>1, <1>2, <1>3, <1>8, <2>1 DEF Promise!Next
    <2> QED
      BY <1>1, <1>2, <1>3, <1>8, <2>2 DEF Contents
  <1>9. CASE UNCHANGED vars
    <2>1. UNCHANGED Promise!vars
      BY <1>1, <1>2, <1>3, <1>4, <1>9 DEF vars, Promise!vars
    <2> QED
      BY <1>1, <1>2, <1>3, <1>9, <2>1 DEF Contents, vars
  <1> QED
    BY <1>5, <1>6, <1>7, <1>8, <1>9 DEF Next

\* Seen from outside, the list, the map, the arena's list and the byte buffer are the
\* sequences of SeqContainers, with the same results, after any sequence of calls.
THEOREM SequencesImplemented == Spec => ImplementsSequences
  <1>1. Init => Contents /\ Promise!Init
    BY DEF Init, Contents, ListHolds, MapHolds, ArenaHolds, Promise!Init
  <1>2. IInv /\ Contents /\ [Next]_vars => Contents' /\ [Promise!Next]_(Promise!vars)
    BY StepRefines
  <1>3. Spec => []IInv
    BY Inductive
  <1> QED
    BY <1>1, <1>2, <1>3, PTL DEF Spec, ImplementsSequences, Promise!Spec
=============================================================================
