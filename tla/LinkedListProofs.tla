--------------------------- MODULE LinkedListProofs ---------------------------
(***************************************************************************)
(* What the operations of lists and maps do to the cells of the heap, for  *)
(* every heap.  A chain is the sequence of the cells of a list, its head   *)
(* first: no cell twice, each pointing to the next one, the last one to    *)
(* NULL.  The walk of the code along the next pointers meets the cells of  *)
(* the chain, and every operation takes a chain to a chain.                *)
(***************************************************************************)
EXTENDS LinkedList, ArithmeticLemmas, FiniteSetTheorems, FunctionTheorems,
        SequenceTheorems

IsCell(block) == block = [data |-> block.data, next |-> block.next]

NoRepeats(w) == \A i, j \in 1 .. Len(w) : w[i] = w[j] => i = j

Linked(m, w) ==
    /\ \A i \in 1 .. Len(w) : IsCell(m[w[i]])
    /\ \A i \in 1 .. Len(w) - 1 : m[w[i]].next = w[i + 1]
    /\ m[w[Len(w)]].next = NULL

Chain(m, w) == w \in Seq(DOMAIN m) /\ w # << >> /\ NoRepeats(w) /\ Linked(m, w)

\* The blocks in use are some of the heap's.
Addresses(m) == DOMAIN m \subseteq Nat \ {NULL} /\ IsFiniteSet(DOMAIN m)

-----------------------------------------------------------------------------
\* The function LinkedList_getNext, and where n of its calls lead from the head.
Follow(m) == [cell \in Nat |-> LinkedList_getNext(m, cell)]

Steps(m, list) ==
    CHOOSE at : at = [n \in Nat |-> IF n = 0 THEN list ELSE Follow(m)[at[n - 1]]]

\* The loop that follows the pointers is well defined.
LEMMA StepsEquation ==
  ASSUME NEW m, NEW list
  PROVE  /\ Steps(m, list)[0] = list
         /\ \A n \in Nat : Steps(m, list)[n + 1] = Follow(m)[Steps(m, list)[n]]
  <1> DEFINE at == Steps(m, list)
  <1>0. PICK step : step = [n \in Nat |-> Follow(m)]
    OBVIOUS
  <1>1. PICK f : Recursive(f, list, step)
    BY Recursion
  <1>2. f = [n \in Nat |-> IF n = 0 THEN list ELSE Follow(m)[f[n - 1]]]
    BY <1>0, <1>1 DEF Recursive
  <1>3. at = [n \in Nat |-> IF n = 0 THEN list ELSE Follow(m)[at[n - 1]]]
    BY <1>2, Zenon DEF Steps
  <1> HIDE DEF at
  <1>4. at[0] = list
    BY <1>3
  <1>5. ASSUME NEW n \in Nat PROVE at[n + 1] = Follow(m)[at[n]]
    <2>1. n + 1 \in Nat /\ n + 1 # 0 /\ (n + 1) - 1 = n
      OBVIOUS
    <2> QED
      BY <1>3, <2>1
  <1> QED
    BY <1>4, <1>5 DEF at

\* A chain has no more cells than there are blocks in use.
LEMMA ChainIsShort ==
  ASSUME NEW m, NEW w, Addresses(m), Chain(m, w)
  PROVE  Len(w) \in Nat \ {0} /\ Len(w) =< Cardinality(DOMAIN m) /\ Cardinality(DOMAIN m) \in Nat
  <1>1. Len(w) \in Nat \ {0} /\ w \in [1 .. Len(w) -> DOMAIN m]
    BY LenProperties, EmptySeq DEF Chain
  <1>2. w \in Injection(1 .. Len(w), DOMAIN m)
    BY <1>1 DEF Chain, NoRepeats, Injection, IsInjective
  <1>3. Cardinality(1 .. Len(w)) = Len(w)
    BY <1>1, FS_Interval
  <1> QED
    BY <1>1, <1>2, <1>3, FS_Injection, FS_CardinalityType DEF Addresses

\* The walk meets the cells of a chain and then NULL, for ever.
LEMMA StepsOfChain ==
  ASSUME NEW m, NEW w, Addresses(m), Chain(m, w)
  PROVE  /\ \A n \in Nat : n < Len(w) => Steps(m, w[1])[n] = w[n + 1]
         /\ \A n \in Nat : n >= Len(w) => Steps(m, w[1])[n] = NULL
  <1> DEFINE at == Steps(m, w[1])
             S == {n \in Nat : at[n] = IF n < Len(w) THEN w[n + 1] ELSE NULL}
  <1>1. /\ Len(w) \in Nat \ {0}
        /\ \A i \in 1 .. Len(w) : w[i] \in DOMAIN m /\ w[i] \in Nat
    BY ChainIsShort, ElementOfSeq DEF Chain, Addresses
  <1>2. at[0] = w[1] /\ \A n \in Nat : at[n + 1] = Follow(m)[at[n]]
    BY StepsEquation
  <1> HIDE DEF at
  <1>3. 0 \in S
    BY <1>1, <1>2
  <1>4. ASSUME NEW n \in Nat, n \in S PROVE n + 1 \in S
    <2>1. at[n + 1] = Follow(m)[at[n]]
      BY <1>2
    <2>2. CASE n >= Len(w)
      <3>1. at[n] = NULL
        BY <1>1, <1>4, <2>2
      <3>2. Follow(m)[NULL] = NULL
        BY DEF Follow, LinkedList_getNext, Addresses, NULL
      <3> QED
        BY <1>1, <2>1, <2>2, <3>1, <3>2
    <2>3. CASE n < Len(w)
      <3>1. at[n] = w[n + 1] /\ n + 1 \in 1 .. Len(w)
        BY <1>1, <1>4, <2>3
      <3>2. at[n + 1] = m[w[n + 1]].next
        BY <1>1, <2>1, <3>1 DEF Follow, LinkedList_getNext
      <3>3. CASE n + 1 = Len(w)
        BY <1>1, <3>2, <3>3 DEF Chain, Linked
      <3>4. CASE n + 1 # Len(w)
        <4>1. n + 1 \in 1 .. Len(w) - 1 /\ n + 1 < Len(w)
          BY <1>1, <2>3, <3>4
        <4>2. m[w[n + 1]].next = w[(n + 1) + 1]
          BY <4>1 DEF Chain, Linked
        <4> QED
          BY <3>2, <4>1, <4>2
      <3> QED
        BY <3>3, <3>4
    <2> QED
      BY <1>1, <2>2, <2>3
  <1>5. \A n \in Nat : n \in S
    <2> HIDE DEF S
    <2> QED
      BY <1>3, <1>4, Induction
  <1>6. \A n \in Nat : n < Len(w) => at[n] = w[n + 1]
    BY <1>5
  <1>7. \A n \in Nat : n >= Len(w) => at[n] = NULL
    BY <1>1, <1>5
  <1> QED
    BY <1>6, <1>7 DEF at

\* Elements, the walk of every loop over a list, gives the chain without its head.
LEMMA ElementsOfChain ==
  ASSUME NEW m, NEW w, Addresses(m), Chain(m, w)
  PROVE  Elements(m, w[1]) = [n \in 1 .. Len(w) - 1 |-> w[n + 1]]
  <1> DEFINE at == Steps(m, w[1])
             C == 0 .. Cardinality(DOMAIN m)
             length == CHOOSE n \in C : at[n] # NULL /\ Follow(m)[at[n]] = NULL
  <1>1. Elements(m, w[1]) = [n \in 1 .. length |-> at[n]]
    BY Zenon DEF Elements, Steps, Follow
  <1>2. Len(w) \in Nat \ {0} /\ Len(w) - 1 \in C /\ C \subseteq Nat
    BY ChainIsShort
  <1>3. \A n \in Nat : /\ n < Len(w) => at[n] = w[n + 1]
                       /\ n >= Len(w) => at[n] = NULL
                       /\ at[n + 1] = Follow(m)[at[n]]
    BY StepsOfChain, StepsEquation
  <1>4. \A n \in Nat : n < Len(w) => at[n] # NULL
    <2>1. \A i \in 1 .. Len(w) : w[i] # NULL
      BY ElementOfSeq DEF Chain, Addresses
    <2> QED
      BY <1>2, <1>3, <2>1
  <1>5. ASSUME NEW n \in C
        PROVE  at[n] # NULL /\ Follow(m)[at[n]] = NULL <=> n = Len(w) - 1
    <2> HIDE DEF at
    <2>1. n \in Nat /\ n + 1 \in Nat /\ at[n + 1] = Follow(m)[at[n]]
      BY <1>2, <1>3
    <2>2. at[n] # NULL <=> n < Len(w)
      <3>1. n < Len(w) => at[n] # NULL
        BY <1>4, <2>1
      <3>2. n >= Len(w) => at[n] = NULL
        BY <1>3, <2>1
      <3> QED
        BY <1>2, <2>1, <3>1, <3>2
    <2>3. at[n + 1] # NULL <=> n + 1 < Len(w)
      <3>1. n + 1 < Len(w) => at[n + 1] # NULL
        BY <1>4, <2>1
      <3>2. n + 1 >= Len(w) => at[n + 1] = NULL
        BY <1>3, <2>1
      <3> QED
        BY <1>2, <2>1, <3>1, <3>2
    <2>4. n = Len(w) - 1 <=> n < Len(w) /\ ~(n + 1 < Len(w))
      BY <1>2, <2>1
    <2> QED
      BY <2>1, <2>2, <2>3, <2>4
  <1>6. length = Len(w) - 1
    <2> HIDE DEF at
    <2>1. length \in C /\ at[length] # NULL /\ Follow(m)[at[length]] = NULL
      BY <1>2, <1>5
    <2> HIDE DEF length
    <2> QED
      BY <1>5, <2>1
  <1>7. ASSUME NEW n \in 1 .. Len(w) - 1 PROVE at[n] = w[n + 1]
    BY <1>2, <1>3
  <1> HIDE DEF at, length
  <1> QED
    BY <1>1, <1>6, <1>7

\* A head in front of a sequence.
LEMMA HeadFirst ==
  ASSUME NEW S, NEW h \in S, NEW t \in Seq(S)
  PROVE  /\ <<h>> \o t \in Seq(S) /\ Len(<<h>> \o t) = Len(t) + 1
         /\ (<<h>> \o t)[1] = h
         /\ \A i \in 1 .. Len(t) : (<<h>> \o t)[i + 1] = t[i]
  <1>1. PICK g \in Seq(S) : g = <<h>>
    <2>1. <<h>> \in Seq(S)
      OBVIOUS
    <2> QED
      BY <2>1, Zenon
  <1>2. Len(g) = 1 /\ g[1] = h /\ Len(t) \in Nat
    BY <1>1, LenProperties
  <1>3. /\ g \o t \in Seq(S) /\ Len(g \o t) = Len(g) + Len(t)
        /\ \A i \in 1 .. Len(g) + Len(t) : (g \o t)[i] = IF i <= Len(g) THEN g[i] ELSE t[i - Len(g)]
    BY ConcatProperties
  <1>4. PICK n \in Nat : n = Len(t)
    BY <1>2
  <1>5. /\ g \o t \in Seq(S) /\ Len(g \o t) = n + 1
        /\ \A i \in 1 .. n + 1 : (g \o t)[i] = IF i <= 1 THEN g[i] ELSE t[i - 1]
    BY <1>2, <1>3, <1>4
  <1>6. (g \o t)[1] = h
    BY <1>2, <1>5
  <1>7. ASSUME NEW i \in 1 .. n PROVE (g \o t)[i + 1] = t[i]
    <2>1. i + 1 \in 1 .. n + 1 /\ ~(i + 1 <= 1) /\ (i + 1) - 1 = i
      OBVIOUS
    <2> QED
      BY <1>5, <2>1
  <1> QED
    BY <1>1, <1>4, <1>5, <1>6, <1>7

Blocks(w) == {w[i] : i \in 1 .. Len(w)}

\* The walk, as the operations use it.
LEMMA WalkOfChain ==
  ASSUME NEW m, NEW w, Addresses(m), Chain(m, w)
  PROVE  LET e == Elements(m, w[1])
         IN  /\ e \in Seq(DOMAIN m) /\ Len(e) = Len(w) - 1
             /\ \A i \in 1 .. Len(w) - 1 : e[i] = w[i + 1]
             /\ <<w[1]>> \o e = w
             /\ {w[1]} \cup ToSet(e) = Blocks(w)
  <1> DEFINE e == Elements(m, w[1])
             L == Len(w)
  <1>1. L \in Nat \ {0} /\ w \in [1 .. L -> DOMAIN m] /\ w \in Seq(DOMAIN m)
    BY ChainIsShort, LenProperties DEF Chain
  <1>2. e = [n \in 1 .. L - 1 |-> w[n + 1]]
    BY ElementsOfChain
  <1> HIDE DEF e
  <1>3. L - 1 \in Nat /\ \A n \in 1 .. L - 1 : n + 1 \in 1 .. L
    BY <1>1
  <1>4. \A n \in 1 .. L - 1 : w[n + 1] \in DOMAIN m
    BY <1>1, <1>3
  <1>5. e \in Seq(DOMAIN m)
    BY <1>2, <1>3, <1>4
  <1>6. Len(e) = L - 1 /\ DOMAIN e = 1 .. L - 1
    BY <1>2, <1>3
  <1>7. \A i \in 1 .. L - 1 : e[i] = w[i + 1]
    BY <1>2
  <1>8. <<w[1]>> \o e = w
    <2>1. PICK h \in DOMAIN m : h = w[1]
      <3>1. w[1] \in DOMAIN m
        BY <1>1
      <3> QED
        BY <3>1, Zenon
    <2>2. PICK t : t = <<h>> \o e
      OBVIOUS
    <2>3. t \in Seq(DOMAIN m) /\ Len(t) = Len(e) + 1 /\ t[1] = h /\ \A i \in 1 .. Len(e) : t[i + 1] = e[i]
      BY <1>5, <2>2, HeadFirst
    <2>4. Len(t) = L /\ \A i \in 1 .. L - 1 : t[i + 1] = e[i]
      BY <1>3, <1>6, <2>3
    <2>5. ASSUME NEW i \in 1 .. L PROVE t[i] = w[i]
      <3>1. CASE i = 1
        BY <2>1, <2>3, <3>1
      <3>2. CASE i # 1
        <4>1. i - 1 \in 1 .. L - 1 /\ (i - 1) + 1 = i
          BY <1>1, <3>2
        <4>2. t[(i - 1) + 1] = e[i - 1] /\ e[i - 1] = w[(i - 1) + 1]
          BY <1>7, <2>4, <4>1
        <4> QED
          BY <4>1, <4>2
      <3> QED
        BY <3>1, <3>2
    <2>6. t = w
      <3>1. t \in Seq(DOMAIN m) /\ w \in Seq(DOMAIN m) /\ Len(t) = Len(w)
        BY <1>1, <2>3, <2>4
      <3>2. \A i \in 1 .. Len(t) : t[i] = w[i]
        BY <2>4, <2>5
      <3> QED
        BY <3>1, <3>2, SeqEqual
    <2> QED
      BY <2>1, <2>2, <2>6
  <1>9. {w[1]} \cup ToSet(e) = Blocks(w)
    <2>1. ToSet(e) = {e[i] : i \in 1 .. L - 1}
      BY <1>6 DEF ToSet
    <2>2. ASSUME NEW x \in Blocks(w) PROVE x \in {w[1]} \cup ToSet(e)
      <3>1. PICK i \in 1 .. L : x = w[i]
        BY DEF Blocks
      <3>2. CASE i # 1
        <4>1. i - 1 \in 1 .. L - 1 /\ (i - 1) + 1 = i
          BY <1>1, <3>2
        <4> QED
          BY <1>7, <2>1, <3>1, <4>1
      <3> QED
        BY <3>1, <3>2
    <2>3. ASSUME NEW x \in ToSet(e) PROVE x \in Blocks(w)
      <3>1. PICK i \in 1 .. L - 1 : x = e[i]
        BY <2>1
      <3> QED
        BY <1>3, <1>7, <3>1 DEF Blocks
    <2>4. w[1] \in Blocks(w)
      BY <1>1 DEF Blocks
    <2> QED
      BY <2>2, <2>3, <2>4
  <1> QED
    BY <1>5, <1>6, <1>7, <1>8, <1>9 DEF e

\* A chain none of whose cells is written is still one.
LEMMA ChainFrame ==
  ASSUME NEW m, NEW w, Chain(m, w), NEW m2, Blocks(w) \subseteq DOMAIN m2,
         \A a \in Blocks(w) : m2[a] = m[a]
  PROVE  Chain(m2, w)
  <1>1. Len(w) \in Nat \ {0} /\ w \in [1 .. Len(w) -> DOMAIN m]
    BY LenProperties, EmptySeq DEF Chain
  <1>2. \A i \in 1 .. Len(w) : w[i] \in DOMAIN m2 /\ m2[w[i]] = m[w[i]]
    BY DEF Blocks
  <1>3. w \in Seq(DOMAIN m2)
    BY <1>1, <1>2
  <1>4. Linked(m2, w)
    <2>1. Len(w) \in 1 .. Len(w) /\ \A i \in 1 .. Len(w) - 1 : i \in 1 .. Len(w)
      BY <1>1
    <2> QED
      BY <1>2, <2>1 DEF Chain, Linked
  <1> QED
    BY <1>3, <1>4 DEF Chain

-----------------------------------------------------------------------------
\* malloc returns a block that is free and changes no other.
LEMMA MallocEffect ==
  ASSUME NEW m, DOMAIN m \subseteq Heap, HasRoom(m, 1), NEW block
  PROVE  /\ Fresh(m) \in Heap \ DOMAIN m
         /\ DOMAIN Memory_malloc(m, block) = DOMAIN m \cup {Fresh(m)}
         /\ Memory_malloc(m, block)[Fresh(m)] = block
         /\ \A a \in DOMAIN m : Memory_malloc(m, block)[a] = m[a]
  <1> DEFINE F == Heap \ DOMAIN m
  <1>1. IsFiniteSet(F) /\ F \subseteq Nat
    BY HeapAssumption, FS_Subset
  <1>2. F # {}
    BY FS_EmptySet DEF HasRoom
  <1>3. \E x \in F : \A y \in F : x =< y
    BY <1>1, <1>2, LeastNatural
  <1>4. Fresh(m) \in F
    BY <1>3 DEF Fresh, Min
  <1> QED
    BY <1>4 DEF Memory_malloc

\* The chain with cell f behind its k-th one, and the chain without its k-th one.
Grown(w, k, f) ==
    [i \in 1 .. Len(w) + 1 |-> IF i =< k THEN w[i] ELSE IF i = k + 1 THEN f ELSE w[i - 1]]

Cut(w, k) == [i \in 1 .. Len(w) - 1 |-> IF i < k THEN w[i] ELSE w[i + 1]]

\* Heap m becomes m2 when a new cell f is put behind the k-th cell of a chain, and
\* when the k-th cell is taken out.
LinksIn(m, w, k, f, d, m2) ==
    /\ f \notin DOMAIN m /\ DOMAIN m2 = DOMAIN m \cup {f}
    /\ m2[f] = [data |-> d, next |-> m[w[k]].next]
    /\ m2[w[k]] = [data |-> m[w[k]].data, next |-> f]
    /\ \A a \in DOMAIN m \ {w[k]} : m2[a] = m[a]

Unlinks(m, w, k, m2) ==
    /\ DOMAIN m2 = DOMAIN m \ {w[k]}
    /\ m2[w[k - 1]] = [data |-> m[w[k - 1]].data, next |-> m[w[k]].next]
    /\ \A a \in DOMAIN m2 \ {w[k - 1]} : m2[a] = m[a]

\* It is a sequence of the same things.
LEMMA GrownTyped ==
  ASSUME NEW S, NEW w \in Seq(S), NEW k \in 0 .. Len(w), NEW f \in S
  PROVE  Grown(w, k, f) \in Seq(S)
  <1> DEFINE v == Grown(w, k, f)
  <1>1. Len(w) \in Nat /\ w \in [1 .. Len(w) -> S]
    BY LenProperties
  <1>2. ASSUME NEW i \in 1 .. Len(w) + 1
        PROVE  (IF i =< k THEN w[i] ELSE IF i = k + 1 THEN f ELSE w[i - 1]) \in S
    <2>1. i =< k => i \in 1 .. Len(w)
      BY <1>1
    <2>2. i > k + 1 => i - 1 \in 1 .. Len(w)
      BY <1>1
    <2>3. i =< k \/ i = k + 1 \/ i > k + 1
      BY <1>1
    <2> QED
      BY <1>1, <2>1, <2>2, <2>3
  <1>3. Len(w) + 1 \in Nat
    BY <1>1
  <1> QED
    BY <1>2, <1>3 DEF Grown

\* A sequence with a new member has one member more.
LEMMA GrownSequence ==
  ASSUME NEW S, NEW w \in Seq(S), NoRepeats(w), NEW k \in 0 .. Len(w), NEW f, f \in S,
         f \notin Blocks(w)
  PROVE  LET v == Grown(w, k, f)
         IN  /\ v \in Seq(S) /\ Len(v) = Len(w) + 1
             /\ \A i \in 1 .. Len(w) + 1 : /\ i =< k => v[i] = w[i] /\ i \in 1 .. Len(w)
                                           /\ i = k + 1 => v[i] = f
                                           /\ i > k + 1 => v[i] = w[i - 1] /\ i - 1 \in 1 .. Len(w)
             /\ NoRepeats(v) /\ Blocks(v) = Blocks(w) \cup {f}
  <1> DEFINE L == Len(w)
             v == Grown(w, k, f)
  <1>1. L \in Nat /\ w \in [1 .. L -> S] /\ k \in Nat
    BY LenProperties
  <1>2. /\ \A i \in 1 .. L + 1 : /\ i =< k => v[i] = w[i] /\ i \in 1 .. L
                                 /\ i = k + 1 => v[i] = f
                                 /\ i > k + 1 => v[i] = w[i - 1] /\ i - 1 \in 1 .. L
                                 /\ v[i] \in S
        /\ v \in Seq(S) /\ Len(v) = L + 1
    <2>1. ASSUME NEW i \in 1 .. L + 1
          PROVE  /\ i =< k => v[i] = w[i] /\ i \in 1 .. L
                 /\ i = k + 1 => v[i] = f
                 /\ i > k + 1 => v[i] = w[i - 1] /\ i - 1 \in 1 .. L
                 /\ v[i] \in S
      <3>1. i =< k => v[i] = w[i] /\ i \in 1 .. L
        BY <1>1 DEF Grown
      <3>2. i = k + 1 => v[i] = f
        BY <1>1 DEF Grown
      <3>3. i > k + 1 => v[i] = w[i - 1] /\ i - 1 \in 1 .. L
        BY <1>1 DEF Grown
      <3>4. i =< k \/ i = k + 1 \/ i > k + 1
        BY <1>1
      <3> QED
        BY <1>1, <3>1, <3>2, <3>3, <3>4
    <2>2. v = [i \in 1 .. L + 1 |-> v[i]] /\ L + 1 \in Nat
      BY <1>1 DEF Grown
    <2> HIDE DEF v
    <2>3. v \in [1 .. L + 1 -> S]
      BY <2>1, <2>2
    <2>4. v \in Seq(S) /\ Len(v) = L + 1
      BY <2>2, <2>3
    <2> QED
      BY <2>1, <2>4
  <1> HIDE DEF v
  <1>3. NoRepeats(v)
    <2> SUFFICES ASSUME NEW i \in 1 .. L + 1, NEW j \in 1 .. L + 1, i < j, v[i] = v[j] PROVE FALSE
      BY <1>1, <1>2 DEF NoRepeats
    <2>1. \A x, y \in 1 .. L : w[x] = w[y] => x = y
      BY DEF NoRepeats
    <2>2. \A x \in 1 .. L : w[x] # f
      BY DEF Blocks
    <2>3. /\ i =< k \/ i = k + 1 \/ i > k + 1
          /\ j =< k \/ j = k + 1 \/ j > k + 1
      BY <1>1
    <2>4. CASE i =< k
      BY <1>1, <1>2, <2>1, <2>2, <2>3, <2>4
    <2>5. CASE i = k + 1
      BY <1>1, <1>2, <2>2, <2>3, <2>5
    <2>6. CASE i > k + 1
      BY <1>1, <1>2, <2>1, <2>3, <2>6
    <2> QED
      BY <2>3, <2>4, <2>5, <2>6
  <1>4. Blocks(v) = Blocks(w) \cup {f}
    <2>1. ASSUME NEW x \in Blocks(v) PROVE x \in Blocks(w) \cup {f}
      <3>1. PICK i \in 1 .. L + 1 : x = v[i]
        BY <1>2 DEF Blocks
      <3>2. i =< k \/ i = k + 1 \/ i > k + 1
        BY <1>1
      <3> QED
        BY <1>2, <3>1, <3>2 DEF Blocks
    <2>2. ASSUME NEW i \in 1 .. L PROVE w[i] \in Blocks(v)
      <3>1. CASE i =< k
        <4>1. i \in 1 .. L + 1
          BY <1>1
        <4> QED
          BY <1>2, <3>1, <4>1 DEF Blocks
      <3>2. CASE i > k
        <4>1. i + 1 \in 1 .. L + 1 /\ i + 1 > k + 1 /\ (i + 1) - 1 = i
          BY <1>1, <3>2
        <4>2. v[i + 1] = w[i]
          BY <1>2, <4>1
        <4> QED
          BY <1>2, <4>1, <4>2 DEF Blocks
      <3> QED
        BY <1>1, <3>1, <3>2
    <2>3. f \in Blocks(v)
      <3>1. k + 1 \in 1 .. L + 1
        BY <1>1
      <3> QED
        BY <1>2, <3>1 DEF Blocks
    <2>4. \A x \in Blocks(w) : x \in Blocks(v)
      BY <2>2 DEF Blocks
    <2> QED
      BY <2>1, <2>3, <2>4
  <1> QED
    BY <1>2, <1>3, <1>4 DEF v

\* A chain with a new cell is a chain.
LEMMA ChainGrows ==
  ASSUME NEW m, NEW w, Chain(m, w), NEW k \in 1 .. Len(w), NEW f, NEW d, NEW m2,
         LinksIn(m, w, k, f, d, m2)
  PROVE  /\ Chain(m2, Grown(w, k, f)) /\ Len(Grown(w, k, f)) = Len(w) + 1
         /\ Blocks(Grown(w, k, f)) = Blocks(w) \cup {f}
  <1> DEFINE L == Len(w)
             v == Grown(w, k, f)
  <1>0. L \in Nat \ {0} /\ k \in Nat /\ k =< L
    <2>1. L \in Nat
      BY LenProperties DEF Chain
    <2> QED
      BY <2>1
  <1>1. L \in Nat \ {0} /\ w \in [1 .. L -> DOMAIN m] /\ k \in Nat
    BY LenProperties, EmptySeq DEF Chain
  <1>2. /\ \A i \in 1 .. L + 1 : /\ i =< k => v[i] = w[i] /\ i \in 1 .. L
                                 /\ i = k + 1 => v[i] = f
                                 /\ i > k + 1 => v[i] = w[i - 1] /\ i - 1 \in 1 .. L
        /\ v \in Seq(DOMAIN m2) /\ Len(v) = L + 1
        /\ NoRepeats(v) /\ Blocks(v) = Blocks(w) \cup {f}
    <2>1. w \in Seq(DOMAIN m2) /\ f \in DOMAIN m2
      BY <1>1 DEF LinksIn
    <2>2. f \notin Blocks(w) /\ k \in 0 .. L /\ NoRepeats(w)
      BY <1>1 DEF Blocks, Chain, LinksIn
    <2> HIDE DEF v
    <2>3. v = Grown(w, k, f)
      BY DEF v
    <2> QED
      BY <2>1, <2>2, <2>3, GrownSequence
  <1> HIDE DEF v
  <1>3. Linked(m2, v)
    <2>1. /\ \A i \in 1 .. L : IsCell(m[w[i]])
          /\ \A i \in 1 .. L - 1 : m[w[i]].next = w[i + 1]
          /\ m[w[L]].next = NULL
      BY DEF Chain, Linked
    <2>2. \A i \in 1 .. L : i # k => m2[w[i]] = m[w[i]]
      BY <1>1 DEF Chain, NoRepeats, LinksIn
    <2>3. m2[f].next = m[w[k]].next /\ m2[w[k]].next = f /\ IsCell(m2[f]) /\ IsCell(m2[w[k]])
      BY DEF IsCell, LinksIn
    <2>4. \A i \in 1 .. L : IsCell(m2[w[i]])
      BY <2>1, <2>2, <2>3
    <2>5. ASSUME NEW i \in 1 .. L + 1 PROVE IsCell(m2[v[i]])
      <3>1. i =< k \/ i = k + 1 \/ i > k + 1
        BY <1>1
      <3> QED
        BY <1>2, <2>3, <2>4, <3>1
    <2>6. ASSUME NEW i \in 1 .. L PROVE m2[v[i]].next = v[i + 1]
      <3>1. CASE i < k
        <4>1. i \in 1 .. L - 1 /\ i \in 1 .. L + 1 /\ i + 1 \in 1 .. L + 1 /\ i + 1 =< k /\ i =< k
              /\ i # k
          BY <1>1, <3>1
        <4>2. v[i] = w[i] /\ v[i + 1] = w[i + 1]
          BY <1>2, <4>1
        <4> QED
          BY <2>1, <2>2, <4>1, <4>2
      <3>2. CASE i = k
        <4>1. i \in 1 .. L + 1 /\ i + 1 \in 1 .. L + 1
          BY <1>1
        <4>2. v[i] = w[k] /\ v[i + 1] = f
          BY <1>1, <1>2, <3>2, <4>1
        <4> QED
          BY <2>3, <4>2
      <3>3. CASE i = k + 1
        <4>1. i \in 1 .. L + 1 /\ i + 1 \in 1 .. L + 1 /\ i + 1 > k + 1 /\ (i + 1) - 1 = k + 1
              /\ k \in 1 .. L - 1
          BY <1>1, <3>3
        <4>2. v[i] = f /\ v[i + 1] = w[k + 1]
          BY <1>2, <3>3, <4>1
        <4> QED
          BY <2>1, <2>3, <4>1, <4>2
      <3>4. CASE i > k + 1
        <4>1. /\ i \in 1 .. L + 1 /\ i + 1 \in 1 .. L + 1 /\ i + 1 > k + 1 /\ (i + 1) - 1 = i
              /\ i - 1 \in 1 .. L - 1 /\ i - 1 \in 1 .. L /\ i - 1 # k /\ (i - 1) + 1 = i
          BY <1>1, <3>4
        <4>2. v[i] = w[i - 1] /\ v[i + 1] = w[i]
          BY <1>2, <3>4, <4>1
        <4> QED
          BY <2>1, <2>2, <4>1, <4>2
      <3> QED
        BY <1>1, <3>1, <3>2, <3>3, <3>4
    <2>7. m2[v[L + 1]].next = NULL
      <3>1. L + 1 \in 1 .. L + 1
        BY <1>1
      <3>2. CASE k = L
        BY <1>2, <2>1, <2>3, <3>1, <3>2
      <3>3. CASE k # L
        <4>1. L + 1 > k + 1 /\ (L + 1) - 1 = L /\ L \in 1 .. L
          BY <1>0, <3>3
        <4> QED
          BY <1>2, <2>1, <2>2, <3>1, <4>1
      <3> QED
        BY <3>2, <3>3
    <2>8. Len(v) - 1 = L
      BY <1>1, <1>2
    <2> QED
      BY <1>2, <2>5, <2>6, <2>7, <2>8 DEF Linked
  <1>4. v # << >>
    BY <1>1, <1>2, EmptySeq
  <1> QED
    BY <1>2, <1>3, <1>4 DEF Chain, v

\* A chain without one of its cells is a chain, and the cell is not in it.
LEMMA ChainShrinks ==
  ASSUME NEW m, NEW w, Chain(m, w), NEW k \in 2 .. Len(w), NEW m2, Unlinks(m, w, k, m2)
  PROVE  /\ Chain(m2, Cut(w, k)) /\ Len(Cut(w, k)) = Len(w) - 1
         /\ Blocks(Cut(w, k)) = Blocks(w) \ {w[k]}
  <1> DEFINE L == Len(w)
             v == Cut(w, k)
  <1>0. L \in Nat \ {0, 1} /\ k \in Nat /\ k =< L /\ k - 1 \in 1 .. L - 1
    <2>1. PICK n \in Nat : n = Len(w)
      BY LenProperties DEF Chain
    <2>2. k \in 2 .. n
      BY <2>1
    <2>3. k \in Nat /\ k =< n /\ k - 1 \in 1 .. n - 1 /\ n # 0 /\ n # 1
      BY <2>2
    <2> QED
      BY <2>1, <2>3
  <1>1. L \in Nat \ {0, 1} /\ w \in [1 .. L -> DOMAIN m] /\ k \in Nat /\ k - 1 \in 1 .. L - 1
    BY <1>0, LenProperties DEF Chain
  <1>2. \A x, y \in 1 .. L : w[x] = w[y] => x = y
    BY DEF Chain, NoRepeats
  <1>3. \A x \in 1 .. L : x # k => w[x] \in DOMAIN m2
    BY <1>1, <1>2 DEF Unlinks
  <1>4. /\ \A i \in 1 .. L - 1 : /\ i < k => v[i] = w[i] /\ i \in 1 .. L
                                 /\ i >= k => v[i] = w[i + 1] /\ i + 1 \in 1 .. L
                                 /\ v[i] \in DOMAIN m2
        /\ v \in Seq(DOMAIN m2) /\ Len(v) = L - 1
    <2>1. ASSUME NEW i \in 1 .. L - 1
          PROVE  /\ i < k => v[i] = w[i] /\ i \in 1 .. L
                 /\ i >= k => v[i] = w[i + 1] /\ i + 1 \in 1 .. L
                 /\ v[i] \in DOMAIN m2
      <3>1. i < k => v[i] = w[i] /\ i \in 1 .. L /\ i # k
        BY <1>1 DEF Cut
      <3>2. i >= k => v[i] = w[i + 1] /\ i + 1 \in 1 .. L /\ i + 1 # k
        BY <1>1 DEF Cut
      <3>3. i < k \/ i >= k
        BY <1>1
      <3> QED
        BY <1>3, <3>1, <3>2, <3>3
    <2>2. v = [i \in 1 .. L - 1 |-> v[i]] /\ L - 1 \in Nat
      BY <1>1 DEF Cut
    <2> HIDE DEF v
    <2>3. v \in [1 .. L - 1 -> DOMAIN m2]
      BY <2>1, <2>2
    <2>4. v \in Seq(DOMAIN m2) /\ Len(v) = L - 1
      BY <2>2, <2>3
    <2> QED
      BY <2>1, <2>4
  <1> HIDE DEF v
  <1>5. NoRepeats(v)
    <2> SUFFICES ASSUME NEW i \in 1 .. L - 1, NEW j \in 1 .. L - 1, i < j, v[i] = v[j] PROVE FALSE
      <3>1. ASSUME NEW i \in 1 .. L - 1, NEW j \in 1 .. L - 1 PROVE i < j \/ j < i \/ i = j
        BY <1>0
      <3> QED
        BY <1>4, <3>1 DEF NoRepeats
    <2>1. CASE j < k
      <3>1. v[i] = w[i] /\ v[j] = w[j] /\ i \in 1 .. L /\ j \in 1 .. L
        BY <1>1, <1>4, <2>1
      <3>2. i # j
        BY <1>1
      <3> QED
        BY <1>2, <3>1, <3>2
    <2>2. CASE i < k /\ j >= k
      <3>1. v[i] = w[i] /\ v[j] = w[j + 1] /\ i \in 1 .. L /\ j + 1 \in 1 .. L /\ i # j + 1
        BY <1>1, <1>4, <2>2
      <3> QED
        BY <1>2, <3>1
    <2>3. CASE i >= k
      <3>1. v[i] = w[i + 1] /\ v[j] = w[j + 1] /\ i + 1 \in 1 .. L /\ j + 1 \in 1 .. L
        BY <1>1, <1>4, <2>3
      <3>2. i + 1 # j + 1
        BY <1>1
      <3> QED
        BY <1>2, <3>1, <3>2
    <2> QED
      BY <1>1, <2>1, <2>2, <2>3
  <1>6. Linked(m2, v)
    <2>1. /\ \A i \in 1 .. L : IsCell(m[w[i]])
          /\ \A i \in 1 .. L - 1 : m[w[i]].next = w[i + 1]
          /\ m[w[L]].next = NULL
      BY DEF Chain, Linked
    <2>2. \A i \in 1 .. L : i # k /\ i # k - 1 => m2[w[i]] = m[w[i]]
      <3>1. \A i \in 1 .. L : i # k - 1 => w[i] # w[k - 1]
        BY <1>1, <1>2
      <3> QED
        BY <1>3, <3>1 DEF Unlinks
    <2>3. m2[w[k - 1]].next = m[w[k]].next /\ IsCell(m2[w[k - 1]])
      BY DEF IsCell, Unlinks
    <2>4. \A i \in 1 .. L : i # k => IsCell(m2[w[i]])
      BY <2>1, <2>2, <2>3
    <2>5. ASSUME NEW i \in 1 .. L - 1 PROVE IsCell(m2[v[i]])
      <3>1. CASE i < k
        BY <1>1, <1>4, <2>4, <3>1
      <3>2. CASE i >= k
        <4>1. i + 1 # k
          BY <1>1, <3>2
        <4> QED
          BY <1>4, <2>4, <3>2, <4>1
      <3> QED
        BY <1>1, <3>1, <3>2
    <2>6. ASSUME NEW i \in 1 .. L - 2 PROVE m2[v[i]].next = v[i + 1]
      <3>0. i \in 1 .. L - 1 /\ i + 1 \in 1 .. L - 1 /\ i + 1 \in 1 .. L /\ (i + 1) + 1 = i + 2
        BY <1>1
      <3>1. CASE i < k - 1
        <4>1. i < k /\ i + 1 < k /\ i # k /\ i # k - 1 /\ i \in 1 .. L
          BY <1>1, <3>1
        <4>2. v[i] = w[i] /\ v[i + 1] = w[i + 1]
          BY <1>4, <3>0, <4>1
        <4> QED
          BY <2>1, <2>2, <3>0, <4>1, <4>2
      <3>2. CASE i = k - 1
        <4>1. i < k /\ i + 1 >= k /\ i + 1 = k /\ k \in 1 .. L - 1
          BY <1>1, <3>0, <3>2
        <4>2. v[i] = w[k - 1] /\ v[i + 1] = w[k + 1]
          BY <1>4, <3>0, <3>2, <4>1
        <4> QED
          BY <2>1, <2>3, <4>1, <4>2
      <3>3. CASE i >= k
        <4>1. i + 1 >= k /\ i + 1 # k /\ i + 1 # k - 1
          BY <1>1, <3>3
        <4>2. v[i] = w[i + 1] /\ v[i + 1] = w[i + 2]
          BY <1>4, <3>0, <3>3, <4>1
        <4>3. m[w[i + 1]].next = w[(i + 1) + 1]
          BY <2>1, <3>0
        <4> QED
          BY <2>2, <3>0, <4>1, <4>2, <4>3
      <3> QED
        BY <1>1, <3>1, <3>2, <3>3
    <2>7. m2[v[L - 1]].next = NULL
      <3>0. L - 1 \in 1 .. L - 1 /\ (L - 1) + 1 = L /\ L \in 1 .. L
        BY <1>1
      <3>1. CASE k = L
        <4>1. v[L - 1] = w[k - 1]
          BY <1>1, <1>4, <3>0, <3>1
        <4> QED
          BY <2>1, <2>3, <3>1, <4>1
      <3>2. CASE k # L
        <4>1. L - 1 >= k /\ L # k /\ L # k - 1
          BY <1>0, <3>2
        <4>2. v[L - 1] = w[L]
          BY <1>4, <3>0, <4>1
        <4> QED
          BY <2>1, <2>2, <3>0, <4>1, <4>2
      <3> QED
        BY <3>1, <3>2
    <2>8. Len(v) - 1 = L - 2
      BY <1>1, <1>4
    <2> QED
      BY <1>4, <2>5, <2>6, <2>7, <2>8 DEF Linked
  <1>7. Blocks(v) = Blocks(w) \ {w[k]}
    <2>1. ASSUME NEW x \in Blocks(v) PROVE x \in Blocks(w) \ {w[k]}
      <3>1. PICK i \in 1 .. L - 1 : x = v[i]
        BY <1>4 DEF Blocks
      <3>2. \E j \in 1 .. L : x = w[j] /\ j # k
        <4>1. i < k => i # k
          BY <1>1
        <4>2. i >= k => i + 1 # k
          BY <1>1
        <4> QED
          BY <1>1, <1>4, <3>1, <4>1, <4>2
      <3> QED
        BY <1>1, <1>2, <3>2 DEF Blocks
    <2>2. ASSUME NEW x \in Blocks(w) \ {w[k]} PROVE x \in Blocks(v)
      <3>1. PICK i \in 1 .. L : x = w[i] /\ i # k
        BY DEF Blocks
      <3>2. CASE i < k
        <4>1. i \in 1 .. L - 1
          BY <1>1, <3>2
        <4>2. x = v[i]
          BY <1>4, <3>1, <3>2, <4>1
        <4> QED
          BY <1>4, <4>1, <4>2 DEF Blocks
      <3>3. CASE i > k
        <4>1. i - 1 \in 1 .. L - 1 /\ i - 1 >= k /\ (i - 1) + 1 = i
          BY <1>1, <3>3
        <4>2. x = v[i - 1]
          BY <1>4, <3>1, <4>1
        <4> QED
          BY <1>4, <4>1, <4>2 DEF Blocks
      <3> QED
        BY <1>1, <3>1, <3>2, <3>3
    <2> QED
      BY <2>1, <2>2
  <1>8. v # << >>
    BY <1>1, <1>4, EmptySeq
  <1> QED
    BY <1>4, <1>5, <1>6, <1>7, <1>8 DEF Chain, v

\* The cells of a chain in another order are a chain, if the pointers say so.
LEMMA ChainPermutes ==
  ASSUME NEW m, NEW w, Chain(m, w), NEW v \in Seq(DOMAIN m), Len(v) = Len(w), NoRepeats(v),
         Blocks(v) = Blocks(w), NEW m2, DOMAIN m2 = DOMAIN m,
         \A i \in 1 .. Len(w) : m2[v[i]] = [data |-> m[v[i]].data,
                                            next |-> IF i = Len(w) THEN NULL ELSE v[i + 1]]
  PROVE  Chain(m2, v)
  <1>1. Len(w) \in Nat \ {0}
    BY LenProperties, EmptySeq DEF Chain
  <1>2. v # << >>
    BY <1>1, EmptySeq
  <1>3. \A i \in 1 .. Len(w) - 1 : i \in 1 .. Len(w) /\ i # Len(w)
    BY <1>1
  <1>4. ASSUME NEW i \in 1 .. Len(w)
        PROVE  IsCell(m2[v[i]]) /\ m2[v[i]].next = IF i = Len(w) THEN NULL ELSE v[i + 1]
    <2>1. PICK d, n : m2[v[i]] = [data |-> d, next |-> n] /\ n = IF i = Len(w) THEN NULL ELSE v[i + 1]
      OBVIOUS
    <2> QED
      BY <2>1 DEF IsCell
  <1>5. Linked(m2, v)
    <2>1. Len(w) \in 1 .. Len(w)
      BY <1>1
    <2> QED
      BY <1>3, <1>4, <2>1 DEF Linked
  <1> QED
    BY <1>2, <1>5 DEF Chain

-----------------------------------------------------------------------------
\* A new cell at the end of a chain, once the last cell points to it.
LEMMA LinkEffect ==
  ASSUME NEW m, NEW w, Addresses(m), Chain(m, w), NEW d, NEW f, f \notin DOMAIN m,
         NEW a, DOMAIN a = DOMAIN m \cup {f}, a[f] = [data |-> d, next |-> NULL],
         \A x \in DOMAIN m : a[x] = m[x],
         NEW m2, m2 = [a EXCEPT ![LinkedList_getLastElement(m, w[1])].next = f]
  PROVE  LinksIn(m, w, Len(w), f, d, m2)
  <1> DEFINE l == w[Len(w)]
  <1>1. Len(w) \in 1 .. Len(w) /\ l \in DOMAIN m
    BY ChainIsShort, ElementOfSeq DEF Chain
  <1>2. LinkedList_getLastElement(m, w[1]) = l
    BY WalkOfChain DEF LinkedList_getLastElement, Last
  <1> HIDE DEF l
  <1>3. m[l].next = NULL /\ m[l] = [data |-> m[l].data, next |-> m[l].next]
    BY <1>1 DEF Chain, Linked, IsCell, l
  <1>4. PICK c, b : c = m[l].data /\ b = m[l]
    OBVIOUS
  <1>5. [b EXCEPT !.next = f] = [data |-> c, next |-> f]
    <2>1. b = [data |-> c, next |-> NULL]
      BY <1>3, <1>4
    <2> QED
      BY <2>1
  <1>6. [a EXCEPT ![l].next = f] = [a EXCEPT ![l] = [data |-> c, next |-> f]]
    <2>1. a[l] = b
      BY <1>1, <1>4
    <2> QED
      BY <1>5, <2>1
  <1>7. m2 = [a EXCEPT ![l] = [data |-> c, next |-> f]]
    BY <1>2, <1>6
  <1>8. LinksIn(m, w, Len(w), f, d, m2)
    <2>1. DOMAIN m2 = DOMAIN m \cup {f}
      BY <1>7
    <2>2. m2[l] = [data |-> m[l].data, next |-> f]
      BY <1>1, <1>4, <1>7
    <2>3. m2[f] = [data |-> d, next |-> m[l].next]
      BY <1>1, <1>3, <1>7
    <2>4. \A x \in DOMAIN m \ {l} : m2[x] = m[x]
      BY <1>7
    <2> QED
      BY <2>1, <2>2, <2>3, <2>4 DEF LinksIn, l
  <1> QED
    BY <1>8

\* LinkedList_add puts a new cell at the end of the chain.
LEMMA AddEffect ==
  ASSUME NEW m, NEW w, DOMAIN m \subseteq Heap, Chain(m, w), HasRoom(m, 1), NEW d
  PROVE  LinksIn(m, w, Len(w), Fresh(m), d, LinkedList_add(m, w[1], d))
  <1>1. PICK f, a : f = Fresh(m) /\ a = Memory_malloc(m, [data |-> d, next |-> NULL])
    OBVIOUS
  <1>2. Addresses(m)
    BY HeapAssumption, FS_Subset DEF Addresses
  <1>3. /\ f \notin DOMAIN m /\ DOMAIN a = DOMAIN m \cup {f}
        /\ a[f] = [data |-> d, next |-> NULL] /\ \A x \in DOMAIN m : a[x] = m[x]
    BY <1>1, MallocEffect
  <1>4. PICK m2 : /\ m2 = LinkedList_add(m, w[1], d)
                  /\ m2 = [a EXCEPT ![LinkedList_getLastElement(m, w[1])].next = f]
    BY <1>1 DEF LinkedList_add
  <1>5. LinksIn(m, w, Len(w), f, d, m2)
    BY <1>2, <1>3, <1>4, LinkEffect
  <1> QED
    BY <1>1, <1>4, <1>5

\* LinkedList_insertAfter puts it behind the cell it is given.
LEMMA InsertEffect ==
  ASSUME NEW m, NEW w, DOMAIN m \subseteq Heap, Chain(m, w), HasRoom(m, 1), NEW d,
         NEW k \in 1 .. Len(w)
  PROVE  LinksIn(m, w, k, Fresh(m), d, LinkedList_insertAfter(m, w[k], d))
  <1> DEFINE f == Fresh(m)
             l == w[k]
             n == LinkedList_getNext(m, l)
             a == Memory_malloc(m, [data |-> d, next |-> n])
  <1>1. l \in DOMAIN m
    BY ElementOfSeq DEF Chain
  <1>2. n = m[l].next
    BY <1>1 DEF LinkedList_getNext
  <1>4. /\ f \notin DOMAIN m /\ DOMAIN a = DOMAIN m \cup {f}
        /\ a[f] = [data |-> d, next |-> n] /\ \A x \in DOMAIN m : a[x] = m[x]
    <2>1. PICK block : block = [data |-> d, next |-> n]
      OBVIOUS
    <2>2. /\ Fresh(m) \notin DOMAIN m
          /\ DOMAIN Memory_malloc(m, block) = DOMAIN m \cup {Fresh(m)}
          /\ Memory_malloc(m, block)[Fresh(m)] = block
          /\ \A x \in DOMAIN m : Memory_malloc(m, block)[x] = m[x]
      BY MallocEffect
    <2> QED
      BY <2>1, <2>2
  <1>5. LinkedList_insertAfter(m, w[k], d) = [a EXCEPT ![l].next = f]
    BY DEF LinkedList_insertAfter
  <1> HIDE DEF a, f, l, n
  <1>6. m[l] = [data |-> m[l].data, next |-> m[l].next]
    BY DEF Chain, Linked, IsCell, l
  <1>7. PICK c, b : c = m[l].data /\ b = m[l]
    OBVIOUS
  <1>8. [b EXCEPT !.next = f] = [data |-> c, next |-> f]
    <2>1. b = [data |-> c, next |-> n]
      BY <1>2, <1>6, <1>7
    <2> QED
      BY <2>1
  <1>9. [a EXCEPT ![l].next = f] = [a EXCEPT ![l] = [data |-> c, next |-> f]]
    <2>1. a[l] = b
      BY <1>1, <1>4, <1>7
    <2> QED
      BY <1>8, <2>1
  <1>10. PICK m2 : m2 = [a EXCEPT ![l] = [data |-> c, next |-> f]]
    OBVIOUS
  <1>11. LinksIn(m, w, k, f, d, m2)
    <2>1. DOMAIN m2 = DOMAIN m \cup {f}
      BY <1>4, <1>10
    <2>2. m2[l] = [data |-> m[l].data, next |-> f]
      BY <1>1, <1>4, <1>7, <1>10
    <2>3. m2[f] = [data |-> d, next |-> m[l].next]
      BY <1>1, <1>2, <1>4, <1>10
    <2>4. \A x \in DOMAIN m \ {l} : m2[x] = m[x]
      BY <1>4, <1>10
    <2> QED
      BY <1>4, <2>1, <2>2, <2>3, <2>4 DEF LinksIn, l
  <1> QED
    BY <1>5, <1>9, <1>10, <1>11 DEF f

\* Unlink takes the cell behind the i-th one of the chain out.
LEMMA UnlinkEffect ==
  ASSUME NEW m, NEW w, Addresses(m), Chain(m, w), NEW i \in 1 .. Len(w) - 1
  PROVE  Unlinks(m, w, i + 1, Unlink(m, w[1], i))
  <1> DEFINE l == w[i]
             x == w[i + 1]
  <1>1. /\ Len(w) \in Nat /\ i \in 1 .. Len(w) /\ i + 1 \in 1 .. Len(w) /\ (i + 1) - 1 = i
        /\ i # i + 1
    BY ChainIsShort
  <1>2. l \in DOMAIN m /\ x \in DOMAIN m /\ l # x
    <2>1. l # x
      BY <1>1 DEF Chain, NoRepeats
    <2> QED
      BY <1>1, <2>1, ElementOfSeq DEF Chain
  <1>3. Unlink(m, w[1], i) = Memory_free([m EXCEPT ![l].next = m[x].next], {x})
    <2>1. <<w[1]>> \o Elements(m, w[1]) = w
      BY WalkOfChain
    <2> QED
      BY <2>1 DEF Unlink
  <1>4. m[l] = [data |-> m[l].data, next |-> m[l].next]
    BY <1>1 DEF Chain, Linked, IsCell
  <1> HIDE DEF l, x
  <1>5. PICK c, b, n, p : c = m[l].data /\ b = m[l] /\ n = m[x].next /\ p = m[l].next
    OBVIOUS
  <1>6. [b EXCEPT !.next = n] = [data |-> c, next |-> n]
    <2>1. b = [data |-> c, next |-> p]
      BY <1>4, <1>5
    <2> QED
      BY <2>1
  <1>7. [m EXCEPT ![l].next = m[x].next] = [m EXCEPT ![l] = [data |-> c, next |-> n]]
    BY <1>2, <1>5, <1>6
  <1>8. PICK a : a = [m EXCEPT ![l] = [data |-> c, next |-> n]]
    OBVIOUS
  <1>9. DOMAIN a = DOMAIN m /\ a[l] = [data |-> c, next |-> n] /\ \A y \in DOMAIN m \ {l} : a[y] = m[y]
    BY <1>2, <1>8
  <1>10. PICK m2 : m2 = Memory_free(a, {x})
    OBVIOUS
  <1>11. DOMAIN m2 = DOMAIN m \ {x} /\ \A y \in DOMAIN m \ {x} : m2[y] = a[y]
    BY <1>9, <1>10 DEF Memory_free
  <1>12. /\ m2[l] = [data |-> m[l].data, next |-> m[x].next]
         /\ \A y \in DOMAIN m2 \ {l} : m2[y] = m[y]
    BY <1>2, <1>5, <1>9, <1>11
  <1>13. Unlinks(m, w, i + 1, m2)
    BY <1>1, <1>11, <1>12 DEF Unlinks, l, x
  <1> QED
    BY <1>3, <1>7, <1>8, <1>10, <1>13

\* LinkedList_remove takes a cell out that is not the head, or leaves the heap alone.
LEMMA RemoveEffect ==
  ASSUME NEW m, NEW w, Addresses(m), Chain(m, w), NEW d
  PROVE  \/ LinkedList_remove(m, w[1], d).mem = m
         \/ \E k \in 2 .. Len(w) : Unlinks(m, w, k, LinkedList_remove(m, w[1], d).mem)
  <1> DEFINE e == Elements(m, w[1])
             hits == {j \in 1 .. Len(e) : m[e[j]].data = d}
             i == IF hits # {} THEN Min(hits) ELSE 0
  <1>1. LinkedList_remove(m, w[1], d).mem = IF i = 0 THEN m ELSE Unlink(m, w[1], i)
    BY DEF LinkedList_remove, SelectInSeq
  <1>2. Len(e) = Len(w) - 1 /\ Len(w) \in Nat
    BY WalkOfChain, ChainIsShort
  <1>3. CASE hits = {}
    BY <1>1, <1>3
  <1>4. CASE hits # {}
    <2>1. i \in 1 .. Len(w) - 1
      <3>1. hits \subseteq Nat /\ hits \subseteq 1 .. Len(w) - 1
        BY <1>2
      <3> HIDE DEF hits
      <3>2. \E x \in hits : \A y \in hits : x =< y
        BY <1>4, <3>1, LeastNatural
      <3>3. Min(hits) \in hits
        BY <3>2 DEF Min
      <3> QED
        BY <1>4, <3>1, <3>3
    <2> HIDE DEF i
    <2>2. Unlinks(m, w, i + 1, Unlink(m, w[1], i))
      BY <2>1, UnlinkEffect
    <2>3. i # 0 /\ i + 1 \in 2 .. Len(w)
      BY <1>2, <2>1
    <2> QED
      BY <1>1, <2>2, <2>3
  <1> QED
    BY <1>3, <1>4

-----------------------------------------------------------------------------
\* SelectInSeq gives the first position that passes the test, or 0; the set of
\* the positions that pass stands for the test.
LEMMA FirstPosition ==
  ASSUME NEW n \in Nat, NEW I, I \subseteq 1 .. n, NEW i, i = IF I # {} THEN Min(I) ELSE 0
  PROVE  /\ i \in 0 .. n
         /\ I = {} => i = 0
         /\ I # {} => i \in I /\ i # 0
         /\ \A j \in I : i =< j
  <1>1. CASE I = {}
    BY <1>1
  <1>2. CASE I # {}
    <2>1. I \subseteq Nat
      OBVIOUS
    <2>2. \E x \in I : \A y \in I : x =< y
      BY <1>2, <2>1, LeastNatural
    <2>3. Min(I) \in I /\ \A y \in I : Min(I) =< y
      BY <2>2 DEF Min
    <2>4. i \in I
      BY <1>2, <2>3
    <2> QED
      BY <1>2, <2>3, <2>4
  <1> QED
    BY <1>1, <1>2

\* Appending and inserting, as the chains grow.
LEMMA GrownIsInserted ==
  ASSUME NEW S, NEW s \in Seq(S), NEW c \in S
  PROVE  /\ Append(s, c) = Grown(s, Len(s), c)
         /\ \A i \in 1 .. Len(s) + 1 : InsertAt(s, i, c) = Grown(s, i - 1, c)
  <1> DEFINE L == Len(s)
  <1>1. L \in Nat /\ s \in [1 .. L -> S]
    BY LenProperties
  <1>2. Append(s, c) = Grown(s, L, c)
    <2> DEFINE v == Grown(s, L, c)
    <2>1. /\ Append(s, c) \in Seq(S) /\ Len(Append(s, c)) = L + 1
          /\ \A j \in 1 .. L : Append(s, c)[j] = s[j]
          /\ Append(s, c)[L + 1] = c
      BY AppendProperties
    <2>2. DOMAIN Append(s, c) = 1 .. L + 1 /\ Append(s, c) = [j \in 1 .. L + 1 |-> Append(s, c)[j]]
      BY <2>1, LenProperties
    <2>3. ASSUME NEW j \in 1 .. L + 1
          PROVE  Append(s, c)[j] = IF j =< L THEN s[j] ELSE IF j = L + 1 THEN c ELSE s[j - 1]
      BY <1>1, <2>1
    <2>4. Append(s, c) = v
      BY <2>2, <2>3 DEF Grown
    <2> QED
      BY <2>4
  <1>3. ASSUME NEW i \in 1 .. L + 1 PROVE InsertAt(s, i, c) = Grown(s, i - 1, c)
    <2> DEFINE a == SubSeq(s, 1, i - 1)
               b == SubSeq(s, i, L)
    <2>0. i \in 1 .. L + 1 /\ i \in Nat /\ i - 1 \in 0 .. L /\ i - 1 \in Int /\ L \in Int /\ i \in Int
      BY <1>1
    <2>1. a \in Seq(S) /\ Len(a) = i - 1 /\ \A j \in 1 .. i - 1 : a[j] = s[j]
      <3>1. \A j \in 1 .. i - 1 : s[j] \in S
        BY <1>1, <2>0
      <3>2. /\ a \in Seq(S) /\ Len(a) = IF 1 <= i - 1 THEN (i - 1) - 1 + 1 ELSE 0
            /\ \A j \in 1 .. (i - 1) - 1 + 1 : a[j] = s[1 + j - 1]
        BY <2>0, <3>1, SubSeqProperties
      <3>3. \A j \in 1 .. i - 1 : 1 + j - 1 = j
        BY <2>0
      <3>4. (i - 1) - 1 + 1 = i - 1
        BY <2>0
      <3> HIDE DEF a
      <3> QED
        BY <2>0, <3>2, <3>3, <3>4
    <2>2. b \in Seq(S) /\ Len(b) = L - i + 1 /\ \A j \in 1 .. L - i + 1 : b[j] = s[i + j - 1]
      <3>1. \A j \in i .. L : s[j] \in S
        BY <1>1, <2>0
      <3>2. /\ b \in Seq(S) /\ Len(b) = IF i <= L THEN L - i + 1 ELSE 0
            /\ \A j \in 1 .. L - i + 1 : b[j] = s[i + j - 1]
        BY <2>0, <3>1, SubSeqProperties
      <3> HIDE DEF b
      <3> QED
        BY <2>0, <3>2
    <2>3. InsertAt(s, i, c) = a \o <<c>> \o b
      BY DEF InsertAt
    <2> HIDE DEF a, b
    <2>4. /\ a \o <<c>> \in Seq(S) /\ Len(a \o <<c>>) = i
          /\ \A j \in 1 .. i : (a \o <<c>>)[j] = IF j =< i - 1 THEN a[j] ELSE c
      <3>1. PICK t \in Seq(S) : t = <<c>>
        <4>1. <<c>> \in Seq(S)
          OBVIOUS
        <4> QED
          BY <4>1, Zenon
      <3>2. Len(t) = 1 /\ t[1] = c
        BY <3>1
      <3>3. /\ a \o t \in Seq(S) /\ Len(a \o t) = Len(a) + Len(t)
            /\ \A j \in 1 .. Len(a) + Len(t) : (a \o t)[j] = IF j <= Len(a) THEN a[j] ELSE t[j - Len(a)]
        BY <2>1, ConcatProperties
      <3>4. Len(a) + Len(t) = i /\ \A j \in 1 .. i : ~(j =< i - 1) => j - (i - 1) = 1
        BY <2>0, <2>1, <3>2
      <3>5. \A j \in 1 .. i : (a \o t)[j] = IF j =< i - 1 THEN a[j] ELSE c
        BY <2>0, <2>1, <3>2, <3>3, <3>4
      <3> QED
        BY <3>1, <3>3, <3>4, <3>5
    <2>5. PICK u \in Seq(S) : u = a \o <<c>>
      BY <2>4, Zenon
    <2>6. /\ u \o b \in Seq(S) /\ Len(u \o b) = L + 1
          /\ \A j \in 1 .. L + 1 : (u \o b)[j] = IF j =< i THEN u[j] ELSE b[j - i]
      <3>1. Len(u) = i /\ Len(u) + Len(b) = L + 1
        <4>1. Len(u) = i /\ Len(b) = L - i + 1
          BY <2>2, <2>4, <2>5
        <4> QED
          BY <1>1, <2>0, <4>1
      <3>2. /\ u \o b \in Seq(S) /\ Len(u \o b) = Len(u) + Len(b)
            /\ \A j \in 1 .. Len(u) + Len(b) : (u \o b)[j] = IF j <= Len(u) THEN u[j] ELSE b[j - Len(u)]
        BY <2>2, ConcatProperties
      <3> QED
        BY <3>1, <3>2
    <2>7. ASSUME NEW j \in 1 .. L + 1
          PROVE  (u \o b)[j] = IF j =< i - 1 THEN s[j] ELSE IF j = (i - 1) + 1 THEN c ELSE s[j - 1]
      <3>1. CASE j =< i - 1
        <4>1. j \in 1 .. i /\ j =< i /\ j \in 1 .. i - 1
          BY <1>1, <2>0, <3>1
        <4> QED
          BY <2>1, <2>4, <2>5, <2>6, <3>1, <4>1
      <3>2. CASE j = i
        <4>1. j \in 1 .. i /\ j =< i /\ ~(j =< i - 1) /\ j = (i - 1) + 1
          BY <1>1, <2>0, <3>2
        <4> QED
          BY <2>4, <2>5, <2>6, <4>1
      <3>3. CASE j > i
        <4>1. /\ ~(j =< i) /\ ~(j =< i - 1) /\ j # (i - 1) + 1 /\ j - i \in 1 .. L - i + 1
              /\ i + (j - i) - 1 = j - 1
          BY <1>1, <2>0, <3>3
        <4>2. (u \o b)[j] = b[j - i] /\ b[j - i] = s[i + (j - i) - 1]
          BY <2>2, <2>6, <4>1
        <4> QED
          BY <4>1, <4>2
      <3>4. j =< i - 1 \/ j = i \/ j > i
        BY <1>1, <2>0
      <3> QED
        BY <3>1, <3>2, <3>3, <3>4
    <2>8. u \o b = [j \in 1 .. L + 1 |-> (u \o b)[j]]
      BY <2>6, LenProperties
    <2>9. u \o b = Grown(s, i - 1, c)
      BY <2>7, <2>8 DEF Grown
    <2> QED
      BY <2>3, <2>5, <2>9
  <1> QED
    BY <1>2, <1>3

\* A cell is inserted before the first one it comes before, or at the end.
InsertedBehind(m, s, c, k) ==
    /\ Inserted(m, s, c) = Grown(s, k, c)
    /\ \A j \in 1 .. k : ~IsBefore(m, c, s[j])
    /\ k # Len(s) => IsBefore(m, c, s[k + 1])

LEMMA InsertedIsGrown ==
  ASSUME NEW m, NEW S, NEW s \in Seq(S), NEW c \in S
  PROVE  \E k \in 0 .. Len(s) : InsertedBehind(m, s, c, k)
  <1> DEFINE L == Len(s)
             I == {j \in 1 .. Len(s) : IsBefore(m, c, s[j])}
             i == IF I # {} THEN Min(I) ELSE 0
  <1>1. L \in Nat
    BY LenProperties
  <1>2. i \in 0 .. L /\ (I = {} => i = 0) /\ (I # {} => i \in I /\ i # 0) /\ \A j \in I : i =< j
    <2>1. I \subseteq 1 .. L
      OBVIOUS
    <2> HIDE DEF I
    <2> QED
      BY <1>1, <2>1, FirstPosition
  <1>3. Inserted(m, s, c) = IF i = 0 THEN Append(s, c) ELSE InsertAt(s, i, c)
    BY DEF Inserted, SelectInSeq
  <1> HIDE DEF i
  <1>4. CASE I = {}
    <2>1. Inserted(m, s, c) = Grown(s, L, c)
      BY <1>2, <1>3, <1>4, GrownIsInserted
    <2>2. \A j \in 1 .. L : ~IsBefore(m, c, s[j])
      BY <1>4
    <2>3. L \in 0 .. L
      BY <1>1
    <2> QED
      BY <2>1, <2>2, <2>3 DEF InsertedBehind
  <1>5. CASE I # {}
    <2>1. i \in I /\ i \in 1 .. L /\ i \in 1 .. L + 1 /\ i # 0 /\ i - 1 \in 0 .. L /\ (i - 1) + 1 = i
      BY <1>1, <1>2, <1>5
    <2>2. Inserted(m, s, c) = Grown(s, i - 1, c)
      BY <1>3, <2>1, GrownIsInserted
    <2>3. ASSUME NEW j \in 1 .. i - 1 PROVE ~IsBefore(m, c, s[j])
      <3>1. j \in 1 .. L /\ ~(i =< j)
        BY <1>1, <2>1
      <3> QED
        BY <1>2, <3>1
    <2>4. IsBefore(m, c, s[i])
      BY <2>1
    <2> QED
      BY <2>1, <2>2, <2>3, <2>4 DEF InsertedBehind
  <1> QED
    BY <1>4, <1>5

\* Inserting the cells one by one is well defined.
LEMMA SortedEquation ==
  ASSUME NEW m, NEW S, NEW cells \in Seq(S)
  PROVE  /\ Sorted(m, cells)[0] = << >>
         /\ \A n \in 1 .. Len(cells) :
                Sorted(m, cells)[n] = Inserted(m, Sorted(m, cells)[n - 1], cells[n])
  <1> DEFINE L == Len(cells)
             sorted == Sorted(m, cells)
  <1>1. L \in Nat /\ cells \in [1 .. L -> S]
    BY LenProperties
  <1>2. PICK step : step = [n \in Nat |-> [s \in Seq(S) |-> Inserted(m, s, cells[n])]]
    OBVIOUS
  <1>3. PICK F : Recursive(F, << >>, step)
    BY Recursion
  <1>4. F[0] = << >> /\ \A n \in Nat : F[n + 1] = step[n + 1][F[n]]
    <2>1. F = [n \in Nat |-> IF n = 0 THEN << >> ELSE step[n][F[n - 1]]]
      BY <1>3 DEF Recursive
    <2>2. ASSUME NEW n \in Nat PROVE F[n + 1] = step[n + 1][F[n]]
      <3>1. n + 1 \in Nat /\ n + 1 # 0 /\ (n + 1) - 1 = n
        OBVIOUS
      <3> QED
        BY <2>1, <3>1
    <2> QED
      BY <2>1, <2>2
  <1> DEFINE T == {n \in Nat : n =< L => F[n] \in Seq(S)}
  <1>5. 0 \in T
    <2>1. << >> \in Seq(S)
      OBVIOUS
    <2> QED
      BY <1>4, <2>1
  <1>6. ASSUME NEW n \in Nat, n \in T PROVE n + 1 \in T
    <2> SUFFICES ASSUME n + 1 =< L PROVE F[n + 1] \in Seq(S)
      OBVIOUS
    <2>1. n + 1 \in 1 .. L /\ n =< L
      BY <1>1
    <2>2. F[n] \in Seq(S) /\ cells[n + 1] \in S
      BY <1>1, <1>6, <2>1
    <2>3. F[n + 1] = Inserted(m, F[n], cells[n + 1])
      <3>0. n + 1 \in Nat
        OBVIOUS
      <3>1. F[n + 1] = step[n + 1][F[n]]
        BY <1>4, Zenon
      <3>2. step[n + 1] = [s \in Seq(S) |-> Inserted(m, s, cells[n + 1])]
        BY <1>2, <3>0
      <3> QED
        BY <2>2, <3>1, <3>2
    <2>4. PICK s \in Seq(S), c \in S : s = F[n] /\ c = cells[n + 1]
      BY <2>2, Zenon
    <2>5. PICK k \in 0 .. Len(s) : Inserted(m, s, c) = Grown(s, k, c)
      BY InsertedIsGrown DEF InsertedBehind
    <2>6. Grown(s, k, c) \in Seq(S)
      BY GrownTyped
    <2> QED
      BY <2>3, <2>4, <2>5, <2>6
  <1>7. \A n \in Nat : n \in T
    <2> HIDE DEF T
    <2> QED
      BY <1>5, <1>6, Induction
  <1> DEFINE f == [n \in 0 .. L |-> F[n]]
  <1>8. ASSUME NEW n \in 0 .. L
        PROVE  F[n] = IF n = 0 THEN << >> ELSE Inserted(m, f[n - 1], cells[n])
    <2>1. CASE n = 0
      BY <1>4, <2>1
    <2>2. CASE n # 0
      <3>1. n - 1 \in Nat /\ n - 1 \in 0 .. L /\ n - 1 =< L /\ (n - 1) + 1 = n /\ n \in Nat
        BY <1>1, <2>2
      <3>2. F[n - 1] \in Seq(S)
        BY <1>7, <3>1
      <3>3. F[n] = step[n][F[n - 1]]
        BY <1>4, <3>1
      <3>4. f[n - 1] = F[n - 1]
        BY <3>1
      <3> QED
        BY <1>2, <2>2, <3>1, <3>2, <3>3, <3>4
    <2> QED
      BY <2>1, <2>2
  <1>9. f = [n \in 0 .. L |-> IF n = 0 THEN << >> ELSE Inserted(m, f[n - 1], cells[n])]
    BY <1>8
  <1> HIDE DEF f
  <1>10. sorted = [n \in 0 .. L |-> IF n = 0 THEN << >> ELSE Inserted(m, sorted[n - 1], cells[n])]
    BY <1>9, Zenon DEF Sorted
  <1> HIDE DEF sorted
  <1>11. sorted[0] = << >>
    BY <1>1, <1>10
  <1>12. ASSUME NEW n \in 1 .. L PROVE sorted[n] = Inserted(m, sorted[n - 1], cells[n])
    <2>1. n \in 0 .. L /\ n # 0
      BY <1>1
    <2> QED
      BY <1>10, <2>1
  <1> QED
    BY <1>11, <1>12 DEF sorted

\* The first n cells in order are the first n cells.
LEMMA SortedCells ==
  ASSUME NEW m, NEW S, NEW cells \in Seq(S), NoRepeats(cells)
  PROVE  LET s == Sorted(m, cells)[Len(cells)]
         IN  s \in Seq(S) /\ Len(s) = Len(cells) /\ NoRepeats(s) /\ Blocks(s) = Blocks(cells)
  <1> DEFINE L == Len(cells)
             sorted == Sorted(m, cells)
             T == {n \in Nat : n =< L => /\ sorted[n] \in Seq(S) /\ Len(sorted[n]) = n
                                         /\ NoRepeats(sorted[n])
                                         /\ Blocks(sorted[n]) = {cells[i] : i \in 1 .. n}}
  <1>1. L \in Nat /\ cells \in [1 .. L -> S]
    BY LenProperties
  <1>2. sorted[0] = << >> /\ \A n \in 1 .. L : sorted[n] = Inserted(m, sorted[n - 1], cells[n])
    BY SortedEquation
  <1> HIDE DEF sorted
  <1>3. 0 \in T
    <2>1. sorted[0] \in Seq(S) /\ Len(sorted[0]) = 0
      BY <1>2
    <2>2. 1 .. 0 = {}
      OBVIOUS
    <2>3. NoRepeats(sorted[0]) /\ Blocks(sorted[0]) = {cells[i] : i \in 1 .. 0}
      BY <2>1, <2>2 DEF NoRepeats, Blocks
    <2> QED
      BY <2>1, <2>3
  <1>4. ASSUME NEW n \in Nat, n \in T PROVE n + 1 \in T
    <2> SUFFICES ASSUME n + 1 =< L
                 PROVE  /\ sorted[n + 1] \in Seq(S) /\ Len(sorted[n + 1]) = n + 1
                        /\ NoRepeats(sorted[n + 1])
                        /\ Blocks(sorted[n + 1]) = {cells[i] : i \in 1 .. n + 1}
      OBVIOUS
    <2>1. n + 1 \in 1 .. L /\ n =< L /\ (n + 1) - 1 = n
      BY <1>1
    <2>2. PICK s \in Seq(S), c \in S : s = sorted[n] /\ c = cells[n + 1]
      <3>1. sorted[n] \in Seq(S) /\ cells[n + 1] \in S
        BY <1>1, <1>4, <2>1
      <3> QED
        BY <3>1, Zenon
    <2>3. Len(s) = n /\ NoRepeats(s) /\ Blocks(s) = {cells[i] : i \in 1 .. n}
      BY <1>4, <2>1, <2>2
    <2>4. sorted[n + 1] = Inserted(m, s, c)
      BY <1>2, <2>1, <2>2
    <2>5. PICK k \in 0 .. Len(s) : Inserted(m, s, c) = Grown(s, k, c)
      BY InsertedIsGrown DEF InsertedBehind
    <2>6. c \notin Blocks(s)
      <3> SUFFICES ASSUME NEW i \in 1 .. n, cells[i] = cells[n + 1] PROVE FALSE
        BY <2>2, <2>3
      <3>1. i \in 1 .. L /\ i # n + 1
        BY <2>1
      <3> QED
        BY <2>1, <3>1 DEF NoRepeats
    <2>7. PICK v : v = Grown(s, k, c)
      OBVIOUS
    <2>8. v \in Seq(S) /\ Len(v) = n + 1 /\ NoRepeats(v) /\ Blocks(v) = Blocks(s) \cup {c}
      BY <2>3, <2>6, <2>7, GrownSequence
    <2>9. {cells[i] : i \in 1 .. n + 1} = {cells[i] : i \in 1 .. n} \cup {cells[n + 1]}
      <3>1. 1 .. n + 1 = (1 .. n) \cup {n + 1}
        OBVIOUS
      <3> QED
        BY <3>1
    <2> QED
      BY <2>2, <2>3, <2>4, <2>5, <2>7, <2>8, <2>9
  <1>5. \A n \in Nat : n \in T
    <2> HIDE DEF T
    <2> QED
      BY <1>3, <1>4, Induction
  <1>6. /\ sorted[L] \in Seq(S) /\ Len(sorted[L]) = L /\ NoRepeats(sorted[L])
        /\ Blocks(sorted[L]) = Blocks(cells)
    <2>1. L \in T /\ L =< L
      <3> HIDE DEF T
      <3> QED
        BY <1>1, <1>5
    <2>2. Blocks(cells) = {cells[i] : i \in 1 .. L}
      BY DEF Blocks
    <2> QED
      BY <2>1, <2>2
  <1> QED
    BY <1>6 DEF sorted

\* What sorting leaves of a chain: its head, its cells, in the order they were
\* inserted in, their data, and the rest of the heap.
Reorders(m, w, v, m2) ==
    /\ Chain(m2, v) /\ v[1] = w[1] /\ Len(v) = Len(w) /\ Blocks(v) = Blocks(w)
    /\ DOMAIN m2 = DOMAIN m
    /\ \A a \in Blocks(w) : m2[a].data = m[a].data
    /\ \A a \in DOMAIN m \ Blocks(w) : m2[a] = m[a]
    /\ \A i \in 1 .. Len(w) - 1 : v[i + 1] = Sorted(m, Elements(m, w[1]))[Len(w) - 1][i]

\* StringUtils_sortList reorders the chain behind its head.
LEMMA SortEffect ==
  ASSUME NEW m, NEW w, Addresses(m), Chain(m, w)
  PROVE  \E v : Reorders(m, w, v, StringUtils_sortList(m, w[1]))
  <1> DEFINE L == Len(w)
             e == Elements(m, w[1])
             s == Sorted(m, e)[Len(e)]
             x == <<w[1]>> \o s \o <<NULL>>
             m2 == StringUtils_sortList(m, w[1])
  <1>1. L \in Nat \ {0} /\ w \in [1 .. L -> DOMAIN m] /\ w \in Seq(DOMAIN m)
    BY ChainIsShort, LenProperties DEF Chain
  <1>2. /\ e \in Seq(DOMAIN m) /\ Len(e) = L - 1 /\ \A i \in 1 .. L - 1 : e[i] = w[i + 1]
        /\ {w[1]} \cup ToSet(e) = Blocks(w)
    BY WalkOfChain
  <1> HIDE DEF e
  <1>3. \A i, j \in 1 .. L : w[i] = w[j] => i = j
    BY DEF Chain, NoRepeats
  <1>4. NoRepeats(e)
    <2> SUFFICES ASSUME NEW i \in 1 .. L - 1, NEW j \in 1 .. L - 1, e[i] = e[j] PROVE i = j
      BY <1>2 DEF NoRepeats
    <2>1. i + 1 \in 1 .. L /\ j + 1 \in 1 .. L /\ (i + 1 = j + 1 => i = j)
      BY <1>1
    <2>2. w[i + 1] = w[j + 1]
      BY <1>2
    <2> QED
      BY <1>3, <2>1, <2>2
  <1>5. s \in Seq(DOMAIN m) /\ Len(s) = L - 1 /\ NoRepeats(s) /\ Blocks(s) = Blocks(e)
    BY <1>2, <1>4, SortedCells
  <1>6. m2 = [a \in DOMAIN m |->
                 IF a \in ToSet(x)
                 THEN [m[a] EXCEPT !.next = x[SelectInSeq(x, LAMBDA b : b = a) + 1]] ELSE m[a]]
    BY DEF StringUtils_sortList, LinkedList_size, e
  <1> HIDE DEF s, m2
  <1>7. DOMAIN m \subseteq Nat /\ NULL \notin DOMAIN m /\ NULL \in Nat
    BY DEF Addresses, NULL
  <1>8. /\ x \in Seq(Nat) /\ Len(x) = L + 1 /\ x[1] = w[1] /\ x[L + 1] = NULL
        /\ \A i \in 1 .. L - 1 : x[i + 1] = s[i]
    <2> DEFINE u == <<w[1]>> \o s
    <2>1. w[1] \in DOMAIN m
      BY <1>1
    <2>2. PICK h \in DOMAIN m : h = w[1]
      BY <2>1, Zenon
    <2>3. /\ <<h>> \o s \in Seq(DOMAIN m) /\ Len(<<h>> \o s) = Len(s) + 1 /\ (<<h>> \o s)[1] = h
          /\ \A i \in 1 .. Len(s) : (<<h>> \o s)[i + 1] = s[i]
      BY <1>5, HeadFirst
    <2>4. (L - 1) + 1 = L
      BY <1>1
    <2>5. /\ u \in Seq(DOMAIN m) /\ Len(u) = L /\ u[1] = w[1]
          /\ \A i \in 1 .. L - 1 : u[i + 1] = s[i]
      BY <1>5, <2>2, <2>3, <2>4
    <2>6. x = u \o <<NULL>>
      OBVIOUS
    <2> HIDE DEF u, x
    <2>7. u \in Seq(Nat)
      BY <1>7, <2>5
    <2>8. x = Append(u, NULL)
      BY <1>7, <2>6, <2>7, AppendIsConcat
    <2>9. /\ x \in Seq(Nat) /\ Len(x) = L + 1 /\ x[L + 1] = NULL
          /\ \A i \in 1 .. L : x[i] = u[i]
      BY <1>7, <2>5, <2>7, <2>8, AppendProperties
    <2>10. \A i \in 1 .. L - 1 : i + 1 \in 1 .. L
      BY <1>1
    <2> QED
      BY <1>1, <2>5, <2>9, <2>10
  <1> HIDE DEF x
  <1> DEFINE v == [i \in 1 .. L |-> x[i]]
  <1>9. /\ v \in Seq(DOMAIN m) /\ Len(v) = L /\ v[1] = w[1]
        /\ \A i \in 1 .. L - 1 : v[i + 1] = s[i] /\ i + 1 \in 1 .. L
    <2>1. \A i \in 1 .. L - 1 : v[i + 1] = s[i] /\ i + 1 \in 1 .. L
      BY <1>1, <1>8
    <2>2. v[1] = w[1]
      BY <1>1, <1>8
    <2>3. ASSUME NEW i \in 1 .. L PROVE v[i] \in DOMAIN m
      <3>1. CASE i = 1
        BY <1>1, <2>2, <3>1
      <3>2. CASE i # 1
        <4>1. i - 1 \in 1 .. L - 1 /\ (i - 1) + 1 = i
          BY <1>1, <3>2
        <4>2. v[i] = s[i - 1]
          BY <2>1, <4>1
        <4>3. s[i - 1] \in DOMAIN m
          BY <1>5, <4>1, ElementOfSeq
        <4> QED
          BY <4>2, <4>3
      <3> QED
        BY <3>1, <3>2
    <2>4. v \in Seq(DOMAIN m) /\ Len(v) = L
      <3>1. \A i \in 1 .. L : x[i] \in DOMAIN m
        BY <2>3
      <3> QED
        BY <1>1, <3>1
    <2> QED
      BY <2>1, <2>2, <2>4
  <1>10. \A i \in 1 .. L : v[i] = x[i]
    OBVIOUS
  <1> HIDE DEF v
  <1>11. Blocks(e) = Blocks(w) \ {w[1]}
    <2>1. Blocks(e) = {w[i + 1] : i \in 1 .. L - 1}
      BY <1>2 DEF Blocks
    <2>2. ASSUME NEW i \in 1 .. L - 1 PROVE w[i + 1] \in Blocks(w) \ {w[1]}
      <3>1. i + 1 \in 1 .. L /\ 1 \in 1 .. L /\ i + 1 # 1
        BY <1>1
      <3> QED
        BY <1>3, <3>1 DEF Blocks
    <2>3. ASSUME NEW a \in Blocks(w) \ {w[1]} PROVE a \in Blocks(e)
      <3>1. PICK i \in 1 .. L : a = w[i] /\ i # 1
        BY DEF Blocks
      <3>2. i - 1 \in 1 .. L - 1 /\ (i - 1) + 1 = i
        BY <1>1, <3>1
      <3>3. w[(i - 1) + 1] \in Blocks(e)
        BY <2>1, <3>2
      <3> QED
        BY <3>1, <3>2, <3>3
    <2> QED
      BY <2>1, <2>2, <2>3
  <1>12. Blocks(v) = Blocks(w)
    <2>1. ASSUME NEW i \in 1 .. L PROVE v[i] = w[1] \/ v[i] \in Blocks(s)
      <3>1. CASE i = 1
        BY <1>9, <3>1
      <3>2. CASE i # 1
        <4>1. i - 1 \in 1 .. L - 1 /\ (i - 1) + 1 = i
          BY <1>1, <3>2
        <4>2. v[i] = s[i - 1]
          BY <1>9, <4>1
        <4> QED
          BY <1>5, <4>1, <4>2 DEF Blocks
      <3> QED
        BY <3>1, <3>2
    <2>2. ASSUME NEW i \in 1 .. L - 1 PROVE s[i] \in Blocks(v)
      <3>1. v[i + 1] = s[i] /\ i + 1 \in 1 .. L
        BY <1>9
      <3> QED
        BY <1>9, <3>1 DEF Blocks
    <2>3. w[1] \in Blocks(v) /\ w[1] \in Blocks(w)
      <3>1. 1 \in 1 .. L
        BY <1>1
      <3> QED
        BY <1>9, <3>1 DEF Blocks
    <2>4. Blocks(v) \subseteq {w[1]} \cup Blocks(s)
      BY <1>9, <2>1 DEF Blocks
    <2>5. Blocks(s) \subseteq Blocks(v)
      BY <1>5, <2>2 DEF Blocks
    <2>6. Blocks(s) = Blocks(w) \ {w[1]}
      BY <1>5, <1>11
    <2>7. PICK h, A, B, C : h = w[1] /\ A = Blocks(v) /\ B = Blocks(w) /\ C = Blocks(s)
      OBVIOUS
    <2>8. h \in A /\ h \in B /\ A \subseteq {h} \cup C /\ C \subseteq A /\ C = B \ {h}
      BY <2>3, <2>4, <2>5, <2>6, <2>7
    <2>9. A = B
      BY <2>8
    <2> QED
      BY <2>7, <2>9
  <1>13. NoRepeats(v)
    <2> SUFFICES ASSUME NEW i \in 1 .. L, NEW j \in 1 .. L, i < j, v[i] = v[j] PROVE FALSE
      BY <1>1, <1>9 DEF NoRepeats
    <2>1. j - 1 \in 1 .. L - 1 /\ (j - 1) + 1 = j
      BY <1>1
    <2>2. v[j] = s[j - 1]
      BY <1>9, <2>1
    <2>3. CASE i = 1
      <3>1. w[1] \in Blocks(s)
        BY <1>5, <1>9, <2>1, <2>2, <2>3 DEF Blocks
      <3> QED
        BY <1>5, <1>11, <3>1
    <2>4. CASE i # 1
      <3>1. i - 1 \in 1 .. L - 1 /\ (i - 1) + 1 = i /\ i - 1 # j - 1
        BY <1>1, <2>4
      <3>2. v[i] = s[i - 1]
        BY <1>9, <3>1
      <3> QED
        BY <1>5, <2>1, <2>2, <3>1, <3>2 DEF NoRepeats
    <2> QED
      BY <2>3, <2>4
  <1>14. ASSUME NEW i \in 1 .. L
         PROVE  SelectInSeq(x, LAMBDA b : b = v[i]) = i
    <2> DEFINE I == {j \in 1 .. L + 1 : x[j] = v[i]}
    <2>1. I = {i}
      <3>1. i \in I
        BY <1>1, <1>10
      <3>2. ASSUME NEW j \in 1 .. L + 1, x[j] = v[i] PROVE j = i
        <4>1. v[i] \in DOMAIN m
          BY <1>9, ElementOfSeq
        <4>2. j # L + 1
          BY <1>7, <1>8, <3>2, <4>1
        <4>3. j \in 1 .. L
          BY <1>1, <4>2
        <4>4. v[j] = v[i]
          BY <1>10, <3>2, <4>3
        <4> QED
          BY <1>9, <1>13, <4>3, <4>4 DEF NoRepeats
      <3> QED
        BY <3>1, <3>2
    <2>2. SelectInSeq(x, LAMBDA b : b = v[i]) = IF I # {} THEN Min(I) ELSE 0
      BY <1>8 DEF SelectInSeq
    <2> HIDE DEF I
    <2>3. (IF I # {} THEN Min(I) ELSE 0) \in I
      <3>1. I \subseteq 1 .. L + 1 /\ L + 1 \in Nat /\ I # {}
        BY <1>1, <2>1
      <3>2. PICK n : n = IF I # {} THEN Min(I) ELSE 0
        OBVIOUS
      <3>3. n \in I
        BY <3>1, <3>2, FirstPosition
      <3> QED
        BY <3>1, <3>2, <3>3
    <2> QED
      BY <2>1, <2>2, <2>3
  <1>15. ToSet(x) = Blocks(w) \cup {NULL}
    <2>1. ToSet(x) = {x[i] : i \in 1 .. L + 1}
      BY <1>8 DEF ToSet
    <2>2. 1 .. L + 1 = (1 .. L) \cup {L + 1}
      BY <1>1
    <2>3. {x[i] : i \in 1 .. L} = Blocks(v)
      BY <1>9, <1>10 DEF Blocks
    <2> QED
      BY <1>8, <1>12, <2>1, <2>2, <2>3
  <1>16. ASSUME NEW i \in 1 .. L
         PROVE  m2[v[i]] = [data |-> m[v[i]].data, next |-> IF i = L THEN NULL ELSE v[i + 1]]
    <2>1. v[i] \in DOMAIN m /\ v[i] \in ToSet(x) /\ v[i] \in Blocks(w)
      <3>1. v[i] \in DOMAIN m
        BY <1>9, ElementOfSeq
      <3>2. v[i] \in Blocks(v)
        BY <1>9 DEF Blocks
      <3> QED
        BY <1>12, <1>15, <3>1, <3>2
    <2>2. PICK a, n : a = v[i] /\ n = x[i + 1]
      OBVIOUS
    <2>3. m2[a] = [m[a] EXCEPT !.next = n]
      <3>1. SelectInSeq(x, LAMBDA b : b = a) = i
        BY <1>14, <2>2 DEF SelectInSeq
      <3> QED
        BY <1>6, <2>1, <2>2, <3>1
    <2>4. PICK c, b, p : c = m[a].data /\ b = m[a] /\ p = m[a].next
      OBVIOUS
    <2>5. b = [data |-> c, next |-> p]
      <3>1. PICK j \in 1 .. L : a = w[j]
        BY <2>1, <2>2 DEF Blocks
      <3>2. IsCell(m[a])
        BY <3>1 DEF Chain, Linked
      <3> QED
        BY <2>4, <3>2 DEF IsCell
    <2>6. [b EXCEPT !.next = n] = [data |-> c, next |-> n]
      BY <2>5
    <2>7. n = IF i = L THEN NULL ELSE v[i + 1]
      <3>1. CASE i = L
        BY <1>8, <2>2, <3>1
      <3>2. CASE i # L
        <4>1. L \in Nat
          BY <1>1
        <4>2. i + 1 \in 1 .. L
          BY <3>2, <4>1
        <4> QED
          BY <1>10, <2>2, <3>2, <4>2
      <3> QED
        BY <3>1, <3>2
    <2> QED
      BY <2>2, <2>3, <2>4, <2>6, <2>7
  <1>17. DOMAIN m2 = DOMAIN m
    BY <1>6
  <1>18. Chain(m2, v)
    BY <1>9, <1>12, <1>13, <1>16, <1>17, ChainPermutes
  <1>19. \A a \in DOMAIN m \ Blocks(w) : m2[a] = m[a]
    BY <1>6, <1>7, <1>15
  <1>20. \A a \in Blocks(w) : m2[a].data = m[a].data
    <2>1. ASSUME NEW i \in 1 .. L PROVE m2[v[i]].data = m[v[i]].data
      <3>1. PICK c, n : c = m[v[i]].data /\ m2[v[i]] = [data |-> c, next |-> n]
        BY <1>16
      <3> QED
        BY <3>1
    <2>2. \A a \in Blocks(v) : \E i \in 1 .. L : a = v[i]
      BY <1>9 DEF Blocks
    <2> QED
      BY <1>12, <2>1, <2>2
  <1>21. Reorders(m, w, v, m2)
    <2>1. \A i \in 1 .. L - 1 : v[i + 1] = Sorted(m, Elements(m, w[1]))[L - 1][i]
      BY <1>2, <1>9 DEF e, s
    <2> QED
      BY <1>9, <1>12, <1>17, <1>18, <1>19, <1>20, <2>1 DEF Reorders
  <1> QED
    BY <1>21 DEF m2

-----------------------------------------------------------------------------
\* What a live list and a live map own of the heap: the cells of the chain; for a
\* map also its object and the entries, one for each cell behind the head.
Owned(m, w) == {m[w[i]].data : i \in 2 .. Len(w)}

OwnEntries(m, w) ==
    /\ \A i \in 2 .. Len(w) : m[w[i]].data \in DOMAIN m /\ m[w[i]].data \notin Blocks(w)
    /\ \A i, j \in 2 .. Len(w) : m[w[i]].data = m[w[j]].data => i = j

MapObject(m, object, w) ==
    /\ object \in DOMAIN m /\ object \notin Blocks(w) /\ object \notin Owned(m, w)
    /\ m[object] = [entries |-> w[1], compareKeys |-> m[object].compareKeys]

ListOwns(m, head, A) == \E w : Chain(m, w) /\ w[1] = head /\ A = Blocks(w)

MapOwns(m, object, A) ==
    \E w : /\ Chain(m, w) /\ OwnEntries(m, w) /\ MapObject(m, object, w)
           /\ A = Blocks(w) \cup Owned(m, w) \cup {object}

\* Heap m becomes m2 in which blocks A2 stand for blocks A, all others untouched.
Replaces(m, A, m2, A2) ==
    /\ DOMAIN m2 = (DOMAIN m \ A) \cup A2 /\ A2 \cap (DOMAIN m \ A) = {}
    /\ \A a \in DOMAIN m \ A : m2[a] = m[a]

\* The positions of a chain are cells of the heap.
LEMMA ChainCells ==
  ASSUME NEW m, NEW w, Chain(m, w)
  PROVE  /\ Len(w) \in Nat \ {0} /\ Blocks(w) \subseteq DOMAIN m
         /\ \A i \in 1 .. Len(w) : w[i] \in DOMAIN m /\ w[i] \in Blocks(w)
         /\ \A i, j \in 1 .. Len(w) : w[i] = w[j] => i = j
         /\ \A i \in 2 .. Len(w) : i \in 1 .. Len(w) /\ i # 1
         /\ w[1] \in Blocks(w) /\ 1 \in 1 .. Len(w)
  <1>1. Len(w) \in Nat \ {0} /\ w \in [1 .. Len(w) -> DOMAIN m]
    BY LenProperties, EmptySeq DEF Chain
  <1>2. \A i, j \in 1 .. Len(w) : w[i] = w[j] => i = j
    BY DEF Chain, NoRepeats
  <1>3. \A i \in 1 .. Len(w) : w[i] \in DOMAIN m /\ w[i] \in Blocks(w)
    BY <1>1 DEF Blocks
  <1>4. Blocks(w) \subseteq DOMAIN m
    BY <1>3 DEF Blocks
  <1>5. 1 \in 1 .. Len(w) /\ \A i \in 2 .. Len(w) : i \in 1 .. Len(w) /\ i # 1
    BY <1>1
  <1> QED
    BY <1>1, <1>2, <1>3, <1>4, <1>5

\* What is owned is in use.
LEMMA OwnedInUse ==
  ASSUME NEW m, NEW h, NEW A, ListOwns(m, h, A) \/ MapOwns(m, h, A)
  PROVE  A \subseteq DOMAIN m /\ h \in A
  <1>1. CASE ListOwns(m, h, A)
    BY <1>1, ChainCells DEF ListOwns
  <1>2. CASE MapOwns(m, h, A)
    <2>1. PICK w : /\ Chain(m, w) /\ OwnEntries(m, w) /\ MapObject(m, h, w)
                   /\ A = Blocks(w) \cup Owned(m, w) \cup {h}
      BY <1>2 DEF MapOwns
    <2>2. Blocks(w) \subseteq DOMAIN m
      BY <2>1, ChainCells
    <2>3. Owned(m, w) \subseteq DOMAIN m
      BY <2>1 DEF OwnEntries, Owned
    <2> QED
      BY <2>1, <2>2, <2>3 DEF MapObject
  <1> QED
    BY <1>1, <1>2

\* What is not touched is still owned.
LEMMA OwnedFrame ==
  ASSUME NEW m, NEW h, NEW A, NEW m2, A \subseteq DOMAIN m2, \A a \in A : m2[a] = m[a]
  PROVE  /\ ListOwns(m, h, A) => ListOwns(m2, h, A)
         /\ MapOwns(m, h, A) => MapOwns(m2, h, A)
  <1>1. ASSUME ListOwns(m, h, A) PROVE ListOwns(m2, h, A)
    <2>1. PICK w : Chain(m, w) /\ w[1] = h /\ A = Blocks(w)
      BY <1>1 DEF ListOwns
    <2>2. Chain(m2, w)
      BY <2>1, ChainFrame
    <2> QED
      BY <2>1, <2>2 DEF ListOwns
  <1>2. ASSUME MapOwns(m, h, A) PROVE MapOwns(m2, h, A)
    <2>1. PICK w : /\ Chain(m, w) /\ OwnEntries(m, w) /\ MapObject(m, h, w)
                   /\ A = Blocks(w) \cup Owned(m, w) \cup {h}
      BY <1>2 DEF MapOwns
    <2>2. Chain(m2, w)
      <3>1. Blocks(w) \subseteq DOMAIN m2 /\ \A a \in Blocks(w) : m2[a] = m[a]
        BY <2>1
      <3> QED
        BY <2>1, <3>1, ChainFrame
    <2>3. \A i \in 2 .. Len(w) : m2[w[i]].data = m[w[i]].data
      BY <2>1, ChainCells
    <2>4. Owned(m2, w) = Owned(m, w)
      BY <2>3 DEF Owned
    <2>5. OwnEntries(m2, w)
      <3>1. \A i \in 2 .. Len(w) : m[w[i]].data \in A
        BY <2>1 DEF Owned
      <3> QED
        BY <2>1, <2>3, <3>1 DEF OwnEntries
    <2>6. MapObject(m2, h, w)
      <3>1. m2[h] = m[h] /\ h \in DOMAIN m2
        BY <2>1
      <3> QED
        BY <2>1, <2>4, <3>1 DEF MapObject
    <2> QED
      BY <2>1, <2>2, <2>4, <2>5, <2>6 DEF MapOwns
  <1> QED
    BY <1>1, <1>2

\* A list of its own.
LEMMA CreateEffect ==
  ASSUME NEW m, DOMAIN m \subseteq Heap, HasRoom(m, 1)
  PROVE  /\ LinkedList_create(m).ret = Fresh(m) /\ Fresh(m) \in Heap
         /\ Chain(LinkedList_create(m).mem, <<Fresh(m)>>)
         /\ LinkedList_create(m).mem[Fresh(m)].data = NULL
         /\ Replaces(m, {}, LinkedList_create(m).mem, {Fresh(m)})
  <1> DEFINE f == Fresh(m)
             b == [data |-> NULL, next |-> NULL]
             m2 == Memory_malloc(m, b)
             w == <<f>>
  <1>1. LinkedList_create(m).mem = m2 /\ LinkedList_create(m).ret = f
    BY DEF LinkedList_create
  <1>2. /\ f \in Heap \ DOMAIN m /\ DOMAIN m2 = DOMAIN m \cup {f} /\ m2[f] = b
        /\ \A a \in DOMAIN m : m2[a] = m[a]
    BY MallocEffect
  <1> HIDE DEF f, m2
  <1>3. w \in Seq(DOMAIN m2) /\ Len(w) = 1 /\ w[1] = f /\ w # << >>
    BY <1>2
  <1>4. NoRepeats(w)
    BY <1>3 DEF NoRepeats
  <1>5. Linked(m2, w)
    <2>1. IsCell(m2[f]) /\ m2[f].next = NULL
      BY <1>2 DEF IsCell
    <2> HIDE DEF w
    <2>2. 1 .. Len(w) - 1 = {} /\ \A i \in 1 .. Len(w) : i = 1
      BY <1>3
    <2> QED
      BY <1>3, <2>1, <2>2 DEF Linked
  <1>6. Replaces(m, {}, m2, {f})
    BY <1>2 DEF Replaces
  <1> QED
    BY <1>1, <1>2, <1>3, <1>4, <1>5, <1>6 DEF Chain, f

\* The list owns one block more when a cell is put in ...
LEMMA LinkInOwns ==
  ASSUME NEW m, NEW w, Chain(m, w), NEW k \in 1 .. Len(w), NEW f, NEW d, NEW m2,
         LinksIn(m, w, k, f, d, m2)
  PROVE  /\ Grown(w, k, f)[1] = w[1]
         /\ ListOwns(m2, w[1], Blocks(w) \cup {f})
         /\ Replaces(m, Blocks(w), m2, Blocks(w) \cup {f})
  <1>1. PICK v : v = Grown(w, k, f)
    OBVIOUS
  <1>2. Chain(m2, v) /\ Blocks(v) = Blocks(w) \cup {f}
    BY <1>1, ChainGrows
  <1>3. v[1] = w[1]
    <2>1. Len(w) \in Nat \ {0}
      BY ChainCells
    <2> QED
      BY <1>1, <2>1 DEF Grown
  <1>4. Replaces(m, Blocks(w), m2, Blocks(w) \cup {f})
    <2>1. Blocks(w) \subseteq DOMAIN m /\ w[k] \in Blocks(w)
      BY ChainCells
    <2> QED
      BY <2>1 DEF LinksIn, Replaces
  <1>5. ListOwns(m2, w[1], Blocks(w) \cup {f})
    BY <1>2, <1>3 DEF ListOwns
  <1> QED
    BY <1>1, <1>3, <1>4, <1>5

\* ... and one less when a cell is taken out.
LEMMA UnlinkOwns ==
  ASSUME NEW m, NEW w, Chain(m, w), NEW k \in 2 .. Len(w), NEW m2, Unlinks(m, w, k, m2)
  PROVE  /\ Cut(w, k)[1] = w[1]
         /\ ListOwns(m2, w[1], Blocks(w) \ {w[k]})
         /\ Replaces(m, Blocks(w), m2, Blocks(w) \ {w[k]})
  <1>1. PICK v : v = Cut(w, k)
    OBVIOUS
  <1>2. Chain(m2, v) /\ Blocks(v) = Blocks(w) \ {w[k]}
    BY <1>1, ChainShrinks
  <1>3. v[1] = w[1]
    <2>1. Len(w) \in Nat \ {0}
      BY ChainCells
    <2> QED
      BY <1>1, <2>1 DEF Cut
  <1>4. Replaces(m, Blocks(w), m2, Blocks(w) \ {w[k]})
    <2>1. k - 1 \in 1 .. Len(w) /\ k \in 1 .. Len(w)
      BY ChainCells
    <2>2. Blocks(w) \subseteq DOMAIN m /\ w[k] \in Blocks(w) /\ w[k - 1] \in Blocks(w)
      BY <2>1, ChainCells
    <2> QED
      BY <2>2 DEF Unlinks, Replaces
  <1>5. ListOwns(m2, w[1], Blocks(w) \ {w[k]})
    BY <1>2, <1>3 DEF ListOwns
  <1> QED
    BY <1>1, <1>3, <1>4, <1>5

\* The list operations that change the heap, on what the list owns.
LEMMA ListOperations ==
  ASSUME NEW m, DOMAIN m \subseteq Heap, NEW h, NEW A, ListOwns(m, h, A)
  PROVE  /\ \A d : HasRoom(m, 1) =>
                \E A2 : /\ ListOwns(LinkedList_add(m, h, d), h, A2)
                        /\ Replaces(m, A, LinkedList_add(m, h, d), A2)
                        /\ A2 \subseteq Heap
         /\ \A d : \A element \in {h} \cup ToSet(Elements(m, h)) : HasRoom(m, 1) =>
                \E A2 : /\ ListOwns(LinkedList_insertAfter(m, element, d), h, A2)
                        /\ Replaces(m, A, LinkedList_insertAfter(m, element, d), A2)
                        /\ A2 \subseteq Heap
         /\ \A d : \E A2 : /\ ListOwns(LinkedList_remove(m, h, d).mem, h, A2)
                           /\ Replaces(m, A, LinkedList_remove(m, h, d).mem, A2)
                           /\ A2 \subseteq Heap
         /\ \E A2 : /\ ListOwns(StringUtils_sortList(m, h), h, A2)
                    /\ Replaces(m, A, StringUtils_sortList(m, h), A2)
                    /\ A2 \subseteq Heap
         /\ A = {h} \cup ToSet(Elements(m, h))
  <1>1. PICK w : Chain(m, w) /\ w[1] = h /\ A = Blocks(w)
    BY DEF ListOwns
  <1>2. Addresses(m)
    BY HeapAssumption, FS_Subset DEF Addresses
  <1>3. A \subseteq DOMAIN m /\ A \subseteq Heap
    BY <1>1, ChainCells
  <1>4. A = {h} \cup ToSet(Elements(m, h))
    BY <1>1, <1>2, WalkOfChain
  <1>5. ASSUME NEW d, HasRoom(m, 1)
        PROVE  \E A2 : /\ ListOwns(LinkedList_add(m, h, d), h, A2)
                       /\ Replaces(m, A, LinkedList_add(m, h, d), A2)
                       /\ A2 \subseteq Heap
    <2>1. PICK f, m2, k : f = Fresh(m) /\ m2 = LinkedList_add(m, h, d) /\ k = Len(w)
      OBVIOUS
    <2>2. LinksIn(m, w, k, f, d, m2)
      BY <1>1, <1>5, <2>1, AddEffect
    <2>3. k \in 1 .. Len(w) /\ f \in Heap
      <3>1. f \in Heap
        BY <1>5, <2>1, MallocEffect
      <3> QED
        BY <1>1, <2>1, <3>1, ChainCells
    <2>4. ListOwns(m2, h, A \cup {f}) /\ Replaces(m, A, m2, A \cup {f})
      BY <1>1, <2>2, <2>3, LinkInOwns
    <2> QED
      BY <1>3, <2>1, <2>3, <2>4
  <1>6. ASSUME NEW d, NEW element \in {h} \cup ToSet(Elements(m, h)), HasRoom(m, 1)
        PROVE  \E A2 : /\ ListOwns(LinkedList_insertAfter(m, element, d), h, A2)
                       /\ Replaces(m, A, LinkedList_insertAfter(m, element, d), A2)
                       /\ A2 \subseteq Heap
    <2>1. PICK k \in 1 .. Len(w) : element = w[k]
      BY <1>1, <1>4 DEF Blocks
    <2>2. PICK f, m2 : f = Fresh(m) /\ m2 = LinkedList_insertAfter(m, element, d)
      OBVIOUS
    <2>3. LinksIn(m, w, k, f, d, m2)
      BY <1>1, <1>6, <2>1, <2>2, InsertEffect
    <2>4. f \in Heap
      BY <1>6, <2>2, MallocEffect
    <2>5. ListOwns(m2, h, A \cup {f}) /\ Replaces(m, A, m2, A \cup {f})
      BY <1>1, <2>3, LinkInOwns
    <2> QED
      BY <1>3, <2>2, <2>4, <2>5
  <1>7. ASSUME NEW m2, m2 = m PROVE ListOwns(m2, h, A) /\ Replaces(m, A, m2, A)
    BY <1>3, <1>7 DEF Replaces
  <1>8. ASSUME NEW d
        PROVE  \E A2 : /\ ListOwns(LinkedList_remove(m, h, d).mem, h, A2)
                       /\ Replaces(m, A, LinkedList_remove(m, h, d).mem, A2)
                       /\ A2 \subseteq Heap
    <2>1. PICK m2 : m2 = LinkedList_remove(m, h, d).mem
      OBVIOUS
    <2>2. m2 = m \/ \E k \in 2 .. Len(w) : Unlinks(m, w, k, m2)
      BY <1>1, <1>2, <2>1, RemoveEffect
    <2>3. CASE m2 = m
      BY <1>3, <1>7, <2>1, <2>3
    <2>4. ASSUME NEW k \in 2 .. Len(w), Unlinks(m, w, k, m2)
          PROVE  ListOwns(m2, h, A \ {w[k]}) /\ Replaces(m, A, m2, A \ {w[k]})
      BY <1>1, <2>4, UnlinkOwns
    <2>5. \A k : A \ {w[k]} \subseteq Heap
      BY <1>3
    <2> QED
      BY <2>1, <2>2, <2>3, <2>4, <2>5
  <1>9. \E A2 : /\ ListOwns(StringUtils_sortList(m, h), h, A2)
                /\ Replaces(m, A, StringUtils_sortList(m, h), A2)
                /\ A2 \subseteq Heap
    <2>1. PICK m2 : m2 = StringUtils_sortList(m, h)
      OBVIOUS
    <2>2. PICK v : Reorders(m, w, v, m2)
      BY <1>1, <1>2, <2>1, SortEffect
    <2>3. ListOwns(m2, h, A)
      BY <1>1, <2>2 DEF Reorders, ListOwns
    <2>4. Replaces(m, A, m2, A)
      BY <1>1, <1>3, <2>2 DEF Reorders, Replaces
    <2> QED
      BY <1>3, <2>1, <2>3, <2>4
  <1> QED
    BY <1>4, <1>5, <1>6, <1>8, <1>9

-----------------------------------------------------------------------------
\* DataOf gives what the cells behind the head point to.
LEMMA DataOfChain ==
  ASSUME NEW m, NEW w, Addresses(m), Chain(m, w)
  PROVE  ToSet(DataOf(m, w[1])) = Owned(m, w)
  <1> DEFINE L == Len(w)
             D == DataOf(m, w[1])
  <1>1. L \in Nat \ {0}
    BY ChainCells
  <1>2. D = [i \in 1 .. L - 1 |-> m[w[i + 1]].data]
    <2>1. PICK e : e = Elements(m, w[1])
      OBVIOUS
    <2>2. Len(e) = L - 1 /\ \A i \in 1 .. L - 1 : e[i] = w[i + 1]
      BY <2>1, WalkOfChain
    <2>3. D = [i \in 1 .. Len(e) |-> m[e[i]].data]
      BY <2>1 DEF DataOf
    <2> HIDE DEF D
    <2> QED
      BY <2>2, <2>3
  <1> HIDE DEF D
  <1>3. ToSet(D) = {m[w[i + 1]].data : i \in 1 .. L - 1}
    <2>1. DOMAIN D = 1 .. L - 1 /\ Len(D) = L - 1
      BY <1>1, <1>2
    <2> QED
      BY <1>2, <2>1 DEF ToSet
  <1>4. ASSUME NEW i \in 1 .. L - 1 PROVE i + 1 \in 2 .. L
    BY <1>1
  <1>5. ASSUME NEW i \in 2 .. L PROVE i - 1 \in 1 .. L - 1 /\ (i - 1) + 1 = i
    BY <1>1
  <1>6. ToSet(D) \subseteq Owned(m, w)
    BY <1>3, <1>4 DEF Owned
  <1>7. ASSUME NEW i \in 2 .. L PROVE m[w[i]].data \in ToSet(D)
    <2>1. m[w[(i - 1) + 1]].data \in ToSet(D)
      BY <1>3, <1>5
    <2> QED
      BY <1>5, <2>1
  <1>8. Owned(m, w) \subseteq ToSet(D)
    BY <1>7 DEF Owned
  <1> QED
    BY <1>6, <1>8 DEF D

\* Deleting a map frees all it owns and nothing else.
LEMMA MapDeleteEffect ==
  ASSUME NEW m, DOMAIN m \subseteq Heap, NEW h, NEW A, MapOwns(m, h, A),
         NEW deleteKey, NEW deleteValues
  PROVE  Replaces(m, A, MapDeleted(m, h, deleteKey, deleteValues).mem, {})
  <1>1. PICK w : /\ Chain(m, w) /\ OwnEntries(m, w) /\ MapObject(m, h, w)
                 /\ A = Blocks(w) \cup Owned(m, w) \cup {h}
    BY DEF MapOwns
  <1>2. Addresses(m)
    BY HeapAssumption, FS_Subset DEF Addresses
  <1>3. m[h].entries = w[1]
    BY <1>1 DEF MapObject
  <1>4. {w[1]} \cup ToSet(Elements(m, w[1])) = Blocks(w)
    BY <1>1, <1>2, WalkOfChain
  <1>5. ToSet(DataOf(m, w[1])) = Owned(m, w)
    BY <1>1, <1>2, DataOfChain
  <1>6. NULL \notin Owned(m, w)
    BY <1>1, <1>2 DEF OwnEntries, Owned, Addresses
  <1>7. MapDeleted(m, h, deleteKey, deleteValues).mem
            = Memory_free(Memory_free(Memory_free(m, Blocks(w)), Owned(m, w)), {h})
    <2>1. LinkedList_destroyDeep(m, w[1]).mem = Memory_free(m, Blocks(w))
      BY <1>4 DEF LinkedList_destroyDeep
    <2>2. ToSet(DataOf(m, w[1])) \ {NULL} = Owned(m, w)
      BY <1>5, <1>6
    <2>3. LinkedList_destroy(m, w[1]) = Memory_free(Memory_free(m, Blocks(w)), Owned(m, w))
      BY <2>1, <2>2 DEF LinkedList_destroy
    <2> QED
      BY <1>3, <2>3 DEF MapDeleted
  <1>8. PICK m1, B, O : B = Blocks(w) /\ O = Owned(m, w) /\ m1 = Memory_free(m, B)
    OBVIOUS
  <1>9. DOMAIN m1 = DOMAIN m \ B /\ \A a \in DOMAIN m1 : m1[a] = m[a]
    BY <1>8 DEF Memory_free
  <1>10. PICK m2 : m2 = Memory_free(m1, O)
    OBVIOUS
  <1>11. DOMAIN m2 = DOMAIN m1 \ O /\ \A a \in DOMAIN m2 : m2[a] = m1[a]
    BY <1>10 DEF Memory_free
  <1>12. PICK m3 : m3 = Memory_free(m2, {h})
    OBVIOUS
  <1>13. DOMAIN m3 = DOMAIN m2 \ {h} /\ \A a \in DOMAIN m3 : m3[a] = m2[a]
    BY <1>12 DEF Memory_free
  <1>14. Replaces(m, A, m3, {})
    BY <1>1, <1>8, <1>9, <1>11, <1>13 DEF Replaces
  <1> QED
    BY <1>7, <1>8, <1>10, <1>12, <1>14

\* What malloc returns are addresses.
LEMMA HeapAddresses ==
  ASSUME NEW m, DOMAIN m \subseteq Heap
  PROVE  Addresses(m)
  BY HeapAssumption, FS_Subset DEF Addresses

\* The pairs of a map: key and value of the entry of each cell behind the head.
PairAt(m, cell) == <<m[m[cell].data].key, m[m[cell].data].value>>

Pairs(m, w) == [i \in 1 .. Len(w) - 1 |-> PairAt(m, w[i + 1])]

PairsOf(m, object) ==
    LET walk == Elements(m, m[object].entries)
    IN  [i \in 1 .. Len(walk) |-> <<Entry(m, walk[i]).key, Entry(m, walk[i]).value>>]

LEMMA PairsOfChain ==
  ASSUME NEW m, NEW w, Addresses(m), Chain(m, w), NEW h, m[h].entries = w[1]
  PROVE  /\ PairsOf(m, h) = Pairs(m, w) /\ Len(Pairs(m, w)) = Len(w) - 1
         /\ \A i \in 1 .. Len(w) - 1 : Pairs(m, w)[i] = PairAt(m, w[i + 1])
  <1>1. PICK e, n : e = Elements(m, w[1]) /\ n = Len(w) - 1
    OBVIOUS
  <1>2. Len(e) = n /\ \A i \in 1 .. n : e[i] = w[i + 1]
    BY <1>1, WalkOfChain
  <1>3. n \in Nat
    <2>1. Len(w) \in Nat \ {0}
      BY ChainCells
    <2> QED
      BY <1>1, <2>1
  <1>4. PairsOf(m, h) = [i \in 1 .. n |-> PairAt(m, w[i + 1])]
    BY <1>1, <1>2 DEF PairsOf, PairAt, Entry
  <1>5. Pairs(m, w) = [i \in 1 .. n |-> PairAt(m, w[i + 1])]
    BY <1>1 DEF Pairs
  <1> HIDE DEF PairAt
  <1>6. Len(Pairs(m, w)) = n /\ \A i \in 1 .. n : Pairs(m, w)[i] = PairAt(m, w[i + 1])
    BY <1>3, <1>5
  <1> QED
    BY <1>1, <1>4, <1>5, <1>6

\* Room for two blocks is room for one.
LEMMA RoomForOne ==
  ASSUME NEW m, HasRoom(m, 2)
  PROVE  HasRoom(m, 1)
  <1>1. IsFiniteSet(Heap \ DOMAIN m)
    BY HeapAssumption, FS_Subset
  <1>2. PICK n : n = Cardinality(Heap \ DOMAIN m)
    OBVIOUS
  <1>3. n \in Nat /\ n >= 2
    BY <1>1, <1>2, FS_CardinalityType DEF HasRoom
  <1> QED
    BY <1>2, <1>3 DEF HasRoom

\* A second block can be taken after the first.
LEMMA RoomForTwo ==
  ASSUME NEW m, DOMAIN m \subseteq Heap, HasRoom(m, 2), NEW m1, NEW f, f \in Heap \ DOMAIN m,
         DOMAIN m1 = DOMAIN m \cup {f}
  PROVE  HasRoom(m1, 1)
  <1> DEFINE F == Heap \ DOMAIN m
             F1 == Heap \ DOMAIN m1
  <1>1. IsFiniteSet(F)
    BY HeapAssumption, FS_Subset
  <1>2. F1 = F \ {f} /\ f \in F
    OBVIOUS
  <1> HIDE DEF F, F1
  <1>3. Cardinality(F) \in Nat /\ Cardinality(F \ {f}) = Cardinality(F) - 1
    BY <1>1, <1>2, FS_CardinalityType, FS_RemoveElement
  <1>4. Cardinality(F) >= 2
    BY DEF HasRoom, F
  <1>5. Cardinality(F1) >= 1
    BY <1>2, <1>3, <1>4
  <1> QED
    BY <1>5 DEF HasRoom, F1

\* A new map owns its object and the head of its list.
LEMMA MapCreateEffect ==
  ASSUME NEW m, DOMAIN m \subseteq Heap, HasRoom(m, 2), NEW compareKeys
  PROVE  /\ \E A2 : /\ MapOwns(Map_create(m, compareKeys).mem, Map_create(m, compareKeys).ret, A2)
                    /\ Replaces(m, {}, Map_create(m, compareKeys).mem, A2)
                    /\ A2 \subseteq Heap
         /\ PairsOf(Map_create(m, compareKeys).mem, Map_create(m, compareKeys).ret) = << >>
         /\ Map_create(m, compareKeys).mem[Map_create(m, compareKeys).ret].compareKeys = compareKeys
  <1>1. PICK m1, f : m1 = LinkedList_create(m).mem /\ f = Fresh(m)
    OBVIOUS
  <1>2. LinkedList_create(m).ret = f /\ f \in Heap /\ Chain(m1, <<f>>) /\ Replaces(m, {}, m1, {f})
    BY <1>1, RoomForOne, CreateEffect
  <1>3. DOMAIN m1 = DOMAIN m \cup {f} /\ f \notin DOMAIN m /\ \A a \in DOMAIN m : m1[a] = m[a]
    BY <1>2 DEF Replaces
  <1>4. HasRoom(m1, 1)
    BY <1>2, <1>3, RoomForTwo
  <1>5. PICK m2, g, b : /\ b = [entries |-> f, compareKeys |-> compareKeys]
                        /\ m2 = Memory_malloc(m1, b) /\ g = Fresh(m1)
    OBVIOUS
  <1>6. /\ g \in Heap \ DOMAIN m1 /\ DOMAIN m2 = DOMAIN m1 \cup {g} /\ m2[g] = b
        /\ \A a \in DOMAIN m1 : m2[a] = m1[a]
    <2>1. DOMAIN m1 \subseteq Heap
      BY <1>2, <1>3
    <2>2. /\ Fresh(m1) \in Heap \ DOMAIN m1
          /\ DOMAIN Memory_malloc(m1, b) = DOMAIN m1 \cup {Fresh(m1)}
          /\ Memory_malloc(m1, b)[Fresh(m1)] = b
          /\ \A a \in DOMAIN m1 : Memory_malloc(m1, b)[a] = m1[a]
      BY <1>4, <2>1, MallocEffect
    <2> QED
      BY <1>5, <2>2
  <1>7. Map_create(m, compareKeys).mem = m2 /\ Map_create(m, compareKeys).ret = g
    BY <1>1, <1>2, <1>5 DEF Map_create
  <1>8. PICK w : w = <<f>>
    OBVIOUS
  <1>9. Len(w) = 1 /\ w[1] = f /\ Blocks(w) = {f} /\ 2 .. Len(w) = {}
    <2>1. Len(w) = 1 /\ w[1] = f
      BY <1>8
    <2>2. 1 .. 1 = {1} /\ 2 .. 1 = {}
      OBVIOUS
    <2> QED
      BY <2>1, <2>2 DEF Blocks
  <1>10. Chain(m2, w)
    <2>1. Chain(m1, w)
      BY <1>2, <1>8
    <2>2. Blocks(w) \subseteq DOMAIN m2 /\ \A a \in Blocks(w) : m2[a] = m1[a]
      BY <1>3, <1>6, <1>9
    <2> QED
      BY <2>1, <2>2, ChainFrame
  <1>11. Owned(m2, w) = {} /\ OwnEntries(m2, w)
    BY <1>9 DEF Owned, OwnEntries
  <1>12. MapObject(m2, g, w)
    <2>1. g # f /\ g \in DOMAIN m2
      BY <1>3, <1>6
    <2>2. m2[g] = [entries |-> w[1], compareKeys |-> m2[g].compareKeys]
      BY <1>5, <1>6, <1>9
    <2> QED
      BY <1>9, <1>11, <2>1, <2>2 DEF MapObject
  <1>13. MapOwns(m2, g, {f, g})
    <2>1. {f, g} = Blocks(w) \cup Owned(m2, w) \cup {g}
      BY <1>9, <1>11
    <2> QED
      BY <1>10, <1>11, <1>12, <2>1 DEF MapOwns
  <1>14. Replaces(m, {}, m2, {f, g})
    BY <1>3, <1>6 DEF Replaces
  <1>15. PairsOf(m2, g) = << >> /\ m2[g].compareKeys = compareKeys
    <2>1. Addresses(m2)
      <3>1. DOMAIN m2 \subseteq Heap
        BY <1>2, <1>3, <1>6
      <3> QED
        BY <3>1, HeapAddresses
    <2>2. m2[g].entries = w[1] /\ m2[g].compareKeys = compareKeys
      BY <1>5, <1>6, <1>9
    <2>3. Pairs(m2, w) = << >>
      BY <1>9 DEF Pairs
    <2> QED
      BY <1>10, <2>1, <2>2, <2>3, PairsOfChain
  <1>16. {f, g} \subseteq Heap
    BY <1>2, <1>6
  <1> QED
    BY <1>7, <1>13, <1>14, <1>15, <1>16

\* Map_addEntry: the map owns a new entry and the cell that points to it.
LEMMA MapAddEffect ==
  ASSUME NEW m, DOMAIN m \subseteq Heap, HasRoom(m, 2), NEW h, NEW A, MapOwns(m, h, A),
         NEW key, NEW value
  PROVE  \E A2 : /\ MapOwns(Map_addEntry(m, h, key, value), h, A2)
                 /\ Replaces(m, A, Map_addEntry(m, h, key, value), A2)
                 /\ A2 \subseteq Heap
                 /\ PairsOf(Map_addEntry(m, h, key, value), h)
                       = Grown(PairsOf(m, h), Len(PairsOf(m, h)), <<key, value>>)
                 /\ Map_addEntry(m, h, key, value)[h].compareKeys = m[h].compareKeys
  <1>1. PICK w : /\ Chain(m, w) /\ OwnEntries(m, w) /\ MapObject(m, h, w)
                 /\ A = Blocks(w) \cup Owned(m, w) \cup {h}
    BY DEF MapOwns
  <1>2. PICK m1, f, b : /\ b = [key |-> key, value |-> value]
                        /\ m1 = Memory_malloc(m, b) /\ f = Fresh(m)
    OBVIOUS
  <1>3. /\ f \in Heap \ DOMAIN m /\ DOMAIN m1 = DOMAIN m \cup {f} /\ m1[f] = b
        /\ \A a \in DOMAIN m : m1[a] = m[a]
    <2>1. /\ Fresh(m) \in Heap \ DOMAIN m
          /\ DOMAIN Memory_malloc(m, b) = DOMAIN m \cup {Fresh(m)}
          /\ Memory_malloc(m, b)[Fresh(m)] = b
          /\ \A a \in DOMAIN m : Memory_malloc(m, b)[a] = m[a]
      BY RoomForOne, MallocEffect
    <2> QED
      BY <1>2, <2>1
  <1>4. HasRoom(m1, 1) /\ DOMAIN m1 \subseteq Heap
    BY <1>3, RoomForTwo
  <1>5. PICK m2, g, L : m2 = LinkedList_add(m1, w[1], f) /\ g = Fresh(m1) /\ L = Len(w)
    OBVIOUS
  <1>6. Map_addEntry(m, h, key, value) = m2
    <2>1. m[h].entries = w[1]
      BY <1>1 DEF MapObject
    <2> QED
      BY <1>2, <1>5, <2>1 DEF Map_addEntry
  <1>7. /\ L \in Nat \ {0} /\ Blocks(w) \subseteq DOMAIN m /\ A \subseteq DOMAIN m /\ h \in DOMAIN m
        /\ Owned(m, w) \subseteq DOMAIN m
        /\ \A i \in 1 .. L : w[i] \in DOMAIN m /\ w[i] \in Blocks(w)
        /\ \A i, j \in 1 .. L : w[i] = w[j] => i = j
    <2>1. Owned(m, w) \subseteq DOMAIN m
      BY <1>1 DEF OwnEntries, Owned
    <2>2. A \subseteq DOMAIN m /\ h \in DOMAIN m
      BY <1>1, OwnedInUse
    <2> QED
      BY <1>1, <1>5, <2>1, <2>2, ChainCells
  <1>8. Chain(m1, w)
    <2>1. Blocks(w) \subseteq DOMAIN m1 /\ \A a \in Blocks(w) : m1[a] = m[a]
      BY <1>3, <1>7
    <2> QED
      BY <1>1, <2>1, ChainFrame
  <1>9. LinksIn(m1, w, L, g, f, m2) /\ g \in Heap
    <2>1. LinksIn(m1, w, Len(w), Fresh(m1), f, LinkedList_add(m1, w[1], f))
      BY <1>4, <1>8, AddEffect
    <2>2. Fresh(m1) \in Heap
      BY <1>4, MallocEffect
    <2> QED
      BY <1>5, <2>1, <2>2
  <1>10. /\ g \notin DOMAIN m1 /\ DOMAIN m2 = DOMAIN m \cup {f, g}
         /\ m2[g].data = f /\ m2[w[L]].data = m[w[L]].data
         /\ \A a \in DOMAIN m \ {w[L]} : m2[a] = m[a]
    <2>1. /\ g \notin DOMAIN m1 /\ DOMAIN m2 = DOMAIN m1 \cup {g}
          /\ \A a \in DOMAIN m1 \ {w[L]} : m2[a] = m1[a]
      BY <1>9 DEF LinksIn
    <2>2. m2[g].data = f /\ m2[w[L]].data = m1[w[L]].data
      <3>1. PICK n, c : /\ m2[g] = [data |-> f, next |-> n] /\ c = m1[w[L]].data
                        /\ m2[w[L]] = [data |-> c, next |-> g]
        BY <1>9 DEF LinksIn
      <3> QED
        BY <3>1
    <2>3. m1[w[L]] = m[w[L]]
      BY <1>3, <1>7
    <2>4. DOMAIN m2 = DOMAIN m \cup {f, g}
      BY <1>3, <2>1
    <2>5. \A a \in DOMAIN m \ {w[L]} : m2[a] = m[a]
      BY <1>3, <2>1
    <2> QED
      BY <2>1, <2>2, <2>3, <2>4, <2>5
  <1>11. g \notin DOMAIN m /\ g # f /\ f \notin DOMAIN m
    BY <1>3, <1>10
  <1>12. PICK v : v = Grown(w, L, g)
    OBVIOUS
  <1>13. Chain(m2, v) /\ Len(v) = L + 1 /\ Blocks(v) = Blocks(w) \cup {g}
    <2>1. L \in 1 .. Len(w)
      BY <1>5, <1>7
    <2>2. /\ Chain(m2, Grown(w, L, g)) /\ Len(Grown(w, L, g)) = Len(w) + 1
          /\ Blocks(Grown(w, L, g)) = Blocks(w) \cup {g}
      BY <1>8, <1>9, <2>1, ChainGrows
    <2> QED
      BY <1>5, <1>12, <2>2
  <1>14. v[L + 1] = g /\ v[1] = w[1] /\ \A i \in 1 .. L : v[i] = w[i]
    BY <1>5, <1>7, <1>12 DEF Grown
  <1>15. \A i \in 2 .. L : m2[v[i]].data = m[w[i]].data
    <2> SUFFICES ASSUME NEW i \in 2 .. L PROVE m2[w[i]].data = m[w[i]].data
      BY <1>7, <1>14
    <2>1. i \in 1 .. L /\ w[i] \in DOMAIN m
      BY <1>7
    <2>2. CASE w[i] = w[L]
      BY <1>10, <2>2
    <2>3. CASE w[i] # w[L]
      BY <1>10, <2>1, <2>3
    <2> QED
      BY <2>2, <2>3
  <1>16. m2[v[L + 1]].data = f
    BY <1>10, <1>14
  <1>17. 2 .. L + 1 = (2 .. L) \cup {L + 1}
    BY <1>7
  <1>18. Owned(m2, v) = Owned(m, w) \cup {f}
    <2>1. Owned(m2, v) = {m2[v[i]].data : i \in 2 .. L} \cup {m2[v[L + 1]].data}
      BY <1>13, <1>17 DEF Owned
    <2>2. {m2[v[i]].data : i \in 2 .. L} = {m[w[i]].data : i \in 2 .. L}
      BY <1>15
    <2> QED
      BY <1>5, <1>16, <2>1, <2>2 DEF Owned
  <1>19. OwnEntries(m2, v)
    <2>1. \A i \in 2 .. L : m[w[i]].data \in DOMAIN m /\ m[w[i]].data \notin Blocks(w)
      BY <1>1, <1>5 DEF OwnEntries
    <2>2. \A i, j \in 2 .. L : m[w[i]].data = m[w[j]].data => i = j
      BY <1>1, <1>5 DEF OwnEntries
    <2>3. ASSUME NEW i \in 2 .. L + 1
          PROVE  m2[v[i]].data \in DOMAIN m2 /\ m2[v[i]].data \notin Blocks(v)
      <3>1. CASE i = L + 1
        <4>1. f \in DOMAIN m2 /\ f \notin Blocks(w)
          BY <1>7, <1>10, <1>11
        <4> QED
          BY <1>11, <1>13, <1>16, <3>1, <4>1
      <3>2. CASE i \in 2 .. L
        <4>1. m[w[i]].data \in DOMAIN m /\ m[w[i]].data \notin Blocks(w)
          BY <2>1, <3>2
        <4>2. m2[v[i]].data = m[w[i]].data
          BY <1>15, <3>2
        <4> QED
          BY <1>10, <1>11, <1>13, <4>1, <4>2
      <3> QED
        BY <1>17, <3>1, <3>2
    <2>4. ASSUME NEW i \in 2 .. L + 1, NEW j \in 2 .. L + 1, m2[v[i]].data = m2[v[j]].data
          PROVE  i = j
      <3>1. \A x \in 2 .. L : m2[v[x]].data \in DOMAIN m
        BY <1>15, <2>1
      <3>2. CASE i = L + 1
        BY <1>11, <1>16, <1>17, <2>4, <3>1, <3>2
      <3>3. CASE j = L + 1
        BY <1>11, <1>16, <1>17, <2>4, <3>1, <3>3
      <3>4. CASE i \in 2 .. L /\ j \in 2 .. L
        BY <1>15, <2>2, <2>4, <3>4
      <3> QED
        BY <1>17, <3>2, <3>3, <3>4
    <2> QED
      BY <1>13, <2>3, <2>4 DEF OwnEntries
  <1>20. MapObject(m2, h, v)
    <2>1. h \notin Blocks(w) /\ h \notin Owned(m, w)
      BY <1>1 DEF MapObject
    <2>2. h # w[L] /\ h # f /\ h # g
      <3>1. w[L] \in Blocks(w)
        BY <1>7
      <3> QED
        BY <1>7, <1>11, <2>1, <3>1
    <2>3. m2[h] = m[h] /\ h \in DOMAIN m2
      BY <1>7, <1>10, <2>2
    <2>4. m[h] = [entries |-> w[1], compareKeys |-> m[h].compareKeys]
      BY <1>1 DEF MapObject
    <2> QED
      BY <1>13, <1>14, <1>18, <2>1, <2>2, <2>3, <2>4 DEF MapObject
  <1>21. PICK A2 : A2 = Blocks(v) \cup Owned(m2, v) \cup {h}
    OBVIOUS
  <1>22. MapOwns(m2, h, A2)
    BY <1>13, <1>19, <1>20, <1>21 DEF MapOwns
  <1>23. A2 = A \cup {f, g}
    BY <1>1, <1>13, <1>18, <1>21
  <1>24. Replaces(m, A, m2, A2)
    <2>1. w[L] \in A
      BY <1>1, <1>7
    <2>2. DOMAIN m2 = (DOMAIN m \ A) \cup A2
      BY <1>7, <1>10, <1>23
    <2>3. A2 \cap (DOMAIN m \ A) = {}
      BY <1>11, <1>23
    <2>4. \A a \in DOMAIN m \ A : m2[a] = m[a]
      BY <1>10, <2>1
    <2> QED
      BY <2>2, <2>3, <2>4 DEF Replaces
  <1>25. A2 \subseteq Heap
    BY <1>3, <1>7, <1>9, <1>23
  <1>26. m2[h] = m[h] /\ m2[f] = b /\ f \in DOMAIN m1
    <2>1. h # w[L] /\ h \in DOMAIN m
      BY <1>1, <1>7 DEF MapObject
    <2>2. \A a \in DOMAIN m1 \ {w[L]} : m2[a] = m1[a]
      BY <1>5, <1>9 DEF LinksIn
    <2>3. f # w[L]
      BY <1>7, <1>11
    <2> QED
      BY <1>3, <1>10, <2>1, <2>2, <2>3
  <1>27. m[h].entries = w[1] /\ m2[h].entries = v[1]
    <2>1. m[h].entries = w[1]
      BY <1>1 DEF MapObject
    <2> QED
      BY <1>14, <1>26, <2>1
  <1>28. PICK p, q : p = Pairs(m, w) /\ q = Pairs(m2, v)
    OBVIOUS
  <1>29. /\ PairsOf(m, h) = p /\ Len(p) = L - 1
         /\ \A i \in 1 .. L - 1 : p[i] = PairAt(m, w[i + 1])
    BY <1>1, <1>5, <1>27, <1>28, HeapAddresses, PairsOfChain
  <1>30. PairsOf(m2, h) = q /\ q = [i \in 1 .. L |-> PairAt(m2, v[i + 1])]
    <2>1. DOMAIN m2 \subseteq Heap
      BY <1>3, <1>9, <1>10
    <2>2. (L + 1) - 1 = L
      BY <1>7
    <2>3. PairsOf(m2, h) = Pairs(m2, v)
      BY <1>13, <1>27, <2>1, HeapAddresses, PairsOfChain
    <2>4. Pairs(m2, v) = [i \in 1 .. L |-> PairAt(m2, v[i + 1])]
      BY <1>13, <2>2 DEF Pairs
    <2> QED
      BY <1>28, <2>3, <2>4
  <1>31. ASSUME NEW i \in 1 .. L
         PROVE  PairAt(m2, v[i + 1]) = IF i =< L - 1 THEN p[i] ELSE IF i = L THEN <<key, value>>
                                                                   ELSE p[i - 1]
    <2>1. CASE i =< L - 1
      <3>1. i \in 1 .. L - 1 /\ i + 1 \in 2 .. L /\ i + 1 \in 1 .. L
        BY <1>7, <2>1
      <3>2. PICK o : o = m[w[i + 1]].data
        OBVIOUS
      <3>3. o \in DOMAIN m /\ o \notin Blocks(w)
        BY <1>1, <1>5, <3>1, <3>2 DEF OwnEntries
      <3>4. m2[o] = m[o]
        BY <1>7, <1>10, <3>3
      <3>5. m2[v[i + 1]].data = o
        BY <1>15, <3>1, <3>2
      <3> QED
        BY <1>29, <2>1, <3>1, <3>2, <3>4, <3>5 DEF PairAt
    <2>2. CASE ~(i =< L - 1)
      <3>1. i = L
        BY <1>7, <2>2
      <3>2. m2[v[L + 1]].data = f /\ m2[f].key = key /\ m2[f].value = value
        BY <1>2, <1>16, <1>26
      <3> QED
        BY <2>2, <3>1, <3>2 DEF PairAt
    <2> QED
      BY <2>1, <2>2
  <1>32. q = Grown(p, L - 1, <<key, value>>)
    <2>1. (L - 1) + 1 = L
      BY <1>7
    <2>2. q = [i \in 1 .. L |-> IF i =< L - 1 THEN p[i] ELSE IF i = L THEN <<key, value>>
                                                            ELSE p[i - 1]]
      BY <1>30, <1>31
    <2> QED
      BY <1>29, <2>1, <2>2 DEF Grown
  <1>33. PairsOf(m2, h) = Grown(PairsOf(m, h), Len(PairsOf(m, h)), <<key, value>>)
    BY <1>29, <1>30, <1>32
  <1> QED
    BY <1>6, <1>22, <1>24, <1>25, <1>26, <1>33

\* The first pair with a key.
PairHits(p, byText, key) ==
    {i \in 1 .. Len(p) : IF byText THEN Text(key) = Text(p[i][1]) ELSE key = p[i][1]}

FirstPair(p, byText, key) ==
    IF PairHits(p, byText, key) # {} THEN Min(PairHits(p, byText, key)) ELSE 0

LEMMA FirstPairOfChain ==
  ASSUME NEW m, NEW w, Addresses(m), Chain(m, w), NEW h, m[h].entries = w[1], NEW key
  PROVE  /\ FirstWith(m, h, key) = FirstPair(PairsOf(m, h), m[h].compareKeys = "strcmp", key)
         /\ FirstWith(m, h, key) \in 0 .. Len(w) - 1
  <1>1. PICK e, n, p, i : /\ e = Elements(m, w[1]) /\ n = Len(w) - 1 /\ p = PairsOf(m, h)
                          /\ i = FirstWith(m, h, key)
    OBVIOUS
  <1>2. Len(e) = n /\ \A j \in 1 .. n : e[j] = w[j + 1]
    BY <1>1, WalkOfChain
  <1>3. n \in Nat
    <2>1. Len(w) \in Nat \ {0}
      BY ChainCells
    <2> QED
      BY <1>1, <2>1
  <1>4. Len(p) = n /\ \A j \in 1 .. n : p[j][1] = Entry(m, e[j]).key
    <2>1. Len(p) = n /\ \A j \in 1 .. n : p[j] = PairAt(m, w[j + 1])
      BY <1>1, PairsOfChain
    <2> QED
      BY <1>2, <2>1 DEF PairAt, Entry
  <1>5. PICK I : I = {j \in 1 .. n : SameKey(m[h].compareKeys, key, Entry(m, e[j]).key)}
    OBVIOUS
  <1>6. i = IF I # {} THEN Min(I) ELSE 0
    BY <1>1, <1>2, <1>5 DEF FirstWith, SelectInSeq
  <1>7. PairHits(p, m[h].compareKeys = "strcmp", key) = I
    BY <1>4, <1>5 DEF PairHits, SameKey, comparePointerKeys
  <1>8. i \in 0 .. n
    <2>1. I \subseteq 1 .. n
      BY <1>5
    <2> QED
      BY <1>3, <1>6, <2>1, FirstPosition
  <1> QED
    BY <1>1, <1>6, <1>7, <1>8 DEF FirstPair

\* Map_removeEntry: the map gives up an entry and the cell that points to it, if it
\* finds the key.
LEMMA MapRemoveEffect ==
  ASSUME NEW m, DOMAIN m \subseteq Heap, NEW h, NEW A, MapOwns(m, h, A), NEW key, NEW deleteKey
  PROVE  \E A2 : /\ MapOwns(Map_removeEntry(m, h, key, deleteKey).mem, h, A2)
                 /\ Replaces(m, A, Map_removeEntry(m, h, key, deleteKey).mem, A2)
                 /\ A2 \subseteq Heap
                 /\ Map_removeEntry(m, h, key, deleteKey).mem[h].compareKeys = m[h].compareKeys
                 /\ FirstWith(m, h, key) # 0 =>
                       PairsOf(Map_removeEntry(m, h, key, deleteKey).mem, h)
                          = Cut(PairsOf(m, h), FirstWith(m, h, key))
                 /\ FirstWith(m, h, key) = 0 => Map_removeEntry(m, h, key, deleteKey).mem = m
  <1>1. PICK w : /\ Chain(m, w) /\ OwnEntries(m, w) /\ MapObject(m, h, w)
                 /\ A = Blocks(w) \cup Owned(m, w) \cup {h}
    BY DEF MapOwns
  <1>2. Addresses(m)
    BY HeapAssumption, FS_Subset DEF Addresses
  <1>3. m[h].entries = w[1]
    BY <1>1 DEF MapObject
  <1>4. PICK e, i, L : e = Elements(m, w[1]) /\ i = FirstWith(m, h, key) /\ L = Len(w)
    OBVIOUS
  <1>5. L \in Nat \ {0} /\ Len(e) = L - 1 /\ \A j \in 1 .. L - 1 : e[j] = w[j + 1]
    <2>1. Len(e) = Len(w) - 1 /\ \A j \in 1 .. Len(w) - 1 : e[j] = w[j + 1]
      BY <1>1, <1>2, <1>4, WalkOfChain
    <2>2. L \in Nat \ {0}
      BY <1>1, <1>4, ChainCells
    <2> QED
      BY <1>4, <2>1, <2>2
  <1>6. i \in 0 .. L - 1
    <2> DEFINE I == {j \in 1 .. Len(e) : SameKey(m[h].compareKeys, key, Entry(m, e[j]).key)}
    <2>1. i = IF I # {} THEN Min(I) ELSE 0
      BY <1>3, <1>4 DEF FirstWith, SelectInSeq
    <2>2. I \subseteq 1 .. L - 1 /\ L - 1 \in Nat
      BY <1>5
    <2> HIDE DEF I
    <2> QED
      BY <2>1, <2>2, FirstPosition
  <1>7. A \subseteq DOMAIN m /\ A \subseteq Heap
    BY OwnedInUse
  <1>8. CASE i = 0
    <2>1. Map_removeEntry(m, h, key, deleteKey).mem = m
      BY <1>4, <1>8 DEF Map_removeEntry
    <2>2. Replaces(m, A, m, A)
      BY <1>7 DEF Replaces
    <2> QED
      BY <1>4, <1>7, <1>8, <2>1, <2>2
  <1>9. CASE i # 0
    <2>1. PICK k, o, m1, m2 : /\ k = i + 1 /\ o = m[w[k]].data /\ m1 = Unlink(m, w[1], i)
                              /\ m2 = Memory_free(m1, {o})
      OBVIOUS
    <2>2. k \in 2 .. L /\ k - 1 \in 1 .. L /\ k \in 1 .. L /\ i \in 1 .. L - 1 /\ k - 1 # k
      BY <1>5, <1>6, <1>9, <2>1
    <2>3. Map_removeEntry(m, h, key, deleteKey).mem = m2
      <3>1. e[i] = w[k]
        BY <1>5, <2>1, <2>2
      <3>2. Map_removeEntry(m, h, key, deleteKey).mem
                = Memory_free(Unlink(m, m[h].entries, i), {m[Elements(m, m[h].entries)[i]].data})
        BY <1>4, <1>9 DEF Map_removeEntry
      <3> QED
        BY <1>3, <1>4, <2>1, <3>1, <3>2
    <2>4. Unlinks(m, w, k, m1)
      BY <1>1, <1>2, <1>4, <2>1, <2>2, UnlinkEffect
    <2>5. /\ \A j \in 1 .. L : w[j] \in Blocks(w) /\ w[j] \in DOMAIN m
          /\ \A j, x \in 1 .. L : w[j] = w[x] => j = x
          /\ \A j \in 2 .. L : j \in 1 .. L
      BY <1>1, <1>4, ChainCells
    <2>6. /\ \A j \in 2 .. L : m[w[j]].data \in DOMAIN m /\ m[w[j]].data \notin Blocks(w)
          /\ \A j, x \in 2 .. L : m[w[j]].data = m[w[x]].data => j = x
      BY <1>1, <1>4 DEF OwnEntries
    <2>7. o \in Owned(m, w) /\ o \notin Blocks(w) /\ o # h /\ h \notin Blocks(w)
      <3>1. o \in Owned(m, w)
        BY <1>4, <2>1, <2>2 DEF Owned
      <3> QED
        BY <1>1, <2>1, <2>2, <2>6, <3>1 DEF MapObject
    <2>8. /\ DOMAIN m2 = DOMAIN m \ {w[k], o}
          /\ \A j \in 1 .. L : j # k => m2[w[j]].data = m[w[j]].data
          /\ \A a \in DOMAIN m2 \ {w[k - 1]} : m2[a] = m[a]
          /\ \A a \in DOMAIN m2 : m2[a] = m1[a]
      <3>1. /\ DOMAIN m1 = DOMAIN m \ {w[k]} /\ \A a \in DOMAIN m1 \ {w[k - 1]} : m1[a] = m[a]
        BY <2>4 DEF Unlinks
      <3>2. m1[w[k - 1]].data = m[w[k - 1]].data
        <4>1. PICK c, n : c = m[w[k - 1]].data /\ m1[w[k - 1]] = [data |-> c, next |-> n]
          BY <2>4 DEF Unlinks
        <4> QED
          BY <4>1
      <3>3. DOMAIN m2 = DOMAIN m1 \ {o} /\ \A a \in DOMAIN m2 : m2[a] = m1[a]
        BY <2>1 DEF Memory_free
      <3>4. ASSUME NEW j \in 1 .. L, j # k PROVE m2[w[j]].data = m[w[j]].data
        <4>1. w[j] \in DOMAIN m /\ w[j] # w[k] /\ w[j] # o
          BY <2>2, <2>5, <2>7, <3>4
        <4>2. w[j] \in DOMAIN m1 /\ m2[w[j]] = m1[w[j]]
          BY <3>1, <3>3, <4>1
        <4>3. CASE w[j] = w[k - 1]
          BY <3>2, <4>2, <4>3
        <4>4. CASE w[j] # w[k - 1]
          BY <3>1, <4>2, <4>4
        <4> QED
          BY <4>3, <4>4
      <3>5. DOMAIN m2 = DOMAIN m \ {w[k], o}
        BY <3>1, <3>3
      <3>6. \A a \in DOMAIN m2 \ {w[k - 1]} : m2[a] = m[a]
        BY <3>1, <3>3
      <3> QED
        BY <3>3, <3>4, <3>5, <3>6
    <2>9. PICK v : v = Cut(w, k)
      OBVIOUS
    <2>10. Chain(m1, v) /\ Len(v) = L - 1 /\ Blocks(v) = Blocks(w) \ {w[k]}
      BY <1>1, <1>4, <2>2, <2>4, <2>9, ChainShrinks
    <2>11. Chain(m2, v)
      <3>1. Blocks(v) \subseteq DOMAIN m1
        BY <2>10, ChainCells
      <3>2. Blocks(v) \subseteq DOMAIN m2
        BY <2>1, <2>7, <2>10, <3>1 DEF Memory_free
      <3> QED
        BY <2>8, <2>10, <3>2, ChainFrame
    <2>12. /\ v[1] = w[1]
           /\ \A j \in 2 .. L - 1 : /\ j < k => v[j] = w[j] /\ j \in 2 .. L /\ j # k
                                    /\ j >= k => v[j] = w[j + 1] /\ j + 1 \in 2 .. L /\ j + 1 # k
      <3>1. 1 \in 1 .. L - 1 /\ 1 < k
        BY <1>5, <2>2
      <3>2. v = [j \in 1 .. L - 1 |-> IF j < k THEN w[j] ELSE w[j + 1]]
        BY <1>4, <2>9 DEF Cut
      <3>3. ASSUME NEW j \in 2 .. L - 1
            PROVE  /\ j < k => j \in 2 .. L /\ j # k
                   /\ j >= k => j + 1 \in 2 .. L /\ j + 1 # k /\ ~(j < k)
                   /\ j \in 1 .. L - 1
        BY <1>5, <2>2
      <3> QED
        BY <3>1, <3>2, <3>3
    <2>13. ASSUME NEW j \in 2 .. L - 1
           PROVE  \E x \in 2 .. L : x # k /\ v[j] = w[x] /\ x = IF j < k THEN j ELSE j + 1
      <3>1. CASE j < k
        BY <2>12, <3>1
      <3>2. CASE ~(j < k)
        <4>1. j >= k
          BY <2>2, <3>2
        <4> QED
          BY <2>12, <3>2, <4>1
      <3> QED
        BY <3>1, <3>2
    <2>14. \A x \in 2 .. L : x # k => m2[w[x]].data = m[w[x]].data
      BY <2>5, <2>8
    <2>15. Owned(m2, v) = Owned(m, w) \ {o}
      <3>1. ASSUME NEW j \in 2 .. L - 1 PROVE m2[v[j]].data \in Owned(m, w) \ {o}
        <4>1. PICK x \in 2 .. L : x # k /\ v[j] = w[x]
          BY <2>13
        <4>2. m[w[x]].data # o /\ m[w[x]].data \in Owned(m, w)
          BY <1>4, <2>1, <2>2, <2>6, <4>1 DEF Owned
        <4> QED
          BY <2>14, <4>1, <4>2
      <3>2. ASSUME NEW x \in 2 .. L, x # k PROVE \E j \in 2 .. L - 1 : v[j] = w[x]
        <4>1. CASE x < k
          <5>1. x \in 2 .. L - 1
            BY <1>5, <2>2, <4>1
          <5> QED
            BY <2>12, <4>1, <5>1
        <4>2. CASE x > k
          <5>1. x - 1 \in 2 .. L - 1 /\ x - 1 >= k /\ (x - 1) + 1 = x
            BY <1>5, <2>2, <4>2
          <5>2. v[x - 1] = w[x]
            BY <2>12, <5>1
          <5> QED
            BY <5>1, <5>2
        <4>3. x < k \/ x > k
          BY <2>2, <3>2
        <4> QED
          BY <4>1, <4>2, <4>3
      <3>3. ASSUME NEW a \in Owned(m, w) \ {o} PROVE a \in Owned(m2, v)
        <4>1. PICK x \in 2 .. L : a = m[w[x]].data
          BY <1>4 DEF Owned
        <4>2. x # k
          BY <2>1, <4>1
        <4>3. PICK j \in 2 .. L - 1 : v[j] = w[x]
          BY <3>2, <4>2
        <4>4. a = m2[v[j]].data
          BY <2>14, <4>1, <4>2, <4>3
        <4> QED
          BY <2>10, <4>4 DEF Owned
      <3>4. Owned(m2, v) \subseteq Owned(m, w) \ {o}
        BY <2>10, <3>1 DEF Owned
      <3> QED
        BY <3>3, <3>4
    <2>16. OwnEntries(m2, v)
      <3>1. ASSUME NEW j \in 2 .. L - 1
            PROVE  m2[v[j]].data \in DOMAIN m2 /\ m2[v[j]].data \notin Blocks(v)
        <4>1. PICK x \in 2 .. L : x # k /\ v[j] = w[x]
          BY <2>13
        <4>2. PICK a : a = m[w[x]].data
          OBVIOUS
        <4>3. a \in DOMAIN m /\ a \notin Blocks(w) /\ a # o
          BY <2>1, <2>2, <2>6, <4>1, <4>2
        <4>4. a # w[k]
          BY <2>2, <2>5, <4>3
        <4>5. m2[v[j]].data = a
          BY <2>14, <4>1, <4>2
        <4> QED
          BY <2>8, <2>10, <4>3, <4>4, <4>5
      <3>2. ASSUME NEW j \in 2 .. L - 1, NEW n \in 2 .. L - 1, m2[v[j]].data = m2[v[n]].data
            PROVE  j = n
        <4>1. PICK x \in 2 .. L : x # k /\ v[j] = w[x] /\ x = IF j < k THEN j ELSE j + 1
          BY <2>13
        <4>2. PICK y \in 2 .. L : y # k /\ v[n] = w[y] /\ y = IF n < k THEN n ELSE n + 1
          BY <2>13
        <4>3. m[w[x]].data = m[w[y]].data
          BY <2>14, <3>2, <4>1, <4>2
        <4>4. x = y
          BY <2>6, <4>3
        <4>5. x = IF j < k THEN j ELSE j + 1
          BY <4>1
        <4>6. x = IF n < k THEN n ELSE n + 1
          BY <4>2, <4>4
        <4>7. k \in Nat /\ j \in Nat /\ n \in Nat /\ x # k
          BY <2>2, <4>1
        <4> QED
          BY <4>5, <4>6, <4>7
      <3> QED
        BY <2>10, <3>1, <3>2 DEF OwnEntries
    <2>17. MapObject(m2, h, v)
      <3>1. h \in DOMAIN m /\ h # w[k] /\ h # w[k - 1] /\ h \notin Owned(m, w)
        BY <1>1, <2>2, <2>5, <2>7 DEF MapObject
      <3>2. h \in DOMAIN m2 /\ m2[h] = m[h]
        BY <2>7, <2>8, <3>1
      <3>3. m[h] = [entries |-> w[1], compareKeys |-> m[h].compareKeys]
        BY <1>1 DEF MapObject
      <3> QED
        BY <2>7, <2>10, <2>12, <2>15, <3>1, <3>2, <3>3 DEF MapObject
    <2>18. PICK A2 : A2 = Blocks(v) \cup Owned(m2, v) \cup {h}
      OBVIOUS
    <2>19. MapOwns(m2, h, A2)
      BY <2>11, <2>16, <2>17, <2>18 DEF MapOwns
    <2>20. A2 = A \ {w[k], o}
      <3>1. w[k] \notin Owned(m, w) /\ h # w[k]
        <4>1. w[k] \in Blocks(w)
          BY <2>2, <2>5
        <4>2. Owned(m, w) \cap Blocks(w) = {}
          BY <1>4, <2>6 DEF Owned
        <4> QED
          BY <2>7, <4>1, <4>2
      <3> QED
        BY <1>1, <2>7, <2>10, <2>15, <2>18, <3>1
    <2>21. Replaces(m, A, m2, A2)
      <3>1. w[k] \in A /\ w[k - 1] \in A /\ o \in A
        BY <1>1, <2>2, <2>5, <2>7
      <3>2. DOMAIN m2 = (DOMAIN m \ A) \cup A2
        BY <1>7, <2>8, <2>20, <3>1
      <3>3. \A a \in DOMAIN m \ A : m2[a] = m[a]
        BY <2>8, <3>1
      <3> QED
        BY <2>20, <3>2, <3>3 DEF Replaces
    <2>22. m2[h] = m[h] /\ m2[h].entries = v[1] /\ Addresses(m2)
      <3>1. h \in DOMAIN m /\ h # w[k] /\ h # w[k - 1]
        BY <1>1, <2>2, <2>5, <2>7 DEF MapObject
      <3>2. m2[h] = m[h]
        BY <2>7, <2>8, <3>1
      <3>3. Addresses(m2)
        BY <2>8, HeapAddresses
      <3> QED
        BY <1>3, <2>12, <3>2, <3>3
    <2>23. PICK p : p = PairsOf(m, h)
      OBVIOUS
    <2>24. Len(p) = L - 1 /\ \A j \in 1 .. L - 1 : p[j] = PairAt(m, w[j + 1])
      BY <1>1, <1>2, <1>3, <1>4, <2>23, PairsOfChain
    <2>25. PairsOf(m2, h) = [j \in 1 .. L - 2 |-> PairAt(m2, v[j + 1])]
      <3>1. (L - 1) - 1 = L - 2
        BY <1>5
      <3>2. PairsOf(m2, h) = Pairs(m2, v)
        BY <2>11, <2>22, PairsOfChain
      <3>3. Pairs(m2, v) = [j \in 1 .. L - 2 |-> PairAt(m2, v[j + 1])]
        BY <2>10, <3>1 DEF Pairs
      <3> QED
        BY <3>2, <3>3
    <2>26. ASSUME NEW j \in 1 .. L - 2
           PROVE  PairAt(m2, v[j + 1]) = IF j < i THEN p[j] ELSE p[j + 1]
      <3>1. j + 1 \in 2 .. L - 1 /\ (j + 1 < k <=> j < i) /\ j \in 1 .. L - 1 /\ j + 1 \in 1 .. L - 1
        BY <1>5, <1>6, <2>1
      <3>2. PICK x \in 2 .. L : x # k /\ v[j + 1] = w[x] /\ x = IF j + 1 < k THEN j + 1 ELSE (j + 1) + 1
        BY <2>13, <3>1
      <3>3. PICK a : a = m[w[x]].data
        OBVIOUS
      <3>4. a \in DOMAIN m /\ a \notin Blocks(w) /\ a # o
        BY <2>1, <2>2, <2>6, <3>2, <3>3
      <3>5. m2[a] = m[a]
        <4>1. a # w[k] /\ a # w[k - 1]
          BY <2>2, <2>5, <3>4
        <4> QED
          BY <2>8, <3>4, <4>1
      <3>6. m2[v[j + 1]].data = a
        BY <2>14, <3>2, <3>3
      <3>7. PairAt(m2, v[j + 1]) = PairAt(m, w[x])
        BY <3>3, <3>5, <3>6 DEF PairAt
      <3>8. PairAt(m, w[x]) = IF j < i THEN p[j] ELSE p[j + 1]
        <4>1. p[j] = PairAt(m, w[j + 1]) /\ p[j + 1] = PairAt(m, w[(j + 1) + 1])
          BY <2>24, <3>1
        <4> QED
          BY <3>1, <3>2, <4>1
      <3> QED
        BY <3>7, <3>8
    <2>27. PairsOf(m2, h) = Cut(p, i)
      <3>1. (L - 1) - 1 = L - 2
        BY <1>5
      <3>2. PairsOf(m2, h) = [j \in 1 .. L - 2 |-> IF j < i THEN p[j] ELSE p[j + 1]]
        BY <2>25, <2>26
      <3> QED
        BY <2>24, <3>1, <3>2 DEF Cut
    <2> QED
      BY <1>4, <1>7, <1>9, <2>3, <2>19, <2>20, <2>21, <2>22, <2>23, <2>27
  <1> QED
    BY <1>8, <1>9

-----------------------------------------------------------------------------
(* What lists hold. *)

\* What a chain holds: the data of the cells behind its head.
Held(m, w) == [i \in 1 .. Len(w) - 1 |-> m[w[i + 1]].data]

\* DataOf gives what the chain holds.
LEMMA DataIsHeld ==
  ASSUME NEW m, NEW w, Addresses(m), Chain(m, w)
  PROVE  DataOf(m, w[1]) = Held(m, w)
  <1>1. /\ Elements(m, w[1]) \in Seq(DOMAIN m) /\ Len(Elements(m, w[1])) = Len(w) - 1
        /\ \A i \in 1 .. Len(w) - 1 : Elements(m, w[1])[i] = w[i + 1]
    BY WalkOfChain
  <1> QED
    BY <1>1 DEF DataOf, Held

\* Its length and its places.
LEMMA HeldPlaces ==
  ASSUME NEW m, NEW w, Chain(m, w)
  PROVE  /\ Len(w) \in Nat \ {0} /\ Len(Held(m, w)) = Len(w) - 1
         /\ \A i \in 1 .. Len(w) - 1 : Held(m, w)[i] = m[w[i + 1]].data /\ i + 1 \in 1 .. Len(w)
  <1>1. PICK n \in Nat : Len(w) = n + 1
    <2>1. Len(w) \in Nat \ {0}
      BY ChainCells
    <2> QED
      BY <2>1
  <1>2. Held(m, w) = [i \in 1 .. n |-> m[w[i + 1]].data]
    BY <1>1 DEF Held
  <1>3. Len(Held(m, w)) = n /\ \A i \in 1 .. n : Held(m, w)[i] = m[w[i + 1]].data
    BY <1>2
  <1> QED
    BY <1>1, <1>3

\* A new cell puts its datum into what is held ...
LEMMA HeldGrows ==
  ASSUME NEW m, NEW w, Chain(m, w), NEW k \in 1 .. Len(w), NEW f, NEW d, NEW m2,
         LinksIn(m, w, k, f, d, m2)
  PROVE  Held(m2, Grown(w, k, f)) = Grown(Held(m, w), k - 1, d)
  <1>0. PICK L \in Nat \ {0} : L = Len(w)
    BY ChainCells
  <1>1. PICK v, h : v = Grown(w, k, f) /\ h = Held(m, w)
    OBVIOUS
  <1>2. /\ Len(h) = L - 1 /\ \A i \in 1 .. L - 1 : h[i] = m[w[i + 1]].data /\ i + 1 \in 1 .. L
    <2>1. /\ Len(Held(m, w)) = Len(w) - 1
          /\ \A i \in 1 .. Len(w) - 1 : Held(m, w)[i] = m[w[i + 1]].data /\ i + 1 \in 1 .. Len(w)
      BY HeldPlaces
    <2> QED
      BY <1>0, <1>1, <2>1
  <1>3. Len(v) = L + 1
    BY <1>0, <1>1, ChainGrows
  <1>4. \A i \in 1 .. L + 1 : v[i] = IF i =< k THEN w[i] ELSE IF i = k + 1 THEN f ELSE w[i - 1]
    BY <1>0, <1>1 DEF Grown
  <1>5. m2[f].data = d /\ \A i \in 1 .. L : m2[w[i]].data = m[w[i]].data
    <2>1. \A i \in 1 .. L : w[i] \in DOMAIN m
      BY <1>0, ChainCells
    <2>2. m2[w[k]].data = m[w[k]].data /\ m2[f].data = d
      <3>1. PICK c, p : m2[w[k]] = [data |-> c, next |-> p] /\ c = m[w[k]].data
        BY DEF LinksIn
      <3>2. PICK e : m2[f] = [data |-> d, next |-> e]
        BY DEF LinksIn
      <3> QED
        BY <3>1, <3>2
    <2>3. \A a \in DOMAIN m \ {w[k]} : m2[a] = m[a]
      BY DEF LinksIn
    <2> QED
      BY <2>1, <2>2, <2>3
  <1>6. ASSUME NEW i \in 1 .. L
        PROVE  m2[v[i + 1]].data
                 = IF i =< k - 1 THEN h[i] ELSE IF i = (k - 1) + 1 THEN d ELSE h[i - 1]
    <2>0. i + 1 \in 1 .. L + 1 /\ k \in 1 .. L
      BY <1>0
    <2>1. CASE i =< k - 1
      <3>1. i + 1 =< k /\ i \in 1 .. L - 1 /\ i + 1 \in 1 .. L
        BY <2>0, <2>1
      <3> QED
        BY <1>2, <1>4, <1>5, <2>0, <2>1, <3>1
    <2>2. CASE i = k
      <3>1. ~(i + 1 =< k) /\ i + 1 = k + 1 /\ ~(i =< k - 1) /\ i = (k - 1) + 1
        BY <2>0, <2>2
      <3> QED
        BY <1>4, <1>5, <2>0, <3>1
    <2>3. CASE i > k
      <3>1. /\ ~(i + 1 =< k) /\ i + 1 # k + 1 /\ ~(i =< k - 1) /\ i # (k - 1) + 1
            /\ i - 1 \in 1 .. L - 1 /\ (i + 1) - 1 = i /\ (i - 1) + 1 = i
        BY <2>0, <2>3
      <3>2. v[i + 1] = w[i]
        BY <1>4, <2>0, <3>1, SMTT(30)
      <3>3. h[i - 1] = m[w[i]].data
        BY <1>2, <3>1
      <3> QED
        BY <1>5, <3>1, <3>2, <3>3
    <2>4. i =< k - 1 \/ i = k \/ i > k
      BY <2>0
    <2> QED
      BY <2>1, <2>2, <2>3, <2>4
  <1>7. Held(m2, v) = [i \in 1 .. L |-> m2[v[i + 1]].data]
    <2>1. Len(v) - 1 = L
      BY <1>3
    <2> QED
      BY <2>1 DEF Held
  <1>8. Grown(h, k - 1, d)
          = [i \in 1 .. L |-> IF i =< k - 1 THEN h[i] ELSE IF i = (k - 1) + 1 THEN d ELSE h[i - 1]]
    <2>1. Len(h) + 1 = L
      BY <1>2
    <2> QED
      BY <2>1 DEF Grown
  <1>9. Held(m2, v) = Grown(h, k - 1, d)
    BY <1>6, <1>7, <1>8
  <1> QED
    BY <1>1, <1>9

\* ... and a cell taken out takes its datum with it.
LEMMA HeldShrinks ==
  ASSUME NEW m, NEW w, Chain(m, w), NEW k \in 2 .. Len(w), NEW m2, Unlinks(m, w, k, m2)
  PROVE  Held(m2, Cut(w, k)) = Cut(Held(m, w), k - 1)
  <1>0. PICK L \in Nat \ {0} : L = Len(w)
    BY ChainCells
  <1>1. PICK v, h : v = Cut(w, k) /\ h = Held(m, w)
    OBVIOUS
  <1>2. /\ Len(h) = L - 1 /\ \A i \in 1 .. L - 1 : h[i] = m[w[i + 1]].data /\ i + 1 \in 1 .. L
    <2>1. /\ Len(Held(m, w)) = Len(w) - 1
          /\ \A i \in 1 .. Len(w) - 1 : Held(m, w)[i] = m[w[i + 1]].data /\ i + 1 \in 1 .. Len(w)
      BY HeldPlaces
    <2> QED
      BY <1>0, <1>1, <2>1
  <1>3. Len(v) = L - 1
    BY <1>0, <1>1, ChainShrinks
  <1>4. \A i \in 1 .. L - 1 : v[i] = IF i < k THEN w[i] ELSE w[i + 1]
    BY <1>0, <1>1 DEF Cut
  <1>5. \A i \in 1 .. L : i # k => m2[w[i]].data = m[w[i]].data
    <2>1. ASSUME NEW i \in 1 .. L, i # k PROVE w[i] \in DOMAIN m /\ w[i] # w[k]
      <3>1. k \in 1 .. L
        BY <1>0
      <3> QED
        BY <1>0, <2>1, <3>1, ChainCells
    <2>2. m2[w[k - 1]].data = m[w[k - 1]].data
      <3>1. PICK c, p : m2[w[k - 1]] = [data |-> c, next |-> p] /\ c = m[w[k - 1]].data
        BY DEF Unlinks
      <3> QED
        BY <3>1
    <2>3. DOMAIN m2 = DOMAIN m \ {w[k]} /\ \A a \in DOMAIN m2 \ {w[k - 1]} : m2[a] = m[a]
      BY DEF Unlinks
    <2>4. ASSUME NEW i \in 1 .. L, i # k PROVE m2[w[i]].data = m[w[i]].data
      <3>1. PICK a : a = w[i]
        OBVIOUS
      <3>2. a \in DOMAIN m2
        BY <2>1, <2>3, <2>4, <3>1
      <3> QED
        BY <2>2, <2>3, <3>1, <3>2
    <2> QED
      BY <2>4
  <1>6. ASSUME NEW i \in 1 .. L - 2
        PROVE  m2[v[i + 1]].data = IF i < k - 1 THEN h[i] ELSE h[i + 1]
    <2>0. i + 1 \in 1 .. L - 1 /\ k \in 2 .. L /\ i \in 1 .. L - 1
      BY <1>0
    <2>1. CASE i < k - 1
      <3>1. i + 1 < k /\ i + 1 \in 1 .. L /\ i + 1 # k
        BY <2>0, <2>1
      <3> QED
        BY <1>2, <1>4, <1>5, <2>0, <2>1, <3>1
    <2>2. CASE ~(i < k - 1)
      <3>1. ~(i + 1 < k) /\ (i + 1) + 1 \in 1 .. L /\ (i + 1) + 1 # k
        BY <2>0, <2>2
      <3>2. v[i + 1] = w[(i + 1) + 1]
        BY <1>4, <2>0, <3>1
      <3>3. h[i + 1] = m[w[(i + 1) + 1]].data
        BY <1>2, <2>0
      <3> QED
        BY <1>5, <2>2, <3>1, <3>2, <3>3
    <2> QED
      BY <2>1, <2>2
  <1>7. Held(m2, v) = [i \in 1 .. L - 2 |-> m2[v[i + 1]].data]
    <2>1. Len(v) - 1 = L - 2
      BY <1>3
    <2> QED
      BY <2>1 DEF Held
  <1>8. Cut(h, k - 1) = [i \in 1 .. L - 2 |-> IF i < k - 1 THEN h[i] ELSE h[i + 1]]
    <2>1. Len(h) - 1 = L - 2
      BY <1>2
    <2> QED
      BY <2>1 DEF Cut
  <1>9. Held(m2, v) = Cut(h, k - 1)
    BY <1>6, <1>7, <1>8
  <1> QED
    BY <1>1, <1>9

\* A chain none of whose cells is written holds the same.
LEMMA HeldFrame ==
  ASSUME NEW m, NEW w, Chain(m, w), NEW m2, \A a \in Blocks(w) : m2[a] = m[a]
  PROVE  Held(m2, w) = Held(m, w)
  <1>1. \A i \in 1 .. Len(w) - 1 : m2[w[i + 1]] = m[w[i + 1]]
    <2> SUFFICES ASSUME NEW i \in 1 .. Len(w) - 1 PROVE w[i + 1] \in Blocks(w)
      OBVIOUS
    <2>1. Len(w) \in Nat
      BY ChainCells
    <2>2. i + 1 \in 1 .. Len(w)
      BY <2>1
    <2> QED
      BY <2>2, ChainCells
  <1> QED
    BY <1>1 DEF Held

\* Removing is cutting.
LEMMA CutIsRemoved ==
  ASSUME NEW S, NEW s \in Seq(S), NEW k \in 1 .. Len(s)
  PROVE  RemoveAt(s, k) = Cut(s, k) /\ Cut(s, k) \in Seq(S)
  <1> DEFINE L == Len(s)
             a == SubSeq(s, 1, k - 1)
             b == SubSeq(s, k + 1, L)
  <1>1. L \in Nat /\ s \in [1 .. L -> S] /\ k \in 1 .. L /\ L - 1 \in Nat
    <2>1. L \in Nat /\ s \in [1 .. L -> S]
      BY LenProperties
    <2> QED
      BY <2>1
  <1>2. a \in Seq(S) /\ Len(a) = k - 1 /\ \A i \in 1 .. k - 1 : a[i] = s[i]
    <2>1. k - 1 \in Int /\ \A i \in 1 .. k - 1 : s[i] \in S
      BY <1>1
    <2>2. /\ a \in Seq(S) /\ Len(a) = IF 1 <= k - 1 THEN (k - 1) - 1 + 1 ELSE 0
          /\ \A i \in 1 .. (k - 1) - 1 + 1 : a[i] = s[1 + i - 1]
      BY <2>1, SubSeqProperties
    <2>3. (k - 1) - 1 + 1 = k - 1 /\ \A i \in 1 .. k - 1 : 1 + i - 1 = i
      BY <1>1
    <2>4. (IF 1 <= k - 1 THEN (k - 1) - 1 + 1 ELSE 0) = k - 1
      BY <1>1
    <2> HIDE DEF a
    <2> QED
      BY <2>2, <2>3, <2>4
  <1>3. b \in Seq(S) /\ Len(b) = L - k /\ \A i \in 1 .. L - k : b[i] = s[k + i]
    <2>1. k + 1 \in Int /\ L \in Int /\ \A i \in k + 1 .. L : s[i] \in S
      BY <1>1
    <2>2. /\ b \in Seq(S) /\ Len(b) = IF k + 1 <= L THEN L - (k + 1) + 1 ELSE 0
          /\ \A i \in 1 .. L - (k + 1) + 1 : b[i] = s[(k + 1) + i - 1]
      BY <2>1, SubSeqProperties
    <2>3. L - (k + 1) + 1 = L - k /\ \A i \in 1 .. L - k : (k + 1) + i - 1 = k + i
      BY <1>1
    <2>4. (IF k + 1 <= L THEN L - (k + 1) + 1 ELSE 0) = L - k
      <3>1. L \in Nat /\ k \in 1 .. L
        BY <1>1
      <3>2. k + 1 <= L \/ k = L
        BY <3>1
      <3> HIDE DEF L
      <3> QED
        BY <3>1, <3>2
    <2> HIDE DEF b
    <2> QED
      BY <2>2, <2>3, <2>4
  <1>4. RemoveAt(s, k) = a \o b
    BY DEF RemoveAt
  <1> HIDE DEF a, b
  <1>5. /\ a \o b \in Seq(S) /\ Len(a \o b) = L - 1
        /\ \A i \in 1 .. L - 1 : (a \o b)[i] = IF i =< k - 1 THEN a[i] ELSE b[i - (k - 1)]
    <2>1. /\ a \o b \in Seq(S) /\ Len(a \o b) = Len(a) + Len(b)
          /\ \A i \in 1 .. Len(a) + Len(b) : (a \o b)[i] = IF i <= Len(a) THEN a[i] ELSE b[i - Len(a)]
      BY <1>2, <1>3, ConcatProperties
    <2>2. Len(a) + Len(b) = L - 1
      BY <1>1, <1>2, <1>3
    <2> QED
      BY <1>2, <2>1, <2>2
  <1>6. ASSUME NEW i \in 1 .. L - 1
        PROVE  (a \o b)[i] = IF i < k THEN s[i] ELSE s[i + 1]
    <2>1. CASE i < k
      <3>1. i =< k - 1 /\ i \in 1 .. k - 1
        BY <1>1, <2>1
      <3> QED
        BY <1>2, <1>5, <2>1, <3>1
    <2>2. CASE ~(i < k)
      <3>1. ~(i =< k - 1) /\ i - (k - 1) \in 1 .. L - k /\ k + (i - (k - 1)) = i + 1
        BY <1>1, <2>2
      <3>2. (a \o b)[i] = b[i - (k - 1)] /\ b[i - (k - 1)] = s[k + (i - (k - 1))]
        BY <1>3, <1>5, <3>1
      <3> QED
        BY <2>2, <3>1, <3>2
    <2> QED
      BY <2>1, <2>2
  <1>7. a \o b = [i \in 1 .. L - 1 |-> (a \o b)[i]]
    BY <1>5, LenProperties
  <1>8. a \o b = Cut(s, k)
    BY <1>6, <1>7 DEF Cut
  <1> QED
    BY <1>4, <1>5, <1>8

-----------------------------------------------------------------------------
\* No member of a sequence comes before the one in front of it.
InOrder(m, s) == \A i \in 1 .. Len(s) - 1 : ~IsBefore(m, s[i + 1], s[i])

\* One more cell keeps the order, if no two come before each other.
LEMMA InsertedInOrder ==
  ASSUME NEW m, NEW S, NEW s \in Seq(S), NEW c \in S, InOrder(m, s),
         \A a, b \in S : IsBefore(m, a, b) => ~IsBefore(m, b, a)
  PROVE  /\ Inserted(m, s, c) \in Seq(S) /\ Len(Inserted(m, s, c)) = Len(s) + 1
         /\ InOrder(m, Inserted(m, s, c))
  <1>1. PICK L \in Nat : L = Len(s) /\ s \in [1 .. L -> S]
    <2>1. Len(s) \in Nat /\ s \in [1 .. Len(s) -> S]
      BY LenProperties
    <2> QED
      BY <2>1
  <1>2. PICK k \in 0 .. Len(s) : InsertedBehind(m, s, c, k)
    BY InsertedIsGrown
  <1>3. /\ k \in 0 .. L /\ Inserted(m, s, c) = Grown(s, k, c)
        /\ \A j \in 1 .. k : ~IsBefore(m, c, s[j])
        /\ k # L => IsBefore(m, c, s[k + 1])
    BY <1>1, <1>2 DEF InsertedBehind
  <1>4. PICK v : v = Grown(s, k, c)
    OBVIOUS
  <1>5. v \in Seq(S)
    BY <1>1, <1>4, GrownTyped
  <1>6. v = [i \in 1 .. L + 1 |-> IF i =< k THEN s[i] ELSE IF i = k + 1 THEN c ELSE s[i - 1]]
    BY <1>1, <1>4 DEF Grown
  <1>7. Len(v) = L + 1
    BY <1>1, <1>6
  <1>8. ASSUME NEW i \in 1 .. L PROVE ~IsBefore(m, v[i + 1], v[i])
    <2>0. i + 1 \in 1 .. L + 1 /\ i \in 1 .. L + 1 /\ k \in 0 .. L
      BY <1>3
    <2>1. CASE i < k
      <3>1. i + 1 =< k /\ i =< k /\ i \in 1 .. L - 1
        BY <2>0, <2>1
      <3>2. v[i + 1] = s[i + 1] /\ v[i] = s[i]
        BY <1>6, <2>0, <3>1
      <3> QED
        BY <1>1, <3>1, <3>2 DEF InOrder
    <2>2. CASE i = k
      <3>1. ~(i + 1 =< k) /\ i + 1 = k + 1 /\ i =< k /\ i \in 1 .. k
        BY <2>0, <2>2
      <3>2. v[i + 1] = c /\ v[i] = s[i]
        BY <1>6, <2>0, <3>1
      <3> QED
        BY <1>3, <3>1, <3>2
    <2>3. CASE i = k + 1
      <3>1. /\ ~(i + 1 =< k) /\ i + 1 # k + 1 /\ ~(i =< k) /\ (i + 1) - 1 = i /\ k # L
        BY <2>0, <2>3
      <3>2. v[i + 1] = s[i] /\ v[i] = c
        BY <1>6, <2>0, <2>3, <3>1
      <3>3. IsBefore(m, c, s[i]) /\ s[i] \in S
        BY <1>1, <1>3, <2>3, <3>1
      <3> QED
        BY <3>2, <3>3
    <2>4. CASE i > k + 1
      <3>1. /\ ~(i + 1 =< k) /\ i + 1 # k + 1 /\ ~(i =< k) /\ i # k + 1 /\ (i + 1) - 1 = i
            /\ i - 1 \in 1 .. L - 1 /\ (i - 1) + 1 = i
        BY <2>0, <2>4
      <3>2. v[i + 1] = s[i] /\ v[i] = s[i - 1]
        BY <1>6, <2>0, <3>1
      <3>3. ~IsBefore(m, s[(i - 1) + 1], s[i - 1])
        BY <1>1, <3>1 DEF InOrder
      <3> QED
        BY <3>1, <3>2, <3>3
    <2> QED
      BY <2>0, <2>1, <2>2, <2>3, <2>4
  <1>9. InOrder(m, v)
    <2>1. Len(v) - 1 = L
      BY <1>7
    <2> QED
      BY <1>8, <2>1 DEF InOrder
  <1> QED
    BY <1>1, <1>4, <1>5, <1>7, <1>9, <1>3

\* Cells inserted one by one are in order.
LEMMA SortedInOrder ==
  ASSUME NEW m, NEW S, NEW cells \in Seq(S),
         \A a, b \in S : IsBefore(m, a, b) => ~IsBefore(m, b, a)
  PROVE  LET s == Sorted(m, cells)[Len(cells)]
         IN  s \in Seq(S) /\ Len(s) = Len(cells) /\ InOrder(m, s)
  <1> DEFINE sorted == Sorted(m, cells)
  <1>1. PICK L \in Nat : L = Len(cells) /\ cells \in [1 .. L -> S]
    <2>1. Len(cells) \in Nat /\ cells \in [1 .. Len(cells) -> S]
      BY LenProperties
    <2> QED
      BY <2>1
  <1>2. sorted[0] = << >> /\ \A n \in 1 .. L : sorted[n] = Inserted(m, sorted[n - 1], cells[n])
    BY <1>1, SortedEquation
  <1> HIDE DEF sorted
  <1> DEFINE T == {n \in Nat : n =< L => /\ sorted[n] \in Seq(S) /\ Len(sorted[n]) = n
                                         /\ InOrder(m, sorted[n])}
  <1>3. 0 \in T
    <2>1. sorted[0] \in Seq(S) /\ Len(sorted[0]) = 0
      BY <1>2
    <2>2. InOrder(m, sorted[0])
      BY <2>1 DEF InOrder
    <2> QED
      BY <2>1, <2>2
  <1>4. ASSUME NEW n \in Nat, n \in T PROVE n + 1 \in T
    <2> SUFFICES ASSUME n + 1 =< L
                 PROVE  /\ sorted[n + 1] \in Seq(S) /\ Len(sorted[n + 1]) = n + 1
                        /\ InOrder(m, sorted[n + 1])
      OBVIOUS
    <2>1. n + 1 \in 1 .. L /\ n =< L /\ (n + 1) - 1 = n
      BY <1>1
    <2>2. PICK s \in Seq(S), c \in S : s = sorted[n] /\ c = cells[n + 1]
      <3>1. sorted[n] \in Seq(S) /\ cells[n + 1] \in S
        BY <1>1, <1>4, <2>1
      <3> QED
        BY <3>1, Zenon
    <2>3. InOrder(m, s) /\ Len(s) = n
      BY <1>4, <2>1, <2>2
    <2>4. /\ Inserted(m, s, c) \in Seq(S) /\ Len(Inserted(m, s, c)) = Len(s) + 1
          /\ InOrder(m, Inserted(m, s, c))
      BY <2>3, InsertedInOrder
    <2>5. sorted[n + 1] = Inserted(m, s, c)
      BY <1>2, <2>1, <2>2
    <2> QED
      BY <2>3, <2>4, <2>5
  <1>5. \A n \in Nat : n \in T
    <2> HIDE DEF T
    <2> QED
      BY <1>3, <1>4, Induction
  <1>6. L \in T /\ L =< L
    <2> HIDE DEF T
    <2> QED
      BY <1>1, <1>5
  <1>7. sorted[L] \in Seq(S) /\ Len(sorted[L]) = L /\ InOrder(m, sorted[L])
    BY <1>6
  <1> QED
    BY <1>1, <1>7 DEF sorted

\* The least member of a set of positions.
LEMMA LeastPosition ==
  ASSUME NEW n \in Nat, NEW I, I \subseteq 1 .. n, I # {}
  PROVE  Min(I) \in I /\ Min(I) \in Nat
  <1>1. I \subseteq Nat
    OBVIOUS
  <1>2. \E x \in I : \A y \in I : x =< y
    BY <1>1, LeastNatural
  <1>3. Min(I) \in I
    BY <1>2 DEF Min
  <1> QED
    BY <1>1, <1>3

\* The weights of chars are integers.
LEMMA CharsWeigh ==
  ASSUME NEW c \in 0 .. 255
  PROVE  getCharWeight(c) \in Int
  <1>1. CASE c > 127
    BY <1>1 DEF getCharWeight
  <1>2. CASE c = 0
    BY <1>2 DEF getCharWeight
  <1>3. CASE c \in 1 .. 127
    <2> DEFINE seq == Others \o CharOrder
               I == {i \in 1 .. Len(seq) : seq[i] = c}
    <2>1. Weights[c] = IF I # {} THEN Min(I) ELSE 0
      BY <1>3 DEF Weights, SelectInSeq
    <2>2. Weights[c] \in Int
      <3>1. CASE I = {}
        BY <2>1, <3>1
      <3>2. CASE I # {}
        <4>1. I \subseteq Nat
          OBVIOUS
        <4> HIDE DEF I
        <4>2. \E x \in I : \A y \in I : x =< y
          BY <3>2, <4>1, LeastNatural
        <4>3. Min(I) \in I
          BY <4>2 DEF Min
        <4>4. Min(I) \in Nat
          BY <4>1, <4>3
        <4>5. Weights[c] = Min(I)
          BY <2>1, <3>2
        <4> QED
          BY <4>4, <4>5
      <3> QED
        BY <3>1, <3>2
    <2>3. getCharWeight(c) = Weights[c]
      BY <1>3 DEF getCharWeight
    <2> QED
      BY <2>2, <2>3
  <1> QED
    BY <1>1, <1>2, <1>3

\* Strings compare as integers, and the other way round as the opposite.
LEMMA StringsCompared ==
  ASSUME NEW a \in Seq(0 .. 255), NEW b \in Seq(0 .. 255), NEW p \in Int, NEW q \in Int
  PROVE  /\ StringUtils_compareStrings(a, p, b, q) \in Int
         /\ StringUtils_compareStrings(b, q, a, p) = -StringUtils_compareStrings(a, p, b, q)
  <1> DEFINE x == Append(a, 0)
             y == Append(b, 0)
             M == {Len(x), Len(y)}
             D == {i \in 1 .. Min({Len(x), Len(y)}) : x[i] # y[i]}
             E == {i \in 1 .. Min({Len(y), Len(x)}) : y[i] # x[i]}
  <1>1. /\ x \in Seq(0 .. 255) /\ y \in Seq(0 .. 255)
        /\ Len(x) \in Nat \ {0} /\ Len(y) \in Nat \ {0}
    <2>1. 0 \in 0 .. 255
      OBVIOUS
    <2>2. x \in Seq(0 .. 255) /\ Len(x) = Len(a) + 1 /\ y \in Seq(0 .. 255) /\ Len(y) = Len(b) + 1
      BY <2>1, AppendProperties
    <2>3. Len(a) \in Nat /\ Len(b) \in Nat
      BY LenProperties
    <2> HIDE DEF x, y
    <2> QED
      BY <2>2, <2>3
  <1>2. /\ StringUtils_compareStrings(a, p, b, q)
             = IF D = {} THEN q - p ELSE StringUtils_compareChars(x[Min(D)], y[Min(D)])
        /\ StringUtils_compareStrings(b, q, a, p)
             = IF E = {} THEN p - q ELSE StringUtils_compareChars(y[Min(E)], x[Min(E)])
    BY DEF StringUtils_compareStrings
  <1> HIDE DEF x, y
  <1>3. E = D
    <2>1. {Len(y), Len(x)} = {Len(x), Len(y)}
      OBVIOUS
    <2> QED
      BY <2>1
  <1>4. CASE D = {}
    <2>1. StringUtils_compareStrings(a, p, b, q) = q - p
      BY <1>2, <1>4
    <2>2. E = {}
      BY <1>3, <1>4
    <2>3. StringUtils_compareStrings(b, q, a, p) = p - q
      BY <1>2, <2>2
    <2> QED
      BY <2>1, <2>3
  <1>5. CASE D # {}
    <2>1. Min(M) \in Nat /\ Min(M) =< Len(x) /\ Min(M) =< Len(y)
      <3>1. M \subseteq Nat /\ M # {}
        BY <1>1
      <3>2. PICK k \in M : \A j \in M : k =< j
        BY <3>1, LeastNatural
      <3>3. Min(M) \in M /\ \A j \in M : Min(M) =< j
        BY <3>2 DEF Min
      <3> QED
        BY <3>1, <3>3
    <2>2. Min(D) \in D
      <3>1. D \subseteq 1 .. Min(M)
        OBVIOUS
      <3> HIDE DEF D, M
      <3> QED
        BY <1>5, <2>1, <3>1, LeastPosition
    <2>3. PICK i \in Nat : i = Min(D) /\ i \in 1 .. Len(x) /\ i \in 1 .. Len(y)
      <3>1. Min(D) \in 1 .. Min(M)
        BY <2>2
      <3>2. PICK l \in Nat, j \in Nat, n \in Nat : l = Len(x) /\ j = Len(y) /\ n = Min(M)
        BY <1>1, <2>1
      <3>3. PICK i \in 1 .. n : i = Min(D)
        BY <3>1, <3>2
      <3>4. n =< l /\ n =< j
        BY <2>1, <3>2
      <3>5. i \in Nat /\ i \in 1 .. l /\ i \in 1 .. j
        BY <3>3, <3>4
      <3> QED
        BY <3>2, <3>3, <3>5
    <2>4. x[i] \in 0 .. 255 /\ y[i] \in 0 .. 255
      BY <1>1, <2>3, ElementOfSeq
    <2>5. PICK u \in Int, v \in Int : u = getCharWeight(x[i]) /\ v = getCharWeight(y[i])
      BY <2>4, CharsWeigh
    <2>6. /\ StringUtils_compareStrings(a, p, b, q) = u - v
          /\ StringUtils_compareStrings(b, q, a, p) = v - u
      BY <1>2, <1>3, <1>5, <2>3, <2>5 DEF StringUtils_compareChars
    <2> QED
      BY <2>6
  <1> QED
    BY <1>4, <1>5

\* The data a list can be sorted by: addresses of strings.
Comparable(D) == D \subseteq Int /\ \A d \in D : Text(d) \in Seq(0 .. 255)

Compared(d, e) == StringUtils_compareStrings(Text(d), d, Text(e), e)

\* Of two cells at most one comes before the other.
LEMMA OneBefore ==
  ASSUME NEW m, NEW D, Comparable(D), NEW a, NEW b, m[a].data \in D, m[b].data \in D
  PROVE  /\ IsBefore(m, a, b) => ~IsBefore(m, b, a)
         /\ ~IsBefore(m, a, b) => Compared(m[a].data, m[b].data) >= 0
  <1>1. PICK p \in Int, q \in Int : p = m[a].data /\ q = m[b].data
    BY DEF Comparable
  <1>2. Text(p) \in Seq(0 .. 255) /\ Text(q) \in Seq(0 .. 255)
    BY <1>1 DEF Comparable
  <1>3. PICK s \in Seq(0 .. 255), t \in Seq(0 .. 255) : s = Text(p) /\ t = Text(q)
    BY <1>2, Zenon
  <1>4. /\ StringUtils_compareStrings(s, p, t, q) \in Int
        /\ StringUtils_compareStrings(t, q, s, p) = -StringUtils_compareStrings(s, p, t, q)
    BY StringsCompared
  <1>5. PICK n \in Int : /\ StringUtils_compareStrings(s, p, t, q) = n
                         /\ StringUtils_compareStrings(t, q, s, p) = -n
    BY <1>4
  <1>6. (IsBefore(m, a, b) <=> n < 0) /\ (IsBefore(m, b, a) <=> -n < 0)
    BY <1>1, <1>3, <1>5 DEF IsBefore
  <1>7. Compared(m[a].data, m[b].data) = n
    BY <1>1, <1>3, <1>5 DEF Compared
  <1> QED
    BY <1>6, <1>7

\* How often a sequence has a member; the cells of a chain that hold a datum.
Occurs(s, d) == Cardinality({i \in 1 .. Len(s) : s[i] = d})

Holding(m, w, d) == {a \in Blocks(w) : a # w[1] /\ m[a].data = d}

\* As many cells hold it as it has positions.
LEMMA OccursInCells ==
  ASSUME NEW m, NEW w, Chain(m, w), NEW d
  PROVE  Occurs(Held(m, w), d) = Cardinality(Holding(m, w, d))
  <1>1. PICK L \in Nat \ {0} : L = Len(w)
    BY ChainCells
  <1>2. PICK h : h = Held(m, w)
    OBVIOUS
  <1>3. Len(h) = L - 1 /\ \A i \in 1 .. L - 1 : h[i] = m[w[i + 1]].data /\ i + 1 \in 1 .. L
    BY <1>1, <1>2, HeldPlaces
  <1>4. /\ \A i \in 1 .. L : w[i] \in Blocks(w)
        /\ \A i, j \in 1 .. L : w[i] = w[j] => i = j
        /\ \A a \in Blocks(w) : \E i \in 1 .. L : a = w[i]
    BY <1>1, ChainCells DEF Blocks
  <1> DEFINE I == {i \in 1 .. L - 1 : h[i] = d}
             C == Holding(m, w, d)
             f == [i \in I |-> w[i + 1]]
  <1>5. ASSUME NEW i \in I PROVE w[i + 1] \in C /\ i \in Nat /\ i + 1 \in 1 .. L
    <2>1. i \in 1 .. L - 1 /\ i + 1 \in 1 .. L /\ i + 1 # 1 /\ 1 \in 1 .. L
      BY <1>3
    <2>2. w[i + 1] # w[1]
      BY <1>4, <2>1
    <2>3. m[w[i + 1]].data = d
      BY <1>3, <2>1
    <2> QED
      BY <1>4, <2>1, <2>2, <2>3 DEF Holding
  <1>6. f \in [I -> C]
    <2> HIDE DEF I, C
    <2> QED
      BY <1>5
  <1>7. ASSUME NEW i \in I, NEW j \in I, f[i] = f[j] PROVE i = j
    <2>1. i + 1 \in 1 .. L /\ j + 1 \in 1 .. L /\ w[i + 1] = w[j + 1] /\ i \in Nat /\ j \in Nat
      <3> HIDE DEF I
      <3> QED
        BY <1>5, <1>7
    <2>2. i + 1 = j + 1
      BY <1>4, <2>1
    <2> QED
      BY <2>1, <2>2
  <1>8. ASSUME NEW a \in C PROVE \E i \in I : f[i] = a
    <2>1. a \in Blocks(w) /\ a # w[1] /\ m[a].data = d
      BY DEF Holding
    <2>2. PICK j \in 1 .. L : a = w[j]
      BY <1>4, <2>1
    <2>3. j - 1 \in 1 .. L - 1 /\ (j - 1) + 1 = j
      BY <2>1, <2>2
    <2>4. j - 1 \in I
      BY <1>3, <2>1, <2>2, <2>3
    <2>5. f[j - 1] = a
      <3> HIDE DEF I
      <3> QED
        BY <2>2, <2>3, <2>4
    <2> QED
      BY <2>4, <2>5
  <1>9. f \in Bijection(I, C)
    <2> HIDE DEF I, C, f
    <2> QED
      BY <1>6, <1>7, <1>8, Fun_IsBij
  <1>10. IsFiniteSet(I)
    <2>1. IsFiniteSet(1 .. L - 1) /\ I \subseteq 1 .. L - 1
      <3>1. 1 \in Int /\ L - 1 \in Int
        OBVIOUS
      <3> QED
        BY <3>1, FS_Interval
    <2> HIDE DEF I
    <2> QED
      BY <2>1, FS_Subset
  <1>11. Cardinality(C) = Cardinality(I)
    <2>1. ExistsBijection(I, C)
      BY <1>9, Fun_ExistsBij
    <2> HIDE DEF I, C
    <2> QED
      BY <1>10, <2>1, FS_Bijection
  <1>12. Occurs(h, d) = Cardinality(I)
    BY <1>3 DEF Occurs
  <1> QED
    BY <1>2, <1>11, <1>12

\* A sorted list holds what it held, in order.
LEMMA SortHolds ==
  ASSUME NEW m, NEW w, Addresses(m), Chain(m, w), NEW D, Comparable(D),
         \A i \in 1 .. Len(w) - 1 : Held(m, w)[i] \in D,
         NEW m2, m2 = StringUtils_sortList(m, w[1])
  PROVE  \E v : /\ Reorders(m, w, v, m2)
                /\ \A i \in 1 .. Len(w) - 1 : Held(m2, v)[i] \in D
                /\ \A i \in 1 .. Len(w) - 2 :
                      Compared(Held(m2, v)[i + 1], Held(m2, v)[i]) >= 0
                /\ \A d : Occurs(Held(m2, v), d) = Occurs(Held(m, w), d)
  <1>1. PICK L \in Nat \ {0} : L = Len(w)
    BY ChainCells
  <1>2. PICK v : Reorders(m, w, v, m2)
    BY SortEffect
  <1> DEFINE e == Elements(m, w[1])
             S == {w[i + 1] : i \in 1 .. L - 1}
  <1>3. e \in Seq(S) /\ Len(e) = L - 1
    <2>1. e \in Seq(DOMAIN m) /\ Len(e) = L - 1 /\ \A i \in 1 .. L - 1 : e[i] = w[i + 1]
      BY <1>1, WalkOfChain
    <2>2. e = [i \in 1 .. L - 1 |-> e[i]]
      BY <2>1, LenProperties
    <2>3. \A i \in 1 .. L - 1 : e[i] \in S
      BY <2>1
    <2>4. L - 1 \in Nat
      OBVIOUS
    <2> HIDE DEF e, S
    <2>5. e \in Seq(S)
      BY <2>2, <2>3, <2>4
    <2> QED
      BY <2>1, <2>5
  <1>4. ASSUME NEW a \in S PROVE m[a].data \in D /\ a \in Blocks(w)
    <2>1. PICK i \in 1 .. L - 1 : a = w[i + 1]
      OBVIOUS
    <2>2. i + 1 \in 1 .. L /\ m[w[i + 1]].data = Held(m, w)[i] /\ Held(m, w)[i] \in D
      BY <1>1, HeldPlaces
    <2> QED
      BY <1>1, <2>1, <2>2, ChainCells
  <1>5. PICK s : s = Sorted(m, e)[L - 1]
    OBVIOUS
  <1>6. s \in Seq(S) /\ Len(s) = L - 1 /\ InOrder(m, s)
    <2>1. \A a, b \in S : IsBefore(m, a, b) => ~IsBefore(m, b, a)
      <3> HIDE DEF S
      <3> QED
        BY <1>4, OneBefore
    <2> HIDE DEF e, S
    <2> QED
      BY <1>3, <1>5, <2>1, SortedInOrder
  <1>7. /\ Chain(m2, v) /\ v[1] = w[1] /\ Len(v) = L /\ Blocks(v) = Blocks(w)
        /\ \A a \in Blocks(w) : m2[a].data = m[a].data
        /\ \A i \in 1 .. L - 1 : v[i + 1] = s[i]
    BY <1>1, <1>2, <1>5 DEF Reorders
  <1> HIDE DEF e, S
  <1>8. ASSUME NEW i \in 1 .. L - 1
        PROVE  Held(m2, v)[i] = m[s[i]].data /\ s[i] \in S /\ m[s[i]].data \in D
    <2>1. s[i] \in S
      BY <1>6, ElementOfSeq
    <2>2. Held(m2, v)[i] = m2[v[i + 1]].data
      <3>1. Chain(m2, v) /\ i \in 1 .. Len(v) - 1
        BY <1>7
      <3>2. \A k \in 1 .. Len(v) - 1 : Held(m2, v)[k] = m2[v[k + 1]].data
        BY <3>1, HeldPlaces
      <3> QED
        BY <3>1, <3>2
    <2>3. s[i] \in Blocks(w) /\ m[s[i]].data \in D
      BY <1>4, <2>1
    <2> QED
      BY <1>7, <2>1, <2>2, <2>3
  <1>9. ASSUME NEW i \in 1 .. L - 2
        PROVE  Compared(Held(m2, v)[i + 1], Held(m2, v)[i]) >= 0
    <2>1. i \in 1 .. L - 1 /\ i + 1 \in 1 .. L - 1
      OBVIOUS
    <2>2. PICK a, b : a = s[i + 1] /\ b = s[i]
      OBVIOUS
    <2>3. m[a].data \in D /\ m[b].data \in D
      BY <1>8, <2>1, <2>2
    <2>4. ~IsBefore(m, a, b)
      <3>1. i \in 1 .. Len(s) - 1
        BY <1>6
      <3> QED
        BY <1>6, <2>2, <3>1 DEF InOrder
    <2>5. Compared(m[a].data, m[b].data) >= 0
      BY <2>3, <2>4, OneBefore
    <2>6. Held(m2, v)[i + 1] = m[a].data /\ Held(m2, v)[i] = m[b].data
      BY <1>8, <2>1, <2>2
    <2> QED
      BY <2>5, <2>6
  <1>10. ASSUME NEW d PROVE Occurs(Held(m2, v), d) = Occurs(Held(m, w), d)
    <2>1. Holding(m2, v, d) = Holding(m, w, d)
      BY <1>7 DEF Holding
    <2>2. Occurs(Held(m2, v), d) = Cardinality(Holding(m2, v, d))
      BY <1>7, OccursInCells
    <2>3. Occurs(Held(m, w), d) = Cardinality(Holding(m, w, d))
      BY OccursInCells
    <2> QED
      BY <2>1, <2>2, <2>3
  <1> QED
    BY <1>1, <1>2, <1>8, <1>9, <1>10

\* How many elements there are.
LEMMA SizeOfHeld ==
  ASSUME NEW m, NEW w, Addresses(m), Chain(m, w)
  PROVE  LinkedList_size(m, w[1]) = Len(Held(m, w)) /\ Len(Held(m, w)) = Len(w) - 1
  <1>1. Len(Elements(m, w[1])) = Len(w) - 1
    BY WalkOfChain
  <1> QED
    BY <1>1, HeldPlaces DEF LinkedList_size

\* A new cell in the chain is a new datum in the contents ...
LEMMA LinkInHolds ==
  ASSUME NEW m, NEW w, Addresses(m), Chain(m, w), NEW k \in 1 .. Len(w), NEW f, NEW d, NEW m2,
         LinksIn(m, w, k, f, d, m2), f \in Nat \ {NULL}
  PROVE  DataOf(m2, w[1]) = Grown(Held(m, w), k - 1, d)
  <1>1. PICK v : v = Grown(w, k, f)
    OBVIOUS
  <1>2. Chain(m2, v)
    BY <1>1, ChainGrows
  <1>3. v[1] = w[1]
    BY <1>1, LinkInOwns
  <1>4. Addresses(m2)
    <2>1. DOMAIN m2 = DOMAIN m \cup {f}
      BY DEF LinksIn
    <2>2. IsFiniteSet(DOMAIN m \cup {f})
      BY FS_AddElement DEF Addresses
    <2> QED
      BY <2>1, <2>2 DEF Addresses
  <1>5. DataOf(m2, v[1]) = Held(m2, v)
    BY <1>2, <1>4, DataIsHeld
  <1>6. Held(m2, v) = Grown(Held(m, w), k - 1, d)
    BY <1>1, HeldGrows
  <1> QED
    BY <1>3, <1>5, <1>6

\* ... and a cell less is a datum less.
LEMMA UnlinkHolds ==
  ASSUME NEW m, NEW w, Addresses(m), Chain(m, w), NEW k \in 2 .. Len(w), NEW m2,
         Unlinks(m, w, k, m2)
  PROVE  DataOf(m2, w[1]) = Cut(Held(m, w), k - 1)
  <1>1. PICK v : v = Cut(w, k)
    OBVIOUS
  <1>2. Chain(m2, v)
    BY <1>1, ChainShrinks
  <1>3. v[1] = w[1]
    BY <1>1, UnlinkOwns
  <1>4. Addresses(m2)
    <2>1. DOMAIN m2 \subseteq DOMAIN m
      BY DEF Unlinks
    <2>2. IsFiniteSet(DOMAIN m2)
      BY <2>1, FS_Subset DEF Addresses
    <2> QED
      BY <2>1, <2>2 DEF Addresses
  <1>5. DataOf(m2, v[1]) = Held(m2, v)
    BY <1>2, <1>4, DataIsHeld
  <1>6. Held(m2, v) = Cut(Held(m, w), k - 1)
    BY <1>1, HeldShrinks
  <1> QED
    BY <1>3, <1>5, <1>6

\* LinkedList_add: one more at the end.
LEMMA AddHolds ==
  ASSUME NEW m, NEW w, DOMAIN m \subseteq Heap, Chain(m, w), HasRoom(m, 1), NEW S,
         Held(m, w) \in Seq(S), NEW d \in S
  PROVE  DataOf(LinkedList_add(m, w[1], d), w[1]) = Append(Held(m, w), d)
  <1>1. PICK m2, f, L, h : /\ m2 = LinkedList_add(m, w[1], d) /\ f = Fresh(m) /\ L = Len(w)
                           /\ h = Held(m, w)
    OBVIOUS
  <1>2. L \in Nat \ {0} /\ L \in 1 .. Len(w) /\ Len(h) = L - 1
    <2>1. Len(w) \in Nat \ {0} /\ Len(h) = Len(w) - 1
      BY <1>1, HeldPlaces
    <2> QED
      BY <1>1, <2>1
  <1>3. LinksIn(m, w, L, f, d, m2)
    BY <1>1, AddEffect
  <1>4. f \in Nat \ {NULL}
    BY <1>1, MallocEffect, HeapAssumption
  <1>5. DataOf(m2, w[1]) = Grown(h, L - 1, d)
    <2>1. Addresses(m)
      BY HeapAddresses
    <2>2. DataOf(m2, w[1]) = Grown(Held(m, w), L - 1, d)
      BY <1>2, <1>3, <1>4, <2>1, LinkInHolds
    <2> QED
      BY <1>1, <2>2
  <1>6. Append(h, d) = Grown(h, Len(h), d)
    BY <1>1, GrownIsInserted
  <1> QED
    BY <1>1, <1>2, <1>5, <1>6

\* LinkedList_insertAfter: one more behind the element.
LEMMA InsertHolds ==
  ASSUME NEW m, NEW w, DOMAIN m \subseteq Heap, Chain(m, w), HasRoom(m, 1), NEW S,
         Held(m, w) \in Seq(S), NEW d \in S, NEW k \in 1 .. Len(w)
  PROVE  /\ k - 1 \in 0 .. Len(Held(m, w))
         /\ DataOf(LinkedList_insertAfter(m, w[k], d), w[1]) = InsertAt(Held(m, w), k, d)
  <1>1. PICK m2, f, h : m2 = LinkedList_insertAfter(m, w[k], d) /\ f = Fresh(m) /\ h = Held(m, w)
    OBVIOUS
  <1>2. Len(h) + 1 = Len(w) /\ Len(w) \in Nat \ {0}
    <2>1. Len(w) \in Nat \ {0} /\ Len(h) = Len(w) - 1
      BY <1>1, HeldPlaces
    <2> QED
      BY <2>1
  <1>3. LinksIn(m, w, k, f, d, m2)
    BY <1>1, InsertEffect
  <1>4. f \in Nat \ {NULL}
    BY <1>1, MallocEffect, HeapAssumption
  <1>5. DataOf(m2, w[1]) = Grown(h, k - 1, d)
    <2>1. Addresses(m)
      BY HeapAddresses
    <2>2. DataOf(m2, w[1]) = Grown(Held(m, w), k - 1, d)
      BY <1>3, <1>4, <2>1, LinkInHolds
    <2> QED
      BY <1>1, <2>2
  <1>6. k \in 1 .. Len(h) + 1 /\ k - 1 \in 0 .. Len(h)
    BY <1>2
  <1>7. InsertAt(h, k, d) = Grown(h, k - 1, d)
    BY <1>1, <1>6, GrownIsInserted
  <1> QED
    BY <1>1, <1>5, <1>6, <1>7

\* Whether a datum is held, and where it is first.
Hits(m, list, d) == {i \in 1 .. Len(Elements(m, list)) : m[Elements(m, list)[i]].data = d}

FirstHit(m, list, d) == IF Hits(m, list, d) # {} THEN Min(Hits(m, list, d)) ELSE 0

LEMMA FirstHeld ==
  ASSUME NEW m, NEW w, Addresses(m), Chain(m, w), NEW d, NEW i, i = FirstHit(m, w[1], d)
  PROVE  /\ RemoveFirst(Held(m, w), d) = IF i # 0 THEN RemoveAt(Held(m, w), i) ELSE Held(m, w)
         /\ i \in 0 .. Len(w) - 1 /\ (i # 0 <=> Contains(Held(m, w), d))
         /\ LinkedList_contains(m, w[1], d) <=> Contains(Held(m, w), d)
  <1>1. PICK n, e, h : n = Len(w) - 1 /\ e = Elements(m, w[1]) /\ h = Held(m, w)
    OBVIOUS
  <1>2. n \in Nat
    <2>1. Len(w) \in Nat \ {0}
      BY ChainCells
    <2> QED
      BY <1>1, <2>1
  <1>3. Len(e) = n /\ Len(h) = n /\ \A j \in 1 .. n : m[e[j]].data = h[j]
    <2>1. Len(e) = n /\ \A j \in 1 .. n : e[j] = w[j + 1]
      BY <1>1, WalkOfChain
    <2>2. Len(h) = n /\ \A j \in 1 .. n : h[j] = m[w[j + 1]].data
      BY <1>1, HeldPlaces
    <2> QED
      BY <2>1, <2>2
  <1>4. PICK I : I = {j \in 1 .. n : h[j] = d}
    OBVIOUS
  <1>5. {j \in 1 .. n : m[e[j]].data = d} = I
    BY <1>3, <1>4
  <1>6. Hits(m, w[1], d) = I
    BY <1>1, <1>3, <1>5 DEF Hits
  <1>7. i = IF I # {} THEN Min(I) ELSE 0
    BY <1>6 DEF FirstHit
  <1>8. SelectInSeq(h, LAMBDA v : v = d) = IF I # {} THEN Min(I) ELSE 0
    BY <1>3, <1>4 DEF SelectInSeq
  <1>9. i \in 0 .. n /\ (I = {} <=> i = 0)
    <2>1. I \subseteq 1 .. n
      BY <1>4
    <2> QED
      BY <1>2, <1>7, <2>1, FirstPosition
  <1>10. (\E j \in 1 .. Len(h) : h[j] = d) <=> I # {}
    BY <1>3, <1>4
  <1>11. Contains(h, d) <=> I # {}
    BY <1>10 DEF Contains
  <1>12. LinkedList_contains(m, w[1], d) <=> I # {}
    BY <1>1, <1>3, <1>5 DEF LinkedList_contains
  <1>13. RemoveFirst(h, d) = IF i # 0 THEN RemoveAt(h, i) ELSE h
    BY <1>7, <1>8, <1>9, <1>10 DEF RemoveFirst
  <1> QED
    BY <1>1, <1>9, <1>11, <1>12, <1>13

\* LinkedList_remove: the first one goes, if there is one.
LEMMA RemoveHolds ==
  ASSUME NEW m, NEW w, Addresses(m), Chain(m, w), NEW S, Held(m, w) \in Seq(S), NEW d
  PROVE  /\ DataOf(LinkedList_remove(m, w[1], d).mem, w[1]) = RemoveFirst(Held(m, w), d)
         /\ LinkedList_remove(m, w[1], d).ret <=> Contains(Held(m, w), d)
  <1>1. PICK i, h : i = FirstHit(m, w[1], d) /\ h = Held(m, w)
    OBVIOUS
  <1>2. /\ i \in 0 .. Len(w) - 1 /\ (i # 0 <=> Contains(h, d))
        /\ RemoveFirst(h, d) = IF i # 0 THEN RemoveAt(h, i) ELSE h
    BY <1>1, FirstHeld
  <1>3. /\ LinkedList_remove(m, w[1], d).ret <=> i # 0
        /\ LinkedList_remove(m, w[1], d).mem = IF i = 0 THEN m ELSE Unlink(m, w[1], i)
    <2>1. SelectInSeq(Elements(m, w[1]), LAMBDA cell : m[cell].data = d) = i
      BY <1>1 DEF SelectInSeq, FirstHit, Hits
    <2> QED
      BY <2>1 DEF LinkedList_remove
  <1>4. CASE i = 0
    <2>1. DataOf(m, w[1]) = h
      BY <1>1, DataIsHeld
    <2> QED
      BY <1>1, <1>2, <1>3, <1>4, <2>1
  <1>5. CASE i # 0
    <2>1. Len(w) \in Nat \ {0} /\ Len(h) = Len(w) - 1
      BY <1>1, HeldPlaces
    <2>2. i \in 1 .. Len(w) - 1 /\ i + 1 \in 2 .. Len(w) /\ (i + 1) - 1 = i /\ i \in 1 .. Len(h)
      BY <1>2, <1>5, <2>1
    <2>3. PICK m2, k : m2 = Unlink(m, w[1], i) /\ k = i + 1
      OBVIOUS
    <2>4. Unlinks(m, w, k, m2)
      BY <2>2, <2>3, UnlinkEffect
    <2>5. DataOf(m2, w[1]) = Cut(h, k - 1)
      BY <1>1, <2>2, <2>3, <2>4, UnlinkHolds
    <2>6. RemoveAt(h, i) = Cut(h, i)
      BY <1>1, <2>2, CutIsRemoved
    <2>7. DataOf(m2, w[1]) = RemoveFirst(h, d)
      BY <1>2, <1>5, <2>2, <2>3, <2>5, <2>6
    <2> QED
      BY <1>1, <1>2, <1>3, <1>5, <2>3, <2>7
  <1> QED
    BY <1>4, <1>5

\* The larger of an index and 0.
LEMMA IndexFromZero ==
  ASSUME NEW i \in Int
  PROVE  Max({i, 0}) = IF i > 0 THEN i ELSE 0
  <1>1. PICK j \in Int : j = IF i > 0 THEN i ELSE 0
    OBVIOUS
  <1>2. j \in {i, 0} /\ \A y \in {i, 0} : j >= y
    BY <1>1
  <1>3. \A x \in {i, 0} : (\A y \in {i, 0} : x >= y) => x = j
    BY <1>1
  <1>4. (CHOOSE x \in {i, 0} : \A y \in {i, 0} : x >= y) = j
    BY <1>2, <1>3
  <1> QED
    BY <1>1, <1>4 DEF Max

\* LinkedList_get: what is at an index, if the list is that long.
LEMMA GetHolds ==
  ASSUME NEW m, NEW w, Addresses(m), Chain(m, w), NEW i \in Int, Fault \notin DOMAIN m,
         NEW h, h = Held(m, w), NEW a, a = LinkedList_get(m, w[1], i)
  PROVE  \/ h = << >> /\ i > 0 /\ a = Fault
         \/ ~(h = << >> /\ i > 0) /\ Max({i, 0}) < Len(h) /\ a # Fault /\ a # NULL
               /\ m[a].data = h[Max({i, 0}) + 1]
         \/ ~(h = << >> /\ i > 0) /\ ~(Max({i, 0}) < Len(h)) /\ a = NULL
  <1>1. PICK n \in Nat, e \in Seq(DOMAIN m) : n = Len(w) - 1 /\ e = Elements(m, w[1])
    <2>1. Len(w) \in Nat \ {0}
      BY ChainCells
    <2>2. Len(w) - 1 \in Nat
      BY <2>1
    <2>3. Elements(m, w[1]) \in Seq(DOMAIN m)
      BY WalkOfChain
    <2> QED
      BY <2>2, <2>3, Zenon
  <1>2. Len(e) = n /\ Len(h) = n /\ \A j \in 1 .. n : m[e[j]].data = h[j]
    <2>1. Len(e) = n /\ \A j \in 1 .. n : e[j] = w[j + 1]
      BY <1>1, WalkOfChain
    <2>2. Len(h) = n /\ \A j \in 1 .. n : h[j] = m[w[j + 1]].data
      BY <1>1, HeldPlaces
    <2> QED
      BY <2>1, <2>2
  <1>3. (h = << >> <=> n = 0) /\ (e = << >> <=> n = 0)
    <2>1. h = [j \in 1 .. n |-> m[w[j + 1]].data]
      BY <1>1 DEF Held
    <2>2. PICK D : D = {m[w[j + 1]].data : j \in 1 .. n}
      OBVIOUS
    <2>3. \A j \in 1 .. n : m[w[j + 1]].data \in D
      BY <2>2
    <2>4. h \in [1 .. n -> D]
      BY <2>1, <2>3
    <2>5. h \in Seq(D)
      BY <2>4
    <2> QED
      BY <1>1, <1>2, <2>5, EmptySeq
  <1>4. \A j \in 1 .. n : e[j] # Fault /\ e[j] # NULL
    <2>1. \A j \in 1 .. n : e[j] \in DOMAIN m
      BY <1>2, ElementOfSeq
    <2> QED
      BY <2>1 DEF Addresses
  <1>5. PICK x \in Nat : x = Max({i, 0}) /\ x = IF i > 0 THEN i ELSE 0
    BY IndexFromZero
  <1>6. CASE n = 0
    <2>1. e = << >> /\ h = << >> /\ ~(x < Len(h))
      BY <1>2, <1>3, <1>6
    <2>2. CASE i > 0
      <3>1. ~(i =< 0)
        BY <2>2
      <3>2. a = Fault
        BY <1>1, <2>1, <2>2, <3>1 DEF LinkedList_get
      <3> QED
        BY <2>1, <2>2, <3>2
    <2>3. CASE i =< 0
      <3>1. ~(i > 0)
        BY <2>3
      <3>2. a = NULL
        BY <1>1, <2>1, <2>3, <3>1 DEF LinkedList_get
      <3> QED
        BY <1>5, <2>1, <3>1, <3>2
    <2> QED
      BY <2>2, <2>3
  <1>7. CASE n # 0
    <2>1. e # << >> /\ h # << >>
      BY <1>3, <1>7
    <2>2. CASE i =< 0
      <3>1. ~(i > 0) /\ x = 0 /\ 0 < n /\ 1 \in 1 .. n /\ x + 1 = 1
        BY <1>5, <1>7, <2>2
      <3>2. a = e[1]
        BY <1>1, <2>1, <2>2, <3>1 DEF LinkedList_get
      <3>3. m[a].data = h[x + 1] /\ a # Fault /\ a # NULL
        BY <1>2, <1>4, <3>1, <3>2
      <3> QED
        BY <1>2, <1>5, <2>1, <3>1, <3>3
    <2>3. CASE i > 0 /\ i < n
      <3>1. ~(i =< 0) /\ x = i /\ i + 1 \in 1 .. n /\ i < Len(e) /\ x < Len(h) /\ ~(i >= Len(e))
        BY <1>2, <1>5, <1>7, <2>3
      <3>2. a = e[i + 1]
        BY <1>1, <2>1, <2>3, <3>1 DEF LinkedList_get
      <3>3. m[a].data = h[x + 1] /\ a # Fault /\ a # NULL
        BY <1>2, <1>4, <3>1, <3>2
      <3> QED
        BY <1>5, <2>1, <3>1, <3>3
    <2>4. CASE i > 0 /\ ~(i < n)
      <3>1. ~(i =< 0) /\ x = i /\ ~(i < Len(e)) /\ i >= Len(e) /\ ~(x < Len(h))
        BY <1>2, <1>5, <1>7, <2>4
      <3>2. a = NULL
        BY <1>1, <2>1, <2>4, <3>1 DEF LinkedList_get
      <3> QED
        BY <1>5, <2>1, <3>1, <3>2
    <2> QED
      BY <2>2, <2>3, <2>4
  <1> QED
    BY <1>6, <1>7

\* LinkedList_destroyDeep: the delete function is called with all of them, in order.
LEMMA AllDeleted ==
  ASSUME NEW S, NULL \notin S, NEW data \in Seq(S)
  PROVE  Deleted(data)[Len(data)] = data
  <1>1. PICK L \in Nat : L = Len(data) /\ data \in [1 .. L -> S]
    <2>1. Len(data) \in Nat /\ data \in [1 .. Len(data) -> S]
      BY LenProperties
    <2> QED
      BY <2>1
  <1> DEFINE prefix(n) == [i \in 1 .. n |-> data[i]]
             g == [n \in 0 .. L |-> prefix(n)]
             deleted == Deleted(data)
  <1>2. ASSUME NEW n \in 1 .. L
        PROVE  data[n] # NULL /\ Append(prefix(n - 1), data[n]) = prefix(n)
    <2>1. data[n] \in S
      BY <1>1
    <2>2. PICK s : s = prefix(n - 1)
      OBVIOUS
    <2>3. n - 1 \in Nat /\ \A i \in 1 .. n - 1 : data[i] \in S
      BY <1>1
    <2>4. s \in Seq(S) /\ Len(s) = n - 1 /\ \A i \in 1 .. n - 1 : s[i] = data[i]
      BY <2>2, <2>3
    <2>5. PICK t : t = Append(s, data[n])
      OBVIOUS
    <2>6. t \in Seq(S) /\ Len(t) = n /\ \A i \in 1 .. n - 1 : t[i] = data[i]
      BY <2>1, <2>3, <2>4, <2>5
    <2>7. t[n] = data[n]
      BY <2>1, <2>3, <2>4, <2>5
    <2>8. t = [i \in 1 .. n |-> t[i]]
      BY <2>6, LenProperties
    <2>9. \A i \in 1 .. n : t[i] = data[i]
      BY <2>6, <2>7
    <2>10. t = prefix(n)
      BY <2>8, <2>9
    <2> QED
      BY <2>1, <2>2, <2>5, <2>10
  <1>3. prefix(0) = << >>
    OBVIOUS
  <1>4. ASSUME NEW n \in 0 .. L
        PROVE  prefix(n) = IF n = 0 THEN << >>
                           ELSE IF data[n] = NULL THEN g[n - 1] ELSE Append(g[n - 1], data[n])
    <2>1. CASE n = 0
      BY <1>3, <2>1
    <2>2. CASE n # 0
      <3>1. n \in 1 .. L /\ n - 1 \in 0 .. L
        BY <2>2
      <3>2. g[n - 1] = prefix(n - 1)
        BY <3>1
      <3> HIDE DEF g, prefix
      <3> QED
        BY <1>2, <2>2, <3>1, <3>2
    <2> QED
      BY <2>1, <2>2
  <1>5. g = [n \in 0 .. Len(data) |->
                IF n = 0 THEN << >>
                ELSE IF data[n] = NULL THEN g[n - 1] ELSE Append(g[n - 1], data[n])]
    <2> HIDE DEF prefix
    <2> QED
      BY <1>1, <1>4
  <1> HIDE DEF g, prefix
  <1>6. deleted = [n \in 0 .. Len(data) |->
                     IF n = 0 THEN << >>
                     ELSE IF data[n] = NULL THEN deleted[n - 1] ELSE Append(deleted[n - 1], data[n])]
    BY <1>5, Zenon DEF Deleted
  <1> HIDE DEF deleted
  <1> DEFINE T == {n \in Nat : n =< L => deleted[n] = prefix(n)}
  <1>7. 0 \in T
    <2>1. 0 \in 0 .. Len(data)
      BY <1>1
    <2>2. deleted[0] = << >>
      BY <1>6, <2>1
    <2> QED
      BY <1>3, <2>2
  <1>8. ASSUME NEW n \in Nat, n \in T PROVE n + 1 \in T
    <2> SUFFICES ASSUME n + 1 =< L PROVE deleted[n + 1] = prefix(n + 1)
      OBVIOUS
    <2>1. n + 1 \in 1 .. L /\ n =< L /\ (n + 1) - 1 = n /\ n + 1 \in 0 .. Len(data) /\ n + 1 # 0
      BY <1>1
    <2>2. deleted[n] = prefix(n)
      BY <1>8, <2>1
    <2>3. data[n + 1] # NULL /\ Append(prefix(n), data[n + 1]) = prefix(n + 1)
      BY <1>2, <2>1
    <2>4. deleted[n + 1] = Append(deleted[n], data[n + 1])
      BY <1>6, <2>1, <2>3
    <2> QED
      BY <2>2, <2>3, <2>4
  <1>9. \A n \in Nat : n \in T
    <2> HIDE DEF T
    <2> QED
      BY <1>7, <1>8, Induction
  <1>10. deleted[L] = prefix(L)
    <2>1. L \in T /\ L =< L
      <3> HIDE DEF T
      <3> QED
        BY <1>1, <1>9
    <2> QED
      BY <2>1
  <1>11. prefix(L) = data
    BY <1>1 DEF prefix
  <1> QED
    BY <1>1, <1>10, <1>11 DEF deleted

\* Blocks that are as they were.
Keeps(m, C, m2) == C \subseteq DOMAIN m2 /\ \A a \in C : m2[a] = m[a]

\* A list and a map none of whose blocks is written hold what they held.
LEMMA ListFrame ==
  ASSUME NEW m, NEW m2, DOMAIN m \subseteq Heap, DOMAIN m2 \subseteq Heap, NEW h, NEW A,
         ListOwns(m, h, A), Keeps(m, A, m2)
  PROVE  DataOf(m2, h) = DataOf(m, h)
  <1>1. PICK w : Chain(m, w) /\ w[1] = h /\ A = Blocks(w)
    BY DEF ListOwns
  <1>2. Chain(m2, w) /\ Held(m2, w) = Held(m, w)
    BY <1>1, ChainFrame, HeldFrame DEF Keeps
  <1>3. Addresses(m) /\ Addresses(m2)
    BY HeapAddresses
  <1>4. DataOf(m, w[1]) = Held(m, w) /\ DataOf(m2, w[1]) = Held(m2, w)
    BY <1>1, <1>2, <1>3, DataIsHeld
  <1> QED
    BY <1>1, <1>2, <1>4

LEMMA MapFrame ==
  ASSUME NEW m, NEW m2, DOMAIN m \subseteq Heap, DOMAIN m2 \subseteq Heap, NEW h, NEW A,
         MapOwns(m, h, A), Keeps(m, A, m2)
  PROVE  m2[h] = m[h] /\ PairsOf(m2, h) = PairsOf(m, h)
  <1>1. PICK w : /\ Chain(m, w) /\ MapObject(m, h, w)
                 /\ A = Blocks(w) \cup Owned(m, w) \cup {h}
    BY DEF MapOwns
  <1>2. m2[h] = m[h] /\ m[h].entries = w[1] /\ m2[h].entries = w[1]
    <2>1. m2[h] = m[h]
      BY <1>1 DEF Keeps
    <2>2. m[h].entries = w[1]
      BY <1>1 DEF MapObject
    <2> QED
      BY <2>1, <2>2
  <1>3. Chain(m2, w)
    <2>1. Blocks(w) \subseteq DOMAIN m2 /\ \A a \in Blocks(w) : m2[a] = m[a]
      BY <1>1 DEF Keeps
    <2> QED
      BY <1>1, <2>1, ChainFrame
  <1>4. \A i \in 1 .. Len(w) - 1 : PairAt(m2, w[i + 1]) = PairAt(m, w[i + 1])
    <2> SUFFICES ASSUME NEW i \in 1 .. Len(w) - 1
                 PROVE  PairAt(m2, w[i + 1]) = PairAt(m, w[i + 1])
      OBVIOUS
    <2>1. Len(w) \in Nat
      BY <1>1, ChainCells
    <2>2. i + 1 \in 1 .. Len(w) /\ i + 1 \in 2 .. Len(w)
      BY <2>1
    <2>3. w[i + 1] \in A /\ m[w[i + 1]].data \in A
      <3>1. w[i + 1] \in Blocks(w) /\ m[w[i + 1]].data \in Owned(m, w)
        BY <2>2 DEF Blocks, Owned
      <3> QED
        BY <1>1, <3>1
    <2> QED
      BY <2>3 DEF Keeps, PairAt
  <1>5. Pairs(m2, w) = Pairs(m, w)
    BY <1>4 DEF Pairs
  <1>6. PairsOf(m, h) = Pairs(m, w) /\ PairsOf(m2, h) = Pairs(m2, w)
    BY <1>1, <1>2, <1>3, HeapAddresses, PairsOfChain
  <1> QED
    BY <1>2, <1>5, <1>6

\* What reading a map gives, and what its end gives up.
GivenUp(p, deleteKey, deleteValues) ==
    [i \in 1 .. Len(p) |-> (IF deleteKey THEN <<p[i][1]>> ELSE << >>)
                           \o (IF deleteValues THEN <<p[i][2]>> ELSE << >>)]

LEMMA MapReads ==
  ASSUME NEW m, DOMAIN m \subseteq Heap, NEW h, NEW A, MapOwns(m, h, A), NEW p, p = PairsOf(m, h)
  PROVE  /\ Map_size(m, h) = Len(p) /\ Len(p) \in Nat
         /\ \A key : /\ FirstWith(m, h, key) = FirstPair(p, m[h].compareKeys = "strcmp", key)
                     /\ FirstWith(m, h, key) \in 0 .. Len(p)
         /\ \A key : Map_getEntry(m, h, key) = IF FirstWith(m, h, key) = 0 THEN NULL
                                               ELSE p[FirstWith(m, h, key)][2]
         /\ \A key, deleteKey :
               /\ Map_removeEntry(m, h, key, deleteKey).ret
                     = IF FirstWith(m, h, key) = 0 THEN NULL ELSE p[FirstWith(m, h, key)][2]
               /\ Map_removeEntry(m, h, key, deleteKey).freed
                     = IF FirstWith(m, h, key) # 0 /\ deleteKey
                       THEN <<p[FirstWith(m, h, key)][1]>> ELSE << >>
         /\ \A deleteKey, deleteValues :
               MapDeleted(m, h, deleteKey, deleteValues).freed
                  = GivenUp(p, deleteKey, deleteValues)
  <1>1. PICK w : Chain(m, w) /\ MapObject(m, h, w)
    BY DEF MapOwns
  <1>2. m[h].entries = w[1] /\ Addresses(m)
    BY <1>1, HeapAddresses DEF MapObject
  <1>3. PICK n, e : n = Len(w) - 1 /\ e = Elements(m, m[h].entries)
    OBVIOUS
  <1>4. n \in Nat
    <2>1. Len(w) \in Nat \ {0}
      BY <1>1, ChainCells
    <2> QED
      BY <1>3, <2>1
  <1>5. Len(e) = n /\ \A i \in 1 .. n : e[i] = w[i + 1]
    <2>1. e = Elements(m, w[1])
      BY <1>2, <1>3
    <2>2. Len(Elements(m, w[1])) = Len(w) - 1 /\ \A i \in 1 .. Len(w) - 1 : Elements(m, w[1])[i] = w[i + 1]
      BY <1>1, <1>2, WalkOfChain
    <2> QED
      BY <1>3, <2>1, <2>2
  <1>6. /\ Len(p) = n
        /\ \A i \in 1 .. n : p[i][1] = Entry(m, e[i]).key /\ p[i][2] = Entry(m, e[i]).value
    <2>1. Len(p) = n /\ \A i \in 1 .. n : p[i] = PairAt(m, w[i + 1])
      <3>1. /\ PairsOf(m, h) = Pairs(m, w) /\ Len(Pairs(m, w)) = Len(w) - 1
            /\ \A i \in 1 .. Len(w) - 1 : Pairs(m, w)[i] = PairAt(m, w[i + 1])
        BY <1>1, <1>2, PairsOfChain
      <3> QED
        BY <1>3, <3>1
    <2> QED
      BY <1>5, <2>1 DEF PairAt, Entry
  <1>7. ASSUME NEW key
        PROVE  /\ FirstWith(m, h, key) = FirstPair(p, m[h].compareKeys = "strcmp", key)
               /\ FirstWith(m, h, key) \in 0 .. n
    BY <1>1, <1>2, <1>3, FirstPairOfChain
  <1>8. ASSUME NEW key
        PROVE  Map_getEntry(m, h, key) = IF FirstWith(m, h, key) = 0 THEN NULL
                                         ELSE p[FirstWith(m, h, key)][2]
    <2>1. PICK i \in 0 .. n : i = FirstWith(m, h, key)
      BY <1>7
    <2>2. Map_getEntry(m, h, key) = IF i = 0 THEN NULL ELSE Entry(m, e[i]).value
      BY <1>3, <2>1 DEF Map_getEntry
    <2>3. i # 0 => i \in 1 .. n
      BY <1>4, <2>1
    <2> QED
      BY <1>6, <2>1, <2>2, <2>3
  <1>9. ASSUME NEW key, NEW deleteKey
        PROVE  /\ Map_removeEntry(m, h, key, deleteKey).ret
                     = IF FirstWith(m, h, key) = 0 THEN NULL ELSE p[FirstWith(m, h, key)][2]
               /\ Map_removeEntry(m, h, key, deleteKey).freed
                     = IF FirstWith(m, h, key) # 0 /\ deleteKey
                       THEN <<p[FirstWith(m, h, key)][1]>> ELSE << >>
    <2>1. PICK i \in 0 .. n : i = FirstWith(m, h, key)
      BY <1>7
    <2>2. i # 0 => i \in 1 .. n
      BY <1>4, <2>1
    <2>3. CASE i = 0
      BY <2>1, <2>3 DEF Map_removeEntry
    <2>4. CASE i # 0
      <3>1. PICK v, k : v = Entry(m, e[i]).value /\ k = Entry(m, e[i]).key
        OBVIOUS
      <3>2. Map_removeEntry(m, h, key, deleteKey).ret = v
        BY <1>3, <2>1, <2>4, <3>1 DEF Map_removeEntry
      <3>3. Map_removeEntry(m, h, key, deleteKey).freed = IF deleteKey THEN <<k>> ELSE << >>
        BY <1>3, <2>1, <2>4, <3>1 DEF Map_removeEntry
      <3> QED
        BY <1>6, <2>1, <2>2, <2>4, <3>1, <3>2, <3>3
    <2> QED
      BY <2>3, <2>4
  <1>10. ASSUME NEW deleteKey, NEW deleteValues
         PROVE  MapDeleted(m, h, deleteKey, deleteValues).freed
                   = GivenUp(p, deleteKey, deleteValues)
    BY <1>3, <1>5, <1>6 DEF MapDeleted, GivenUp
  <1>11. Map_size(m, h) = Len(p)
    BY <1>3, <1>5, <1>6 DEF Map_size, LinkedList_size
  <1> QED
    BY <1>4, <1>6, <1>7, <1>8, <1>9, <1>10, <1>11

\* Sequences that are edited stay sequences of the same things.
LEMMA EditsTyped ==
  ASSUME NEW S, NEW s \in Seq(S)
  PROVE  /\ \A d \in S : Append(s, d) \in Seq(S)
         /\ \A d \in S : \A i \in 0 .. Len(s) : InsertAt(s, i + 1, d) \in Seq(S)
         /\ \A d : RemoveFirst(s, d) \in Seq(S)
         /\ \A k \in 1 .. Len(s) : RemoveAt(s, k) = Cut(s, k) /\ Cut(s, k) \in Seq(S)
  <1>1. \A k \in 1 .. Len(s) : RemoveAt(s, k) = Cut(s, k) /\ Cut(s, k) \in Seq(S)
    BY CutIsRemoved
  <1>2. PICK L \in Nat : L = Len(s)
    BY LenProperties
  <1>3. ASSUME NEW d \in S, NEW i \in 0 .. L PROVE InsertAt(s, i + 1, d) \in Seq(S)
    <2>1. i + 1 \in 1 .. L + 1 /\ (i + 1) - 1 = i
      BY <1>2
    <2>2. InsertAt(s, i + 1, d) = Grown(s, i, d)
      BY <1>2, <2>1, GrownIsInserted
    <2>3. Grown(s, i, d) \in Seq(S)
      BY <1>2, GrownTyped
    <2> QED
      BY <2>2, <2>3
  <1>4. ASSUME NEW d PROVE RemoveFirst(s, d) \in Seq(S)
    <2>1. PICK I : I = {j \in 1 .. L : s[j] = d}
      OBVIOUS
    <2>2. PICK i : i = IF I # {} THEN Min(I) ELSE 0
      OBVIOUS
    <2>3. SelectInSeq(s, LAMBDA v : v = d) = i
      BY <1>2, <2>1, <2>2 DEF SelectInSeq
    <2>4. i \in 0 .. L /\ (I = {} <=> i = 0)
      <3>1. I \subseteq 1 .. L
        BY <2>1
      <3> QED
        BY <2>2, <3>1, FirstPosition
    <2>5. (\E j \in 1 .. Len(s) : s[j] = d) <=> i # 0
      BY <1>2, <2>1, <2>4
    <2>6. RemoveFirst(s, d) = IF i # 0 THEN RemoveAt(s, i) ELSE s
      BY <2>3, <2>5 DEF RemoveFirst
    <2>7. i # 0 => i \in 1 .. Len(s)
      BY <1>2, <2>4
    <2> QED
      BY <1>1, <2>6, <2>7
  <1>5. \A d \in S : Append(s, d) \in Seq(S)
    OBVIOUS
  <1> QED
    BY <1>1, <1>2, <1>3, <1>4, <1>5

\* The operations of a list on what it holds.
LEMMA ListContents ==
  ASSUME NEW m, DOMAIN m \subseteq Heap, NEW h, NEW A, ListOwns(m, h, A),
         NEW S, NEW s \in Seq(S), s = DataOf(m, h)
  PROVE  /\ LinkedList_size(m, h) = Len(s)
         /\ \A d \in S : HasRoom(m, 1) => DataOf(LinkedList_add(m, h, d), h) = Append(s, d)
         /\ \A d \in S : \A element \in {h} \cup ToSet(Elements(m, h)) : HasRoom(m, 1) =>
               \E i \in 0 .. Len(s) :
                  DataOf(LinkedList_insertAfter(m, element, d), h) = InsertAt(s, i + 1, d)
         /\ \A d : /\ DataOf(LinkedList_remove(m, h, d).mem, h) = RemoveFirst(s, d)
                   /\ LinkedList_remove(m, h, d).ret <=> Contains(s, d)
         /\ \A d : LinkedList_contains(m, h, d) <=> Contains(s, d)
  <1>1. PICK w : Chain(m, w) /\ w[1] = h /\ A = Blocks(w)
    BY DEF ListOwns
  <1>2. Addresses(m) /\ Held(m, w) = s
    BY <1>1, HeapAddresses, DataIsHeld
  <1>3. LinkedList_size(m, h) = Len(s)
    BY <1>1, <1>2, SizeOfHeld
  <1>4. ASSUME HasRoom(m, 1), NEW d \in S
        PROVE  DataOf(LinkedList_add(m, h, d), h) = Append(s, d)
    BY <1>1, <1>2, <1>4, AddHolds
  <1>5. ASSUME HasRoom(m, 1), NEW d \in S, NEW element \in {h} \cup ToSet(Elements(m, h))
        PROVE  \E i \in 0 .. Len(s) :
                  DataOf(LinkedList_insertAfter(m, element, d), h) = InsertAt(s, i + 1, d)
    <2>1. {w[1]} \cup ToSet(Elements(m, w[1])) = Blocks(w)
      BY <1>1, <1>2, WalkOfChain
    <2>2. PICK k \in 1 .. Len(w) : element = w[k]
      BY <1>1, <2>1 DEF Blocks
    <2>3. /\ k - 1 \in 0 .. Len(s)
          /\ DataOf(LinkedList_insertAfter(m, w[k], d), w[1]) = InsertAt(s, k, d)
      BY <1>1, <1>2, <1>5, InsertHolds
    <2>4. (k - 1) + 1 = k
      OBVIOUS
    <2>5. PICK i \in 0 .. Len(s) : i + 1 = k
      BY <2>3, <2>4
    <2> QED
      BY <1>1, <2>2, <2>3, <2>5
  <1>6. ASSUME NEW d
        PROVE  /\ DataOf(LinkedList_remove(m, h, d).mem, h) = RemoveFirst(s, d)
               /\ LinkedList_remove(m, h, d).ret <=> Contains(s, d)
    <2>1. Held(m, w) \in Seq(S)
      BY <1>2
    <2>2. /\ DataOf(LinkedList_remove(m, w[1], d).mem, w[1]) = RemoveFirst(Held(m, w), d)
          /\ LinkedList_remove(m, w[1], d).ret <=> Contains(Held(m, w), d)
      BY <1>1, <1>2, <2>1, RemoveHolds
    <2> QED
      BY <1>1, <1>2, <2>2
  <1>7. ASSUME NEW d PROVE LinkedList_contains(m, h, d) <=> Contains(s, d)
    <2>1. PICK i : i = FirstHit(m, w[1], d)
      OBVIOUS
    <2>2. LinkedList_contains(m, w[1], d) <=> Contains(Held(m, w), d)
      BY <1>1, <1>2, <2>1, FirstHeld
    <2> QED
      BY <1>1, <1>2, <2>2
  <1> QED
    BY <1>3, <1>4, <1>5, <1>6, <1>7

\* StringUtils_sortList: the same data, in order.
LEMMA SortContents ==
  ASSUME NEW m, DOMAIN m \subseteq Heap, NEW h, NEW A, ListOwns(m, h, A),
         NEW D, Comparable(D), NEW s \in Seq(D), s = DataOf(m, h),
         NEW t, t = DataOf(StringUtils_sortList(m, h), h)
  PROVE  /\ t \in [1 .. Len(s) -> D]
         /\ \A i \in 1 .. Len(t) - 1 : Compared(t[i + 1], t[i]) >= 0
         /\ \A d : Occurs(t, d) = Occurs(s, d)
  <1>1. PICK w : Chain(m, w) /\ w[1] = h /\ A = Blocks(w)
    BY DEF ListOwns
  <1>2. Addresses(m) /\ Held(m, w) = s
    BY <1>1, HeapAddresses, DataIsHeld
  <1>3. PICK m2 : m2 = StringUtils_sortList(m, w[1])
    OBVIOUS
  <1>4. PICK n \in Nat : n = Len(w) - 1 /\ Len(s) = n
    <2>1. Len(w) \in Nat \ {0} /\ Len(s) = Len(w) - 1
      BY <1>1, <1>2, HeldPlaces
    <2>2. Len(w) - 1 \in Nat
      BY <2>1
    <2> QED
      BY <2>1, <2>2
  <1>5. \A i \in 1 .. Len(w) - 1 : Held(m, w)[i] \in D
    <2>1. \A i \in 1 .. n : s[i] \in D
      BY <1>4, ElementOfSeq
    <2> QED
      BY <1>2, <1>4, <2>1
  <1>6. PICK v : /\ Reorders(m, w, v, m2)
                 /\ \A i \in 1 .. Len(w) - 1 : Held(m2, v)[i] \in D
                 /\ \A i \in 1 .. Len(w) - 2 :
                       Compared(Held(m2, v)[i + 1], Held(m2, v)[i]) >= 0
                 /\ \A d : Occurs(Held(m2, v), d) = Occurs(Held(m, w), d)
    BY <1>1, <1>2, <1>3, <1>5, SortHolds
  <1>7. Chain(m2, v) /\ v[1] = w[1] /\ Len(v) = Len(w) /\ DOMAIN m2 = DOMAIN m
    BY <1>6 DEF Reorders
  <1>8. Held(m2, v) = t
    <2>1. Addresses(m2)
      BY <1>7, HeapAddresses
    <2>2. DataOf(m2, v[1]) = Held(m2, v)
      BY <1>7, <2>1, DataIsHeld
    <2> QED
      BY <1>1, <1>3, <1>7, <2>2
  <1>9. Len(t) = n /\ t \in [1 .. n -> D]
    <2>1. t = [i \in 1 .. n |-> m2[v[i + 1]].data]
      BY <1>4, <1>7, <1>8 DEF Held
    <2>2. \A i \in 1 .. n : t[i] \in D
      BY <1>4, <1>6, <1>8
    <2>3. t \in [1 .. n -> D]
      BY <2>1, <2>2
    <2> QED
      BY <2>1, <2>3
  <1>10. n - 1 = Len(w) - 2
    <2>1. Len(w) \in Nat \ {0}
      BY <1>1, ChainCells
    <2> QED
      BY <1>4, <2>1
  <1> QED
    BY <1>2, <1>4, <1>6, <1>8, <1>9, <1>10
=============================================================================
