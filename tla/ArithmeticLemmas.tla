-------------------------- MODULE ArithmeticLemmas --------------------------
(***************************************************************************)
(* Naturals: products, quotients and remainders, and induction in a form   *)
(* the provers can use, about sets and functions instead of operators.     *)
(***************************************************************************)
EXTENDS Integers, TLAPS, WellFoundedInduction

\* Products of naturals are naturals and grow with a factor.
LEMMA Products ==
  ASSUME NEW a \in Nat, NEW b \in Nat, NEW c \in Nat
  PROVE  /\ a * b \in Nat
         /\ (a + 1) * b = a * b + b
         /\ a < c => a * b + b =< c * b
  <1>1. a * b \in Nat /\ (a + 1) * b = a * b + b
    OBVIOUS
  <1>2. ASSUME a < c PROVE a * b + b =< c * b
    <2>1. c = a + 1 + (c - a - 1) /\ c - a - 1 \in Nat
      BY <1>2
    <2>2. PICK e \in Nat : c = a + 1 + e
      BY <2>1
    <2>3. c * b = a * b + b + e * b /\ e * b \in Nat
      BY <2>2
    <2> QED
      BY <2>3, <1>1
  <1> QED
    BY <1>1, <1>2

\* Quotient and remainder.
LEMMA Division ==
  ASSUME NEW a \in Nat, NEW b \in Nat \ {0}
  PROVE  /\ a \div b \in Nat /\ a % b \in 0 .. b - 1
         /\ a = (a \div b) * b + (a % b)
  OBVIOUS

\* Quotient and remainder are unique.
LEMMA DivisionUnique ==
  ASSUME NEW b \in Nat \ {0}, NEW q \in Nat, NEW r \in 0 .. b - 1
  PROVE  (q * b + r) \div b = q /\ (q * b + r) % b = r
  <1> DEFINE a == q * b + r
             p == a \div b
             s == a % b
  <1>1. a \in Nat
    BY Products
  <1>2. p \in Nat /\ s \in 0 .. b - 1 /\ a = p * b + s
    BY <1>1, Division
  <1>3. p * b + s = q * b + r /\ p * b \in Nat /\ q * b \in Nat
    BY <1>2, Products
  <1> HIDE DEF p, s
  <1>4. ~(p < q)
    <2>1. p < q => p * b + b =< q * b
      BY <1>2, Products
    <2> QED
      BY <2>1, <1>2, <1>3
  <1>5. ~(q < p)
    <2>1. q < p => q * b + b =< p * b
      BY <1>2, Products
    <2> QED
      BY <2>1, <1>2, <1>3
  <1>6. p = q
    BY <1>2, <1>4, <1>5
  <1>7. s = r
    BY <1>2, <1>3, <1>6
  <1> QED
    BY <1>6, <1>7 DEF p, s

\* Remainders of sums and differences.
LEMMA Remainders ==
  ASSUME NEW b \in Nat \ {0}, NEW a \in Nat, NEW c \in Nat
  PROVE  /\ ((a % b) + 1) % b = (a + 1) % b
         /\ a =< c => ((c % b) + b - (a % b)) % b = (c - a) % b
  <1> DEFINE p == a \div b
             s == a % b
             q == c \div b
             t == c % b
  <1>1. p \in Nat /\ s \in 0 .. b - 1 /\ a = p * b + s
    BY Division
  <1>2. q \in Nat /\ t \in 0 .. b - 1 /\ c = q * b + t
    BY Division
  <1> HIDE DEF p, s, q, t
  <1>3. (s + 1) % b = (a + 1) % b
    <2>1. CASE s + 1 < b
      <3>1. a + 1 = p * b + (s + 1) /\ s + 1 = 0 * b + (s + 1) /\ s + 1 \in 0 .. b - 1
        BY <1>1, <2>1, Products
      <3> QED
        BY <1>1, <3>1, DivisionUnique
    <2>2. CASE s + 1 = b
      <3>1. a + 1 = (p + 1) * b + 0 /\ s + 1 = 1 * b + 0 /\ 0 \in 0 .. b - 1
        BY <1>1, <2>2, Products
      <3>2. (a + 1) % b = 0
        BY <1>1, <3>1, DivisionUnique
      <3>3. (s + 1) % b = 0
        BY <1>1, <3>1, DivisionUnique
      <3> QED
        BY <3>2, <3>3
    <2> QED
      BY <1>1, <2>1, <2>2
  <1>4. ASSUME a =< c PROVE (t + b - s) % b = (c - a) % b
    <2>1. p =< q
      <3>1. q < p => q * b + b =< p * b
        BY <1>1, <1>2, Products
      <3>2. p * b \in Nat /\ q * b \in Nat
        BY <1>1, <1>2, Products
      <3> QED
        BY <1>1, <1>2, <1>4, <3>1, <3>2
    <2>2. PICK k \in Nat : q = p + k
      <3>1. q - p \in Nat /\ q = p + (q - p)
        BY <1>1, <1>2, <2>1
      <3> QED
        BY <3>1
    <2>3. c - a = k * b + t - s
      BY <1>1, <1>2, <2>2
    <2>4. CASE s =< t
      <3>1. PICK r \in 0 .. b - 1 : t = s + r
        <4>1. t - s \in 0 .. b - 1 /\ t = s + (t - s)
          BY <1>1, <1>2, <2>4
        <4> QED
          BY <4>1
      <3>2. c - a = k * b + r /\ t + b - s = 1 * b + r
        BY <1>1, <1>2, <2>2, <2>3, <3>1, Products
      <3>3. (k * b + r) % b = r /\ (1 * b + r) % b = r
        BY <2>2, <3>1, DivisionUnique
      <3> QED
        BY <3>2, <3>3
    <2>5. CASE t < s
      <3>1. PICK r \in 0 .. b - 1 : t + b = s + r
        <4>1. t + b - s \in 0 .. b - 1 /\ t + b = s + (t + b - s)
          BY <1>1, <1>2, <2>5
        <4> QED
          BY <4>1
      <3>2. k # 0
        BY <1>1, <1>2, <1>4, <2>2, <2>5
      <3>3. PICK l \in Nat : k = l + 1
        <4>1. k - 1 \in Nat /\ k = (k - 1) + 1
          BY <2>2, <3>2
        <4> QED
          BY <4>1
      <3>4. k * b = l * b + b
        BY <3>3, Products
      <3>5. c - a = l * b + r /\ t + b - s = 0 * b + r
        BY <1>1, <1>2, <2>2, <2>3, <3>1, <3>3, <3>4, Products
      <3>6. (l * b + r) % b = r /\ (0 * b + r) % b = r
        BY <3>1, <3>3, DivisionUnique
      <3> QED
        BY <3>5, <3>6
    <2> QED
      BY <1>1, <1>2, <2>4, <2>5
  <1> QED
    BY <1>3, <1>4 DEF s, t

-----------------------------------------------------------------------------
\* A non-empty set of naturals has a least element.
LEMMA LeastNatural ==
  ASSUME NEW S, S \subseteq Nat, S # {}
  PROVE  \E m \in S : \A k \in S : m =< k
  <1> DEFINE R == OpToRel(<, Nat)
  <1>1. IsWellFoundedOn(R, Nat)
    BY NatLessThanWellFounded
  <1>2. \A x, y \in Nat : x < y => <<x, y>> \in R
    BY DEF OpToRel
  <1> HIDE DEF R
  <1>3. PICK m \in S : \A y \in S : ~ (<<y, m>> \in R)
    BY <1>1, WFMin
  <1>4. \A y \in S : ~(y < m)
    BY <1>2, <1>3
  <1>5. \A y \in S : m =< y
    BY <1>4
  <1> QED
    BY <1>5

\* Induction: a set that has 0 and with every number the next has all of them.
LEMMA Induction ==
  ASSUME NEW S, 0 \in S, \A n \in Nat : n \in S => n + 1 \in S
  PROVE  \A n \in Nat : n \in S
  <1> DEFINE T == {n \in Nat : n \notin S}
  <1> SUFFICES ASSUME T # {} PROVE FALSE
    OBVIOUS
  <1>1. PICK k \in T : \A i \in T : k =< i
    BY LeastNatural
  <1>2. k # 0
    OBVIOUS
  <1>3. k - 1 \in Nat /\ k - 1 \notin T
    BY <1>1, <1>2
  <1>4. (k - 1) + 1 \in S
    BY <1>3
  <1> QED
    BY <1>4

\* g is a function defined by recursion up to n.
Approximates(g, n, base, step) ==
    g[0] = base /\ \A k \in 1 .. n : g[k] = step[k][g[k - 1]]

Recursive(f, base, step) == f = [n \in Nat |-> IF n = 0 THEN base ELSE step[n][f[n - 1]]]

\* Recursion: a function on the naturals is defined by its value at 0 and by
\* functions that take each value to the next.
LEMMA Recursion ==
  ASSUME NEW base, NEW step
  PROVE  \E f : Recursive(f, base, step)
  <1> DEFINE S == {n \in Nat : \E g : Approximates(g, n, base, step)}
  <1>1. 0 \in S
    <2>1. Approximates([i \in 0 .. 0 |-> base], 0, base, step)
      BY DEF Approximates
    <2> QED
      BY <2>1
  <1>2. ASSUME NEW n \in Nat, n \in S PROVE n + 1 \in S
    <2>1. PICK g : Approximates(g, n, base, step)
      BY <1>2
    <2> DEFINE h == [i \in 0 .. n + 1 |-> IF i = n + 1 THEN step[n + 1][g[n]] ELSE g[i]]
    <2>2. h[0] = base
      BY <2>1 DEF Approximates
    <2>3. ASSUME NEW i \in 1 .. n + 1 PROVE h[i] = step[i][h[i - 1]]
      <3>1. i - 1 \in 0 .. n /\ i \in 0 .. n + 1 /\ i - 1 \in 0 .. n + 1 /\ i - 1 # n + 1
        OBVIOUS
      <3>2. h[i - 1] = g[i - 1]
        BY <3>1
      <3>3. CASE i = n + 1
        BY <3>1, <3>2, <3>3
      <3>4. CASE i # n + 1
        <4>1. i \in 1 .. n /\ h[i] = g[i]
          BY <3>1, <3>4
        <4> QED
          BY <2>1, <3>2, <4>1 DEF Approximates
      <3> QED
        BY <3>3, <3>4
    <2> HIDE DEF h
    <2>4. Approximates(h, n + 1, base, step)
      BY <2>2, <2>3 DEF Approximates
    <2> QED
      BY <2>4
  <1>3. \A n \in Nat : n \in S
    <2> HIDE DEF S
    <2> QED
      BY <1>1, <1>2, Induction
  <1> DEFINE G(n) == CHOOSE g : Approximates(g, n, base, step)
             f == [n \in Nat |-> G(n)[n]]
  <1>4. ASSUME NEW n \in Nat PROVE Approximates(G(n), n, base, step)
    BY <1>3
  <1> HIDE DEF G
  <1>5. ASSUME NEW n \in Nat, NEW p \in Nat, n =< p
        PROVE  \A k \in Nat : k =< n => G(n)[k] = G(p)[k]
    <2> DEFINE T == {k \in Nat : k =< n => G(n)[k] = G(p)[k]}
    <2>1. 0 \in T
      BY <1>4 DEF Approximates
    <2>2. ASSUME NEW k \in Nat, k \in T PROVE k + 1 \in T
      <3>1. SUFFICES ASSUME k + 1 =< n PROVE G(n)[k + 1] = G(p)[k + 1]
        OBVIOUS
      <3>2. k + 1 \in 1 .. n /\ k + 1 \in 1 .. p /\ (k + 1) - 1 = k /\ k =< n
        BY <1>5, <3>1
      <3>3. G(n)[k + 1] = step[k + 1][G(n)[k]]
        BY <1>4, <3>2 DEF Approximates
      <3>4. G(p)[k + 1] = step[k + 1][G(p)[k]]
        BY <1>4, <3>2 DEF Approximates
      <3> QED
        BY <2>2, <3>2, <3>3, <3>4
    <2>3. \A k \in Nat : k \in T
      <3> HIDE DEF T
      <3> QED
        BY <2>1, <2>2, Induction
    <2> QED
      BY <2>3
  <1>6. ASSUME NEW n \in Nat PROVE f[n] = IF n = 0 THEN base ELSE step[n][f[n - 1]]
    <2>1. CASE n = 0
      BY <1>4, <2>1 DEF Approximates
    <2>2. CASE n # 0
      <3>1. n - 1 \in Nat /\ n \in 1 .. n /\ n - 1 =< n
        BY <2>2
      <3>2. G(n)[n] = step[n][G(n)[n - 1]]
        BY <1>4, <3>1 DEF Approximates
      <3>3. G(n - 1)[n - 1] = G(n)[n - 1]
        BY <1>5, <3>1
      <3>4. f[n] = G(n)[n] /\ f[n - 1] = G(n - 1)[n - 1]
        BY <3>1
      <3> QED
        BY <2>2, <3>2, <3>3, <3>4
    <2> QED
      BY <2>1, <2>2
  <1>7. f = [n \in Nat |-> IF n = 0 THEN base ELSE step[n][f[n - 1]]]
    BY <1>6
  <1> HIDE DEF f
  <1> QED
    BY <1>7 DEF Recursive
=============================================================================
