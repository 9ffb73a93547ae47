---------------------------- MODULE Data_proofs ----------------------------
(***************************************************************************)
(* Lemmas that several proofs need: about numbers and folds, about the      *)
(* heap of the k nearest, and about the tables of the catalog.              *)
(***************************************************************************)
EXTENDS CatalogTables, TopK, SequenceTheorems, FiniteSetTheorems, WellFoundedInduction, TLAPS

\* A set of numbers has a least one: what replaces induction on a number.
LEMMA Least ==
    ASSUME NEW T \in SUBSET Nat, T # {}
    PROVE  \E m \in T : \A t \in T : m <= t
<1> DEFINE R == OpToRel(<, Nat)
<1>1. IsWellFoundedOn(R, Nat)
  BY NatLessThanWellFounded
<1>2. PICK m \in T : \A t \in T : ~(<<t, m>> \in R)
  <2> HIDE DEF R
  <2> QED BY <1>1, WFMin
<1>3. m \in Nat /\ \A t \in T : t \in Nat /\ ~(t < m)
  BY <1>2 DEF OpToRel
<1> HIDE DEF R
<1> QED BY <1>3

-----------------------------------------------------------------------------
(* Heaps.                                                                  *)

Distinct(h) == \A m, n \in DOMAIN h : m # n => h[m] # h[n]
Weighed(h) == \A n \in DOMAIN h : h[n].dist \in Int

\* No child from position i on is farther than its parent.
HeapFrom(h, i) ==
    \A j \in 1..Len(h) : j \div 2 \in i..Len(h) => h[j].dist <= h[j \div 2].dist

\* A way down from each position, one step N at a time until E: what is on it.
Way(L, E, N) ==
    [j \in 1..L |-> {m \in 1..L :
        \A C \in SUBSET (1..L) :
            j \in C /\ (\A c \in C \ E : N[c] \in C) => m \in C}]

\* The equation by which SiftDown finds its path: the way has a solution.
Follows(p, L, E, N) ==
    \A j \in 1..L : p[j] = IF j \in E THEN {j} ELSE {j} \cup p[N[j]]

LEMMA WayExists ==
    ASSUME NEW L \in Nat, NEW E, NEW N, \A j \in (1..L) \ E : N[j] \in 1..L
    PROVE  Follows(Way(L, E, N), L, E, N)
<1> DEFINE P == Way(L, E, N)
           Closed(C) == \A c \in C \ E : N[c] \in C
<1>1. \A j, m \in 1..L : m \in P[j] <=> \A C \in SUBSET (1..L) : j \in C /\ Closed(C) => m \in C
  BY DEF Way
<1>2. \A j \in 1..L : P[j] \in SUBSET (1..L)
  BY DEF Way
<1> HIDE DEF P
<1>3. \A j \in 1..L : j \in P[j]
  BY <1>1
<1>4. \A j \in 1..L : Closed(P[j])
  <2> SUFFICES ASSUME NEW j \in 1..L, NEW c \in P[j] \ E PROVE N[c] \in P[j]
    OBVIOUS
  <2>1. c \in 1..L /\ N[c] \in 1..L
    BY <1>2
  <2> QED BY <1>1, <2>1
<1> SUFFICES ASSUME NEW j \in 1..L
             PROVE  P[j] = IF j \in E THEN {j} ELSE {j} \cup P[N[j]]
  BY DEF P, Follows
<1>5. CASE j \in E
  <2>1. {j} \in SUBSET (1..L) /\ Closed({j})
    BY <1>5
  <2>2. \A m \in P[j] : m \in {j}
    BY <1>1, <1>2, <2>1
  <2> QED BY <1>3, <1>5, <2>2
<1>6. CASE j \notin E
  <2> DEFINE n == N[j]
             D == {j} \cup P[n]
  <2>1. n \in 1..L
    BY <1>6
  <2>2. n \in P[j]
    BY <1>3, <1>4, <1>6
  <2>3. \A m \in P[n] : m \in P[j]
    <3> SUFFICES ASSUME NEW m \in P[n] PROVE m \in P[j]
      OBVIOUS
    <3>1. m \in 1..L
      BY <1>2, <2>1
    <3>2. \A C \in SUBSET (1..L) : n \in C /\ Closed(C) => m \in C
      BY <1>1, <2>1, <3>1
    <3>3. P[j] \in SUBSET (1..L) /\ Closed(P[j])
      BY <1>2, <1>4
    <3> QED BY <2>2, <3>2, <3>3
  <2>4. D \in SUBSET (1..L) /\ j \in D
    BY <1>2, <2>1
  <2>5. Closed(D)
    <3>1. Closed(P[n]) /\ n \in P[n]
      BY <1>3, <1>4, <2>1
    <3> QED BY <3>1
  <2>6. \A m \in P[j] : m \in D
    <3> HIDE DEF D
    <3> QED BY <1>1, <1>2, <2>4, <2>5
  <2> QED BY <1>3, <1>6, <2>3, <2>6
<1> QED BY <1>5, <1>6

\* A way goes from its first position to one where it ends, and nowhere else.
IsWay(p, i, L, E, N) ==
    /\ i \in p /\ p \subseteq i..L
    /\ \A m \in p \ E : N[m] \in p
    /\ \A m \in p \ {i} : \E a \in p \ E : m = N[a]
    /\ \E e \in p \cap E : \A m \in p \cap E : m = e

LEMMA WayEnds ==
    ASSUME NEW L \in Nat, NEW E, NEW N, \A j \in (1..L) \ E : N[j] \in (j + 1)..L,
           NEW p, Follows(p, L, E, N),
           NEW i \in 1..L
    PROVE  IsWay(p[i], i, L, E, N)
<1> DEFINE T == {n \in Nat : n \in 0..(L - 1) /\ ~IsWay(p[L - n], L - n, L, E, N)}
<1>1. T \in SUBSET Nat
  OBVIOUS
<1>2. ASSUME T # {} PROVE FALSE
  <2>1. PICK n \in T : \A t \in T : n <= t
    <3> HIDE DEF T
    <3> QED BY <1>1, <1>2, Least
  <2> DEFINE j == L - n
  <2>2. j \in 1..L /\ ~IsWay(p[j], j, L, E, N) /\ n \in Nat /\ n = L - j
    BY <2>1
  <2>3. \A k \in (j + 1)..L : IsWay(p[k], k, L, E, N)
    <3> SUFFICES ASSUME NEW k \in (j + 1)..L, ~IsWay(p[k], k, L, E, N) PROVE FALSE
      OBVIOUS
    <3>1. L - k \in Nat /\ L - k \in 0..(L - 1) /\ L - (L - k) = k /\ ~(n <= L - k)
      BY <2>2
    <3>2. L - k \in T
      BY <3>1
    <3> HIDE DEF T
    <3> QED BY <2>1, <3>1, <3>2
  <2> HIDE DEF j, T
  <2>4. CASE j \in E
    <3>1. p[j] = {j}
      BY <2>2, <2>4 DEF Follows
    <3> QED BY <2>2, <2>4, <3>1 DEF IsWay
  <2>5. CASE j \notin E
    <3>1. PICK c \in (j + 1)..L : c = N[j]
      BY <2>2, <2>5
    <3>2. p[j] = {j} \cup p[c]
      BY <2>2, <2>5, <3>1 DEF Follows
    <3>3. IsWay(p[c], c, L, E, N)
      BY <2>3
    <3>4. j \in p[j] /\ p[j] \subseteq j..L
      BY <2>2, <3>1, <3>2, <3>3 DEF IsWay
    <3>5. \A m \in p[j] \ E : N[m] \in p[j]
      BY <3>1, <3>2, <3>3 DEF IsWay
    <3>6. \A m \in p[j] \ {j} : \E a \in p[j] \ E : m = N[a]
      BY <2>5, <3>1, <3>2, <3>3 DEF IsWay
    <3>7. \E e \in p[j] \cap E : \A m \in p[j] \cap E : m = e
      BY <2>5, <3>2, <3>3 DEF IsWay
    <3> QED BY <2>2, <3>4, <3>5, <3>6, <3>7 DEF IsWay
  <2> QED BY <2>4, <2>5
<1>3. L - i \in Nat /\ L - i \in 0..(L - 1) /\ L - (L - i) = i
  OBVIOUS
<1>4. ~IsWay(p[i], i, L, E, N) => L - i \in T
  BY <1>3
<1> QED BY <1>2, <1>4

LEMMA Children ==
    ASSUME NEW h, NEW L \in Nat, Len(h) = L, DOMAIN h = 1..L, Weighed(h),
           NEW j \in 1..L, 2 * j <= L
    PROVE  /\ FarChild(h, j) \in (j + 1)..L /\ FarChild(h, j) \div 2 = j
           /\ \A m \in 1..L : m \div 2 = j => h[m].dist <= h[FarChild(h, j)].dist
<1>1. \A m \in 1..L : m \div 2 = j => m = 2 * j \/ m = 2 * j + 1
  OBVIOUS
<1>2. (2 * j) \div 2 = j /\ (2 * j + 1) \div 2 = j
  OBVIOUS
<1>3. 2 * j \in 1..L /\ h[2 * j].dist \in Int
  BY DEF Weighed
<1>4. CASE 2 * j < L
  <2>1. 2 * j + 1 \in 1..L /\ h[2 * j + 1].dist \in Int
    BY <1>4 DEF Weighed
  <2> QED BY <1>1, <1>2, <1>3, <1>4, <2>1 DEF FarChild
<1>5. CASE ~(2 * j < L)
  <2>1. \A m \in 1..L : m \div 2 = j => m = 2 * j
    BY <1>1, <1>5
  <2>2. FarChild(h, j) = 2 * j
    BY <1>5 DEF FarChild
  <2>3. \A m \in 1..L : m \div 2 = j => h[m].dist <= h[2 * j].dist
    BY <1>3, <2>1
  <2> QED BY <1>2, <1>3, <2>2, <2>3
<1> QED BY <1>4, <1>5

\* What SiftDown makes of h: along the way of the item at i, the farther
\* children move up, and the item takes the place where the way ends.
Sifted(r, h, i, p, E) ==
    /\ Len(r) = Len(h) /\ DOMAIN r = DOMAIN h
    /\ IsWay(p, i, Len(h), E, [j \in 1..Len(h) |-> FarChild(h, j)])
    /\ E = {j \in 1..Len(h) : Settles(h, h[i], j)}
    /\ \A j \in 1..Len(h) :
          /\ j \notin p => r[j] = h[j]
          /\ j \in p \cap E => r[j] = h[i]
          /\ j \in p \ E => r[j] = h[FarChild(h, j)]

LEMMA SiftDownSifts ==
    ASSUME NEW h, NEW L \in Nat, Len(h) = L, DOMAIN h = 1..L, Weighed(h), NEW i \in 1..L
    PROVE  \E p, E : Sifted(SiftDown(h, i), h, i, p, E)
<1> DEFINE E == {j \in 1..L : Settles(h, h[i], j)}
           N == [j \in 1..L |-> FarChild(h, j)]
           Step(g) == [j \in 1..L |-> IF Settles(h, h[i], j) THEN {j}
                                      ELSE {j} \cup g[FarChild(h, j)]]
           path == CHOOSE g : g = Step(g)
           r == [j \in 1..L |->
                    CASE j \notin path[i] -> h[j]
                      [] j \in path[i] /\ Settles(h, h[i], j) -> h[i]
                      [] OTHER -> h[FarChild(h, j)]]
<1>1. SiftDown(h, i) = r
  BY DEF SiftDown
<1>2. \A j \in (1..L) \ E : N[j] = FarChild(h, j) /\ N[j] \in (j + 1)..L
  <2> SUFFICES ASSUME NEW j \in 1..L, ~Settles(h, h[i], j)
               PROVE  FarChild(h, j) \in (j + 1)..L
    OBVIOUS
  <2>1. 2 * j <= L
    BY DEF Settles
  <2> QED BY <2>1, Children
<1>3. path = Step(path)
  <2> DEFINE P == Way(L, E, N)
  <2>1. Follows(P, L, E, N)
    <3> HIDE DEF E, N
    <3>1. \A j \in (1..L) \ E : N[j] \in 1..L
      BY <1>2
    <3> QED BY <3>1, WayExists
  <2>2. DOMAIN P = 1..L /\ P = [j \in 1..L |-> P[j]]
    BY DEF Way
  <2> HIDE DEF P
  <2>3. P = Step(P)
    BY <1>2, <2>1, <2>2 DEF Follows
  <2> QED BY <2>3
<1> HIDE DEF path
<1>4. Follows(path, L, E, N)
  BY <1>2, <1>3 DEF Follows
<1>5. IsWay(path[i], i, L, E, N)
  <2> HIDE DEF E, N
  <2> QED BY <1>2, <1>4, WayEnds
<1>6. DOMAIN r = 1..L /\ Len(r) = L
  OBVIOUS
<1>7. ASSUME NEW j \in 1..L
      PROVE  /\ j \notin path[i] => r[j] = h[j]
             /\ j \in path[i] \cap E => r[j] = h[i]
             /\ j \in path[i] \ E => r[j] = h[FarChild(h, j)]
  <2>1. r[j] = CASE j \notin path[i] -> h[j]
                 [] j \in path[i] /\ Settles(h, h[i], j) -> h[i]
                 [] OTHER -> h[FarChild(h, j)]
    BY Zenon
  <2>2. j \in E <=> Settles(h, h[i], j)
    OBVIOUS
  <2> HIDE DEF r, E
  <2> QED BY <2>1, <2>2, Zenon
<1>8. Sifted(r, h, i, path[i], E)
  <2> HIDE DEF r
  <2> QED BY <1>5, <1>6, <1>7 DEF Sifted
<1> HIDE DEF r, E
<1> QED BY <1>1, <1>8

\* It is a rearrangement ...
LEMMA SiftedRearranges ==
    ASSUME NEW h, NEW L \in Nat, Len(h) = L, DOMAIN h = 1..L, Weighed(h),
           NEW i \in 1..L, NEW r, NEW p, NEW E, Sifted(r, h, i, p, E)
    PROVE  Range(r) = Range(h) /\ (Distinct(h) => Distinct(r))
<1> DEFINE N == [j \in 1..L |-> FarChild(h, j)]
           from(j) == IF j \notin p THEN j ELSE IF j \in E THEN i ELSE N[j]
<1>1. IsWay(p, i, L, E, N) /\ DOMAIN r = 1..L
  BY DEF Sifted
<1>2. p \subseteq i..L /\ p \subseteq 1..L /\ i \in p
  BY <1>1 DEF IsWay
<1>3. \A j \in p \ E : N[j] \in p /\ N[j] \in (j + 1)..L /\ N[j] \div 2 = j
  <2> SUFFICES ASSUME NEW j \in p \ E
               PROVE  N[j] \in p /\ FarChild(h, j) \in (j + 1)..L /\ FarChild(h, j) \div 2 = j
    BY <1>2
  <2>1. 2 * j <= L
    BY <1>2 DEF Sifted, Settles
  <2>2. N[j] \in p
    <3> HIDE DEF N
    <3> QED BY <1>1 DEF IsWay
  <2> QED BY <1>2, <2>1, <2>2, Children
<1>4. \A j \in p \ E : N[j] # i
  <2> SUFFICES ASSUME NEW j \in p \ E PROVE N[j] # i
    OBVIOUS
  <2>1. j \in i..L /\ N[j] \in (j + 1)..L
    BY <1>2, <1>3
  <2> HIDE DEF N
  <2> QED BY <2>1
<1>5. \A m, n \in p \cap E : m = n
  BY <1>1 DEF IsWay
<1>6. \A j \in 1..L : from(j) \in 1..L /\ r[j] = h[from(j)]
  BY <1>2, <1>3 DEF Sifted
<1> HIDE DEF N
<1>7. \A m, n \in 1..L : from(m) = from(n) => m = n
  <2> SUFFICES ASSUME NEW m \in 1..L, NEW n \in 1..L, from(m) = from(n) PROVE m = n
    OBVIOUS
  <2>1. CASE m \notin p
    BY <1>2, <1>3, <2>1
  <2>2. CASE m \in p \cap E
    BY <1>2, <1>3, <1>4, <1>5, <2>2
  <2>3. CASE m \in p \ E
    <3>1. from(m) = N[m] /\ N[m] \in p /\ N[m] # i /\ N[m] \div 2 = m
      BY <1>3, <1>4, <2>3
    <3>2. n \in p \ E
      BY <3>1
    <3>3. from(n) = N[n] /\ N[n] \div 2 = n
      BY <1>3, <3>2
    <3> QED BY <3>1, <3>3
  <2> QED BY <2>1, <2>2, <2>3
<1>8. \A k \in 1..L : \E j \in 1..L : from(j) = k
  <2> SUFFICES ASSUME NEW k \in 1..L PROVE \E j \in 1..L : from(j) = k
    OBVIOUS
  <2>1. CASE k \notin p
    BY <2>1
  <2>2. CASE k = i
    <3>1. PICK e \in p \cap E : TRUE
      BY <1>1 DEF IsWay
    <3> QED BY <1>2, <2>2, <3>1
  <2>3. CASE k \in p \ {i}
    <3>1. PICK a \in p \ E : k = N[a]
      BY <1>1, <2>3 DEF IsWay
    <3> QED BY <1>2, <3>1
  <2> QED BY <2>1, <2>2, <2>3
<1> HIDE DEF from
<1>9. Range(r) = Range(h)
  <2>1. ASSUME NEW x \in Range(r) PROVE x \in Range(h)
    <3>1. PICK j \in 1..L : x = r[j]
      BY <1>1 DEF Range
    <3> QED BY <1>6, <3>1 DEF Range
  <2>2. ASSUME NEW x \in Range(h) PROVE x \in Range(r)
    <3>1. PICK k \in 1..L : x = h[k]
      BY DEF Range
    <3>2. PICK j \in 1..L : from(j) = k
      BY <1>8
    <3> QED BY <1>1, <1>6, <3>1, <3>2 DEF Range
  <2> QED BY <2>1, <2>2
<1>10. Distinct(h) => Distinct(r)
  BY <1>1, <1>6, <1>7 DEF Distinct
<1> QED BY <1>9, <1>10

\* ... which makes a heap from i on of one behind i.
LEMMA SiftedIsHeap ==
    ASSUME NEW h, NEW L \in Nat, Len(h) = L, DOMAIN h = 1..L, Weighed(h),
           NEW i \in 1..L, HeapFrom(h, i + 1), NEW r, NEW p, NEW E, Sifted(r, h, i, p, E)
    PROVE  HeapFrom(r, i)
<1> DEFINE N == [j \in 1..L |-> FarChild(h, j)]
<1>1. IsWay(p, i, L, E, N) /\ DOMAIN r = 1..L /\ Len(r) = L
  BY DEF Sifted
<1>2. p \subseteq i..L /\ p \subseteq 1..L /\ i \in p
  BY <1>1 DEF IsWay
<1>3. \A j \in 1..L : j \in p \ E =>
         /\ N[j] = FarChild(h, j) /\ N[j] \in p
         /\ N[j] \in (j + 1)..L /\ N[j] \div 2 = j
         /\ h[i].dist <= h[N[j]].dist
         /\ \A m \in 1..L : m \div 2 = j => h[m].dist <= h[N[j]].dist
  <2> SUFFICES ASSUME NEW j \in 1..L, j \in p \ E
               PROVE  /\ N[j] \in p /\ FarChild(h, j) \in (j + 1)..L /\ FarChild(h, j) \div 2 = j
                      /\ h[i].dist <= h[FarChild(h, j)].dist
                      /\ \A m \in 1..L : m \div 2 = j => h[m].dist <= h[FarChild(h, j)].dist
    BY <1>2
  <2>1. 2 * j <= L /\ ~(h[FarChild(h, j)].dist <= h[i].dist)
    BY <1>2 DEF Sifted, Settles
  <2>2. FarChild(h, j) \in (j + 1)..L /\ FarChild(h, j) \div 2 = j
        /\ \A m \in 1..L : m \div 2 = j => h[m].dist <= h[FarChild(h, j)].dist
    BY <1>2, <2>1, Children
  <2>3. h[FarChild(h, j)].dist \in Int /\ h[i].dist \in Int
    BY <1>2, <2>2 DEF Weighed
  <2>4. N[j] \in p
    <3> HIDE DEF N
    <3> QED BY <1>1 DEF IsWay
  <2> QED BY <2>1, <2>2, <2>3, <2>4
<1>4. \A j \in 1..L : j \in p \cap E => \A m \in 1..L : m \div 2 = j => h[m].dist <= h[i].dist
  <2> SUFFICES ASSUME NEW j \in 1..L, j \in p \cap E, NEW m \in 1..L, m \div 2 = j
               PROVE  h[m].dist <= h[i].dist
    OBVIOUS
  <2>1. 2 * j <= L
    BY <1>2
  <2>2. h[FarChild(h, j)].dist <= h[i].dist
    BY <1>2, <2>1 DEF Sifted, Settles
  <2>3. FarChild(h, j) \in 1..L /\ h[m].dist <= h[FarChild(h, j)].dist
    <3>1. j \in 1..L
      BY <1>2
    <3>2. /\ FarChild(h, j) \in (j + 1)..L
          /\ \A k \in 1..L : k \div 2 = j => h[k].dist <= h[FarChild(h, j)].dist
      BY <2>1, <3>1, Children
    <3> QED BY <3>1, <3>2
  <2>4. h[m].dist \in Int /\ h[FarChild(h, j)].dist \in Int /\ h[i].dist \in Int
    BY <2>3 DEF Weighed
  <2> QED BY <2>2, <2>3, <2>4
<1>5. \A m \in 1..L : m \in p \ {i} => m \div 2 \in p \ E /\ m = N[m \div 2]
  <2> SUFFICES ASSUME NEW m \in 1..L, m \in p \ {i}
               PROVE  m \div 2 \in p \ E /\ m = N[m \div 2]
    OBVIOUS
  <2>1. PICK a \in p \ E : m = N[a]
    <3> HIDE DEF N
    <3> QED BY <1>1 DEF IsWay
  <2>2. a \in 1..L /\ N[a] \div 2 = a
    BY <1>2, <1>3, <2>1
  <2> HIDE DEF N
  <2> QED BY <2>1, <2>2
<1>6. \A j \in 1..L : /\ j \notin p => r[j] = h[j]
                      /\ j \in p \cap E => r[j] = h[i]
                      /\ j \in p \ E => r[j] = h[N[j]]
  BY DEF Sifted
<1> HIDE DEF N
<1> SUFFICES ASSUME NEW j \in 1..L, NEW a \in i..L, a = j \div 2
             PROVE  r[j].dist <= r[a].dist
  BY <1>1 DEF HeapFrom
<1>7. a \in 1..L /\ a < j
  OBVIOUS
<1>8. a > i => h[j].dist <= h[a].dist
  BY DEF HeapFrom
<1>9. CASE a \notin p
  <2>1. j \notin p
    BY <1>5, <1>7, <1>9
  <2> QED BY <1>2, <1>6, <1>7, <1>8, <1>9, <2>1
<1>10. CASE a \in p \cap E
  <2>1. j \notin p
    BY <1>5, <1>7, <1>10
  <2> QED BY <1>4, <1>6, <1>7, <1>10, <2>1
<1>11. CASE a \in p \ E
  <2>1. r[a] = h[N[a]] /\ N[a] \in (a + 1)..L
    BY <1>3, <1>6, <1>7, <1>11
  <2>2. CASE j \notin p
    BY <1>3, <1>6, <1>11, <2>1, <2>2
  <2>3. CASE j \in p
    <3>1. j = N[a]
      BY <1>5, <1>7, <2>3
    <3>2. CASE j \in E
      BY <1>3, <1>6, <1>11, <2>1, <2>3, <3>1, <3>2
    <3>3. CASE j \notin E
      <4>1. r[j] = h[N[j]] /\ N[j] \in 1..L /\ N[j] \div 2 = j /\ j \in (i + 1)..L
        BY <1>3, <1>6, <1>7, <2>3, <3>3
      <4>2. h[N[j]].dist <= h[j].dist
        BY <4>1 DEF HeapFrom
      <4> QED BY <2>1, <3>1, <4>1, <4>2
    <3> QED BY <3>2, <3>3
  <2> QED BY <2>2, <2>3
<1> QED BY <1>9, <1>10, <1>11

\* The first item of a heap is a farthest one.
LEMMA FarthestFirst ==
    ASSUME NEW h, NEW L \in Nat \ {0}, Len(h) = L, DOMAIN h = 1..L, Weighed(h), HeapFrom(h, 1)
    PROVE  \A j \in 1..L : h[j].dist <= h[1].dist
<1> DEFINE T == {j \in Nat : j \in 1..L /\ ~(h[j].dist <= h[1].dist)}
<1>1. ASSUME T # {} PROVE FALSE
  <2>1. PICK j \in T : \A t \in T : j <= t
    <3>1. T \in SUBSET Nat
      OBVIOUS
    <3> HIDE DEF T
    <3> QED BY <1>1, <3>1, Least
  <2>2. j \in 1..L /\ ~(h[j].dist <= h[1].dist) /\ h[1].dist \in Int /\ h[j].dist \in Int
    BY <2>1 DEF Weighed
  <2>3. j # 1
    BY <2>2
  <2>4. PICK a \in 1..L : a = j \div 2 /\ a < j /\ ~(j <= a)
    BY <2>2, <2>3
  <2>5. h[a].dist <= h[1].dist
    BY <2>1, <2>4
  <2>6. h[j].dist <= h[a].dist /\ h[a].dist \in Int
    BY <2>2, <2>4 DEF HeapFrom, Weighed
  <2> QED BY <2>2, <2>5, <2>6
<1> QED BY <1>1

-----------------------------------------------------------------------------
(* Folds: what FoldLeft and recursion up to a number compute, one step at   *)
(* a time.                                                                  *)

LEMMA LastIs ==
    ASSUME NEW n \in Nat, NEW s \in SUBSET (1..(n + 1)), n + 1 \in s
    PROVE  Max(s) = n + 1 /\ s \ {n + 1} \in SUBSET (1..n)
<1> DEFINE x == n + 1
<1>1. x \in s /\ \A y \in s : x >= y
  OBVIOUS
<1>2. \A z \in s : (\A y \in s : z >= y) => z = x
  OBVIOUS
<1>3. s \ {x} \in SUBSET (1..n)
  OBVIOUS
<1> HIDE DEF x
<1>4. Max(s) = x
  BY <1>1, <1>2 DEF Max
<1> QED BY <1>3, <1>4 DEF x

LEMMA LargestIs ==
    ASSUME NEW N \in Nat, NEW s \in SUBSET (1..N), s # {}
    PROVE  Max(s) \in s
<1> DEFINE T == {n \in Nat : N - n \in s}
<1>1. T # {} /\ T \in SUBSET Nat
  <2>1. PICK x \in s : TRUE
    OBVIOUS
  <2>2. x \in 1..N
    BY <2>1
  <2>3. N - x \in Nat /\ N - (N - x) = x
    BY <2>2
  <2> QED BY <2>1, <2>3
<1>2. PICK m \in T : \A t \in T : m <= t
  <2> HIDE DEF T
  <2> QED BY <1>1, Least
<1>3. ASSUME NEW y \in s PROVE N - m >= y
  <2>1. y \in 1..N /\ m \in Nat
    OBVIOUS
  <2>2. N - y \in Nat /\ N - (N - y) = y
    BY <2>1
  <2>3. m <= N - y
    BY <1>2, <2>2
  <2> QED BY <2>1, <2>3
<1>4. N - m \in s
  OBVIOUS
<1> HIDE DEF T
<1> QED BY <1>3, <1>4 DEF Max

\* A fold over the positions up to N: G takes what there is and a position.
Folds(g, a, G, N) ==
    \A s \in SUBSET (1..N) :
        g[s] = IF s = {} THEN a ELSE G[<<g[s \ {Max(s)}], Max(s)>>]

LEMMA FoldExists ==
    ASSUME NEW N \in Nat, NEW A, NEW a \in A, NEW G \in [A \X (1..N) -> A]
    PROVE  \E g \in [SUBSET (1..N) -> A] : Folds(g, a, G, N)
<1> DEFINE Has(n) == \E g \in [SUBSET (1..n) -> A] : Folds(g, a, G, n)
           T == {n \in Nat : n <= N /\ ~Has(n)}
<1>1. ASSUME NEW n \in Nat, n < N, Has(n) PROVE Has(n + 1)
  <2>1. PICK g \in [SUBSET (1..n) -> A] : Folds(g, a, G, n)
    BY <1>1
  <2> DEFINE f == [s \in SUBSET (1..(n + 1)) |->
                      IF n + 1 \in s THEN G[<<g[s \ {n + 1}], n + 1>>] ELSE g[s]]
  <2>2. ASSUME NEW s \in SUBSET (1..(n + 1)), n + 1 \notin s
        PROVE  s \in SUBSET (1..n) /\ f[s] = g[s]
    BY <2>2
  <2>3. ASSUME NEW s \in SUBSET (1..(n + 1)), n + 1 \in s
        PROVE  /\ Max(s) = n + 1 /\ s \ {n + 1} \in SUBSET (1..n)
               /\ f[s] = G[<<g[s \ {n + 1}], n + 1>>]
    BY <2>3, LastIs
  <2>4. n + 1 \in 1..N
    BY <1>1
  <2>5. \A s \in SUBSET (1..(n + 1)) : f[s] \in A
    BY <2>2, <2>3, <2>4
  <2>6. f \in [SUBSET (1..(n + 1)) -> A]
    BY <2>5
  <2> HIDE DEF f
  <2>7. ASSUME NEW s \in SUBSET (1..(n + 1))
        PROVE  f[s] = IF s = {} THEN a ELSE G[<<f[s \ {Max(s)}], Max(s)>>]
    <3>1. CASE n + 1 \in s
      <4>1. Max(s) = n + 1 /\ s \ {n + 1} \in SUBSET (1..n)
            /\ f[s] = G[<<g[s \ {n + 1}], n + 1>>]
        BY <2>3, <3>1
      <4>2. f[s \ {n + 1}] = g[s \ {n + 1}]
        BY <2>2, <4>1
      <4> QED BY <3>1, <4>1, <4>2
    <3>2. CASE n + 1 \notin s
      <4>1. s \in SUBSET (1..n) /\ f[s] = g[s]
        BY <2>2, <3>2
      <4>2. s \ {Max(s)} \in SUBSET (1..(n + 1)) /\ n + 1 \notin s \ {Max(s)}
        BY <3>2
      <4>3. f[s \ {Max(s)}] = g[s \ {Max(s)}]
        BY <2>2, <4>2
      <4>4. g[s] = IF s = {} THEN a ELSE G[<<g[s \ {Max(s)}], Max(s)>>]
        BY <2>1, <4>1 DEF Folds
      <4> QED BY <4>1, <4>3, <4>4
    <3> QED BY <3>1, <3>2
  <2>8. Folds(f, a, G, n + 1)
    BY <2>7 DEF Folds
  <2> QED BY <2>6, <2>8
<1>2. Has(0)
  <2> DEFINE g == [s \in SUBSET (1..0) |-> a]
  <2>1. \A s \in SUBSET (1..0) : s = {}
    OBVIOUS
  <2>2. g \in [SUBSET (1..0) -> A] /\ Folds(g, a, G, 0)
    BY <2>1 DEF Folds
  <2> QED BY <2>2
<1>3. T \in SUBSET Nat /\ (N \in T <=> ~Has(N))
  <2> HIDE DEF Has
  <2> QED OBVIOUS
<1>4. ASSUME T # {} PROVE FALSE
  <2>1. PICK n \in T : \A t \in T : n <= t
    <3> HIDE DEF T
    <3> QED BY <1>3, <1>4, Least
  <2>2. n \in Nat /\ n <= N /\ ~Has(n)
    BY <2>1
  <2>3. n # 0
    <3> HIDE DEF Has, T
    <3> QED BY <1>2, <2>2
  <2>4. PICK m \in Nat : n = m + 1 /\ m < N
    <3>1. n - 1 \in Nat /\ n = (n - 1) + 1 /\ n - 1 < N
      BY <2>2, <2>3
    <3> QED BY <3>1
  <2>5. m \notin T
    <3>1. ~(n <= m)
      BY <2>4
    <3> HIDE DEF T
    <3> QED BY <2>1, <3>1
  <2>6. Has(m)
    <3> HIDE DEF Has
    <3> QED BY <2>4, <2>5
  <2> HIDE DEF Has, T
  <2> QED BY <1>1, <2>2, <2>4, <2>6
<1> HIDE DEF T
<1> QED BY <1>3, <1>4

\* Steps from a, in which G takes what there is and the number of the step.
StepsBy(g, a, G, N) == g[0] = a /\ \A n \in 1..N : g[n] = G[<<g[n - 1], n>>]

LEMMA StepsExist ==
    ASSUME NEW N \in Nat, NEW A, NEW a \in A, NEW G \in [A \X (1..N) -> A]
    PROVE  \E g \in [0..N -> A] : StepsBy(g, a, G, N)
<1> DEFINE Has(n) == \E g \in [0..n -> A] : StepsBy(g, a, G, n)
           T == {n \in Nat : n <= N /\ ~Has(n)}
<1>1. ASSUME NEW n \in Nat, n < N, Has(n) PROVE Has(n + 1)
  <2>1. PICK g \in [0..n -> A] : StepsBy(g, a, G, n)
    BY <1>1
  <2> DEFINE f == [m \in 0..(n + 1) |-> IF m = n + 1 THEN G[<<g[n], n + 1>>] ELSE g[m]]
  <2>2. n + 1 \in 1..N /\ n \in 0..n
    BY <1>1
  <2>3. f \in [0..(n + 1) -> A]
    <3>1. G[<<g[n], n + 1>>] \in A
      BY <2>2
    <3> QED BY <3>1
  <2>4. f[n + 1] = G[<<g[n], n + 1>>] /\ \A m \in 0..n : f[m] = g[m]
    OBVIOUS
  <2> HIDE DEF f
  <2>5. f[0] = a
    BY <2>1, <2>4 DEF StepsBy
  <2>6. ASSUME NEW m \in 1..(n + 1) PROVE f[m] = G[<<f[m - 1], m>>]
    <3>1. CASE m = n + 1
      <4>1. m - 1 = n /\ f[n] = g[n]
        BY <2>4, <3>1
      <4> QED BY <2>4, <3>1, <4>1
    <3>2. CASE m # n + 1
      <4>1. m \in 1..n /\ m - 1 \in 0..n /\ m \in 0..n
        BY <3>2
      <4> QED BY <2>1, <2>4, <4>1 DEF StepsBy
    <3> QED BY <3>1, <3>2
  <2>7. StepsBy(f, a, G, n + 1)
    BY <2>5, <2>6 DEF StepsBy
  <2> QED BY <2>3, <2>7
<1>2. Has(0)
  <2>1. [n \in 0..0 |-> a] \in [0..0 -> A] /\ StepsBy([n \in 0..0 |-> a], a, G, 0)
    BY DEF StepsBy
  <2> QED BY <2>1
<1>3. T \in SUBSET Nat /\ (N \in T <=> ~Has(N))
  <2> HIDE DEF Has
  <2> QED OBVIOUS
<1>4. ASSUME T # {} PROVE FALSE
  <2>1. PICK n \in T : \A t \in T : n <= t
    <3> HIDE DEF T
    <3> QED BY <1>3, <1>4, Least
  <2>2. n \in Nat /\ n <= N /\ ~Has(n)
    BY <2>1
  <2>3. n # 0
    <3> HIDE DEF Has, T
    <3> QED BY <1>2, <2>2
  <2>4. PICK m \in Nat : n = m + 1 /\ m < N
    <3>1. n - 1 \in Nat /\ n = (n - 1) + 1 /\ n - 1 < N
      BY <2>2, <2>3
    <3> QED BY <3>1
  <2>5. m \notin T
    <3>1. ~(n <= m)
      BY <2>4
    <3> HIDE DEF T
    <3> QED BY <2>1, <3>1
  <2>6. Has(m)
    <3> HIDE DEF Has
    <3> QED BY <2>4, <2>5
  <2> HIDE DEF Has, T
  <2> QED BY <1>1, <2>2, <2>4, <2>6
<1> HIDE DEF T
<1> QED BY <1>3, <1>4

LEMMA FirstOnes ==
    ASSUME NEW n \in Nat \ {0}
    PROVE  Max(1..n) = n /\ (1..n) \ {n} = 1..(n - 1) /\ 1..n # {} /\ 1..0 = {}
<1>1. PICK m \in Nat : n = m + 1
  <2>1. n - 1 \in Nat /\ n = (n - 1) + 1
    OBVIOUS
  <2> QED BY <2>1
<1>2. 1..n \in SUBSET (1..(m + 1)) /\ m + 1 \in 1..n
  BY <1>1
<1>3. Max(1..n) = n
  BY <1>1, <1>2, LastIs
<1>4. (1..n) \ {n} = 1..(n - 1)
  OBVIOUS
<1>5. 1..n # {} /\ 1..0 = {}
  OBVIOUS
<1> QED BY <1>3, <1>4, <1>5

\* Numbers up to N have what 0 has and each passes on to the next.
NextHas(H, N) == \A n \in 1..N : n - 1 \in H => n \in H

LEMMA ReachesAll ==
    ASSUME NEW N \in Nat, NEW H, 0 \in H, NextHas(H, N)
    PROVE  N \in H
<1> DEFINE T == {n \in Nat : n <= N /\ n \notin H}
<1>1. ASSUME T # {} PROVE FALSE
  <2>1. PICK n \in T : \A t \in T : n <= t
    <3>1. T \in SUBSET Nat
      OBVIOUS
    <3> HIDE DEF T
    <3> QED BY <1>1, <3>1, Least
  <2>2. n \in Nat /\ n <= N /\ n \notin H
    BY <2>1
  <2>3. n # 0
    BY <2>2
  <2>4. n - 1 \in Nat /\ n - 1 <= N /\ ~(n <= n - 1) /\ n \in 1..N
    BY <2>2, <2>3
  <2>5. n - 1 \in H
    BY <2>1, <2>4
  <2> QED BY <2>2, <2>4, <2>5 DEF NextHas
<1> QED BY <1>1

LEMMA ReachesEach ==
    ASSUME NEW N \in Nat, NEW H, 0 \in H, NextHas(H, N)
    PROVE  \A n \in 0..N : n \in H
<1> SUFFICES ASSUME NEW n \in 0..N PROVE n \in H
  OBVIOUS
<1>1. n \in Nat /\ 1..n \subseteq 1..N
  OBVIOUS
<1>2. NextHas(H, n)
  BY <1>1 DEF NextHas
<1> QED BY <1>1, <1>2, ReachesAll

\* Steps that have what I asks for after each of them, G being of use only then.
LEMMA StepsWithin ==
    ASSUME NEW N \in Nat, NEW T, NEW I, \A n \in 0..N : I[n] \subseteq T, NEW a \in I[0], NEW G,
           \A n \in 1..N : \A x \in I[n - 1] : G[<<x, n>>] \in I[n]
    PROVE  \E g : /\ g = [n \in 0..N |-> g[n]] /\ StepsBy(g, a, G, N)
                  /\ \A n \in 0..N : g[n] \in I[n]
<1> DEFINE A == {x \in T : \E n \in 0..N : x \in I[n]}
           H == [y \in A \X (1..N) |-> IF y[1] \in I[y[2] - 1] THEN G[<<y[1], y[2]>>] ELSE y[1]]
<1>1. \A n \in 0..N : I[n] \subseteq A
  OBVIOUS
<1>2. \A x \in A, n \in 1..N : H[<<x, n>>] = IF x \in I[n - 1] THEN G[<<x, n>>] ELSE x
  OBVIOUS
<1>3. \A n \in 1..N : n \in 0..N /\ n - 1 \in 0..N
  OBVIOUS
<1>4. \A x \in A, n \in 1..N : H[<<x, n>>] \in A
  <2> HIDE DEF A, H
  <2> QED BY <1>1, <1>2, <1>3
<1>5. H \in [A \X (1..N) -> A]
  <2> SUFFICES ASSUME NEW y \in A \X (1..N) PROVE H[y] \in A
    OBVIOUS
  <2>1. y = <<y[1], y[2]>> /\ y[1] \in A /\ y[2] \in 1..N
    OBVIOUS
  <2> HIDE DEF A, H
  <2> QED BY <1>4, <2>1
<1>6. a \in A
  <2>1. 0 \in 0..N
    OBVIOUS
  <2> HIDE DEF A
  <2> QED BY <1>1, <2>1
<1> HIDE DEF A, H
<1>7. PICK g \in [0..N -> A] : StepsBy(g, a, H, N)
  BY <1>5, <1>6, StepsExist
<1> DEFINE K == {n \in 0..N : g[n] \in I[n]}
<1>8. \A n \in 1..N : n - 1 \in K => n \in K /\ g[n] = G[<<g[n - 1], n>>]
  <2> SUFFICES ASSUME NEW n \in 1..N, n - 1 \in K
               PROVE  n \in K /\ g[n] = G[<<g[n - 1], n>>]
    OBVIOUS
  <2>1. g[n - 1] \in I[n - 1] /\ g[n - 1] \in A
    BY <1>3, <1>7
  <2>2. g[n] = G[<<g[n - 1], n>>]
    BY <1>2, <1>7, <2>1 DEF StepsBy
  <2>3. g[n] \in I[n]
    BY <2>1, <2>2
  <2> QED BY <1>3, <2>2, <2>3
<1>9. 0 \in K
  BY <1>7 DEF StepsBy
<1>10. \A n \in 0..N : n \in K
  <2>1. NextHas(K, N)
    BY <1>8 DEF NextHas
  <2> HIDE DEF K
  <2> QED BY <1>9, <2>1, ReachesEach
<1>11. StepsBy(g, a, G, N)
  <2>1. g[0] = a
    BY <1>7 DEF StepsBy
  <2>2. \A n \in 1..N : g[n] = G[<<g[n - 1], n>>]
    <3> HIDE DEF K
    <3> QED BY <1>3, <1>8, <1>10
  <2> QED BY <2>1, <2>2 DEF StepsBy
<1>12. g = [n \in 0..N |-> g[n]]
  BY <1>7
<1> QED BY <1>10, <1>11, <1>12

TakesPushes(A, X, k) == \A b \in A, x \in X : Push(b, x, k) \in A

\* What PushAll has after each item.
Pushes(g, h, items, k) ==
    /\ g[0] = h
    /\ \A n \in 1..Len(items) : g[n] = Push(g[n - 1], items[n], k)

LEMMA PushAllPushes ==
    ASSUME NEW X, NEW A, NEW items \in Seq(X), NEW h \in A, NEW k,
           TakesPushes(A, X, k)
    PROVE  \E g : Pushes(g, h, items, k) /\ PushAll(h, items, k) = g[Len(items)]
<1>1. PICK N \in Nat : N = Len(items) /\ DOMAIN items = 1..N
  BY LenProperties
<1>2. \A n \in 1..N : items[n] \in X
  BY <1>1, ElementOfSeq
<1> DEFINE Step(f) == [s \in SUBSET (1..N) |->
                IF s = {} THEN h ELSE Push(f[s \ {Max(s)}], items[Max(s)], k)]
           it == CHOOSE f : f = Step(f)
<1>3. PushAll(h, items, k) = it[1..N]
  BY <1>1 DEF PushAll, FoldLeft, MapThenFoldSet
<1>4. it = Step(it)
  <2> DEFINE G == [x \in A \X (1..N) |-> Push(x[1], items[x[2]], k)]
  <2>1. G \in [A \X (1..N) -> A]
    BY <1>2 DEF TakesPushes
  <2>2. \A b \in A, n \in 1..N : G[<<b, n>>] = Push(b, items[n], k)
    OBVIOUS
  <2> HIDE DEF G
  <2>3. PICK g \in [SUBSET (1..N) -> A] : Folds(g, h, G, N)
    BY <2>1, FoldExists
  <2>4. ASSUME NEW s \in SUBSET (1..N)
        PROVE  g[s] = IF s = {} THEN h ELSE Push(g[s \ {Max(s)}], items[Max(s)], k)
    <3>1. CASE s = {}
      BY <2>3, <3>1 DEF Folds
    <3>2. CASE s # {}
      <4>1. g[s] = G[<<g[s \ {Max(s)}], Max(s)>>]
        BY <2>3, <3>2 DEF Folds
      <4>2. g[s \ {Max(s)}] \in A
        OBVIOUS
      <4>3. Max(s) \in 1..N
        BY <3>2, LargestIs
      <4> QED BY <2>2, <3>2, <4>1, <4>2, <4>3
    <3> QED BY <3>1, <3>2
  <2>5. g = Step(g)
    BY <2>4
  <2> QED BY <2>5
<1> HIDE DEF it
<1> DEFINE p == [n \in 0..N |-> it[1..n]]
<1>5. p[0] = h
  <2>1. 1..0 = {} /\ {} \in SUBSET (1..N)
    OBVIOUS
  <2> QED BY <1>4, <2>1
<1>6. ASSUME NEW n \in 1..N PROVE p[n] = Push(p[n - 1], items[n], k)
  <2>1. 1..n \in SUBSET (1..N) /\ n - 1 \in 0..N /\ n \in Nat \ {0}
    OBVIOUS
  <2>2. Max(1..n) = n /\ (1..n) \ {n} = 1..(n - 1) /\ 1..n # {}
    BY <2>1, FirstOnes
  <2>3. it[1..n] = Push(it[(1..n) \ {Max(1..n)}], items[Max(1..n)], k)
    BY <1>4, <2>1, <2>2
  <2>4. p[n] = it[1..n] /\ p[n - 1] = it[1..(n - 1)]
    BY <2>1
  <2> HIDE DEF p
  <2> QED BY <2>2, <2>3, <2>4
<1>7. p[N] = it[1..N]
  OBVIOUS
<1> HIDE DEF p
<1> QED BY <1>1, <1>3, <1>5, <1>6, <1>7 DEF Pushes

-----------------------------------------------------------------------------
(* The k nearest.                                                          *)

\* r holds what h holds, in another order.
Rearranged(r, h) ==
    Len(r) = Len(h) /\ Range(r) = Range(h) /\ (Distinct(h) => Distinct(r))

LEMMA SiftDownKeeps ==
    ASSUME NEW X, \A x \in X : x.dist \in Int, NEW h \in Seq(X), NEW i \in 1..Len(h)
    PROVE  /\ SiftDown(h, i) \in Seq(X) /\ Rearranged(SiftDown(h, i), h)
           /\ HeapFrom(h, i + 1) => HeapFrom(SiftDown(h, i), i)
<1> DEFINE r == SiftDown(h, i)
<1>1. PICK L \in Nat : L = Len(h) /\ DOMAIN h = 1..L /\ Weighed(h)
  BY LenProperties, ElementOfSeq DEF Weighed
<1>2. PICK p, E : Sifted(r, h, i, p, E)
  BY <1>1, SiftDownSifts
<1> HIDE DEF r
<1>3. Len(r) = L /\ DOMAIN r = 1..L
  BY <1>1, <1>2 DEF Sifted
<1>4. Rearranged(r, h)
  BY <1>1, <1>2, <1>3, SiftedRearranges DEF Rearranged
<1>5. HeapFrom(h, i + 1) => HeapFrom(r, i)
  BY <1>1, <1>2, SiftedIsHeap
<1>6. \A n \in 1..L : r[n] \in X
  <2> SUFFICES ASSUME NEW n \in 1..L PROVE r[n] \in X
    OBVIOUS
  <2>1. r[n] \in Range(h)
    BY <1>3, <1>4 DEF Range, Rearranged
  <2>2. PICK m \in 1..L : r[n] = h[m]
    BY <1>1, <2>1 DEF Range
  <2> QED BY <1>1, <2>2, ElementOfSeq
<1>7. \E q : r = [n \in 1..L |-> q[n]]
  <2>1. SiftDown(h, i) = [n \in 1..L |-> SiftDown(h, i)[n]]
    BY <1>1 DEF SiftDown
  <2> QED BY <2>1 DEF r
<1>8. r \in Seq(X)
  BY <1>6, <1>7
<1> QED BY <1>4, <1>5, <1>8 DEF r

LEMMA BuildHeapBuilds ==
    ASSUME NEW X, \A x \in X : x.dist \in Int, NEW h \in Seq(X)
    PROVE  /\ BuildHeap(h) \in Seq(X) /\ Rearranged(BuildHeap(h), h)
           /\ HeapFrom(BuildHeap(h), 1)
<1>1. PICK L \in Nat, half \in Nat : /\ L = Len(h) /\ half = L \div 2 /\ half <= L
                                     /\ L < 2 * (half + 1)
  BY LenProperties
<1> DEFINE Step(f) == [n \in 0..half |-> IF n = 0 THEN h ELSE SiftDown(f[n - 1], half - n + 1)]
           after == CHOOSE f : f = Step(f)
           A == {s \in Seq(X) : Len(s) = L}
<1>2. BuildHeap(h) = after[half]
  BY <1>1 DEF BuildHeap
<1>3. \A s \in A, i \in 1..half : SiftDown(s, i) \in A
  <2> SUFFICES ASSUME NEW s \in A, NEW i \in 1..half PROVE SiftDown(s, i) \in A
    OBVIOUS
  <2>1. s \in Seq(X) /\ Len(s) = L /\ i \in 1..Len(s)
    BY <1>1
  <2>2. SiftDown(s, i) \in Seq(X) /\ Len(SiftDown(s, i)) = Len(s)
    BY <2>1, SiftDownKeeps DEF Rearranged
  <2> QED BY <2>1, <2>2
<1>4. after = Step(after)
  <2> DEFINE G == [x \in A \X (1..half) |-> SiftDown(x[1], half - x[2] + 1)]
  <2>1. \A b \in A, n \in 1..half : half - n + 1 \in 1..half
    OBVIOUS
  <2>2. G \in [A \X (1..half) -> A]
    BY <1>3, <2>1
  <2>3. \A b \in A, n \in 1..half : G[<<b, n>>] = SiftDown(b, half - n + 1)
    OBVIOUS
  <2>4. h \in A
    BY <1>1
  <2> HIDE DEF G, A
  <2>5. PICK g \in [SUBSET (1..half) -> A] : Folds(g, h, G, half)
    BY <2>2, <2>4, FoldExists
  <2> DEFINE p == [n \in 0..half |-> g[1..n]]
  <2>6. p[0] = h
    <3>1. 1..0 = {} /\ {} \in SUBSET (1..half)
      OBVIOUS
    <3>2. g[{}] = h
      BY <2>5, <3>1 DEF Folds
    <3>3. p[0] = g[1..0]
      OBVIOUS
    <3> HIDE DEF p
    <3> QED BY <3>1, <3>2, <3>3
  <2>7. ASSUME NEW n \in 1..half PROVE p[n] = SiftDown(p[n - 1], half - n + 1)
    <3>1. 1..n \in SUBSET (1..half) /\ 1..(n - 1) \in SUBSET (1..half) /\ n \in Nat \ {0}
      OBVIOUS
    <3>2. Max(1..n) = n /\ (1..n) \ {n} = 1..(n - 1) /\ 1..n # {}
      BY <3>1, FirstOnes
    <3>3. g[1..n] = G[<<g[(1..n) \ {Max(1..n)}], Max(1..n)>>]
      BY <2>5, <3>1, <3>2 DEF Folds
    <3>4. g[1..(n - 1)] \in A
      BY <3>1
    <3>5. p[n] = g[1..n] /\ p[n - 1] = g[1..(n - 1)]
      OBVIOUS
    <3> HIDE DEF p
    <3> QED BY <2>3, <3>2, <3>3, <3>4, <3>5
  <2>8. p = Step(p)
    <3>1. \A n \in 0..half : p[n] = IF n = 0 THEN h ELSE SiftDown(p[n - 1], half - n + 1)
      <4> HIDE DEF p
      <4>1. \A n \in 0..half : n = 0 \/ n \in 1..half
        OBVIOUS
      <4> QED BY <2>6, <2>7, <4>1
    <3> QED BY <3>1
  <2> HIDE DEF p
  <2> QED BY <2>8
<1> HIDE DEF after, A
<1> DEFINE H == {n \in 0..half : /\ after[n] \in Seq(X) /\ Rearranged(after[n], h)
                                 /\ HeapFrom(after[n], half - n + 1)}
<1>5. 0 \in H
  <2>1. after[0] = h
    BY <1>4
  <2>2. HeapFrom(h, half - 0 + 1)
    BY <1>1 DEF HeapFrom
  <2> QED BY <2>1, <2>2 DEF Rearranged
<1>6. ASSUME NEW n \in 1..half, n - 1 \in H PROVE n \in H
  <2>1. after[n] = SiftDown(after[n - 1], half - n + 1)
    BY <1>4
  <2>2. /\ after[n - 1] \in Seq(X) /\ Rearranged(after[n - 1], h)
        /\ HeapFrom(after[n - 1], (half - n + 1) + 1)
    <3>1. half - (n - 1) + 1 = (half - n + 1) + 1
      OBVIOUS
    <3> QED BY <1>6, <3>1
  <2>3. half - n + 1 \in 1..Len(after[n - 1])
    BY <1>1, <2>2 DEF Rearranged
  <2>4. /\ after[n] \in Seq(X) /\ Rearranged(after[n], after[n - 1])
        /\ HeapFrom(after[n], half - n + 1)
    BY <2>1, <2>2, <2>3, SiftDownKeeps
  <2> QED BY <2>2, <2>4 DEF Rearranged
<1>7. half \in H
  <2>1. NextHas(H, half)
    BY <1>6 DEF NextHas
  <2> HIDE DEF H
  <2> QED BY <1>5, <2>1, ReachesAll
<1>8. half - half + 1 = 1
  OBVIOUS
<1> QED BY <1>2, <1>7, <1>8

LEMMA AppendAdds ==
    ASSUME NEW X, NEW h \in Seq(X), NEW x \in X
    PROVE  LET s == Append(h, x) IN
           /\ s \in Seq(X) /\ Len(s) = Len(h) + 1 /\ DOMAIN s = 1..(Len(h) + 1)
           /\ s[Len(h) + 1] = x /\ \A n \in 1..Len(h) : s[n] = h[n]
           /\ Range(s) = Range(h) \cup {x}
           /\ Distinct(h) /\ x \notin Range(h) => Distinct(s)
<1> DEFINE s == Append(h, x)
<1>1. PICK L \in Nat : L = Len(h) /\ DOMAIN h = 1..L
  BY LenProperties
<1>2. s \in Seq(X) /\ Len(s) = L + 1 /\ s[L + 1] = x /\ DOMAIN s = 1..(L + 1)
      /\ \A n \in 1..L : s[n] = h[n]
  BY <1>1
<1> HIDE DEF s
<1>4. Range(s) = Range(h) \cup {x}
  <2>1. ASSUME NEW y \in Range(s) PROVE y \in Range(h) \cup {x}
    <3>1. PICK n \in 1..(L + 1) : y = s[n]
      BY <1>2 DEF Range
    <3>2. n = L + 1 \/ n \in 1..L
      OBVIOUS
    <3> QED BY <1>1, <1>2, <3>1, <3>2 DEF Range
  <2>2. ASSUME NEW y \in Range(h) PROVE y \in Range(s)
    <3>1. PICK n \in 1..L : y = h[n]
      BY <1>1 DEF Range
    <3>2. n \in 1..(L + 1)
      OBVIOUS
    <3> QED BY <1>2, <3>1, <3>2 DEF Range
  <2>3. x \in Range(s)
    <3>1. L + 1 \in 1..(L + 1)
      OBVIOUS
    <3> QED BY <1>2, <3>1 DEF Range
  <2> QED BY <2>1, <2>2, <2>3
<1>5. Distinct(h) /\ x \notin Range(h) => Distinct(s)
  <2> SUFFICES ASSUME Distinct(h), x \notin Range(h),
                      NEW m \in 1..(L + 1), NEW n \in 1..(L + 1), m # n
               PROVE  s[m] # s[n]
    BY <1>2 DEF Distinct
  <2>1. \A l \in 1..L : s[l] # x
    BY <1>1, <1>2 DEF Range
  <2>2. CASE m \in 1..L /\ n \in 1..L
    BY <1>1, <1>2, <2>2 DEF Distinct
  <2>3. CASE m = L + 1
    <3>1. n \in 1..L
      BY <2>3
    <3> QED BY <1>2, <2>1, <2>3, <3>1
  <2>4. CASE n = L + 1
    <3>1. m \in 1..L
      BY <2>4
    <3> QED BY <1>2, <2>1, <2>4, <3>1
  <2> QED BY <2>2, <2>3, <2>4
<1> QED BY <1>1, <1>2, <1>4, <1>5 DEF s

\* What a push does to a heap that has not more than k items.
LEMMA PushStores ==
    ASSUME NEW X, \A x \in X : x.dist \in Int, NEW h \in Seq(X), NEW k \in Nat,
           Len(h) < k, NEW x \in X
    PROVE  LET r == Push(h, x, k) IN
           /\ r \in Seq(X) /\ Len(r) = Len(h) + 1 /\ Range(r) = Range(h) \cup {x}
           /\ Distinct(h) /\ x \notin Range(h) => Distinct(r)
           /\ Len(r) = k => HeapFrom(r, 1)
<1> DEFINE s == Append(h, x)
           r == Push(h, x, k)
<1>1. PICK L \in Nat : L = Len(h) /\ DOMAIN h = 1..L /\ L < k
  BY LenProperties
<1>2. s \in Seq(X) /\ Len(s) = L + 1 /\ s[L + 1] = x /\ DOMAIN s = 1..(L + 1)
      /\ \A n \in 1..L : s[n] = h[n]
  BY <1>1
<1>3. r = IF L + 1 = k THEN BuildHeap(s) ELSE s
  <2>1. ~(k <= 0) /\ k > 0 /\ Len(h) < k
    BY <1>1
  <2>2. Push(h, x, k) = IF Len(h) + 1 = k THEN BuildHeap(Append(h, x)) ELSE Append(h, x)
    BY <2>1, Zenon DEF Push
  <2> QED BY <1>1, <2>2
<1> HIDE DEF s, r
<1>4. Range(s) = Range(h) \cup {x} /\ (Distinct(h) /\ x \notin Range(h) => Distinct(s))
  BY AppendAdds DEF s
<1>6. CASE L + 1 = k
  <2>1. r \in Seq(X) /\ Rearranged(r, s) /\ HeapFrom(r, 1)
    BY <1>2, <1>3, <1>6, BuildHeapBuilds
  <2> QED BY <1>1, <1>2, <1>4, <2>1 DEF Rearranged, r
<1>7. CASE L + 1 # k
  BY <1>1, <1>2, <1>3, <1>4, <1>7 DEF r
<1> QED BY <1>6, <1>7

LEMMA PushReplaces ==
    ASSUME NEW X, \A x \in X : x.dist \in Int, NEW h \in Seq(X), NEW k \in Nat \ {0},
           Len(h) = k, NEW x \in X, x.dist < h[1].dist
    PROVE  LET r == Push(h, x, k) IN
           /\ r \in Seq(X) /\ Len(r) = k
           /\ Distinct(h) /\ x \notin Range(h) =>
                 Distinct(r) /\ Range(r) = (Range(h) \ {h[1]}) \cup {x}
           /\ HeapFrom(h, 1) => HeapFrom(r, 1)
<1> DEFINE s == [h EXCEPT ![1] = x]
           r == Push(h, x, k)
<1>1. DOMAIN h = 1..k /\ 1 \in 1..k /\ \A n \in 1..k : h[n] \in X
  BY LenProperties, ElementOfSeq
<1>2. s \in Seq(X) /\ Len(s) = k /\ DOMAIN s = 1..k /\ s[1] = x
      /\ \A n \in 1..k : n # 1 => s[n] = h[n]
  BY <1>1
<1>3. r = SiftDown(s, 1)
  <2>1. ~(k <= 0) /\ ~(k > 0 /\ Len(h) < k)
    OBVIOUS
  <2>2. Push(h, x, k) = IF x.dist < h[1].dist THEN SiftDown([h EXCEPT ![1] = x], 1) ELSE h
    BY <2>1, Zenon DEF Push
  <2> QED BY <2>2
<1> HIDE DEF s, r
<1>4. r \in Seq(X) /\ Rearranged(r, s) /\ (HeapFrom(s, 2) => HeapFrom(r, 1))
  BY <1>1, <1>2, <1>3, SiftDownKeeps
<1>5. HeapFrom(h, 1) => HeapFrom(s, 2)
  <2> SUFFICES ASSUME HeapFrom(h, 1), NEW j \in 1..k, NEW a \in 2..k, a = j \div 2
               PROVE  s[j].dist <= s[a].dist
    BY <1>2 DEF HeapFrom
  <2>1. j # 1 /\ a # 1 /\ a \in 1..k /\ j \div 2 \in 1..k
    OBVIOUS
  <2>2. h[j].dist <= h[j \div 2].dist
    BY <2>1 DEF HeapFrom
  <2> QED BY <1>2, <2>1, <2>2
<1>6. ASSUME Distinct(h), x \notin Range(h)
      PROVE  Distinct(s) /\ Range(s) = (Range(h) \ {h[1]}) \cup {x}
  <2>1. \A n \in 1..k : h[n] # x /\ (n # 1 => h[n] # h[1])
    BY <1>1, <1>6 DEF Range, Distinct
  <2>2. Distinct(s)
    BY <1>1, <1>2, <1>6, <2>1 DEF Distinct
  <2>3. ASSUME NEW y \in Range(s) PROVE y \in (Range(h) \ {h[1]}) \cup {x}
    <3>1. PICK n \in 1..k : y = s[n]
      BY <1>2 DEF Range
    <3> QED BY <1>1, <1>2, <2>1, <3>1 DEF Range
  <2>4. ASSUME NEW y \in (Range(h) \ {h[1]}) \cup {x} PROVE y \in Range(s)
    <3>1. CASE y = x
      BY <1>1, <1>2, <3>1 DEF Range
    <3>2. CASE y \in Range(h) /\ y # h[1]
      <4>1. PICK n \in 1..k : y = h[n] /\ n # 1
        BY <1>1, <3>2 DEF Range
      <4> QED BY <1>2, <4>1 DEF Range
    <3> QED BY <3>1, <3>2
  <2> QED BY <2>2, <2>3, <2>4
<1> QED BY <1>2, <1>4, <1>5, <1>6 DEF Rearranged, r

LEMMA PushRefuses ==
    ASSUME NEW h, NEW k \in Nat, NEW x, k = 0 \/ (Len(h) = k /\ ~(x.dist < h[1].dist))
    PROVE  Push(h, x, k) = h
<1>1. CASE k = 0
  <2>1. k <= 0 /\ ~(k > 0 /\ Len(h) < k) /\ ~(k > 0)
    BY <1>1
  <2> QED BY <2>1, Zenon DEF Push
<1>2. CASE k # 0
  <2>1. ~(k <= 0) /\ ~(k > 0 /\ Len(h) < k) /\ ~(x.dist < h[1].dist)
    BY <1>2
  <2> QED BY <2>1, Zenon DEF Push
<1> QED BY <1>1, <1>2

\* h holds the k nearest items of S, or all of them if there are no more.
Nearest(h, S, k) ==
    /\ Range(h) \subseteq S /\ Distinct(h)
    /\ Len(h) = IF Cardinality(S) < k THEN Cardinality(S) ELSE k
    /\ \A x \in Range(h), y \in S \ Range(h) : x.dist <= y.dist
    /\ Len(h) = k /\ k # 0 => HeapFrom(h, 1)

LEMMA CountIn ==
    ASSUME NEW X, NEW h \in Seq(X), Distinct(h)
    PROVE  IsFiniteSet(Range(h)) /\ Cardinality(Range(h)) = Len(h) /\ Len(h) \in Nat
<1>1. PICK L \in Nat : L = Len(h) /\ DOMAIN h = 1..L
  BY LenProperties
<1> DEFINE f == [n \in 1..L |-> h[n]]
<1>2. f \in Surjection(1..L, Range(h)) /\ f \in Injection(1..L, Range(h))
  <2>1. f \in [1..L -> Range(h)] /\ \A n \in 1..L : f[n] = h[n]
    BY <1>1 DEF Range
  <2>2. \A y \in Range(h) : \E n \in 1..L : f[n] = y
    BY <1>1 DEF Range
  <2>3. \A m, n \in 1..L : f[m] = f[n] => m = n
    BY <1>1 DEF Distinct
  <2> HIDE DEF f
  <2> QED BY <2>1, <2>2, <2>3 DEF Surjection, Injection, IsInjective
<1>3. IsFiniteSet(1..L) /\ Cardinality(1..L) = L
  BY FS_Interval
<1> HIDE DEF f
<1>4. IsFiniteSet(Range(h)) /\ Cardinality(Range(h)) = Cardinality(1..L)
  BY <1>2, <1>3, FS_Surjection
<1> QED BY <1>1, <1>3, <1>4

LEMMA PushNearest ==
    ASSUME NEW X, \A x \in X : x.dist \in Int, NEW S \in SUBSET X, IsFiniteSet(S),
           NEW k \in Nat, NEW h \in Seq(X), Nearest(h, S, k), NEW x \in X, x \notin S
    PROVE  Nearest(Push(h, x, k), S \cup {x}, k)
<1> DEFINE r == Push(h, x, k)
<1>1. PICK c \in Nat : c = Cardinality(S) /\ Cardinality(S \cup {x}) = c + 1
  BY FS_AddElement, FS_CardinalityType
<1>2. IsFiniteSet(Range(h)) /\ Cardinality(Range(h)) = Len(h) /\ Len(h) \in Nat
  BY CountIn DEF Nearest
<1>3. Len(h) = IF c < k THEN c ELSE k
  BY <1>1 DEF Nearest
<1>4. x \notin Range(h) /\ Distinct(h)
  BY DEF Nearest
<1>5. CASE c < k
  <2>1. Range(h) = S
    <3>1. Cardinality(Range(h)) = Cardinality(S) /\ Range(h) \in SUBSET S
      BY <1>1, <1>2, <1>3, <1>5 DEF Nearest
    <3> QED BY <3>1, FS_Subset
  <2>2. /\ Len(r) = Len(h) + 1 /\ Range(r) = Range(h) \cup {x} /\ Distinct(r)
        /\ Len(r) = k => HeapFrom(r, 1)
    BY <1>3, <1>4, <1>5, PushStores
  <2> HIDE DEF r
  <2>3. Range(r) = S \cup {x} /\ Len(r) = c + 1 /\ c + 1 <= k
    BY <1>3, <1>5, <2>1, <2>2
  <2> QED BY <1>1, <2>2, <2>3 DEF Nearest, r
<1>6. CASE ~(c < k) /\ k = 0
  <2>1. r = h /\ Len(h) = 0
    BY <1>3, <1>6, PushRefuses
  <2>2. Range(h) = {}
    BY <2>1 DEF Range
  <2> HIDE DEF r
  <2> QED BY <1>1, <1>4, <1>6, <2>1, <2>2 DEF Nearest, r
<1>7. CASE ~(c < k) /\ k # 0
  <2>1. Len(h) = k /\ HeapFrom(h, 1) /\ k \in Nat \ {0}
    BY <1>3, <1>7 DEF Nearest
  <2>2. DOMAIN h = 1..k /\ (\A n \in 1..k : h[n] \in X) /\ Weighed(h) /\ 1 \in 1..k
    BY <2>1, LenProperties, ElementOfSeq DEF Weighed
  <2>3. \A y \in Range(h) : y.dist <= h[1].dist
    <3>1. \A n \in 1..k : h[n].dist <= h[1].dist
      BY <2>1, <2>2, FarthestFirst
    <3> QED BY <2>2, <3>1 DEF Range
  <2>4. h[1] \in Range(h) /\ h[1].dist \in Int /\ Range(h) \subseteq X
    BY <2>2 DEF Range
  <2>5. \A y \in S : y.dist \in Int
    OBVIOUS
  <2>6. x.dist \in Int
    OBVIOUS
  <2>7. CASE x.dist < h[1].dist
    <3>1. /\ Len(r) = k /\ Distinct(r) /\ Range(r) = (Range(h) \ {h[1]}) \cup {x}
          /\ HeapFrom(r, 1)
      BY <1>4, <2>1, <2>7, PushReplaces
    <3> HIDE DEF r
    <3>2. ASSUME NEW y \in Range(r), NEW z \in (S \cup {x}) \ Range(r) PROVE y.dist <= z.dist
      <4>1. (z = h[1] \/ z \in S \ Range(h)) /\ (y = x \/ y \in Range(h))
        BY <3>1, <3>2
      <4>2. \A w \in Range(h) : z \in S \ Range(h) => w.dist <= z.dist
        BY DEF Nearest
      <4>3. z.dist \in Int /\ (y \in Range(h) => y.dist \in Int)
        BY <2>4, <2>5, <4>1
      <4>4. CASE y = x
        BY <2>4, <2>6, <2>7, <4>1, <4>2, <4>3, <4>4
      <4>5. CASE y \in Range(h)
        BY <2>3, <4>1, <4>2, <4>5
      <4> QED BY <4>1, <4>4, <4>5
    <3>3. Range(r) \subseteq S \cup {x}
      BY <3>1 DEF Nearest
    <3>4. ~(c + 1 < k)
      BY <1>7
    <3> QED BY <1>1, <3>1, <3>2, <3>3, <3>4 DEF Nearest, r
  <2>8. CASE ~(x.dist < h[1].dist)
    <3>1. r = h
      BY <2>1, <2>8, PushRefuses
    <3> HIDE DEF r
    <3>2. ASSUME NEW y \in Range(h), NEW z \in (S \cup {x}) \ Range(h) PROVE y.dist <= z.dist
      <4>1. y.dist \in Int /\ y.dist <= h[1].dist
        BY <2>3, <2>4
      <4>2. CASE z = x
        BY <2>4, <2>6, <2>8, <4>1, <4>2
      <4>3. CASE z \in S
        BY <3>2, <4>3 DEF Nearest
      <4> QED BY <4>2, <4>3
    <3>3. Range(h) \subseteq S \cup {x}
      BY DEF Nearest
    <3>4. ~(c + 1 < k)
      BY <1>7
    <3> QED BY <1>1, <1>4, <2>1, <3>1, <3>2, <3>3, <3>4 DEF Nearest, r
  <2> QED BY <2>7, <2>8
<1> QED BY <1>5, <1>6, <1>7

\* Pushes keep the type and the bound, whatever is in the heap.
LEMMA PushTypes ==
    ASSUME NEW X, \A x \in X : x.dist \in Int, NEW k \in Nat, NEW h \in Seq(X), Len(h) <= k,
           NEW x \in X
    PROVE  Push(h, x, k) \in Seq(X) /\ Len(Push(h, x, k)) <= k
<1>1. Len(h) \in Nat
  BY LenProperties
<1>2. CASE Len(h) < k
  <2>1. Push(h, x, k) \in Seq(X) /\ Len(Push(h, x, k)) = Len(h) + 1
    BY <1>2, PushStores
  <2> QED BY <1>1, <1>2, <2>1
<1>3. CASE Len(h) = k /\ k # 0 /\ x.dist < h[1].dist
  BY <1>3, PushReplaces
<1>4. CASE k = 0 \/ (Len(h) = k /\ ~(x.dist < h[1].dist))
  BY <1>4, PushRefuses
<1> QED BY <1>1, <1>2, <1>3, <1>4

LEMMA PushAllTypes ==
    ASSUME NEW X, \A x \in X : x.dist \in Int, NEW k \in Nat, NEW h \in Seq(X), Len(h) <= k,
           NEW items \in Seq(X)
    PROVE  /\ PushAll(h, items, k) \in Seq(X) /\ Len(PushAll(h, items, k)) <= k
           /\ \E g : Pushes(g, h, items, k) /\ PushAll(h, items, k) = g[Len(items)]
<1> DEFINE A == {s \in Seq(X) : Len(s) <= k}
<1>1. TakesPushes(A, X, k)
  BY PushTypes DEF TakesPushes
<1>2. h \in A
  OBVIOUS
<1>3. PICK g : Pushes(g, h, items, k) /\ PushAll(h, items, k) = g[Len(items)]
  <2> HIDE DEF A
  <2> QED BY <1>1, <1>2, PushAllPushes
<1>4. PICK N \in Nat : N = Len(items) /\ DOMAIN items = 1..N
  BY LenProperties
<1> DEFINE H == {n \in 0..N : g[n] \in A}
<1>5. 0 \in H
  BY <1>2, <1>3 DEF Pushes
<1>6. NextHas(H, N)
  <2> SUFFICES ASSUME NEW n \in 1..N, g[n - 1] \in A PROVE g[n] \in A
    BY DEF NextHas
  <2>1. g[n] = Push(g[n - 1], items[n], k) /\ items[n] \in X
    BY <1>3, <1>4, ElementOfSeq DEF Pushes
  <2> HIDE DEF A
  <2> QED BY <1>1, <2>1 DEF TakesPushes
<1>7. N \in H
  <2> HIDE DEF H
  <2> QED BY <1>5, <1>6, ReachesAll
<1> QED BY <1>3, <1>4, <1>7

LEMMA PushAllNearest ==
    ASSUME NEW X, \A x \in X : x.dist \in Int, NEW S \in SUBSET X, IsFiniteSet(S),
           NEW k \in Nat, NEW h \in Seq(X), Nearest(h, S, k),
           NEW items \in Seq(X), Distinct(items), S \cap Range(items) = {}
    PROVE  Nearest(PushAll(h, items, k), S \cup Range(items), k)
<1>1. PICK N \in Nat : N = Len(items) /\ DOMAIN items = 1..N /\ \A n \in 1..N : items[n] \in X
  BY LenProperties, ElementOfSeq
<1>2. Len(h) <= k
  <2>1. Cardinality(S) \in Nat
    BY FS_CardinalityType
  <2> QED BY <2>1 DEF Nearest
<1>3. PICK g : Pushes(g, h, items, k) /\ PushAll(h, items, k) = g[N]
  BY <1>1, <1>2, PushAllTypes
<1> DEFINE U(n) == S \cup {items[m] : m \in 1..n}
           H == {n \in 0..N : /\ g[n] \in Seq(X) /\ Len(g[n]) <= k
                              /\ IsFiniteSet(U(n)) /\ Nearest(g[n], U(n), k)}
<1>4. 0 \in H
  <2>1. g[0] = h
    BY <1>3 DEF Pushes
  <2>2. U(0) = S
    OBVIOUS
  <2> HIDE DEF U
  <2> QED BY <1>2, <2>1, <2>2
<1>5. ASSUME NEW n \in 1..N, n - 1 \in H PROVE n \in H
  <2>1. g[n] = Push(g[n - 1], items[n], k) /\ items[n] \in X
    BY <1>1, <1>3 DEF Pushes
  <2>2. n - 1 \in 0..N /\ U(n - 1) \in SUBSET X /\ items[n] \notin U(n - 1)
    <3>1. items[n] \notin S
      BY <1>1 DEF Range
    <3>2. \A m \in 1..(n - 1) : m \in 1..N /\ items[m] # items[n]
      BY <1>1 DEF Distinct
    <3> QED BY <1>1, <3>1, <3>2
  <2>3. U(n) = U(n - 1) \cup {items[n]}
    <3>1. 1..n = (1..(n - 1)) \cup {n}
      OBVIOUS
    <3> QED BY <3>1
  <2>4. /\ g[n - 1] \in Seq(X) /\ Len(g[n - 1]) <= k
        /\ IsFiniteSet(U(n - 1)) /\ Nearest(g[n - 1], U(n - 1), k)
    BY <1>5
  <2> HIDE DEF U
  <2>5. g[n] \in Seq(X) /\ Len(g[n]) <= k
    BY <2>1, <2>4, PushTypes
  <2>6. Nearest(g[n], U(n), k) /\ IsFiniteSet(U(n))
    <3>1. PICK before, old, x : before = g[n - 1] /\ old = U(n - 1) /\ x = items[n]
      OBVIOUS
    <3>2. /\ old \in SUBSET X /\ x \in X /\ x \notin old /\ before \in Seq(X)
          /\ IsFiniteSet(old) /\ Nearest(before, old, k)
      BY <2>1, <2>2, <2>4, <3>1
    <3>3. Nearest(Push(before, x, k), old \cup {x}, k)
      BY <3>2, PushNearest
    <3>4. IsFiniteSet(old \cup {x})
      BY <3>2, FS_AddElement
    <3> QED BY <2>1, <2>3, <3>1, <3>3, <3>4
  <2> QED BY <2>5, <2>6
<1>6. U(N) = S \cup Range(items)
  BY <1>1 DEF Range
<1>7. N \in H
  <2>1. NextHas(H, N)
    BY <1>5 DEF NextHas
  <2> HIDE DEF H
  <2> QED BY <1>4, <2>1, ReachesAll
<1> HIDE DEF U
<1> QED BY <1>3, <1>6, <1>7

LEMMA NothingIsNearest ==
    ASSUME NEW k \in Nat
    PROVE  Nearest(<<>>, {}, k) /\ Range(<<>>) = {} /\ IsFiniteSet({})
<1>1. Cardinality({}) = 0 /\ IsFiniteSet({})
  BY FS_EmptySet
<1>2. Range(<<>>) = {} /\ Distinct(<<>>) /\ Len(<<>>) = 0
  BY DEF Range, Distinct
<1> QED BY <1>1, <1>2 DEF Nearest

LEMMA KNNTypes ==
    ASSUME NEW X, \A x \in X : x.dist \in Int, NEW k \in Nat, NEW items \in Seq(X)
    PROVE  KNN(items, k) \in Seq(X)
<1> DEFINE j == IF k > Len(items) THEN Len(items) ELSE k
<1>1. j \in Nat /\ <<>> \in Seq(X) /\ Len(<<>>) = 0
  BY LenProperties
<1>2. KNN(items, k) = IF k <= 0 THEN <<>> ELSE PushAll(<<>>, items, j)
  BY DEF KNN
<1> HIDE DEF j
<1>3. PushAll(<<>>, items, j) \in Seq(X)
  <2>1. Len(<<>>) <= j
    BY <1>1
  <2> QED BY <1>1, <2>1, PushAllTypes
<1> QED BY <1>1, <1>2, <1>3

\* hamming.KNN returns the k nearest of its candidates, each once, or all of them
\* when there are no more, whatever the distances, ties and order.
THEOREM KNNNearest ==
    ASSUME NEW X, \A x \in X : x.dist \in Int, NEW k \in Nat, NEW items \in Seq(X), Distinct(items)
    PROVE  Nearest(KNN(items, k), Range(items), k)
<1>1. PICK N \in Nat : N = Len(items) /\ N = Cardinality(Range(items)) /\ Range(items) \in SUBSET X
  <2>1. Range(items) \in SUBSET X
    BY LenProperties, ElementOfSeq DEF Range
  <2> QED BY <2>1, CountIn
<1> DEFINE j == IF k > N THEN N ELSE k
<1>2. KNN(items, k) = IF k <= 0 THEN <<>> ELSE PushAll(<<>>, items, j)
  BY <1>1 DEF KNN
<1>3. j \in Nat /\ <<>> \in Seq(X)
  OBVIOUS
<1>4. j <= N /\ (j = k \/ (j = N /\ N < k))
  OBVIOUS
<1> HIDE DEF j
<1>5. CASE k = 0
  <2>1. KNN(items, k) = <<>> /\ Range(<<>>) = {} /\ Distinct(<<>>) /\ Len(<<>>) = 0
    BY <1>2, <1>5 DEF Range, Distinct
  <2> QED BY <1>1, <1>5, <2>1 DEF Nearest
<1>6. CASE k # 0
  <2> DEFINE r == PushAll(<<>>, items, j)
  <2>1. {} \cap Range(items) = {} /\ {} \cup Range(items) = Range(items) /\ {} \in SUBSET X
    OBVIOUS
  <2>2. Nearest(r, Range(items), j)
    <3>1. Nearest(<<>>, {}, j) /\ IsFiniteSet({})
      BY <1>3, NothingIsNearest
    <3>2. Nearest(r, {} \cup Range(items), j)
      BY <1>3, <2>1, <3>1, PushAllNearest
    <3> HIDE DEF r
    <3> QED BY <2>1, <3>2
  <2>3. KNN(items, k) = r
    BY <1>2, <1>6
  <2> HIDE DEF r
  <2>4. Nearest(r, Range(items), k)
    BY <1>1, <1>3, <1>4, <2>2 DEF Nearest
  <2> QED BY <2>3, <2>4
<1> QED BY <1>5, <1>6

\* The nearest of what was there and of a list are those of the nearest of both.
LEMMA NearestOfBoth ==
    ASSUME NEW X, \A x \in X : x.dist \in Int, NEW k \in Nat,
           NEW S \in SUBSET X, IsFiniteSet(S), NEW T \in SUBSET X, IsFiniteSet(T), S \cap T = {},
           NEW near \in Seq(X), Nearest(near, T, k),
           NEW h \in Seq(X), Nearest(h, S \cup Range(near), k)
    PROVE  Nearest(h, S \cup T, k)
<1>1. IsFiniteSet(Range(near)) /\ Cardinality(Range(near)) = Len(near) /\ Range(near) \in SUBSET T
  BY CountIn DEF Nearest
<1>2. IsFiniteSet(Range(h)) /\ Cardinality(Range(h)) = Len(h) /\ Range(h) \in SUBSET (S \cup Range(near))
  BY CountIn DEF Nearest
<1>3. PICK s \in Nat, t \in Nat, n \in Nat :
         /\ s = Cardinality(S) /\ t = Cardinality(T) /\ n = Cardinality(Range(near))
         /\ Cardinality(S \cup T) = s + t /\ Cardinality(S \cup Range(near)) = s + n
  <2>1. S \cap Range(near) = {} /\ Cardinality({}) = 0
    BY <1>1, FS_EmptySet
  <2>2. /\ Cardinality(S) \in Nat /\ Cardinality(T) \in Nat /\ Cardinality(Range(near)) \in Nat
    BY <1>1, FS_CardinalityType
  <2>3. /\ Cardinality(S \cup T) = Cardinality(S) + Cardinality(T) - Cardinality(S \cap T)
        /\ Cardinality(S \cup Range(near))
             = Cardinality(S) + Cardinality(Range(near)) - Cardinality(S \cap Range(near))
    BY <1>1, FS_Union
  <2>4. Cardinality(S \cap T) = 0 /\ Cardinality(S \cap Range(near)) = 0
    BY <2>1
  <2>5. PICK s \in Nat, t \in Nat, n \in Nat :
           s = Cardinality(S) /\ t = Cardinality(T) /\ n = Cardinality(Range(near))
    BY <2>2
  <2>6. Cardinality(S \cup T) = s + t /\ Cardinality(S \cup Range(near)) = s + n
    BY <2>3, <2>4, <2>5
  <2> QED BY <2>5, <2>6
<1>4. n = IF t < k THEN t ELSE k
  BY <1>1, <1>3 DEF Nearest
<1>5. Len(h) = IF s + t < k THEN s + t ELSE k
  <2>1. Len(h) = IF s + n < k THEN s + n ELSE k
    BY <1>3 DEF Nearest
  <2> QED BY <1>3, <1>4, <2>1
<1>6. ASSUME NEW x \in Range(h), NEW y \in (S \cup T) \ Range(h) PROVE x.dist <= y.dist
  <2>1. CASE y \in S \cup Range(near)
    BY <1>6, <2>1 DEF Nearest
  <2>2. CASE y \in T \ Range(near)
    <3>1. t >= k
      <4>1. CASE t < k
        <5>1. Cardinality(Range(near)) = Cardinality(T)
          BY <1>3, <1>4, <4>1
        <5>2. T = Range(near)
          BY <1>1, <5>1, FS_Subset
        <5> QED BY <2>2, <5>2
      <4> QED BY <4>1
    <3>2. n = k /\ Len(h) = k
      BY <1>3, <1>4, <1>5, <3>1
    <3>3. \A z \in Range(near) : z.dist <= y.dist
      BY <2>2 DEF Nearest
    <3>4. CASE Range(near) \subseteq Range(h)
      <4>1. Range(near) = Range(h)
        <5>1. Cardinality(Range(near)) = Cardinality(Range(h))
          BY <1>2, <1>3, <3>2
        <5> QED BY <1>1, <1>2, <3>4, <5>1, FS_Subset
      <4> QED BY <1>6, <3>3, <4>1
    <3>5. CASE ~(Range(near) \subseteq Range(h))
      <4>1. PICK z \in Range(near) : z \notin Range(h)
        BY <3>5
      <4>2. x.dist <= z.dist /\ z.dist <= y.dist
        BY <3>3, <4>1 DEF Nearest
      <4>3. x.dist \in Int /\ y.dist \in Int /\ z.dist \in Int
        BY <1>1, <1>2, <1>6, <4>1
      <4> QED BY <4>2, <4>3
    <3> QED BY <3>4, <3>5
  <2> QED BY <1>6, <2>1, <2>2
<1>7. Range(h) \subseteq S \cup T
  BY <1>1, <1>2
<1> QED BY <1>3, <1>5, <1>6, <1>7 DEF Nearest

-----------------------------------------------------------------------------
(* Sound tables: blocks of vector ids are handed out in the order of the   *)
(* image ids.                                                              *)

Shaped(d) ==
    /\ d = [image |-> d.image, stats |-> d.stats, blob |-> d.blob,
            lastId |-> d.lastId]
    /\ d.lastId \in Nat
    /\ DOMAIN d.stats \subseteq 1..d.lastId
    /\ DOMAIN d.image = DOMAIN d.stats
    /\ d.blob \subseteq DOMAIN d.stats
    /\ \A i \in DOMAIN d.stats : d.stats[i] \in Row

Ordered(d) ==
    \A i, j \in DOMAIN d.stats :
        i < j => d.stats[i].total <= d.stats[j].total - d.stats[j].count

Sound(d) ==
    /\ Shaped(d)
    /\ Ordered(d)
    /\ \A i \in DOMAIN d.stats : d.stats[i].count <= d.stats[i].total
    /\ \E k \in Nat : \A i \in DOMAIN d.stats : d.stats[i].total <= k

\* The rows i has in both tables give it the same vector ids.
SameRange(e, d, i) ==
    e.stats[i].count = d.stats[i].count /\ e.stats[i].total = d.stats[i].total

LEMMA EmptySound == Sound(EmptyDb)
<1>1. DOMAIN EmptyDb.stats = {} /\ DOMAIN EmptyDb.image = {}
      /\ EmptyDb.blob = {} /\ EmptyDb.lastId = 0
  BY DEF EmptyDb
<1>2. 0 \in Nat
  OBVIOUS
<1> QED BY <1>1, <1>2 DEF Sound, Shaped, Ordered, EmptyDb

-----------------------------------------------------------------------------
(* The running total.                                                      *)

\* A bounded, nonempty set of naturals has a greatest element.
LEMMA GreatestElement ==
    ASSUME NEW T \in SUBSET Nat, T # {},
           NEW k \in Nat, \A t \in T : t <= k
    PROVE  \E m \in T : \A t \in T : t <= m
<1> DEFINE U == {n \in Nat : \A t \in T : t <= n}
           R == OpToRel(<, Nat)
<1>1. IsWellFoundedOn(R, Nat)
  BY NatLessThanWellFounded
<1>2. U \subseteq Nat /\ U # {}
  BY SMT
<1>3. PICK x \in U : \A y \in U : ~(<<y, x>> \in R)
  <2> HIDE DEF U, R
  <2> QED BY <1>1, <1>2, WFMin
<1>4. \A y \in U : ~(y < x)
  BY <1>3 DEF OpToRel
<1>5. x \in T
  <2> SUFFICES ASSUME x \notin T PROVE FALSE
    OBVIOUS
  <2>1. PICK t \in T : TRUE
    OBVIOUS
  <2>2. x \in Nat /\ t \in Nat /\ t <= x /\ t # x
    BY <2>1
  <2>3. x - 1 \in U
    BY <2>2
  <2> QED BY <2>3, <2>2, <1>4
<1> QED BY <1>5, SMT

\* A nonempty set of naturals has a least element.
LEMMA LeastElement ==
    ASSUME NEW T \in SUBSET Nat, T # {}
    PROVE  \E m \in T : \A t \in T : m <= t
<1> DEFINE R == OpToRel(<, Nat)
<1>1. IsWellFoundedOn(R, Nat)
  BY NatLessThanWellFounded
<1>2. PICK m \in T : \A t \in T : ~(<<t, m>> \in R)
  <2> HIDE DEF R
  <2> QED BY <1>1, WFMin
<1>3. m \in Nat /\ \A t \in T : t \in Nat /\ ~(t < m)
  BY <1>2 DEF OpToRel
<1> HIDE DEF R
<1>4. \A t \in T : m <= t
  BY <1>3
<1> QED BY <1>4

\* COALESCE(MAX(total_vector_count), 0) is a natural number, no total exceeds
\* it, and in a table with rows it is the total of one of them.
LEMMA MaxTotalIsMax ==
    ASSUME NEW d, Sound(d)
    PROVE  /\ MaxTotal(d) \in Nat
           /\ \A i \in DOMAIN d.stats : d.stats[i].total <= MaxTotal(d)
           /\ \/ MaxTotal(d) = 0
              \/ \E i \in DOMAIN d.stats : MaxTotal(d) = d.stats[i].total
<1>1. CASE DOMAIN d.stats = {}
  BY <1>1 DEF MaxTotal
<1>2. CASE DOMAIN d.stats # {}
  <2>1. Totals(d) \subseteq Nat /\ Totals(d) # {}
    BY <1>2 DEF Totals, Sound, Shaped, Row
  <2>2. PICK k \in Nat : \A t \in Totals(d) : t <= k
    BY DEF Totals, Sound
  <2>3. \E m \in Totals(d) : \A t \in Totals(d) : t <= m
    BY <2>1, <2>2, GreatestElement
  <2>4. MaxTotal(d) \in Totals(d) /\ \A t \in Totals(d) : t <= MaxTotal(d)
    BY <1>2, <2>3, Zenon DEF MaxTotal
  <2> QED BY <2>1, <2>4 DEF Totals
<1> QED BY <1>1, <1>2

-----------------------------------------------------------------------------
(* The statements: what the tables e after one have in common with the     *)
(* tables d before it.                                                     *)

Inserted(e, d, h) ==
    LET id == d.lastId + 1 IN
    /\ e.lastId = id /\ id \in Nat
    /\ e.blob = d.blob \cup {id}
    /\ DOMAIN e.stats = DOMAIN d.stats \cup {id}
    /\ DOMAIN e.image = DOMAIN d.image \cup {id}
    /\ id \notin DOMAIN d.stats
    /\ e.stats[id].indexed = 0 /\ e.image[id] = h
    /\ \A i \in DOMAIN d.stats :
          e.stats[i] = d.stats[i] /\ e.image[i] = d.image[i]

Removed(e, d, id) ==
    /\ e.lastId = d.lastId
    /\ e.blob = d.blob \ {id}
    /\ DOMAIN e.stats = DOMAIN d.stats \ {id}
    /\ DOMAIN e.image = DOMAIN d.image \ {id}
    /\ \A i \in DOMAIN e.stats :
          e.stats[i] = d.stats[i] /\ e.image[i] = d.image[i]

Marked(e, d, ids) ==
    /\ e.lastId = d.lastId
    /\ e.image = d.image
    /\ e.blob = d.blob
    /\ DOMAIN e.stats = DOMAIN d.stats
    /\ \A i \in DOMAIN d.stats :
          /\ SameRange(e, d, i)
          /\ e.stats[i].indexed = IF i \in ids THEN 1 ELSE d.stats[i].indexed

\* Adding an image adds a row with a new id and changes no other, and keeps
\* the tables sound: its block of vector ids lies above every block there is.
LEMMA InsertSound ==
    ASSUME NEW d, Sound(d), NEW h, NEW c \in Nat
    PROVE  Sound(Insert(d, h, c)) /\ Inserted(Insert(d, h, c), d, h)
<1> DEFINE e == Insert(d, h, c)
           id == d.lastId + 1
           row == [count |-> c, total |-> MaxTotal(d) + c, indexed |-> 0]
<1>0. d.lastId \in Nat /\ DOMAIN d.stats \subseteq 1..d.lastId
      /\ DOMAIN d.image = DOMAIN d.stats /\ d.blob \subseteq DOMAIN d.stats
      /\ \A i \in DOMAIN d.stats : d.stats[i] \in Row
  BY DEF Sound, Shaped
<1>1. /\ MaxTotal(d) \in Nat
      /\ \A i \in DOMAIN d.stats : d.stats[i].total <= MaxTotal(d)
  BY MaxTotalIsMax
<1>2. /\ e.lastId = id
      /\ e.blob = d.blob \cup {id}
      /\ DOMAIN e.stats = DOMAIN d.stats \cup {id}
      /\ DOMAIN e.image = DOMAIN d.image \cup {id}
      /\ e.stats = [i \in DOMAIN d.stats \cup {id} |->
                      IF i = id THEN row ELSE d.stats[i]]
      /\ e.image = [i \in DOMAIN d.image \cup {id} |->
                      IF i = id THEN h ELSE d.image[i]]
      /\ e = [image |-> e.image, stats |-> e.stats, blob |-> e.blob,
              lastId |-> e.lastId]
  BY DEF Insert, InsertAbove
<1>3. id \notin DOMAIN d.stats /\ id \in Nat
  BY <1>0
<1>4. /\ e.stats[id] = row
      /\ e.image[id] = h
      /\ \A i \in DOMAIN d.stats : e.stats[i] = d.stats[i] /\ e.image[i] = d.image[i]
  BY <1>0, <1>2, <1>3
<1> HIDE DEF e
<1>5. Shaped(e)
  BY <1>0, <1>1, <1>2, <1>4 DEF Shaped, Row
<1>6. Ordered(e)
  <2> SUFFICES ASSUME NEW i \in DOMAIN e.stats, NEW j \in DOMAIN e.stats, i < j
               PROVE  e.stats[i].total <= e.stats[j].total - e.stats[j].count
    BY DEF Ordered
  <2>1. i \in DOMAIN d.stats
    BY <1>0, <1>2
  <2>2. CASE j = id
    BY <1>0, <1>1, <1>4, <2>1, <2>2 DEF Row
  <2>3. CASE j \in DOMAIN d.stats
    BY <1>4, <2>1, <2>3 DEF Sound, Ordered
  <2> QED BY <1>2, <2>2, <2>3
<1>7. \A i \in DOMAIN e.stats :
         /\ e.stats[i].count <= e.stats[i].total
         /\ e.stats[i].total <= MaxTotal(d) + c
  <2> TAKE i \in DOMAIN e.stats
  <2>1. CASE i = id
    BY <1>0, <1>1, <1>4, <2>1
  <2>2. CASE i \in DOMAIN d.stats
    BY <1>0, <1>1, <1>4, <2>2 DEF Sound, Row
  <2> QED BY <1>2, <2>1, <2>2
<1>8. Sound(e)
  BY <1>0, <1>1, <1>5, <1>6, <1>7 DEF Sound
<1>9. Inserted(e, d, h)
  <2>1. /\ e.lastId = id /\ e.blob = d.blob \cup {id}
        /\ DOMAIN e.stats = DOMAIN d.stats \cup {id}
        /\ DOMAIN e.image = DOMAIN d.image \cup {id}
    BY <1>2
  <2>2. e.stats[id].indexed = 0
    BY <1>4
  <2> QED BY <1>3, <1>4, <2>1, <2>2 DEF Inserted
<1> QED BY <1>8, <1>9 DEF e

\* Deleting an image takes its row and changes no other, and keeps the tables
\* sound.
LEMMA RemoveSound ==
    ASSUME NEW d, Sound(d), NEW id
    PROVE  Sound(Delete(d, id)) /\ Removed(Delete(d, id), d, id)
<1> DEFINE e == Delete(d, id)
<1>1. /\ e.lastId = d.lastId
      /\ e.blob = d.blob \ {id}
      /\ DOMAIN e.stats = DOMAIN d.stats \ {id}
      /\ DOMAIN e.image = DOMAIN d.image \ {id}
      /\ \A i \in DOMAIN e.stats : e.stats[i] = d.stats[i]
      /\ \A i \in DOMAIN e.image : e.image[i] = d.image[i]
      /\ e = [image |-> e.image, stats |-> e.stats, blob |-> e.blob,
              lastId |-> e.lastId]
  BY DEF Delete
<1> HIDE DEF e
<1>2. Shaped(e)
  BY <1>1 DEF Sound, Shaped
<1>3. Ordered(e)
  BY <1>1 DEF Sound, Ordered
<1>4. \A k \in Nat : (\A i \in DOMAIN d.stats : d.stats[i].total <= k)
                     => (\A i \in DOMAIN e.stats : e.stats[i].total <= k)
  BY <1>1
<1>5. \A i \in DOMAIN e.stats : e.stats[i].count <= e.stats[i].total
  BY <1>1 DEF Sound
<1>6. \E k \in Nat : \A i \in DOMAIN d.stats : d.stats[i].total <= k
  BY DEF Sound
<1>7. Sound(e)
  BY <1>2, <1>3, <1>4, <1>5, <1>6 DEF Sound
<1>8. DOMAIN e.stats = DOMAIN e.image
  BY <1>2 DEF Shaped
<1>9. Removed(e, d, id)
  BY <1>1, <1>8 DEF Removed
<1> QED BY <1>7, <1>9 DEF e

\* Tables whose rows differ in their "indexed" flags and whose blobs are fewer
\* are as sound as the ones they came from.
LEMMA SameRangesSound ==
    ASSUME NEW d, Sound(d), NEW e,
           e = [image |-> e.image, stats |-> e.stats, blob |-> e.blob,
                lastId |-> e.lastId],
           e.image = d.image, e.lastId = d.lastId, e.blob \subseteq d.blob,
           DOMAIN e.stats = DOMAIN d.stats,
           \A i \in DOMAIN e.stats : e.stats[i] \in Row /\ SameRange(e, d, i)
    PROVE  Sound(e)
<1> USE DEF SameRange
<1>1. Shaped(e)
  BY DEF Sound, Shaped
<1>2. Ordered(e)
  BY DEF Sound, Ordered
<1>3. \A k \in Nat : (\A i \in DOMAIN d.stats : d.stats[i].total <= k)
                     => (\A i \in DOMAIN e.stats : e.stats[i].total <= k)
  OBVIOUS
<1>4. \E k \in Nat : \A i \in DOMAIN d.stats : d.stats[i].total <= k
  BY DEF Sound
<1>5. \A i \in DOMAIN e.stats : e.stats[i].count <= e.stats[i].total
  BY DEF Sound
<1> QED BY <1>1, <1>2, <1>3, <1>4, <1>5 DEF Sound

\* Marking images as indexed sets their flag where they have a row, changes
\* nothing else, and keeps the tables sound.
LEMMA MarkIndexedSound ==
    ASSUME NEW d, Sound(d), NEW ids
    PROVE  Sound(MarkIndexed(d, ids)) /\ Marked(MarkIndexed(d, ids), d, ids)
<1> DEFINE e == MarkIndexed(d, ids)
<1>1. /\ e = [image |-> e.image, stats |-> e.stats, blob |-> e.blob,
              lastId |-> e.lastId]
      /\ e.image = d.image /\ e.lastId = d.lastId /\ e.blob = d.blob
      /\ DOMAIN e.stats = DOMAIN d.stats
      /\ \A i \in DOMAIN d.stats :
            e.stats[i] = IF i \in ids THEN AsIndexed(d.stats[i]) ELSE d.stats[i]
  BY DEF MarkIndexed
<1> HIDE DEF e
<1>2. \A i \in DOMAIN d.stats : d.stats[i] \in Row
  BY DEF Sound, Shaped
<1>3. \A i \in DOMAIN d.stats :
         /\ e.stats[i] \in Row /\ SameRange(e, d, i)
         /\ e.stats[i].indexed = IF i \in ids THEN 1 ELSE d.stats[i].indexed
  <2> TAKE i \in DOMAIN d.stats
  <2>1. CASE i \in ids
    <3>1. e.stats[i] = AsIndexed(d.stats[i])
      BY <1>1, <2>1
    <3>2. d.stats[i].count \in Nat /\ d.stats[i].total \in Nat /\ 1 \in 0..1
      BY <1>2 DEF Row
    <3> QED BY <2>1, <3>1, <3>2 DEF Row, AsIndexed, SameRange
  <2>2. CASE i \notin ids
    BY <1>1, <1>2, <2>2 DEF SameRange
  <2> QED BY <2>1, <2>2
<1>4. Sound(e)
  BY <1>1, <1>3, SameRangesSound
<1>5. Marked(e, d, ids)
  BY <1>1, <1>3 DEF Marked
<1> QED BY <1>4, <1>5 DEF e

-----------------------------------------------------------------------------
(* The ranges.                                                             *)

\* A vector id belongs to one image at most.
LEMMA OneOwner ==
    ASSUME NEW d, Sound(d), NEW v \in Nat,
           NEW i \in Owners(d, v), NEW j \in Owners(d, v)
    PROVE  i = j
<1>1. /\ i \in DOMAIN d.stats /\ j \in DOMAIN d.stats
      /\ v <= d.stats[i].total /\ d.stats[i].total - d.stats[i].count < v
      /\ v <= d.stats[j].total /\ d.stats[j].total - d.stats[j].count < v
  BY DEF Owners
<1>2. /\ d.stats[i] \in Row /\ d.stats[j] \in Row
      /\ DOMAIN d.stats \subseteq 1..d.lastId /\ d.lastId \in Nat
  BY <1>1 DEF Sound, Shaped
<1>3. /\ i < j => d.stats[i].total <= d.stats[j].total - d.stats[j].count
      /\ j < i => d.stats[j].total <= d.stats[i].total - d.stats[i].count
  BY <1>1 DEF Sound, Ordered
<1> QED BY <1>1, <1>2, <1>3 DEF Row
=============================================================================
