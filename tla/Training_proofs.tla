-------------------------- MODULE Training_proofs --------------------------
(***************************************************************************)
(* For any catalog, options, seeds, levels and parameters of the graph.    *)
(***************************************************************************)
EXTENDS Training, Data_proofs, FunctionTheorems

-----------------------------------------------------------------------------
(* Heaps that grow and shrink.                                             *)

LEMMA FlippedHalf ==
    ASSUME NEW L \in Nat, NEW i \in 1..L, L + 1 - i # 1
    PROVE  /\ (L + 1 - i) \div 2 \in 1..L
           /\ L + 1 - ((L + 1 - i) \div 2) \in (i + 1)..L
OBVIOUS

\* A way up: from the last position to the parents, until E.
IsWayUp(p, L, E) ==
    /\ L \in p /\ p \subseteq 1..L
    /\ \A m \in p \ E : m \div 2 \in p
    /\ \A m \in p \ {L} : \E a \in p \ E : m = a \div 2
    /\ \E e \in p \cap E : \A m \in p \cap E : m = e

LEMMA WayUpEnds ==
    ASSUME NEW L \in Nat \ {0}, NEW E \in SUBSET (1..L), 1 \in E,
           NEW p, \A j \in 1..L : p[j] = IF j \in E THEN {j} ELSE {j} \cup p[j \div 2]
    PROVE  IsWayUp(p[L], L, E)
<1> DEFINE F == {i \in 1..L : L + 1 - i \in E}
           N == [i \in 1..L |-> L + 1 - ((L + 1 - i) \div 2)]
           q == [i \in 1..L |-> {x \in 1..L : L + 1 - x \in p[L + 1 - i]}]
           T == {j \in 1..L : ~(p[j] \subseteq 1..L)}
<1>1. \A j \in (1..L) \ E : j \div 2 \in 1..L /\ j \div 2 < j
  <2> SUFFICES ASSUME NEW j \in (1..L) \ E PROVE j \div 2 \in 1..L /\ j \div 2 < j
    OBVIOUS
  <2>1. j # 1
    OBVIOUS
  <2> QED BY <2>1
<1>2. ASSUME T # {} PROVE FALSE
  <2>1. T \in SUBSET Nat
    OBVIOUS
  <2>2. PICK j \in T : \A t \in T : j <= t
    <3> HIDE DEF T
    <3> QED BY <1>2, <2>1, Least
  <2>3. j \in 1..L /\ ~(p[j] \subseteq 1..L)
    OBVIOUS
  <2>4. j \notin E /\ p[j] = {j} \cup p[j \div 2]
    <3>1. p[j] = IF j \in E THEN {j} ELSE {j} \cup p[j \div 2]
      BY <2>3
    <3>2. {j} \subseteq 1..L
      BY <2>3
    <3> QED BY <2>3, <3>1, <3>2
  <2>5. j \div 2 \in 1..L /\ j \div 2 < j
    BY <1>1, <2>3, <2>4
  <2>6. j \div 2 \notin T
    <3>1. ~(j <= j \div 2)
      BY <2>3, <2>5
    <3> HIDE DEF T
    <3> QED BY <2>2, <3>1
  <2> QED BY <2>3, <2>4, <2>5, <2>6
<1>3. \A j \in 1..L : p[j] \subseteq 1..L
  BY <1>2
<1>4. \A i \in (1..L) \ F : N[i] \in (i + 1)..L
  <2> SUFFICES ASSUME NEW i \in (1..L) \ F PROVE N[i] \in (i + 1)..L
    OBVIOUS
  <2>1. L + 1 - i # 1
    BY <1>1
  <2>2. N[i] = L + 1 - ((L + 1 - i) \div 2)
    OBVIOUS
  <2> HIDE DEF N
  <2> QED BY <2>1, <2>2, FlippedHalf
<1>5. Follows(q, L, F, N)
  <2> SUFFICES ASSUME NEW i \in 1..L
               PROVE  q[i] = IF i \in F THEN {i} ELSE {i} \cup q[N[i]]
    BY DEF Follows
  <2>0. PICK j \in 1..L : j = L + 1 - i /\ i = L + 1 - j /\ (i \in F <=> j \in E)
    OBVIOUS
  <2>1. q[i] = {x \in 1..L : L + 1 - x \in p[j]}
    BY <2>0
  <2>2. CASE j \in E
    <3>1. p[j] = {j}
      BY <2>2
    <3>2. \A x \in 1..L : L + 1 - x = j <=> x = i
      BY <2>0
    <3> HIDE DEF q
    <3> QED BY <2>0, <2>1, <2>2, <3>1, <3>2
  <2>3. CASE j \notin E
    <3>1. p[j] = {j} \cup p[j \div 2]
      BY <2>3
    <3>2. N[i] \in 1..L /\ L + 1 - N[i] = j \div 2
      BY <1>1, <1>4, <2>0, <2>3
    <3>3. q[N[i]] = {x \in 1..L : L + 1 - x \in p[j \div 2]}
      BY <3>2
    <3>4. \A x \in 1..L : L + 1 - x = j <=> x = i
      BY <2>0
    <3> HIDE DEF q, N
    <3> QED BY <2>0, <2>1, <2>3, <3>1, <3>3, <3>4
  <2> QED BY <2>2, <2>3
<1>6. IsWay(q[1], 1, L, F, N)
  <2>1. 1 \in 1..L
    OBVIOUS
  <2> HIDE DEF q, F, N
  <2> QED BY <1>4, <1>5, <2>1, WayEnds
<1>7. \A x \in 1..L : (x \in q[1] <=> L + 1 - x \in p[L]) /\ (x \in F <=> L + 1 - x \in E)
  OBVIOUS
<1>8. \A x \in 1..L : N[x] = L + 1 - ((L + 1 - x) \div 2)
  OBVIOUS
<1>9. \A x \in 1..L : (x \in p[L] <=> L + 1 - x \in q[1]) /\ (x \in E <=> L + 1 - x \in F)
  <2> SUFFICES ASSUME NEW x \in 1..L
               PROVE  (x \in p[L] <=> L + 1 - x \in q[1]) /\ (x \in E <=> L + 1 - x \in F)
    OBVIOUS
  <2>1. L + 1 - x \in 1..L /\ L + 1 - (L + 1 - x) = x
    OBVIOUS
  <2> HIDE DEF q, F
  <2> QED BY <1>7, <2>1
<1> HIDE DEF q, F, N
<1>10. L \in p[L]
  <2>1. L \in 1..L
    OBVIOUS
  <2>2. p[L] = IF L \in E THEN {L} ELSE {L} \cup p[L \div 2]
    BY <2>1
  <2> QED BY <2>2
<1>11. ASSUME NEW m \in p[L] \ E PROVE m \div 2 \in p[L]
  <2>1. m \in 1..L /\ L + 1 - m \in 1..L /\ L + 1 - m \in q[1] \ F
    BY <1>3, <1>9, <1>11
  <2>2. N[L + 1 - m] \in q[1]
    BY <1>6, <2>1 DEF IsWay
  <2>3. m \div 2 \in 1..L
    BY <1>1, <2>1
  <2>4. N[L + 1 - m] = L + 1 - (m \div 2)
    BY <1>8, <2>1
  <2> QED BY <1>9, <2>2, <2>3, <2>4
<1>12. ASSUME NEW m \in p[L] \ {L} PROVE \E a \in p[L] \ E : m = a \div 2
  <2>1. m \in 1..L /\ L + 1 - m \in 1..L /\ L + 1 - m \in q[1] \ {1}
    BY <1>3, <1>9, <1>12
  <2>2. PICK b \in q[1] \ F : L + 1 - m = N[b]
    BY <1>6, <2>1 DEF IsWay
  <2>3. b \in 1..L
    BY <1>6 DEF IsWay
  <2>4. PICK a \in 1..L : a = L + 1 - b /\ a \in p[L] \ E
    BY <1>7, <2>2, <2>3
  <2>5. L + 1 - m = L + 1 - (a \div 2)
    BY <1>8, <2>2, <2>3, <2>4
  <2>6. a \div 2 \in Int
    BY <2>4
  <2> QED BY <2>1, <2>4, <2>5, <2>6
<1>13. \E e \in p[L] \cap E : \A m \in p[L] \cap E : m = e
  <2>1. PICK b \in q[1] \cap F : \A m \in q[1] \cap F : m = b
    BY <1>6 DEF IsWay
  <2>2. b \in 1..L
    BY <1>6 DEF IsWay
  <2>3. L + 1 - b \in p[L] \cap E
    BY <1>7, <2>1, <2>2
  <2>4. ASSUME NEW m \in p[L] \cap E PROVE m = L + 1 - b
    <3>1. m \in 1..L /\ L + 1 - m \in q[1] \cap F
      BY <1>3, <1>9
    <3> QED BY <2>1, <2>2, <3>1
  <2> QED BY <2>3, <2>4
<1>14. p[L] \subseteq 1..L
  BY <1>3
<1> HIDE DEF T
<1> QED BY <1>10, <1>11, <1>12, <1>13, <1>14 DEF IsWayUp

\* Sequences of one length with the same elements.
LEMMA SameRangeDistinct ==
    ASSUME NEW X, NEW r \in Seq(X), NEW s \in Seq(X), Len(r) = Len(s), Range(r) = Range(s),
           Distinct(s)
    PROVE  Distinct(r)
<1>1. PICK L \in Nat : L = Len(r) /\ DOMAIN r = 1..L
  BY LenProperties
<1>2. IsFiniteSet(Range(r)) /\ Cardinality(Range(r)) = L
  BY <1>1, CountIn
<1>3. IsFiniteSet(1..L) /\ Cardinality(1..L) = L
  BY FS_Interval, SMTT(40)
<1>4. r \in Surjection(1..L, Range(r))
  <2>1. r \in [1..L -> Range(r)]
    BY <1>1 DEF Range
  <2> QED BY <1>1, <2>1 DEF Surjection, Range
<1>5. r \in Injection(1..L, Range(r))
  BY <1>2, <1>3, <1>4, FS_SurjSameCardinalityImpliesInj
<1> QED BY <1>1, <1>5 DEF Injection, IsInjective, Distinct

\* A push keeps what is in the heap, and the heap in order.
LEMMA PushHeapPushes ==
    ASSUME NEW X, \A y \in X : y.dist \in Int, NEW h \in Seq(X), NEW x \in X
    PROVE  LET r == PushHeap(h, x) IN
           /\ r \in Seq(X) /\ Len(r) = Len(h) + 1 /\ Range(r) = Range(h) \cup {x}
           /\ Distinct(h) /\ x \notin Range(h) => Distinct(r)
           /\ HeapFrom(h, 1) => HeapFrom(r, 1)
<1> DEFINE L == Len(h) + 1
           stays(j) == j = 1 \/ h[j \div 2].dist >= x.dist
           E == {j \in 1..L : stays(j)}
           Step(f) == [j \in 1..L |-> IF stays(j) THEN {j} ELSE {j} \cup f[j \div 2]]
           path == CHOOSE f : f = Step(f)
           r == [j \in 1..L |->
                    CASE j \notin path[L] -> h[j]
                      [] j \in path[L] /\ stays(j) -> x
                      [] OTHER -> h[j \div 2]]
           s == Append(h, x)
<1>1. PushHeap(h, x) = r
  BY DEF PushHeap
<1>2. /\ L \in Nat \ {0} /\ DOMAIN h = 1..(L - 1) /\ \A n \in 1..(L - 1) : h[n] \in X
      /\ 1 \in E /\ E \in SUBSET (1..L)
  BY LenProperties, ElementOfSeq
<1>3. \A j \in (1..L) \ E : j \div 2 \in 1..(L - 1)
  <2> SUFFICES ASSUME NEW j \in 1..L, j # 1 PROVE j \div 2 \in 1..(L - 1)
    OBVIOUS
  <2> QED BY <1>2
<1>4. path = Step(path)
  <2> DEFINE N == [j \in 1..L |-> j \div 2]
             P == Way(L, E, N)
  <2>1. \A j \in (1..L) \ E : N[j] \in 1..L
    <3> SUFFICES ASSUME NEW j \in (1..L) \ E PROVE j \div 2 \in 1..L
      OBVIOUS
    <3> HIDE DEF L, E
    <3> QED BY <1>2, <1>3
  <2>2. Follows(P, L, E, N)
    <3> HIDE DEF E, N, L
    <3> QED BY <1>2, <2>1, WayExists
  <2>3. DOMAIN P = 1..L /\ P = [j \in 1..L |-> P[j]]
    BY DEF Way
  <2>4. \A j \in 1..L : P[j] = IF stays(j) THEN {j} ELSE {j} \cup P[j \div 2]
    <3> HIDE DEF P, L, stays
    <3> QED BY <2>2 DEF Follows
  <2>5. P = Step(P)
    <3> HIDE DEF P, L, stays
    <3> QED BY <2>3, <2>4
  <2> QED BY <2>5
<1>5. \A j \in 1..L : path[j] = IF j \in E THEN {j} ELSE {j} \cup path[j \div 2]
  <2> HIDE DEF path, L, stays
  <2> QED BY <1>4
<1> HIDE DEF path
<1>6. IsWayUp(path[L], L, E)
  <2> HIDE DEF L, E
  <2> QED BY <1>2, <1>5, WayUpEnds
<1>7. PICK p : p = path[L] /\ IsWayUp(p, L, E)
  BY <1>6
<1>8. /\ DOMAIN r = 1..L
      /\ \A j \in 1..L : /\ j \notin p => r[j] = h[j]
                         /\ j \in p \cap E => r[j] = x
                         /\ j \in p \ E => r[j] = h[j \div 2]
  <2>1. \A j \in 1..L : r[j] = CASE j \notin path[L] -> h[j]
                                 [] j \in path[L] /\ stays(j) -> x
                                 [] OTHER -> h[j \div 2]
    OBVIOUS
  <2>2. \A j \in 1..L : j \in E <=> stays(j)
    OBVIOUS
  <2>3. DOMAIN r = 1..L
    OBVIOUS
  <2> HIDE DEF r, E, stays, L
  <2> QED BY <1>7, <2>1, <2>2, <2>3, Zenon
<1>9. /\ s \in Seq(X) /\ Len(s) = L /\ DOMAIN s = 1..L /\ s[L] = x
      /\ \A n \in 1..(L - 1) : s[n] = h[n]
      /\ Range(s) = Range(h) \cup {x} /\ (Distinct(h) /\ x \notin Range(h) => Distinct(s))
  BY <1>2, AppendAdds
<1>10. L \in p /\ p \subseteq 1..L /\ (\A m \in p \ E : m \div 2 \in p)
       /\ \A m, n \in p \cap E : m = n
  BY <1>7 DEF IsWayUp
<1>11. \A j \in E : j = 1 \/ h[j \div 2].dist >= x.dist
  OBVIOUS
<1>12. \A j \in (1..L) \ E : j # 1 /\ h[j \div 2].dist < x.dist
  <2> SUFFICES ASSUME NEW j \in (1..L) \ E PROVE j # 1 /\ h[j \div 2].dist < x.dist
    OBVIOUS
  <2>1. j # 1 /\ ~(h[j \div 2].dist >= x.dist)
    OBVIOUS
  <2>2. j \div 2 \in 1..(L - 1)
    <3> HIDE DEF L, E
    <3> QED BY <1>3
  <2>3. h[j \div 2].dist \in Int /\ x.dist \in Int
    <3> HIDE DEF L
    <3> QED BY <1>2, <2>2
  <2> QED BY <2>1, <2>3
<1> HIDE DEF r, E, L, s
<1>13. Range(r) = Range(s)
  <2>1. ASSUME NEW y \in Range(r) PROVE y \in Range(s)
    <3>1. PICK j \in 1..L : y = r[j]
      BY <1>8 DEF Range
    <3>2. CASE j \notin p
      <4>1. j \in 1..(L - 1)
        BY <1>2, <1>10, <3>2
      <4> QED BY <1>8, <1>9, <3>1, <3>2, <4>1 DEF Range
    <3>3. CASE j \in p \cap E
      BY <1>2, <1>8, <1>9, <3>1, <3>3 DEF Range
    <3>4. CASE j \in p \ E
      <4>1. j \div 2 \in 1..(L - 1) /\ j \div 2 \in 1..L
        BY <1>2, <1>3, <3>4
      <4> QED BY <1>8, <1>9, <3>1, <3>4, <4>1 DEF Range
    <3> QED BY <3>2, <3>3, <3>4
  <2>2. ASSUME NEW y \in Range(s) PROVE y \in Range(r)
    <3>1. PICK j \in 1..L : y = s[j]
      BY <1>9 DEF Range
    <3>2. CASE j \notin p
      <4>1. j \in 1..(L - 1)
        BY <1>2, <1>10, <3>2
      <4> QED BY <1>8, <1>9, <3>1, <3>2, <4>1 DEF Range
    <3>3. CASE j = L
      <4>1. PICK e \in p \cap E : TRUE
        BY <1>7 DEF IsWayUp
      <4> QED BY <1>8, <1>9, <1>10, <3>1, <3>3, <4>1 DEF Range
    <3>4. CASE j \in p \ {L}
      <4>1. PICK a \in p \ E : j = a \div 2
        BY <1>7, <3>4 DEF IsWayUp
      <4>2. j \in 1..(L - 1) /\ a \in 1..L
        BY <1>2, <1>10, <3>4, <4>1
      <4>3. r[a] = h[j]
        BY <1>8, <4>1, <4>2
      <4>4. y = h[j]
        BY <1>9, <3>1, <4>2
      <4>5. a \in DOMAIN r
        BY <1>8, <4>2
      <4> QED BY <4>3, <4>4, <4>5 DEF Range
    <3> QED BY <3>2, <3>3, <3>4
  <2> QED BY <2>1, <2>2
<1>14. r \in Seq(X) /\ Len(r) = L
  <2>1. \A j \in 1..L : r[j] \in X
    <3>1. \A j \in 1..L : r[j] \in Range(s)
      BY <1>8, <1>13 DEF Range
    <3>2. Range(s) \subseteq X
      BY <1>9, ElementOfSeq DEF Range
    <3> QED BY <3>1, <3>2
  <2>2. r = [j \in 1..L |-> r[j]]
    BY <1>8 DEF r
  <2>3. L \in Nat
    BY <1>2
  <2> QED BY <2>1, <2>2, <2>3
<1>15. Distinct(s) => Distinct(r)
  BY <1>2, <1>9, <1>13, <1>14, SameRangeDistinct
<1>16. ASSUME HeapFrom(h, 1), NEW j \in 1..L, j \div 2 \in 1..L
       PROVE  r[j].dist <= r[j \div 2].dist
  <2>1. PICK m \in 1..L : m = j \div 2 /\ m \in 1..(L - 1) /\ j # 1
    BY <1>2, <1>16
  <2>2. x.dist \in Int /\ \A n \in 1..(L - 1) : h[n].dist \in Int
    BY <1>2
  <2>3. \A n \in 1..(L - 1) : n \div 2 \in 1..(L - 1) => h[n].dist <= h[n \div 2].dist
    <3>1. Len(h) = L - 1
      BY <1>2 DEF L
    <3> QED BY <1>16, <3>1 DEF HeapFrom
  <2>4. m \in p => h[m].dist < x.dist /\ m # L
    <3>1. SUFFICES ASSUME m \in p PROVE h[m].dist < x.dist
      BY <1>2, <2>1
    <3>2. m \in p \ {L}
      BY <1>2, <2>1, <3>1
    <3>3. PICK a \in p \ E : m = a \div 2
      BY <1>7, <3>2 DEF IsWayUp
    <3> QED BY <1>10, <1>12, <3>3
  <2>5. m \in p \ E => m \div 2 \in 1..(L - 1) /\ h[m].dist <= h[m \div 2].dist
    <3>1. m \in p \ E => m \div 2 \in 1..(L - 1)
      BY <1>3, <2>1
    <3> QED BY <2>1, <2>3, <3>1
  <2>6. m \in p => r[m].dist \in Int /\ h[m].dist <= r[m].dist
    <3>1. CASE m \in p \cap E
      BY <1>8, <2>1, <2>2, <2>4, <3>1
    <3>2. CASE m \in p \ E
      BY <1>8, <2>1, <2>2, <2>5, <3>2
    <3> QED BY <3>1, <3>2
  <2>7. m \notin p => r[m] = h[m]
    BY <1>8, <2>1
  <2>8. CASE j \notin p
    <3>1. j \in 1..(L - 1)
      BY <1>2, <1>10, <2>8
    <3>2. h[j].dist <= h[m].dist
      BY <2>1, <2>3, <3>1
    <3>3. r[j] = h[j]
      BY <1>8, <2>8
    <3> QED BY <2>1, <2>2, <2>6, <2>7, <3>1, <3>2, <3>3
  <2>9. CASE j \in p \cap E
    <3>1. h[m].dist >= x.dist
      BY <1>11, <2>1, <2>9
    <3>2. r[j] = x
      BY <1>8, <2>9
    <3> QED BY <2>1, <2>2, <2>4, <2>7, <3>1, <3>2
  <2>10. CASE j \in p \ E
    <3>1. r[j] = h[m] /\ m \in p
      BY <1>8, <1>10, <2>1, <2>10
    <3> QED BY <2>1, <2>6, <3>1
  <2> QED BY <2>8, <2>9, <2>10
<1>17. HeapFrom(h, 1) => HeapFrom(r, 1)
  BY <1>14, <1>16 DEF HeapFrom
<1> QED BY <1>1, <1>9, <1>13, <1>14, <1>15, <1>17 DEF L, s, r

\* A pop takes the first item out.
LEMMA PopHeapPops ==
    ASSUME NEW X, \A y \in X : y.dist \in Int, NEW h \in Seq(X), Len(h) # 0
    PROVE  LET r == PopHeap(h) IN
           /\ r \in Seq(X) /\ Len(r) = Len(h) - 1 /\ Range(r) \subseteq Range(h)
           /\ Distinct(h) => Distinct(r) /\ Range(r) = Range(h) \ {h[1]}
           /\ HeapFrom(h, 1) => HeapFrom(r, 1)
<1>1. PICK L \in Nat \ {0} : L = Len(h) /\ DOMAIN h = 1..L /\ \A n \in 1..L : h[n] \in X
  BY LenProperties, ElementOfSeq
<1>2. CASE L = 1
  <2>1. PopHeap(h) = <<>>
    BY <1>1, <1>2 DEF PopHeap
  <2>2. Range(<<>>) = {} /\ Len(<<>>) = 0 /\ <<>> \in Seq(X) /\ Distinct(<<>>)
        /\ HeapFrom(<<>>, 1)
    BY DEF Range, Distinct, HeapFrom
  <2>3. Range(h) = {h[1]}
    BY <1>1, <1>2 DEF Range
  <2> QED BY <1>1, <1>2, <2>1, <2>2, <2>3
<1>3. CASE L # 1
  <2> DEFINE s == [Front(h) EXCEPT ![1] = Last(h)]
             r == PopHeap(h)
  <2>1. PICK m \in Nat \ {0} : L = m + 1
    <3>1. L - 1 \in Nat \ {0} /\ L = (L - 1) + 1
      BY <1>3
    <3> QED BY <3>1
  <2>2. r = SiftDown(s, 1)
    BY <1>1, <1>3 DEF PopHeap
  <2>3. Front(h) \in Seq(X) /\ Len(Front(h)) = m /\ \A n \in 1..m : Front(h)[n] = h[n]
    BY <1>1, <2>1 DEF Front
  <2>4. Last(h) = h[m + 1] /\ h[m + 1] \in X /\ DOMAIN Front(h) = 1..m /\ 1 \in 1..m
    BY <1>1, <2>1, <2>3 DEF Last
  <2>5. /\ s \in Seq(X) /\ Len(s) = m /\ DOMAIN s = 1..m
        /\ s[1] = h[m + 1] /\ \A n \in 1..m : n # 1 => s[n] = h[n]
    BY <2>3, <2>4
  <2> HIDE DEF s, r
  <2>6. r \in Seq(X) /\ Rearranged(r, s) /\ (HeapFrom(s, 2) => HeapFrom(r, 1))
    BY <2>2, <2>4, <2>5, SiftDownKeeps
  <2>7. HeapFrom(h, 1) => HeapFrom(s, 2)
    <3> SUFFICES ASSUME HeapFrom(h, 1), NEW j \in 1..m, NEW a \in 2..m, a = j \div 2
                 PROVE  s[j].dist <= s[a].dist
      BY <2>5 DEF HeapFrom
    <3>1. j # 1 /\ a # 1 /\ a \in 1..m /\ j \in 1..L /\ j \div 2 \in 1..L
      BY <2>1
    <3>2. h[j].dist <= h[j \div 2].dist
      BY <1>1, <3>1 DEF HeapFrom
    <3> QED BY <2>5, <3>1, <3>2
  <2>8. Range(s) \subseteq Range(h)
    BY <1>1, <2>1, <2>5 DEF Range
  <2>9. ASSUME Distinct(h)
        PROVE  Distinct(s) /\ Range(s) = Range(h) \ {h[1]}
    <3>1. \A n \in 1..(m + 1), o \in 1..(m + 1) : n # o => h[n] # h[o]
      BY <1>1, <2>1, <2>9 DEF Distinct
    <3>2. Distinct(s)
      BY <2>5, <3>1 DEF Distinct
    <3>3. \A n \in 1..m : s[n] # h[1]
      BY <2>5, <3>1
    <3>4. ASSUME NEW y \in Range(h), y # h[1] PROVE y \in Range(s)
      <4>1. PICK n \in 1..(m + 1) : y = h[n] /\ n # 1
        BY <1>1, <2>1, <3>4 DEF Range
      <4>2. CASE n = m + 1
        BY <2>4, <2>5, <4>1, <4>2 DEF Range
      <4>3. CASE n # m + 1
        <5>1. n \in 1..m
          BY <4>3
        <5> QED BY <2>5, <4>1, <5>1 DEF Range
      <4> QED BY <4>2, <4>3
    <3>5. h[1] \notin Range(s)
      BY <2>5, <3>3 DEF Range
    <3> QED BY <2>8, <3>2, <3>4, <3>5
  <2> QED BY <1>1, <2>1, <2>5, <2>6, <2>7, <2>8, <2>9 DEF Rearranged, r
<1> QED BY <1>2, <1>3

\* A queue is empty or its items come nearest first.
NearestFirst(s) == \A i, j \in 1..Len(s) : i < j => s[i].dist <= s[j].dist

LEMMA PrependAdds ==
    ASSUME NEW X, NEW h \in Seq(X), NEW x \in X
    PROVE  LET s == <<x>> \o h IN
           /\ s \in Seq(X) /\ Len(s) = Len(h) + 1 /\ s[1] = x
           /\ \A n \in 1..Len(h) : s[n + 1] = h[n]
           /\ Range(s) = Range(h) \cup {x}
           /\ Distinct(h) /\ x \notin Range(h) => Distinct(s)
<1> DEFINE s == <<x>> \o h
<1>1. PICK L \in Nat : L = Len(h) /\ DOMAIN h = 1..L
  BY LenProperties
<1>2. <<x>> \in Seq(X) /\ Len(<<x>>) = 1 /\ <<x>>[1] = x
  OBVIOUS
<1>3. s \in Seq(X) /\ Len(s) = L + 1 /\ s[1] = x /\ \A n \in 1..L : s[n + 1] = h[n]
  <2>1. /\ s \in Seq(X) /\ Len(s) = 1 + L
        /\ \A i \in 1..(1 + L) : s[i] = IF i <= 1 THEN <<x>>[i] ELSE h[i - 1]
    BY <1>1, <1>2, ConcatProperties
  <2>2. 1 \in 1..(1 + L) /\ \A n \in 1..L : n + 1 \in 1..(1 + L) /\ (n + 1) - 1 = n /\ ~(n + 1 <= 1)
    OBVIOUS
  <2> HIDE DEF s
  <2> QED BY <1>2, <2>1, <2>2
<1> HIDE DEF s
<1>4. DOMAIN s = 1..(L + 1)
  BY <1>3, LenProperties
<1>5. \A n \in 1..(L + 1) : n = 1 \/ \E m \in 1..L : n = m + 1
  <2> SUFFICES ASSUME NEW n \in 1..(L + 1), n # 1 PROVE \E m \in 1..L : n = m + 1
    OBVIOUS
  <2>1. n - 1 \in 1..L /\ n = (n - 1) + 1
    OBVIOUS
  <2> QED BY <2>1
<1>6. Range(s) = Range(h) \cup {x}
  <2>1. ASSUME NEW y \in Range(s) PROVE y \in Range(h) \cup {x}
    <3>1. PICK n \in 1..(L + 1) : y = s[n]
      BY <1>4 DEF Range
    <3>2. CASE n = 1
      BY <1>3, <3>1, <3>2
    <3>3. CASE n # 1
      <4>1. PICK m \in 1..L : n = m + 1
        BY <1>5, <3>3
      <4> QED BY <1>1, <1>3, <3>1, <4>1 DEF Range
    <3> QED BY <3>2, <3>3
  <2>2. ASSUME NEW y \in Range(h) PROVE y \in Range(s)
    <3>1. PICK n \in 1..L : y = h[n]
      BY <1>1 DEF Range
    <3>2. n + 1 \in 1..(L + 1)
      OBVIOUS
    <3> QED BY <1>3, <1>4, <3>1, <3>2 DEF Range
  <2>3. x \in Range(s)
    <3>1. 1 \in 1..(L + 1)
      OBVIOUS
    <3> QED BY <1>3, <1>4, <3>1 DEF Range
  <2> QED BY <2>1, <2>2, <2>3
<1>7. Distinct(h) /\ x \notin Range(h) => Distinct(s)
  <2> SUFFICES ASSUME Distinct(h), x \notin Range(h),
                      NEW m \in 1..(L + 1), NEW n \in 1..(L + 1), m # n
               PROVE  s[m] # s[n]
    BY <1>4 DEF Distinct
  <2>1. \A l \in 1..L : h[l] # x
    BY <1>1 DEF Range
  <2>2. \A k, l \in 1..L : k # l => h[k] # h[l]
    BY <1>1 DEF Distinct
  <2>3. CASE m = 1 \/ n = 1
    <3>1. \A k \in 1..(L + 1) : k # 1 => s[k] # x
      <4> SUFFICES ASSUME NEW k \in 1..(L + 1), k # 1 PROVE s[k] # x
        OBVIOUS
      <4>1. PICK l \in 1..L : k = l + 1
        BY <1>5
      <4> QED BY <1>3, <2>1, <4>1
    <3> QED BY <1>3, <2>3, <3>1
  <2>4. CASE m # 1 /\ n # 1
    <3>1. PICK k \in 1..L, l \in 1..L : m = k + 1 /\ n = l + 1
      BY <1>5, <2>4
    <3> QED BY <1>3, <2>2, <3>1
  <2> QED BY <2>3, <2>4
<1> QED BY <1>1, <1>3, <1>4, <1>6, <1>7 DEF s

\* What is left in the heap and what has come out of it after n pops.
Drained(a, X, h, n) ==
    /\ a \in [heap : Seq(X), out : Seq(X)]
    /\ Len(a.heap) = Len(h) - n /\ Len(a.out) = n
    /\ Distinct(a.heap) /\ Distinct(a.out) /\ HeapFrom(a.heap, 1) /\ NearestFirst(a.out)
    /\ Range(a.heap) \cup Range(a.out) = Range(h) /\ Range(a.heap) \cap Range(a.out) = {}
    /\ \A y \in Range(a.heap), z \in Range(a.out) : y.dist <= z.dist

PopInto(a) == [heap |-> PopHeap(a.heap), out |-> <<a.heap[1]>> \o a.out]

LEMMA PopDrains ==
    ASSUME NEW X, \A y \in X : y.dist \in Int, NEW h \in Seq(X), NEW n \in 0..(Len(h) - 1),
           NEW a, Drained(a, X, h, n)
    PROVE  Drained(PopInto(a), X, h, n + 1)
<1>1. PICK m \in Nat \ {0} : m = Len(h) - n
  BY LenProperties, SMTT(40)
<1>2. PICK q, o, x : q = a.heap /\ o = a.out /\ x = a.heap[1]
  OBVIOUS
<1>3. q \in Seq(X) /\ o \in Seq(X) /\ Len(q) = m /\ Len(o) = n /\ DOMAIN q = 1..m
      /\ Distinct(q) /\ Distinct(o) /\ HeapFrom(q, 1) /\ NearestFirst(o)
      /\ Range(q) \cup Range(o) = Range(h) /\ Range(q) \cap Range(o) = {}
      /\ \A y \in Range(q), z \in Range(o) : y.dist <= z.dist
  BY <1>1, <1>2, LenProperties DEF Drained
<1>4. x \in Range(q) /\ x \in X /\ 1 \in 1..m
  <2>1. 1 \in 1..m /\ \A j \in 1..m : q[j] \in X
    BY <1>3, ElementOfSeq
  <2> QED BY <1>2, <1>3, <2>1 DEF Range
<1>5. \A y \in Range(q) : y.dist <= x.dist
  <2>1. Weighed(q)
    BY <1>3, ElementOfSeq DEF Weighed
  <2>2. \A j \in 1..m : q[j].dist <= q[1].dist
    BY <1>3, <2>1, FarthestFirst
  <2> QED BY <1>2, <1>3, <2>2 DEF Range
<1>6. PICK r, t : r = PopHeap(q) /\ t = <<x>> \o o
  OBVIOUS
<1>7. r \in Seq(X) /\ Len(r) = m - 1 /\ Distinct(r) /\ Range(r) = Range(q) \ {x} /\ HeapFrom(r, 1)
  BY <1>2, <1>3, <1>6, PopHeapPops
<1>8. t \in Seq(X) /\ Len(t) = n + 1 /\ t[1] = x /\ (\A l \in 1..n : t[l + 1] = o[l])
      /\ Range(t) = Range(o) \cup {x} /\ Distinct(t)
  BY <1>3, <1>4, <1>6, PrependAdds
<1>9. NearestFirst(t)
  <2> SUFFICES ASSUME NEW i \in 1..(n + 1), NEW j \in 1..(n + 1), i < j
               PROVE  t[i].dist <= t[j].dist
    BY <1>8 DEF NearestFirst
  <2>1. PICK l \in 1..n : j = l + 1
    <3>1. j - 1 \in 1..n /\ j = (j - 1) + 1
      OBVIOUS
    <3> QED BY <3>1
  <2>2. t[j] = o[l] /\ o[l] \in Range(o)
    <3>1. DOMAIN o = 1..n
      BY <1>3, LenProperties
    <3> QED BY <1>8, <2>1, <3>1 DEF Range
  <2>3. CASE i = 1
    BY <1>3, <1>4, <1>8, <2>2, <2>3
  <2>4. CASE i # 1
    <3>1. PICK k \in 1..n : i = k + 1
      <4>1. i - 1 \in 1..n /\ i = (i - 1) + 1
        BY <2>4
      <4> QED BY <4>1
    <3>2. t[i] = o[k] /\ k < l
      BY <1>8, <2>1, <3>1
    <3> QED BY <1>3, <2>2, <3>2 DEF NearestFirst
  <2> QED BY <2>3, <2>4
<1>10. \A y \in Range(r), z \in Range(t) : y.dist <= z.dist
  BY <1>3, <1>4, <1>5, <1>7, <1>8
<1>11. Range(r) \cup Range(t) = Range(h) /\ Range(r) \cap Range(t) = {}
  BY <1>3, <1>4, <1>7, <1>8
<1>12. PICK b : b = PopInto(a)
  OBVIOUS
<1>13. b = [heap |-> r, out |-> t]
  BY <1>2, <1>6, <1>12 DEF PopInto
<1>14. b \in [heap : Seq(X), out : Seq(X)] /\ b.heap = r /\ b.out = t
  BY <1>7, <1>8, <1>13
<1>15. Len(r) = Len(h) - (n + 1)
  BY <1>1, <1>7, LenProperties
<1>16. Drained(b, X, h, n + 1)
  BY <1>7, <1>8, <1>9, <1>10, <1>11, <1>14, <1>15 DEF Drained
<1> QED BY <1>12, <1>16

\* Popping everything sorts.
LEMMA DrainSorts ==
    ASSUME NEW X, \A y \in X : y.dist \in Int, NEW h \in Seq(X), Distinct(h), HeapFrom(h, 1)
    PROVE  LET r == Drain(h) IN
           r \in Seq(X) /\ Len(r) = Len(h) /\ Range(r) = Range(h) /\ Distinct(r) /\ NearestFirst(r)
<1>1. PICK L \in Nat : L = Len(h)
  BY LenProperties
<1> DEFINE Step(f) == [n \in 0..L |->
                         IF n = 0 THEN [heap |-> h, out |-> <<>>]
                         ELSE [heap |-> PopHeap(f[n - 1].heap),
                               out |-> <<f[n - 1].heap[1]>> \o f[n - 1].out]]
           after == CHOOSE f : f = Step(f)
           A == {a \in [heap : Seq(X), out : Seq(X)] : \E n \in 0..L : Drained(a, X, h, n)}
           G == [x \in A \X (1..L) |-> IF Len(x[1].heap) = 0 THEN x[1] ELSE PopInto(x[1])]
           first == [heap |-> h, out |-> <<>>]
<1>2. Drain(h) = after[L].out
  BY <1>1 DEF Drain
<1>3. Drained(first, X, h, 0)
  <2>1. first \in [heap : Seq(X), out : Seq(X)] /\ first.heap = h /\ first.out = <<>>
    OBVIOUS
  <2>2. Len(<<>>) = 0 /\ Range(<<>>) = {} /\ Distinct(<<>>) /\ NearestFirst(<<>>)
    BY DEF Range, Distinct, NearestFirst
  <2> HIDE DEF first
  <2> QED BY <1>1, <2>1, <2>2 DEF Drained
<1>4. \A n \in 1..L : \A a : Drained(a, X, h, n - 1) =>
         Len(a.heap) # 0 /\ Drained(PopInto(a), X, h, n)
  <2> SUFFICES ASSUME NEW n \in 1..L, NEW a, Drained(a, X, h, n - 1)
               PROVE  Len(a.heap) # 0 /\ Drained(PopInto(a), X, h, n)
    OBVIOUS
  <2>1. PICK m \in 0..(Len(h) - 1) : m = n - 1 /\ m + 1 = n
    <3>1. n - 1 \in 0..(L - 1) /\ (n - 1) + 1 = n
      OBVIOUS
    <3> QED BY <1>1, <3>1
  <2>2. Drained(PopInto(a), X, h, m + 1)
    BY <2>1, PopDrains
  <2>3. Len(a.heap) # 0
    BY <1>1, <2>1 DEF Drained
  <2> QED BY <2>1, <2>2, <2>3
<1>5. first \in A
  <2>1. 0 \in 0..L
    BY <1>1
  <2>2. first \in [heap : Seq(X), out : Seq(X)]
    OBVIOUS
  <2> HIDE DEF first
  <2> QED BY <1>3, <2>1, <2>2
<1>6. G \in [A \X (1..L) -> A]
  <2> SUFFICES ASSUME NEW a \in A, NEW i \in 1..L, Len(a.heap) # 0 PROVE PopInto(a) \in A
    OBVIOUS
  <2>1. PICK n \in 0..L : Drained(a, X, h, n)
    OBVIOUS
  <2>2. n + 1 \in 1..L /\ (n + 1) - 1 = n /\ n + 1 \in 0..L
    BY <1>1, <2>1 DEF Drained
  <2>3. Drained(PopInto(a), X, h, n + 1)
    BY <1>4, <2>1, <2>2
  <2> QED BY <2>2, <2>3 DEF Drained
<1>7. \A a \in A, n \in 1..L : G[<<a, n>>] = IF Len(a.heap) = 0 THEN a ELSE PopInto(a)
  OBVIOUS
<1> HIDE DEF A, G, first
<1>8. PICK g \in [0..L -> A] : StepsBy(g, first, G, L)
  BY <1>5, <1>6, StepsExist
<1> DEFINE K(f) == {n \in 0..L : Drained(f[n], X, h, n)}
<1>9. \A n \in 1..L : Drained(g[n - 1], X, h, n - 1) => g[n] = PopInto(g[n - 1])
  <2> SUFFICES ASSUME NEW n \in 1..L, Drained(g[n - 1], X, h, n - 1) PROVE g[n] = PopInto(g[n - 1])
    OBVIOUS
  <2>1. Len(g[n - 1].heap) # 0
    BY <1>4
  <2>2. g[n - 1] \in A /\ g[n] = G[<<g[n - 1], n>>]
    BY <1>8 DEF StepsBy
  <2> QED BY <1>7, <2>1, <2>2
<1>10. \A n \in 0..L : Drained(g[n], X, h, n)
  <2>1. 0 \in K(g)
    BY <1>1, <1>3, <1>8 DEF StepsBy
  <2>2. NextHas(K(g), L)
    BY <1>4, <1>9 DEF NextHas
  <2>3. \A n \in 0..L : n \in K(g)
    <3> HIDE DEF K
    <3> QED BY <2>1, <2>2, ReachesEach
  <2> QED BY <2>3
<1>11. g = Step(g)
  <2>1. g[0] = [heap |-> h, out |-> <<>>]
    BY <1>8 DEF StepsBy, first
  <2>2. ASSUME NEW n \in 0..L, n # 0
        PROVE  g[n] = [heap |-> PopHeap(g[n - 1].heap),
                       out |-> <<g[n - 1].heap[1]>> \o g[n - 1].out]
    <3>1. n \in 1..L /\ n - 1 \in 0..L
      BY <2>2
    <3> QED BY <1>9, <1>10, <3>1 DEF PopInto
  <2>3. \A n \in 0..L :
           g[n] = IF n = 0 THEN [heap |-> h, out |-> <<>>]
                  ELSE [heap |-> PopHeap(g[n - 1].heap),
                        out |-> <<g[n - 1].heap[1]>> \o g[n - 1].out]
    BY <2>1, <2>2
  <2> QED BY <2>3
<1>12. after = Step(after)
  BY <1>11
<1> HIDE DEF after
<1>13. after[0] = first /\ \A n \in 1..L : after[n] = PopInto(after[n - 1])
  <2>1. \A n \in 0..L :
           after[n] = IF n = 0 THEN [heap |-> h, out |-> <<>>]
                      ELSE [heap |-> PopHeap(after[n - 1].heap),
                            out |-> <<after[n - 1].heap[1]>> \o after[n - 1].out]
    BY <1>12
  <2>2. after[0] = first
    <3>1. 0 \in 0..L
      BY <1>1
    <3> QED BY <2>1, <3>1 DEF first
  <2>3. ASSUME NEW n \in 1..L PROVE after[n] = PopInto(after[n - 1])
    <3>1. n \in 0..L /\ n # 0
      OBVIOUS
    <3>2. after[n] = [heap |-> PopHeap(after[n - 1].heap),
                      out |-> <<after[n - 1].heap[1]>> \o after[n - 1].out]
      BY <2>1, <3>1
    <3> QED BY <3>2, Zenon DEF PopInto
  <2> QED BY <2>2, <2>3
<1>14. Drained(after[L], X, h, L)
  <2>1. 0 \in K(after)
    BY <1>1, <1>3, <1>13
  <2>2. NextHas(K(after), L)
    BY <1>4, <1>13 DEF NextHas
  <2>3. L \in K(after)
    <3> HIDE DEF K
    <3> QED BY <2>1, <2>2, ReachesAll
  <2> QED BY <2>3
<1>15. PICK q, o : q = after[L].heap /\ o = after[L].out
  OBVIOUS
<1>16. q \in Seq(X) /\ Len(q) = 0 /\ o \in Seq(X) /\ Len(o) = L /\ Distinct(o) /\ NearestFirst(o)
       /\ Range(q) \cup Range(o) = Range(h)
  BY <1>1, <1>14, <1>15 DEF Drained
<1>17. Range(q) = {}
  <2>1. DOMAIN q = 1..0
    BY <1>16, LenProperties
  <2> QED BY <2>1 DEF Range
<1> QED BY <1>1, <1>2, <1>15, <1>16, <1>17

-----------------------------------------------------------------------------
(* Searching a layer.                                                      *)

LEMMA DistanceTypes ==
    ASSUME NEW a \in SUBSET Bit, NEW b \in SUBSET Bit
    PROVE  /\ Distance(a, b) \in Nat /\ IsFiniteSet(Xor(a, b))
           /\ Distance(a, a) = 0 /\ Distance(a, b) = Distance(b, a)
<1>1. Xor(a, b) \in SUBSET Bit /\ Xor(a, b) = Xor(b, a) /\ Xor(a, a) = {}
  BY DEF Xor
<1>2. IsFiniteSet(Xor(a, b))
  BY <1>1, BitAssumption, FS_Subset
<1> QED BY <1>1, <1>2, FS_CardinalityType, FS_EmptySet DEF Distance

\* Candidates for the nodes in S.
Around(g, v, S) == {Candidate(g, v, n) : n \in S}
Negated(C) == {Neg(c) : c \in C}

AreCandidates(g, v, S, C) ==
    /\ \A n \in S : Candidate(g, v, n) \in C
    /\ \A n \in S : Candidate(g, v, n).id = n
    /\ \A n \in S : Candidate(g, v, n).dist = Distance(v, g.vec[n])
    /\ \A n \in S : Distance(v, g.vec[n]) \in Nat
    /\ \A c \in C : c.id \in S /\ c = Candidate(g, v, c.id) /\ c.dist \in Int
    /\ \A c \in C : Neg(c) \in Negated(C) /\ Neg(c).dist = -c.dist /\ Neg(Neg(c)) = c
    /\ \A d \in Negated(C) : d.dist \in Int /\ Neg(d) \in C

LEMMA AroundIs ==
    ASSUME NEW g, g.vec \in Seq(SUBSET Bit), NEW v \in SUBSET Bit,
           NEW S \in SUBSET (1..Len(g.vec))
    PROVE  AreCandidates(g, v, S, Around(g, v, S))
<1>0. PICK C : C = Around(g, v, S)
  OBVIOUS
<1>1. ASSUME NEW n \in S
      PROVE  LET c == Candidate(g, v, n) IN
             /\ c \in C /\ c.id = n /\ c.dist = Distance(v, g.vec[n]) /\ c.dist \in Nat
             /\ c = [id |-> n, dist |-> c.dist]
  <2>1. g.vec[n] \in SUBSET Bit
    BY ElementOfSeq, LenProperties
  <2>2. Distance(v, g.vec[n]) \in Nat
    BY <2>1, DistanceTypes
  <2> QED BY <1>0, <2>2 DEF Candidate, Around
<1>2. ASSUME NEW c \in C
      PROVE  /\ c.id \in S /\ c = Candidate(g, v, c.id) /\ c.dist \in Int
             /\ Neg(c) \in Negated(C) /\ Neg(c).dist = -c.dist /\ Neg(Neg(c)) = c
             /\ Neg(c).dist \in Int
  <2>1. PICK n \in S : c = Candidate(g, v, n)
    BY <1>0 DEF Around
  <2>2. c.id \in S /\ c = Candidate(g, v, c.id) /\ c.dist \in Int /\ c = [id |-> n, dist |-> c.dist]
    BY <1>1, <2>1
  <2>3. PICK d \in Int : d = c.dist /\ c = [id |-> n, dist |-> d]
    BY <2>2
  <2>4. PICK e : e = Neg(c) /\ e = [id |-> n, dist |-> -d]
    <3>1. [c EXCEPT !.dist = -@] = [id |-> n, dist |-> -d]
      BY <2>3
    <3> QED BY <3>1 DEF Neg
  <2>5. Neg(e) = [id |-> n, dist |-> -(-d)]
    <3>1. [e EXCEPT !.dist = -@] = [id |-> n, dist |-> -(-d)]
      BY <2>4
    <3> QED BY <3>1 DEF Neg
  <2>6. -(-d) = d /\ -d \in Int
    BY <2>3
  <2> QED BY <2>2, <2>3, <2>4, <2>5, <2>6 DEF Negated
<1>3. ASSUME NEW d \in Negated(C) PROVE d.dist \in Int /\ Neg(d) \in C
  <2>1. PICK c \in C : d = Neg(c)
    BY DEF Negated
  <2> QED BY <1>2, <2>1
<1>4. AreCandidates(g, v, S, C)
  BY <1>1, <1>2, <1>3 DEF AreCandidates
<1> QED BY <1>0, <1>4

LEMMA AroundCount ==
    ASSUME NEW g, NEW v, NEW S, IsFiniteSet(S)
    PROVE  IsFiniteSet(Around(g, v, S)) /\ Cardinality(Around(g, v, S)) <= Cardinality(S)
<1> DEFINE f == [n \in S |-> Candidate(g, v, n)]
<1>1. f \in Surjection(S, Around(g, v, S))
  BY DEF Surjection, Around
<1> QED BY <1>1, FS_Surjection

\* Each node of S has been seen once at most, what is kept are candidates for
\* nodes that have been seen, and for all of them if there is room for S.
States(g, v, S, ef) ==
    LET C == Around(g, v, S) IN
    {s \in [visited : SUBSET S, cand : Seq(Negated(C)), res : Seq(C)] :
        /\ Distinct(s.res) /\ HeapFrom(s.res, 1) /\ Len(s.res) \in 1..ef
        /\ \A c \in Range(s.res) : c.id \in s.visited
        /\ Cardinality(S) <= ef => Range(s.res) = Around(g, v, s.visited)}

HasSeen(r, s, n) == r.visited = s.visited \cup {n}

LEMMA VisitKeeps ==
    ASSUME NEW g, g.vec \in Seq(SUBSET Bit), NEW v \in SUBSET Bit,
           NEW S \in SUBSET (1..Len(g.vec)), NEW ef \in Nat \ {0},
           NEW s \in States(g, v, S, ef), NEW n \in S
    PROVE  LET r == Visit(s, Candidate(g, v, n), ef) IN
           r \in States(g, v, S, ef) /\ HasSeen(r, s, n)
<1> USE DEF HasSeen
<1>1. PICK C, D, c, r : /\ C = Around(g, v, S) /\ D = Negated(C)
                        /\ c = Candidate(g, v, n) /\ r = Visit(s, c, ef)
  OBVIOUS
<1>2. /\ c \in C /\ c.id = n /\ Neg(c) \in D
      /\ \A x \in C : x.dist \in Int /\ x = Candidate(g, v, x.id) /\ x.id \in S
      /\ \A x \in D : x.dist \in Int
  <2>1. AreCandidates(g, v, S, C)
    BY <1>1, AroundIs
  <2> QED BY <1>1, <2>1 DEF AreCandidates
<1>3. PICK V, q, h : V = s.visited /\ q = s.cand /\ h = s.res
  OBVIOUS
<1>4. /\ s \in [visited : SUBSET S, cand : Seq(D), res : Seq(C)]
      /\ V \in SUBSET S /\ q \in Seq(D) /\ h \in Seq(C) /\ Distinct(h) /\ HeapFrom(h, 1)
      /\ Len(h) \in 1..ef /\ (\A x \in Range(h) : x.id \in V)
      /\ Cardinality(S) <= ef => Range(h) = Around(g, v, V)
  BY <1>1, <1>3 DEF States
<1>5. CASE n \in V
  <2>1. r = s
    BY <1>1, <1>2, <1>3, <1>5 DEF Visit
  <2> QED BY <1>1, <1>3, <1>5, <2>1
<1>6. CASE n \notin V
  <2>1. c \notin Range(h)
    BY <1>2, <1>4, <1>6
  <2>2. Cardinality(S) <= ef => Len(h) < ef
    <3> SUFFICES ASSUME Cardinality(S) <= ef PROVE Len(h) < ef
      OBVIOUS
    <3>1. Range(h) = Around(g, v, V) /\ IsFiniteSet(Range(h)) /\ Cardinality(Range(h)) = Len(h)
      BY <1>4, CountIn
    <3>2. Range(h) \cup {c} \subseteq C
      <4>1. Range(h) \subseteq C
        BY <1>4, ElementOfSeq, LenProperties DEF Range
      <4> QED BY <1>2, <4>1
    <3>3. IsFiniteSet(S) /\ Cardinality(S) \in Nat
      <4>1. IsFiniteSet(1..Len(g.vec))
        BY FS_Interval, LenProperties
      <4> QED BY <4>1, FS_Subset, FS_CardinalityType
    <3>4. IsFiniteSet(C) /\ Cardinality(C) <= Cardinality(S)
      BY <1>1, <3>3, AroundCount
    <3>5. Cardinality(Range(h) \cup {c}) = Len(h) + 1 /\ IsFiniteSet(Range(h) \cup {c})
      BY <2>1, <3>1, FS_AddElement
    <3>6. Len(h) + 1 <= Cardinality(C) /\ Cardinality(C) \in Nat
      BY <3>2, <3>4, <3>5, FS_Subset, FS_CardinalityType
    <3> QED BY <1>4, <3>3, <3>4, <3>6
  <2>3. CASE Len(h) < ef \/ c.dist < h[1].dist
    <3>1. PICK p, more : p = PushHeap(q, Neg(c)) /\ more = PushHeap(h, c)
      OBVIOUS
    <3>2. p \in Seq(D)
      BY <1>2, <1>4, <3>1, PushHeapPushes
    <3>3. /\ more \in Seq(C) /\ Len(more) = Len(h) + 1 /\ Range(more) = Range(h) \cup {c}
          /\ Distinct(more) /\ HeapFrom(more, 1)
      <4>1. \A x \in C : x.dist \in Int
        BY <1>2
      <4>2. h \in Seq(C) /\ c \in C
        BY <1>2, <1>4
      <4>3. /\ more \in Seq(C) /\ Len(more) = Len(h) + 1 /\ Range(more) = Range(h) \cup {c}
            /\ Distinct(h) /\ c \notin Range(h) => Distinct(more)
            /\ HeapFrom(h, 1) => HeapFrom(more, 1)
        <5>1. LET m == PushHeap(h, c) IN m \in Seq(C) /\ Len(m) = Len(h) + 1 /\ Range(m) = Range(h) \cup {c}
          BY <4>1, <4>2, PushHeapPushes
        <5>2. Distinct(h) /\ c \notin Range(h) => Distinct(PushHeap(h, c))
          BY <4>1, <4>2, PushHeapPushes
        <5>3. HeapFrom(h, 1) => HeapFrom(PushHeap(h, c), 1)
          BY <4>1, <4>2, PushHeapPushes
        <5> QED BY <3>1, <5>1, <5>2, <5>3
      <4> QED BY <1>4, <2>1, <4>3
    <3>4. PICK k : k = IF Len(more) > ef THEN PopHeap(more) ELSE more
      OBVIOUS
    <3>5. r = [s EXCEPT !.visited = V \cup {n}, !.cand = p, !.res = k]
      BY <1>1, <1>2, <1>3, <1>6, <2>3, <3>1, <3>4 DEF Visit
    <3>6. r \in [visited : SUBSET S, cand : Seq(D), res : Seq(C)] /\ k \in Seq(C)
          /\ Distinct(k) /\ HeapFrom(k, 1) /\ Len(k) \in 1..ef /\ Range(k) \subseteq Range(h) \cup {c}
      <4>1. k \in Seq(C) /\ Distinct(k) /\ HeapFrom(k, 1) /\ Len(k) \in 1..ef
            /\ Range(k) \subseteq Range(h) \cup {c}
        <5>1. CASE Len(more) > ef
          <6>1. Len(more) # 0
            BY <5>1
          <6>2. k \in Seq(C) /\ Len(k) = Len(more) - 1 /\ Range(k) \subseteq Range(more)
                /\ Distinct(k) /\ HeapFrom(k, 1)
            BY <1>2, <3>3, <3>4, <5>1, <6>1, PopHeapPops
          <6> QED BY <1>4, <3>3, <6>2
        <5>2. CASE ~(Len(more) > ef)
          BY <1>4, <3>3, <3>4, <5>2
        <5> QED BY <5>1, <5>2
      <4> QED BY <1>4, <3>2, <3>5, <4>1
    <3>7. r.visited = V \cup {n} /\ r.res = k
      BY <1>4, <3>5
    <3>8. \A x \in Range(k) : x.id \in V \cup {n}
      BY <1>2, <1>4, <3>6
    <3>9. Cardinality(S) <= ef => Range(k) = Around(g, v, V \cup {n})
      <4> SUFFICES ASSUME Cardinality(S) <= ef PROVE Range(k) = Around(g, v, V \cup {n})
        OBVIOUS
      <4>1. k = more
        BY <1>4, <2>2, <3>3, <3>4
      <4>2. Around(g, v, V \cup {n}) = Around(g, v, V) \cup {c}
        BY <1>1 DEF Around
      <4> QED BY <1>4, <3>3, <4>1, <4>2
    <3> QED BY <1>1, <1>3, <3>6, <3>7, <3>8, <3>9 DEF States
  <2>4. CASE ~(Len(h) < ef \/ c.dist < h[1].dist)
    <3>1. r = [s EXCEPT !.visited = V \cup {n}]
      BY <1>1, <1>2, <1>3, <1>6, <2>4 DEF Visit
    <3>2. r \in [visited : SUBSET S, cand : Seq(D), res : Seq(C)]
      BY <1>4, <3>1
    <3>3. r.visited = V \cup {n} /\ r.res = h
      BY <1>3, <1>4, <3>1
    <3> QED BY <1>1, <1>3, <1>4, <2>2, <2>4, <3>2, <3>3 DEF States
  <2> QED BY <2>3, <2>4
<1> QED BY <1>5, <1>6

\* Links of S in a layer stay in S.
Linked(g, layer, S) == \A n \in S : LinksOf(g, n, layer) \in Seq(S)

LEMMA ExpandKeeps ==
    ASSUME NEW g, g.vec \in Seq(SUBSET Bit), NEW v \in SUBSET Bit,
           NEW S \in SUBSET (1..Len(g.vec)), NEW ef \in Nat \ {0}, NEW layer, Linked(g, layer, S),
           NEW s \in States(g, v, S, ef), s.cand # <<>>
    PROVE  LET r == Expand(g, v, s, ef, layer)
               c == Neg(s.cand[1])
           IN  /\ r \in States(g, v, S, ef) /\ s.visited \subseteq r.visited
               /\ c.dist <= s.res[1].dist => Range(LinksOf(g, c.id, layer)) \subseteq r.visited
<1>1. PICK C, D, A : C = Around(g, v, S) /\ D = Negated(C) /\ A = States(g, v, S, ef)
  OBVIOUS
<1>2. AreCandidates(g, v, S, C)
  BY <1>1, AroundIs
<1>3. /\ s \in [visited : SUBSET S, cand : Seq(D), res : Seq(C)]
      /\ Distinct(s.res) /\ HeapFrom(s.res, 1) /\ Len(s.res) \in 1..ef
      /\ (\A c \in Range(s.res) : c.id \in s.visited)
      /\ Cardinality(S) <= ef => Range(s.res) = Around(g, v, s.visited)
  BY <1>1 DEF States
<1>4. s.cand \in Seq(D) /\ Len(s.cand) # 0 /\ s.cand[1] \in D
  <2>1. s.cand \in Seq(D) /\ Len(s.cand) # 0 /\ Len(s.cand) \in Nat
    BY <1>3, EmptySeq, LenProperties
  <2>2. 1 \in 1..Len(s.cand)
    BY <2>1
  <2> QED BY <2>1, <2>2, ElementOfSeq
<1>5. PICK c : c = Neg(s.cand[1]) /\ c \in C /\ c.id \in S /\ c.dist \in Int
  BY <1>2, <1>4, <1>1 DEF AreCandidates
<1>6. PICK nbs : nbs = LinksOf(g, c.id, layer) /\ nbs \in Seq(S)
  BY <1>5 DEF Linked
<1>7. PICK N \in Nat : N = Len(nbs) /\ DOMAIN nbs = 1..N /\ \A n \in 1..N : nbs[n] \in S
  BY <1>6, LenProperties, ElementOfSeq
<1> DEFINE rest == [s EXCEPT !.cand = PopHeap(@)]
           Step(f) == [n \in 0..N |-> IF n = 0 THEN rest
                                      ELSE Visit(f[n - 1], Candidate(g, v, nbs[n]), ef)]
           after == CHOOSE f : f = Step(f)
           r == Expand(g, v, s, ef, layer)
           G == [x \in A \X (1..N) |-> Visit(x[1], Candidate(g, v, nbs[x[2]]), ef)]
<1>8. r = IF Len(s.res) >= ef /\ c.dist > s.res[1].dist THEN [s EXCEPT !.cand = <<>>] ELSE after[N]
  BY <1>5, <1>6, <1>7 DEF Expand
<1>9. rest \in A /\ rest.visited = s.visited
  <2>1. PopHeap(s.cand) \in Seq(D)
    <3>1. \A d \in D : d.dist \in Int
      BY <1>1, <1>2 DEF AreCandidates
    <3> QED BY <1>4, <3>1, PopHeapPops
  <2>2. rest \in [visited : SUBSET S, cand : Seq(D), res : Seq(C)]
    BY <1>3, <2>1
  <2>3. rest.visited = s.visited /\ rest.res = s.res
    BY <1>3
  <2> HIDE DEF rest
  <2> QED BY <1>1, <1>3, <2>2, <2>3 DEF States
<1>10. [s EXCEPT !.cand = <<>>] \in A
  <2> DEFINE e == [s EXCEPT !.cand = <<>>]
  <2>0. PICK z : z = <<>> /\ z \in Seq(D)
    BY EmptySeq
  <2>1. e \in [visited : SUBSET S, cand : Seq(D), res : Seq(C)]
    <3>1. [s EXCEPT !.cand = z] \in [visited : SUBSET S, cand : Seq(D), res : Seq(C)]
      BY <1>3, <2>0
    <3> QED BY <2>0, <3>1
  <2>2. e.visited = s.visited /\ e.res = s.res
    BY <1>3
  <2> HIDE DEF e
  <2>3. e \in A
    BY <1>1, <1>3, <2>1, <2>2 DEF States
  <2> QED BY <2>3 DEF e
<1>11. \A a \in A, n \in 1..N :
          /\ Visit(a, Candidate(g, v, nbs[n]), ef) \in A
          /\ Visit(a, Candidate(g, v, nbs[n]), ef).visited = a.visited \cup {nbs[n]}
  <2> SUFFICES ASSUME NEW a \in A, NEW n \in 1..N
               PROVE  /\ Visit(a, Candidate(g, v, nbs[n]), ef) \in A
                      /\ Visit(a, Candidate(g, v, nbs[n]), ef).visited = a.visited \cup {nbs[n]}
    OBVIOUS
  <2>1. PICK m \in S : m = nbs[n]
    BY <1>7
  <2>2. a \in States(g, v, S, ef)
    BY <1>1
  <2>3. Visit(a, Candidate(g, v, m), ef) \in States(g, v, S, ef)
    BY <2>2, VisitKeeps
  <2>4. HasSeen(Visit(a, Candidate(g, v, m), ef), a, m)
    BY <2>2, VisitKeeps
  <2> QED BY <1>1, <2>1, <2>3, <2>4 DEF HasSeen
<1>12. after = Step(after)
  <2>1. G \in [A \X (1..N) -> A]
    BY <1>11
  <2>2. \A a \in A, n \in 1..N : G[<<a, n>>] = Visit(a, Candidate(g, v, nbs[n]), ef)
    OBVIOUS
  <2> HIDE DEF G, rest
  <2>3. PICK f \in [0..N -> A] : StepsBy(f, rest, G, N)
    BY <1>9, <2>1, StepsExist
  <2>4. \A n \in 0..N : f[n] = IF n = 0 THEN rest ELSE Visit(f[n - 1], Candidate(g, v, nbs[n]), ef)
    <3> SUFFICES ASSUME NEW n \in 0..N, n # 0
                 PROVE  f[n] = Visit(f[n - 1], Candidate(g, v, nbs[n]), ef)
      BY <2>3 DEF StepsBy
    <3>1. n \in 1..N /\ n - 1 \in 0..N
      OBVIOUS
    <3> QED BY <2>2, <2>3, <3>1 DEF StepsBy
  <2>5. f = Step(f)
    BY <2>3, <2>4
  <2> QED BY <2>5
<1> HIDE DEF after
<1>13. after[0] = rest /\ \A n \in 1..N : after[n] = Visit(after[n - 1], Candidate(g, v, nbs[n]), ef)
  <2> HIDE DEF rest
  <2>1. \A n \in 0..N : after[n] = IF n = 0 THEN rest
                                   ELSE Visit(after[n - 1], Candidate(g, v, nbs[n]), ef)
    BY <1>12
  <2>2. 0 \in 0..N /\ \A n \in 1..N : n \in 0..N /\ n # 0
    OBVIOUS
  <2> QED BY <2>1, <2>2
<1> HIDE DEF rest, G, r
<1> DEFINE K == {n \in 0..N : /\ after[n] \in A /\ s.visited \subseteq after[n].visited
                              /\ \A i \in 1..n : nbs[i] \in after[n].visited}
<1>14. N \in K
  <2>1. 0 \in K
    BY <1>9, <1>13
  <2>2. ASSUME NEW n \in 1..N, n - 1 \in K PROVE n \in K
    <3>1. after[n] \in A /\ after[n].visited = after[n - 1].visited \cup {nbs[n]}
      BY <1>11, <1>13, <2>2
    <3>2. \A i \in 1..n : i = n \/ i \in 1..(n - 1)
      OBVIOUS
    <3> QED BY <2>2, <3>1, <3>2
  <2>3. NextHas(K, N)
    BY <2>2 DEF NextHas
  <2> HIDE DEF K
  <2> QED BY <2>1, <2>3, ReachesAll
<1>15. after[N] \in A /\ s.visited \subseteq after[N].visited /\ Range(nbs) \subseteq after[N].visited
  BY <1>7, <1>14 DEF Range
<1>16. [s EXCEPT !.cand = <<>>].visited = s.visited
  BY <1>3
<1>17. s.res[1].dist \in Int
  <2>1. s.res \in Seq(C) /\ 1 \in 1..Len(s.res)
    BY <1>3
  <2>2. s.res[1] \in C
    BY <2>1, ElementOfSeq
  <2> QED BY <1>2, <2>2 DEF AreCandidates
<1>18. r \in A /\ s.visited \subseteq r.visited
       /\ (c.dist <= s.res[1].dist => Range(nbs) \subseteq r.visited)
  <2>1. CASE Len(s.res) >= ef /\ c.dist > s.res[1].dist
    <3>1. r = [s EXCEPT !.cand = <<>>] /\ ~(c.dist <= s.res[1].dist)
      BY <1>5, <1>8, <1>17, <2>1
    <3> QED BY <1>10, <1>16, <3>1
  <2>2. CASE ~(Len(s.res) >= ef /\ c.dist > s.res[1].dist)
    BY <1>8, <1>15, <2>2
  <2> QED BY <2>1, <2>2
<1> QED BY <1>1, <1>5, <1>6, <1>18 DEF r

\* The answer of a search of one layer: candidates for ef nodes of S at most.
IsAnswer(r, g, v, S, ef) ==
    /\ r \in Seq(Around(g, v, S)) /\ Distinct(r) /\ Len(r) \in 1..ef /\ NearestFirst(r)

FindsAll(r, g, v, S) == Range(r) = Around(g, v, S)

LEMMA SearchLayerFinds ==
    ASSUME NEW g, g.vec \in Seq(SUBSET Bit), NEW v \in SUBSET Bit,
           NEW S \in SUBSET (1..Len(g.vec)), NEW ef \in Nat \ {0}, NEW layer, Linked(g, layer, S),
           NEW ep \in S
    PROVE  LET r == SearchLayer(g, v, ep, ef, layer) IN
           /\ IsAnswer(r, g, v, S, ef)
           /\ S \subseteq {ep} \cup Range(LinksOf(g, ep, layer)) /\ Cardinality(S) <= ef =>
                FindsAll(r, g, v, S)
<1>1. PICK C, D, A, N, c : /\ C = Around(g, v, S) /\ D = Negated(C) /\ A = States(g, v, S, ef)
                           /\ N = Len(g.vec) /\ c = Candidate(g, v, ep)
  OBVIOUS
<1>2. AreCandidates(g, v, S, C)
  BY <1>1, AroundIs
<1>3. c \in C /\ c.id = ep /\ Neg(c) \in D /\ Neg(Neg(c)) = c /\ c.dist \in Int
  BY <1>1, <1>2 DEF AreCandidates
<1>4. N \in Nat /\ 1 \in 1..N
  <2>1. N \in Nat /\ ep \in 1..N
    BY <1>1, LenProperties
  <2> QED BY <2>1
<1> DEFINE first == [visited |-> {ep}, cand |-> <<Neg(c)>>, res |-> <<c>>]
           Turn(s) == IF s.cand = <<>> THEN s ELSE Expand(g, v, s, ef, layer)
           Step(f) == [n \in 0..N |-> IF n = 0 THEN first
                                      ELSE IF f[n - 1].cand = <<>> THEN f[n - 1]
                                      ELSE Expand(g, v, f[n - 1], ef, layer)]
           after == CHOOSE f : f = Step(f)
           r == SearchLayer(g, v, ep, ef, layer)
           G == [x \in A \X (1..N) |-> Turn(x[1])]
<1>5. r = Drain(after[N].res)
  BY <1>1 DEF SearchLayer
<1>6. first \in A
  <2>1. PICK p, q : p = <<Neg(c)>> /\ q = <<c>>
    OBVIOUS
  <2>2. /\ p \in Seq(D) /\ q \in Seq(C) /\ Len(q) = 1 /\ DOMAIN q = 1..1 /\ q[1] = c
    BY <1>3, <2>1
  <2>3. Range(q) = {c} /\ Distinct(q) /\ HeapFrom(q, 1)
    BY <2>2 DEF Range, Distinct, HeapFrom
  <2>4. first = [visited |-> {ep}, cand |-> p, res |-> q]
    BY <2>1
  <2> HIDE DEF first
  <2>5. first \in [visited : SUBSET S, cand : Seq(D), res : Seq(C)]
        /\ first.visited = {ep} /\ first.res = q
    BY <2>2, <2>4
  <2>6. Range(q) = Around(g, v, first.visited)
    <3>1. Around(g, v, {ep}) = {c}
      BY <1>1 DEF Around
    <3> QED BY <2>3, <2>5, <3>1
  <2>7. \A x \in Range(first.res) : x.id \in first.visited
    <3>1. \A x \in Range(q) : x.id \in {ep}
      BY <1>3, <2>3
    <3> QED BY <2>5, <3>1
  <2>8. Distinct(first.res) /\ HeapFrom(first.res, 1) /\ Len(first.res) \in 1..ef
    <3>1. 1 \in 1..ef
      OBVIOUS
    <3>2. first.res = q /\ Len(q) = 1
      BY <2>2, <2>5
    <3> QED BY <2>3, <3>1, <3>2, Zenon
  <2> QED BY <1>1, <2>5, <2>6, <2>7, <2>8 DEF States
<1>7. \A s \in A : Turn(s) \in A /\ s.visited \subseteq Turn(s).visited
  BY <1>1, ExpandKeeps
<1>8. after = Step(after)
  <2>1. G \in [A \X (1..N) -> A]
    BY <1>7
  <2>2. \A a \in A, n \in 1..N : G[<<a, n>>] = Turn(a)
    OBVIOUS
  <2> HIDE DEF G, first, Turn
  <2>3. PICK f \in [0..N -> A] : StepsBy(f, first, G, N)
    BY <1>4, <1>6, <2>1, StepsExist
  <2>4. \A n \in 0..N : f[n] = IF n = 0 THEN first ELSE Turn(f[n - 1])
    <3>1. f[0] = first
      BY <2>3 DEF StepsBy
    <3>2. ASSUME NEW n \in 0..N, n # 0 PROVE f[n] = Turn(f[n - 1])
      <4>1. n \in 1..N /\ n - 1 \in 0..N
        BY <1>4, <3>2
      <4> QED BY <2>2, <2>3, <4>1 DEF StepsBy
    <3> QED BY <3>1, <3>2
  <2>5. f = Step(f)
    BY <2>3, <2>4 DEF Turn
  <2> QED BY <2>5
<1> HIDE DEF after
<1>9. after[0] = first /\ \A n \in 1..N : after[n] = Turn(after[n - 1])
  <2> HIDE DEF first
  <2>1. \A n \in 0..N : after[n] = IF n = 0 THEN first ELSE Turn(after[n - 1])
    BY <1>8
  <2>2. 0 \in 0..N /\ \A n \in 1..N : n \in 0..N /\ n # 0
    BY <1>4
  <2> HIDE DEF Turn
  <2> QED BY <2>1, <2>2
<1>10. Range(LinksOf(g, ep, layer)) \subseteq after[1].visited /\ ep \in after[1].visited
  <2>1. after[1] = Turn(first)
    <3>1. 1 - 1 = 0
      OBVIOUS
    <3> HIDE DEF first, Turn
    <3> QED BY <1>4, <1>9, <3>1
  <2>2. PICK s : s = first
    OBVIOUS
  <2>3. s.visited = {ep} /\ s.cand = <<Neg(c)>> /\ s.res = <<c>>
    BY <2>2
  <2>4. s.cand # <<>> /\ s.cand[1] = Neg(c) /\ s.res[1] = c
    BY <2>3
  <2>5. s \in States(g, v, S, ef)
    BY <1>1, <1>6, <2>2
  <2>6. Turn(s) = Expand(g, v, s, ef, layer)
    BY <2>4
  <2>7. Neg(s.cand[1]).dist <= s.res[1].dist /\ Neg(s.cand[1]).id = ep
    BY <1>3, <2>4
  <2>8. s.visited \subseteq Turn(s).visited /\ Range(LinksOf(g, ep, layer)) \subseteq Turn(s).visited
    <3> HIDE DEF Turn
    <3> QED BY <2>4, <2>5, <2>6, <2>7, ExpandKeeps
  <2> HIDE DEF first, Turn
  <2> QED BY <2>1, <2>2, <2>3, <2>8
<1> HIDE DEF first, G, Turn, r
<1> DEFINE K == {n \in 0..N : after[n] \in A /\ (n # 0 => after[1].visited \subseteq after[n].visited)}
<1>11. N \in K
  <2>1. 0 \in K
    BY <1>4, <1>6, <1>9
  <2>2. ASSUME NEW n \in 1..N, n - 1 \in K PROVE n \in K
    <3>1. after[n] \in A /\ after[n - 1].visited \subseteq after[n].visited
      BY <1>7, <1>9, <2>2
    <3>2. n - 1 = 0 => n = 1
      OBVIOUS
    <3> QED BY <2>2, <3>1, <3>2
  <2>3. NextHas(K, N)
    BY <2>2 DEF NextHas
  <2> HIDE DEF K
  <2> QED BY <1>4, <2>1, <2>3, ReachesAll
<1>12. PICK h, V : h = after[N].res /\ V = after[N].visited
  OBVIOUS
<1>13. /\ h \in Seq(C) /\ Distinct(h) /\ HeapFrom(h, 1) /\ Len(h) \in 1..ef /\ V \in SUBSET S
       /\ Cardinality(S) <= ef => Range(h) = Around(g, v, V)
  BY <1>1, <1>11, <1>12 DEF States
<1>14. \A x \in C : x.dist \in Int
  BY <1>2 DEF AreCandidates
<1>15. r \in Seq(C) /\ Len(r) = Len(h) /\ Range(r) = Range(h) /\ Distinct(r) /\ NearestFirst(r)
  BY <1>5, <1>12, <1>13, <1>14, DrainSorts
<1>16. IsAnswer(r, g, v, S, ef)
  BY <1>1, <1>13, <1>15 DEF IsAnswer
<1>17. ASSUME S \subseteq {ep} \cup Range(LinksOf(g, ep, layer)), Cardinality(S) <= ef
       PROVE  FindsAll(r, g, v, S)
  <2>1. V = S
    <3>1. N # 0
      BY <1>4
    <3>2. after[1].visited \subseteq V
      BY <1>11, <1>12, <3>1
    <3> QED BY <1>10, <1>13, <1>17, <3>2
  <2> QED BY <1>13, <1>15, <1>17, <2>1 DEF FindsAll
<1> QED BY <1>16, <1>17 DEF r

\* Some neighbour is the first of the nearest.
LEMMA FirstNearest ==
    ASSUME NEW g, NEW v, NEW S, \A n \in S : Distance(v, g.vec[n]) \in Nat,
           NEW nbs \in Seq(S), NEW i \in DOMAIN nbs
    PROVE  LET near(n) == Distance(v, g.vec[n])
               j == CHOOSE j \in DOMAIN nbs :
                       /\ \A k \in DOMAIN nbs : near(nbs[j]) <= near(nbs[k])
                       /\ \A k \in 1..(j - 1) : near(nbs[k]) > near(nbs[j])
           IN  nbs[j] \in S /\ near(nbs[j]) <= near(nbs[i])
<1> DEFINE near(n) == Distance(v, g.vec[n])
           First(j) == /\ \A k \in DOMAIN nbs : near(nbs[j]) <= near(nbs[k])
                       /\ \A k \in 1..(j - 1) : near(nbs[k]) > near(nbs[j])
           T == {d \in Nat : \E k \in DOMAIN nbs : d = near(nbs[k])}
<1>1. PICK L \in Nat : L = Len(nbs) /\ DOMAIN nbs = 1..L /\ \A k \in 1..L : nbs[k] \in S
  BY LenProperties, ElementOfSeq
<1>2. \A k \in 1..L : near(nbs[k]) \in Nat /\ near(nbs[k]) \in T
  BY <1>1
<1>3. PICK d \in T : \A e \in T : d <= e
  <2>1. T \in SUBSET Nat /\ T # {}
    BY <1>1, <1>2
  <2> HIDE DEF T
  <2> QED BY <2>1, Least
<1>4. d \in Nat /\ \E k \in 1..L : d = near(nbs[k])
  BY <1>1, <1>3
<1> DEFINE U == {k \in Nat : k \in 1..L /\ d = near(nbs[k])}
<1>5. PICK j \in U : \A k \in U : j <= k
  <2>1. U \in SUBSET Nat /\ U # {}
    BY <1>4, SMTT(60)
  <2> HIDE DEF U
  <2> QED BY <2>1, Least
<1>6. j \in 1..L /\ d = near(nbs[j])
  BY <1>5
<1>7. ASSUME NEW k \in 1..(j - 1) PROVE near(nbs[k]) > near(nbs[j])
  <2>1. k \in 1..L /\ ~(j <= k)
    BY <1>6, <1>7
  <2>2. k \notin U
    <3> HIDE DEF U
    <3> QED BY <1>5, <2>1
  <2>3. d # near(nbs[k]) /\ near(nbs[k]) \in Nat /\ d <= near(nbs[k])
    <3>1. d # near(nbs[k])
      BY <2>1, <2>2
    <3> HIDE DEF T, U
    <3> QED BY <1>2, <1>3, <2>1, <3>1
  <2> HIDE DEF near, T, U
  <2> QED BY <1>4, <1>6, <2>3
<1>8. First(j)
  <2>1. \A k \in 1..L : near(nbs[j]) <= near(nbs[k])
    <3> HIDE DEF T, U, near
    <3> QED BY <1>2, <1>3, <1>6
  <2> HIDE DEF near
  <2> QED BY <1>1, <1>7, <2>1
<1>9. PICK c : c = (CHOOSE e \in DOMAIN nbs : First(e)) /\ c \in DOMAIN nbs /\ First(c)
  <2> HIDE DEF First
  <2> QED BY <1>1, <1>6, <1>8
<1>10. nbs[c] \in S /\ near(nbs[c]) <= near(nbs[i])
  BY <1>1, <1>9
<1> QED BY <1>9, <1>10

\* Walking along links does not leave a set of nodes that links stay in.
LEMMA GreedyStays ==
    ASSUME NEW g, g.vec \in Seq(SUBSET Bit), NEW v \in SUBSET Bit, NEW layer,
           Linked(g, layer, 1..Len(g.vec)),
           NEW S \in SUBSET (1..Len(g.vec)), Linked(g, layer, S), NEW start \in S
    PROVE  GreedyClosest(g, v, start, layer) \in S
<1> DEFINE near(n) == Distance(v, g.vec[n])
           Nearer(n) == \E i \in DOMAIN LinksOf(g, n, layer) : near(LinksOf(g, n, layer)[i]) < near(n)
           To(n) == LET nbs == LinksOf(g, n, layer) IN
                    nbs[CHOOSE j \in DOMAIN nbs :
                           /\ \A k \in DOMAIN nbs : near(nbs[j]) <= near(nbs[k])
                           /\ \A k \in 1..(j - 1) : near(nbs[k]) > near(nbs[j])]
           Step(f) == [n \in DOMAIN g.vec |-> IF Nearer(n) THEN f[To(n)] ELSE n]
           walk == CHOOSE f : f = Step(f)
<1>1. GreedyClosest(g, v, start, layer) = walk[start]
  BY DEF GreedyClosest
<1>2. PICK L \in Nat : L = Len(g.vec) /\ DOMAIN g.vec = 1..L
  BY LenProperties
<1>3. \A n \in 1..L : near(n) \in Nat
  <2> SUFFICES ASSUME NEW n \in 1..L PROVE near(n) \in Nat
    OBVIOUS
  <2>1. g.vec[n] \in SUBSET Bit
    BY <1>2, ElementOfSeq
  <2> QED BY <2>1, DistanceTypes
<1>4. ASSUME NEW R \in SUBSET (1..L), Linked(g, layer, R), NEW n \in R, Nearer(n)
      PROVE  To(n) \in R /\ near(To(n)) < near(n)
  <2>1. PICK nbs \in Seq(R) : nbs = LinksOf(g, n, layer)
    BY <1>4 DEF Linked
  <2>2. PICK i \in DOMAIN nbs : near(nbs[i]) < near(n)
    BY <1>4, <2>1
  <2>3. \A m \in R : Distance(v, g.vec[m]) \in Nat
    BY <1>3
  <2>4. PICK t : t = To(n)
    OBVIOUS
  <2>5. t \in R /\ near(t) <= near(nbs[i])
    BY <2>1, <2>2, <2>3, <2>4, FirstNearest
  <2>6. near(t) \in Nat /\ near(nbs[i]) \in Nat /\ near(n) \in Nat
    <3>1. nbs[i] \in R
      BY <2>1, <2>2, LenProperties, ElementOfSeq
    <3> QED BY <1>3, <2>5, <3>1
  <2> HIDE DEF To, near
  <2> QED BY <2>2, <2>4, <2>5, <2>6
<1> HIDE DEF To, Nearer
<1>5. walk = Step(walk)
  <2> DEFINE E == {n \in 1..L : ~Nearer(n)}
             N == [n \in 1..L |-> To(n)]
             W == Way(L, E, N)
             Pick(B) == CHOOSE e : e \in B
             f == [n \in 1..L |-> Pick(W[n] \cap E)]
  <2>1. \A n \in (1..L) \ E : N[n] \in 1..L
    <3> SUFFICES ASSUME NEW n \in 1..L, Nearer(n) PROVE To(n) \in 1..L
      OBVIOUS
    <3> QED BY <1>2, <1>4
  <2>2. Follows(W, L, E, N)
    <3> HIDE DEF E, N
    <3> QED BY <2>1, WayExists
  <2> HIDE DEF W
  <2>3. ASSUME NEW n \in 1..L, ~Nearer(n) PROVE f[n] = n
    <3>1. W[n] = {n} /\ n \in E
      BY <2>2, <2>3 DEF Follows
    <3>2. W[n] \cap E = {n}
      BY <3>1
    <3> QED BY <3>2
  <2>4. ASSUME NEW n \in 1..L, Nearer(n) PROVE f[n] = f[To(n)]
    <3>1. n \notin E /\ N[n] = To(n) /\ To(n) \in 1..L
      BY <2>1, <2>4
    <3>2. W[n] = {n} \cup W[To(n)]
      BY <2>2, <3>1 DEF Follows
    <3>3. W[n] \cap E = W[To(n)] \cap E
      BY <3>1, <3>2
    <3>4. PICK B : B = W[n] \cap E /\ B = W[To(n)] \cap E
      BY <3>3
    <3>5. f[n] = Pick(B) /\ f[To(n)] = Pick(B)
      BY <3>1, <3>4
    <3> QED BY <3>5
  <2>5. \A n \in 1..L : f[n] = IF Nearer(n) THEN f[To(n)] ELSE n
    <3> HIDE DEF f
    <3> QED BY <2>3, <2>4
  <2>6. f = Step(f)
    <3>1. f = [n \in 1..L |-> f[n]]
      OBVIOUS
    <3> HIDE DEF f
    <3> QED BY <1>2, <2>5, <3>1
  <2> QED BY <2>6
<1>6. \A n \in 1..L : walk[n] = IF Nearer(n) THEN walk[To(n)] ELSE n
  <2> HIDE DEF walk
  <2> QED BY <1>2, <1>5
<1> HIDE DEF walk
<1> DEFINE T == {d \in Nat : \E n \in S : d = near(n) /\ walk[n] \notin S}
<1>7. T = {}
  <2> SUFFICES ASSUME T # {} PROVE FALSE
    OBVIOUS
  <2>1. PICK d \in T : \A e \in T : d <= e
    <3>1. T \in SUBSET Nat
      OBVIOUS
    <3> HIDE DEF T
    <3> QED BY <3>1, Least
  <2>2. PICK n \in S : d = near(n) /\ walk[n] \notin S
    BY <2>1
  <2>3. Nearer(n) /\ walk[n] = walk[To(n)]
    BY <1>2, <1>6, <2>2
  <2>4. To(n) \in S /\ near(To(n)) < near(n)
    <3> HIDE DEF near
    <3> QED BY <1>2, <1>4, <2>3
  <2>5. near(To(n)) \in Nat /\ near(n) \in Nat
    BY <1>2, <1>3, <2>4
  <2>6. near(To(n)) \in T
    <3> HIDE DEF near
    <3> QED BY <2>2, <2>3, <2>4, <2>5
  <2> HIDE DEF T, near
  <2> QED BY <2>1, <2>2, <2>4, <2>5, <2>6
<1>8. near(start) \in Nat
  BY <1>2, <1>3
<1> QED BY <1>1, <1>7, <1>8

-----------------------------------------------------------------------------
(* Choosing neighbours.                                                    *)

LEMMA ConcatAdds ==
    ASSUME NEW X, NEW a \in Seq(X), NEW b \in Seq(X), Distinct(a), Distinct(b),
           Range(a) \cap Range(b) = {}
    PROVE  LET s == a \o b IN
           s \in Seq(X) /\ Len(s) = Len(a) + Len(b) /\ Distinct(s) /\ Range(s) = Range(a) \cup Range(b)
<1> DEFINE s == a \o b
<1>1. PICK K, L \in Nat : K = Len(a) /\ DOMAIN a = 1..K /\ L = Len(b) /\ DOMAIN b = 1..L
  <2>1. Len(a) \in Nat /\ DOMAIN a = 1..Len(a) /\ Len(b) \in Nat /\ DOMAIN b = 1..Len(b)
    BY LenProperties
  <2> QED BY <2>1
<1>2. /\ s \in Seq(X) /\ Len(s) = K + L
      /\ \A i \in 1..(K + L) : s[i] = IF i <= K THEN a[i] ELSE b[i - K]
  BY <1>1, ConcatProperties
<1> HIDE DEF s
<1>3. DOMAIN s = 1..(K + L)
  BY <1>2, LenProperties
<1>4. \A i \in 1..K : i \in 1..(K + L) /\ s[i] = a[i] /\ a[i] \in Range(a)
  BY <1>1, <1>2 DEF Range
<1>5. \A i \in 1..L : K + i \in 1..(K + L) /\ s[K + i] = b[i] /\ b[i] \in Range(b)
  <2> SUFFICES ASSUME NEW i \in 1..L
               PROVE  K + i \in 1..(K + L) /\ s[K + i] = b[i] /\ b[i] \in Range(b)
    OBVIOUS
  <2>1. K + i \in 1..(K + L) /\ ~(K + i <= K) /\ (K + i) - K = i
    OBVIOUS
  <2> QED BY <1>1, <1>2, <2>1 DEF Range
<1>6. \A i \in 1..(K + L) : i \in 1..K \/ \E j \in 1..L : i = K + j
  <2> SUFFICES ASSUME NEW i \in 1..(K + L), i \notin 1..K PROVE \E j \in 1..L : i = K + j
    OBVIOUS
  <2>1. i - K \in 1..L /\ i = K + (i - K)
    OBVIOUS
  <2> QED BY <2>1
<1>7. Range(s) = Range(a) \cup Range(b)
  <2>1. ASSUME NEW y \in Range(s) PROVE y \in Range(a) \cup Range(b)
    <3>1. PICK i \in 1..(K + L) : y = s[i]
      BY <1>3 DEF Range
    <3> QED BY <1>4, <1>5, <1>6, <3>1
  <2>2. ASSUME NEW y \in Range(a) PROVE y \in Range(s)
    <3>1. PICK i \in 1..K : y = a[i]
      BY <1>1 DEF Range
    <3> QED BY <1>3, <1>4, <3>1 DEF Range
  <2>3. ASSUME NEW y \in Range(b) PROVE y \in Range(s)
    <3>1. PICK i \in 1..L : y = b[i]
      BY <1>1 DEF Range
    <3> QED BY <1>3, <1>5, <3>1 DEF Range
  <2> QED BY <2>1, <2>2, <2>3
<1>8. Distinct(s)
  <2> SUFFICES ASSUME NEW i \in 1..(K + L), NEW j \in 1..(K + L), i # j PROVE s[i] # s[j]
    BY <1>3 DEF Distinct
  <2>1. CASE i \in 1..K /\ j \in 1..K
    BY <1>1, <1>4, <2>1 DEF Distinct
  <2>2. CASE i \in 1..K /\ j \notin 1..K
    BY <1>4, <1>5, <1>6, <2>2, ZenonT(60)
  <2>3. CASE i \notin 1..K /\ j \in 1..K
    BY <1>4, <1>5, <1>6, <2>3, ZenonT(60)
  <2>4. CASE i \notin 1..K /\ j \notin 1..K
    <3>1. PICK m \in 1..L, n \in 1..L : i = K + m /\ j = K + n
      BY <1>6, <2>4
    <3>2. m # n
      BY <3>1
    <3>3. b[m] # b[n]
      BY <1>1, <3>2 DEF Distinct
    <3> QED BY <1>5, <3>1, <3>3
  <2> QED BY <2>1, <2>2, <2>3, <2>4
<1> QED BY <1>1, <1>2, <1>7, <1>8 DEF s

LEMMA UpToKeeps ==
    ASSUME NEW X, NEW s \in Seq(X), NEW m \in Nat
    PROVE  LET r == UpTo(s, m) IN
           /\ r \in Seq(X) /\ Len(r) = IF Len(s) < m THEN Len(s) ELSE m
           /\ \A i \in 1..Len(r) : i \in 1..Len(s) /\ r[i] = s[i]
           /\ Range(r) \subseteq Range(s) /\ (Distinct(s) => Distinct(r))
           /\ Len(s) <= m => r = s
<1>1. PICK L \in Nat : L = Len(s) /\ DOMAIN s = 1..L
  BY LenProperties
<1>2. PICK n \in 0..L : n = IF L < m THEN L ELSE m
  OBVIOUS
<1>3. PICK r : r = SubSeq(s, 1, n)
  OBVIOUS
<1>4. UpTo(s, m) = r
  BY <1>1, <1>2, <1>3 DEF UpTo
<1>5. r \in Seq(X) /\ Len(r) = n /\ \A i \in 1..n : i \in 1..L /\ r[i] = s[i]
  <2>1. \A i \in 1..n : i \in 1..L /\ s[i] \in X
    BY <1>1, <1>2, ElementOfSeq
  <2>2. r = [i \in 1..n |-> s[1 + i - 1]]
    BY <1>1, <1>2, <1>3
  <2>3. \A i \in 1..n : 1 + i - 1 = i
    BY <1>2
  <2>4. r = [i \in 1..n |-> s[i]]
    BY <2>2, <2>3
  <2> QED BY <1>2, <2>1, <2>4
<1>6. DOMAIN r = 1..n
  BY <1>5, LenProperties
<1>7. Range(r) \subseteq Range(s)
  BY <1>1, <1>5, <1>6 DEF Range
<1>8. Distinct(s) => Distinct(r)
  BY <1>1, <1>5, <1>6 DEF Distinct
<1>9. L <= m => r = s
  <2> SUFFICES ASSUME L <= m PROVE r = s
    OBVIOUS
  <2>1. n = L
    BY <1>2
  <2> QED BY <1>1, <1>5, <2>1, SeqEqual
<1> QED BY <1>1, <1>2, <1>4, <1>5, <1>7, <1>8, <1>9

\* Of the neighbours in order, n have been looked at.
IsSplit(s, S, ids, n) ==
    /\ s \in [taken : Seq(S), others : Seq(S)]
    /\ Distinct(s.taken) /\ Distinct(s.others) /\ Range(s.taken) \cap Range(s.others) = {}
    /\ Range(s.taken) \cup Range(s.others) = {ids[i] : i \in 1..n}

\* Neighbours are chosen among the candidates, and all of them when there is room.
LEMMA SelectPicks ==
    ASSUME NEW g, NEW S, NEW cands, Ids(cands) \in Seq(S), Distinct(Ids(cands)),
           NEW L \in Nat, DOMAIN cands = 1..L, Len(cands) = L, NEW m \in Nat
    PROVE  LET r == SelectNeighbors(g, cands, m) IN
           /\ r \in Seq(S) /\ Distinct(r) /\ Len(r) <= m /\ Range(r) \subseteq Range(Ids(cands))
           /\ L <= m => r = Ids(cands)
<1>0. PICK ids : ids = Ids(cands) /\ ids \in Seq(S) /\ Distinct(ids)
  OBVIOUS
<1> DEFINE good(taken, c) == \A s \in Range(taken) : Distance(g.vec[c.id], g.vec[s]) >= c.dist
           first == [taken |-> <<>>, others |-> <<>>]
           Take(a, n) == [a EXCEPT !.taken = Append(@, cands[n].id)]
           Leave(a, n) == [a EXCEPT !.others = Append(@, cands[n].id)]
           Look(a, n) == IF Len(a.taken) < m /\ good(a.taken, cands[n]) THEN Take(a, n) ELSE Leave(a, n)
           Step(f) == [n \in 0..L |->
                         IF n = 0 THEN first
                         ELSE IF Len(f[n - 1].taken) < m /\ good(f[n - 1].taken, cands[n])
                         THEN [f[n - 1] EXCEPT !.taken = Append(@, cands[n].id)]
                         ELSE [f[n - 1] EXCEPT !.others = Append(@, cands[n].id)]]
           after == CHOOSE f : f = Step(f)
           split == after[L]
           r == SelectNeighbors(g, cands, m)
           T == [taken : Seq(S), others : Seq(S)]
           I == [n \in 0..L |-> {a \in T : IsSplit(a, S, ids, n)}]
           G == [x \in T \X (1..L) |-> Look(x[1], x[2])]
<1>1. r = IF L <= m THEN ids ELSE UpTo(split.taken \o split.others, m)
  BY <1>0 DEF SelectNeighbors
<1>2. DOMAIN ids = 1..L /\ Len(ids) = L /\ \A n \in 1..L : ids[n] = cands[n].id /\ ids[n] \in S
  <2>1. DOMAIN ids = 1..L /\ \A n \in 1..L : ids[n] = cands[n].id
    BY <1>0 DEF Ids
  <2>2. DOMAIN ids = 1..Len(ids) /\ Len(ids) \in Nat
    BY <1>0, LenProperties
  <2>3. Len(ids) = L
    BY <2>1, <2>2
  <2> QED BY <1>0, <2>1, <2>3, ElementOfSeq
<1> HIDE DEF good
<1>3. IsSplit(first, S, ids, 0)
  <2>0. Range(<<>>) = {} /\ Distinct(<<>>)
    BY DEF Range, Distinct
  <2>1. PICK z : z = <<>> /\ z \in Seq(S) /\ Range(z) = {} /\ Distinct(z)
    BY <2>0, EmptySeq
  <2>2. first = [taken |-> z, others |-> z]
    BY <2>1
  <2> HIDE DEF first
  <2>3. first \in T /\ first.taken = z /\ first.others = z
    BY <2>1, <2>2
  <2>4. {ids[i] : i \in 1..0} = {}
    OBVIOUS
  <2> QED BY <2>1, <2>3, <2>4 DEF IsSplit
<1>4. ASSUME NEW n \in 1..L, NEW a, IsSplit(a, S, ids, n - 1)
      PROVE  IsSplit(Look(a, n), S, ids, n)
  <2>1. PICK t, o, x : t = a.taken /\ o = a.others /\ x = ids[n]
    OBVIOUS
  <2>2. /\ a \in T /\ t \in Seq(S) /\ o \in Seq(S) /\ Distinct(t) /\ Distinct(o)
        /\ Range(t) \cap Range(o) = {}
        /\ Range(t) \cup Range(o) = {ids[i] : i \in 1..(n - 1)}
    BY <1>4, <2>1 DEF IsSplit
  <2>3. x \in S /\ x = cands[n].id /\ x \notin Range(t) /\ x \notin Range(o)
    <3>1. \A i \in 1..(n - 1) : i \in 1..L /\ i # n
      OBVIOUS
    <3>2. \A i \in 1..(n - 1) : ids[i] # x
      BY <1>0, <1>2, <2>1, <3>1 DEF Distinct
    <3>3. \A y \in Range(t) \cup Range(o) : y # x
      BY <2>2, <3>2
    <3> QED BY <1>2, <2>1, <3>3
  <2>4. {ids[i] : i \in 1..n} = {ids[i] : i \in 1..(n - 1)} \cup {x}
    <3>1. \A i : i \in 1..n <=> i = n \/ i \in 1..(n - 1)
      OBVIOUS
    <3> QED BY <2>1, <3>1
  <2>5. IsSplit(Take(a, n), S, ids, n)
    <3>1. PICK u : u = Append(t, x)
      OBVIOUS
    <3>2. u \in Seq(S) /\ Range(u) = Range(t) \cup {x} /\ Distinct(u)
      BY <2>2, <2>3, <3>1, AppendAdds
    <3>3. PICK b : b = Take(a, n)
      OBVIOUS
    <3>4. b = [a EXCEPT !.taken = u]
      BY <2>1, <2>3, <3>1, <3>3
    <3>5. b \in T /\ b.taken = u /\ b.others = o
      BY <2>1, <2>2, <3>2, <3>4
    <3>6. IsSplit(b, S, ids, n)
      BY <2>2, <2>3, <2>4, <3>2, <3>5, ZenonT(60) DEF IsSplit
    <3> QED BY <3>3, <3>6
  <2>6. IsSplit(Leave(a, n), S, ids, n)
    <3>1. PICK u : u = Append(o, x)
      OBVIOUS
    <3>2. u \in Seq(S) /\ Range(u) = Range(o) \cup {x} /\ Distinct(u)
      BY <2>2, <2>3, <3>1, AppendAdds
    <3>3. PICK b : b = Leave(a, n)
      OBVIOUS
    <3>4. b = [a EXCEPT !.others = u]
      BY <2>1, <2>3, <3>1, <3>3
    <3>5. b \in T /\ b.taken = t /\ b.others = u
      BY <2>1, <2>2, <3>2, <3>4
    <3>6. IsSplit(b, S, ids, n)
      BY <2>2, <2>3, <2>4, <3>2, <3>5, ZenonT(60) DEF IsSplit
    <3> QED BY <3>3, <3>6
  <2> HIDE DEF Take, Leave
  <2> QED BY <2>5, <2>6
<1>5. after = Step(after)
  <2>1. \A n \in 0..L : I[n] \subseteq T
    OBVIOUS
  <2>2. first \in I[0]
    <3>1. 0 \in 0..L /\ first \in T
      BY <1>3 DEF IsSplit
    <3> HIDE DEF first, T
    <3> QED BY <1>3, <3>1
  <2>3. \A n \in 1..L : \A x \in I[n - 1] : G[<<x, n>>] \in I[n] /\ G[<<x, n>>] = Look(x, n)
    <3> SUFFICES ASSUME NEW n \in 1..L, NEW x \in I[n - 1]
                 PROVE  G[<<x, n>>] \in I[n] /\ G[<<x, n>>] = Look(x, n)
      OBVIOUS
    <3>1. n - 1 \in 0..L /\ n \in 0..L
      OBVIOUS
    <3>2. IsSplit(x, S, ids, n - 1) /\ x \in T
      BY <3>1
    <3>3. IsSplit(Look(x, n), S, ids, n)
      <4> HIDE DEF Look
      <4> QED BY <1>4, <3>2
    <3>4. Look(x, n) \in T
      <4> HIDE DEF Look
      <4> QED BY <3>3 DEF IsSplit
    <3>5. G[<<x, n>>] = Look(x, n)
      <4> HIDE DEF Look, T
      <4> QED BY <3>2
    <3> HIDE DEF Look, G
    <3> QED BY <3>1, <3>3, <3>4, <3>5
  <2> HIDE DEF G, first, Look, I, T
  <2>4. PICK f : /\ f = [n \in 0..L |-> f[n]] /\ StepsBy(f, first, G, L)
                 /\ \A n \in 0..L : f[n] \in I[n]
    BY <2>1, <2>2, <2>3, StepsWithin
  <2>5. \A n \in 0..L : f[n] = IF n = 0 THEN first ELSE Look(f[n - 1], n)
    <3>1. f[0] = first
      BY <2>4 DEF StepsBy
    <3>2. ASSUME NEW n \in 0..L, n # 0 PROVE f[n] = Look(f[n - 1], n)
      <4>1. n \in 1..L /\ n - 1 \in 0..L
        BY <3>2
      <4> QED BY <2>3, <2>4, <4>1 DEF StepsBy
    <3> QED BY <3>1, <3>2
  <2>6. f = Step(f)
    <3>1. \A n \in 0..L : f[n] = IF n = 0 THEN first
                         ELSE IF Len(f[n - 1].taken) < m /\ good(f[n - 1].taken, cands[n])
                         THEN [f[n - 1] EXCEPT !.taken = Append(@, cands[n].id)]
                         ELSE [f[n - 1] EXCEPT !.others = Append(@, cands[n].id)]
      BY <2>5 DEF Look
    <3> QED BY <2>4, <3>1
  <2> QED BY <2>6
<1>6. after[0] = first /\ \A n \in 1..L : after[n] = Look(after[n - 1], n)
  <2> HIDE DEF after, first, Take, Leave
  <2>1. \A n \in 0..L : after[n] = IF n = 0 THEN first
                         ELSE IF Len(after[n - 1].taken) < m /\ good(after[n - 1].taken, cands[n])
                         THEN [after[n - 1] EXCEPT !.taken = Append(@, cands[n].id)]
                         ELSE [after[n - 1] EXCEPT !.others = Append(@, cands[n].id)]
    BY <1>5
  <2>2. 0 \in 0..L /\ \A n \in 1..L : n \in 0..L /\ n # 0
    OBVIOUS
  <2>3. \A n \in 0..L : after[n] = IF n = 0 THEN first ELSE Look(after[n - 1], n)
    BY <2>1 DEF Take, Leave
  <2> HIDE DEF Look
  <2> QED BY <2>2, <2>3
<1> HIDE DEF after, first, Look, G, I, T, r
<1> DEFINE K == {n \in 0..L : IsSplit(after[n], S, ids, n)}
<1>7. L \in K
  <2>1. 0 \in K
    BY <1>3, <1>6
  <2>2. NextHas(K, L)
    BY <1>4, <1>6 DEF NextHas
  <2> HIDE DEF K
  <2> QED BY <2>1, <2>2, ReachesAll
<1>8. PICK t, o : t = split.taken /\ o = split.others
  OBVIOUS
<1>9. /\ t \in Seq(S) /\ o \in Seq(S) /\ Distinct(t) /\ Distinct(o) /\ Range(t) \cap Range(o) = {}
      /\ Range(t) \cup Range(o) = {ids[i] : i \in 1..L}
  BY <1>7, <1>8 DEF IsSplit
<1>10. Range(ids) = {ids[i] : i \in 1..L}
  BY <1>2 DEF Range
<1>11. CASE L <= m
  BY <1>0, <1>1, <1>2, <1>11 DEF r
<1>12. CASE ~(L <= m)
  <2>1. PICK s : s = t \o o
    OBVIOUS
  <2>2. s \in Seq(S) /\ Distinct(s) /\ Range(s) = Range(ids)
    BY <1>9, <1>10, <2>1, ConcatAdds, ZenonT(60)
  <2>3. r = UpTo(s, m)
    BY <1>1, <1>8, <1>12, <2>1
  <2>4. r \in Seq(S) /\ Distinct(r) /\ Range(r) \subseteq Range(s)
    BY <2>2, <2>3, UpToKeeps
  <2>5. Len(r) <= m
    <3>1. Len(r) = IF Len(s) < m THEN Len(s) ELSE m
      BY <2>2, <2>3, UpToKeeps
    <3>2. Len(s) \in Nat
      BY <2>2, LenProperties
    <3> QED BY <3>1, <3>2
  <2> QED BY <1>0, <1>12, <2>2, <2>4, <2>5 DEF r
<1> QED BY <1>11, <1>12 DEF r

\* Sorting keeps the neighbours.
LEMMA ByDistanceKeeps ==
    ASSUME NEW S, NEW L \in Nat, NEW cands, cands = [n \in 1..L |-> cands[n]],
           \A n \in 1..L : cands[n].dist \in Int /\ cands[n].id \in S, Distinct(Ids(cands))
    PROVE  LET r == ByDistance(cands) IN
           /\ DOMAIN r = 1..L /\ Len(r) = L /\ Ids(r) \in Seq(S) /\ Distinct(Ids(r))
           /\ Range(Ids(r)) \subseteq Range(Ids(cands))
<1> DEFINE before(i, j) == \/ cands[i].dist < cands[j].dist
                           \/ cands[i].dist = cands[j].dist /\ i < j
           Ahead(j) == {i \in DOMAIN cands : before(i, j)}
           place(j) == Cardinality(Ahead(j)) + 1
           r == ByDistance(cands)
           At(p) == CHOOSE j \in DOMAIN cands : place(j) = p
<1>1. r = [p \in DOMAIN cands |-> cands[At(p)]]
  BY DEF ByDistance
<1>2. DOMAIN cands = 1..L /\ IsFiniteSet(1..L) /\ Cardinality(1..L) = L
  <2>1. DOMAIN [n \in 1..L |-> cands[n]] = 1..L
    OBVIOUS
  <2> QED BY <2>1, FS_Interval
<1>3. ASSUME NEW j \in 1..L
      PROVE  /\ IsFiniteSet(Ahead(j)) /\ Cardinality(Ahead(j)) \in Nat
             /\ place(j) \in 1..L /\ j \notin Ahead(j)
  <2>1. j \notin Ahead(j) /\ Ahead(j) \subseteq 1..L
    BY <1>2
  <2>2. IsFiniteSet((1..L) \ {j}) /\ Cardinality((1..L) \ {j}) = L - 1
    BY <1>2, FS_RemoveElement
  <2>3. Ahead(j) \in SUBSET ((1..L) \ {j})
    BY <2>1
  <2> HIDE DEF Ahead
  <2>4. IsFiniteSet(Ahead(j)) /\ Cardinality(Ahead(j)) \in Nat /\ Cardinality(Ahead(j)) <= L - 1
    BY <2>2, <2>3, FS_Subset, FS_CardinalityType
  <2> QED BY <2>1, <2>4
<1>4. ASSUME NEW i \in 1..L, NEW j \in 1..L, before(i, j) PROVE place(i) < place(j)
  <2>1. Ahead(i) \subseteq Ahead(j)
    <3> SUFFICES ASSUME NEW k \in 1..L, before(k, i) PROVE before(k, j)
      BY <1>2
    <3>1. cands[i].dist \in Int /\ cands[j].dist \in Int /\ cands[k].dist \in Int
      OBVIOUS
    <3> QED BY <1>4, <3>1
  <2>2. i \in Ahead(j)
    BY <1>2, <1>4
  <2> HIDE DEF Ahead
  <2>3. Ahead(i) \in SUBSET Ahead(j) /\ Ahead(i) # Ahead(j)
    BY <1>3, <2>1, <2>2
  <2>4. Cardinality(Ahead(i)) <= Cardinality(Ahead(j)) /\ Cardinality(Ahead(i)) # Cardinality(Ahead(j))
    BY <1>3, <2>3, FS_Subset
  <2>5. Cardinality(Ahead(i)) \in Nat /\ Cardinality(Ahead(j)) \in Nat
    BY <1>3
  <2> QED BY <2>4, <2>5
<1>5. \A i, j \in 1..L : i # j => before(i, j) \/ before(j, i)
  <2> SUFFICES ASSUME NEW i \in 1..L, NEW j \in 1..L, i # j PROVE before(i, j) \/ before(j, i)
    OBVIOUS
  <2>1. cands[i].dist \in Int /\ cands[j].dist \in Int
    OBVIOUS
  <2> QED BY <2>1
<1> HIDE DEF Ahead, before
<1>6. \A i, j \in 1..L : i # j => place(i) # place(j)
  <2> SUFFICES ASSUME NEW i \in 1..L, NEW j \in 1..L, i # j PROVE place(i) # place(j)
    OBVIOUS
  <2>1. place(i) \in 1..L /\ place(j) \in 1..L
    BY <1>3
  <2>2. place(i) < place(j) \/ place(j) < place(i)
    <3> HIDE DEF place
    <3> QED BY <1>4, <1>5
  <2> HIDE DEF place
  <2> QED BY <2>1, <2>2
<1>7. ASSUME NEW p \in 1..L PROVE \E j \in 1..L : place(j) = p
  <2> DEFINE f == [j \in 1..L |-> place(j)]
  <2>1. f \in [1..L -> 1..L] /\ \A j \in 1..L : f[j] = place(j)
    BY <1>3
  <2> HIDE DEF f
  <2>2. f \in Injection(1..L, 1..L)
    <3> HIDE DEF place
    <3> QED BY <1>6, <2>1 DEF Injection, IsInjective
  <2>3. f \in Surjection(1..L, 1..L)
    BY <1>2, <2>2, FS_Injection
  <2>4. PICK j \in 1..L : f[j] = p
    BY <2>3 DEF Surjection
  <2> QED BY <2>1, <2>4
<1>8. \A p \in 1..L : At(p) \in 1..L /\ place(At(p)) = p
  <2> HIDE DEF place
  <2> QED BY <1>2, <1>7
<1> HIDE DEF At, place
<1>9. DOMAIN r = 1..L /\ \A p \in 1..L : r[p] = cands[At(p)]
  BY <1>1, <1>2
<1> HIDE DEF r
<1>10. DOMAIN Ids(r) = 1..L /\ \A p \in 1..L : Ids(r)[p] = cands[At(p)].id
  BY <1>9 DEF Ids
<1>11. DOMAIN Ids(cands) = 1..L /\ \A p \in 1..L : Ids(cands)[p] = cands[p].id
  BY <1>2 DEF Ids
<1>12. PICK s : s = Ids(r) /\ s = [n \in 1..L |-> s[n]]
  BY <1>9 DEF Ids
<1>13. \A p \in 1..L : s[p] = cands[At(p)].id /\ s[p] \in S
  BY <1>8, <1>10, <1>12
<1>14. s \in Seq(S)
  <2>1. \A p \in 1..L : s[p] \in S
    BY <1>13
  <2> QED BY <1>12, <2>1
<1>15. Distinct(s)
  <2> SUFFICES ASSUME NEW p \in 1..L, NEW q \in 1..L, p # q PROVE s[p] # s[q]
    BY <1>10, <1>12 DEF Distinct
  <2>1. At(p) # At(q) /\ At(p) \in 1..L /\ At(q) \in 1..L
    BY <1>8
  <2>2. cands[At(p)].id # cands[At(q)].id
    BY <1>11, <2>1 DEF Distinct
  <2> QED BY <1>13, <2>2
<1>16. Range(s) \subseteq Range(Ids(cands))
  <2> SUFFICES ASSUME NEW y \in Range(s) PROVE y \in Range(Ids(cands))
    OBVIOUS
  <2>1. PICK p \in 1..L : y = s[p]
    BY <1>10, <1>12 DEF Range
  <2>2. y = Ids(cands)[At(p)] /\ At(p) \in 1..L
    BY <1>8, <1>11, <1>13, <2>1
  <2> QED BY <1>11, <2>2 DEF Range
<1>17. Len(r) = L
  <2>1. r = [p \in 1..L |-> r[p]]
    BY <1>1, <1>9 DEF r
  <2>2. PICK C : C = {cands[n] : n \in 1..L}
    OBVIOUS
  <2>3. \A p \in 1..L : r[p] \in C
    BY <1>8, <1>9, <2>2
  <2>4. r \in Seq(C)
    BY <2>1, <2>3
  <2> QED BY <1>9, <2>4, LenProperties
<1> QED BY <1>9, <1>12, <1>14, <1>15, <1>16, <1>17 DEF r

-----------------------------------------------------------------------------
(* The graph.                                                              *)

Graphs == [vec : Seq(SUBSET Bit), links : Seq(Seq(Seq(Nat))), entry : Nat, top : Int]
Sized(g) == g \in Graphs /\ Len(g.links) = Len(g.vec)

\* The nodes that have a layer, and how many links there may be in it.
NodesOf(g, layer) == {n \in 1..Len(g.vec) : layer < Len(g.links[n])}
Bound(layer) == IF layer = 0 THEN M0 ELSE M

Tidy(nbs, n, layer, S) ==
    nbs \in Seq(S) /\ Distinct(nbs) /\ Len(nbs) <= Bound(layer) /\ n \notin Range(nbs)

Layered(g, layer) ==
    \A n \in NodesOf(g, layer) : Tidy(LinksOf(g, n, layer), n, layer, NodesOf(g, layer))

\* The graph h is g but for links in one layer.
SameBut(h, g, layer) ==
    /\ Sized(h) /\ h.vec = g.vec /\ h.entry = g.entry /\ h.top = g.top
    /\ \A n \in 1..Len(g.vec) : Len(h.links[n]) = Len(g.links[n])
    /\ \A n \in 1..Len(g.vec) : \A k \in Nat \ {layer} : LinksOf(h, n, k) = LinksOf(g, n, k)

\* The graph h is g but for the links of n in the layer, which are nbs.
Relinks(h, g, n, layer, nbs) ==
    /\ SameBut(h, g, layer) /\ LinksOf(h, n, layer) = nbs
    /\ \A m \in 1..Len(g.vec) : m # n => LinksOf(h, m, layer) = LinksOf(g, m, layer)

LEMMA SizedIs ==
    ASSUME NEW g, Sized(g)
    PROVE  /\ g.vec \in Seq(SUBSET Bit) /\ Len(g.vec) \in Nat /\ DOMAIN g.vec = 1..Len(g.vec)
           /\ g.links \in Seq(Seq(Seq(Nat))) /\ DOMAIN g.links = 1..Len(g.vec)
           /\ Len(g.links) = Len(g.vec) /\ g.entry \in Nat /\ g.top \in Int
           /\ \A n \in 1..Len(g.vec) : g.links[n] \in Seq(Seq(Nat)) /\ Len(g.links[n]) \in Nat
           /\ \A n \in 1..Len(g.vec) : DOMAIN g.links[n] = 1..Len(g.links[n])
           /\ \A n \in 1..Len(g.vec), k \in Nat : LinksOf(g, n, k) \in Seq(Nat)
           /\ \A layer \in Nat : NodesOf(g, layer) \in SUBSET (1..Len(g.vec))
<1>1. PICK V, K : V = g.vec /\ K = g.links
  OBVIOUS
<1>2. V \in Seq(SUBSET Bit) /\ K \in Seq(Seq(Seq(Nat))) /\ Len(K) = Len(V)
      /\ g.entry \in Nat /\ g.top \in Int
  BY <1>1 DEF Sized, Graphs
<1>3. PICK N \in Nat : N = Len(V) /\ DOMAIN V = 1..N /\ DOMAIN K = 1..N
  <2>1. Len(V) \in Nat /\ DOMAIN V = 1..Len(V) /\ DOMAIN K = 1..Len(K)
    BY <1>2, LenProperties
  <2> QED BY <1>2, <2>1
<1>4. \A n \in 1..N : K[n] \in Seq(Seq(Nat)) /\ Len(K[n]) \in Nat /\ DOMAIN K[n] = 1..Len(K[n])
  <2> SUFFICES ASSUME NEW n \in 1..N
               PROVE  K[n] \in Seq(Seq(Nat)) /\ Len(K[n]) \in Nat /\ DOMAIN K[n] = 1..Len(K[n])
    OBVIOUS
  <2>1. K[n] \in Seq(Seq(Nat))
    BY <1>2, <1>3, ElementOfSeq
  <2> QED BY <2>1, LenProperties
<1>5. ASSUME NEW n \in 1..N, NEW k \in Nat PROVE LinksOf(g, n, k) \in Seq(Nat)
  <2>1. CASE k < Len(K[n])
    <3>1. k + 1 \in 1..Len(K[n])
      BY <1>4, <2>1
    <3>2. K[n][k + 1] \in Seq(Nat)
      BY <1>4, <3>1, ElementOfSeq
    <3> QED BY <1>1, <2>1, <3>2 DEF LinksOf
  <2>2. CASE ~(k < Len(K[n]))
    BY <1>1, <2>2, EmptySeq DEF LinksOf
  <2> QED BY <2>1, <2>2
<1>6. \A layer \in Nat : NodesOf(g, layer) \in SUBSET (1..N)
  BY <1>1, <1>3 DEF NodesOf
<1> QED BY <1>1, <1>2, <1>3, <1>4, <1>5, <1>6

\* Setting the links of a node in a layer it has.
LEMMA Relinked ==
    ASSUME NEW g, Sized(g), NEW layer \in Nat, NEW n \in NodesOf(g, layer), NEW nbs \in Seq(Nat)
    PROVE  Relinks([g EXCEPT !.links[n][layer + 1] = nbs], g, n, layer, nbs)
<1>1. PICK V, K : V = g.vec /\ K = g.links
  OBVIOUS
<1>2. PICK N \in Nat : N = Len(V) /\ DOMAIN K = 1..N /\ Len(K) = N /\ K \in Seq(Seq(Seq(Nat)))
  BY <1>1, SizedIs
<1>3. \A m \in 1..N : K[m] \in Seq(Seq(Nat)) /\ Len(K[m]) \in Nat /\ DOMAIN K[m] = 1..Len(K[m])
  BY <1>1, <1>2, SizedIs
<1>4. n \in 1..N /\ layer + 1 \in 1..Len(K[n])
  BY <1>1, <1>2, <1>3 DEF NodesOf
<1>5. PICK P : P = [K[n] EXCEPT ![layer + 1] = nbs]
  OBVIOUS
<1>6. P \in Seq(Seq(Nat)) /\ Len(P) = Len(K[n]) /\ P[layer + 1] = nbs
      /\ \A k \in 1..Len(K[n]) : k # layer + 1 => P[k] = K[n][k]
  BY <1>3, <1>4, <1>5, ExceptSeq
<1>7. PICK Q : Q = [K EXCEPT ![n] = P]
  OBVIOUS
<1>8. Q \in Seq(Seq(Seq(Nat))) /\ Len(Q) = N /\ Q[n] = P /\ \A m \in 1..N : m # n => Q[m] = K[m]
  BY <1>2, <1>4, <1>6, <1>7, ExceptSeq
<1>9. PICK h : h = [g EXCEPT !.links[n][layer + 1] = nbs]
  OBVIOUS
<1>10. h = [g EXCEPT !.links = Q]
  BY <1>1, <1>5, <1>7, <1>9
<1>11. h \in Graphs /\ h.links = Q /\ h.vec = V /\ h.entry = g.entry /\ h.top = g.top
  BY <1>1, <1>8, <1>10 DEF Sized, Graphs
<1>12. Sized(h)
  BY <1>2, <1>8, <1>11 DEF Sized
<1>13. \A m \in 1..N : Len(h.links[m]) = Len(K[m])
  BY <1>6, <1>8, <1>11
<1>14. LinksOf(h, n, layer) = nbs
  <2>1. layer < Len(h.links[n])
    BY <1>3, <1>4, <1>13
  <2> QED BY <1>6, <1>8, <1>11, <2>1 DEF LinksOf
<1>15. ASSUME NEW m \in 1..N, NEW k \in Nat, m # n \/ k # layer PROVE LinksOf(h, m, k) = LinksOf(g, m, k)
  <2>1. CASE k < Len(K[m])
    <3>1. k + 1 \in 1..Len(K[m]) /\ (k + 1 = layer + 1 <=> k = layer)
      BY <1>3, <2>1
    <3>2. h.links[m][k + 1] = K[m][k + 1]
      <4>1. CASE m = n
        BY <1>6, <1>8, <1>11, <1>15, <3>1, <4>1
      <4>2. CASE m # n
        BY <1>8, <1>11, <4>2
      <4> QED BY <4>1, <4>2
    <3> QED BY <1>1, <1>13, <2>1, <3>2 DEF LinksOf
  <2>2. CASE ~(k < Len(K[m]))
    BY <1>1, <1>13, <2>2 DEF LinksOf
  <2> QED BY <2>1, <2>2
<1>16. SameBut(h, g, layer)
  BY <1>1, <1>2, <1>11, <1>12, <1>13, <1>15 DEF SameBut
<1>17. Relinks(h, g, n, layer, nbs)
  BY <1>1, <1>2, <1>14, <1>15, <1>16 DEF Relinks
<1> QED BY <1>9, <1>17

\* Other layers are as they were.
LEMMA SameButKeeps ==
    ASSUME NEW g, NEW h, NEW layer, SameBut(h, g, layer)
    PROVE  /\ \A k \in Nat : NodesOf(h, k) = NodesOf(g, k)
           /\ \A k \in Nat \ {layer} : Layered(g, k) => Layered(h, k)
           /\ \A f : SameBut(f, h, layer) => SameBut(f, g, layer)
<1>1. \A k \in Nat : NodesOf(h, k) = NodesOf(g, k)
  BY DEF SameBut, NodesOf
<1>2. ASSUME NEW k \in Nat \ {layer}, Layered(g, k) PROVE Layered(h, k)
  <2> SUFFICES ASSUME NEW n \in NodesOf(h, k)
               PROVE  Tidy(LinksOf(h, n, k), n, k, NodesOf(h, k))
    BY DEF Layered
  <2>1. n \in NodesOf(g, k) /\ n \in 1..Len(g.vec)
    BY <1>1 DEF NodesOf
  <2>2. LinksOf(h, n, k) = LinksOf(g, n, k)
    BY <2>1 DEF SameBut
  <2> QED BY <1>1, <1>2, <2>1, <2>2 DEF Layered
<1>3. ASSUME NEW f, SameBut(f, h, layer) PROVE SameBut(f, g, layer)
  BY <1>3 DEF SameBut
<1> QED BY <1>1, <1>2, <1>3

LEMMA RelinkedTidy ==
    ASSUME NEW g, Sized(g), NEW layer \in Nat, Layered(g, layer), NEW n \in NodesOf(g, layer),
           NEW nbs, Tidy(nbs, n, layer, NodesOf(g, layer))
    PROVE  LET h == [g EXCEPT !.links[n][layer + 1] = nbs] IN
           Relinks(h, g, n, layer, nbs) /\ Layered(h, layer)
<1>1. PICK S : S = NodesOf(g, layer) /\ S \in SUBSET (1..Len(g.vec))
  BY SizedIs
<1>2. nbs \in Seq(Nat)
  <2>1. nbs \in Seq(S) /\ S \subseteq Nat
    BY <1>1 DEF Tidy
  <2> QED BY <2>1, SeqMonotonic
<1>3. PICK h : h = [g EXCEPT !.links[n][layer + 1] = nbs]
  OBVIOUS
<1>4. Relinks(h, g, n, layer, nbs)
  BY <1>2, <1>3, Relinked
<1>5. NodesOf(h, layer) = S
  BY <1>1, <1>4, SameButKeeps DEF Relinks
<1>6. Layered(h, layer)
  <2> SUFFICES ASSUME NEW m \in S PROVE Tidy(LinksOf(h, m, layer), m, layer, S)
    BY <1>5 DEF Layered
  <2>1. CASE m = n
    BY <1>1, <1>4, <2>1 DEF Relinks
  <2>2. CASE m # n
    BY <1>1, <1>4, <2>2 DEF Layered, Relinks
  <2> QED BY <2>1, <2>2
<1> QED BY <1>3, <1>4, <1>6

LEMMA LinkBackKeeps ==
    ASSUME NEW g, Sized(g), NEW layer \in Nat, Layered(g, layer),
           NEW id \in NodesOf(g, layer), NEW n \in NodesOf(g, layer), n # id,
           id \notin Range(LinksOf(g, n, layer))
    PROVE  LET h == LinkBack(g, n, id, layer, Bound(layer))
               nbs == LinksOf(g, n, layer)
           IN  /\ Relinks(h, g, n, layer, LinksOf(h, n, layer)) /\ Layered(h, layer)
               /\ Len(nbs) < Bound(layer) => Range(LinksOf(h, n, layer)) = Range(nbs) \cup {id}
<1>1. PICK S, old, m : /\ S = NodesOf(g, layer) /\ S \in SUBSET (1..Len(g.vec))
                       /\ old = LinksOf(g, n, layer) /\ m = Bound(layer)
  BY SizedIs
<1>2. m \in Nat \ {0}
  BY <1>1, ParamsAssumption DEF Bound
<1>3. old = g.links[n][layer + 1]
  BY <1>1 DEF LinksOf, NodesOf
<1>4. old \in Seq(S) /\ Distinct(old) /\ Len(old) <= m /\ n \notin Range(old)
  BY <1>1 DEF Layered, Tidy
<1>5. PICK nbs : nbs = Append(old, id)
  OBVIOUS
<1>6. PICK L \in Nat : /\ L = Len(nbs) /\ nbs \in Seq(S) /\ DOMAIN nbs = 1..L /\ Distinct(nbs)
                       /\ Range(nbs) = Range(old) \cup {id} /\ L = Len(old) + 1
  <2>1. /\ nbs \in Seq(S) /\ DOMAIN nbs = 1..(Len(old) + 1) /\ Distinct(nbs)
        /\ Range(nbs) = Range(old) \cup {id} /\ Len(nbs) = Len(old) + 1
    BY <1>1, <1>4, <1>5, AppendAdds
  <2>2. Len(nbs) \in Nat
    BY <2>1, LenProperties
  <2> QED BY <2>1, <2>2
<1>7. \A i \in 1..L : nbs[i] \in S
  BY <1>6, ElementOfSeq
<1> DEFINE v == g.vec[n]
           cands == [i \in DOMAIN nbs |-> Candidate(g, v, nbs[i])]
           sorted == ByDistance(cands)
           new == IF Len(nbs) > m THEN SelectNeighbors(g, sorted, m) ELSE nbs
           h == [g EXCEPT !.links[n][layer + 1] = new]
<1>8. LinkBack(g, n, id, layer, m) = h
  BY <1>3, <1>5 DEF LinkBack
<1>9. v \in SUBSET Bit
  <2>1. n \in 1..Len(g.vec) /\ g.vec \in Seq(SUBSET Bit)
    BY <1>1, SizedIs
  <2> QED BY <2>1, ElementOfSeq
<1>10. AreCandidates(g, v, S, Around(g, v, S))
  <2>1. g.vec \in Seq(SUBSET Bit)
    BY SizedIs
  <2> HIDE DEF v
  <2> QED BY <1>1, <1>9, <2>1, AroundIs
<1>11. \A i \in 1..L : cands[i].dist \in Int /\ cands[i].id = nbs[i]
  <2> SUFFICES ASSUME NEW i \in 1..L PROVE cands[i].dist \in Int /\ cands[i].id = nbs[i]
    OBVIOUS
  <2>1. PICK o \in S : o = nbs[i]
    BY <1>7
  <2>2. cands[i] = Candidate(g, v, o)
    BY <1>6, <2>1
  <2>3. Candidate(g, v, o).id = o /\ Candidate(g, v, o).dist \in Int
    <3> HIDE DEF v
    <3> QED BY <1>10 DEF AreCandidates
  <2> QED BY <2>1, <2>2, <2>3
<1>12. cands = [i \in 1..L |-> cands[i]] /\ DOMAIN cands = 1..L
  BY <1>6
<1> HIDE DEF cands
<1>13. Ids(cands) = nbs
  <2>1. Ids(cands) = [i \in 1..L |-> cands[i].id]
    BY <1>12 DEF Ids
  <2>2. Ids(cands) = [i \in 1..L |-> nbs[i]]
    BY <1>11, <2>1
  <2>3. nbs = [i \in 1..L |-> nbs[i]]
    BY <1>6
  <2> QED BY <2>2, <2>3
<1>14. /\ DOMAIN sorted = 1..L /\ Len(sorted) = L /\ Ids(sorted) \in Seq(S) /\ Distinct(Ids(sorted))
       /\ Range(Ids(sorted)) \subseteq Range(nbs)
  <2>1. \A i \in 1..L : cands[i].dist \in Int /\ cands[i].id \in S
    BY <1>7, <1>11
  <2>2. Distinct(Ids(cands))
    BY <1>6, <1>13
  <2> QED BY <1>12, <1>13, <2>1, <2>2, ByDistanceKeeps
<1> HIDE DEF sorted
<1>15. PICK chosen : /\ chosen = SelectNeighbors(g, sorted, m) /\ chosen \in Seq(S)
                     /\ Distinct(chosen) /\ Len(chosen) <= m /\ Range(chosen) \subseteq Range(Ids(sorted))
  BY <1>2, <1>14, SelectPicks
<1>16. n \notin Range(nbs)
  BY <1>4, <1>6
<1>17. Tidy(new, n, layer, S)
  <2>1. CASE L > m
    <3>1. new = chosen
      BY <1>6, <1>15, <2>1
    <3> QED BY <1>1, <1>14, <1>15, <1>16, <3>1 DEF Tidy
  <2>2. CASE ~(L > m)
    <3>1. new = nbs /\ L <= m
      BY <1>2, <1>6, <2>2
    <3> QED BY <1>1, <1>6, <1>16, <3>1 DEF Tidy
  <2> QED BY <2>1, <2>2
<1>18. Len(old) < m => Range(new) = Range(old) \cup {id}
  <2> SUFFICES ASSUME Len(old) < m PROVE Range(new) = Range(old) \cup {id}
    OBVIOUS
  <2>1. ~(Len(nbs) > m)
    BY <1>2, <1>6, LenProperties
  <2> QED BY <1>6, <2>1
<1> HIDE DEF new
<1>19. Relinks(h, g, n, layer, new) /\ Layered(h, layer)
  BY <1>1, <1>17, RelinkedTidy
<1> HIDE DEF h
<1> QED BY <1>1, <1>8, <1>18, <1>19 DEF Relinks

\* A new node has no links in a layer yet.
Unlinked(g, id, layer) ==
    /\ Sized(g) /\ Layered(g, layer) /\ id \in NodesOf(g, layer)
    /\ \A n \in NodesOf(g, layer) : id \notin Range(LinksOf(g, n, layer))

\* It has links to the selected nodes, and the first i of them may have one back;
\* they have if there was room in their links.
LinkedTo(h, g, id, layer, sel, i) ==
    LET S == NodesOf(g, layer) \ {id} IN
    /\ SameBut(h, g, layer) /\ Layered(h, layer) /\ LinksOf(h, id, layer) = sel
    /\ \A n \in S : n \notin {sel[j] : j \in 1..i} => LinksOf(h, n, layer) = LinksOf(g, n, layer)
    /\ (\A n \in S : Len(LinksOf(g, n, layer)) < Bound(layer)) =>
            \A n \in {sel[j] : j \in 1..i} :
                Range(LinksOf(h, n, layer)) = Range(LinksOf(g, n, layer)) \cup {id}

LEMMA LinkBackLinks ==
    ASSUME NEW layer \in Nat, NEW g, NEW id, Unlinked(g, id, layer),
           NEW sel \in Seq(NodesOf(g, layer) \ {id}), Distinct(sel), NEW i \in 1..Len(sel),
           NEW h, LinkedTo(h, g, id, layer, sel, i - 1)
    PROVE  LinkedTo(LinkBack(h, sel[i], id, layer, Bound(layer)), g, id, layer, sel, i)
<1>1. PICK S, T, n : S = NodesOf(g, layer) /\ T = S \ {id} /\ n = sel[i] /\ S \in SUBSET (1..Len(g.vec))
  BY SizedIs DEF Unlinked
<1>2. PICK K \in Nat : K = Len(sel) /\ DOMAIN sel = 1..K /\ \A j \in 1..K : sel[j] \in T
  <2>1. Len(sel) \in Nat /\ DOMAIN sel = 1..Len(sel)
    BY LenProperties
  <2> QED BY <1>1, <2>1, ElementOfSeq
<1>3. n \in T /\ n \in S /\ n # id /\ id \in S
  BY <1>1, <1>2 DEF Unlinked
<1>4. n \notin {sel[j] : j \in 1..(i - 1)}
  <2> SUFFICES ASSUME NEW j \in 1..(i - 1) PROVE sel[j] # n
    OBVIOUS
  <2>1. j \in 1..K /\ i \in 1..K /\ j # i
    BY <1>2
  <2> QED BY <1>1, <1>2, <2>1 DEF Distinct
<1>5. \A o : o \in {sel[j] : j \in 1..i} <=> o = n \/ o \in {sel[j] : j \in 1..(i - 1)}
  <2>1. \A j : j \in 1..i <=> j = i \/ j \in 1..(i - 1)
    BY <1>2
  <2> QED BY <1>1, <2>1
<1>6. PICK P, Q : P = {sel[j] : j \in 1..(i - 1)} /\ Q = {sel[j] : j \in 1..i}
  OBVIOUS
<1>7. /\ SameBut(h, g, layer) /\ Layered(h, layer) /\ LinksOf(h, id, layer) = sel
      /\ \A o \in T : o \notin P => LinksOf(h, o, layer) = LinksOf(g, o, layer)
      /\ (\A o \in T : Len(LinksOf(g, o, layer)) < Bound(layer)) =>
            \A o \in P : Range(LinksOf(h, o, layer)) = Range(LinksOf(g, o, layer)) \cup {id}
  BY <1>1, <1>6 DEF LinkedTo
<1>8. LinksOf(h, n, layer) = LinksOf(g, n, layer)
  BY <1>3, <1>4, <1>6, <1>7
<1>9. PICK r : r = LinkBack(h, n, id, layer, Bound(layer))
  OBVIOUS
<1>10. NodesOf(h, layer) = S /\ Sized(h) /\ Len(h.vec) = Len(g.vec)
  <2>1. NodesOf(h, layer) = NodesOf(g, layer)
    BY <1>7, SameButKeeps
  <2> QED BY <1>1, <1>7, <2>1 DEF SameBut
<1>11. id \notin Range(LinksOf(h, n, layer))
  BY <1>1, <1>3, <1>8 DEF Unlinked
<1>12. /\ Relinks(r, h, n, layer, LinksOf(r, n, layer)) /\ Layered(r, layer)
       /\ Len(LinksOf(h, n, layer)) < Bound(layer) =>
              Range(LinksOf(r, n, layer)) = Range(LinksOf(h, n, layer)) \cup {id}
  <2>1. id \in NodesOf(h, layer) /\ n \in NodesOf(h, layer)
    BY <1>3, <1>10
  <2>2. LET x == LinkBack(h, n, id, layer, Bound(layer)) IN
           /\ Relinks(x, h, n, layer, LinksOf(x, n, layer)) /\ Layered(x, layer)
           /\ Len(LinksOf(h, n, layer)) < Bound(layer) =>
                  Range(LinksOf(x, n, layer)) = Range(LinksOf(h, n, layer)) \cup {id}
    BY <1>3, <1>7, <1>10, <1>11, <2>1, LinkBackKeeps
  <2> QED BY <1>9, <2>2
<1>13. SameBut(r, g, layer)
  BY <1>7, <1>12, SameButKeeps DEF Relinks
<1>14. \A o \in 1..Len(g.vec) : o # n => LinksOf(r, o, layer) = LinksOf(h, o, layer)
  BY <1>10, <1>12 DEF Relinks
<1>15. LinksOf(r, id, layer) = sel
  BY <1>1, <1>3, <1>7, <1>14
<1>16. \A o \in T : o \notin Q => LinksOf(r, o, layer) = LinksOf(g, o, layer)
  BY <1>1, <1>5, <1>6, <1>7, <1>14
<1>17. ASSUME \A o \in T : Len(LinksOf(g, o, layer)) < Bound(layer), NEW o \in Q
       PROVE  Range(LinksOf(r, o, layer)) = Range(LinksOf(g, o, layer)) \cup {id}
  <2>1. CASE o = n
    BY <1>3, <1>8, <1>12, <1>17, <2>1
  <2>2. CASE o # n
    <3>1. o \in P
      BY <1>5, <1>6, <1>17, <2>2
    <3>2. o \in 1..Len(g.vec)
      <4>1. \A j \in 1..(i - 1) : j \in 1..K
        BY <1>2
      <4> QED BY <1>1, <1>2, <1>6, <3>1, <4>1
    <3> QED BY <1>7, <1>14, <1>17, <2>2, <3>1, <3>2
  <2> QED BY <2>1, <2>2
<1>18. LinkedTo(r, g, id, layer, sel, i)
  BY <1>1, <1>6, <1>12, <1>13, <1>15, <1>16, <1>17 DEF LinkedTo
<1> QED BY <1>1, <1>9, <1>18

LEMMA LinkLayerLinks ==
    ASSUME NEW layer \in Nat, NEW s, NEW id,
           Unlinked(s.g, id, layer),
           NEW sel \in Seq(NodesOf(s.g, layer) \ {id}), Distinct(sel), Len(sel) <= Bound(layer),
           sel = SelectNeighbors(s.g, SearchLayer(s.g, s.g.vec[id], s.curr, EfConstruction, layer),
                                 Bound(layer))
    PROVE  LinkedTo(LinkLayer(s, id, layer).g, s.g, id, layer, sel, Len(sel))
<1>1. PICK g, S, T : g = s.g /\ S = NodesOf(g, layer) /\ T = S \ {id} /\ S \in SUBSET (1..Len(g.vec))
  BY SizedIs DEF Unlinked
<1>2. PICK K \in Nat : K = Len(sel) /\ DOMAIN sel = 1..K
  BY LenProperties
<1> DEFINE first == [g EXCEPT !.links[id][layer + 1] = sel]
           Step(f) == [n \in 0..K |-> IF n = 0 THEN first
                                      ELSE LinkBack(f[n - 1], sel[n], id, layer, Bound(layer))]
           after == CHOOSE f : f = Step(f)
           r == LinkLayer(s, id, layer)
           I == [n \in 0..K |-> {h \in Graphs : LinkedTo(h, g, id, layer, sel, n)}]
           G == [x \in Graphs \X (1..K) |-> LinkBack(x[1], sel[x[2]], id, layer, Bound(layer))]
<1>3. r.g = after[K]
  BY <1>1, <1>2 DEF LinkLayer, Bound
<1>4. LinkedTo(first, g, id, layer, sel, 0)
  <2>1. Tidy(sel, id, layer, S)
    <3>1. sel \in Seq(S)
      BY <1>1, SeqMonotonic
    <3>2. id \notin Range(sel)
      BY <1>1, <1>2, ElementOfSeq DEF Range
    <3> QED BY <3>1, <3>2 DEF Tidy
  <2>2. Relinks(first, g, id, layer, sel) /\ Layered(first, layer)
    BY <1>1, <2>1, RelinkedTidy DEF Unlinked
  <2>3. {sel[j] : j \in 1..0} = {}
    OBVIOUS
  <2> HIDE DEF first
  <2> QED BY <1>1, <2>2, <2>3 DEF LinkedTo, Relinks
<1>5. \A n \in 1..K : \A h : LinkedTo(h, g, id, layer, sel, n - 1) =>
         LinkedTo(LinkBack(h, sel[n], id, layer, Bound(layer)), g, id, layer, sel, n)
  BY <1>1, <1>2, LinkBackLinks
<1>6. \A h, n : LinkedTo(h, g, id, layer, sel, n) => h \in Graphs
  BY DEF LinkedTo, SameBut, Sized
<1>7. after = Step(after)
  <2>1. \A n \in 0..K : I[n] \subseteq Graphs
    OBVIOUS
  <2>2. first \in I[0]
    <3>1. 0 \in 0..K
      OBVIOUS
    <3> HIDE DEF first
    <3> QED BY <1>4, <1>6, <3>1
  <2>3. \A n \in 1..K : \A x \in I[n - 1] :
           G[<<x, n>>] \in I[n] /\ G[<<x, n>>] = LinkBack(x, sel[n], id, layer, Bound(layer))
    <3> SUFFICES ASSUME NEW n \in 1..K, NEW x \in I[n - 1]
                 PROVE  /\ G[<<x, n>>] \in I[n]
                        /\ G[<<x, n>>] = LinkBack(x, sel[n], id, layer, Bound(layer))
      OBVIOUS
    <3>1. n - 1 \in 0..K /\ n \in 0..K
      OBVIOUS
    <3>2. x \in Graphs /\ LinkedTo(x, g, id, layer, sel, n - 1)
      BY <3>1
    <3>3. LinkedTo(LinkBack(x, sel[n], id, layer, Bound(layer)), g, id, layer, sel, n)
      BY <1>5, <3>2
    <3>4. G[<<x, n>>] = LinkBack(x, sel[n], id, layer, Bound(layer))
      BY <3>2
    <3> HIDE DEF G
    <3> QED BY <1>6, <3>1, <3>3, <3>4
  <2> HIDE DEF G, first, I
  <2>4. PICK f : /\ f = [n \in 0..K |-> f[n]] /\ StepsBy(f, first, G, K)
                 /\ \A n \in 0..K : f[n] \in I[n]
    BY <2>1, <2>2, <2>3, StepsWithin
  <2>5. \A n \in 0..K : f[n] = IF n = 0 THEN first
                               ELSE LinkBack(f[n - 1], sel[n], id, layer, Bound(layer))
    <3>1. f[0] = first
      BY <2>4 DEF StepsBy
    <3>2. ASSUME NEW n \in 0..K, n # 0
          PROVE  f[n] = LinkBack(f[n - 1], sel[n], id, layer, Bound(layer))
      <4>1. n \in 1..K /\ n - 1 \in 0..K
        BY <3>2
      <4> QED BY <2>3, <2>4, <4>1 DEF StepsBy
    <3> QED BY <3>1, <3>2
  <2>6. f = Step(f)
    BY <2>4, <2>5
  <2> QED BY <2>6
<1> HIDE DEF after
<1>8. after[0] = first
      /\ \A n \in 1..K : after[n] = LinkBack(after[n - 1], sel[n], id, layer, Bound(layer))
  <2> HIDE DEF first
  <2>1. \A n \in 0..K : after[n] = IF n = 0 THEN first
                                   ELSE LinkBack(after[n - 1], sel[n], id, layer, Bound(layer))
    BY <1>7
  <2>2. 0 \in 0..K /\ \A n \in 1..K : n \in 0..K /\ n # 0
    OBVIOUS
  <2> QED BY <2>1, <2>2
<1> HIDE DEF first, G, I, r
<1> DEFINE H == {n \in 0..K : LinkedTo(after[n], g, id, layer, sel, n)}
<1>9. K \in H
  <2>1. 0 \in H
    BY <1>4, <1>8
  <2>2. NextHas(H, K)
    BY <1>5, <1>8 DEF NextHas
  <2> HIDE DEF H
  <2> QED BY <2>1, <2>2, ReachesAll
<1> QED BY <1>1, <1>2, <1>3, <1>9 DEF r

\* The nodes of an answer are different.
HasNodes(r, ids, g, v, S) ==
    /\ DOMAIN r = 1..Len(r) /\ Len(r) \in Nat /\ ids \in Seq(S) /\ Distinct(ids)
    /\ Len(ids) = Len(r) /\ DOMAIN ids = 1..Len(r)
    /\ \A i \in 1..Len(r) : r[i] = Candidate(g, v, ids[i]) /\ ids[i] = r[i].id
    /\ FindsAll(r, g, v, S) => Range(ids) = S

LEMMA AnswerNodes ==
    ASSUME NEW g, g.vec \in Seq(SUBSET Bit), NEW v \in SUBSET Bit,
           NEW S \in SUBSET (1..Len(g.vec)), NEW ef, NEW r, IsAnswer(r, g, v, S, ef)
    PROVE  HasNodes(r, Ids(r), g, v, S)
<1>1. PICK C : C = Around(g, v, S) /\ AreCandidates(g, v, S, C)
  BY AroundIs
<1>2. r \in Seq(C) /\ Distinct(r)
  BY <1>1 DEF IsAnswer
<1>3. PICK L \in Nat : L = Len(r) /\ DOMAIN r = 1..L
  <2>1. Len(r) \in Nat /\ DOMAIN r = 1..Len(r)
    BY <1>2, LenProperties
  <2> QED BY <2>1
<1>4. \A i \in 1..L : r[i] \in C
  BY <1>2, <1>3, ElementOfSeq
<1>5. PICK ids : ids = Ids(r) /\ ids = [i \in 1..L |-> r[i].id]
  BY <1>3 DEF Ids
<1>6. \A i \in 1..L : ids[i] = r[i].id /\ ids[i] \in S /\ r[i] = Candidate(g, v, ids[i])
  BY <1>1, <1>4, <1>5 DEF AreCandidates
<1>7. ids \in Seq(S) /\ Len(ids) = L /\ DOMAIN ids = 1..L
  <2>1. ids = [i \in 1..L |-> ids[i]]
    BY <1>5
  <2>2. \A i \in 1..L : ids[i] \in S
    BY <1>6
  <2>3. ids \in Seq(S)
    BY <2>1, <2>2
  <2>4. DOMAIN ids = 1..Len(ids) /\ Len(ids) \in Nat /\ DOMAIN ids = 1..L
    BY <1>5, <2>3, LenProperties
  <2>5. Len(ids) = L
    <3>1. PICK n \in Nat : n = Len(ids) /\ 1..n = 1..L
      BY <2>4
    <3>2. n = L
      BY <3>1
    <3> QED BY <3>1, <3>2
  <2> QED BY <2>3, <2>4, <2>5
<1>8. Distinct(ids)
  <2> SUFFICES ASSUME NEW i \in 1..L, NEW j \in 1..L, i # j PROVE ids[i] # ids[j]
    BY <1>7 DEF Distinct
  <2>1. r[i] # r[j]
    BY <1>2, <1>3 DEF Distinct
  <2> QED BY <1>6, <2>1
<1>9. ASSUME FindsAll(r, g, v, S) PROVE Range(ids) = S
  <2>1. Range(r) = C
    BY <1>1, <1>9 DEF FindsAll
  <2>2. ASSUME NEW n \in S PROVE n \in Range(ids)
    <3>1. Candidate(g, v, n) \in Range(r) /\ Candidate(g, v, n).id = n
      BY <1>1, <2>1 DEF AreCandidates
    <3>2. PICK i \in 1..L : r[i] = Candidate(g, v, n)
      BY <1>3, <3>1 DEF Range
    <3>3. ids[i] = n
      BY <1>6, <3>1, <3>2
    <3> QED BY <1>7, <3>3 DEF Range
  <2>3. Range(ids) \subseteq S
    BY <1>6, <1>7 DEF Range
  <2> QED BY <2>2, <2>3
<1>10. \A i \in 1..L : r[i] = Candidate(g, v, ids[i]) /\ ids[i] = r[i].id
  BY <1>6
<1>11. HasNodes(r, ids, g, v, S)
  BY <1>3, <1>7, <1>8, <1>9, <1>10 DEF HasNodes
<1> QED BY <1>5, <1>11

\* Nodes all of which are linked in layer 0; so many that no links are dropped.
Meshed(g, S) == \A n, o \in S : n # o => o \in Range(LinksOf(g, n, 0))
Small(n) == n <= M0 + 1 /\ n <= EfConstruction

LEMMA LinkLayerKeeps ==
    ASSUME NEW layer \in Nat, NEW s, NEW id, Unlinked(s.g, id, layer),
           s.curr \in NodesOf(s.g, layer) \ {id}
    PROVE  LET r == LinkLayer(s, id, layer)
               N == Len(s.g.vec)
           IN  /\ r \in [g : Graphs, curr : Nat] /\ r.curr \in NodesOf(s.g, layer) \ {id}
               /\ SameBut(r.g, s.g, layer) /\ Layered(r.g, layer)
               /\ layer = 0 /\ NodesOf(s.g, 0) = 1..N /\ Small(N) /\ Meshed(s.g, (1..N) \ {id}) =>
                      Meshed(r.g, 1..N)
<1>1. PICK g, S, T, c, v, N, m :
         /\ g = s.g /\ S = NodesOf(g, layer) /\ T = S \ {id} /\ S \in SUBSET (1..Len(g.vec))
         /\ c = s.curr /\ v = g.vec[id] /\ N = Len(g.vec) /\ m = Bound(layer)
  BY SizedIs DEF Unlinked
<1>2. N \in Nat /\ T \in SUBSET (1..N) /\ g.vec \in Seq(SUBSET Bit) /\ id \in 1..N /\ v \in SUBSET Bit
      /\ Sized(g) /\ c \in T /\ Layered(g, layer) /\ T \subseteq Nat
  <2>1. Sized(g) /\ id \in S /\ Layered(g, layer) /\ c \in T
    BY <1>1 DEF Unlinked
  <2>2. N \in Nat /\ g.vec \in Seq(SUBSET Bit) /\ id \in 1..N
    BY <1>1, <2>1, SizedIs
  <2>3. v \in SUBSET Bit
    BY <1>1, <2>2, ElementOfSeq
  <2> QED BY <1>1, <2>1, <2>2, <2>3
<1>3. m \in Nat \ {0} /\ EfConstruction \in Nat \ {0}
  BY <1>1, ParamsAssumption DEF Bound
<1>4. Linked(g, layer, T)
  <2> SUFFICES ASSUME NEW n \in T PROVE LinksOf(g, n, layer) \in Seq(T)
    BY DEF Linked
  <2>1. PICK nbs \in Seq(S) : nbs = LinksOf(g, n, layer) /\ id \notin Range(nbs)
    BY <1>1 DEF Unlinked, Layered, Tidy
  <2>2. DOMAIN nbs = 1..Len(nbs) /\ Len(nbs) \in Nat
    BY <2>1, LenProperties
  <2>3. \A i \in 1..Len(nbs) : nbs[i] \in T
    BY <1>1, <2>1, <2>2, ElementOfSeq DEF Range
  <2>4. nbs = [i \in 1..Len(nbs) |-> nbs[i]]
    BY <2>1
  <2>5. nbs \in Seq(T)
    BY <2>2, <2>3, <2>4
  <2> QED BY <2>1, <2>5
<1>5. PICK cands : cands = SearchLayer(g, v, c, EfConstruction, layer)
  OBVIOUS
<1>6. /\ IsAnswer(cands, g, v, T, EfConstruction)
      /\ T \subseteq {c} \cup Range(LinksOf(g, c, layer)) /\ Cardinality(T) <= EfConstruction =>
            FindsAll(cands, g, v, T)
  BY <1>1, <1>2, <1>3, <1>4, <1>5, SearchLayerFinds
<1>0. PICK ids, L : L = Len(cands) /\ ids = Ids(cands) /\ HasNodes(cands, ids, g, v, T)
  BY <1>1, <1>2, <1>6, AnswerNodes
<1>7. /\ L = Len(cands) /\ L \in Nat /\ DOMAIN cands = 1..L
      /\ ids = Ids(cands) /\ ids \in Seq(T) /\ Distinct(ids) /\ Len(ids) = L
      /\ (\A i \in 1..L : ids[i] = cands[i].id) /\ DOMAIN ids = 1..L
      /\ FindsAll(cands, g, v, T) => Range(ids) = T
  BY <1>0 DEF HasNodes
<1>8. PICK sel : sel = SelectNeighbors(g, cands, m)
  OBVIOUS
<1>9. sel \in Seq(T) /\ Distinct(sel) /\ Len(sel) <= m /\ (L <= m => sel = ids)
  BY <1>3, <1>7, <1>8, SelectPicks
<1>10. PICK r : r = LinkLayer(s, id, layer)
  OBVIOUS
<1>11. LinkedTo(r.g, g, id, layer, sel, Len(sel))
  BY <1>1, <1>5, <1>8, <1>9, <1>10, LinkLayerLinks
<1>12. SameBut(r.g, g, layer) /\ Layered(r.g, layer) /\ r.g \in Graphs
  BY <1>11 DEF LinkedTo, SameBut, Sized
<1>13. r.curr \in T /\ r = [g |-> r.g, curr |-> r.curr]
  <2>1. r = [g |-> r.g, curr |-> IF cands = <<>> THEN c ELSE cands[1].id]
    BY <1>1, <1>5, <1>10 DEF LinkLayer
  <2>2. cands # <<>> /\ 1 \in 1..L
    <3>1. L \in 1..EfConstruction
      BY <1>6, <1>7 DEF IsAnswer
    <3>2. 1 \in 1..L
      BY <1>3, <3>1
    <3> QED BY <1>7, <3>2
  <2>3. cands[1].id \in T
    BY <1>7, <2>2, ElementOfSeq
  <2> QED BY <2>1, <2>2, <2>3
<1>14. r \in [g : Graphs, curr : Nat]
  BY <1>2, <1>12, <1>13
<1>15. ASSUME layer = 0, S = 1..N, Small(N), Meshed(g, (1..N) \ {id}) PROVE Meshed(r.g, 1..N)
  <2>1. T = (1..N) \ {id} /\ m = M0 /\ M0 \in Nat \ {0}
    BY <1>1, <1>15, ParamsAssumption DEF Bound
  <2>2. IsFiniteSet(T) /\ Cardinality(T) = N - 1
    <3>1. IsFiniteSet(1..N) /\ Cardinality(1..N) = N
      BY <1>2, FS_Interval
    <3>2. id \in 1..N
      BY <1>2
    <3>3. IsFiniteSet((1..N) \ {id}) /\ Cardinality((1..N) \ {id}) = N - 1
      BY <3>1, <3>2, FS_RemoveElement
    <3> QED BY <2>1, <3>3
  <2>3. T \subseteq {c} \cup Range(LinksOf(g, c, layer))
    BY <1>2, <1>15, <2>1 DEF Meshed
  <2>4. Range(ids) = T
    <3>1. Cardinality(T) <= EfConstruction
      BY <1>2, <1>3, <1>15, <2>2 DEF Small
    <3> QED BY <1>6, <1>7, <2>3, <3>1
  <2>5. L = N - 1 /\ sel = ids
    <3>1. Cardinality(Range(ids)) = L
      BY <1>7, CountIn
    <3>2. L = N - 1
      BY <2>2, <2>4, <3>1
    <3> QED BY <1>2, <1>9, <1>15, <2>1, <3>2 DEF Small
  <2>6. {sel[j] : j \in 1..Len(sel)} = T /\ Range(sel) = T
    BY <1>7, <2>4, <2>5 DEF Range
  <2>7. ASSUME NEW n \in T PROVE Len(LinksOf(g, n, layer)) < Bound(layer)
    <3>1. PICK nbs \in Seq(T) : nbs = LinksOf(g, n, layer)
      BY <1>4 DEF Linked
    <3>2. Distinct(nbs) /\ n \notin Range(nbs)
      BY <1>1, <1>2, <2>7, <3>1 DEF Layered, Tidy
    <3>3. Cardinality(Range(nbs)) = Len(nbs)
      BY <3>2, CountIn
    <3>4. Range(nbs) \in SUBSET (T \ {n})
      <4>1. Range(nbs) \subseteq T
        BY <3>1, LenProperties, ElementOfSeq DEF Range
      <4> QED BY <3>2, <4>1
    <3>5. IsFiniteSet(T \ {n}) /\ Cardinality(T \ {n}) = N - 2
      <4>1. IsFiniteSet(T \ {n}) /\ Cardinality(T \ {n}) = (N - 1) - 1
        BY <2>2, <2>7, FS_RemoveElement
      <4> QED BY <1>2, <4>1
    <3>6. Cardinality(Range(nbs)) <= N - 2
      BY <3>4, <3>5, FS_Subset
    <3> QED BY <1>1, <1>2, <1>15, <2>1, <3>1, <3>3, <3>6, LenProperties DEF Small
  <2>8. \A n \in T : Range(LinksOf(r.g, n, layer)) = Range(LinksOf(g, n, layer)) \cup {id}
    BY <1>1, <1>11, <2>6, <2>7 DEF LinkedTo
  <2>9. LinksOf(r.g, id, layer) = sel
    BY <1>11 DEF LinkedTo
  <2> SUFFICES ASSUME NEW n \in 1..N, NEW o \in 1..N, n # o PROVE o \in Range(LinksOf(r.g, n, 0))
    BY DEF Meshed
  <2>10. CASE n = id
    BY <1>15, <2>1, <2>6, <2>9, <2>10
  <2>11. CASE n # id
    BY <1>15, <2>1, <2>8, <2>11 DEF Meshed
  <2> QED BY <2>10, <2>11
<1> QED BY <1>1, <1>10, <1>12, <1>13, <1>14, <1>15

LEMMA LayeredLinks ==
    ASSUME NEW g, Sized(g), NEW layer \in Nat, Layered(g, layer)
    PROVE  /\ NodesOf(g, layer) \in SUBSET (1..Len(g.vec))
           /\ Linked(g, layer, NodesOf(g, layer)) /\ Linked(g, layer, 1..Len(g.vec))
<1>1. PICK N \in Nat : N = Len(g.vec)
  BY SizedIs
<1>2. PICK S \in SUBSET (1..N) : S = NodesOf(g, layer)
  BY <1>1, SizedIs
<1>3. Linked(g, layer, S)
  BY <1>2 DEF Linked, Layered, Tidy
<1>4. ASSUME NEW n \in 1..N PROVE LinksOf(g, n, layer) \in Seq(1..N)
  <2>1. CASE n \in S
    <3>1. LinksOf(g, n, layer) \in Seq(S)
      BY <1>3, <2>1 DEF Linked
    <3> QED BY <3>1, SeqMonotonic
  <2>2. CASE n \notin S
    <3>1. LinksOf(g, n, layer) = <<>>
      BY <1>1, <1>2, <2>2 DEF LinksOf, NodesOf
    <3> QED BY <3>1, EmptySeq
  <2> QED BY <2>1, <2>2
<1> QED BY <1>1, <1>2, <1>3, <1>4 DEF Linked

\* Going down the layers ends at a node that has the layer above.
LEMMA DescendFinds ==
    ASSUME NEW g, Sized(g), \A layer \in Nat : Layered(g, layer), NEW v \in SUBSET Bit,
           g.entry \in 1..Len(g.vec), g.top \in Nat, Len(g.links[g.entry]) = g.top + 1,
           NEW down \in Nat
    PROVE  IF down >= g.top THEN Descend(g, v, down) = g.entry
           ELSE Descend(g, v, down) \in NodesOf(g, down + 1)
<1>0. PICK entry : entry = g.entry
  OBVIOUS
<1>1. PICK top \in Nat : top = g.top /\ entry = g.entry
  BY <1>0
<1>2. CASE down > top
  BY <1>1, <1>2 DEF Descend
<1>3. CASE ~(down > top)
  <2>1. PICK D \in Nat : D = top - down
    BY <1>3
  <2> DEFINE Step(f) == [layer \in (down + 1)..(top + 1) |->
                           IF layer = top + 1 THEN entry
                           ELSE GreedyClosest(g, v, f[layer + 1], layer)]
             at == CHOOSE f : f = Step(f)
             I == [m \in 0..D |-> IF m = 0 THEN {entry} ELSE NodesOf(g, top + 1 - m)]
             G == [x \in (1..Len(g.vec)) \X (1..D) |-> GreedyClosest(g, v, x[1], top + 1 - x[2])]
  <2>2. Descend(g, v, down) = at[down + 1]
    BY <1>1, <1>3 DEF Descend
  <2>3. \A m \in 1..D : top + 1 - m \in Nat /\ m - 1 \in 0..D /\ m \in 0..D
    BY <2>1
  <2>4. \A m \in 0..D : I[m] \in SUBSET (1..Len(g.vec))
    <3> SUFFICES ASSUME NEW m \in 0..D PROVE I[m] \in SUBSET (1..Len(g.vec))
      OBVIOUS
    <3>1. CASE m = 0
      BY <1>1, <3>1
    <3>2. CASE m # 0
      <4>1. m \in 1..D
        BY <3>2
      <4>2. NodesOf(g, top + 1 - m) \in SUBSET (1..Len(g.vec))
        BY <2>3, <4>1, SizedIs
      <4> QED BY <3>2, <4>2
    <3> QED BY <3>1, <3>2
  <2>5. ASSUME NEW m \in 1..D, NEW x \in I[m - 1]
        PROVE  GreedyClosest(g, v, x, top + 1 - m) \in I[m]
    <3>1. PICK layer \in Nat : layer = top + 1 - m
      BY <2>3
    <3>2. x \in NodesOf(g, layer)
      <4>1. CASE m = 1
        <5>1. x = entry /\ layer = top
          BY <2>3, <3>1, <4>1
        <5> QED BY <1>1, <5>1 DEF NodesOf
      <4>2. CASE m # 1
        <5>1. I[m - 1] = NodesOf(g, layer + 1)
          <6>1. m - 1 \in 0..D /\ m - 1 # 0 /\ top + 1 - (m - 1) = layer + 1
            BY <2>3, <3>1, <4>2
          <6> QED BY <6>1
        <5>2. x \in 1..Len(g.vec) /\ layer + 1 < Len(g.links[x])
          BY <2>5, <5>1 DEF NodesOf
        <5>3. Len(g.links[x]) \in Nat
          BY <5>2, SizedIs
        <5> QED BY <5>2, <5>3 DEF NodesOf
      <4> QED BY <4>1, <4>2
    <3>3. GreedyClosest(g, v, x, layer) \in NodesOf(g, layer)
      <4>1. /\ NodesOf(g, layer) \in SUBSET (1..Len(g.vec))
            /\ Linked(g, layer, NodesOf(g, layer)) /\ Linked(g, layer, 1..Len(g.vec))
        BY LayeredLinks
      <4>2. g.vec \in Seq(SUBSET Bit)
        BY SizedIs
      <4> QED BY <3>2, <4>1, <4>2, GreedyStays
    <3>4. I[m] = NodesOf(g, layer)
      BY <2>3, <3>1
    <3> HIDE DEF I
    <3> QED BY <3>1, <3>3, <3>4
  <2>6. entry \in I[0] /\ 0 \in 0..D
    BY <2>1
  <2> HIDE DEF I
  <2>7. at = Step(at)
    <3>1. \A m \in 1..D : \A x \in I[m - 1] :
             G[<<x, m>>] \in I[m] /\ G[<<x, m>>] = GreedyClosest(g, v, x, top + 1 - m)
      <4> SUFFICES ASSUME NEW m \in 1..D, NEW x \in I[m - 1]
                   PROVE  /\ G[<<x, m>>] \in I[m]
                          /\ G[<<x, m>>] = GreedyClosest(g, v, x, top + 1 - m)
        OBVIOUS
      <4>1. x \in 1..Len(g.vec)
        BY <2>3, <2>4
      <4>2. G[<<x, m>>] = GreedyClosest(g, v, x, top + 1 - m)
        BY <4>1
      <4> HIDE DEF G
      <4> QED BY <2>5, <4>2
    <3> HIDE DEF G
    <3>2. PICK f : /\ f = [m \in 0..D |-> f[m]] /\ StepsBy(f, entry, G, D)
                   /\ \A m \in 0..D : f[m] \in I[m]
      BY <2>4, <2>6, <3>1, StepsWithin
    <3> DEFINE h == [layer \in (down + 1)..(top + 1) |-> f[top + 1 - layer]]
    <3>3. ASSUME NEW layer \in (down + 1)..(top + 1)
          PROVE  h[layer] = IF layer = top + 1 THEN entry
                            ELSE GreedyClosest(g, v, h[layer + 1], layer)
      <4>1. CASE layer = top + 1
        <5>1. h[layer] = f[0]
          BY <4>1
        <5> QED BY <3>2, <4>1, <5>1 DEF StepsBy
      <4>2. CASE layer # top + 1
        <5>1. PICK m \in 1..D : m = top + 1 - layer /\ layer = top + 1 - m
          BY <2>1, <4>2
        <5>2. layer + 1 \in (down + 1)..(top + 1) /\ top + 1 - (layer + 1) = m - 1
          BY <4>2, <5>1
        <5>3. h[layer] = f[m] /\ h[layer + 1] = f[m - 1]
          BY <5>1, <5>2
        <5>4. f[m] = GreedyClosest(g, v, f[m - 1], top + 1 - m)
          BY <2>3, <3>1, <3>2, <5>1 DEF StepsBy
        <5> HIDE DEF h
        <5> QED BY <4>2, <5>1, <5>3, <5>4
      <4> QED BY <4>1, <4>2
    <3>4. h = Step(h)
      <4>1. h = [layer \in (down + 1)..(top + 1) |-> h[layer]]
        OBVIOUS
      <4> HIDE DEF h
      <4> QED BY <3>3, <4>1
    <3> QED BY <3>4
  <2> HIDE DEF at, G
  <2>8. \A layer \in (down + 1)..(top + 1) :
           at[layer] = IF layer = top + 1 THEN entry ELSE GreedyClosest(g, v, at[layer + 1], layer)
    BY <2>7
  <2> DEFINE K == {m \in 0..D : at[top + 1 - m] \in I[m]}
  <2>9. D \in K
    <3>1. 0 \in K
      <4>1. top + 1 \in (down + 1)..(top + 1) /\ top + 1 - 0 = top + 1
        BY <2>1
      <4> QED BY <2>6, <2>8, <4>1
    <3>2. ASSUME NEW m \in 1..D, m - 1 \in K PROVE m \in K
      <4>1. PICK layer \in Nat : layer = top + 1 - m
        BY <2>3
      <4>2. layer \in (down + 1)..(top + 1) /\ layer # top + 1 /\ layer + 1 = top + 1 - (m - 1)
        BY <2>1, <4>1
      <4>3. at[layer] = GreedyClosest(g, v, at[layer + 1], layer)
        BY <2>8, <4>2
      <4>4. at[layer + 1] \in I[m - 1]
        BY <3>2, <4>2
      <4> QED BY <2>3, <2>5, <4>1, <4>3, <4>4
    <3>3. NextHas(K, D)
      BY <3>2 DEF NextHas
    <3> HIDE DEF K
    <3> QED BY <2>1, <3>1, <3>3, ReachesAll
  <2>10. at[down + 1] \in I[D]
    <3>1. top + 1 - D = down + 1
      BY <2>1
    <3> QED BY <2>9, <3>1
  <2>11. CASE D = 0
    <3>1. I[D] = {entry} /\ down = top
      BY <2>1, <2>11 DEF I
    <3> QED BY <1>1, <2>2, <2>10, <3>1
  <2>12. CASE D # 0
    <3>1. I[D] = NodesOf(g, down + 1) /\ ~(down >= top)
      <4>1. D \in 0..D /\ top + 1 - D = down + 1 /\ ~(down >= top)
        BY <2>1, <2>12
      <4> QED BY <2>12, <4>1 DEF I
    <3> QED BY <1>1, <2>2, <2>10, <3>1
  <2> QED BY <2>11, <2>12
<1> QED BY <1>2, <1>3

-----------------------------------------------------------------------------
(* Adding a node.                                                          *)

\* What holds of a graph between two calls of Add.
Proper(g) ==
    /\ Sized(g)
    /\ IF Len(g.vec) = 0 THEN g = EmptyGraph
       ELSE /\ g.entry \in 1..Len(g.vec) /\ g.top \in Level
            /\ Len(g.links[g.entry]) = g.top + 1
            /\ \A n \in 1..Len(g.vec) : Len(g.links[n]) \in 1..(g.top + 1)
    /\ \A layer \in Nat : Layered(g, layer)
    /\ Small(Len(g.vec)) => Meshed(g, 1..Len(g.vec))

\* The graph b has a node id without links, its last, that has layers up to level.
IsBare(b, id, level) ==
    /\ Sized(b) /\ id = Len(b.vec) /\ \A layer \in Nat : Layered(b, layer)
    /\ \A layer \in 0..level : Unlinked(b, id, layer)
    /\ NodesOf(b, 0) = 1..id
    /\ Small(id) => Meshed(b, (1..id) \ {id})

\* Layers from l on have been done.
Adding(s, b, id, l) ==
    /\ s \in [g : Graphs, curr : Nat] /\ Sized(s.g)
    /\ s.g.vec = b.vec /\ s.g.entry = b.entry /\ s.g.top = b.top
    /\ \A n \in 1..id : Len(s.g.links[n]) = Len(b.links[n])
    /\ \A layer \in Nat : Layered(s.g, layer)
    /\ \A n \in 1..id : \A k \in 0..(l - 1) : LinksOf(s.g, n, k) = LinksOf(b, n, k)
    /\ l # 0 => s.curr \in NodesOf(b, l - 1) \ {id}
    /\ l = 0 /\ Small(id) => Meshed(s.g, 1..id)

LEMMA LayerAdded ==
    ASSUME NEW b, NEW id, NEW level \in Nat, IsBare(b, id, level),
           NEW l \in 1..(level + 1), NEW s, Adding(s, b, id, l)
    PROVE  Adding(LinkLayer(s, id, l - 1), b, id, l - 1)
<1>1. PICK k \in Nat : k = l - 1 /\ k \in 0..level /\ k \in 0..(l - 1)
  <2>1. l - 1 \in Nat /\ l - 1 \in 0..level /\ l - 1 \in 0..(l - 1)
    OBVIOUS
  <2> QED BY <2>1
<1>2. PICK g : g = s.g
  OBVIOUS
<1>3. /\ Sized(g) /\ g.vec = b.vec /\ g.entry = b.entry /\ g.top = b.top
      /\ (\A n \in 1..id : Len(g.links[n]) = Len(b.links[n]))
      /\ (\A layer \in Nat : Layered(g, layer))
      /\ (\A n \in 1..id : \A j \in 0..(l - 1) : LinksOf(g, n, j) = LinksOf(b, n, j))
      /\ s.curr \in NodesOf(b, k) \ {id}
  BY <1>1, <1>2 DEF Adding
<1>4. /\ id = Len(b.vec) /\ Unlinked(b, id, k) /\ NodesOf(b, 0) = 1..id /\ id \in Nat
      /\ (Small(id) => Meshed(b, (1..id) \ {id})) /\ Sized(b)
  BY <1>1, SizedIs DEF IsBare
<1>5. \A j \in Nat : NodesOf(g, j) = NodesOf(b, j) /\ NodesOf(b, j) \subseteq 1..id
  BY <1>3, <1>4 DEF NodesOf
<1>6. Unlinked(g, id, k)
  <2>1. id \in NodesOf(g, k)
    BY <1>4, <1>5 DEF Unlinked
  <2>2. ASSUME NEW n \in NodesOf(g, k) PROVE id \notin Range(LinksOf(g, n, k))
    <3>1. n \in NodesOf(b, k) /\ n \in 1..id
      BY <1>5, <2>2
    <3>2. LinksOf(g, n, k) = LinksOf(b, n, k)
      BY <1>1, <1>3, <3>1
    <3> QED BY <1>4, <3>1, <3>2 DEF Unlinked
  <2> QED BY <1>3, <2>1, <2>2 DEF Unlinked
<1>7. PICK r : r = LinkLayer(s, id, k)
  OBVIOUS
<1>8. /\ r \in [g : Graphs, curr : Nat] /\ r.curr \in NodesOf(g, k) \ {id}
      /\ SameBut(r.g, g, k) /\ Layered(r.g, k)
      /\ k = 0 /\ NodesOf(g, 0) = 1..id /\ Small(id) /\ Meshed(g, (1..id) \ {id}) =>
             Meshed(r.g, 1..id)
  <2>1. s.curr \in NodesOf(s.g, k) \ {id} /\ Unlinked(s.g, id, k) /\ Len(s.g.vec) = id
    BY <1>2, <1>3, <1>4, <1>5, <1>6
  <2> QED BY <1>2, <1>7, <2>1, LinkLayerKeeps
<1>9. /\ Sized(r.g) /\ r.g.vec = b.vec /\ r.g.entry = b.entry /\ r.g.top = b.top
      /\ \A n \in 1..id : Len(r.g.links[n]) = Len(b.links[n])
  BY <1>3, <1>4, <1>8 DEF SameBut
<1>10. \A layer \in Nat : Layered(r.g, layer)
  <2> SUFFICES ASSUME NEW layer \in Nat, layer # k PROVE Layered(r.g, layer)
    BY <1>8
  <2> QED BY <1>3, <1>8, SameButKeeps
<1>11. \A n \in 1..id : \A j \in 0..(k - 1) : LinksOf(r.g, n, j) = LinksOf(b, n, j)
  <2> SUFFICES ASSUME NEW n \in 1..id, NEW j \in 0..(k - 1)
               PROVE  LinksOf(r.g, n, j) = LinksOf(b, n, j)
    OBVIOUS
  <2>1. j \in Nat \ {k} /\ j \in 0..(l - 1)
    BY <1>1
  <2> QED BY <1>3, <1>4, <1>8, <2>1 DEF SameBut
<1>12. k # 0 => r.curr \in NodesOf(b, k - 1) \ {id}
  <2> SUFFICES ASSUME k # 0 PROVE r.curr \in NodesOf(b, k - 1) \ {id}
    OBVIOUS
  <2>1. r.curr \in NodesOf(b, k) \ {id}
    BY <1>5, <1>8
  <2>2. r.curr \in 1..id /\ k < Len(b.links[r.curr])
    BY <1>4, <2>1 DEF NodesOf
  <2>3. Len(b.links[r.curr]) \in Nat
    BY <1>4, <2>2, SizedIs
  <2>4. k - 1 < Len(b.links[r.curr])
    BY <1>1, <2>2, <2>3
  <2> QED BY <1>4, <2>1, <2>2, <2>4 DEF NodesOf
<1>13. ASSUME k = 0, Small(id) PROVE Meshed(r.g, 1..id)
  <2>1. Meshed(g, (1..id) \ {id})
    <3> SUFFICES ASSUME NEW n \in (1..id) \ {id}, NEW o \in (1..id) \ {id}, n # o
                 PROVE  o \in Range(LinksOf(g, n, 0))
      BY DEF Meshed
    <3>1. LinksOf(g, n, 0) = LinksOf(b, n, 0)
      BY <1>1, <1>3, <1>13
    <3> QED BY <1>4, <1>13, <3>1 DEF Meshed
  <2>2. NodesOf(g, 0) = 1..id
    BY <1>4, <1>5
  <2> QED BY <1>8, <1>13, <2>1, <2>2
<1>14. Adding(r, b, id, k)
  BY <1>8, <1>9, <1>10, <1>11, <1>12, <1>13 DEF Adding
<1> QED BY <1>1, <1>7, <1>14

\* The new node is added without links.
Bared(g, v, level) ==
    [g EXCEPT !.vec = Append(@, v), !.links = Append(@, [l \in 1..(level + 1) |-> <<>>])]

LEMMA BaredIs ==
    ASSUME NEW g, Proper(g), NEW v \in SUBSET Bit, NEW level \in Level
    PROVE  LET b == Bared(g, v, level)
               id == Len(g.vec) + 1
           IN  /\ IsBare(b, id, level) /\ b.vec = Append(g.vec, v)
               /\ b.entry = g.entry /\ b.top = g.top
               /\ Len(b.links[id]) = level + 1
               /\ \A n \in 1..Len(g.vec) : Len(b.links[n]) = Len(g.links[n])
               /\ \A layer \in Nat : layer > level => id \notin NodesOf(b, layer)
<1>1. PICK N \in Nat : N = Len(g.vec) /\ Sized(g) /\ level \in Nat
  BY SizedIs, LevelAssumption DEF Proper
<1>2. PICK V, K : V = g.vec /\ K = g.links
  OBVIOUS
<1>3. /\ V \in Seq(SUBSET Bit) /\ Len(V) = N /\ K \in Seq(Seq(Seq(Nat))) /\ Len(K) = N
      /\ DOMAIN K = 1..N /\ g.entry \in Nat /\ g.top \in Int
      /\ \A n \in 1..N : Len(K[n]) \in Nat
  BY <1>1, <1>2, SizedIs
<1>4. PICK e : e = [l \in 1..(level + 1) |-> <<>>]
  OBVIOUS
<1>5. e \in Seq(Seq(Nat)) /\ Len(e) = level + 1 /\ \A l \in 1..(level + 1) : e[l] = <<>>
  <2>1. PICK z \in Seq(Nat) : z = <<>>
    BY EmptySeq
  <2>2. e = [l \in 1..(level + 1) |-> z]
    BY <1>4, <2>1
  <2>3. level + 1 \in Nat
    BY <1>1
  <2>4. e \in Seq(Seq(Nat)) /\ Len(e) = level + 1
    BY <2>2, <2>3
  <2> QED BY <1>4, <2>4
<1>6. PICK W, Q : W = Append(V, v) /\ Q = Append(K, e)
  OBVIOUS
<1>7. W \in Seq(SUBSET Bit) /\ Len(W) = N + 1
  BY <1>3, <1>6, AppendAdds
<1>8. Q \in Seq(Seq(Seq(Nat))) /\ Len(Q) = N + 1 /\ Q[N + 1] = e /\ \A n \in 1..N : Q[n] = K[n]
  <2>1. PICK Z : Z = Seq(Seq(Nat))
    OBVIOUS
  <2>2. K \in Seq(Z) /\ Len(K) = N /\ e \in Z
    BY <1>3, <1>5, <2>1
  <2>3. Q \in Seq(Z) /\ Len(Q) = N + 1 /\ Q[N + 1] = e /\ \A n \in 1..N : Q[n] = K[n]
    BY <1>6, <2>2, AppendAdds
  <2> QED BY <2>1, <2>3
<1>9. PICK b, id : b = Bared(g, v, level) /\ id = N + 1
  OBVIOUS
<1>10. b = [g EXCEPT !.vec = W, !.links = Q]
  BY <1>2, <1>4, <1>6, <1>9 DEF Bared
<1>11. b \in Graphs /\ b.vec = W /\ b.links = Q /\ b.entry = g.entry /\ b.top = g.top
  BY <1>1, <1>7, <1>8, <1>10 DEF Sized, Graphs
<1>12. Sized(b) /\ Len(b.vec) = id
  BY <1>7, <1>8, <1>9, <1>11 DEF Sized
<1>13. \A k \in Nat : LinksOf(b, id, k) = <<>>
  <2> SUFFICES ASSUME NEW k \in Nat, k < Len(Q[id]) PROVE Q[id][k + 1] = <<>>
    BY <1>11 DEF LinksOf
  <2>1. k + 1 \in 1..(level + 1) /\ Q[id] = e
    BY <1>1, <1>5, <1>8, <1>9
  <2> QED BY <1>5, <2>1
<1>14. \A n \in 1..N : \A k \in Nat : LinksOf(b, n, k) = LinksOf(g, n, k)
  BY <1>2, <1>8, <1>11 DEF LinksOf
<1>15. \A n : n \in 1..id <=> n = id \/ n \in 1..N
  BY <1>9
<1>16. Len(b.links[id]) = level + 1 /\ \A n \in 1..N : Len(b.links[n]) = Len(g.links[n])
  BY <1>2, <1>5, <1>8, <1>9, <1>11
<1>17. ASSUME NEW k \in Nat
       PROVE  NodesOf(b, k) \ {id} = NodesOf(g, k) /\ (id \in NodesOf(b, k) <=> k <= level)
  <2>1. \A n \in 1..N : n # id
    BY <1>9
  <2>2. NodesOf(b, k) \ {id} = NodesOf(g, k)
    BY <1>1, <1>12, <1>15, <1>16, <2>1 DEF NodesOf
  <2>3. id \in NodesOf(b, k) <=> k <= level
    BY <1>1, <1>9, <1>12, <1>16 DEF NodesOf
  <2> QED BY <2>2, <2>3
<1>18. ASSUME NEW k \in Nat, NEW n \in NodesOf(b, k), n # id
       PROVE  /\ n \in NodesOf(g, k) /\ LinksOf(b, n, k) = LinksOf(g, n, k)
              /\ LinksOf(g, n, k) \in Seq(NodesOf(g, k)) /\ Tidy(LinksOf(g, n, k), n, k, NodesOf(g, k))
  <2>1. n \in NodesOf(g, k)
    BY <1>17, <1>18
  <2>2. n \in 1..N
    BY <1>1, <2>1, SizedIs
  <2> QED BY <1>14, <2>1, <2>2 DEF Proper, Layered, Tidy
<1>19. ASSUME NEW k \in Nat PROVE Layered(b, k)
  <2> SUFFICES ASSUME NEW n \in NodesOf(b, k)
               PROVE  Tidy(LinksOf(b, n, k), n, k, NodesOf(b, k))
    BY DEF Layered
  <2>1. CASE n = id
    <3>1. LinksOf(b, n, k) = <<>>
      BY <1>13, <2>1
    <3>2. Distinct(<<>>) /\ Range(<<>>) = {} /\ Len(<<>>) = 0
      BY DEF Distinct, Range
    <3>3. 0 <= Bound(k)
      BY ParamsAssumption DEF Bound
    <3> QED BY <3>1, <3>2, <3>3, EmptySeq DEF Tidy
  <2>2. CASE n # id
    <3>1. NodesOf(g, k) \subseteq NodesOf(b, k)
      BY <1>17
    <3>2. LinksOf(b, n, k) \in Seq(NodesOf(b, k))
      BY <1>18, <2>2, <3>1, SeqMonotonic
    <3> QED BY <1>18, <2>2, <3>2 DEF Tidy
  <2> QED BY <2>1, <2>2
<1>20. ASSUME NEW k \in 0..level PROVE Unlinked(b, id, k)
  <2>1. k \in Nat /\ k <= level
    BY <1>1
  <2>2. id \in NodesOf(b, k)
    BY <1>17, <2>1
  <2>3. ASSUME NEW n \in NodesOf(b, k) PROVE id \notin Range(LinksOf(b, n, k))
    <3>1. CASE n = id
      <4>1. LinksOf(b, n, k) = <<>>
        BY <1>13, <2>1, <3>1
      <4>2. Range(<<>>) = {}
        BY DEF Range
      <4> QED BY <4>1, <4>2
    <3>2. CASE n # id
      <4>1. PICK nbs \in Seq(NodesOf(g, k)) : nbs = LinksOf(b, n, k)
        BY <1>18, <2>1, <3>2
      <4>2. Range(nbs) \subseteq NodesOf(g, k)
        BY <4>1, LenProperties, ElementOfSeq DEF Range
      <4>3. id \notin NodesOf(g, k)
        BY <1>17, <2>1
      <4> QED BY <4>1, <4>2, <4>3
    <3> QED BY <3>1, <3>2
  <2> QED BY <1>12, <1>19, <2>1, <2>2, <2>3 DEF Unlinked
<1>21. NodesOf(b, 0) = 1..id
  <2>1. \A n \in 1..N : 0 < Len(g.links[n])
    BY <1>1, <1>2, <1>3 DEF Proper
  <2>2. 0 < level + 1
    BY <1>1
  <2> QED BY <1>12, <1>15, <1>16, <2>1, <2>2 DEF NodesOf
<1>22. ASSUME Small(id) PROVE Meshed(b, (1..id) \ {id})
  <2>1. Small(N)
    BY <1>9, <1>22, ParamsAssumption DEF Small
  <2>2. Meshed(g, 1..N)
    BY <1>1, <2>1 DEF Proper
  <2> QED BY <1>14, <1>15, <2>2 DEF Meshed
<1>23. IsBare(b, id, level)
  BY <1>12, <1>19, <1>20, <1>21, <1>22 DEF IsBare
<1>24. \A layer \in Nat : layer > level => id \notin NodesOf(b, layer)
  BY <1>1, <1>17
<1>25. b.vec = Append(g.vec, v) /\ b.entry = g.entry /\ b.top = g.top
  BY <1>2, <1>6, <1>11
<1> QED BY <1>1, <1>9, <1>16, <1>23, <1>24, <1>25

\* The loop of Add over the layers, from the highest that the new node has.
LEMMA LayersAdded ==
    ASSUME NEW b, NEW id, NEW start \in Nat, IsBare(b, id, start),
           NEW first, first \in NodesOf(b, start) \ {id},
           NEW after, after = CHOOSE f :
               f = [layer \in 0..(start + 1) |->
                       IF layer = start + 1 THEN [g |-> b, curr |-> first]
                       ELSE LinkLayer(f[layer + 1], id, layer)]
    PROVE  Adding(after[0], b, id, 0)
<1>1. PICK D \in Nat : D = start + 1
  OBVIOUS
<1>2. PICK a : a = [g |-> b, curr |-> first]
  OBVIOUS
<1> DEFINE T == [g : Graphs, curr : Nat]
           Step(f) == [layer \in 0..D |-> IF layer = D THEN a ELSE LinkLayer(f[layer + 1], id, layer)]
           I == [m \in 0..D |-> {s \in T : Adding(s, b, id, D - m)}]
           G == [x \in T \X (1..D) |-> LinkLayer(x[1], id, D - x[2])]
<1>3. after = CHOOSE f : f = Step(f)
  BY <1>1, <1>2
<1>4. a \in I[0] /\ 0 \in 0..D
  <2>1. Sized(b) /\ id = Len(b.vec) /\ \A layer \in Nat : Layered(b, layer)
    BY DEF IsBare
  <2>2. b \in Graphs /\ first \in Nat
    <3>1. NodesOf(b, start) \in SUBSET (1..Len(b.vec))
      BY <2>1, SizedIs
    <3>2. 1..Len(b.vec) \subseteq Nat
      OBVIOUS
    <3> QED BY <2>1, <3>1, <3>2 DEF Sized
  <2>3. a \in T /\ a.g = b /\ a.curr = first
    BY <1>2, <2>2
  <2>4. D # 0 /\ D - 1 = start /\ D - 0 = D /\ 0 \in 0..D
    BY <1>1
  <2>5. Adding(a, b, id, D)
    <3> HIDE DEF T
    <3>1. a \in [g : Graphs, curr : Nat]
      BY <2>3 DEF T
    <3> QED BY <2>1, <2>3, <2>4, <3>1 DEF Adding
  <2> QED BY <2>3, <2>4, <2>5
<1>5. \A m \in 1..D : m - 1 \in 0..D /\ m \in 0..D /\ D - m \in Nat /\ D - (m - 1) = (D - m) + 1
                      /\ (D - m) + 1 \in 1..(start + 1) /\ D - m # D /\ D - m \in 0..D
                      /\ (D - m) + 1 \in 0..D
  BY <1>1
<1>6. \A m \in 0..D : I[m] \subseteq T
  OBVIOUS
<1>7. ASSUME NEW m \in 1..D, NEW x \in I[m - 1]
      PROVE  LinkLayer(x, id, D - m) \in I[m]
  <2>0. PICK j \in Nat : j = D - m /\ j + 1 \in 1..(start + 1)
    BY <1>5
  <2>1. PICK l \in 1..(start + 1) : l = (D - m) + 1 /\ l - 1 = D - m
    <3>1. (j + 1) - 1 = j
      OBVIOUS
    <3> QED BY <2>0, <3>1
  <2>2. Adding(x, b, id, l)
    BY <1>5, <2>1
  <2>3. Adding(LinkLayer(x, id, D - m), b, id, D - m)
    BY <2>1, <2>2, LayerAdded
  <2>4. LinkLayer(x, id, D - m) \in T
    BY <2>3 DEF Adding
  <2> HIDE DEF T
  <2> QED BY <1>5, <2>3, <2>4
<1>8. after = Step(after)
  <2> HIDE DEF I
  <2>1. \A m \in 1..D : \A x \in I[m - 1] :
           G[<<x, m>>] \in I[m] /\ G[<<x, m>>] = LinkLayer(x, id, D - m)
    <3> SUFFICES ASSUME NEW m \in 1..D, NEW x \in I[m - 1]
                 PROVE  G[<<x, m>>] \in I[m] /\ G[<<x, m>>] = LinkLayer(x, id, D - m)
      OBVIOUS
    <3>1. x \in T
      BY <1>5, <1>6
    <3>2. G[<<x, m>>] = LinkLayer(x, id, D - m)
      BY <3>1
    <3> HIDE DEF G
    <3> QED BY <1>7, <3>2
  <2> HIDE DEF G, T
  <2>2. PICK f : /\ f = [m \in 0..D |-> f[m]] /\ StepsBy(f, a, G, D)
                 /\ \A m \in 0..D : f[m] \in I[m]
    BY <1>4, <1>6, <2>1, StepsWithin
  <2> DEFINE h == [layer \in 0..D |-> f[D - layer]]
  <2>3. ASSUME NEW layer \in 0..D
        PROVE  h[layer] = IF layer = D THEN a ELSE LinkLayer(h[layer + 1], id, layer)
    <3>1. CASE layer = D
      <4>1. h[layer] = f[0]
        BY <3>1
      <4> QED BY <2>2, <3>1, <4>1 DEF StepsBy
    <3>2. CASE layer # D
      <4>1. PICK m \in 1..D : m = D - layer /\ layer = D - m
        BY <3>2
      <4>2. layer + 1 \in 0..D /\ D - (layer + 1) = m - 1
        BY <3>2, <4>1
      <4>3. h[layer] = f[m] /\ h[layer + 1] = f[m - 1]
        BY <4>1, <4>2
      <4>4. f[m] = LinkLayer(f[m - 1], id, D - m)
        BY <1>5, <2>1, <2>2, <4>1 DEF StepsBy
      <4> HIDE DEF h
      <4> QED BY <3>2, <4>1, <4>3, <4>4
    <3> QED BY <3>1, <3>2
  <2>4. h = Step(h)
    <3>1. h = [layer \in 0..D |-> h[layer]]
      OBVIOUS
    <3> HIDE DEF h
    <3> QED BY <2>3, <3>1
  <2> QED BY <1>3, <2>4
<1>9. \A layer \in 0..D :
         after[layer] = IF layer = D THEN a ELSE LinkLayer(after[layer + 1], id, layer)
  BY <1>8
<1> DEFINE K == {m \in 0..D : after[D - m] \in I[m]}
<1> HIDE DEF I, T
<1>10. D \in K
  <2>1. 0 \in K
    <3>1. D \in 0..D /\ D - 0 = D
      BY <1>1
    <3> QED BY <1>4, <1>9, <3>1
  <2>2. ASSUME NEW m \in 1..D, m - 1 \in K PROVE m \in K
    <3>1. after[D - m] = LinkLayer(after[(D - m) + 1], id, D - m)
      BY <1>5, <1>9
    <3>2. after[(D - m) + 1] \in I[m - 1]
      BY <1>5, <2>2
    <3> QED BY <1>5, <1>7, <3>1, <3>2
  <2>3. NextHas(K, D)
    BY <2>2 DEF NextHas
  <2> HIDE DEF K
  <2> QED BY <1>1, <2>1, <2>3, ReachesAll
<1>11. after[0] \in I[D]
  <2>1. D - D = 0
    BY <1>1
  <2> QED BY <1>10, <2>1
<1> QED
  <2>1. D \in 0..D /\ D - D = 0
    BY <1>1
  <2> QED BY <1>11, <2>1 DEF I

\* The graph that Add links the new node into.
Linking(g, v, level) ==
    LET id == Len(g.vec) + 1
        b == Bared(g, v, level)
        start == IF level < g.top THEN level ELSE g.top
        after[layer \in 0..(start + 1)] ==
            IF layer = start + 1 THEN [g |-> b, curr |-> Descend(b, v, level)]
            ELSE LinkLayer(after[layer + 1], id, layer)
    IN  after[0].g

LEMMA AddIs ==
    ASSUME NEW g, g.entry # 0, NEW v, NEW level
    PROVE  Add(g, v, level) =
               IF level > g.top
               THEN [Linking(g, v, level) EXCEPT !.entry = Len(g.vec) + 1, !.top = level]
               ELSE Linking(g, v, level)
<1> DEFINE id == Len(g.vec) + 1
<1>1. Add(g, v, level) =
          CASE g.entry = 0 -> [Bared(g, v, level) EXCEPT !.entry = id, !.top = level]
            [] g.entry # 0 /\ level > g.top ->
                 [Linking(g, v, level) EXCEPT !.entry = id, !.top = level]
            [] OTHER -> Linking(g, v, level)
  BY Zenon DEF Add, Bared, Linking
<1>2. PICK h : h = Linking(g, v, level)
  OBVIOUS
<1>3. CASE level > g.top
  BY <1>1, <1>2, <1>3
<1>4. CASE ~(level > g.top)
  BY <1>1, <1>2, <1>4
<1> QED BY <1>3, <1>4

\* HNSW.Add leaves a graph whole: links within their bounds to other nodes that have
\* the layer, an entry point in the top layer, all linked to all while it is small.
THEOREM AddKeeps ==
    ASSUME NEW g, Proper(g), NEW v \in SUBSET Bit, NEW level \in Level
    PROVE  Proper(Add(g, v, level)) /\ Add(g, v, level).vec = Append(g.vec, v)
           /\ Add(g, v, level).entry # 0
<1>1. PICK N \in Nat : N = Len(g.vec) /\ Sized(g) /\ level \in Nat
  BY SizedIs, LevelAssumption DEF Proper
<1>2. PICK b, id : b = Bared(g, v, level) /\ id = N + 1
  OBVIOUS
<1>3. /\ IsBare(b, id, level) /\ b.vec = Append(g.vec, v) /\ b.entry = g.entry /\ b.top = g.top
      /\ Len(b.links[id]) = level + 1
      /\ (\A n \in 1..N : Len(b.links[n]) = Len(g.links[n]))
      /\ (\A layer \in Nat : layer > level => id \notin NodesOf(b, layer))
  <2>1. LET c == Bared(g, v, level)
            i == Len(g.vec) + 1
        IN  /\ IsBare(c, i, level) /\ c.vec = Append(g.vec, v)
            /\ c.entry = g.entry /\ c.top = g.top
            /\ Len(c.links[i]) = level + 1
            /\ \A n \in 1..Len(g.vec) : Len(c.links[n]) = Len(g.links[n])
            /\ \A layer \in Nat : layer > level => i \notin NodesOf(c, layer)
    BY BaredIs, Zenon
  <2>2. b = Bared(g, v, level) /\ id = Len(g.vec) + 1 /\ N = Len(g.vec)
    BY <1>1, <1>2
  <2> QED BY <2>1, <2>2, Zenon
<1>4. /\ Sized(b) /\ id = Len(b.vec) /\ (\A layer \in Nat : Layered(b, layer))
      /\ (Small(id) => Meshed(b, (1..id) \ {id})) /\ NodesOf(b, 0) = 1..id
      /\ (\A layer \in 0..level : Unlinked(b, id, layer))
  BY <1>3 DEF IsBare
<1>5. \A n : n \in 1..id <=> n = id \/ n \in 1..N
  BY <1>1, <1>2
<1>6. PICK r : r = Add(g, v, level)
  OBVIOUS
\* What is left to show when links and vectors are known.
<1>7. ASSUME NEW h, Sized(h), h.vec = b.vec, h.entry = b.entry, h.top = b.top,
             \A n \in 1..id : Len(h.links[n]) = Len(b.links[n]),
             \A layer \in Nat : Layered(h, layer), Small(id) => Meshed(h, 1..id),
             r = h \/ r = [h EXCEPT !.entry = id, !.top = level],
             IF r = h THEN N # 0 /\ g.entry # 0 /\ level <= g.top
             ELSE N = 0 \/ level > g.top
      PROVE  Proper(r) /\ r.vec = Append(g.vec, v) /\ r.entry # 0
  <2>1. h \in Graphs /\ Len(h.vec) = id /\ id # 0 /\ id \in Nat /\ id \in 1..id
    BY <1>1, <1>2, <1>4, <1>7 DEF Sized
  <2>2. r \in Graphs /\ r.vec = h.vec /\ r.links = h.links
    <3>1. CASE r = h
      BY <2>1, <3>1
    <3>2. CASE r = [h EXCEPT !.entry = id, !.top = level]
      <4>0. PICK V, K : V = h.vec /\ K = h.links
        OBVIOUS
      <4>5. h \in Graphs /\ id \in Nat
        BY <2>1
      <4>6. V \in Seq(SUBSET Bit) /\ K \in Seq(Seq(Seq(Nat)))
        BY <4>0, <4>5 DEF Graphs
      <4>7. h = [vec |-> h.vec, links |-> h.links, entry |-> h.entry, top |-> h.top]
        BY <4>5 DEF Graphs
      <4>1. h = [vec |-> V, links |-> K, entry |-> h.entry, top |-> h.top]
        BY <4>0, <4>7
      <4>8. PICK e, t : e = h.entry /\ t = h.top
        OBVIOUS
      <4>9. h = [vec |-> V, links |-> K, entry |-> e, top |-> t]
        BY <4>1, <4>8
      <4>2. r = [vec |-> V, links |-> K, entry |-> id, top |-> level]
        BY <3>2, <4>9
      <4>3. level \in Int
        BY <1>1
      <4>4. r \in Graphs
        BY <4>2, <4>3, <4>5, <4>6 DEF Graphs
      <4> QED BY <4>0, <4>2, <4>4
    <3> QED BY <1>7, <3>1, <3>2
  <2>3. Sized(r) /\ r.vec = Append(g.vec, v) /\ Len(r.vec) = id
    BY <1>3, <1>7, <2>1, <2>2 DEF Sized
  <2>4. \A n, layer : LinksOf(r, n, layer) = LinksOf(h, n, layer)
    BY <2>2 DEF LinksOf
  <2>5. \A layer : NodesOf(r, layer) = NodesOf(h, layer)
    BY <2>2 DEF NodesOf
  <2>6. \A layer \in Nat : Layered(r, layer)
    BY <1>7, <2>4, <2>5 DEF Layered
  <2>7. Small(id) => Meshed(r, 1..id)
    BY <1>7, <2>4 DEF Meshed
  <2>8. ASSUME N # 0
        PROVE  /\ g.entry \in 1..N /\ g.top \in Level /\ g.top \in Nat
               /\ Len(g.links[g.entry]) = g.top + 1
               /\ \A n \in 1..N : Len(g.links[n]) \in 1..(g.top + 1)
    BY <1>1, <2>8, LevelAssumption DEF Proper
  <2>9. r.entry \in 1..id /\ r.top \in Level /\ Len(r.links[r.entry]) = r.top + 1
        /\ \A n \in 1..id : Len(r.links[n]) \in 1..(r.top + 1)
    <3>1. CASE r = h
      <4>1. N # 0 /\ level <= g.top
        BY <1>7, <3>1
      <4>2. r.entry = g.entry /\ r.top = g.top /\ g.entry \in 1..id /\ g.top \in Level
        BY <1>3, <1>5, <1>7, <2>8, <3>1, <4>1
      <4>3. Len(r.links[g.entry]) = g.top + 1
        BY <1>3, <1>5, <1>7, <2>2, <2>8, <4>1
      <4>4. ASSUME NEW n \in 1..id PROVE Len(r.links[n]) \in 1..(g.top + 1)
        <5>1. CASE n = id
          <6>1. Len(r.links[n]) = level + 1
            BY <1>3, <1>7, <2>2, <5>1
          <6> QED BY <1>1, <2>8, <4>1, <6>1
        <5>2. CASE n \in 1..N
          BY <1>3, <1>7, <2>2, <2>8, <4>1, <5>2
        <5> QED BY <1>5, <5>1, <5>2
      <4> QED BY <4>2, <4>3, <4>4
    <3>2. CASE r # h
      <4>1. r = [h EXCEPT !.entry = id, !.top = level] /\ (N = 0 \/ level > g.top)
        BY <1>7, <3>2
      <4>2. r.entry = id /\ r.top = level
        BY <2>1, <4>1 DEF Graphs
      <4>3. Len(r.links[id]) = level + 1
        BY <1>3, <1>7, <2>1, <2>2
      <4>4. ASSUME NEW n \in 1..id PROVE Len(r.links[n]) \in 1..(level + 1)
        <5>1. CASE n = id
          BY <1>1, <4>3, <5>1
        <5>2. CASE n \in 1..N
          <6>1. N # 0
            BY <5>2
          <6>2. Len(r.links[n]) \in 1..(g.top + 1)
            BY <1>3, <1>7, <2>2, <2>8, <5>2, <6>1
          <6> QED BY <1>1, <2>8, <4>1, <6>1, <6>2, SMTT(40)
        <5> QED BY <1>5, <5>1, <5>2
      <4> QED BY <2>1, <4>2, <4>3, <4>4
    <3> QED BY <3>1, <3>2
  <2>10. Proper(r)
    BY <2>1, <2>3, <2>6, <2>7, <2>9 DEF Proper
  <2> QED BY <1>1, <2>1, <2>3, <2>9, <2>10
<1>8. CASE N = 0
  <2>1. g = EmptyGraph
    BY <1>1, <1>8 DEF Proper
  <2>2. g.entry = 0 /\ b.entry = 0
    BY <1>3, <2>1 DEF EmptyGraph
  <2>3. r = [b EXCEPT !.entry = id, !.top = level]
    BY <1>1, <1>2, <1>6, <2>2 DEF Add, Bared
  <2>4. r # b
    <3>1. r.entry = id /\ id # 0
      BY <1>1, <1>2, <1>4, <2>3 DEF Sized, Graphs
    <3> QED BY <2>2, <3>1
  <2>5. ASSUME Small(id) PROVE Meshed(b, 1..id)
    <3>1. \A n, o \in 1..id : ~(n # o)
      BY <1>2, <1>8
    <3> QED BY <3>1 DEF Meshed
  <2> QED BY <1>4, <1>6, <1>7, <1>8, <2>3, <2>4, <2>5
<1>9. CASE N # 0
  <2>1. g.entry \in 1..N /\ g.top \in Nat /\ Len(g.links[g.entry]) = g.top + 1 /\ g.entry # 0
        /\ \A n \in 1..N : Len(g.links[n]) \in 1..(g.top + 1)
    <3>1. g.entry \in 1..N /\ g.top \in Level /\ Len(g.links[g.entry]) = g.top + 1
          /\ \A n \in 1..N : Len(g.links[n]) \in 1..(g.top + 1)
      <4>1. Len(g.vec) = N /\ Len(g.vec) # 0
        BY <1>1, <1>9
      <4>2. /\ g.entry \in 1..Len(g.vec) /\ g.top \in Level /\ Len(g.links[g.entry]) = g.top + 1
            /\ \A n \in 1..Len(g.vec) : Len(g.links[n]) \in 1..(g.top + 1)
        BY <4>1, Zenon DEF Proper
      <4> QED BY <4>1, <4>2
    <3>2. N # 0 /\ g.entry # 0
      BY <1>1, <3>1
    <3> QED BY <3>1, <3>2, LevelAssumption
  <2>2. PICK start \in Nat : /\ start = IF level < g.top THEN level ELSE g.top
                             /\ start <= level /\ start <= g.top
    BY <1>1, <2>1
  <2>3. PICK first : first = Descend(b, v, level)
    OBVIOUS
  <2>4. first \in NodesOf(b, start) \ {id}
    <3>0. g.entry \in 1..id /\ g.entry # id
      BY <1>1, <1>2, <2>1
    <3>1. IF level >= g.top THEN first = g.entry ELSE first \in NodesOf(b, level + 1)
      <4>1. Len(b.links[g.entry]) = g.top + 1
        BY <1>3, <2>1
      <4>2. /\ b.entry \in 1..Len(b.vec) /\ b.top \in Nat /\ Len(b.links[b.entry]) = b.top + 1
            /\ b.entry = g.entry /\ b.top = g.top
        BY <1>3, <1>4, <2>1, <3>0, <4>1
      <4>3. IF level >= b.top THEN Descend(b, v, level) = b.entry
            ELSE Descend(b, v, level) \in NodesOf(b, level + 1)
        BY <1>1, <1>4, <4>2, DescendFinds
      <4> QED BY <2>3, <4>2, <4>3
    <3>2. CASE level >= g.top
      <4>1. first = g.entry /\ start = g.top
        BY <1>1, <2>1, <2>2, <3>1, <3>2
      <4>2. start < Len(b.links[g.entry])
        BY <1>3, <2>1, <4>1, SMTT(40)
      <4> QED BY <1>4, <3>0, <4>1, <4>2 DEF NodesOf
    <3>3. CASE ~(level >= g.top)
      <4>1. first \in NodesOf(b, level + 1) /\ start = level
        BY <1>1, <2>1, <2>2, <3>1, <3>3
      <4>2. first # id
        BY <1>1, <1>3, <4>1
      <4>3. first \in 1..id /\ level + 1 < Len(b.links[first])
        BY <1>4, <4>1 DEF NodesOf
      <4>4. Len(b.links[first]) \in Nat
        BY <1>4, <4>3, SizedIs
      <4>5. level < Len(b.links[first])
        BY <1>1, <4>3, <4>4
      <4> QED BY <1>4, <4>1, <4>2, <4>3, <4>5 DEF NodesOf
    <3> QED BY <3>2, <3>3
  <2>5. IsBare(b, id, start)
    <3>1. \A layer \in 0..start : layer \in 0..level
      BY <1>1, <2>2
    <3> QED BY <1>4, <3>1 DEF IsBare
  <2>6. PICK after : after = CHOOSE f :
               f = [layer \in 0..(start + 1) |->
                       IF layer = start + 1 THEN [g |-> b, curr |-> first]
                       ELSE LinkLayer(f[layer + 1], id, layer)]
    OBVIOUS
  <2>7. Adding(after[0], b, id, 0)
    BY <2>4, <2>5, <2>6, LayersAdded
  <2>8. PICK h : h = after[0].g
    OBVIOUS
  <2>9. /\ Sized(h) /\ h.vec = b.vec /\ h.entry = b.entry /\ h.top = b.top
        /\ (\A n \in 1..id : Len(h.links[n]) = Len(b.links[n]))
        /\ (\A layer \in Nat : Layered(h, layer))
        /\ (Small(id) => Meshed(h, 1..id))
    BY <2>7, <2>8 DEF Adding
  <2>10. r = IF level > g.top THEN [h EXCEPT !.entry = id, !.top = level] ELSE h
    <3>1. b = Bared(g, v, level) /\ id = Len(g.vec) + 1
      BY <1>1, <1>2
    <3>2. h = Linking(g, v, level)
      BY <2>2, <2>3, <2>6, <2>8, <3>1 DEF Linking
    <3> QED BY <1>6, <2>1, <3>1, <3>2, AddIs
  <2>11. h.entry # id
    BY <1>1, <1>2, <1>3, <2>1, <2>9
  <2>12. CASE level > g.top
    <3>1. r = [h EXCEPT !.entry = id, !.top = level]
      BY <2>10, <2>12
    <3>2. r # h
      <4>1. r.entry = id
        BY <2>9, <3>1 DEF Sized, Graphs
      <4> QED BY <2>11, <4>1
    <3> QED BY <1>6, <1>7, <2>9, <2>12, <3>1, <3>2
  <2>13. CASE ~(level > g.top)
    <3>1. r = h /\ level <= g.top
      BY <1>1, <2>1, <2>10, <2>13
    <3> QED BY <1>6, <1>7, <1>9, <2>1, <2>9, <3>1
  <2> QED BY <2>12, <2>13
<1> QED BY <1>8, <1>9

LEMMA EmptyIsProper == Proper(EmptyGraph)
<1>1. PICK z : z = <<>>
  OBVIOUS
<1>2. z \in Seq(SUBSET Bit) /\ z \in Seq(Seq(Seq(Nat))) /\ Len(z) = 0
  BY <1>1, EmptySeq
<1>3. EmptyGraph = [vec |-> z, links |-> z, entry |-> 0, top |-> -1]
  BY <1>1 DEF EmptyGraph
<1>4. Sized(EmptyGraph) /\ Len(EmptyGraph.vec) = 0
  BY <1>2, <1>3 DEF Sized, Graphs
<1>5. \A n : n \notin 1..0
  OBVIOUS
<1>6. \A layer \in Nat : Layered(EmptyGraph, layer)
  BY <1>4, <1>5 DEF Layered, NodesOf
<1>7. Meshed(EmptyGraph, 1..0)
  BY <1>5 DEF Meshed
<1> QED BY <1>4, <1>6, <1>7 DEF Proper

-----------------------------------------------------------------------------
(* Searching a graph.                                                      *)

Ef(k) == IF EfSearch > k THEN EfSearch ELSE k
Answer(g, q, k) == SearchLayer(g, q, Descend(g, q, 0), Ef(k), 0)

LEMMA ProperIs ==
    ASSUME NEW g, Proper(g), g # EmptyGraph \/ g.entry # 0
    PROVE  /\ Len(g.vec) \in Nat \ {0} /\ g.entry \in 1..Len(g.vec) /\ g.entry # 0
           /\ g.top \in Level /\ g.top \in Nat /\ Len(g.links[g.entry]) = g.top + 1
           /\ \A n \in 1..Len(g.vec) : Len(g.links[n]) \in 1..(g.top + 1)
<1>1. EmptyGraph.entry = 0
  BY DEF EmptyGraph
<1>2. Len(g.vec) \in Nat
  BY SizedIs DEF Proper
<1>3. Len(g.vec) # 0
  BY <1>1, Zenon DEF Proper
<1>4. /\ g.entry \in 1..Len(g.vec) /\ g.top \in Level /\ Len(g.links[g.entry]) = g.top + 1
      /\ \A n \in 1..Len(g.vec) : Len(g.links[n]) \in 1..(g.top + 1)
  BY <1>3, Zenon DEF Proper
<1>5. g.entry # 0
  BY <1>2, <1>4
<1> QED BY <1>2, <1>3, <1>4, <1>5, LevelAssumption

LEMMA SearchIs ==
    ASSUME NEW g, Proper(g), g.entry # 0, NEW q \in SUBSET Bit, NEW k \in Nat \ {0}
    PROVE  LET r == Answer(g, q, k)
               N == Len(g.vec)
           IN  /\ Search(g, q, k) = UpTo(r, k) /\ IsAnswer(r, g, q, 1..N, Ef(k))
               /\ Small(N) /\ N <= Ef(k) => FindsAll(r, g, q, 1..N)
<1>1. PICK N \in Nat : N = Len(g.vec)
  BY ProperIs
<1>2. /\ g.entry \in 1..N /\ g.top \in Nat /\ Len(g.links[g.entry]) = g.top + 1
      /\ \A n \in 1..N : Len(g.links[n]) \in 1..(g.top + 1)
  BY <1>1, ProperIs
<1>3. Sized(g) /\ g.vec \in Seq(SUBSET Bit) /\ (\A layer \in Nat : Layered(g, layer))
  BY SizedIs DEF Proper
<1>4. Linked(g, 0, 1..N)
  BY <1>1, <1>3, LayeredLinks
<1>5. PICK ep : ep = Descend(g, q, 0)
  OBVIOUS
<1>6. ep \in 1..N
  <2>1. IF 0 >= g.top THEN ep = g.entry ELSE ep \in NodesOf(g, 0 + 1)
    BY <1>1, <1>2, <1>3, <1>5, DescendFinds
  <2> QED BY <1>1, <1>2, <2>1 DEF NodesOf
<1>7. PICK ef \in Nat \ {0} : ef = Ef(k)
  BY ParamsAssumption DEF Ef
<1>8. PICK r : r = SearchLayer(g, q, ep, ef, 0)
  OBVIOUS
<1>9. /\ IsAnswer(r, g, q, 1..N, ef)
      /\ 1..N \subseteq {ep} \cup Range(LinksOf(g, ep, 0)) /\ Cardinality(1..N) <= ef =>
             FindsAll(r, g, q, 1..N)
  BY <1>1, <1>3, <1>4, <1>6, <1>7, <1>8, SearchLayerFinds
<1>10. ASSUME Small(N), N <= ef PROVE FindsAll(r, g, q, 1..N)
  <2>1. Meshed(g, 1..N)
    BY <1>1, <1>10 DEF Proper
  <2>2. 1..N \subseteq {ep} \cup Range(LinksOf(g, ep, 0))
    BY <1>6, <2>1 DEF Meshed
  <2>3. Cardinality(1..N) = N
    BY <1>1, FS_Interval
  <2> QED BY <1>9, <1>10, <2>2, <2>3
<1>11. r = Answer(g, q, k)
  BY <1>5, <1>7, <1>8 DEF Answer
<1>12. Search(g, q, k) = UpTo(r, k)
  <2>1. ~(k <= 0)
    OBVIOUS
  <2> QED BY <1>11, <2>1 DEF Search, Answer, Ef
<1> QED BY <1>1, <1>7, <1>9, <1>10, <1>11, <1>12

\* An answer lists different nodes, nearest first; and the nearest of all, if the
\* graph is small.
Lists(near, g, q, k) ==
    LET N == Len(g.vec)
        far(n) == Distance(q, g.vec[n])
    IN  /\ near # <<>> /\ DOMAIN near = 1..Len(near) /\ Len(near) \in 1..k
        /\ Ids(near) \in Seq(1..N) /\ Distinct(Ids(near)) /\ Len(Ids(near)) = Len(near)
        /\ \A i \in 1..Len(near) : near[i].id \in 1..N
        /\ \A i, j \in 1..Len(near) : i < j => far(near[i].id) <= far(near[j].id)
        /\ Small(N) /\ N <= Ef(k) =>
              /\ Len(near) = Lesser(k, N)
              /\ \A n \in Range(Ids(near)), o \in (1..N) \ Range(Ids(near)) : far(n) <= far(o)

LEMMA SearchLists ==
    ASSUME NEW g, Proper(g), g.entry # 0, NEW q \in SUBSET Bit, NEW k \in Nat \ {0}
    PROVE  Lists(Search(g, q, k), g, q, k)
<1>1. PICK N \in Nat \ {0} : N = Len(g.vec)
  BY ProperIs
<1>2. PICK r : r = Answer(g, q, k)
  OBVIOUS
<1>3. /\ Search(g, q, k) = UpTo(r, k) /\ IsAnswer(r, g, q, 1..N, Ef(k))
      /\ Small(N) /\ N <= Ef(k) => FindsAll(r, g, q, 1..N)
  BY <1>1, <1>2, SearchIs
<1>4. g.vec \in Seq(SUBSET Bit)
  BY SizedIs DEF Proper
<1>5. HasNodes(r, Ids(r), g, q, 1..N)
  BY <1>1, <1>3, <1>4, AnswerNodes
<1>6. PICK all : all = Ids(r)
  OBVIOUS
<1>7. PICK K \in Nat : /\ K = Len(r) /\ DOMAIN r = 1..K /\ all \in Seq(1..N) /\ Distinct(all)
                       /\ Len(all) = K /\ DOMAIN all = 1..K
                       /\ \A i \in 1..K : r[i] = Candidate(g, q, all[i]) /\ all[i] = r[i].id
                       /\ FindsAll(r, g, q, 1..N) => Range(all) = 1..N
  BY <1>5, <1>6 DEF HasNodes
<1>8. PICK X : X = Around(g, q, 1..N)
  OBVIOUS
<1>9. r \in Seq(X) /\ Distinct(r) /\ K \in 1..Ef(k) /\ NearestFirst(r) /\ K # 0
  <2>1. r \in Seq(X) /\ Distinct(r) /\ K \in 1..Ef(k) /\ NearestFirst(r)
    BY <1>3, <1>7, <1>8 DEF IsAnswer
  <2>2. Ef(k) \in Nat
    BY ParamsAssumption DEF Ef
  <2> QED BY <2>1, <2>2
<1>10. PICK near : near = UpTo(r, k)
  OBVIOUS
<1>11. /\ near \in Seq(X) /\ Len(near) = (IF K < k THEN K ELSE k)
       /\ \A i \in 1..Len(near) : i \in 1..K /\ near[i] = r[i]
  <2>1. k \in Nat /\ r \in Seq(X)
    BY <1>9
  <2>2. /\ near \in Seq(X) /\ Len(near) = (IF Len(r) < k THEN Len(r) ELSE k)
        /\ \A i \in 1..Len(near) : i \in 1..Len(r) /\ near[i] = r[i]
    BY <1>10, <2>1, UpToKeeps
  <2> QED BY <1>7, <2>2
<1>12. PICK L \in 1..k : L = Len(near) /\ L = (IF K < k THEN K ELSE k)
  <2>1. (IF K < k THEN K ELSE k) \in 1..k
    BY <1>9
  <2> QED BY <1>11, <2>1
<1>13. DOMAIN near = 1..L /\ near # <<>>
  BY <1>11, <1>12, LenProperties
<1>14. \A i \in 1..L : /\ i \in 1..K /\ near[i] = r[i] /\ near[i].id = all[i] /\ all[i] \in 1..N
  BY <1>7, <1>11, <1>12, ElementOfSeq
<1>15. PICK ids : ids = Ids(near)
  OBVIOUS
<1>16. ids = [i \in 1..L |-> all[i]]
  BY <1>13, <1>14, <1>15 DEF Ids
<1>17. ids \in Seq(1..N) /\ Distinct(ids) /\ Len(ids) = L /\ DOMAIN ids = 1..L
  <2>1. L \in Nat
    OBVIOUS
  <2>2. ids \in Seq(1..N) /\ Len(ids) = L /\ DOMAIN ids = 1..L
    BY <1>14, <1>16, <2>1
  <2>3. Distinct(ids)
    BY <1>7, <1>14, <1>16 DEF Distinct
  <2> QED BY <2>2, <2>3
<1>18. \A n \in 1..N : Candidate(g, q, n).dist = Distance(q, g.vec[n])
  BY DEF Candidate
<1>19. \A i \in 1..K : r[i].dist = Distance(q, g.vec[all[i]]) /\ all[i] \in 1..N
  BY <1>7, <1>18, ElementOfSeq
<1>20. \A i, j \in 1..K : i < j => Distance(q, g.vec[all[i]]) <= Distance(q, g.vec[all[j]])
  BY <1>7, <1>9, <1>19 DEF NearestFirst
<1>21. \A i, j \in 1..L : i < j => Distance(q, g.vec[near[i].id]) <= Distance(q, g.vec[near[j].id])
  <2> SUFFICES ASSUME NEW i \in 1..L, NEW j \in 1..L, i < j
               PROVE  Distance(q, g.vec[near[i].id]) <= Distance(q, g.vec[near[j].id])
    OBVIOUS
  <2>1. near[i].id = all[i] /\ near[j].id = all[j] /\ i \in 1..K /\ j \in 1..K
    BY <1>14
  <2> QED BY <1>20, <2>1
<1>22. ASSUME Small(N), N <= Ef(k)
       PROVE  /\ L = Lesser(k, N)
              /\ \A n \in Range(ids), o \in (1..N) \ Range(ids) :
                    Distance(q, g.vec[n]) <= Distance(q, g.vec[o])
  <2>1. Range(all) = 1..N
    BY <1>3, <1>7, <1>22
  <2>2. K = N
    <3>1. Cardinality(Range(all)) = K
      BY <1>7, CountIn
    <3>2. Cardinality(1..N) = N
      BY <1>1, FS_Interval
    <3> QED BY <2>1, <3>1, <3>2
  <2>3. L = Lesser(k, N)
    BY <1>12, <2>2 DEF Lesser
  <2>4. ASSUME NEW n \in Range(ids), NEW o \in (1..N) \ Range(ids)
        PROVE  Distance(q, g.vec[n]) <= Distance(q, g.vec[o])
    <3>1. PICK i \in 1..L : n = all[i]
      BY <1>16, <1>17 DEF Range
    <3>2. PICK j \in 1..K : o = all[j]
      BY <1>7, <2>1 DEF Range
    <3>3. j \notin 1..L
      BY <1>16, <1>17, <3>2 DEF Range
    <3>4. i < j /\ i \in 1..K
      BY <1>14, <3>3
    <3> QED BY <1>20, <3>1, <3>2, <3>4
  <2> QED BY <2>3, <2>4
<1>23. Lists(near, g, q, k)
  BY <1>1, <1>12, <1>13, <1>14, <1>15, <1>17, <1>21, <1>22 DEF Lists
<1> QED BY <1>3, <1>10, <1>23

\* Who asks for more gets the same in front.
LEMMA SearchPrefix ==
    ASSUME NEW g, Proper(g), g.entry # 0, NEW q \in SUBSET Bit,
           NEW k \in 1..EfSearch, NEW i \in 1..k
    PROVE  /\ Search(g, q, i) = UpTo(Search(g, q, k), i)
           /\ Search(g, q, i)[1] = Search(g, q, k)[1]
<1>1. EfSearch \in Nat /\ k \in Nat \ {0} /\ i \in Nat \ {0} /\ i <= k /\ Ef(i) = EfSearch /\ Ef(k) = EfSearch
  <2>1. EfSearch \in Nat
    BY ParamsAssumption
  <2> QED BY <2>1 DEF Ef
<1>2. PICK r, X : r = Answer(g, q, k) /\ X = Around(g, q, 1..Len(g.vec))
  OBVIOUS
<1>3. r = Answer(g, q, i)
  BY <1>1, <1>2 DEF Answer
<1>4. /\ Search(g, q, k) = UpTo(r, k) /\ Search(g, q, i) = UpTo(r, i)
      /\ IsAnswer(r, g, q, 1..Len(g.vec), EfSearch)
  BY <1>1, <1>2, <1>3, SearchIs
<1>5. r \in Seq(X) /\ Len(r) \in 1..EfSearch
  BY <1>2, <1>4 DEF IsAnswer
<1>6. PICK K \in Nat : K = Len(r) /\ K # 0
  BY <1>1, <1>5
<1>7. PICK s, t, u : s = UpTo(r, k) /\ t = UpTo(r, i) /\ u = UpTo(s, i)
  OBVIOUS
<1>8. /\ s \in Seq(X) /\ Len(s) = (IF K < k THEN K ELSE k)
      /\ \A j \in 1..Len(s) : j \in 1..K /\ s[j] = r[j]
  BY <1>1, <1>5, <1>6, <1>7, UpToKeeps
<1>9. /\ t \in Seq(X) /\ Len(t) = (IF K < i THEN K ELSE i)
      /\ \A j \in 1..Len(t) : j \in 1..K /\ t[j] = r[j]
  BY <1>1, <1>5, <1>6, <1>7, UpToKeeps
<1>10. /\ u \in Seq(X) /\ Len(u) = (IF Len(s) < i THEN Len(s) ELSE i)
       /\ \A j \in 1..Len(u) : j \in 1..Len(s) /\ u[j] = s[j]
  BY <1>1, <1>7, <1>8, UpToKeeps
<1>11. Len(u) = Len(t) /\ \A j \in 1..Len(t) : u[j] = t[j]
  <2>1. Len(u) = Len(t)
    BY <1>1, <1>6, <1>8, <1>9, <1>10
  <2> QED BY <1>8, <1>9, <1>10, <2>1
<1>12. u = t
  BY <1>9, <1>10, <1>11, SeqEqual
<1>13. s[1] = t[1]
  <2>1. 1 \in 1..Len(s) /\ 1 \in 1..Len(t)
    BY <1>1, <1>6, <1>8, <1>9
  <2> QED BY <1>8, <1>9, <2>1
<1> QED BY <1>4, <1>7, <1>12, <1>13

-----------------------------------------------------------------------------
(* Sums.                                                                   *)

LEMMA TotalSteps ==
    ASSUME NEW f \in Seq(Nat)
    PROVE  /\ Total(f, 0) = 0 /\ \A n \in 0..Len(f) : Total(f, n) \in Nat
           /\ \A n \in 1..Len(f) : Total(f, n) = Total(f, n - 1) + f[n]
<1>1. PICK N \in Nat : N = Len(f) /\ DOMAIN f = 1..N /\ \A i \in 1..N : f[i] \in Nat
  <2>1. Len(f) \in Nat /\ DOMAIN f = 1..Len(f)
    BY LenProperties
  <2> QED BY <2>1, ElementOfSeq
<1> DEFINE G == [x \in Nat \X (1..N) |-> x[1] + f[x[2]]]
<1>2. PICK g \in [0..N -> Nat] : StepsBy(g, 0, G, N)
  <2>1. G \in [Nat \X (1..N) -> Nat]
    BY <1>1
  <2> HIDE DEF G
  <2> QED BY <1>1, <2>1, StepsExist
<1>3. g[0] = 0 /\ \A n \in 1..N : g[n] = g[n - 1] + f[n]
  <2> SUFFICES ASSUME NEW n \in 1..N PROVE g[n] = g[n - 1] + f[n]
    BY <1>2 DEF StepsBy
  <2>1. g[n - 1] \in Nat
    <3>1. n - 1 \in 0..N
      BY <1>1
    <3> HIDE DEF G
    <3> QED BY <1>2, <3>1
  <2>2. G[<<g[n - 1], n>>] = g[n - 1] + f[n]
    BY <2>1
  <2> QED BY <1>2, <2>2 DEF StepsBy
<1> HIDE DEF G
<1>4. ASSUME NEW n \in 0..N PROVE Total(f, n) = g[n]
  <2>1. PICK s : s = SubSeq(f, 1, n)
    OBVIOUS
  <2>2. n \in Nat /\ DOMAIN s = 1..n /\ \A i \in 1..n : s[i] = f[i] /\ f[i] \in Nat
    <3>1. s \in Seq(Nat) /\ Len(s) = n /\ \A i \in 1..n : s[i] = f[i]
      BY <1>1, <2>1, SubSeqProperties
    <3> QED BY <1>1, <3>1, LenProperties
  <2> DEFINE Step(h) == [S \in SUBSET (1..n) |-> IF S = {} THEN 0 ELSE h[S \ {Max(S)}] + s[Max(S)]]
             it == CHOOSE h : h = Step(h)
  <2>3. Total(f, n) = it[1..n]
    BY <2>1, <2>2, ZenonT(60) DEF Total, FoldLeft, MapThenFoldSet
  <2>4. it = Step(it)
    <3> DEFINE H == [x \in Nat \X (1..n) |-> x[1] + s[x[2]]]
    <3>5. H \in [Nat \X (1..n) -> Nat]
      <4> SUFFICES ASSUME NEW x \in Nat \X (1..n) PROVE x[1] + s[x[2]] \in Nat
        OBVIOUS
      <4>1. x[1] \in Nat /\ s[x[2]] \in Nat
        BY <2>2
      <4> QED BY <4>1, SMTT(40)
    <3>6. \A b \in Nat, i \in 1..n : H[<<b, i>>] = b + s[i]
      OBVIOUS
    <3>1. H \in [Nat \X (1..n) -> Nat] /\ \A b \in Nat, i \in 1..n : H[<<b, i>>] = b + s[i]
      BY <3>5, <3>6
    <3> HIDE DEF H
    <3>2. PICK h \in [SUBSET (1..n) -> Nat] : Folds(h, 0, H, n)
      BY <2>2, <3>1, FoldExists
    <3>3. ASSUME NEW S \in SUBSET (1..n)
          PROVE  h[S] = IF S = {} THEN 0 ELSE h[S \ {Max(S)}] + s[Max(S)]
      <4>1. CASE S = {}
        BY <3>2, <4>1 DEF Folds
      <4>2. CASE S # {}
        <5>1. h[S] = H[<<h[S \ {Max(S)}], Max(S)>>]
          BY <3>2, <4>2 DEF Folds
        <5>2. h[S \ {Max(S)}] \in Nat
          OBVIOUS
        <5>3. Max(S) \in 1..n
          BY <2>2, <4>2, LargestIs
        <5> QED BY <3>1, <4>2, <5>1, <5>2, <5>3
      <4> QED BY <4>1, <4>2
    <3>4. h = Step(h)
      BY <3>3
    <3> QED BY <3>4
  <2> HIDE DEF it
  <2> DEFINE K == {m \in 0..n : it[1..m] = g[m]}
  <2>5. n \in K
    <3>1. 0 \in K
      <4>1. 1..0 = {} /\ {} \in SUBSET (1..n) /\ 0 \in 0..n
        BY <2>2
      <4> QED BY <1>3, <2>4, <4>1
    <3>2. ASSUME NEW m \in 1..n, m - 1 \in K PROVE m \in K
      <4>1. 1..m \in SUBSET (1..n) /\ m - 1 \in 0..n /\ m \in Nat \ {0} /\ m \in 0..n /\ m \in 1..N
        BY <1>1, <2>2
      <4>2. Max(1..m) = m /\ (1..m) \ {m} = 1..(m - 1) /\ 1..m # {}
        BY <4>1, FirstOnes
      <4>3. it[1..m] = it[1..(m - 1)] + s[m]
        BY <2>4, <4>1, <4>2
      <4>4. it[1..(m - 1)] = g[m - 1]
        BY <3>2
      <4> QED BY <1>3, <2>2, <4>1, <4>3, <4>4
    <3>3. NextHas(K, n)
      BY <3>2 DEF NextHas
    <3> HIDE DEF K
    <3> QED BY <2>2, <3>1, <3>3, ReachesAll
  <2> QED BY <2>3, <2>5
<1>5. \A n \in 0..N : Total(f, n) \in Nat
  BY <1>2, <1>4
<1>6. ASSUME NEW n \in 1..N PROVE Total(f, n) = Total(f, n - 1) + f[n]
  <2>1. n \in 0..N /\ n - 1 \in 0..N
    BY <1>1
  <2> QED BY <1>3, <1>4, <2>1
<1>7. Total(f, 0) = 0
  <2>1. 0 \in 0..N
    BY <1>1
  <2> QED BY <1>3, <1>4, <2>1
<1> QED BY <1>1, <1>5, <1>6, <1>7

\* The sum of the first n depends on them only.
LEMMA TotalSame ==
    ASSUME NEW f \in Seq(Nat), NEW h \in Seq(Nat), NEW n \in Nat, n <= Len(f), n <= Len(h),
           \A i \in 1..n : f[i] = h[i]
    PROVE  Total(f, n) = Total(h, n)
<1> DEFINE K == {m \in 0..n : Total(f, m) = Total(h, m)}
<1>1. Len(f) \in Nat /\ Len(h) \in Nat
  BY LenProperties
<1>2. 0 \in K
  <2>1. Total(f, 0) = 0 /\ Total(h, 0) = 0
    BY TotalSteps
  <2> QED BY <2>1
<1>3. ASSUME NEW m \in 1..n, m - 1 \in K PROVE m \in K
  <2>1. m \in 1..Len(f) /\ m \in 1..Len(h) /\ m \in 0..n
    BY <1>1
  <2>2. Total(f, m) = Total(f, m - 1) + f[m] /\ Total(h, m) = Total(h, m - 1) + h[m]
    BY <2>1, TotalSteps
  <2> QED BY <1>3, <2>1, <2>2
<1>4. NextHas(K, n)
  BY <1>3 DEF NextHas
<1>5. n \in K
  <2> HIDE DEF K
  <2> QED BY <1>2, <1>4, ReachesAll
<1> QED BY <1>5

-----------------------------------------------------------------------------
(* What is clustered.                                                      *)

LEMMA FlattenTypes ==
    ASSUME NEW X, NEW c \in Seq(Seq(X))
    PROVE  FlattenSeq(c) \in Seq(X)
<1>1. PICK N \in Nat : N = Len(c) /\ \A i \in 1..N : c[i] \in Seq(X)
  <2>1. Len(c) \in Nat /\ DOMAIN c = 1..Len(c)
    BY LenProperties
  <2> QED BY <2>1, ElementOfSeq
<1>2. CASE N = 0
  <2>1. c = <<>>
    BY <1>1, <1>2, EmptySeq
  <2>2. FlattenSeq(c) = c
    BY <1>1, <1>2 DEF FlattenSeq
  <2> QED BY <2>1, <2>2, EmptySeq
<1>3. CASE N # 0
  <2> DEFINE Step(f) == [i \in 1..N |-> IF i = 1 THEN c[i] ELSE f[i - 1] \o c[i]]
             flatten == CHOOSE f : f = Step(f)
             G == [x \in Seq(X) \X (1..N) |-> IF x[2] = 1 THEN c[1] ELSE x[1] \o c[x[2]]]
  <2>1. FlattenSeq(c) = flatten[N]
    BY <1>1, <1>3 DEF FlattenSeq
  <2>2. \A x \in Seq(X), i \in 1..N :
           /\ G[<<x, i>>] = (IF i = 1 THEN c[1] ELSE x \o c[i]) /\ G[<<x, i>>] \in Seq(X)
    <3> SUFFICES ASSUME NEW x \in Seq(X), NEW i \in 1..N
                 PROVE  /\ G[<<x, i>>] = (IF i = 1 THEN c[1] ELSE x \o c[i])
                        /\ G[<<x, i>>] \in Seq(X)
      OBVIOUS
    <3>1. G[<<x, i>>] = (IF i = 1 THEN c[1] ELSE x \o c[i])
      OBVIOUS
    <3>2. c[i] \in Seq(X) /\ x \o c[i] \in Seq(X) /\ (i = 1 => c[1] \in Seq(X))
      BY <1>1, ConcatProperties
    <3> HIDE DEF G
    <3> QED BY <3>1, <3>2
  <2>3. G \in [Seq(X) \X (1..N) -> Seq(X)]
    <3> SUFFICES ASSUME NEW x \in Seq(X) \X (1..N) PROVE G[x] \in Seq(X)
      OBVIOUS
    <3>1. x = <<x[1], x[2]>> /\ x[1] \in Seq(X) /\ x[2] \in 1..N
      OBVIOUS
    <3> HIDE DEF G
    <3> QED BY <2>2, <3>1
  <2>4. <<>> \in Seq(X)
    BY EmptySeq
  <2> HIDE DEF G
  <2>5. PICK g \in [0..N -> Seq(X)] : StepsBy(g, <<>>, G, N)
    BY <1>1, <2>3, <2>4, StepsExist
  <2>6. ASSUME NEW i \in 1..N
        PROVE  g[i] \in Seq(X) /\ g[i] = IF i = 1 THEN c[i] ELSE g[i - 1] \o c[i]
    <3>1. i \in 0..N /\ i - 1 \in 0..N
      BY <1>1
    <3>2. g[i] = G[<<g[i - 1], i>>] /\ g[i - 1] \in Seq(X)
      BY <2>5, <3>1 DEF StepsBy
    <3> QED BY <2>2, <2>5, <3>1, <3>2
  <2>7. \A i \in 1..N : i = 1 \/ i - 1 \in 1..N
    BY <1>1
  <2> DEFINE h == [i \in 1..N |-> g[i]]
  <2>8. h = Step(h)
    <3>1. \A i \in 1..N : h[i] = IF i = 1 THEN c[i] ELSE h[i - 1] \o c[i]
      BY <2>6, <2>7
    <3>2. h = [i \in 1..N |-> h[i]]
      OBVIOUS
    <3> HIDE DEF h
    <3> QED BY <3>1, <3>2
  <2>9. flatten = Step(flatten)
    BY <2>8
  <2> HIDE DEF flatten, h
  <2>10. flatten = [i \in 1..N |-> flatten[i]]
         /\ \A i \in 1..N : flatten[i] = IF i = 1 THEN c[i] ELSE flatten[i - 1] \o c[i]
    BY <2>9
  <2> DEFINE K == {m \in 0..N : m = 0 \/ flatten[m] \in Seq(X)}
  <2>11. N \in K
    <3>1. 0 \in K
      BY <1>1
    <3>2. ASSUME NEW m \in 1..N, m - 1 \in K PROVE m \in K
      <4>0. m \in 0..N
        BY <1>1
      <4>1. CASE m = 1
        <5>1. flatten[m] = c[m]
          BY <2>10, <4>1
        <5> QED BY <1>1, <4>0, <5>1
      <4>2. CASE m # 1
        <5>1. flatten[m - 1] \in Seq(X)
          <6>1. m - 1 # 0
            BY <4>2
          <6> QED BY <3>2, <6>1
        <5>2. flatten[m] = flatten[m - 1] \o c[m]
          BY <2>10, <4>2
        <5>3. flatten[m - 1] \o c[m] \in Seq(X)
          BY <1>1, <5>1, ConcatProperties
        <5> QED BY <4>0, <5>2, <5>3
      <4> QED BY <4>1, <4>2
    <3>3. NextHas(K, N)
      BY <3>2 DEF NextHas
    <3> HIDE DEF K
    <3> QED BY <1>1, <3>1, <3>3, ReachesAll
  <2> QED BY <1>3, <2>1, <2>11
<1> QED BY <1>2, <1>3

LEMMA StridedTypes ==
    ASSUME NEW X, NEW s \in Seq(X), NEW step \in Nat \ {0}
    PROVE  Strided(s, step) \in Seq(X)
<1>1. PICK L \in Nat : L = Len(s) /\ DOMAIN s = 1..L
  BY LenProperties
<1>2. PICK D \in Nat : D = (L + step - 1) \div step /\ D * step <= L + step - 1
  <2>1. PICK a \in Nat : a = L + step - 1
    BY <1>1
  <2>2. a \div step \in Nat /\ (a \div step) * step <= a
    BY <2>1
  <2> QED BY <2>1, <2>2
<1>3. ASSUME NEW n \in 1..D PROVE s[(n - 1) * step + 1] \in X
  <2>1. n * step <= D * step
    BY <1>2
  <2>2. (n - 1) * step = n * step - step /\ (n - 1) * step \in Nat
    <3>1. PICK m \in Nat : m = n - 1 /\ n = m + 1
      BY <1>2
    <3>2. (m + 1) * step = m * step + step /\ m * step \in Nat
      OBVIOUS
    <3> QED BY <3>1, <3>2
  <2>3. (n - 1) * step + 1 \in 1..L
    <3>1. n * step \in Int /\ D * step \in Int
      BY <1>2
    <3> QED BY <1>1, <1>2, <2>1, <2>2, <3>1
  <2> QED BY <1>1, <2>3, ElementOfSeq
<1>4. Strided(s, step) = [n \in 1..D |-> s[(n - 1) * step + 1]]
  <2>1. (Len(s) + step - 1) \div step = D
    BY <1>1, <1>2
  <2> QED BY <2>1, Zenon DEF Strided
<1>5. PICK g : g = [n \in 1..D |-> s[(n - 1) * step + 1]]
  OBVIOUS
<1>6. g \in [1..D -> X]
  BY <1>3, <1>5
<1>7. g \in Seq(X)
  BY <1>2, <1>6, SeqDef
<1> QED BY <1>4, <1>5, <1>7

LEMMA ExportTypes ==
    ASSUME NEW ims, IsImages(ims), NEW count \in Nat
    PROVE  Export(ims, count) \in Seq(SUBSET Bit)
<1>1. PICK N \in Nat : N = Len(ims) /\ DOMAIN ims = 1..N
                       /\ \A n \in 1..N : ims[n].count \in Nat /\ ims[n].codes \in Seq(SUBSET Bit)
  <2>1. ims \in Seq([count : Nat, codes : Seq(SUBSET Bit)])
    BY DEF IsImages
  <2>2. Len(ims) \in Nat /\ DOMAIN ims = 1..Len(ims)
    BY <2>1, LenProperties
  <2>3. \A n \in 1..Len(ims) : ims[n] \in [count : Nat, codes : Seq(SUBSET Bit)]
    BY <2>1, ElementOfSeq
  <2> QED BY <2>2, <2>3
<1>2. CASE count = 0
  BY <1>2, EmptySeq DEF Export
<1>3. CASE count # 0
  <2>1. PICK total \in Nat : total = Total([n \in DOMAIN ims |-> ims[n].count], Len(ims))
    <3>1. PICK f : f = [n \in 1..N |-> ims[n].count]
      OBVIOUS
    <3>2. f \in Seq(Nat) /\ Len(f) = N
      BY <1>1, <3>1
    <3>3. Total(f, N) \in Nat
      BY <3>2, TotalSteps
    <3> QED BY <1>1, <3>1, <3>3
  <2>2. PICK step \in Nat \ {0} : step = Stride(ims, count)
    <3>1. Stride(ims, count) = IF count >= total THEN 1 ELSE total \div count
      BY <2>1 DEF Stride
    <3>2. ASSUME ~(count >= total) PROVE total \div count \in Nat \ {0}
      BY <1>3, <3>2
    <3> QED BY <3>1, <3>2
  <2>3. PICK c : c = [n \in 1..N |-> TakenOf(ims, count, n)]
    OBVIOUS
  <2>4. c \in Seq(Seq(SUBSET Bit))
    <3>1. \A n \in 1..N : TakenOf(ims, count, n) \in Seq(SUBSET Bit)
      BY <1>1, <2>2, StridedTypes DEF TakenOf
    <3> QED BY <1>1, <2>3, <3>1
  <2>5. PICK taken \in Seq(SUBSET Bit) : taken = FlattenSeq(c)
    BY <2>4, FlattenTypes
  <2>6. Export(ims, count) = SubSeq(taken, 1, Lesser(count, Len(taken)))
    BY <1>1, <1>3, <2>3, <2>5 DEF Export
  <2>7. Lesser(count, Len(taken)) \in 0..Len(taken)
    <3>1. Len(taken) \in Nat
      BY LenProperties
    <3> QED BY <3>1 DEF Lesser
  <2> QED BY <2>6, <2>7, SubSeqProperties, LenProperties
<1> QED BY <1>2, <1>3

-----------------------------------------------------------------------------
(* First centroids.                                                        *)

LEMMA RandomSeedsTypes ==
    ASSUME NEW X, NEW data \in Seq(X), NEW k \in Nat, NEW s \in RandomSeeds(data, k)
    PROVE  s \in Seq(X) /\ Len(s) = Lesser(k, Len(data))
<1>1. PICK L \in Nat : L = Len(data) /\ DOMAIN data = 1..L /\ \A i \in 1..L : data[i] \in X
  <2>1. Len(data) \in Nat /\ DOMAIN data = 1..Len(data)
    BY LenProperties
  <2> QED BY <2>1, ElementOfSeq
<1>2. PICK m \in Nat : m = Lesser(k, Len(data))
  BY <1>1 DEF Lesser
<1>3. PICK pos \in [1..m -> 1..L] : s = [c \in 1..m |-> data[pos[c]]]
  BY <1>1, <1>2 DEF RandomSeeds
<1>4. \A c \in 1..m : data[pos[c]] \in X
  BY <1>1, <1>3
<1>5. s \in [1..m -> X]
  BY <1>3, <1>4
<1>6. s \in Seq(X) /\ Len(s) = m
  <2>1. s \in Seq(X)
    BY <1>5, SeqDef
  <2>2. Len(s) \in Nat /\ 1..m = 1..Len(s)
    BY <1>5, <2>1, LenProperties
  <2> QED BY <2>1, <2>2
<1> QED BY <1>2, <1>6

LEMMA PlusPlusSeedsTypes ==
    ASSUME NEW X, NEW data \in Seq(X), NEW k \in Nat, NEW s \in PlusPlusSeeds(data, k)
    PROVE  s \in Seq(X) /\ Len(s) = k
<1>1. Range(data) \subseteq X
  BY LenProperties, ElementOfSeq DEF Range
<1> DEFINE more(t) == IF Range(data) \ Range(t) = {} THEN Range(data) ELSE Range(data) \ Range(t)
           after(S) == UNION {{Append(t, v) : v \in more(t)} : t \in S}
           Step(f) == [n \in 0..k |-> IF n = 0 THEN {<<>>} ELSE after(f[n - 1])]
           upto == CHOOSE f : f = Step(f)
           A == SUBSET Seq(X)
           G == [x \in A \X (1..k) |-> after(x[1])]
<1>2. PlusPlusSeeds(data, k) = upto[k]
  BY DEF PlusPlusSeeds
<1>3. ASSUME NEW S \in A PROVE after(S) \in A
  <2> SUFFICES ASSUME NEW t \in S, NEW v \in more(t) PROVE Append(t, v) \in Seq(X)
    OBVIOUS
  <2>1. t \in Seq(X) /\ v \in X
    BY <1>1
  <2> QED BY <2>1, AppendAdds
<1>4. {<<>>} \in A
  BY EmptySeq
<1> HIDE DEF more
<1>5. G \in [A \X (1..k) -> A] /\ \A S \in A, n \in 1..k : G[<<S, n>>] = after(S)
  <2>1. \A S \in A, n \in 1..k : G[<<S, n>>] = after(S)
    OBVIOUS
  <2>2. G \in [A \X (1..k) -> A]
    <3> SUFFICES ASSUME NEW x \in A \X (1..k) PROVE after(x[1]) \in A
      OBVIOUS
    <3>1. x[1] \in A
      OBVIOUS
    <3> HIDE DEF A, after
    <3> QED BY <1>3, <3>1
  <2> QED BY <2>1, <2>2
<1> HIDE DEF after, A, G
<1>6. PICK g \in [0..k -> A] : StepsBy(g, {<<>>}, G, k)
  BY <1>4, <1>5, StepsExist
<1>7. g = Step(g)
  <2>1. \A n \in 0..k : g[n] = IF n = 0 THEN {<<>>} ELSE after(g[n - 1])
    <3> SUFFICES ASSUME NEW n \in 0..k, n # 0 PROVE g[n] = after(g[n - 1])
      BY <1>6 DEF StepsBy
    <3>1. n \in 1..k /\ n - 1 \in 0..k
      OBVIOUS
    <3>2. g[n - 1] \in A /\ g[n] = G[<<g[n - 1], n>>]
      BY <1>6, <3>1 DEF StepsBy
    <3> QED BY <1>5, <3>1, <3>2
  <2> QED BY <2>1
<1>8. upto = Step(upto)
  BY <1>7
<1> HIDE DEF upto
<1> DEFINE K == {n \in 0..k : \A t \in upto[n] : t \in Seq(X) /\ Len(t) = n}
<1>9. k \in K
  <2>1. 0 \in K
    <3>1. upto[0] = {<<>>} /\ 0 \in 0..k
      BY <1>8
    <3>2. <<>> \in Seq(X) /\ Len(<<>>) = 0
      BY EmptySeq
    <3> QED BY <3>1, <3>2
  <2>2. ASSUME NEW n \in 1..k, n - 1 \in K PROVE n \in K
    <3>1. n \in 0..k /\ n # 0 /\ n - 1 \in Nat /\ (n - 1) + 1 = n
      OBVIOUS
    <3>2. upto[n] = after(upto[n - 1])
      BY <1>8, <3>1
    <3>3. ASSUME NEW t \in upto[n] PROVE t \in Seq(X) /\ Len(t) = n
      <4>1. PICK u \in upto[n - 1] : \E v \in more(u) : t = Append(u, v)
        BY <3>2, <3>3 DEF after
      <4>2. PICK v \in X : t = Append(u, v)
        BY <1>1, <4>1 DEF more
      <4>3. u \in Seq(X) /\ Len(u) = n - 1
        BY <2>2
      <4> QED BY <3>1, <4>2, <4>3, AppendAdds
    <3> QED BY <3>1, <3>3
  <2>3. NextHas(K, k)
    BY <2>2 DEF NextHas
  <2> HIDE DEF K
  <2> QED BY <2>1, <2>3, ReachesAll
<1> QED BY <1>2, <1>9

LEMMA SeedsTypes ==
    ASSUME NEW X, NEW data \in Seq(X), NEW k \in Nat, NEW init, NEW s \in Seeds(data, k, init)
    PROVE  /\ s \in Seq(X)
           /\ Len(s) = k \/ (init # "kmeans-plus-plus" /\ Len(data) < k /\ Len(s) < k)
<1>1. CASE init = "kmeans-plus-plus"
  <2>1. s \in PlusPlusSeeds(data, k)
    BY <1>1 DEF Seeds
  <2> QED BY <2>1, PlusPlusSeedsTypes
<1>2. CASE init # "kmeans-plus-plus"
  <2>1. s \in RandomSeeds(data, k)
    BY <1>2 DEF Seeds
  <2>2. s \in Seq(X) /\ Len(s) = Lesser(k, Len(data))
    BY <2>1, RandomSeedsTypes
  <2>3. Len(data) \in Nat
    BY LenProperties
  <2> QED BY <1>2, <2>2, <2>3 DEF Lesser
<1> QED BY <1>1, <1>2

-----------------------------------------------------------------------------
(* Two levels.                                                             *)

\* u[n] are the elements at the positions of P up to n.
Collects(u, s, P, N) ==
    /\ u[0] = <<>> /\ AtPositions(s, P) = u[N]
    /\ \A n \in 1..N : u[n] = IF n \in P THEN Append(u[n - 1], s[n]) ELSE u[n - 1]

LEMMA AtPositionsSteps ==
    ASSUME NEW X, NEW s \in Seq(X), NEW P, NEW N, N = Len(s)
    PROVE  \E u \in [0..N -> Seq(X)] : Collects(u, s, P, N)
<1>1. N \in Nat /\ N = Len(s) /\ \A i \in 1..N : s[i] \in X
  <2>1. Len(s) \in Nat /\ DOMAIN s = 1..Len(s)
    BY LenProperties
  <2> QED BY <2>1, ElementOfSeq
<1>2. PICK z \in Seq(X) : z = <<>>
  BY EmptySeq
<1> DEFINE Step(f) == [n \in 0..N |-> IF n = 0 THEN z
                                      ELSE IF n \in P THEN Append(f[n - 1], s[n]) ELSE f[n - 1]]
           upto == CHOOSE f : f = Step(f)
           G == [x \in Seq(X) \X (1..N) |-> IF x[2] \in P THEN Append(x[1], s[x[2]]) ELSE x[1]]
<1>3. AtPositions(s, P) = upto[N]
  BY <1>1, <1>2 DEF AtPositions
<1>4. G \in [Seq(X) \X (1..N) -> Seq(X)]
  <2> SUFFICES ASSUME NEW x \in Seq(X) \X (1..N)
               PROVE  (IF x[2] \in P THEN Append(x[1], s[x[2]]) ELSE x[1]) \in Seq(X)
    OBVIOUS
  <2>1. x[1] \in Seq(X) /\ s[x[2]] \in X
    BY <1>1
  <2> QED BY <2>1, AppendAdds
<1>5. \A x \in Seq(X), n \in 1..N : G[<<x, n>>] = IF n \in P THEN Append(x, s[n]) ELSE x
  OBVIOUS
<1> HIDE DEF G
<1>6. PICK g \in [0..N -> Seq(X)] : StepsBy(g, z, G, N)
  BY <1>1, <1>2, <1>4, StepsExist
<1>7. ASSUME NEW n \in 0..N
      PROVE  g[n] = IF n = 0 THEN z ELSE IF n \in P THEN Append(g[n - 1], s[n]) ELSE g[n - 1]
  <2>1. CASE n = 0
    BY <1>6, <2>1 DEF StepsBy
  <2>2. CASE n # 0
    <3>1. n \in 1..N /\ n - 1 \in 0..N
      BY <1>1, <2>2
    <3>2. g[n] = G[<<g[n - 1], n>>] /\ g[n - 1] \in Seq(X)
      BY <1>6, <3>1 DEF StepsBy
    <3> QED BY <1>5, <2>2, <3>1, <3>2
  <2> QED BY <2>1, <2>2
<1>8. upto = Step(upto)
  <2>1. g = Step(g)
    BY <1>7
  <2> QED BY <2>1
<1> HIDE DEF upto
<1>9. \A n \in 0..N : upto[n] = IF n = 0 THEN z
                                ELSE IF n \in P THEN Append(upto[n - 1], s[n]) ELSE upto[n - 1]
  BY <1>8
<1> DEFINE K == {n \in 0..N : upto[n] = g[n]}
<1>10. N \in K
  <2>1. 0 \in K
    <3>1. 0 \in 0..N
      BY <1>1
    <3> QED BY <1>7, <1>9, <3>1
  <2>2. ASSUME NEW n \in 1..N, n - 1 \in K PROVE n \in K
    <3>1. n \in 0..N /\ n # 0
      BY <1>1
    <3>2. upto[n - 1] = g[n - 1]
      BY <2>2
    <3> QED BY <1>7, <1>9, <3>1, <3>2
  <2>3. NextHas(K, N)
    BY <2>2 DEF NextHas
  <2> HIDE DEF K
  <2> QED BY <1>1, <2>1, <2>3, ReachesAll
<1>11. AtPositions(s, P) = g[N] /\ g[0] = z
  <2>1. 0 \in 0..N
    BY <1>1
  <2> QED BY <1>3, <1>7, <1>10, <2>1
<1>12. \A n \in 1..N : g[n] = IF n \in P THEN Append(g[n - 1], s[n]) ELSE g[n - 1]
  <2>1. \A n \in 1..N : n \in 0..N /\ n # 0
    BY <1>1
  <2> QED BY <1>7, <2>1
<1>13. Collects(g, s, P, N)
  BY <1>2, <1>11, <1>12 DEF Collects
<1> QED BY <1>6, <1>13

TakenFrom(t, s, P) == \A i \in 1..Len(t) : \E n \in 1..Len(s) : n \in P /\ t[i] = s[n]

LEMMA AtPositionsIs ==
    ASSUME NEW X, NEW s \in Seq(X), NEW P
    PROVE  LET t == AtPositions(s, P) IN
           /\ t \in Seq(X) /\ Len(t) = Cardinality({n \in 1..Len(s) : n \in P})
           /\ TakenFrom(t, s, P)
<1>1. PICK N \in Nat : N = Len(s) /\ \A i \in 1..N : s[i] \in X
  <2>1. Len(s) \in Nat /\ DOMAIN s = 1..Len(s)
    BY LenProperties
  <2> QED BY <2>1, ElementOfSeq
<1>7. PICK u \in [0..N -> Seq(X)] : Collects(u, s, P, N)
  BY <1>1, AtPositionsSteps
<1>2. /\ u[0] = <<>> /\ AtPositions(s, P) = u[N]
      /\ \A n \in 1..N : u[n] = IF n \in P THEN Append(u[n - 1], s[n]) ELSE u[n - 1]
  BY <1>7 DEF Collects
<1> DEFINE Q(n) == {m \in 1..n : m \in P}
           K == {n \in 0..N : /\ Len(u[n]) = Cardinality(Q(n))
                              /\ \A i \in 1..Len(u[n]) : \E m \in 1..n : m \in P /\ u[n][i] = s[m]}
<1>3. 0 \in K
  <2>1. Q(0) = {} /\ Len(<<>>) = 0 /\ 0 \in 0..N
    BY <1>1
  <2>2. Cardinality(Q(0)) = 0
    BY <2>1, FS_EmptySet
  <2>3. \A i \in 1..Len(<<>>) : FALSE
    BY <2>1
  <2> HIDE DEF Q
  <2> QED BY <1>2, <2>1, <2>2, <2>3
<1>4. ASSUME NEW n \in 1..N, n - 1 \in K PROVE n \in K
  <2>1. n \in 0..N /\ n - 1 \in 0..N /\ 1..(n - 1) \subseteq 1..n /\ n \in 1..n /\ n \in Nat
    BY <1>1
  <2>2. PICK t \in Seq(X) : t = u[n - 1]
    BY <1>2, <2>1
  <2>3. /\ Len(t) = Cardinality(Q(n - 1))
        /\ \A i \in 1..Len(t) : \E m \in 1..(n - 1) : m \in P /\ t[i] = s[m]
    BY <1>4, <2>2
  <2>4. IsFiniteSet(Q(n - 1)) /\ n \notin Q(n - 1)
    <3>0. n - 1 \in Nat
      BY <1>1
    <3>3. IsFiniteSet(1..(n - 1))
      BY <3>0, FS_Interval
    <3>1. IsFiniteSet(1..(n - 1)) /\ Q(n - 1) \in SUBSET (1..(n - 1))
      BY <3>3
    <3>2. n \notin 1..(n - 1)
      BY <2>1
    <3> QED BY <3>1, <3>2, FS_Subset
  <2>5. CASE n \in P
    <3>1. u[n] = Append(t, s[n]) /\ s[n] \in X
      BY <1>1, <1>2, <2>2, <2>5
    <3>2. Q(n) = Q(n - 1) \cup {n}
      BY <2>1, <2>5
    <3>3. Cardinality(Q(n)) = Cardinality(Q(n - 1)) + 1
      <4> HIDE DEF Q
      <4> QED BY <2>4, <3>2, FS_AddElement
    <3>4. /\ Len(u[n]) = Len(t) + 1 /\ u[n][Len(t) + 1] = s[n]
          /\ \A i \in 1..Len(t) : u[n][i] = t[i]
      BY <3>1, AppendAdds
    <3>5. ASSUME NEW i \in 1..Len(u[n]) PROVE \E m \in 1..n : m \in P /\ u[n][i] = s[m]
      <4>1. Len(t) \in Nat
        BY <2>2, LenProperties
      <4>2. i = Len(t) + 1 \/ i \in 1..Len(t)
        BY <3>4, <4>1
      <4> QED BY <2>1, <2>3, <2>5, <3>4, <4>2
    <3> HIDE DEF Q
    <3> QED BY <2>1, <2>3, <3>3, <3>4, <3>5
  <2>6. CASE n \notin P
    <3>1. u[n] = t
      BY <1>2, <2>2, <2>6
    <3>2. Q(n) = Q(n - 1)
      BY <2>1, <2>6
    <3>3. \A i \in 1..Len(t) : \E m \in 1..n : m \in P /\ t[i] = s[m]
      BY <2>1, <2>3
    <3> HIDE DEF Q
    <3> QED BY <2>1, <2>3, <3>1, <3>2, <3>3
  <2> QED BY <2>5, <2>6
<1>5. N \in K
  <2>1. NextHas(K, N)
    BY <1>4 DEF NextHas
  <2> HIDE DEF K
  <2> QED BY <1>1, <1>3, <2>1, ReachesAll
<1>6. u[N] \in Seq(X)
  <2>1. N \in 0..N
    BY <1>1
  <2> QED BY <1>2, <2>1
<1>8. TakenFrom(u[N], s, P)
  BY <1>1, <1>5 DEF TakenFrom
<1>9. Len(u[N]) = Cardinality({n \in 1..Len(s) : n \in P})
  BY <1>1, <1>5
<1> QED BY <1>2, <1>6, <1>8, <1>9

LEMMA TimesLess ==
    ASSUME NEW x \in Nat, NEW y \in Nat, NEW d \in Nat, x * d < y * d
    PROVE  x < y
<1>1. ASSUME ~(x < y) PROVE FALSE
  <2>1. PICK e \in Nat : x = y + e
    <3>1. x - y \in Nat /\ x = y + (x - y)
      BY <1>1
    <3> QED BY <3>1
  <2>2. (y + e) * d = y * d + e * d /\ e * d \in Nat /\ y * d \in Nat
    OBVIOUS
  <2> QED BY <2>1, <2>2
<1> QED BY <1>1

\* The part of n lots in a of all grows by s lots at most with s more.
LEMMA PartGrows ==
    ASSUME NEW a \in Nat, NEW s \in Nat, NEW n \in Nat, NEW all \in Nat \ {0}, n <= all
    PROVE  LET p == (a * n) \div all
               q == ((a + s) * n) \div all
           IN  p \in Nat /\ q \in Nat /\ p <= q /\ q <= p + s
<1>1. PICK b \in Nat, c \in Nat : b = a * n /\ c = s * n
  OBVIOUS
<1>2. (a + s) * n = b + c
  <2>1. (a + s) * n = a * n + s * n
    OBVIOUS
  <2> QED BY <1>1, <2>1
<1>3. PICK p \in Nat : p = b \div all /\ p * all <= b /\ b < (p + 1) * all
  OBVIOUS
<1>4. PICK q \in Nat : q = (b + c) \div all /\ q * all <= b + c /\ b + c < (q + 1) * all
  <2>1. PICK e \in Nat : e = b + c
    OBVIOUS
  <2>2. PICK q \in Nat : q = e \div all /\ q * all <= e /\ e < (q + 1) * all
    OBVIOUS
  <2> QED BY <2>1, <2>2
<1>5. p <= q
  <2>1. p * all < (q + 1) * all
    <3>1. PICK x \in Int, y \in Int : x = p * all /\ y = (q + 1) * all
      OBVIOUS
    <3> QED BY <1>3, <1>4, <3>1
  <2>2. p < q + 1
    BY <2>1, TimesLess
  <2> QED BY <2>2
<1>6. q <= p + s
  <2>1. c <= s * all
    <3>1. PICK e \in Nat : all = n + e
      <4>1. all - n \in Nat /\ all = n + (all - n)
        OBVIOUS
      <4> QED BY <4>1
    <3>2. s * (n + e) = s * n + s * e /\ s * e \in Nat /\ s * n \in Nat
      OBVIOUS
    <3> QED BY <1>1, <3>1, <3>2
  <2>2. (p + 1 + s) * all = (p + 1) * all + s * all
    OBVIOUS
  <2>3. q * all < (p + 1 + s) * all
    <3>1. PICK x \in Int, y \in Int, w \in Int : x = q * all /\ y = (p + 1) * all /\ w = s * all
      OBVIOUS
    <3> QED BY <1>3, <1>4, <2>1, <2>2, <3>1
  <2>4. q < p + 1 + s
    BY <2>3, TimesLess
  <2> QED BY <2>4
<1> QED BY <1>1, <1>2, <1>3, <1>4, <1>5, <1>6

\* No share is larger than its bucket, and together they are n.
Shared(share, size, n, K) ==
    /\ share \in Seq(Nat) /\ Len(share) = K /\ DOMAIN share = 1..K
    /\ \A c \in 1..K : share[c] <= size[c]
    /\ Total(share, K) = n

\* The split of kmodes.Cluster2Level, differences of rounded prefix sums, gives out
\* all n centroids and none that its bucket has no vector for, if there are n vectors.
THEOREM SharesIs ==
    ASSUME NEW size \in Seq(Nat), NEW N, N = Len(size), NEW n \in Nat, NEW all \in Nat \ {0},
           all = Total(size, N), n <= all, NEW share, share = Shares(size, n)
    PROVE  Shared(share, size, n, N)
<1>1. N \in Nat /\ DOMAIN size = 1..N /\ \A c \in 1..N : size[c] \in Nat
  <2>1. Len(size) \in Nat /\ DOMAIN size = 1..Len(size)
    BY LenProperties
  <2> QED BY <2>1, ElementOfSeq
<1>2. /\ Total(size, 0) = 0 /\ \A c \in 0..N : Total(size, c) \in Nat
      /\ \A c \in 1..N : Total(size, c) = Total(size, c - 1) + size[c]
  BY TotalSteps
<1> DEFINE U(c) == (Total(size, c) * n) \div all
<1>3. U(0) = 0
  <2>1. 0 * n = 0 /\ 0 \div all = 0
    OBVIOUS
  <2> QED BY <1>2, <2>1
<1>4. U(N) = n
  <2>1. (all * n) \div all = n
    OBVIOUS
  <2> QED BY <2>1
<1>5. ASSUME NEW c \in 1..N
      PROVE  /\ U(c) \in Nat /\ U(c - 1) \in Nat /\ U(c - 1) <= U(c) /\ U(c) <= U(c - 1) + size[c]
             /\ share[c] = U(c) - U(c - 1)
  <2>1. PICK a \in Nat, s \in Nat : a = Total(size, c - 1) /\ s = size[c] /\ Total(size, c) = a + s
    <3>1. c - 1 \in 0..N
      BY <1>1
    <3> QED BY <1>1, <1>2, <3>1
  <2>2. U(c) \in Nat /\ U(c - 1) \in Nat /\ U(c - 1) <= U(c) /\ U(c) <= U(c - 1) + s
    BY <2>1, PartGrows
  <2>3. share[c] = U(c) - IF c = 1 THEN 0 ELSE U(c - 1)
    BY <1>1 DEF Shares
  <2>4. c = 1 => c - 1 = 0
    OBVIOUS
  <2> HIDE DEF U
  <2> QED BY <1>3, <2>1, <2>2, <2>3, <2>4
<1> HIDE DEF U
<1>6. \A c \in 1..N : share[c] \in Nat /\ share[c] <= size[c]
  BY <1>1, <1>5
<1>7. share \in Seq(Nat) /\ Len(share) = N /\ DOMAIN share = 1..N
  <2>1. share = [c \in 1..N |-> share[c]]
    BY <1>1 DEF Shares
  <2>2. share \in [1..N -> Nat]
    BY <1>6, <2>1
  <2>3. share \in Seq(Nat)
    BY <1>1, <2>2, SeqDef
  <2>4. Len(share) \in Nat /\ 1..N = 1..Len(share)
    BY <2>2, <2>3, LenProperties
  <2> QED BY <1>1, <2>2, <2>3, <2>4
<1> DEFINE K == {c \in 0..N : Total(share, c) = U(c)}
<1>8. N \in K
  <2>1. 0 \in K
    <3>1. Total(share, 0) = 0 /\ 0 \in 0..N
      BY <1>1, <1>7, TotalSteps
    <3> QED BY <1>3, <3>1
  <2>2. ASSUME NEW c \in 1..N, c - 1 \in K PROVE c \in K
    <3>1. Total(share, c) = Total(share, c - 1) + share[c]
      BY <1>7, TotalSteps
    <3>2. Total(share, c - 1) = U(c - 1) /\ c \in 0..N
      BY <1>1, <2>2
    <3> QED BY <1>5, <3>1, <3>2
  <2>3. NextHas(K, N)
    BY <2>2 DEF NextHas
  <2> HIDE DEF K
  <2> QED BY <1>1, <2>1, <2>3, ReachesAll
<1>9. /\ share \in Seq(Nat) /\ Len(share) = N /\ DOMAIN share = 1..N
      /\ \A c \in 1..N : share[c] <= size[c]
      /\ Total(share, N) = n
  BY <1>4, <1>6, <1>7, <1>8
<1> HIDE DEF U
<1> QED BY <1>9 DEF Shared

LEMMA LeastIs ==
    ASSUME NEW S \in SUBSET Nat, S # {}
    PROVE  Min(S) \in S /\ \A x \in S : Min(S) <= x
<1>1. \E x \in S : \A y \in S : x <= y
  BY Least
<1> QED BY <1>1, Zenon DEF Min

\* Every descriptor has a nearest centroid, the first of which it is assigned to.
LEMMA AssignIs ==
    ASSUME NEW v \in SUBSET Bit, NEW C \in Seq(SUBSET Bit), C # <<>>
    PROVE  /\ Assign(v, C) \in 1..Len(C) /\ ToNearest(v, C) \in Nat
           /\ Distance(v, C[Assign(v, C)]) = ToNearest(v, C)
           /\ \A j \in 1..Len(C) : ToNearest(v, C) <= Distance(v, C[j]) /\ Distance(v, C[j]) \in Nat
<1>1. PICK L \in Nat \ {0} : L = Len(C) /\ DOMAIN C = 1..L /\ \A j \in 1..L : C[j] \in SUBSET Bit
  <2>1. Len(C) \in Nat /\ DOMAIN C = 1..Len(C) /\ Len(C) # 0
    BY LenProperties, EmptySeq
  <2> QED BY <2>1, ElementOfSeq
<1> DEFINE D == {Distance(v, c) : c \in Range(C)}
<1>2. D \in SUBSET Nat /\ D # {} /\ \A j \in 1..L : Distance(v, C[j]) \in D
  <2>1. Range(C) = {C[j] : j \in 1..L}
    BY <1>1 DEF Range
  <2>2. \A j \in 1..L : Distance(v, C[j]) \in Nat
    BY <1>1, DistanceTypes
  <2>3. 1 \in 1..L
    BY <1>1
  <2> QED BY <2>1, <2>2, <2>3
<1>3. ToNearest(v, C) \in D /\ \A x \in D : ToNearest(v, C) <= x
  <2>1. ToNearest(v, C) = Min(D)
    BY DEF ToNearest
  <2> HIDE DEF D
  <2> QED BY <1>2, <2>1, LeastIs
<1>4. PICK i \in 1..L : Distance(v, C[i]) = ToNearest(v, C)
  BY <1>1, <1>3 DEF Range
<1> DEFINE J == {j \in 1..L : Distance(v, C[j]) = ToNearest(v, C)}
<1>5. J \in SUBSET Nat /\ J # {} /\ Assign(v, C) = Min(J)
  BY <1>1, <1>4 DEF Assign
<1>6. Assign(v, C) \in J
  <2> HIDE DEF J
  <2> QED BY <1>5, LeastIs
<1> HIDE DEF D
<1> QED BY <1>1, <1>2, <1>3, <1>6

\* What the buckets of the first level are, and their shares.
Parted(b, size, data, K) ==
    /\ DOMAIN b = 1..K /\ \A c \in 1..K : b[c] \in Seq(SUBSET Bit)
    /\ size \in Seq(Nat) /\ Len(size) = K /\ Total(size, K) = Len(data)

\* Every vector goes into one bucket.
LEMMA BucketsIs ==
    ASSUME NEW data \in Seq(SUBSET Bit), NEW C \in Seq(SUBSET Bit), C # <<>>,
           NEW b, b = Buckets(data, C), NEW K, K = Len(C)
    PROVE  Parted(b, [c \in 1..K |-> Len(b[c])], data, K)
<1>1. K \in Nat /\ DOMAIN C = 1..K
  BY LenProperties
<1>2. PICK N \in Nat : N = Len(data) /\ DOMAIN data = 1..N /\ \A i \in 1..N : data[i] \in SUBSET Bit
  <2>1. Len(data) \in Nat /\ DOMAIN data = 1..Len(data)
    BY LenProperties
  <2> QED BY <2>1, ElementOfSeq
<1>3. PICK A : A = [n \in 1..N |-> Assign(data[n], C)]
  OBVIOUS
<1>4. \A n \in 1..N : A[n] \in 1..K /\ A[n] = Assign(data[n], C)
  BY <1>2, <1>3, AssignIs
<1>5. DOMAIN b = 1..K /\ \A c \in 1..K :
          b[c] = AtPositions(data, {n \in 1..N : Assign(data[n], C) = c})
  BY <1>1, <1>2 DEF Buckets
<1> DEFINE In(c) == {n \in 1..N : A[n] = c}
           UpToBucket(c) == {n \in 1..N : A[n] <= c}
<1>6. ASSUME NEW c \in 1..K PROVE b[c] \in Seq(SUBSET Bit) /\ Len(b[c]) = Cardinality(In(c))
  <2>1. PICK P : P = {n \in 1..N : Assign(data[n], C) = c}
    OBVIOUS
  <2>2. b[c] = AtPositions(data, P)
    BY <1>5, <2>1
  <2>3. b[c] \in Seq(SUBSET Bit) /\ Len(b[c]) = Cardinality({n \in 1..Len(data) : n \in P})
    BY <2>2, AtPositionsIs
  <2>4. {n \in 1..Len(data) : n \in P} = In(c)
    BY <1>2, <1>4, <2>1
  <2> HIDE DEF In
  <2> QED BY <2>3, <2>4
<1>7. PICK size : size = [c \in 1..K |-> Len(b[c])]
  OBVIOUS
<1>8. size \in Seq(Nat) /\ Len(size) = K /\ \A c \in 1..K : size[c] = Cardinality(In(c))
  <2>1. size \in [1..K -> Nat]
    BY <1>6, <1>7, LenProperties
  <2>2. size \in Seq(Nat)
    BY <1>1, <2>1, SeqDef
  <2>3. Len(size) \in Nat /\ 1..K = 1..Len(size)
    BY <2>1, <2>2, LenProperties
  <2>4. \A c \in 1..K : size[c] = Cardinality(In(c))
    BY <1>6, <1>7
  <2> HIDE DEF In
  <2> QED BY <1>1, <2>2, <2>3, <2>4
<1>9. IsFiniteSet(1..N) /\ Cardinality(1..N) = N
  <2>1. N \in Nat
    BY <1>2
  <2> HIDE DEF In, UpToBucket
  <2>2. 1 \in Int /\ N \in Int
    BY <2>1
  <2>3. IsFiniteSet(1..N) /\ Cardinality(1..N) = IF 1 > N THEN 0 ELSE N - 1 + 1
    BY <2>2, FS_Interval, Zenon
  <2> QED BY <2>1, <2>3
<1>14. \A c \in 1..K : Total(size, c) = Total(size, c - 1) + size[c]
  <2>1. size \in Seq(Nat) /\ Len(size) = K
    BY <1>8
  <2> HIDE DEF In, UpToBucket
  <2> QED BY <2>1, TotalSteps
<1>10. \A c \in 0..K : IsFiniteSet(In(c)) /\ IsFiniteSet(UpToBucket(c))
  BY <1>9, FS_Subset
<1> DEFINE H == {c \in 0..K : Total(size, c) = Cardinality(UpToBucket(c))}
<1>11. K \in H
  <2>1. 0 \in H
    <3>1. UpToBucket(0) = {}
      BY <1>4
    <3>2. Cardinality(UpToBucket(0)) = 0
      <4> HIDE DEF UpToBucket
      <4> QED BY <3>1, FS_EmptySet
    <3>3. Total(size, 0) = 0 /\ 0 \in 0..K
      BY <1>1, <1>8, TotalSteps
    <3> HIDE DEF UpToBucket
    <3> QED BY <3>2, <3>3
  <2>2. ASSUME NEW c \in 1..K, c - 1 \in H PROVE c \in H
    <3>1. Total(size, c) = Total(size, c - 1) + size[c]
      BY <1>14
    <3>2. Total(size, c - 1) = Cardinality(UpToBucket(c - 1)) /\ c \in 0..K /\ c - 1 \in 0..K
      <4> HIDE DEF In, UpToBucket
      <4> QED BY <1>1, <2>2
    <3>3. UpToBucket(c) = UpToBucket(c - 1) \cup In(c) /\ UpToBucket(c - 1) \cap In(c) = {}
      BY <1>1, <1>4
    <3>4. size[c] = Cardinality(In(c)) /\ IsFiniteSet(In(c)) /\ IsFiniteSet(UpToBucket(c - 1))
      BY <1>8, <1>10, <3>2
    <3> HIDE DEF In, UpToBucket
    <3>5. Cardinality(UpToBucket(c)) = Cardinality(UpToBucket(c - 1)) + Cardinality(In(c))
      <4>1. /\ Cardinality(UpToBucket(c - 1) \cup In(c)) =
                 Cardinality(UpToBucket(c - 1)) + Cardinality(In(c))
                 - Cardinality(UpToBucket(c - 1) \cap In(c))
            /\ Cardinality(UpToBucket(c - 1)) \in Nat /\ Cardinality(In(c)) \in Nat
        BY <3>4, FS_Union, FS_CardinalityType
      <4>2. Cardinality({}) = 0
        BY FS_EmptySet
      <4>3. Cardinality(UpToBucket(c - 1) \cap In(c)) = 0
        BY <3>3, <4>2
      <4> QED BY <3>3, <4>1, <4>3
    <3> QED BY <3>1, <3>2, <3>4, <3>5
  <2>3. NextHas(H, K)
    BY <2>2 DEF NextHas
  <2> HIDE DEF H
  <2> QED BY <1>1, <2>1, <2>3, ReachesAll
<1>12. UpToBucket(K) = 1..N
  BY <1>1, <1>4
<1>13. Total(size, K) = N
  <2> HIDE DEF UpToBucket
  <2> QED BY <1>9, <1>11, <1>12
<1>15. /\ DOMAIN b = 1..K /\ \A c \in 1..K : b[c] \in Seq(SUBSET Bit)
       /\ size \in Seq(Nat) /\ Len(size) = K /\ Total(size, K) = Len(data)
  BY <1>2, <1>5, <1>6, <1>8, <1>13
<1>16. Parted(b, size, data, K)
  BY <1>15, Zenon DEF Parted
<1> HIDE DEF In, UpToBucket
<1> QED BY <1>7, <1>16, Zenon

LEMMA FirstLevelIs ==
    ASSUME NEW n \in Nat \ {0}
    PROVE  FirstLevel(n) \in 1..n
<1> DEFINE S == {r \in 0..n : r * r <= n}
<1>1. 0 \in S
  OBVIOUS
<1>2. Max(S) \in S
  <2>1. S \in SUBSET Nat /\ S # {} /\ \A x \in S : x <= n
    BY <1>1
  <2>2. \E x \in S : \A y \in S : x >= y
    <3>1. \E x \in S : \A y \in S : y <= x
      <4> HIDE DEF S
      <4> QED BY <2>1, GreatestElement
    <3> QED BY <3>1
  <2> HIDE DEF S
  <2> QED BY <2>2, Zenon DEF Max
<1>3. Isqrt(n) \in 0..n
  BY <1>2 DEF Isqrt
<1> QED BY <1>3 DEF FirstLevel

LEMMA RecenteredTypes ==
    ASSUME NEW data, NEW assignment, NEW k \in Nat
    PROVE  LET C == Recentered(data, assignment, k) IN
           /\ C \in Seq(SUBSET Bit) /\ Len(C) = k
           /\ \A c \in 1..k : C[c] = Majority({n \in DOMAIN data : assignment[n] = c}, data)
<1>1. PICK C : C = Recentered(data, assignment, k)
  OBVIOUS
<1>2. \A points : Majority(points, data) \in SUBSET Bit
  BY DEF Majority
<1>3. \A c \in 1..k : C[c] = Majority({n \in DOMAIN data : assignment[n] = c}, data)
  BY <1>1 DEF Recentered
<1>4. C \in [1..k -> SUBSET Bit]
  BY <1>1, <1>2 DEF Recentered
<1>5. C \in Seq(SUBSET Bit)
  BY <1>4, SeqDef
<1>6. Len(C) \in Nat /\ 1..k = 1..Len(C)
  BY <1>4, <1>5, LenProperties
<1> QED BY <1>1, <1>3, <1>5, <1>6

LEMMA CostTypes ==
    ASSUME NEW data \in Seq(SUBSET Bit), NEW C \in Seq(SUBSET Bit), C # <<>>, NEW N, N = Len(data)
    PROVE  LET far == [n \in 1..N |-> ToNearest(data[n], C)] IN
           far \in Seq(Nat) /\ Len(far) = N /\ Cost(data, C) = Total(far, N) /\ Cost(data, C) \in Nat
<1>1. N \in Nat /\ DOMAIN data = 1..N /\ \A i \in 1..N : data[i] \in SUBSET Bit
  <2>1. Len(data) \in Nat /\ DOMAIN data = 1..Len(data)
    BY LenProperties
  <2> QED BY <2>1, ElementOfSeq
<1>2. PICK far : far = [n \in 1..N |-> ToNearest(data[n], C)]
  OBVIOUS
<1>3. far \in [1..N -> Nat]
  BY <1>1, <1>2, AssignIs
<1>4. far \in Seq(Nat)
  BY <1>1, <1>3, SeqDef
<1>5. Len(far) \in Nat /\ 1..N = 1..Len(far)
  BY <1>3, <1>4, LenProperties
<1>6. Len(far) = N
  BY <1>1, <1>5
<1>7. Cost(data, C) = Total(far, N)
  BY <1>1, <1>2 DEF Cost
<1>8. Total(far, N) \in Nat
  <2>1. N \in 0..Len(far)
    BY <1>1, <1>6
  <2> QED BY <1>4, <2>1, TotalSteps
<1> QED BY <1>2, <1>4, <1>6, <1>7, <1>8

-----------------------------------------------------------------------------
(* Clusterings, and how many centroids those of a sequence are asked for.   *)

Tasks == [first : BOOLEAN, data : Seq(SUBSET Bit), k : Nat, centroids : Seq(SUBSET Bit),
          distance : Nat, round : 0..MaxIter, settled : BOOLEAN]

Ks(t) == [i \in 1..Len(t) |-> t[i].k]
Asked(t) == Total(Ks(t), Len(t))

LEMMA KsIs ==
    ASSUME NEW t \in Seq(Tasks)
    PROVE  /\ Ks(t) \in Seq(Nat) /\ Len(Ks(t)) = Len(t) /\ Len(t) \in Nat /\ Asked(t) \in Nat
           /\ \A i \in 1..Len(t) : t[i] \in Tasks /\ t[i].k \in Nat /\ Ks(t)[i] = t[i].k
<1>1. PICK N \in Nat : N = Len(t) /\ \A i \in 1..N : t[i] \in Tasks
  <2>1. Len(t) \in Nat /\ DOMAIN t = 1..Len(t)
    BY LenProperties
  <2> QED BY <2>1, ElementOfSeq
<1>2. \A i \in 1..N : t[i].k \in Nat
  BY <1>1 DEF Tasks
<1>3. PICK f : f = Ks(t)
  OBVIOUS
<1>4. f \in [1..N -> Nat] /\ \A i \in 1..N : f[i] = t[i].k
  BY <1>1, <1>2, <1>3 DEF Ks
<1>5. f \in Seq(Nat)
  BY <1>4, SeqDef
<1>6. Len(f) \in Nat /\ 1..N = 1..Len(f)
  BY <1>4, <1>5, LenProperties
<1>7. Len(f) = N
  BY <1>6
<1>8. Total(f, N) \in Nat
  <2>1. N \in 0..Len(f)
    BY <1>7
  <2> QED BY <1>5, <2>1, TotalSteps
<1> QED BY <1>1, <1>2, <1>3, <1>4, <1>5, <1>7, <1>8 DEF Asked

LEMMA AskedAppend ==
    ASSUME NEW t \in Seq(Tasks), NEW x \in Tasks
    PROVE  Asked(Append(t, x)) = Asked(t) + x.k /\ Append(t, x) \in Seq(Tasks)
<1>1. PICK N \in Nat : N = Len(t)
  BY LenProperties
<1>2. PICK s : s = Append(t, x)
  OBVIOUS
<1>3. s \in Seq(Tasks) /\ Len(s) = N + 1 /\ s[N + 1] = x /\ \A i \in 1..N : s[i] = t[i]
  BY <1>1, <1>2, AppendAdds
<1>4. /\ Ks(s) \in Seq(Nat) /\ Len(Ks(s)) = N + 1
      /\ \A i \in 1..(N + 1) : Ks(s)[i] = s[i].k
  BY <1>3, KsIs
<1>5. Ks(t) \in Seq(Nat) /\ Len(Ks(t)) = N /\ \A i \in 1..N : Ks(t)[i] = t[i].k
  BY <1>1, KsIs
<1>6. Total(Ks(s), N) = Total(Ks(t), N)
  <2>1. N <= Len(Ks(s)) /\ N <= Len(Ks(t))
    BY <1>4, <1>5
  <2>2. \A i \in 1..N : i \in 1..(N + 1)
    BY <1>1
  <2>3. PICK f, h : f = Ks(s) /\ h = Ks(t)
    OBVIOUS
  <2>4. f \in Seq(Nat) /\ h \in Seq(Nat) /\ N <= Len(f) /\ N <= Len(h) /\ \A i \in 1..N : f[i] = h[i]
    <3>1. \A i \in 1..N : f[i] = s[i].k /\ h[i] = t[i].k /\ s[i] = t[i]
      BY <1>3, <1>4, <1>5, <2>2, <2>3
    <3> QED BY <1>4, <1>5, <2>1, <2>3, <3>1
  <2>5. Total(f, N) = Total(h, N)
    BY <2>4, TotalSame
  <2> QED BY <2>3, <2>5
<1>7. Total(Ks(s), N + 1) = Total(Ks(s), N) + x.k
  <2>1. N + 1 \in 1..(N + 1) /\ (N + 1) - 1 = N
    OBVIOUS
  <2>2. Total(Ks(s), N + 1) = Total(Ks(s), (N + 1) - 1) + Ks(s)[N + 1]
    BY <1>4, <2>1, TotalSteps
  <2> QED BY <1>3, <1>4, <2>1, <2>2
<1> QED BY <1>1, <1>2, <1>3, <1>6, <1>7 DEF Asked

LEMMA AskedTail ==
    ASSUME NEW t \in Seq(Tasks)
    PROVE  /\ t = <<>> => Asked(t) = 0
           /\ t # <<>> => /\ Head(t) \in Tasks /\ Head(t) = t[1] /\ Tail(t) \in Seq(Tasks)
                          /\ Asked(t) = Head(t).k + Asked(Tail(t))
                          /\ \A i \in 1..Len(Tail(t)) : i + 1 \in 1..Len(t) /\ Tail(t)[i] = t[i + 1]
<1>1. PICK N \in Nat : N = Len(t)
  BY LenProperties
<1>2. /\ Ks(t) \in Seq(Nat) /\ Len(Ks(t)) = N
      /\ \A i \in 1..N : t[i] \in Tasks /\ t[i].k \in Nat /\ Ks(t)[i] = t[i].k
  BY <1>1, KsIs
<1>3. Total(Ks(t), 0) = 0
  BY <1>2, TotalSteps
<1>4. CASE t = <<>>
  <2>1. N = 0
    BY <1>1, <1>4, EmptySeq
  <2> QED BY <1>1, <1>3, <1>4, <2>1 DEF Asked
<1>5. CASE t # <<>>
  <2>1. PICK s, m : s = Tail(t) /\ m = N - 1
    OBVIOUS
  <2>2. N # 0 /\ m \in Nat /\ N = m + 1
    BY <1>1, <1>5, <2>1, EmptySeq
  <2>3. s \in Seq(Tasks) /\ Len(s) = m /\ \A i \in 1..m : s[i] = t[i + 1]
    BY <1>1, <1>5, <2>1, HeadTailProperties
  <2>4. Head(t) = t[1] /\ 1 \in 1..N /\ \A i \in 1..m : i + 1 \in 1..N
    BY <1>5, <2>2, HeadTailProperties
  <2>5. Ks(s) \in Seq(Nat) /\ Len(Ks(s)) = m /\ \A i \in 1..m : Ks(s)[i] = s[i].k
    BY <2>3, KsIs
  <2> DEFINE K == {i \in 0..m : Total(Ks(t), i + 1) = t[1].k + Total(Ks(s), i)}
  <2>6. m \in K
    <3>1. 0 \in K
      <4>1. Total(Ks(s), 0) = 0
        BY <2>5, TotalSteps
      <4>2. Total(Ks(t), 1) = Total(Ks(t), 1 - 1) + Ks(t)[1]
        BY <1>2, <2>4, TotalSteps
      <4>3. Ks(t)[1] = t[1].k /\ t[1].k \in Nat /\ 1 - 1 = 0 /\ 0 + 1 = 1 /\ 0 \in 0..m
        BY <1>2, <2>2, <2>4
      <4> QED BY <1>3, <4>1, <4>2, <4>3
    <3>2. ASSUME NEW i \in 1..m, i - 1 \in K PROVE i \in K
      <4>1. i + 1 \in 1..N /\ (i + 1) - 1 = i /\ (i - 1) + 1 = i /\ i \in 0..m
            /\ i - 1 \in 0..m /\ i \in 0..N
        BY <2>2
      <4>2. Total(Ks(t), i + 1) = Total(Ks(t), (i + 1) - 1) + Ks(t)[i + 1]
        BY <1>2, <4>1, TotalSteps
      <4>3. Total(Ks(s), i) = Total(Ks(s), i - 1) + Ks(s)[i]
        BY <2>5, TotalSteps
      <4>4. Ks(t)[i + 1] = Ks(s)[i] /\ Ks(s)[i] \in Nat
        BY <1>2, <2>3, <2>5, <4>1
      <4>5. Total(Ks(t), i) = t[1].k + Total(Ks(s), i - 1)
        BY <3>2, <4>1
      <4>6. Total(Ks(s), i - 1) \in Nat /\ t[1].k \in Nat
        BY <1>2, <2>4, <2>5, <4>1, TotalSteps
      <4>7. Total(Ks(t), i + 1) = t[1].k + Total(Ks(s), i)
        BY <4>1, <4>2, <4>3, <4>4, <4>5, <4>6
      <4> QED BY <4>1, <4>7
    <3>3. NextHas(K, m)
      BY <3>2 DEF NextHas
    <3> HIDE DEF K
    <3> QED BY <2>2, <3>1, <3>3, ReachesAll
  <2>7. Asked(t) = t[1].k + Asked(s)
    BY <1>1, <2>2, <2>3, <2>6 DEF Asked
  <2> QED BY <1>1, <1>2, <1>5, <2>1, <2>3, <2>4, <2>7
<1> QED BY <1>4, <1>5

\* Leaving out clusterings that are asked for nothing changes nothing.
LEMMA AskedParts ==
    ASSUME NEW s \in Seq(Tasks), NEW P, \A i \in 1..Len(s) : i \notin P => s[i].k = 0
    PROVE  AtPositions(s, P) \in Seq(Tasks) /\ Asked(AtPositions(s, P)) = Asked(s)
<1>1. PICK N \in Nat : N = Len(s)
  BY LenProperties
<1>2. PICK u \in [0..N -> Seq(Tasks)] : Collects(u, s, P, N)
  BY <1>1, AtPositionsSteps
<1>3. /\ u[0] = <<>> /\ AtPositions(s, P) = u[N]
      /\ \A n \in 1..N : u[n] = IF n \in P THEN Append(u[n - 1], s[n]) ELSE u[n - 1]
  BY <1>2 DEF Collects
<1>4. /\ Ks(s) \in Seq(Nat) /\ Len(Ks(s)) = N
      /\ \A i \in 1..N : s[i] \in Tasks /\ s[i].k \in Nat /\ Ks(s)[i] = s[i].k
  BY <1>1, KsIs
<1> DEFINE K == {n \in 0..N : Asked(u[n]) = Total(Ks(s), n)}
<1>5. N \in K
  <2>1. 0 \in K
    <3>1. Asked(<<>>) = 0
      BY EmptySeq, AskedTail
    <3>2. Total(Ks(s), 0) = 0 /\ 0 \in 0..N
      BY <1>1, <1>4, TotalSteps
    <3> QED BY <1>3, <3>1, <3>2
  <2>2. ASSUME NEW n \in 1..N, n - 1 \in K PROVE n \in K
    <3>1. Total(Ks(s), n) = Total(Ks(s), n - 1) + Ks(s)[n]
      BY <1>4, TotalSteps
    <3>2. n \in 0..N /\ n - 1 \in 0..N
      BY <1>1
    <3>3. PICK t \in Seq(Tasks) : t = u[n - 1]
      BY <1>2, <3>2
    <3>4. Asked(t) = Total(Ks(s), n - 1) /\ Asked(t) \in Nat
      BY <2>2, <3>3, KsIs
    <3>5. CASE n \in P
      <4>1. u[n] = Append(t, s[n])
        BY <1>3, <3>3, <3>5
      <4>2. Asked(u[n]) = Asked(t) + s[n].k
        BY <1>4, <4>1, AskedAppend
      <4>3. Asked(u[n]) = Total(Ks(s), n)
        BY <1>4, <3>1, <3>4, <4>2
      <4> QED BY <3>2, <4>3
    <3>6. CASE n \notin P
      <4>1. u[n] = t /\ s[n].k = 0
        BY <1>1, <1>3, <3>3, <3>6
      <4>2. Asked(u[n]) = Total(Ks(s), n)
        BY <1>4, <3>1, <3>4, <4>1, SMTT(40)
      <4> QED BY <3>2, <4>2
    <3> QED BY <3>5, <3>6
  <2>3. NextHas(K, N)
    BY <2>2 DEF NextHas
  <2> HIDE DEF K
  <2> QED BY <1>1, <2>1, <2>3, ReachesAll
<1>6. Asked(u[N]) = Asked(s) /\ u[N] \in Seq(Tasks)
  <2>1. N \in 0..N
    BY <1>1
  <2> QED BY <1>1, <1>2, <1>5, <2>1 DEF Asked
<1> QED BY <1>3, <1>6

-----------------------------------------------------------------------------
(* The course of a clustering.                                             *)

Fresh(t) == t.round = 0 /\ ~t.settled /\ t.centroids = <<>>

\* A clustering has as many vectors as it is asked for centroids, unless it is
\* the only one: all of the sample, asked for all lists.
Room(t, data, nlist) ==
    t.k # 0 /\ (t.k <= Len(t.data) \/ (t.data = data /\ t.k = nlist))

Waits(t, data, nlist) == Fresh(t) /\ ~t.first /\ Room(t, data, nlist)

Short == opts.init = "random" /\ Len(sample) < opts.nlist

Typed ==
    /\ images \in Catalog /\ opts \in Options
    /\ pc \in {"idle", "seed", "iterate", "index", "rename", "panicked"}
    /\ sample \in Seq(SUBSET Bit) /\ result \in Seq(SUBSET Bit)
    /\ task \in Tasks /\ todo \in Seq(Tasks)
    /\ trainings \in 0..MaxTrainings

Running ==
    /\ Room(task, sample, opts.nlist)
    /\ \A i \in 1..Len(todo) : Waits(todo[i], sample, opts.nlist)
    /\ TwoLevel(sample) /\ task.first => result = <<>>
    /\ TwoLevel(sample) /\ ~task.first => Len(result) + task.k + Asked(todo) = opts.nlist

Phases ==
    /\ pc = "idle" => result = <<>> /\ todo = <<>>
    /\ pc \in {"seed", "iterate"} => Running
    /\ pc = "seed" => Fresh(task)
    /\ pc = "iterate" =>
          Len(task.centroids) = task.k \/ (Short /\ task.round = 0 /\ ~task.settled)
    /\ pc = "panicked" => Short

LEMMA NewTaskIs ==
    ASSUME NEW first \in BOOLEAN, NEW data \in Seq(SUBSET Bit), NEW k \in Nat
    PROVE  LET t == NewTask(first, data, k) IN
           t \in Tasks /\ Fresh(t) /\ t.first = first /\ t.data = data /\ t.k = k
<1>1. PICK z \in Seq(SUBSET Bit) : z = <<>>
  BY EmptySeq
<1>2. 0 \in 0..MaxIter
  BY TrainingBoundsAssumption
<1>3. NewTask(first, data, k) =
          [first |-> first, data |-> data, k |-> k, centroids |-> z, distance |-> 0,
           round |-> 0, settled |-> FALSE]
  BY <1>1 DEF NewTask
<1>4. NewTask(first, data, k) \in Tasks
  BY <1>2, <1>3 DEF Tasks
<1> QED BY <1>1, <1>3, <1>4 DEF Fresh

LEMMA OptionsAre ==
    ASSUME opts \in Options
    PROVE  /\ opts.nlist \in Nat \ {0} /\ opts.images \in Nat
           /\ opts.init # "kmeans-plus-plus" => opts.init = "random"
  BY OptionsAssumption

LEMMA SampleCountIs ==
    ASSUME images \in Catalog, opts \in Options
    PROVE  SampleCount \in Nat /\ IsImages(images)
<1>1. IsImages(images)
  BY CatalogAssumption
<1>2. PICK N \in Nat : N = Len(images) /\ DOMAIN images = 1..N
                       /\ \A n \in 1..N : images[n].count \in Nat
  <2>1. images \in Seq([count : Nat, codes : Seq(SUBSET Bit)])
    BY <1>1 DEF IsImages
  <2>2. Len(images) \in Nat /\ DOMAIN images = 1..Len(images)
    BY <2>1, LenProperties
  <2>3. \A n \in 1..Len(images) : images[n] \in [count : Nat, codes : Seq(SUBSET Bit)]
    BY <2>1, ElementOfSeq
  <2> QED BY <2>2, <2>3
<1>3. PICK f : f = [n \in 1..N |-> images[n].count]
  OBVIOUS
<1>4. f \in [1..N -> Nat]
  BY <1>2, <1>3
<1>5. f \in Seq(Nat)
  BY <1>2, <1>4, SeqDef
<1>6. Len(f) \in Nat /\ 1..N = 1..Len(f)
  BY <1>4, <1>5, LenProperties
<1>7. N \in 0..Len(f)
  BY <1>2, <1>6
<1>8. PICK total \in Nat : total = Total(f, N)
  BY <1>5, <1>7, TotalSteps
<1>9. SampleCount = IF opts.images > 0 THEN opts.images ELSE Lesser(PerCenter * opts.nlist, total)
  BY <1>2, <1>3, <1>8 DEF SampleCount
<1>10. opts.nlist \in Nat /\ opts.images \in Nat /\ PerCenter \in Nat
  BY OptionsAre, ClusterAssumption
<1>11. PerCenter * opts.nlist \in Nat
  BY <1>10
<1> QED BY <1>1, <1>8, <1>9, <1>10, <1>11 DEF Lesser

LEMMA ClustersInit ==
    ASSUME Init
    PROVE  Typed /\ Phases
<1>1. images \in Catalog /\ opts \in Options /\ pc = "idle" /\ trainings = 0
      /\ sample = <<>> /\ result = <<>> /\ todo = <<>> /\ task = NoTask
  BY DEF Init
<1>2. \A X : <<>> \in Seq(X)
  BY EmptySeq
<1>3. NoTask \in Tasks
  <2>1. <<>> \in Seq(SUBSET Bit)
    BY <1>2
  <2> QED BY <2>1, NewTaskIs DEF NoTask
<1>4. 0 \in 0..MaxTrainings
  BY TrainingBoundsAssumption
<1>5. Typed
  BY <1>1, <1>2, <1>3, <1>4 DEF Typed
<1>6. Phases
  BY <1>1 DEF Phases
<1> QED BY <1>5, <1>6

LEMMA ClustersTrain ==
    ASSUME Typed, Phases, Train
    PROVE  Typed' /\ Phases'
<1>1. PICK data : data = Export(images, SampleCount)
  OBVIOUS
<1>2. /\ pc = "idle" /\ trainings < MaxTrainings /\ trainings' = trainings + 1
      /\ UNCHANGED <<images, opts, todo, result>>
  BY DEF Train, given
<1>3. data \in Seq(SUBSET Bit)
  BY <1>1, SampleCountIs, ExportTypes DEF Typed
<1>4. trainings' \in 0..MaxTrainings
  BY <1>2, TrainingBoundsAssumption DEF Typed
<1>5. todo = <<>> /\ result = <<>>
  BY <1>2 DEF Phases
<1>6. CASE data = <<>>
  <2>1. UNCHANGED <<pc, sample, task>>
    BY <1>1, <1>6 DEF Train
  <2>2. Typed'
    BY <1>2, <1>4, <2>1 DEF Typed
  <2>3. Phases'
    BY <1>2, <1>5, <2>1 DEF Phases
  <2> QED BY <2>2, <2>3
<1>7. CASE data # <<>>
  <2>1. PICK nlist \in Nat \ {0} : nlist = opts.nlist
    BY OptionsAre DEF Typed
  <2>2. PICK nc1 \in 1..nlist : nc1 = FirstLevel(nlist)
    BY <2>1, FirstLevelIs
  <2>3. PICK t : t = task'
    OBVIOUS
  <2>4. /\ pc' = "seed" /\ sample' = data
        /\ t = IF TwoLevel(data)
               THEN NewTask(TRUE, SubSeq(data, 1, Lesser(nc1 * Subset, Len(data))), nc1)
               ELSE NewTask(FALSE, data, nlist)
    BY <1>1, <1>7, <2>1, <2>2, <2>3 DEF Train
  <2>5. PICK L \in Nat : L = Len(data)
    BY <1>3, LenProperties
  <2>6. /\ t \in Tasks /\ Fresh(t) /\ (t.first <=> TwoLevel(data)) /\ Room(t, data, nlist)
    <3>1. CASE TwoLevel(data)
      <4>1. PICK m : m = Lesser(nc1 * Subset, L)
        OBVIOUS
      <4>2. nc1 <= L
        <5>1. opts.twoLevel /\ PerCenter * nlist <= L
          BY <2>1, <2>5, <3>1 DEF TwoLevel
        <5>2. nlist <= PerCenter * nlist
          <6>1. PICK p \in Nat : PerCenter = p + 1
            <7>1. PerCenter - 1 \in Nat /\ PerCenter = (PerCenter - 1) + 1
              BY ClusterAssumption
            <7> QED BY <7>1
          <6>2. (p + 1) * nlist = p * nlist + nlist /\ p * nlist \in Nat
            OBVIOUS
          <6> QED BY <6>1, <6>2
        <5> QED BY <5>1, <5>2, ClusterAssumption
      <4>3. nc1 <= m /\ m \in 0..L
        <5>1. nc1 <= nc1 * Subset /\ nc1 * Subset \in Nat
          <6>1. PICK p \in Nat : Subset = p + 1
            <7>1. Subset - 1 \in Nat /\ Subset = (Subset - 1) + 1
              BY ClusterAssumption
            <7> QED BY <7>1
          <6>2. nc1 * (p + 1) = nc1 * p + nc1 /\ nc1 * p \in Nat
            OBVIOUS
          <6> QED BY <6>1, <6>2
        <5> QED BY <4>1, <4>2, <5>1 DEF Lesser
      <4>4. PICK part : part = SubSeq(data, 1, m)
        OBVIOUS
      <4>5. part \in Seq(SUBSET Bit) /\ Len(part) = m
        BY <1>3, <2>5, <4>3, <4>4, SubSeqProperties
      <4>6. t = NewTask(TRUE, part, nc1)
        BY <2>4, <2>5, <3>1, <4>1, <4>4
      <4>7. t \in Tasks /\ Fresh(t) /\ t.first = TRUE /\ t.data = part /\ t.k = nc1
        <5>1. nc1 \in Nat
          OBVIOUS
        <5>2. LET u == NewTask(TRUE, part, nc1) IN
              u \in Tasks /\ Fresh(u) /\ u.first = TRUE /\ u.data = part /\ u.k = nc1
          BY <4>5, <5>1, NewTaskIs, ZenonT(60)
        <5> QED BY <4>6, <5>2
      <4>8. Room(t, data, nlist)
        BY <4>3, <4>5, <4>7 DEF Room
      <4> QED BY <3>1, <4>7, <4>8
    <3>2. CASE ~TwoLevel(data)
      <4>1. t = NewTask(FALSE, data, nlist)
        BY <2>4, <3>2
      <4>2. t \in Tasks /\ Fresh(t) /\ ~t.first /\ t.data = data /\ t.k = nlist
        <5>1. PICK first \in BOOLEAN : first = FALSE
          OBVIOUS
        <5>2. nlist \in Nat /\ t = NewTask(first, data, nlist)
          BY <4>1, <5>1
        <5>3. t \in Tasks /\ Fresh(t) /\ t.first = first /\ t.data = data /\ t.k = nlist
          BY <1>3, <5>2, NewTaskIs, SMTT(40)
        <5> QED BY <5>1, <5>3
      <4>3. Room(t, data, nlist)
        BY <2>1, <4>2 DEF Room
      <4> QED BY <3>2, <4>2, <4>3
    <3> QED BY <3>1, <3>2
  <2>7. Typed'
    BY <1>2, <1>3, <1>4, <2>3, <2>4, <2>6 DEF Typed
  <2>8. Running'
    <3>1. Room(task', sample', opts'.nlist)
      BY <1>2, <2>1, <2>3, <2>4, <2>6
    <3>2. \A i \in 1..Len(todo') : FALSE
      BY <1>2, <1>5, EmptySeq
    <3>3. TwoLevel(sample)' <=> task'.first
      BY <1>2, <2>3, <2>4, <2>6 DEF TwoLevel
    <3> QED BY <1>2, <1>5, <3>1, <3>2, <3>3 DEF Running
  <2>9. Phases'
    BY <2>3, <2>4, <2>6, <2>8 DEF Phases
  <2> QED BY <2>7, <2>9
<1> QED BY <1>6, <1>7

\* What follows the clustering that ends: the first of the parts, or the end if
\* there are as many centroids as lists.
LEMMA NextPartKeeps ==
    ASSUME NEW parts \in Seq(Tasks), NEW centroids, Len(centroids) \in Nat,
           NEW data, NEW n \in Nat, n = opts.nlist,
           \A i \in 1..Len(parts) : Waits(parts[i], data, n),
           Len(centroids) + Asked(parts) = n, NextPart(parts, centroids), task \in Tasks
    PROVE  /\ task' \in Tasks /\ todo' \in Seq(Tasks) /\ pc' \in {"seed", "index"}
           /\ pc' = "seed" => /\ Waits(task', data, n)
                              /\ \A i \in 1..Len(todo') : Waits(todo'[i], data, n)
                              /\ Len(centroids) + task'.k + Asked(todo') = n
<1>1. CASE parts = <<>>
  <2>1. todo' = <<>> /\ task' = task /\ Asked(parts) = 0
    BY <1>1, AskedTail DEF NextPart
  <2>2. Len(centroids) = opts.nlist
    BY <2>1
  <2>3. pc' = "index"
    BY <1>1, <2>2 DEF NextPart
  <2> QED BY <2>1, <2>3, EmptySeq
<1>2. CASE parts # <<>>
  <2>1. todo' = Tail(parts) /\ task' = Head(parts) /\ pc' = "seed"
    BY <1>2 DEF NextPart
  <2>2. /\ Head(parts) \in Tasks /\ Head(parts) = parts[1] /\ Tail(parts) \in Seq(Tasks)
        /\ Asked(parts) = Head(parts).k + Asked(Tail(parts))
        /\ \A i \in 1..Len(Tail(parts)) : i + 1 \in 1..Len(parts) /\ Tail(parts)[i] = parts[i + 1]
    BY <1>2, AskedTail
  <2>3. 1 \in 1..Len(parts)
    BY <1>2, EmptySeq, LenProperties
  <2>4. Waits(task', data, n)
    BY <2>1, <2>2, <2>3
  <2>5. \A i \in 1..Len(todo') : Waits(todo'[i], data, n)
    BY <2>1, <2>2
  <2>6. Len(centroids) + task'.k + Asked(todo') = n
    <3>1. task'.k \in Nat /\ Asked(todo') \in Nat
      BY <2>1, <2>2, KsIs DEF Tasks
    <3> QED BY <2>1, <2>2, <3>1
  <2> QED BY <2>1, <2>2, <2>4, <2>5, <2>6
<1> QED BY <1>1, <1>2

LEMMA ClustersSeed ==
    ASSUME Typed, Phases, Seed
    PROVE  Typed' /\ Phases'
<1>1. /\ pc = "seed" /\ pc' = "iterate"
      /\ UNCHANGED <<images, opts, sample, todo, result, trainings>>
  BY DEF Seed, given
<1>2. PICK seeds \in Seeds(task.data, task.k, opts.init) : task' = [task EXCEPT !.centroids = seeds]
  BY DEF Seed
<1>3. task \in Tasks /\ Fresh(task) /\ Running
  BY <1>1 DEF Typed, Phases
<1>4. seeds \in Seq(SUBSET Bit)
      /\ (Len(seeds) = task.k \/ (opts.init # "kmeans-plus-plus" /\ Len(task.data) < task.k))
  <2>1. task.data \in Seq(SUBSET Bit) /\ task.k \in Nat
    BY <1>3 DEF Tasks
  <2> QED BY <2>1, SeedsTypes
<1>5. /\ task' \in Tasks /\ task'.centroids = seeds /\ task'.k = task.k /\ task'.data = task.data
      /\ task'.first = task.first /\ task'.round = task.round /\ task'.settled = task.settled
  BY <1>2, <1>3, <1>4 DEF Tasks
<1>6. Typed'
  BY <1>1, <1>5 DEF Typed
<1>7. Running'
  BY <1>1, <1>3, <1>5 DEF Running, Room, TwoLevel
<1>8. Len(seeds) = task.k \/ Short
  <2> SUFFICES ASSUME opts.init # "kmeans-plus-plus", Len(task.data) < task.k PROVE Short
    BY <1>4
  <2>1. task.data = sample /\ task.k = opts.nlist
    <3>1. Len(task.data) \in Nat /\ task.k \in Nat
      BY <1>3, LenProperties DEF Tasks
    <3> QED BY <1>3, <3>1 DEF Running, Room
  <2> QED BY <2>1, OptionsAre DEF Short, Typed
<1>9. Phases'
  BY <1>1, <1>3, <1>5, <1>7, <1>8 DEF Phases, Fresh, Short
<1> QED BY <1>6, <1>9

LEMMA ClustersIterate ==
    ASSUME Typed, Phases, Iterate
    PROVE  Typed' /\ Phases'
<1>1. pc = "iterate" /\ UNCHANGED <<images, opts, sample, todo, result, trainings>>
  BY DEF Iterate, given
<1>2. PICK now : now = Cost(task.data, task.centroids)
  OBVIOUS
<1>3. task \in Tasks /\ Running /\ task.round < MaxIter
      /\ (Len(task.centroids) = task.k \/ (Short /\ task.round = 0 /\ ~task.settled))
  BY <1>1 DEF Typed, Phases, Iterate
<1>4. /\ task.k \in Nat \ {0} /\ task.centroids \in Seq(SUBSET Bit) /\ task.data \in Seq(SUBSET Bit)
      /\ Len(task.centroids) \in Nat
  BY <1>3, LenProperties DEF Tasks, Running, Room
<1>5. CASE task.round # 0 /\ task' = [task EXCEPT !.settled = TRUE] /\ UNCHANGED pc
  <2>1. /\ task' \in Tasks /\ task'.centroids = task.centroids /\ task'.k = task.k
        /\ task'.data = task.data /\ task'.first = task.first
    BY <1>3, <1>5 DEF Tasks
  <2>2. Typed'
    BY <1>1, <1>5, <2>1 DEF Typed
  <2>3. Running'
    BY <1>1, <1>3, <2>1 DEF Running, Room, TwoLevel
  <2> QED BY <1>1, <1>3, <1>5, <2>1, <2>2, <2>3 DEF Phases
<1>6. CASE Len(task.centroids) < task.k /\ pc' = "panicked" /\ UNCHANGED task
  <2>1. Short
    BY <1>3, <1>4, <1>6
  <2>2. Typed'
    BY <1>1, <1>6 DEF Typed
  <2> QED BY <1>1, <1>6, <2>1, <2>2 DEF Phases, Short
<1>7. CASE /\ Len(task.centroids) >= task.k /\ UNCHANGED pc
           /\ task' = [task EXCEPT
                 !.distance = now,
                 !.centroids = Recentered(task.data, Assigned(task.data, @), task.k),
                 !.round = @ + 1]
  <2>1. PICK C : C = Recentered(task.data, Assigned(task.data, task.centroids), task.k)
    OBVIOUS
  <2>2. C \in Seq(SUBSET Bit) /\ Len(C) = task.k
    BY <1>4, <2>1, RecenteredTypes
  <2>3. now \in Nat
    <3>1. task.centroids # <<>>
      BY <1>4, <1>7, EmptySeq
    <3> QED BY <1>2, <1>4, <3>1, CostTypes
  <2>4. task' = [task EXCEPT !.distance = now, !.centroids = C, !.round = task.round + 1]
    BY <1>7, <2>1
  <2>5. task.round + 1 \in 0..MaxIter
    BY <1>3, TrainingBoundsAssumption DEF Tasks
  <2>6. /\ task' \in Tasks /\ task'.centroids = C /\ task'.k = task.k
        /\ task'.data = task.data /\ task'.first = task.first
    BY <1>3, <2>2, <2>3, <2>4, <2>5 DEF Tasks
  <2>7. Typed'
    BY <1>1, <1>7, <2>6 DEF Typed
  <2>8. Running'
    BY <1>1, <1>3, <2>6 DEF Running, Room, TwoLevel
  <2> QED BY <1>1, <1>7, <2>2, <2>6, <2>7, <2>8 DEF Phases
<1> QED BY <1>2, <1>5, <1>6, <1>7 DEF Iterate

LEMMA ClusteredIs ==
    ASSUME Typed, Phases, Clustered
    PROVE  /\ pc = "iterate" /\ task \in Tasks /\ Running /\ Len(task.centroids) = task.k
           /\ task.k \in Nat \ {0} /\ task.centroids \in Seq(SUBSET Bit) /\ task.centroids # <<>>
<1>1. pc = "iterate" /\ (task.settled \/ task.round = MaxIter)
  BY DEF Clustered
<1>2. task \in Tasks /\ Running
      /\ (Len(task.centroids) = task.k \/ (task.round = 0 /\ ~task.settled))
  BY <1>1 DEF Typed, Phases
<1>3. Len(task.centroids) = task.k
  BY <1>1, <1>2, TrainingBoundsAssumption
<1>4. task.k \in Nat \ {0} /\ task.centroids \in Seq(SUBSET Bit)
  BY <1>2 DEF Tasks, Running, Room
<1>5. task.centroids # <<>>
  BY <1>3, <1>4, EmptySeq
<1> QED BY <1>1, <1>2, <1>3, <1>4, <1>5

LEMMA ClustersEndOnly ==
    ASSUME Typed, Phases, EndOnly
    PROVE  Typed' /\ Phases'
<1>1. task.centroids \in Seq(SUBSET Bit)
  BY ClusteredIs DEF EndOnly
<1>2. /\ result' = task.centroids /\ pc' = "index"
      /\ UNCHANGED <<images, opts, sample, task, todo, trainings>>
  BY DEF EndOnly, given, clustering
<1>3. Typed'
  BY <1>1, <1>2 DEF Typed
<1> QED BY <1>2, <1>3 DEF Phases


LEMMA FunctionIsSeq ==
    ASSUME NEW N \in Nat, NEW X, NEW f \in [1..N -> X]
    PROVE  f \in Seq(X) /\ Len(f) = N
<1>1. f \in Seq(X)
  BY SeqDef
<1>2. Len(f) \in Nat /\ 1..N = 1..Len(f)
  BY <1>1, LenProperties
<1> QED BY <1>1, <1>2

IsPart(t, data, k) ==
    t \in Tasks /\ Fresh(t) /\ ~t.first /\ t.data = data /\ t.k = k

LEMMA PartIs ==
    ASSUME NEW data \in Seq(SUBSET Bit), NEW k \in Nat
    PROVE  IsPart(NewTask(FALSE, data, k), data, k)
<1>1. PICK first \in BOOLEAN : first = FALSE
  OBVIOUS
<1>2. PICK t : t = NewTask(first, data, k)
  OBVIOUS
<1>3. t \in Tasks /\ Fresh(t) /\ t.first = first /\ t.data = data /\ t.k = k
  BY <1>2, NewTaskIs
<1>4. IsPart(t, data, k)
  BY <1>1, <1>3 DEF IsPart
<1> QED BY <1>1, <1>2, <1>4, Zenon

TasksOf(b, share, K) == [c \in 1..K |-> NewTask(FALSE, b[c], share[c])]

LEMMA PartsExist ==
    ASSUME NEW K \in Nat, NEW b, NEW share,
           \A c \in 1..K : b[c] \in Seq(SUBSET Bit) /\ share[c] \in Nat,
           NEW s, s = TasksOf(b, share, K)
    PROVE  s \in Seq(Tasks) /\ Len(s) = K /\ \A c \in 1..K : IsPart(s[c], b[c], share[c])
<1>1. \A c \in 1..K : IsPart(s[c], b[c], share[c])
  <2> SUFFICES ASSUME NEW c \in 1..K PROVE IsPart(s[c], b[c], share[c])
    OBVIOUS
  <2>1. s[c] = NewTask(FALSE, b[c], share[c])
    BY Zenon DEF TasksOf
  <2>2. IsPart(NewTask(FALSE, b[c], share[c]), b[c], share[c])
    BY PartIs, Zenon
  <2> QED BY <2>1, <2>2, Zenon
<1>2. s \in [1..K -> Tasks]
  <2>1. \A c \in 1..K : s[c] \in Tasks
    BY <1>1, Zenon DEF IsPart
  <2>2. DOMAIN s = 1..K /\ s = [c \in 1..K |-> s[c]]
    BY Zenon DEF TasksOf
  <2> QED BY <2>1, <2>2, Zenon
<1>3. PICK t : t = s
  OBVIOUS
<1>4. t \in Seq(Tasks) /\ Len(t) = K
  <2>1. t \in [1..K -> Tasks] /\ K \in Nat
    BY <1>2, <1>3, Zenon
  <2> QED BY <2>1, FunctionIsSeq
<1> QED BY <1>1, <1>3, <1>4, Zenon

Sizes(b) == [c \in DOMAIN b |-> Len(b[c])]
Parts(b, share) ==
    AtPositions([c \in DOMAIN b |-> NewTask(FALSE, b[c], share[c])],
                {c \in DOMAIN share : share[c] > 0})

\* The parts of the second level ask for all the lists, and none for more
\* centroids than it has vectors.
LEMMA PartsAre ==
    ASSUME NEW data \in Seq(SUBSET Bit), NEW C \in Seq(SUBSET Bit), C # <<>>,
           NEW n \in Nat \ {0}, n <= Len(data), NEW b, b = Buckets(data, C),
           NEW share, share = Shares(Sizes(b), n), NEW parts, parts = Parts(b, share)
    PROVE  /\ parts \in Seq(Tasks) /\ Asked(parts) = n
           /\ \A i \in 1..Len(parts) : Waits(parts[i], data, n)
<1>1. PICK K : K = Len(C)
  OBVIOUS
<1>2. PICK size : size = [c \in 1..K |-> Len(b[c])]
  OBVIOUS
<1>3. K \in Nat
  BY <1>1, LenProperties
<1>6. Parted(b, size, data, K)
  BY <1>1, <1>2, BucketsIs
<1>7. /\ DOMAIN b = 1..K /\ (\A c \in 1..K : b[c] \in Seq(SUBSET Bit))
      /\ size \in Seq(Nat) /\ Len(size) = K /\ Total(size, K) = Len(data)
  BY <1>6 DEF Parted
<1>8. PICK all \in Nat \ {0} : all = Len(data)
  <2>1. Len(data) \in Nat
    BY LenProperties
  <2> QED BY <2>1
<1>9. Shared(share, size, n, K)
  <2>1. size \in Seq(Nat) /\ K = Len(size) /\ n \in Nat /\ all = Total(size, K) /\ n <= all
    BY <1>7, <1>8
  <2>2. size = Sizes(b)
    BY <1>2, <1>7 DEF Sizes
  <2>3. share = Shares(size, n)
    BY <2>2
  <2> QED BY <2>1, <2>3, SharesIs
<1>10. /\ share \in Seq(Nat) /\ Len(share) = K /\ DOMAIN share = 1..K
       /\ (\A c \in 1..K : share[c] <= size[c]) /\ Total(share, K) = n
  BY <1>9 DEF Shared
<1>12. \A c \in 1..K : share[c] \in Nat
  BY <1>10, ElementOfSeq
<1>11. PICK s, P : s = TasksOf(b, share, K) /\ P = {c \in 1..K : share[c] > 0}
  OBVIOUS
<1>16. parts = AtPositions(s, P)
  BY <1>7, <1>10, <1>11 DEF Parts, TasksOf
<1>13. s \in Seq(Tasks) /\ Len(s) = K /\ \A c \in 1..K : IsPart(s[c], b[c], share[c])
  <2>1. \A c \in 1..K : b[c] \in Seq(SUBSET Bit) /\ share[c] \in Nat
    BY <1>7, <1>12
  <2> QED BY <1>3, <1>11, <2>1, PartsExist, Zenon
<1>14. PICK t : t = s
  OBVIOUS
<1>20. t \in Seq(Tasks) /\ Len(t) = K /\ parts = AtPositions(t, P)
       /\ \A c \in 1..K : IsPart(t[c], b[c], share[c]) /\ t[c].k = share[c]
  BY <1>13, <1>14, <1>16, Zenon DEF IsPart
<1>15. Asked(t) = n
  <2>1. Ks(t) \in Seq(Nat) /\ Len(Ks(t)) = K /\ \A c \in 1..K : Ks(t)[c] = t[c].k
    BY <1>20, KsIs
  <2>2. \A c \in 1..K : Ks(t)[c] = share[c]
    BY <1>20, <2>1
  <2>3. Ks(t) = share
    BY <1>10, <2>1, <2>2, SeqEqual
  <2> QED BY <1>10, <1>20, <2>3 DEF Asked
<1>18. parts \in Seq(Tasks) /\ Asked(parts) = n
  <2>1. \A i \in 1..Len(t) : i \notin P => t[i].k = 0
    BY <1>10, <1>11, <1>12, <1>20
  <2> QED BY <1>20, <1>15, <2>1, AskedParts
<1>19. \A i \in 1..Len(parts) : Waits(parts[i], data, n)
  <2> SUFFICES ASSUME NEW i \in 1..Len(parts) PROVE Waits(parts[i], data, n)
    OBVIOUS
  <2>1. PICK c \in 1..K : c \in P /\ parts[i] = t[c]
    <3>1. TakenFrom(parts, t, P)
      BY <1>20, AtPositionsIs
    <3> QED BY <1>20, <3>1 DEF TakenFrom
  <2>2. share[c] > 0 /\ share[c] <= Len(b[c])
    BY <1>2, <1>10, <1>11, <2>1
  <2>3. Room(t[c], data, n)
    BY <1>12, <1>20, <2>2 DEF Room, IsPart
  <2> QED BY <1>20, <2>1, <2>3 DEF Waits, IsPart
<1> QED BY <1>18, <1>19

LEMMA ClustersEndFirst ==
    ASSUME Typed, Phases, EndFirst
    PROVE  Typed' /\ Phases'
<1>1. /\ Clustered /\ TwoLevel(sample) /\ task.first
      /\ UNCHANGED <<images, opts, sample, result, trainings>>
  BY DEF EndFirst, given
<1>2. PICK C : C = task.centroids
  OBVIOUS
<1>3. /\ pc = "iterate" /\ task \in Tasks /\ Running /\ C \in Seq(SUBSET Bit) /\ C # <<>>
  BY <1>1, <1>2, ClusteredIs
<1>4. PICK n \in Nat \ {0} : n = opts.nlist
  BY OptionsAre DEF Typed
<1>5. PICK b : b = Buckets(sample, C)
  OBVIOUS
<1>8. PICK all \in Nat \ {0} : all = Len(sample) /\ n <= all
  <2>1. Len(sample) \in Nat /\ PerCenter * n <= Len(sample)
    BY <1>1, <1>4, LenProperties DEF Typed, TwoLevel
  <2>2. n <= PerCenter * n
    <3>1. PICK p \in Nat : PerCenter = p + 1
      <4>1. PerCenter - 1 \in Nat /\ PerCenter = (PerCenter - 1) + 1
        BY ClusterAssumption
      <4> QED BY <4>1
    <3>2. (p + 1) * n = p * n + n /\ p * n \in Nat
      OBVIOUS
    <3> QED BY <3>1, <3>2
  <2>3. n <= Len(sample)
    BY <2>1, <2>2, ClusterAssumption
  <2> QED BY <2>1, <2>3
<1>9. PICK share : share = Shares(Sizes(b), n)
  OBVIOUS
<1>17. PICK parts : parts = Parts(b, share)
  OBVIOUS
<1>18. /\ parts \in Seq(Tasks) /\ Asked(parts) = n
       /\ \A i \in 1..Len(parts) : Waits(parts[i], sample, n)
  <2>1. sample \in Seq(SUBSET Bit) /\ n <= Len(sample)
    BY <1>8 DEF Typed
  <2>2. C \in Seq(SUBSET Bit) /\ C # <<>>
    BY <1>3
  <2>3. \A B, S, Q : /\ B = Buckets(sample, C) /\ S = Shares(Sizes(B), n) /\ Q = Parts(B, S)
                     => /\ Q \in Seq(Tasks) /\ Asked(Q) = n
                        /\ \A i \in 1..Len(Q) : Waits(Q[i], sample, n)
    BY <2>1, <2>2, PartsAre, SMTT(60)
  <2> QED BY <1>5, <1>9, <1>17, <2>3
<1>20. NextPart(parts, <<>>)
  <2>1. share = Shares([c \in DOMAIN b |-> Len(b[c])], opts.nlist)
    BY <1>4, <1>9 DEF Sizes
  <2>2. LET sh == Shares([c \in DOMAIN b |-> Len(b[c])], opts.nlist) IN
        NextPart(AtPositions([c \in DOMAIN b |-> NewTask(FALSE, b[c], sh[c])],
                             {c \in DOMAIN sh : sh[c] > 0}), <<>>)
    BY <1>2, <1>5 DEF EndFirst
  <2>3. NextPart(AtPositions([c \in DOMAIN b |-> NewTask(FALSE, b[c], share[c])],
                             {c \in DOMAIN share : share[c] > 0}), <<>>)
    BY <2>1, <2>2, Zenon
  <2> QED BY <1>17, <2>3, Zenon DEF Parts
<1>21. result = <<>> /\ Len(<<>>) = 0
  BY <1>1, <1>3, EmptySeq DEF Running
<1>22. /\ task' \in Tasks /\ todo' \in Seq(Tasks) /\ pc' \in {"seed", "index"}
       /\ pc' = "seed" => /\ Waits(task', sample, n)
                          /\ \A i \in 1..Len(todo') : Waits(todo'[i], sample, n)
                          /\ 0 + task'.k + Asked(todo') = n
  <2>1. Len(<<>>) \in Nat /\ Len(<<>>) + Asked(parts) = n
    BY <1>18, <1>21
  <2>2. n \in Nat
    OBVIOUS
  <2> QED BY <1>3, <1>4, <1>18, <1>20, <1>21, <2>1, <2>2, NextPartKeeps
<1>23. Typed'
  BY <1>1, <1>22 DEF Typed
<1>24. ASSUME pc' = "seed" PROVE Running' /\ Fresh(task')
  BY <1>1, <1>4, <1>21, <1>22, <1>24 DEF Running, Waits, TwoLevel
<1> QED BY <1>22, <1>23, <1>24 DEF Phases

LEMMA ClustersEndPart ==
    ASSUME Typed, Phases, EndPart
    PROVE  Typed' /\ Phases'
<1>1. /\ Clustered /\ TwoLevel(sample) /\ ~task.first
      /\ UNCHANGED <<images, opts, sample, trainings>>
      /\ result' = result \o task.centroids /\ NextPart(todo, result')
  BY DEF EndPart, given
<1>2. /\ pc = "iterate" /\ task \in Tasks /\ Running /\ Len(task.centroids) = task.k
      /\ task.centroids \in Seq(SUBSET Bit) /\ task.k \in Nat
  BY <1>1, ClusteredIs
<1>3. PICK n \in Nat \ {0} : n = opts.nlist
  BY OptionsAre DEF Typed
<1>4. PICK r : r = result'
  OBVIOUS
<1>5. r \in Seq(SUBSET Bit) /\ Len(r) = Len(result) + task.k /\ Len(result) \in Nat
  <2>1. result \in Seq(SUBSET Bit)
    BY DEF Typed
  <2> QED BY <1>1, <1>2, <1>4, <2>1, ConcatProperties, LenProperties
<1>6. Len(r) + Asked(todo) = n /\ Len(r) \in Nat
  BY <1>1, <1>2, <1>3, <1>5 DEF Running
<1>7. /\ task' \in Tasks /\ todo' \in Seq(Tasks) /\ pc' \in {"seed", "index"}
      /\ pc' = "seed" => /\ Waits(task', sample, n)
                         /\ \A i \in 1..Len(todo') : Waits(todo'[i], sample, n)
                         /\ Len(r) + task'.k + Asked(todo') = n
  <2>1. todo \in Seq(Tasks) /\ n \in Nat /\ NextPart(todo, r)
    BY <1>1, <1>4 DEF Typed
  <2>2. \A i \in 1..Len(todo) : Waits(todo[i], sample, n)
    BY <1>2, <1>3 DEF Running
  <2> QED BY <1>2, <1>3, <1>6, <2>1, <2>2, NextPartKeeps
<1>8. Typed'
  BY <1>1, <1>4, <1>5, <1>7 DEF Typed
<1>9. ASSUME pc' = "seed" PROVE Running' /\ Fresh(task')
  BY <1>1, <1>3, <1>4, <1>7, <1>9 DEF Running, Waits, TwoLevel
<1> QED BY <1>7, <1>8, <1>9 DEF Phases

LEMMA ClustersStep ==
    ASSUME Typed, Phases, [Next]_vars
    PROVE  Typed' /\ Phases'
<1>1. CASE Train
  BY <1>1, ClustersTrain
<1>2. CASE Seed
  BY <1>2, ClustersSeed
<1>3. CASE Iterate
  BY <1>3, ClustersIterate
<1>4. CASE EndOnly
  BY <1>4, ClustersEndOnly
<1>5. CASE EndFirst
  BY <1>5, ClustersEndFirst
<1>6. CASE EndPart
  BY <1>6, ClustersEndPart
<1>7. CASE AddCentroid \/ SaveTmp
  <2>1. /\ UNCHANGED <<images, opts, sample, task, todo, result, trainings>>
        /\ pc' \in {"index", "rename"}
    BY <1>7 DEF AddCentroid, SaveTmp, given, clustering
  <2>2. Typed'
    BY <2>1 DEF Typed
  <2> QED BY <2>1, <2>2 DEF Phases
<1>8. CASE SaveRename \/ Crash
  <2>1. /\ sample' = <<>> /\ task' = NoTask /\ todo' = <<>> /\ result' = <<>> /\ pc' = "idle"
        /\ UNCHANGED <<images, opts, trainings>>
    BY <1>8 DEF SaveRename, Crash, NothingInMemory, given
  <2>2. \A X : <<>> \in Seq(X)
    BY EmptySeq
  <2>3. NoTask \in Tasks
    <3>1. <<>> \in Seq(SUBSET Bit)
      BY <2>2
    <3> QED BY <3>1, NewTaskIs DEF NoTask
  <2>4. Typed'
    BY <2>1, <2>2, <2>3 DEF Typed
  <2> QED BY <2>1, <2>4 DEF Phases
<1>9. CASE OpenBuilder \/ Build \/ Lookup \/ UNCHANGED vars
  <2>1. UNCHANGED <<images, opts, sample, task, todo, result, trainings, pc>>
    BY <1>9 DEF OpenBuilder, Build, Lookup, vars, given, clustering
  <2>2. Typed'
    BY <2>1 DEF Typed
  <2>3. Running => Running'
    BY <2>1 DEF Running, TwoLevel
  <2> QED BY <2>1, <2>2, <2>3 DEF Phases, Short
<1> QED BY <1>1, <1>2, <1>3, <1>4, <1>5, <1>6, <1>7, <1>8, <1>9 DEF Next

-----------------------------------------------------------------------------
(* The quantizer: what holds in every state.                               *)

Made == \A e \in built : \E g \in makers, v \in SUBSET Bit :
            Proper(g) /\ g.entry # 0 /\ e = NewEntry(g, v)

\* Graphs in memory and on the disk are whole, and the last search is one of the
\* file that is there.
Quantizer ==
    /\ Proper(graph) /\ Proper(file) /\ Proper(builder)
    /\ pc # "idle" => found = NoSearch
    /\ found # NoSearch =>
          /\ file # NoFile /\ found.query \in SUBSET Bit
          /\ found.near = [k \in 1..MaxProbe |-> Search(file, found.query, k)]
    /\ Made

LEMMA QuantizerInit ==
    ASSUME Init
    PROVE  Quantizer
<1>1. Proper(EmptyGraph)
  BY EmptyIsProper
<1>2. Proper(Add(EmptyGraph, {}, 0))
  <2>1. {} \in SUBSET Bit /\ 0 \in Level
    BY LevelAssumption
  <2> QED BY <1>1, <2>1, AddKeeps
<1>3. /\ graph = EmptyGraph /\ builder = EmptyGraph /\ found = NoSearch /\ built = {}
      /\ file = EmptyGraph \/ file = Add(EmptyGraph, {}, 0)
  BY DEF Init, NoFile
<1>4. Proper(file)
  BY <1>1, <1>2, <1>3
<1> QED BY <1>1, <1>3, <1>4 DEF Quantizer, Made

LEMMA QuantizerStays ==
    ASSUME Quantizer, UNCHANGED <<graph, stored>>, found' = NoSearch
    PROVE  Quantizer'
<1>1. UNCHANGED <<graph, file, builder, built, makers>>
  BY DEF stored
<1>2. Made'
  BY <1>1 DEF Quantizer, Made
<1> QED BY <1>1, <1>2 DEF Quantizer

LEMMA QuantizerAdd ==
    ASSUME Typed, Quantizer, AddCentroid
    PROVE  Quantizer'
<1>1. /\ pc = "index" /\ UNCHANGED <<file, builder, built, makers, found, pc>>
      /\ Len(graph.vec) < Len(result)
  BY DEF AddCentroid, stored
<1>2. PICK level \in Level : graph' = Add(graph, result[Len(graph.vec) + 1], level)
  BY DEF AddCentroid
<1>3. PICK v \in SUBSET Bit : v = result[Len(graph.vec) + 1]
  <2>1. Len(graph.vec) \in Nat /\ Len(result) \in Nat /\ result \in Seq(SUBSET Bit)
    BY SizedIs, LenProperties DEF Quantizer, Proper, Typed
  <2>2. Len(graph.vec) + 1 \in 1..Len(result)
    BY <1>1, <2>1
  <2> QED BY <2>1, <2>2, ElementOfSeq
<1>4. Proper(graph')
  <2>1. Proper(graph)
    BY DEF Quantizer
  <2>2. Proper(Add(graph, v, level))
    BY <2>1, AddKeeps
  <2> QED BY <1>2, <1>3, <2>2
<1>5. found' = NoSearch
  BY <1>1 DEF Quantizer
<1>6. Made'
  BY <1>1 DEF Quantizer, Made
<1> QED BY <1>1, <1>4, <1>5, <1>6 DEF Quantizer

LEMMA QuantizerBuild ==
    ASSUME Typed, Quantizer, Build
    PROVE  Quantizer'
<1>1. /\ builder # NoFile /\ makers' = makers \cup {builder} /\ builder' = NoFile
      /\ built' = built \cup {NewEntry(builder, v) :
                      v \in UNION {Range(images[n].codes) : n \in DOMAIN images}}
      /\ UNCHANGED <<pc, graph, file, found>>
  BY DEF Build
<1>2. Proper(builder) /\ builder.entry # 0
  <2>1. Proper(builder)
    BY DEF Quantizer
  <2> QED BY <1>1, <2>1, ProperIs DEF NoFile
<1>3. UNION {Range(images[n].codes) : n \in DOMAIN images} \subseteq SUBSET Bit
  <2> SUFFICES ASSUME NEW n \in DOMAIN images, NEW v \in Range(images[n].codes)
               PROVE  v \in SUBSET Bit
    OBVIOUS
  <2>1. images \in Seq([count : Nat, codes : Seq(SUBSET Bit)])
    BY CatalogAssumption DEF Typed, IsImages
  <2>2. n \in 1..Len(images)
    BY <2>1, LenProperties
  <2>3. images[n] \in [count : Nat, codes : Seq(SUBSET Bit)]
    BY <2>1, <2>2, ElementOfSeq
  <2>4. images[n].codes \in Seq(SUBSET Bit)
    BY <2>3
  <2>5. PICK j \in DOMAIN images[n].codes : v = images[n].codes[j]
    BY DEF Range
  <2>6. j \in 1..Len(images[n].codes)
    BY <2>4, LenProperties
  <2> QED BY <2>4, <2>5, <2>6, ElementOfSeq
<1>4. Made'
  <2> SUFFICES ASSUME NEW e \in built'
               PROVE  \E g \in makers', v \in SUBSET Bit :
                          Proper(g) /\ g.entry # 0 /\ e = NewEntry(g, v)
    BY DEF Made
  <2>1. CASE e \in built
    BY <1>1, <2>1 DEF Quantizer, Made
  <2>2. CASE e \notin built
    <3>1. PICK v \in SUBSET Bit : e = NewEntry(builder, v)
      BY <1>1, <1>3, <2>2
    <3> QED BY <1>1, <1>2, <3>1
  <2> QED BY <2>1, <2>2
<1>5. Proper(builder')
  BY <1>1, EmptyIsProper DEF NoFile
<1> QED BY <1>1, <1>4, <1>5 DEF Quantizer

LEMMA QuantizerStep ==
    ASSUME Typed, Quantizer, [Next]_vars
    PROVE  Quantizer'
<1>1. CASE Train \/ Seed \/ Iterate \/ EndOnly \/ EndFirst \/ EndPart \/ SaveTmp
  <2>1. UNCHANGED <<graph, stored>> /\ (found' = NoSearch \/ (found' = found /\ pc # "idle"))
    BY <1>1 DEF Train, Seed, Iterate, EndOnly, EndFirst, EndPart, SaveTmp, Clustered
  <2>2. found' = NoSearch
    BY <2>1 DEF Quantizer
  <2> QED BY <2>1, <2>2, QuantizerStays
<1>2. CASE AddCentroid
  BY <1>2, QuantizerAdd
<1>3. CASE SaveRename
  <2>1. /\ pc = "rename" /\ file' = graph /\ graph' = EmptyGraph
        /\ UNCHANGED <<builder, built, makers, found>>
    BY <1>3 DEF SaveRename, NothingInMemory
  <2>2. found' = NoSearch
    BY <2>1 DEF Quantizer
  <2>3. Made'
    BY <2>1 DEF Quantizer, Made
  <2> QED BY <2>1, <2>2, <2>3, EmptyIsProper DEF Quantizer
<1>4. CASE Crash
  <2>1. /\ pc # "idle" /\ graph' = EmptyGraph /\ UNCHANGED <<file, builder, built, makers, found>>
    BY <1>4 DEF Crash, NothingInMemory, stored
  <2>2. found' = NoSearch
    BY <2>1 DEF Quantizer
  <2>3. Made'
    BY <2>1 DEF Quantizer, Made
  <2> QED BY <2>1, <2>2, <2>3, EmptyIsProper DEF Quantizer
<1>5. CASE OpenBuilder
  <2>1. builder' = file /\ UNCHANGED <<pc, graph, file, built, makers, found>>
    BY <1>5 DEF OpenBuilder
  <2>2. Made'
    BY <2>1 DEF Quantizer, Made
  <2> QED BY <2>1, <2>2 DEF Quantizer
<1>6. CASE Build
  BY <1>6, QuantizerBuild
<1>7. CASE Lookup
  <2>1. pc = "idle" /\ file # NoFile /\ UNCHANGED <<pc, graph, file, builder, built, makers>>
    BY <1>7 DEF Lookup, stored
  <2>2. PICK q \in Vector :
            found' = [query |-> q, near |-> [k \in 1..MaxProbe |-> Search(file, q, k)]]
    BY <1>7 DEF Lookup
  <2>3. q \in SUBSET Bit
    BY VectorAssumption
  <2>4. Made'
    BY <2>1 DEF Quantizer, Made
  <2>5. found'.query = q /\ found'.near = [k \in 1..MaxProbe |-> Search(file, q, k)]
    BY <2>2, Zenon
  <2>6. found'.query \in SUBSET Bit
        /\ found'.near = [k \in 1..MaxProbe |-> Search(file', found'.query, k)]
    BY <2>1, <2>3, <2>5
  <2> QED BY <2>1, <2>4, <2>6 DEF Quantizer
<1>8. CASE UNCHANGED vars
  <2>1. UNCHANGED <<pc, graph, file, builder, built, makers, found>>
    BY <1>8 DEF vars, stored
  <2>2. Made'
    BY <2>1 DEF Quantizer, Made
  <2> QED BY <2>1, <2>2 DEF Quantizer
<1> QED BY <1>1, <1>2, <1>3, <1>4, <1>5, <1>6, <1>7, <1>8 DEF Next

\* The inductive invariant of training: what the clusterings that are left ask for
\* adds up to the lists, each has the vectors it is asked for, and graphs in memory
\* and on the disk are whole.
THEOREM AlwaysWhole == Spec => [](Typed /\ Phases /\ Quantizer)
<1>1. Init => Typed /\ Phases /\ Quantizer
  BY ClustersInit, QuantizerInit
<1>2. (Typed /\ Phases /\ Quantizer) /\ [Next]_vars => (Typed /\ Phases /\ Quantizer)'
  BY ClustersStep, QuantizerStep
<1> QED BY <1>1, <1>2, PTL DEF Spec

-----------------------------------------------------------------------------
(* What follows from it.                                                   *)

LEMMA ProperGraph ==
    ASSUME NEW g, Proper(g)
    PROVE  IsGraph(g)
<1>1. /\ DOMAIN g.vec = 1..Len(g.vec) /\ DOMAIN g.links = 1..Len(g.vec) /\ Len(g.vec) \in Nat
  BY SizedIs DEF Proper
<1>2. CASE Len(g.vec) = 0
  <2>1. g.entry = 0 /\ g.top = -1
    BY <1>2 DEF Proper, EmptyGraph
  <2> QED BY <1>1, <2>1 DEF IsGraph
<1>3. CASE Len(g.vec) # 0
  <2>1. g.entry \in 1..Len(g.vec) /\ g.top \in Level
    BY <1>3 DEF Proper
  <2> QED BY <1>1, <2>1 DEF IsGraph
<1> QED BY <1>2, <1>3

LEMMA ProperLinks ==
    ASSUME NEW g, Proper(g), NEW n \in DOMAIN g.vec, NEW l \in 0..g.top, NEW nbs,
           nbs = LinksOf(g, n, l)
    PROVE  /\ g.entry # 0 => Len(g.links[n]) <= Len(g.links[g.entry])
           /\ Len(nbs) <= IF l = 0 THEN M0 ELSE M
           /\ Cardinality(Range(nbs)) = Len(nbs)
           /\ \A o \in Range(nbs) : o # n /\ l < Len(g.links[o])
<1>1. /\ DOMAIN g.vec = 1..Len(g.vec) /\ Len(g.vec) \in Nat /\ g.top \in Int
      /\ \A m \in 1..Len(g.vec) : Len(g.links[m]) \in Nat
  BY SizedIs DEF Proper
<1>2. n \in 1..Len(g.vec) /\ l \in Nat
  BY <1>1
<1>3. g.entry # 0 => Len(g.links[n]) <= Len(g.links[g.entry])
  <2> SUFFICES ASSUME g.entry # 0 PROVE Len(g.links[n]) <= Len(g.links[g.entry])
    OBVIOUS
  <2>1. g.top \in Nat /\ Len(g.links[g.entry]) = g.top + 1 /\ Len(g.links[n]) \in 1..(g.top + 1)
    BY <1>2, ProperIs
  <2> QED BY <2>1
<1>4. CASE l < Len(g.links[n])
  <2>1. n \in NodesOf(g, l)
    BY <1>2, <1>4 DEF NodesOf
  <2>2. Tidy(nbs, n, l, NodesOf(g, l))
    BY <1>2, <2>1 DEF Proper, Layered
  <2>3. nbs \in Seq(NodesOf(g, l)) /\ Distinct(nbs) /\ n \notin Range(nbs)
        /\ Len(nbs) <= IF l = 0 THEN M0 ELSE M
    BY <2>2 DEF Tidy, Bound
  <2>4. Cardinality(Range(nbs)) = Len(nbs)
    BY <2>3, CountIn
  <2>5. \A o \in Range(nbs) : o \in NodesOf(g, l)
    <3>1. \A j \in 1..Len(nbs) : nbs[j] \in NodesOf(g, l)
      BY <2>3, ElementOfSeq
    <3>2. DOMAIN nbs = 1..Len(nbs)
      BY <2>3, LenProperties
    <3> QED BY <3>1, <3>2 DEF Range
  <2>6. \A o \in Range(nbs) : o # n /\ l < Len(g.links[o])
    BY <2>3, <2>5 DEF NodesOf
  <2> QED BY <1>3, <2>3, <2>4, <2>6
<1>5. CASE ~(l < Len(g.links[n]))
  <2>1. nbs = <<>>
    BY <1>5 DEF LinksOf
  <2>2. Len(nbs) = 0 /\ DOMAIN nbs = {}
    <3>1. nbs \in Seq({}) /\ Len(nbs) = 0
      BY <2>1, EmptySeq
    <3>2. DOMAIN nbs = 1..Len(nbs)
      BY <3>1, LenProperties
    <3> QED BY <3>1, <3>2
  <2>3. Range(nbs) = {}
    BY <2>2 DEF Range
  <2>4. Cardinality(Range(nbs)) = 0
    BY <2>3, FS_EmptySet
  <2> QED BY <1>3, <2>2, <2>3, <2>4, ParamsAssumption
<1> QED BY <1>4, <1>5

\* Samples and centroids are descriptors, rounds stay within their limit, and the
\* graphs in memory, in the file and in a builder are graphs, whatever is trained.
THEOREM AlwaysTypeOK == Spec => []TypeOK
<1>1. Typed /\ Quantizer => TypeOK
  <2> SUFFICES ASSUME Typed, Quantizer PROVE TypeOK
    OBVIOUS
  <2>1. IsGraph(graph) /\ IsGraph(file) /\ IsGraph(builder)
    BY ProperGraph DEF Quantizer
  <2>2. ASSUME NEW s \in Seq(SUBSET Bit) PROVE Range(s) \subseteq SUBSET Bit
    <3>1. DOMAIN s = 1..Len(s) /\ \A i \in 1..Len(s) : s[i] \in SUBSET Bit
      BY LenProperties, ElementOfSeq
    <3> QED BY <3>1 DEF Range
  <2>3. task.round \in 0..MaxIter
    BY DEF Typed, Tasks
  <2> QED BY <2>1, <2>2, <2>3 DEF TypeOK, Typed
<1> QED BY <1>1, AlwaysWhole, PTL

\* Training panics only when random first centroids are asked for and there are
\* fewer samples than lists: the shares of the second level add up.
THEOREM AlwaysPanicsOnlyShort == Spec => []PanicsOnlyShort
<1>1. Phases => PanicsOnlyShort
  BY DEF Phases, Short, PanicsOnlyShort
<1> QED BY <1>1, AlwaysWhole, PTL

\* In the graph that is built, at every step of quantizer.New, links stay within
\* their bounds and lead to other nodes that have the layer.
THEOREM AlwaysWellLinked == Spec => []WellLinked
<1>1. Quantizer => WellLinked
  <2> SUFFICES ASSUME Quantizer PROVE WellLinked
    OBVIOUS
  <2>1. PICK g : g = graph /\ Proper(g)
    BY DEF Quantizer
  <2>2. ASSUME NEW n \in DOMAIN g.vec, g.entry # 0
        PROVE  Len(g.links[n]) <= Len(g.links[g.entry])
    <3>1. g.top \in Nat
      BY <2>1, <2>2, ProperIs
    <3>2. 0 \in 0..g.top
      BY <3>1
    <3> QED BY <2>1, <2>2, <3>2, ProperLinks
  <2>3. ASSUME NEW n \in DOMAIN g.vec, NEW l \in 0..g.top
        PROVE  LET nbs == LinksOf(g, n, l) IN
               /\ Len(nbs) <= IF l = 0 THEN M0 ELSE M
               /\ Cardinality(Range(nbs)) = Len(nbs)
               /\ \A o \in Range(nbs) : o # n /\ l < Len(g.links[o])
    BY <2>1, ProperLinks
  <2> QED BY <2>1, <2>2, <2>3 DEF WellLinked
<1> QED BY <1>1, AlwaysWhole, PTL

LEMMA FoundIs ==
    ASSUME Quantizer, NEW k \in DOMAIN found.near
    PROVE  /\ Proper(file) /\ file.entry # 0 /\ found.query \in SUBSET Bit
           /\ k \in 1..MaxProbe /\ found.near[k] = Search(file, found.query, k)
           /\ \A j \in 1..MaxProbe : found.near[j] = Search(file, found.query, j)
<1>1. found # NoSearch
  <2> SUFFICES ASSUME found = NoSearch PROVE FALSE
    OBVIOUS
  <2>1. PICK z : z = <<>> /\ found.near = z
    BY DEF NoSearch
  <2>2. z \in Seq({}) /\ Len(z) = 0
    BY <2>1, EmptySeq
  <2>3. DOMAIN z = 1..0
    BY <2>2, LenProperties
  <2> QED BY <2>1, <2>3
<1>2. /\ file # NoFile /\ found.query \in SUBSET Bit /\ Proper(file)
      /\ found.near = [j \in 1..MaxProbe |-> Search(file, found.query, j)]
  BY <1>1 DEF Quantizer
<1>3. file.entry # 0
  BY <1>2, ProperIs DEF NoFile
<1>4. k \in 1..MaxProbe /\ \A j \in 1..MaxProbe : found.near[j] = Search(file, found.query, j)
  BY <1>2, Zenon
<1> QED BY <1>2, <1>3, <1>4, Zenon

\* What FindsLists says of a list of answers.
Promised(near, g, q, k) ==
    LET ids == Range(Ids(near))
        far(n) == Distance(q, g.vec[n])
        small == Len(g.vec) <= Lesser(M0 + 1, EfConstruction)
    IN  /\ Cardinality(ids) = Len(near) /\ Len(near) <= k
        /\ \A i, j \in DOMAIN near : i < j => far(near[i].id) <= far(near[j].id)
        /\ small /\ (Len(g.vec) <= EfSearch \/ Len(g.vec) <= k) =>
              /\ Cardinality(ids) = Lesser(k, Len(g.vec))
              /\ \A n \in ids, o \in DOMAIN g.vec \ ids : far(n) <= far(o)

LEMMA SearchPromised ==
    ASSUME NEW g, Proper(g), g.entry # 0, NEW q \in SUBSET Bit, NEW k \in Nat \ {0}
    PROVE  Promised(Search(g, q, k), g, q, k)
<1>1. PICK near : near = Search(g, q, k)
  OBVIOUS
<1>2. Lists(near, g, q, k)
  BY <1>1, SearchLists
<1>3. PICK N \in Nat \ {0} : N = Len(g.vec) /\ DOMAIN g.vec = 1..N
  BY ProperIs, SizedIs DEF Proper
<1>4. /\ DOMAIN near = 1..Len(near) /\ Len(near) \in 1..k
      /\ Ids(near) \in Seq(1..N) /\ Distinct(Ids(near)) /\ Len(Ids(near)) = Len(near)
  BY <1>2, <1>3 DEF Lists
<1>5. \A i, j \in 1..Len(near) :
          i < j => Distance(q, g.vec[near[i].id]) <= Distance(q, g.vec[near[j].id])
  BY <1>2 DEF Lists
<1>6. Small(N) /\ N <= Ef(k) =>
         /\ Len(near) = Lesser(k, N)
         /\ \A n \in Range(Ids(near)), o \in (1..N) \ Range(Ids(near)) :
                Distance(q, g.vec[n]) <= Distance(q, g.vec[o])
  BY <1>2, <1>3 DEF Lists
<1>7. Cardinality(Range(Ids(near))) = Len(near)
  BY <1>4, CountIn
<1>8. N <= Lesser(M0 + 1, EfConstruction) /\ (N <= EfSearch \/ N <= k) => Small(N) /\ N <= Ef(k)
  <2>1. M0 \in Nat /\ EfConstruction \in Nat /\ EfSearch \in Nat
    BY ParamsAssumption
  <2> QED BY <2>1 DEF Small, Ef, Lesser
<1>9. Promised(near, g, q, k)
  <2>1. Len(near) <= k
    BY <1>4
  <2>2. N <= Lesser(M0 + 1, EfConstruction) /\ (N <= EfSearch \/ N <= k) =>
           /\ Cardinality(Range(Ids(near))) = Lesser(k, N)
           /\ \A n \in Range(Ids(near)), o \in (1..N) \ Range(Ids(near)) :
                  Distance(q, g.vec[n]) <= Distance(q, g.vec[o])
    BY <1>6, <1>7, <1>8
  <2> QED BY <1>3, <1>4, <1>5, <1>7, <2>1, <2>2, Zenon DEF Promised
<1> QED BY <1>1, <1>9

\* A search of the saved quantizer gives different lists, nearest first; who asks
\* for more gets the same in front; and in a small graph they are the nearest.
THEOREM AlwaysFindsLists == Spec => []FindsLists
<1>1. Quantizer => FindsLists
  <2> SUFFICES ASSUME Quantizer PROVE FindsLists
    OBVIOUS
  <2>1. ASSUME NEW k \in DOMAIN found.near
        PROVE  Promised(found.near[k], file, found.query, k)
    <3>1. PICK g, q : g = file /\ q = found.query
      OBVIOUS
    <3>2. Proper(g) /\ g.entry # 0 /\ q \in SUBSET Bit /\ k \in Nat \ {0}
          /\ found.near[k] = Search(g, q, k)
      BY <3>1, FoundIs, TrainingBoundsAssumption
    <3>3. Promised(Search(g, q, k), g, q, k)
      BY <3>2, SearchPromised
    <3> QED BY <3>1, <3>2, <3>3
  <2>2. ASSUME NEW k \in DOMAIN found.near, k <= EfSearch, NEW i \in 1..k
        PROVE  found.near[i] = UpTo(found.near[k], i)
    <3>1. PICK g, q : g = file /\ q = found.query
      OBVIOUS
    <3>2. /\ Proper(g) /\ g.entry # 0 /\ q \in SUBSET Bit /\ k \in 1..MaxProbe
          /\ found.near[k] = Search(g, q, k)
          /\ \A j \in 1..MaxProbe : found.near[j] = Search(g, q, j)
      BY <3>1, FoundIs
    <3>3. k \in 1..EfSearch /\ i \in 1..MaxProbe
      BY <2>2, <3>2, TrainingBoundsAssumption, ParamsAssumption
    <3>4. Search(g, q, i) = UpTo(Search(g, q, k), i)
      BY <3>2, <3>3, SearchPrefix
    <3> QED BY <3>2, <3>3, <3>4
  <2> QED BY <2>1, <2>2, Zenon DEF FindsLists, Promised
<1> QED BY <1>1, AlwaysWhole, PTL

\* A stored vector is found in the list its quantizer put it in, at distance zero,
\* whatever number of lists up to EfSearch is probed, unless some entries were made
\* with another quantizer than the one that is searched.
THEOREM AlwaysStoredIsFound == Spec => []StoredIsFound
<1>1. Quantizer => StoredIsFound
  <2> SUFFICES ASSUME Quantizer, NEW e \in built, NEW k \in 1..Lesser(MaxProbe, EfSearch),
                      makers = {file}, e.vec = found.query, k \in DOMAIN found.near
               PROVE  /\ e.list \in Range(Ids(found.near[k]))
                      /\ Distance(Xor(found.query, file.vec[e.list]), e.code) = 0
    BY Zenon DEF StoredIsFound
  <2>1. PICK g, q, near : g = file /\ q = found.query /\ near = found.near[k]
    OBVIOUS
  <2>2. /\ Proper(g) /\ g.entry # 0 /\ q \in SUBSET Bit /\ k \in Nat \ {0}
        /\ near = Search(g, q, k)
    BY <2>1, FoundIs, TrainingBoundsAssumption
  <2>3. PICK v \in SUBSET Bit : e = NewEntry(g, v)
    BY <2>1 DEF Quantizer, Made
  <2>4. PICK list : list = Search(g, v, 1)[1].id
    OBVIOUS
  <2>5. e = [vec |-> v, list |-> list, code |-> Xor(v, g.vec[list])]
    BY <2>3, <2>4 DEF NewEntry
  <2>6. v = q /\ e.list = list /\ e.code = Xor(q, g.vec[list])
    BY <2>1, <2>5
  <2>7. k \in 1..EfSearch /\ 1 \in 1..k
    <3>1. MaxProbe \in Nat /\ EfSearch \in Nat
      BY TrainingBoundsAssumption, ParamsAssumption
    <3> QED BY <3>1 DEF Lesser
  <2>8. Search(g, q, 1)[1] = near[1]
    BY <2>2, <2>7, SearchPrefix
  <2>9. list = near[1].id
    BY <2>4, <2>6, <2>8
  <2>10. Lists(near, g, q, k)
    BY <2>2, SearchLists
  <2>11. DOMAIN near = 1..Len(near) /\ Len(near) \in 1..k /\ near[1].id \in 1..Len(g.vec)
    BY <2>10 DEF Lists
  <2>12. list \in Range(Ids(near))
    <3>1. 1 \in DOMAIN near
      BY <2>11
    <3>2. Ids(near)[1] = near[1].id /\ 1 \in DOMAIN Ids(near)
      BY <3>1 DEF Ids
    <3> QED BY <2>9, <3>2 DEF Range
  <2>13. Distance(Xor(q, g.vec[list]), Xor(q, g.vec[list])) = 0
    <3>1. g.vec[list] \in SUBSET Bit
      <4>1. g.vec \in Seq(SUBSET Bit)
        BY <2>2, SizedIs DEF Proper
      <4> QED BY <2>9, <2>11, <4>1, ElementOfSeq
    <3>2. Xor(q, g.vec[list]) \in SUBSET Bit
      BY <2>2, <3>1 DEF Xor
    <3> QED BY <3>2, DistanceTypes
  <2> QED BY <2>1, <2>6, <2>12, <2>13
<1> QED BY <1>1, AlwaysWhole, PTL

-----------------------------------------------------------------------------
(* Moving the centroids never makes the cost larger.                       *)

LEMMA TotalGrows ==
    ASSUME NEW f \in Seq(Nat), NEW h \in Seq(Nat), NEW n \in Nat, n <= Len(f), n <= Len(h),
           \A i \in 1..n : f[i] <= h[i]
    PROVE  Total(f, n) <= Total(h, n)
<1> DEFINE K == {m \in 0..n : Total(f, m) <= Total(h, m)}
<1>1. Len(f) \in Nat /\ Len(h) \in Nat
  BY LenProperties
<1>2. 0 \in K
  <2>1. Total(f, 0) = 0 /\ Total(h, 0) = 0
    BY TotalSteps
  <2> QED BY <2>1
<1>3. ASSUME NEW m \in 1..n, m - 1 \in K PROVE m \in K
  <2>1. /\ m \in 1..Len(f) /\ m \in 1..Len(h) /\ m \in 0..n
        /\ m - 1 \in 0..Len(f) /\ m - 1 \in 0..Len(h)
    BY <1>1
  <2>2. Total(f, m) = Total(f, m - 1) + f[m] /\ Total(h, m) = Total(h, m - 1) + h[m]
    BY <2>1, TotalSteps
  <2>3. Total(f, m - 1) \in Nat /\ Total(h, m - 1) \in Nat /\ f[m] \in Nat /\ h[m] \in Nat
    BY <2>1, TotalSteps, ElementOfSeq
  <2>4. Total(f, m - 1) <= Total(h, m - 1) /\ f[m] <= h[m]
    BY <1>3
  <2>5. PICK a, b, x, y : /\ a = Total(f, m - 1) /\ b = Total(h, m - 1) /\ x = f[m] /\ y = h[m]
    OBVIOUS
  <2>6. a \in Nat /\ b \in Nat /\ x \in Nat /\ y \in Nat /\ a <= b /\ x <= y
    BY <2>3, <2>4, <2>5
  <2>7. a + x <= b + y
    BY <2>6
  <2>8. Total(f, m) <= Total(h, m)
    BY <2>2, <2>5, <2>7
  <2> QED BY <2>1, <2>8
<1>4. NextHas(K, n)
  BY <1>3 DEF NextHas
<1>5. n \in K
  <2> HIDE DEF K
  <2> QED BY <1>2, <1>4, ReachesAll
<1> QED BY <1>5

OneToOne(f, S, T) == f \in [S -> T] /\ \A a, b \in S : f[a] = f[b] => a = b

LEMMA FewerMap ==
    ASSUME NEW S, NEW T, IsFiniteSet(S), IsFiniteSet(T), Cardinality(S) <= Cardinality(T)
    PROVE  \E f : OneToOne(f, S, T)
<1>1. PICK m \in Nat, n \in Nat : m = Cardinality(S) /\ n = Cardinality(T)
  BY FS_CardinalityType
<1>2. ExistsBijection(1..m, S) /\ ExistsBijection(1..n, T)
  BY <1>1, FS_CardinalityType
<1>3. ExistsInjection(S, 1..m) /\ ExistsInjection(1..n, T)
  BY <1>2, Fun_ExistsBijEquiv, Zenon
<1>4. ExistsInjection(1..m, 1..n)
  BY <1>1, Fun_NatInjLeq
<1>5. ExistsInjection(S, T)
  BY <1>3, <1>4, Fun_ExistsInjTransitive, Zenon
<1>6. PICK f : f \in Injection(S, T)
  BY <1>5 DEF ExistsInjection
<1>7. f \in [S -> T] /\ \A a, b \in S : f[a] = f[b] => a = b
  BY <1>6 DEF Injection, IsInjective
<1> QED BY <1>7, Zenon DEF OneToOne

\* Of points O of P have a bit.  Fewer differ from what the majority has than
\* from any other choice.
LEMMA Outvoted ==
    ASSUME NEW P, IsFiniteSet(P), NEW O \in SUBSET P,
           NEW T, T = IF Cardinality(O) > Cardinality(P) \div 2 THEN P \ O ELSE O,
           NEW U, U = O \/ U = P \ O
    PROVE  \E f : OneToOne(f, T, U)
<1>1. IsFiniteSet(O) /\ IsFiniteSet(P \ O)
  BY FS_Subset
<1>2. PICK p \in Nat, o \in Nat, z \in Nat :
          p = Cardinality(P) /\ o = Cardinality(O) /\ z = Cardinality(P \ O)
  BY <1>1, FS_CardinalityType
<1>3. z = p - o
  <2>1. Cardinality(P \ O) = Cardinality(P) - Cardinality(P \cap O)
    BY FS_Difference
  <2>2. P \cap O = O
    OBVIOUS
  <2> QED BY <1>2, <2>1, <2>2
<1>4. Cardinality(T) <= Cardinality(U) /\ IsFiniteSet(T) /\ IsFiniteSet(U)
  <2>1. CASE o > p \div 2
    <3>1. T = P \ O
      BY <1>2, <2>1
    <3>2. z <= o
      BY <1>2, <1>3, <2>1
    <3> QED BY <1>1, <1>2, <3>1, <3>2
  <2>2. CASE ~(o > p \div 2)
    <3>1. T = O
      BY <1>2, <2>2
    <3>2. o <= z
      BY <1>2, <1>3, <2>2
    <3>3. CASE U = O
      BY <1>1, <1>2, <3>1, <3>3
    <3>4. CASE U = P \ O
      BY <1>1, <1>2, <3>1, <3>2, <3>4
    <3> QED BY <3>3, <3>4
  <2> QED BY <2>1, <2>2
<1> QED BY <1>4, FewerMap

\* The pairs of a row of 1..N and an element of X there.
Rows(N, X) == {p \in (1..N) \X Bit : p[2] \in X[p[1]]}

LEMMA RowsCount ==
    ASSUME NEW N \in Nat, NEW X, \A n \in 1..N : X[n] \in SUBSET Bit,
           NEW f \in Seq(Nat), Len(f) = N, \A n \in 1..N : f[n] = Cardinality(X[n])
    PROVE  IsFiniteSet(Rows(N, X)) /\ Cardinality(Rows(N, X)) = Total(f, N)
<1> DEFINE H == {m \in 0..N : IsFiniteSet(Rows(m, X)) /\ Cardinality(Rows(m, X)) = Total(f, m)}
<1>1. 0 \in H
  <2>1. Rows(0, X) = {}
    BY DEF Rows
  <2>2. Total(f, 0) = 0
    BY TotalSteps
  <2> QED BY <2>1, <2>2, FS_EmptySet
<1>2. ASSUME NEW m \in 1..N, m - 1 \in H PROVE m \in H
  <2>1. PICK R, Q : R = Rows(m - 1, X) /\ Q = {m} \X X[m]
    OBVIOUS
  <2>2. IsFiniteSet(R) /\ Cardinality(R) = Total(f, m - 1)
    BY <1>2, <2>1
  <2>3. IsFiniteSet(X[m]) /\ IsFiniteSet({m}) /\ Cardinality({m}) = 1
    BY BitAssumption, FS_Subset, FS_Singleton
  <2>4. PICK x \in Nat : x = Cardinality(X[m]) /\ f[m] = x
    BY <2>3, FS_CardinalityType
  <2>5. IsFiniteSet(Q) /\ Cardinality(Q) = x
    <3>1. IsFiniteSet(Q) /\ Cardinality(Q) = Cardinality({m}) * Cardinality(X[m])
      BY <2>1, <2>3, FS_Product
    <3> QED BY <2>3, <2>4, <3>1
  <2>6. Rows(m, X) = R \cup Q
    <3>1. ASSUME NEW p \in Rows(m, X) PROVE p \in R \cup Q
      <4>1. PICK n \in 1..m, b \in Bit : p = <<n, b>> /\ b \in X[n]
        BY DEF Rows
      <4>2. CASE n = m
        BY <2>1, <4>1, <4>2
      <4>3. CASE n # m
        <5>1. n \in 1..(m - 1)
          BY <4>3
        <5>2. p \in Rows(m - 1, X)
          BY <4>1, <5>1 DEF Rows
        <5> QED BY <2>1, <5>2
      <4> QED BY <4>2, <4>3
    <3>2. ASSUME NEW p \in R PROVE p \in Rows(m, X)
      <4>1. PICK n \in 1..(m - 1), b \in Bit : p = <<n, b>> /\ b \in X[n]
        BY <2>1 DEF Rows
      <4>2. n \in 1..m
        OBVIOUS
      <4> QED BY <4>1, <4>2 DEF Rows
    <3>3. ASSUME NEW p \in Q PROVE p \in Rows(m, X)
      <4>1. PICK b \in X[m] : p = <<m, b>>
        BY <2>1
      <4>2. b \in Bit /\ m \in 1..m
        OBVIOUS
      <4> QED BY <4>1, <4>2 DEF Rows
    <3> QED BY <3>1, <3>2, <3>3
  <2>7. R \cap Q = {}
    <3> SUFFICES ASSUME NEW p \in R, p \in Q PROVE FALSE
      OBVIOUS
    <3>1. p[1] \in 1..(m - 1)
      BY <2>1 DEF Rows
    <3>2. p[1] = m
      BY <2>1
    <3> QED BY <3>1, <3>2
  <2>8. IsFiniteSet(R \cup Q) /\ Cardinality(R \cup Q) = Cardinality(R) + x
    <3>1. /\ IsFiniteSet(R \cup Q)
          /\ Cardinality(R \cup Q) = Cardinality(R) + Cardinality(Q) - Cardinality(R \cap Q)
          /\ Cardinality(R) \in Nat
      BY <2>2, <2>5, FS_Union, FS_CardinalityType
    <3>2. Cardinality(R \cap Q) = 0
      BY <2>7, FS_EmptySet
    <3> QED BY <2>5, <3>1, <3>2
  <2>9. Total(f, m) = Total(f, m - 1) + f[m] /\ m \in 0..N
    <3>1. m \in 1..Len(f) /\ m \in 0..N
      OBVIOUS
    <3>2. Total(f, m) = Total(f, m - 1) + f[m]
      BY <3>1, TotalSteps
    <3> QED BY <3>1, <3>2
  <2>10. IsFiniteSet(Rows(m, X)) /\ Cardinality(Rows(m, X)) = Total(f, m)
    BY <2>2, <2>4, <2>6, <2>8, <2>9
  <2> QED BY <2>9, <2>10
<1>3. NextHas(H, N)
  BY <1>2 DEF NextHas
<1>4. N \in H
  <2> HIDE DEF H
  <2> QED BY <1>1, <1>3, ReachesAll
<1> QED BY <1>4

\* The rows of group c whose X has b.
Having(N, A, c, X, b) == {n \in 1..N : A[n] = c /\ b \in X[n]}

LEMMA RowsFewer ==
    ASSUME NEW N \in Nat, NEW k, NEW A, \A n \in 1..N : A[n] \in 1..k, NEW X, NEW Y,
           IsFiniteSet(Rows(N, Y)),
           \A c \in 1..k, b \in Bit :
               \E f : OneToOne(f, Having(N, A, c, X, b), Having(N, A, c, Y, b))
    PROVE  Cardinality(Rows(N, X)) <= Cardinality(Rows(N, Y))
<1> DEFINE J(c, b) == CHOOSE f : OneToOne(f, Having(N, A, c, X, b), Having(N, A, c, Y, b))
           F == [p \in Rows(N, X) |-> <<J(A[p[1]], p[2])[p[1]], p[2]>>]
<1>1. ASSUME NEW c \in 1..k, NEW b \in Bit
      PROVE  OneToOne(J(c, b), Having(N, A, c, X, b), Having(N, A, c, Y, b))
  BY <1>1, Zenon
<1>2. ASSUME NEW p \in Rows(N, X)
      PROVE  /\ p = <<p[1], p[2]>> /\ p[1] \in 1..N /\ p[2] \in Bit /\ A[p[1]] \in 1..k
             /\ p[1] \in Having(N, A, A[p[1]], X, p[2])
  BY DEF Rows, Having
<1>3. ASSUME NEW p \in Rows(N, X)
      PROVE  /\ F[p] = <<J(A[p[1]], p[2])[p[1]], p[2]>>
             /\ J(A[p[1]], p[2])[p[1]] \in Having(N, A, A[p[1]], Y, p[2])
  <2>1. OneToOne(J(A[p[1]], p[2]), Having(N, A, A[p[1]], X, p[2]), Having(N, A, A[p[1]], Y, p[2]))
    BY <1>1, <1>2, Zenon
  <2>2. F[p] = <<J(A[p[1]], p[2])[p[1]], p[2]>>
    BY Zenon
  <2> HIDE DEF J, F
  <2> QED BY <1>2, <2>1, <2>2 DEF OneToOne
<1> HIDE DEF J
<1>4. \A p \in Rows(N, X) : F[p] \in Rows(N, Y)
  <2> SUFFICES ASSUME NEW p \in Rows(N, X) PROVE F[p] \in Rows(N, Y)
    OBVIOUS
  <2>1. PICK n, b : n = J(A[p[1]], p[2])[p[1]] /\ b = p[2]
    OBVIOUS
  <2>2. F[p] = <<n, b>> /\ n \in 1..N /\ b \in Y[n] /\ b \in Bit
    <3> HIDE DEF F
    <3> QED BY <1>2, <1>3, <2>1 DEF Having
  <2> HIDE DEF F
  <2> QED BY <2>2 DEF Rows
<1>5. F \in [Rows(N, X) -> Rows(N, Y)]
  BY <1>4
<1>6. ASSUME NEW p \in Rows(N, X), NEW q \in Rows(N, X), F[p] = F[q] PROVE p = q
  <2>1. PICK c, b, i, j : c = A[p[1]] /\ b = p[2] /\ i = p[1] /\ j = q[1]
    OBVIOUS
  <2>2. F[p] = <<J(c, b)[i], b>> /\ J(c, b)[i] \in Having(N, A, c, Y, b)
    BY <1>3, <2>1
  <2>3. F[q] = <<J(A[j], q[2])[j], q[2]>> /\ J(A[j], q[2])[j] \in Having(N, A, A[j], Y, q[2])
    BY <1>3, <2>1
  <2> HIDE DEF F
  <2>4. q[2] = b /\ J(c, b)[i] = J(A[j], b)[j]
    <3>1. PICK d, x, y : d = q[2] /\ x = J(c, b)[i] /\ y = J(A[j], d)[j]
      OBVIOUS
    <3>2. F[p] = <<x, b>> /\ F[q] = <<y, d>>
      BY <2>2, <2>3, <3>1, Zenon
    <3>3. <<x, b>> = <<y, d>>
      BY <1>6, <3>2
    <3>4. x = y /\ b = d
      BY <3>3
    <3> QED BY <3>1, <3>4, Zenon
  <2>5. A[j] = c
    BY <2>2, <2>3, <2>4 DEF Having
  <2>6. i \in Having(N, A, c, X, b) /\ j \in Having(N, A, c, X, b) /\ c \in 1..k /\ b \in Bit
    BY <1>2, <2>1, <2>4, <2>5
  <2>7. i = j
    <3>1. OneToOne(J(c, b), Having(N, A, c, X, b), Having(N, A, c, Y, b))
      BY <1>1, <2>6
    <3> QED BY <2>4, <2>5, <2>6, <3>1 DEF OneToOne
  <2> QED BY <1>2, <2>1, <2>4, <2>7
<1>7. F \in Injection(Rows(N, X), Rows(N, Y))
  <2> HIDE DEF F
  <2> QED BY <1>5, <1>6 DEF Injection, IsInjective
<1> HIDE DEF F
<1> QED BY <1>7, FS_Injection

\* What the vectors differ in from the centroids they are assigned to; the
\* positions assigned to c, and those of them that have b.
Differ(N, A, X, data, D) == \A n \in 1..N : X[n] = Xor(data[n], D[A[n]])
Group(N, A, c) == {n \in 1..N : A[n] = c}
GroupWith(N, A, c, b, data) == {n \in Group(N, A, c) : b \in data[n]}
Outside(N, A, c, b, data) == Group(N, A, c) \ GroupWith(N, A, c, b, data)

\* Those that have b differ from a centroid without it, the others from one with it.
LEMMA Differing ==
    ASSUME NEW N, NEW A, NEW c, NEW b, NEW data, NEW D, NEW X, Differ(N, A, X, data, D)
    PROVE  Having(N, A, c, X, b) =
               IF b \in D[c] THEN Outside(N, A, c, b, data) ELSE GroupWith(N, A, c, b, data)
<1>4. PICK P, O : /\ P = Group(N, A, c) /\ O = GroupWith(N, A, c, b, data)
                  /\ P \ O = Outside(N, A, c, b, data)
  BY DEF Outside
<1>5. P = {n \in 1..N : A[n] = c} /\ O = {n \in P : b \in data[n]}
      /\ \A n \in 1..N : X[n] = Xor(data[n], D[A[n]])
  BY <1>4 DEF Group, GroupWith, Differ
<1>1. ASSUME NEW n \in 1..N, A[n] = c
      PROVE  b \in X[n] <=> ((b \in data[n]) # (b \in D[c]))
  BY <1>1, <1>5 DEF Xor
<1>2. CASE b \in D[c]
  <2>1. ASSUME NEW n \in Having(N, A, c, X, b) PROVE n \in P \ O
    BY <1>1, <1>2, <1>5 DEF Having
  <2>2. ASSUME NEW n \in P \ O PROVE n \in Having(N, A, c, X, b)
    BY <1>1, <1>2, <1>5 DEF Having
  <2>3. Having(N, A, c, X, b) = P \ O
    BY <2>1, <2>2
  <2> QED BY <1>2, <1>4, <2>3
<1>3. CASE b \notin D[c]
  <2>1. ASSUME NEW n \in Having(N, A, c, X, b) PROVE n \in O
    BY <1>1, <1>3, <1>5 DEF Having
  <2>2. ASSUME NEW n \in O PROVE n \in Having(N, A, c, X, b)
    BY <1>1, <1>3, <1>5 DEF Having
  <2>3. Having(N, A, c, X, b) = O
    BY <2>1, <2>2
  <2> QED BY <1>3, <1>4, <2>3
<1> QED BY <1>2, <1>3

\* An iteration of kmodes.Cluster, assigning vectors to the nearest centroids and
\* moving those to the majority, never makes the sum of distances larger.
THEOREM CostFalls ==
    ASSUME NEW data \in Seq(SUBSET Bit), NEW C \in Seq(SUBSET Bit), NEW k \in Nat \ {0},
           Len(C) = k
    PROVE  Cost(data, Recentered(data, Assigned(data, C), k)) <= Cost(data, C)
<1>1. PICK N \in Nat : N = Len(data) /\ DOMAIN data = 1..N /\ \A n \in 1..N : data[n] \in SUBSET Bit
  <2>1. Len(data) \in Nat /\ DOMAIN data = 1..Len(data)
    BY LenProperties
  <2> QED BY <2>1, ElementOfSeq
<1>2. PICK A, E : A = Assigned(data, C) /\ E = Recentered(data, A, k)
  OBVIOUS
<1>3. C # <<>> /\ \A c \in 1..k : C[c] \in SUBSET Bit
  BY EmptySeq, ElementOfSeq
<1>4. \A n \in 1..N : A[n] = Assign(data[n], C)
  BY <1>1, <1>2 DEF Assigned
<1>5. \A n \in 1..N : /\ A[n] \in 1..k
                      /\ ToNearest(data[n], C) = Distance(data[n], C[A[n]])
  BY <1>1, <1>3, <1>4, AssignIs
<1>6. /\ E \in Seq(SUBSET Bit) /\ Len(E) = k
      /\ \A c \in 1..k : E[c] = Majority({n \in DOMAIN data : A[n] = c}, data)
  BY <1>2, RecenteredTypes
<1>7. E # <<>> /\ \A c \in 1..k : E[c] \in SUBSET Bit
  BY <1>6, EmptySeq, ElementOfSeq
<1>8. PICK X, Y : /\ X = [n \in 1..N |-> Xor(data[n], E[A[n]])]
                  /\ Y = [n \in 1..N |-> Xor(data[n], C[A[n]])]
  OBVIOUS
<1>9. \A n \in 1..N : X[n] = Xor(data[n], E[A[n]]) /\ Y[n] = Xor(data[n], C[A[n]])
  BY <1>8
<1>10. \A n \in 1..N : X[n] \in SUBSET Bit /\ Y[n] \in SUBSET Bit
  <2> SUFFICES ASSUME NEW n \in 1..N PROVE X[n] \in SUBSET Bit /\ Y[n] \in SUBSET Bit
    OBVIOUS
  <2>1. data[n] \in SUBSET Bit /\ E[A[n]] \in SUBSET Bit /\ C[A[n]] \in SUBSET Bit
    BY <1>1, <1>3, <1>5, <1>7
  <2> QED BY <1>9, <2>1 DEF Xor
<1>11. PICK f, g : /\ f = [n \in 1..N |-> Cardinality(X[n])]
                   /\ g = [n \in 1..N |-> Cardinality(Y[n])]
  OBVIOUS
<1>12. /\ f \in Seq(Nat) /\ Len(f) = N /\ \A n \in 1..N : f[n] = Cardinality(X[n])
       /\ g \in Seq(Nat) /\ Len(g) = N /\ \A n \in 1..N : g[n] = Cardinality(Y[n])
  <2>1. \A n \in 1..N : Cardinality(X[n]) \in Nat /\ Cardinality(Y[n]) \in Nat
    BY <1>10, BitAssumption, FS_Subset, FS_CardinalityType
  <2>2. f \in [1..N -> Nat] /\ g \in [1..N -> Nat]
    BY <1>11, <2>1
  <2> QED BY <1>11, <2>2, FunctionIsSeq
<1>13. \A n \in 1..N : f[n] = Distance(data[n], E[A[n]]) /\ g[n] = Distance(data[n], C[A[n]])
  BY <1>9, <1>12 DEF Distance
<1>14. Cost(data, C) = Total(g, N) /\ Cost(data, C) \in Nat
  <2>1. PICK far : far = [n \in 1..N |-> ToNearest(data[n], C)]
    OBVIOUS
  <2>2. far \in Seq(Nat) /\ Len(far) = N /\ Cost(data, C) = Total(far, N) /\ Cost(data, C) \in Nat
    <3>1. N = Len(data) /\ C # <<>>
      BY <1>1, <1>3
    <3> QED BY <2>1, <3>1, CostTypes, ZenonT(60)
  <2>3. \A n \in 1..N : far[n] = g[n]
    BY <1>5, <1>13, <2>1
  <2>4. Total(far, N) = Total(g, N)
    BY <1>12, <2>2, <2>3, TotalSame
  <2> QED BY <2>2, <2>4
<1>15. Cost(data, E) <= Total(f, N) /\ Cost(data, E) \in Nat
  <2>1. PICK far : far = [n \in 1..N |-> ToNearest(data[n], E)]
    OBVIOUS
  <2>2. far \in Seq(Nat) /\ Len(far) = N /\ Cost(data, E) = Total(far, N) /\ Cost(data, E) \in Nat
    BY <1>1, <1>6, <1>7, <2>1, CostTypes, ZenonT(60)
  <2>3. \A n \in 1..N : far[n] <= f[n]
    <3> SUFFICES ASSUME NEW n \in 1..N PROVE far[n] <= f[n]
      OBVIOUS
    <3>1. ToNearest(data[n], E) <= Distance(data[n], E[A[n]])
      BY <1>1, <1>5, <1>6, <1>7, AssignIs
    <3> QED BY <1>13, <2>1, <3>1
  <2>4. Total(far, N) <= Total(f, N)
    <3>1. f \in Seq(Nat) /\ far \in Seq(Nat) /\ N <= Len(f) /\ N <= Len(far)
      BY <1>12, <2>2
    <3> QED BY <2>3, <3>1, TotalGrows
  <2> QED BY <2>2, <2>4
<1>16. /\ IsFiniteSet(Rows(N, Y)) /\ Cardinality(Rows(N, X)) = Total(f, N)
       /\ Cardinality(Rows(N, Y)) = Total(g, N)
  BY <1>10, <1>12, RowsCount
<1>17. ASSUME NEW c \in 1..k, NEW b \in Bit
       PROVE  \E h : OneToOne(h, Having(N, A, c, X, b), Having(N, A, c, Y, b))
  <2>9. PICK P, O : /\ P = Group(N, A, c) /\ O = GroupWith(N, A, c, b, data)
                    /\ P \ O = Outside(N, A, c, b, data)
    BY DEF Outside
  <2>1. P = {n \in 1..N : A[n] = c} /\ O = {n \in P : b \in data[n]}
    BY <2>9 DEF Group, GroupWith
  <2>2. IsFiniteSet(P) /\ O \in SUBSET P
    <3>1. P \in SUBSET (1..N) /\ IsFiniteSet(1..N)
      <4>1. 1 \in Int /\ N \in Int
        OBVIOUS
      <4> QED BY <2>1, <4>1, FS_Interval
    <3> QED BY <2>1, <3>1, FS_Subset
  <2>3. Having(N, A, c, X, b) = IF b \in E[c] THEN P \ O ELSE O
    <3>1. Differ(N, A, X, data, E)
      BY <1>9 DEF Differ
    <3>2. Having(N, A, c, X, b) =
              IF b \in E[c] THEN Outside(N, A, c, b, data) ELSE GroupWith(N, A, c, b, data)
      BY <3>1, Differing
    <3> QED BY <2>9, <3>2, Zenon
  <2>4. Having(N, A, c, Y, b) = IF b \in C[c] THEN P \ O ELSE O
    <3>1. Differ(N, A, Y, data, C)
      BY <1>9 DEF Differ
    <3>2. Having(N, A, c, Y, b) =
              IF b \in C[c] THEN Outside(N, A, c, b, data) ELSE GroupWith(N, A, c, b, data)
      BY <3>1, Differing
    <3> QED BY <2>9, <3>2, Zenon
  <2>5. b \in E[c] <=> Cardinality(O) > Cardinality(P) \div 2
    <3>1. E[c] = Majority(P, data)
      BY <1>1, <1>6, <2>1
    <3>2. O = {n \in P : b \in data[n]}
      BY <2>1
    <3> QED BY <3>1, <3>2 DEF Majority
  <2>6. PICK T, U : T = Having(N, A, c, X, b) /\ U = Having(N, A, c, Y, b)
    OBVIOUS
  <2>7. /\ T = IF Cardinality(O) > Cardinality(P) \div 2 THEN P \ O ELSE O
        /\ U = O \/ U = P \ O
    BY <2>3, <2>4, <2>5, <2>6
  <2>8. \E h : OneToOne(h, T, U)
    BY <2>2, <2>7, Outvoted
  <2> QED BY <2>6, <2>8
<1>18. Cardinality(Rows(N, X)) <= Cardinality(Rows(N, Y))
  BY <1>5, <1>16, <1>17, RowsFewer
<1>19. Total(f, N) \in Nat /\ Total(g, N) \in Nat
  <2>1. N \in 0..Len(f) /\ N \in 0..Len(g)
    BY <1>1, <1>12
  <2>2. f \in Seq(Nat) /\ g \in Seq(Nat)
    BY <1>12
  <2> QED BY <2>1, <2>2, TotalSteps, SMTT(40)
<1>20. Cost(data, E) <= Cost(data, C)
  BY <1>14, <1>15, <1>16, <1>18, <1>19
<1> QED BY <1>2, <1>20

-----------------------------------------------------------------------------
(* The distance a clustering reports.                                      *)

\* The sum measured last bounds that of the centroids that are kept.
Costs ==
    /\ pc = "iterate" => Len(task.centroids) <= task.k
    /\ pc = "iterate" /\ task.round # 0 => Cost(task.data, task.centroids) <= task.distance
    /\ task.settled => Cost(task.data, task.centroids) = task.distance

LEMMA CostsIterate ==
    ASSUME Typed, Phases, Costs, Iterate
    PROVE  Costs'
<1>1. pc = "iterate" /\ task \in Tasks /\ Running /\ ~task.settled
  BY DEF Typed, Phases, Iterate
<1>2. PICK data, C, k, distance : /\ data = task.data /\ C = task.centroids /\ k = task.k
                                  /\ distance = task.distance
  OBVIOUS
<1>3. /\ data \in Seq(SUBSET Bit) /\ C \in Seq(SUBSET Bit) /\ k \in Nat \ {0} /\ distance \in Nat
      /\ Len(C) \in Nat /\ Len(C) <= k
  BY <1>1, <1>2, LenProperties DEF Tasks, Running, Room, Costs
<1>4. PICK now : now = Cost(data, C)
  OBVIOUS
<1>5. CASE /\ ~(task.round = 0 \/ now < distance)
           /\ task' = [task EXCEPT !.settled = TRUE] /\ UNCHANGED pc
  <2>1. Len(C) = k
    BY <1>1, <1>2, <1>5 DEF Phases
  <2>2. C # <<>>
    BY <1>3, <2>1, EmptySeq
  <2>3. now \in Nat
    BY <1>3, <1>4, <2>2, CostTypes
  <2>4. now <= distance
    BY <1>1, <1>2, <1>4, <1>5 DEF Costs
  <2>5. now = distance
    BY <1>3, <1>5, <2>3, <2>4
  <2>6. task'.data = data /\ task'.centroids = C /\ task'.k = k /\ task'.distance = distance
    BY <1>1, <1>2, <1>5 DEF Tasks
  <2>7. Cost(task'.data, task'.centroids) = task'.distance
    BY <1>4, <2>5, <2>6
  <2> QED BY <1>3, <2>4, <2>5, <2>6, <2>7 DEF Costs
<1>6. CASE pc' = "panicked" /\ UNCHANGED task
  BY <1>1, <1>6 DEF Costs
<1>7. CASE /\ Len(C) >= k /\ UNCHANGED pc
           /\ task' = [task EXCEPT
                 !.distance = now,
                 !.centroids = Recentered(data, Assigned(data, C), k),
                 !.round = @ + 1]
  <2>1. Len(C) = k
    BY <1>3, <1>7
  <2>2. PICK E : E = Recentered(data, Assigned(data, C), k)
    OBVIOUS
  <2>3. Cost(data, E) <= now
    BY <1>3, <1>4, <2>1, <2>2, CostFalls
  <2>4. E \in Seq(SUBSET Bit) /\ Len(E) = k
    BY <1>3, <2>2, RecenteredTypes
  <2>5. /\ task'.data = data /\ task'.centroids = E /\ task'.k = k /\ task'.distance = now
        /\ ~task'.settled
    BY <1>1, <1>2, <1>7, <2>2 DEF Tasks
  <2> QED BY <1>3, <2>3, <2>4, <2>5 DEF Costs
<1>8. /\ \/ /\ ~(task.round = 0 \/ now < distance)
            /\ task' = [task EXCEPT !.settled = TRUE] /\ UNCHANGED pc
         \/ pc' = "panicked" /\ UNCHANGED task
         \/ /\ Len(C) >= k /\ UNCHANGED pc
            /\ task' = [task EXCEPT
                 !.distance = now,
                 !.centroids = Recentered(data, Assigned(data, @), k),
                 !.round = @ + 1]
  BY <1>2, <1>4 DEF Iterate
<1>9. [task EXCEPT !.distance = now, !.centroids = Recentered(data, Assigned(data, @), k),
                   !.round = @ + 1]
      = [task EXCEPT !.distance = now, !.centroids = Recentered(data, Assigned(data, C), k),
                     !.round = @ + 1]
  BY <1>2
<1> QED BY <1>5, <1>6, <1>7, <1>8, <1>9

LEMMA CostsStep ==
    ASSUME Typed, Phases, Costs, [Next]_vars, Phases'
    PROVE  Costs'
<1>1. CASE Train
  <2>1. pc = "idle" /\ pc' \in {"idle", "seed"} /\ (pc' = "seed" \/ UNCHANGED task)
    BY <1>1 DEF Train
  <2>2. CASE pc' = "seed"
    <3>1. ~task'.settled
      BY <2>2 DEF Phases, Fresh
    <3> QED BY <2>2, <3>1 DEF Costs
  <2>3. CASE UNCHANGED task /\ pc' # "seed"
    BY <2>1, <2>3 DEF Costs
  <2> QED BY <2>1, <2>2, <2>3
<1>2. CASE Seed
  <2>1. PICK seeds \in Seeds(task.data, task.k, opts.init) :
            task' = [task EXCEPT !.centroids = seeds]
    BY <1>2 DEF Seed
  <2>2. task \in Tasks /\ Fresh(task) /\ pc' = "iterate"
    BY <1>2 DEF Seed, Typed, Phases
  <2>3. task'.k = task.k /\ task'.centroids = seeds /\ task'.round = 0 /\ ~task'.settled
    BY <2>1, <2>2 DEF Tasks, Fresh
  <2>4. Len(seeds) <= task.k
    <3>1. task.data \in Seq(SUBSET Bit) /\ task.k \in Nat
      BY <2>2 DEF Tasks
    <3>2. seeds \in Seq(SUBSET Bit) /\ (Len(seeds) = task.k \/ Len(seeds) < task.k)
      BY <3>1, SeedsTypes
    <3> QED BY <3>1, <3>2, LenProperties
  <2> QED BY <2>2, <2>3, <2>4 DEF Costs
<1>3. CASE Iterate
  BY <1>3, CostsIterate
<1>4. CASE EndOnly \/ AddCentroid \/ SaveTmp
  <2>1. UNCHANGED task /\ pc' # "iterate"
    BY <1>4 DEF EndOnly, AddCentroid, SaveTmp, clustering
  <2> QED BY <2>1 DEF Costs
<1>5. CASE EndFirst \/ EndPart
  <2>1. PICK parts, centroids : NextPart(parts, centroids)
    BY <1>5 DEF EndFirst, EndPart
  <2>2. pc' # "iterate" /\ (pc' = "seed" \/ UNCHANGED task)
    BY <2>1 DEF NextPart
  <2>3. pc' = "seed" => ~task'.settled
    BY DEF Phases, Fresh
  <2> QED BY <2>2, <2>3 DEF Costs
<1>6. CASE SaveRename \/ Crash
  <2>1. task' = NoTask /\ pc' = "idle"
    BY <1>6 DEF SaveRename, Crash, NothingInMemory
  <2>2. ~task'.settled
    BY <2>1 DEF NoTask, NewTask
  <2> QED BY <2>1, <2>2 DEF Costs
<1>7. CASE OpenBuilder \/ Build \/ Lookup \/ UNCHANGED vars
  <2>1. UNCHANGED <<pc, task>>
    BY <1>7 DEF OpenBuilder, Build, Lookup, vars, clustering
  <2> QED BY <2>1 DEF Costs
<1> QED BY <1>1, <1>2, <1>3, <1>4, <1>5, <1>6, <1>7 DEF Next

\* The distance of a clustering that brought nothing any more is the sum for the
\* centroids it returns.
THEOREM AlwaysCostIsReal == Spec => []CostIsReal
<1>1. Init => Typed /\ Phases /\ Costs
  <2> SUFFICES ASSUME Init PROVE Typed /\ Phases /\ Costs
    OBVIOUS
  <2>1. Typed /\ Phases
    BY ClustersInit
  <2>2. task = NoTask /\ pc = "idle"
    BY DEF Init
  <2>3. ~task.settled
    BY <2>2 DEF NoTask, NewTask
  <2> QED BY <2>1, <2>2, <2>3 DEF Costs
<1>2. (Typed /\ Phases /\ Costs) /\ [Next]_vars => (Typed /\ Phases /\ Costs)'
  BY ClustersStep, CostsStep
<1>3. Typed /\ Phases /\ Costs => CostIsReal
  BY DEF Costs, CostIsReal
<1> QED BY <1>1, <1>2, <1>3, PTL DEF Spec
=============================================================================
