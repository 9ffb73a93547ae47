-------------------------- MODULE IvfSearch_proofs --------------------------
(***************************************************************************)
(* Proofs about one search, for every quantizer, every set of files and     *)
(* any number of workers and neighbours: the search that fills a heap per   *)
(* query, and then the answer that is made of the heaps.                    *)
(***************************************************************************)
EXTENDS IvfSearch, Data_proofs

-----------------------------------------------------------------------------
(* What is compared: entry and query as residuals of a centroid are as far  *)
(* apart as they are.                                                       *)

\* The entry e as a neighbour of the query q, in the search x.
Near(x, q, e) == [id |-> e, dist |-> Distance(x.query[q], x.vec[e])]
Nears(x, q, E) == {Near(x, q, e) : e \in E}

\* The entries of the list l in the first n files.
Stored(x, l, n) == UNION {Range(x.part[l][f]) : f \in 1..n}

\* Each entry is stored at one place.
StoredOnce(x) ==
    \A l, m \in List, f, g \in File :
        /\ Distinct(x.part[l][f])
        /\ Range(x.part[l][f]) \cap Range(x.part[m][g]) # {} => l = m /\ f = g

LEMMA Residuals ==
    ASSUME NEW a, NEW b, NEW c
    PROVE  Xor(Xor(a, c), Xor(b, c)) = Xor(a, b)
BY DEF Xor

LEMMA ItemIsNear ==
    ASSUME NEW q \in Query, NEW l \in List, NEW e \in Entry
    PROVE  Item(q, l, e) = Near(in, q, e)
<1>1. Xor(Xor(in.query[q], in.centroid[l]), Xor(in.vec[e], in.centroid[l]))
        = Xor(in.query[q], in.vec[e])
  BY Residuals
<1> QED BY <1>1 DEF Item, Near, Distance

LEMMA NearsAreWeighed ==
    ASSUME NEW x \in Input, NEW q \in Query
    PROVE  \A n \in Nears(x, q, Entry) : n.dist \in Nat
<1> SUFFICES ASSUME NEW e \in Entry PROVE Near(x, q, e).dist \in Nat
  BY DEF Nears
<1>1. IsFiniteSet(x.query[q]) /\ IsFiniteSet(x.vec[e])
  BY InputAssumption DEF IsInput
<1>2. PICK a, b : a = x.query[q] /\ b = x.vec[e]
  OBVIOUS
<1>3. IsFiniteSet(a \ b) /\ IsFiniteSet(b \ a)
  BY <1>1, <1>2, FS_Difference
<1>4. IsFiniteSet(Xor(a, b))
  BY <1>3, FS_Union DEF Xor
<1>5. Cardinality(Xor(a, b)) \in Nat
  BY <1>4, FS_CardinalityType
<1> QED BY <1>2, <1>5 DEF Near, Distance

LEMMA NearsCount ==
    ASSUME NEW x, NEW q, NEW E, IsFiniteSet(E)
    PROVE  IsFiniteSet(Nears(x, q, E)) /\ Cardinality(Nears(x, q, E)) = Cardinality(E)
<1> DEFINE f == [e \in E |-> Near(x, q, e)]
<1>1. f \in [E -> Nears(x, q, E)] /\ \A e \in E : f[e] = Near(x, q, e)
  BY DEF Nears
<1>2. \A n \in Nears(x, q, E) : \E e \in E : f[e] = n
  BY DEF Nears
<1>3. \A d, e \in E : Near(x, q, d) = Near(x, q, e) => d = e
  BY DEF Near
<1> HIDE DEF f
<1>4. f \in Surjection(E, Nears(x, q, E)) /\ f \in Injection(E, Nears(x, q, E))
  BY <1>1, <1>2, <1>3 DEF Surjection, Injection, IsInjective
<1> QED BY <1>4, FS_Surjection

LEMMA StoredTypes ==
    ASSUME NEW x \in Input, NEW l \in List, NEW n \in 0..Files
    PROVE  Stored(x, l, n) \subseteq Entry /\ IsFiniteSet(Stored(x, l, n))
<1>1. ASSUME NEW f \in 1..n PROVE Range(x.part[l][f]) \subseteq Entry
  <2>1. f \in File
    BY BoundsAssumption DEF File
  <2>2. x.part[l][f] \in Seq(Entry)
    BY <2>1, InputAssumption DEF IsInput
  <2> QED BY <2>2, LenProperties, ElementOfSeq DEF Range
<1>2. Stored(x, l, n) \subseteq Entry
  BY <1>1 DEF Stored
<1> QED BY <1>2, SetsAssumption, FS_Subset

\* One file more.
LEMMA StoredNext ==
    ASSUME NEW x \in Input, NEW l \in List, NEW f \in File
    PROVE  /\ x.part[l][f] \in Seq(Entry)
           /\ Stored(x, l, f) = Stored(x, l, f - 1) \cup Range(x.part[l][f])
           /\ StoredOnce(x) =>
                Distinct(x.part[l][f]) /\ Stored(x, l, f - 1) \cap Range(x.part[l][f]) = {}
<1>1. x.part[l][f] \in Seq(Entry)
  BY InputAssumption DEF IsInput
<1>2. f \in Nat /\ f >= 1 /\ f <= Files /\ Files \in Nat
  BY BoundsAssumption DEF File
<1>3. 1..f = (1..(f - 1)) \cup {f}
  BY <1>2
<1>4. Stored(x, l, f) = Stored(x, l, f - 1) \cup Range(x.part[l][f])
  BY <1>3 DEF Stored
<1>5. \A g \in 1..(f - 1) : g \in File /\ g # f
  BY <1>2 DEF File
<1>6. StoredOnce(x) => Stored(x, l, f - 1) \cap Range(x.part[l][f]) = {}
  BY <1>5 DEF Stored, StoredOnce
<1> QED BY <1>1, <1>4, <1>6 DEF StoredOnce

\* Lists have nothing in common.
LEMMA StoredApart ==
    ASSUME NEW x \in Input, StoredOnce(x), NEW l \in List, NEW m \in List, l # m
    PROVE  Stored(x, l, Files) \cap Stored(x, m, Files) = {}
BY DEF StoredOnce, Stored, File

\* Sequences that are put one after the other.
Apart(s, t) == Distinct(s) /\ Distinct(t) /\ Range(s) \cap Range(t) = {}

LEMMA Joined ==
    ASSUME NEW X, NEW s \in Seq(X), NEW t \in Seq(X)
    PROVE  /\ s \o t \in Seq(X) /\ Range(s \o t) = Range(s) \cup Range(t)
           /\ (s \o t = <<>> <=> s = <<>> /\ t = <<>>)
           /\ Apart(s, t) => Distinct(s \o t)
<1>1. PICK a \in Nat, b \in Nat :
         a = Len(s) /\ b = Len(t) /\ DOMAIN s = 1..a /\ DOMAIN t = 1..b
  BY LenProperties
<1>2. PICK j \in Seq(X) :
         /\ j = s \o t /\ Len(j) = a + b
         /\ \A n \in 1..(a + b) : j[n] = IF n <= a THEN s[n] ELSE t[n - a]
  <2>1. /\ s \o t \in Seq(X) /\ Len(s \o t) = Len(s) + Len(t)
        /\ \A n \in 1..Len(s) + Len(t) :
              (s \o t)[n] = IF n <= Len(s) THEN s[n] ELSE t[n - Len(s)]
    BY ConcatProperties
  <2>2. PICK j : j = s \o t
    OBVIOUS
  <2>3. j \in Seq(X) /\ Len(j) = a + b
    BY <1>1, <2>1, <2>2
  <2>4. \A n \in 1..(a + b) : j[n] = IF n <= a THEN s[n] ELSE t[n - a]
    <3>1. a + b = Len(s) + Len(t) /\ a = Len(s)
      BY <1>1
    <3> QED BY <2>1, <2>2, <3>1, Zenon
  <2> QED BY <2>2, <2>3, <2>4
<1>3. DOMAIN j = 1..(a + b) /\ \A n \in 1..(a + b) : j[n] = IF n <= a THEN s[n] ELSE t[n - a]
  BY <1>2, LenProperties
<1>4. \A n \in 1..b : n + a \in 1..(a + b) /\ ~(n + a <= a) /\ (n + a) - a = n
  OBVIOUS
<1>5. \A n \in 1..(a + b) : (n <= a => n \in 1..a) /\ (~(n <= a) => n - a \in 1..b)
  OBVIOUS
<1>6. \A n \in 1..a : n \in 1..(a + b) /\ n <= a
  OBVIOUS
<1>7. Range(j) = Range(s) \cup Range(t)
  <2>1. ASSUME NEW n \in 1..b PROVE t[n] \in Range(j)
    <3>1. j[n + a] = t[n]
      BY <1>3, <1>4
    <3> QED BY <1>3, <1>4, <3>1 DEF Range
  <2>2. ASSUME NEW n \in 1..a PROVE s[n] \in Range(j)
    BY <1>3, <1>6 DEF Range
  <2>3. ASSUME NEW n \in 1..(a + b) PROVE j[n] \in Range(s) \cup Range(t)
    BY <1>1, <1>3, <1>5 DEF Range
  <2>4. Range(j) \subseteq Range(s) \cup Range(t)
    <3>1. \A y \in Range(j) : \E n \in 1..(a + b) : y = j[n]
      BY <1>3 DEF Range
    <3> QED BY <2>3, <3>1
  <2>5. Range(s) \cup Range(t) \subseteq Range(j)
    <3>1. \A y \in Range(s) : \E n \in 1..a : y = s[n]
      BY <1>1 DEF Range
    <3>2. \A y \in Range(t) : \E n \in 1..b : y = t[n]
      BY <1>1 DEF Range
    <3> QED BY <2>1, <2>2, <3>1, <3>2
  <2> QED BY <2>4, <2>5
<1>8. j = <<>> <=> s = <<>> /\ t = <<>>
  <2>1. a + b = 0 <=> a = 0 /\ b = 0
    OBVIOUS
  <2>2. \A u \in Seq(X) : u = <<>> <=> Len(u) = 0
    <3> TAKE u \in Seq(X)
    <3>1. Len(<<>>) = 0 /\ (u # <<>> => Len(u) \in Nat \ {0})
      BY EmptySeq
    <3> QED BY <3>1
  <2>3. (j = <<>> <=> Len(j) = 0) /\ (s = <<>> <=> Len(s) = 0) /\ (t = <<>> <=> Len(t) = 0)
    BY <1>2, <2>2
  <2> QED BY <1>1, <1>2, <2>1, <2>3
<1>9. ASSUME Apart(s, t) PROVE Distinct(j)
  <2> SUFFICES ASSUME NEW m \in 1..(a + b), NEW n \in 1..(a + b), m # n, j[m] = j[n] PROVE FALSE
    BY <1>3 DEF Distinct
  <2>1. \A i \in 1..(a + b) : IF i <= a THEN j[i] \in Range(s) ELSE j[i] \in Range(t)
    BY <1>1, <1>3, <1>5 DEF Range
  <2>2. CASE m <= a /\ n <= a
    <3>1. m \in 1..a /\ n \in 1..a /\ s[m] = s[n]
      BY <1>3, <1>5, <2>2
    <3> QED BY <1>1, <1>9, <3>1 DEF Distinct, Apart
  <2>3. CASE ~(m <= a) /\ ~(n <= a)
    <3>1. m - a \in 1..b /\ n - a \in 1..b /\ m - a # n - a
      BY <2>3
    <3>2. t[m - a] = t[n - a]
      BY <1>3, <2>3
    <3> QED BY <1>1, <1>9, <3>1, <3>2 DEF Distinct, Apart
  <2>4. CASE (m <= a) # (n <= a)
    BY <1>9, <2>1, <2>4 DEF Apart
  <2> QED BY <2>2, <2>3, <2>4
<1> QED BY <1>2, <1>7, <1>8, <1>9

-----------------------------------------------------------------------------
(* Types, and what a step of a worker does.                                 *)

Probed == UNION {in.probe[q] : q \in Query}

WorkerState ==
    [pc : {"idle", "read", "decode", "scan", "gone"}, list : List \cup {0}, file : Nat,
     got : Seq(Entry), ask : SUBSET Query]

\* A list that is read is read for all that asked for it, one that is scanned for
\* those whose turn has not come.
WorkerTypes(me) ==
    /\ me.pc \in {"read", "decode"} =>
          me.list \in Probed /\ me.file \in File /\ me.ask = Askers(me.list)
    /\ me.pc = "scan" =>
          /\ me.list \in Probed /\ me.got # <<>>
          /\ me.ask # {} /\ me.ask \subseteq Askers(me.list)

Types ==
    /\ in \in Input
    /\ left \subseteq Probed /\ skipped \subseteq Probed
    /\ worker \in [Worker -> WorkerState]
    /\ \A w \in Worker : WorkerTypes(worker[w])
    /\ DOMAIN tops = Query
    /\ \A q \in Query : tops[q] \in Seq(Nears(in, q, Entry)) /\ Len(tops[q]) <= K
    /\ status \in [File -> {"open", "no decoder", "closed"}]
    /\ stage \in {"search", "rank", "done"}
    /\ live \subseteq Image
    /\ votes \in [Image -> Nat]
    /\ ranked \in Seq(Image) /\ Len(ranked) <= MaxResults

LEMMA ProbedLists ==
    ASSUME in \in Input
    PROVE  Probed \subseteq List /\ \A l \in Probed : Askers(l) # {} /\ Askers(l) \subseteq Query
<1>1. \A q \in Query : in.probe[q] \subseteq List
  BY InputAssumption DEF IsInput
<1>2. Probed \subseteq List
  BY <1>1 DEF Probed
<1>3. \A l \in Probed : Askers(l) # {}
  BY DEF Probed, Askers
<1> QED BY <1>2, <1>3 DEF Askers

Moves(w, m) == m \in WorkerState /\ worker' = [worker EXCEPT ![w] = m]

Takes(w, m) ==
    /\ worker[w].pc = "idle"
    /\ \E l \in left :
          /\ left' = left \ {l}
          /\ m = [pc |-> "read", list |-> l, file |-> 1, got |-> <<>>, ask |-> Askers(l)]
    /\ UNCHANGED <<tops, skipped>>

Leaves(w, m) ==
    /\ worker[w].pc = "idle" /\ left = {}
    /\ m.pc = "gone" /\ m \in WorkerState
    /\ UNCHANGED <<left, tops, skipped>>

\* What a file has of the list has been added.
Advances(w, m) ==
    /\ worker[w].pc \in {"read", "decode"}
    /\ m.list = worker[w].list /\ m.ask = worker[w].ask
    /\ m.file = worker[w].file + 1
    /\ m.got = worker[w].got \o Part(worker[w].list, worker[w].file)
    /\ \/ m.pc = "read" /\ m.file \in File
       \/ m.pc = "scan" /\ worker[w].file = Files /\ m.got # <<>>
       \/ m.pc = "idle" /\ worker[w].file = Files /\ m.got = <<>>
    /\ UNCHANGED <<left, tops, skipped>>

GivesUp(w, m) ==
    /\ worker[w].pc \in {"read", "decode"}
    /\ m = Idle
    /\ skipped' = skipped \cup {worker[w].list}
    /\ \E f \in File : status[f] # "open"
    /\ UNCHANGED <<left, tops>>

Opens(w, m) ==
    /\ worker[w].pc = "read"
    /\ m.pc = "decode"
    /\ m.list = worker[w].list /\ m.file = worker[w].file
    /\ m.got = worker[w].got /\ m.ask = worker[w].ask
    /\ UNCHANGED <<left, tops, skipped>>

\* The items of the list that a query is compared with.
Got(w, q) == [n \in DOMAIN worker[w].got |-> Item(q, worker[w].list, worker[w].got[n])]

Scans(w, m) ==
    /\ worker[w].pc = "scan"
    /\ \E q \in worker[w].ask :
          /\ tops' = [tops EXCEPT ![q] = PushAll(tops[q], KNN(Got(w, q), K), K)]
          /\ \/ worker[w].ask = {q} /\ m = Idle
             \/ /\ worker[w].ask # {q}
                /\ m.pc = "scan" /\ m.list = worker[w].list /\ m.file = worker[w].file
                /\ m.got = worker[w].got /\ m.ask = worker[w].ask \ {q}
    /\ UNCHANGED <<left, skipped>>

Elsewhere == <<in, status, live, rankVars>>

LEMMA StateIs ==
    ASSUME Types, NEW w \in Worker
    PROVE  /\ worker[w] \in WorkerState /\ WorkerTypes(worker[w])
           /\ worker[w] = [pc |-> worker[w].pc, list |-> worker[w].list, file |-> worker[w].file,
                           got |-> worker[w].got, ask |-> worker[w].ask]
<1>1. worker[w] \in WorkerState /\ WorkerTypes(worker[w])
  BY DEF Types
<1>2. \A m \in WorkerState :
         m = [pc |-> m.pc, list |-> m.list, file |-> m.file, got |-> m.got, ask |-> m.ask]
  BY DEF WorkerState
<1> QED BY <1>1, <1>2

LEMMA IdleIs == Idle \in WorkerState /\ WorkerTypes(Idle)
BY DEF Idle, WorkerState, WorkerTypes

LEMMA NextFileAdvances ==
    ASSUME Types, NEW w \in Worker, worker[w].pc \in {"read", "decode"},
           NEW got, got = worker[w].got \o Part(worker[w].list, worker[w].file),
           NextFile(w, got), UNCHANGED <<left, tops, skipped>>
    PROVE  \E m : Moves(w, m) /\ Advances(w, m)
<1>1. PICK l, f, ask : l = worker[w].list /\ f = worker[w].file /\ ask = worker[w].ask
  OBVIOUS
<1>2. /\ worker[w] \in WorkerState /\ f \in File /\ l \in List /\ l \in Probed
      /\ worker \in [Worker -> WorkerState] /\ in \in Input
      /\ ask \in SUBSET Query /\ worker[w].got \in Seq(Entry) /\ f \in Nat
  <2>1. worker[w] \in WorkerState /\ WorkerTypes(worker[w]) /\ in \in Input
    BY StateIs DEF Types
  <2>2. f \in File /\ l \in Probed
    BY <1>1, <2>1 DEF WorkerTypes
  <2>3. l \in List
    BY <2>1, <2>2, ProbedLists
  <2>4. worker[w].ask \in SUBSET Query /\ worker[w].got \in Seq(Entry)
    BY <2>1 DEF WorkerState
  <2>5. f \in Nat
    BY <2>2 DEF File
  <2>6. worker \in [Worker -> WorkerState]
    BY DEF Types
  <2> QED BY <1>1, <2>1, <2>2, <2>3, <2>4, <2>5, <2>6
<1>3. got \in Seq(Entry)
  <2>1. in.part[l][f] \in Seq(Entry)
    BY <1>2, StoredNext
  <2> QED BY <1>1, <1>2, <2>1, Joined DEF Part
<1> DEFINE next == CASE f < Files -> "read"
                     [] f = Files /\ got # <<>> -> "scan"
                     [] OTHER -> "idle"
<1>4. PICK pc : pc = next
  OBVIOUS
<1>5. f < Files \/ f = Files
  BY <1>2, BoundsAssumption DEF File
<1>6. \/ pc = "read" /\ f < Files
      \/ pc = "scan" /\ f = Files /\ got # <<>>
      \/ pc = "idle" /\ f = Files /\ got = <<>>
  <2>1. CASE f < Files
    <3>1. ~(f = Files)
      BY <1>2, <2>1, BoundsAssumption
    <3>2. pc = "read"
      BY <1>4, <2>1, <3>1, Zenon
    <3> QED BY <2>1, <3>2
  <2>2. CASE f = Files
    <3>1. ~(f < Files)
      BY <2>2, BoundsAssumption
    <3>2. pc = IF got # <<>> THEN "scan" ELSE "idle"
      BY <1>4, <2>2, <3>1, Zenon
    <3> QED BY <2>2, <3>2
  <2> QED BY <1>5, <2>1, <2>2
<1> DEFINE m == [pc |-> pc, list |-> l, file |-> f + 1, got |-> got, ask |-> ask]
<1>7. worker' = [worker EXCEPT ![w] =
            [pc |-> next, list |-> l, file |-> f + 1, got |-> got, ask |-> ask]]
  BY <1>1, Zenon DEF NextFile
<1> HIDE DEF next
<1>8. worker' = [worker EXCEPT ![w] = m]
  BY <1>4, <1>7, Zenon
<1>9. m \in WorkerState
  BY <1>2, <1>3, <1>6 DEF WorkerState
<1>10. pc = "read" => f + 1 \in File
  BY <1>2, <1>6, BoundsAssumption DEF File
<1>11. m.pc = pc /\ m.list = l /\ m.file = f + 1 /\ m.got = got /\ m.ask = ask
  OBVIOUS
<1> HIDE DEF m
<1>12. Advances(w, m)
  BY <1>1, <1>6, <1>10, <1>11 DEF Advances
<1> QED BY <1>8, <1>9, <1>12 DEF Moves

LEMMA TakeGoes ==
    ASSUME Types, NEW w \in Worker, Take(w)
    PROVE  \E m : Moves(w, m) /\ Takes(w, m)
<1>1. PICK l \in left :
         /\ left' = left \ {l}
         /\ worker' = [worker EXCEPT ![w] =
                [pc |-> "read", list |-> l, file |-> 1, got |-> <<>>, ask |-> Askers(l)]]
  BY DEF Take
<1> DEFINE m == [pc |-> "read", list |-> l, file |-> 1, got |-> <<>>, ask |-> Askers(l)]
<1>2. l \in Probed /\ l \in List /\ Askers(l) \subseteq Query
  BY ProbedLists DEF Types
<1>3. m \in WorkerState
  BY <1>2 DEF WorkerState
<1>4. worker[w].pc = "idle" /\ UNCHANGED <<tops, skipped>>
  BY DEF Take
<1> QED BY <1>1, <1>3, <1>4 DEF Moves, Takes

LEMMA LeaveGoes ==
    ASSUME Types, NEW w \in Worker, Leave(w)
    PROVE  \E m : Moves(w, m) /\ Leaves(w, m)
<1>1. /\ worker[w].pc = "idle" /\ left = {} /\ UNCHANGED <<left, tops, skipped>>
      /\ worker' = [worker EXCEPT ![w].pc = "gone"]
  BY DEF Leave
<1> DEFINE m == [worker[w] EXCEPT !.pc = "gone"]
<1>2. worker' = [worker EXCEPT ![w] = m]
  BY <1>1
<1>3. m \in WorkerState /\ m.pc = "gone"
  BY StateIs DEF WorkerState
<1> HIDE DEF m
<1> QED BY <1>1, <1>2, <1>3 DEF Moves, Leaves

LEMMA GiveUpGoes ==
    ASSUME Types, NEW w \in Worker, worker[w].pc \in {"read", "decode"}, GiveUp(w),
           UNCHANGED <<left, tops>>, \E f \in File : status[f] # "open"
    PROVE  \E m : Moves(w, m) /\ GivesUp(w, m)
<1>1. worker' = [worker EXCEPT ![w] = Idle] /\ skipped' = skipped \cup {worker[w].list}
  BY DEF GiveUp
<1>2. Idle \in WorkerState
  BY IdleIs
<1> QED BY <1>1, <1>2 DEF Moves, GivesUp

LEMMA ReadGoes ==
    ASSUME Types, NEW w \in Worker, Read(w)
    PROVE  \E m : Moves(w, m) /\ (Advances(w, m) \/ GivesUp(w, m) \/ Opens(w, m))
<1>1. worker[w].pc = "read" /\ UNCHANGED <<left, tops>>
  BY DEF Read
<1>2. worker[w].file \in File
  BY <1>1, StateIs DEF WorkerTypes
<1> DEFINE part == Part(worker[w].list, worker[w].file)
<1>3. CASE part = <<>> /\ NextFile(w, worker[w].got) /\ UNCHANGED skipped
  <2>1. worker[w].got = worker[w].got \o part
    <3>1. worker[w].got \in Seq(Entry)
      BY StateIs DEF WorkerState
    <3> QED BY <1>3, <3>1, ConcatEmptySeq
  <2> HIDE DEF part
  <2> QED BY <1>1, <1>3, <2>1, NextFileAdvances DEF part
<1>4. CASE status[worker[w].file] = "closed" /\ GiveUp(w)
  <2>1. \E f \in File : status[f] # "open"
    BY <1>2, <1>4
  <2> QED BY <1>1, <1>4, <2>1, GiveUpGoes
<1>5. CASE worker' = [worker EXCEPT ![w].pc = "decode"] /\ UNCHANGED skipped
  <2> DEFINE m == [worker[w] EXCEPT !.pc = "decode"]
  <2>1. worker' = [worker EXCEPT ![w] = m]
    BY <1>5
  <2>2. /\ m \in WorkerState /\ m.pc = "decode" /\ m.list = worker[w].list
        /\ m.file = worker[w].file /\ m.got = worker[w].got /\ m.ask = worker[w].ask
    BY StateIs DEF WorkerState
  <2> HIDE DEF m
  <2> QED BY <1>1, <1>5, <2>1, <2>2 DEF Moves, Opens
<1> QED BY <1>3, <1>4, <1>5 DEF Read

LEMMA DecodeGoes ==
    ASSUME Types, NEW w \in Worker, Decode(w)
    PROVE  \E m : Moves(w, m) /\ Advances(w, m)
<1>1. /\ worker[w].pc = "decode" /\ UNCHANGED <<left, tops, skipped>>
      /\ NextFile(w, worker[w].got \o Part(worker[w].list, worker[w].file))
  BY DEF Decode
<1> QED BY <1>1, NextFileAdvances

LEMMA DecodeClosedGoes ==
    ASSUME Types, NEW w \in Worker, DecodeClosed(w)
    PROVE  \/ UNCHANGED <<left, worker, tops, skipped>>
           \/ \E m : Moves(w, m) /\ GivesUp(w, m)
<1>1. worker[w].pc = "decode" /\ UNCHANGED <<left, tops>> /\ status[worker[w].file] # "open"
  BY DEF DecodeClosed
<1>2. \E f \in File : status[f] # "open"
  <2>1. worker[w].file \in File
    BY <1>1, StateIs DEF WorkerTypes
  <2> QED BY <1>1, <2>1
<1>3. CASE GiveUp(w)
  BY <1>1, <1>2, <1>3, GiveUpGoes
<1>4. CASE UNCHANGED <<worker, skipped>>
  BY <1>1, <1>4
<1> QED BY <1>3, <1>4 DEF DecodeClosed

LEMMA SmallestIs ==
    ASSUME NEW S \in SUBSET Query, S # {}
    PROVE  Min(S) \in S
<1>1. S \in SUBSET Nat
  BY SetsAssumption
<1>2. \E m \in S : \A t \in S : m <= t
  BY <1>1, Least
<1> QED BY <1>2 DEF Min

LEMMA ScanGoes ==
    ASSUME Types, NEW w \in Worker, Scan(w)
    PROVE  \E m : Moves(w, m) /\ Scans(w, m)
<1> DEFINE q == Min(worker[w].ask)
           next == [worker[w] EXCEPT !.ask = worker[w].ask \ {q}]
           m == IF worker[w].ask = {q} THEN Idle ELSE next
<1>1. /\ worker[w].pc = "scan" /\ UNCHANGED <<left, skipped>>
      /\ tops' = [tops EXCEPT ![q] = PushAll(tops[q], KNN(Got(w, q), K), K)]
      /\ worker' = [worker EXCEPT ![w] = m]
  BY DEF Scan, Got
<1>2. worker[w] \in WorkerState /\ worker[w].ask # {}
  BY <1>1, StateIs DEF WorkerTypes
<1>3. worker[w].ask \subseteq Query
  BY <1>2 DEF WorkerState
<1>4. q \in worker[w].ask
  BY <1>2, <1>3, SmallestIs
<1> HIDE DEF q
<1>5. /\ next \in WorkerState /\ next.pc = "scan" /\ next.list = worker[w].list
      /\ next.file = worker[w].file /\ next.got = worker[w].got
      /\ next.ask = worker[w].ask \ {q}
  BY <1>1, <1>2 DEF WorkerState
<1> HIDE DEF next
<1>6. m \in WorkerState
  BY <1>5, IdleIs
<1>7. \/ worker[w].ask = {q} /\ m = Idle
      \/ worker[w].ask # {q} /\ m = next
  OBVIOUS
<1> HIDE DEF m
<1>8. Scans(w, m)
  BY <1>1, <1>4, <1>5, <1>7 DEF Scans
<1> QED BY <1>1, <1>6, <1>8 DEF Moves

\* What a worker's step may do.
Goes(w, m) ==
    \/ Takes(w, m) \/ Leaves(w, m) \/ Advances(w, m)
    \/ GivesUp(w, m) \/ Opens(w, m) \/ Scans(w, m)

LEMMA WorkerGoes ==
    ASSUME Types, NEW w \in Worker, WorkerStep(w)
    PROVE  /\ UNCHANGED Elsewhere
           /\ \/ UNCHANGED <<left, worker, tops, skipped>>
              \/ \E m : Moves(w, m) /\ Goes(w, m)
<1>1. UNCHANGED Elsewhere
  BY DEF WorkerStep, Take, Leave, Read, Decode, DecodeClosed, Scan, Elsewhere, rankVars
<1>2. CASE Take(w)
  BY <1>1, <1>2, TakeGoes DEF Goes
<1>3. CASE Leave(w)
  BY <1>1, <1>3, LeaveGoes DEF Goes
<1>4. CASE Read(w)
  BY <1>1, <1>4, ReadGoes DEF Goes
<1>5. CASE Decode(w)
  BY <1>1, <1>5, DecodeGoes DEF Goes
<1>6. CASE DecodeClosed(w)
  BY <1>1, <1>6, DecodeClosedGoes DEF Goes
<1>7. CASE Scan(w)
  BY <1>1, <1>7, ScanGoes DEF Goes
<1> QED BY <1>2, <1>3, <1>4, <1>5, <1>6, <1>7 DEF WorkerStep

LEMMA MovedIs ==
    ASSUME Types, NEW w \in Worker, NEW m, Moves(w, m)
    PROVE  /\ m \in WorkerState
           /\ worker' \in [Worker -> WorkerState] /\ worker'[w] = m
           /\ \A v \in Worker : v # w => worker'[v] = worker[v]
BY DEF Moves, Types

LEMMA GotIs ==
    ASSUME Types, NEW w \in Worker, worker[w].pc = "scan", NEW q \in Query
    PROVE  /\ Got(w, q) \in Seq(Nears(in, q, Entry))
           /\ Range(Got(w, q)) = Nears(in, q, Range(worker[w].got))
           /\ Distinct(worker[w].got) => Distinct(Got(w, q))
<1>1. PICK s, l : s = worker[w].got /\ l = worker[w].list
  OBVIOUS
<1>2. s \in Seq(Entry) /\ l \in List
  <2>1. worker[w] \in WorkerState /\ l \in Probed /\ in \in Input
    BY <1>1, StateIs DEF WorkerTypes, Types
  <2> QED BY <1>1, <2>1, ProbedLists DEF WorkerState
<1>3. PICK N \in Nat : N = Len(s) /\ DOMAIN s = 1..N /\ \A n \in 1..N : s[n] \in Entry
  BY <1>2, LenProperties, ElementOfSeq
<1> DEFINE r == Got(w, q)
<1>4. DOMAIN r = 1..N /\ \A n \in 1..N : r[n] = Near(in, q, s[n])
  BY <1>1, <1>2, <1>3, ItemIsNear DEF Got
<1>5. r \in Seq(Nears(in, q, Entry))
  <2>1. r = [n \in 1..N |-> r[n]]
    BY <1>1, <1>3 DEF Got
  <2>2. \A n \in 1..N : r[n] \in Nears(in, q, Entry)
    BY <1>3, <1>4 DEF Nears
  <2> HIDE DEF r
  <2> QED BY <2>1, <2>2, SeqDef
<1> HIDE DEF r
<1>6. Range(r) = Nears(in, q, Range(s))
  <2>1. \A y \in Range(r) : \E n \in 1..N : y = Near(in, q, s[n]) /\ s[n] \in Range(s)
    BY <1>3, <1>4 DEF Range
  <2>2. \A e \in Range(s) : \E n \in 1..N : Near(in, q, e) = r[n] /\ r[n] \in Range(r)
    BY <1>3, <1>4 DEF Range
  <2> QED BY <2>1, <2>2 DEF Nears
<1>7. Distinct(s) => Distinct(r)
  <2>1. \A d, e : Near(in, q, d) = Near(in, q, e) => d = e
    BY DEF Near
  <2> QED BY <1>3, <1>4, <2>1 DEF Distinct
<1> QED BY <1>1, <1>5, <1>6, <1>7 DEF r

LEMMA SameSearch ==
    ASSUME in' = in
    PROVE  /\ Probed' = Probed /\ Image' = Image /\ Idle' = Idle
           /\ \A l : Askers(l)' = Askers(l)
           /\ \A l, f : Part(l, f)' = Part(l, f)
BY DEF Probed, Image, Askers, Part, Idle

LEMMA MovesTypes ==
    ASSUME Types, NEW w \in Worker, NEW m, Moves(w, m), Goes(w, m), UNCHANGED Elsewhere
    PROVE  Types'
<1>1. /\ in' = in /\ status' = status /\ live' = live /\ stage' = stage
      /\ votes' = votes /\ ranked' = ranked
  BY DEF Elsewhere, rankVars
<1>2. /\ Probed' = Probed /\ Image' = Image /\ Idle' = Idle
      /\ \A l : Askers(l)' = Askers(l)
  BY <1>1, SameSearch
<1>3. /\ m \in WorkerState
      /\ worker' \in [Worker -> WorkerState] /\ worker'[w] = m
      /\ \A v \in Worker : v # w => worker'[v] = worker[v]
  BY MovedIs
<1>4. worker[w] \in WorkerState /\ WorkerTypes(worker[w])
  BY StateIs
<1>5. /\ in \in Input /\ left \subseteq Probed /\ skipped \subseteq Probed
      /\ DOMAIN tops = Query
      /\ \A q \in Query : tops[q] \in Seq(Nears(in, q, Entry)) /\ Len(tops[q]) <= K
      /\ Probed \subseteq List
  BY ProbedLists DEF Types
<1>6. /\ left' \subseteq Probed /\ skipped' \subseteq Probed /\ WorkerTypes(m)
      /\ DOMAIN tops' = Query
      /\ \A q \in Query : tops'[q] \in Seq(Nears(in, q, Entry)) /\ Len(tops'[q]) <= K
  <2>1. CASE Takes(w, m)
    <3>1. PICK l \in left :
             /\ left' = left \ {l}
             /\ m = [pc |-> "read", list |-> l, file |-> 1, got |-> <<>>, ask |-> Askers(l)]
      BY <2>1 DEF Takes
    <3>2. 1 \in File
      BY BoundsAssumption DEF File
    <3>3. m.pc = "read" /\ m.list = l /\ m.file = 1 /\ m.ask = Askers(l) /\ l \in Probed
      BY <1>5, <3>1
    <3>4. WorkerTypes(m)
      BY <3>2, <3>3 DEF WorkerTypes
    <3> QED BY <1>5, <2>1, <3>1, <3>4 DEF Takes
  <2>2. CASE Leaves(w, m)
    BY <1>5, <2>2 DEF Leaves, WorkerTypes
  <2>3. CASE Advances(w, m)
    <3>1. worker[w].list \in Probed /\ worker[w].ask = Askers(worker[w].list)
      BY <1>4, <2>3 DEF Advances, WorkerTypes
    <3>2. Askers(worker[w].list) # {}
      BY <1>5, <3>1, ProbedLists
    <3>3. WorkerTypes(m)
      BY <2>3, <3>1, <3>2 DEF Advances, WorkerTypes
    <3> QED BY <1>5, <2>3, <3>3 DEF Advances
  <2>4. CASE GivesUp(w, m)
    <3>1. worker[w].list \in Probed
      BY <1>4, <2>4 DEF GivesUp, WorkerTypes
    <3>2. WorkerTypes(m)
      BY <2>4, IdleIs DEF GivesUp
    <3> QED BY <1>5, <2>4, <3>1, <3>2 DEF GivesUp
  <2>5. CASE Opens(w, m)
    <3>1. WorkerTypes(m)
      BY <1>4, <2>5 DEF Opens, WorkerTypes
    <3> QED BY <1>5, <2>5, <3>1 DEF Opens
  <2>6. CASE Scans(w, m)
    <3>1. PICK q \in worker[w].ask :
             /\ tops' = [tops EXCEPT ![q] = PushAll(tops[q], KNN(Got(w, q), K), K)]
             /\ \/ worker[w].ask = {q} /\ m = Idle
                \/ /\ worker[w].ask # {q}
                   /\ m.pc = "scan" /\ m.list = worker[w].list /\ m.file = worker[w].file
                   /\ m.got = worker[w].got /\ m.ask = worker[w].ask \ {q}
      BY <2>6 DEF Scans
    <3>2. worker[w].pc = "scan" /\ UNCHANGED <<left, skipped>>
      BY <2>6 DEF Scans
    <3>3. WorkerTypes(m)
      <4>1. CASE m = Idle
        BY <4>1, IdleIs
      <4>2. CASE m.pc = "scan" /\ worker[w].ask # {q} /\ m.list = worker[w].list
                 /\ m.got = worker[w].got /\ m.ask = worker[w].ask \ {q}
        <5>1. worker[w].ask \ {q} # {}
          BY <3>1, <4>2
        <5> QED BY <1>4, <3>2, <4>2, <5>1 DEF WorkerTypes
      <4> QED BY <3>1, <4>1, <4>2
    <3>4. q \in Query
      BY <1>4, <3>1 DEF WorkerState
    <3>5. /\ PushAll(tops[q], KNN(Got(w, q), K), K) \in Seq(Nears(in, q, Entry))
          /\ Len(PushAll(tops[q], KNN(Got(w, q), K), K)) <= K
      <4>1. PICK X, got, h : X = Nears(in, q, Entry) /\ got = Got(w, q) /\ h = tops[q]
        OBVIOUS
      <4>2. (\A x \in X : x.dist \in Nat) /\ K \in Nat
        BY <1>5, <3>4, <4>1, NearsAreWeighed, BoundsAssumption
      <4>3. got \in Seq(X) /\ h \in Seq(X) /\ Len(h) <= K
        BY <1>5, <3>2, <3>4, <4>1, GotIs
      <4>4. KNN(got, K) \in Seq(X)
        BY <4>2, <4>3, KNNTypes
      <4>5. PushAll(h, KNN(got, K), K) \in Seq(X) /\ Len(PushAll(h, KNN(got, K), K)) <= K
        BY <4>2, <4>3, <4>4, PushAllTypes
      <4> QED BY <4>1, <4>5
    <3>6. tops'[q] = PushAll(tops[q], KNN(Got(w, q), K), K) /\ DOMAIN tops' = Query
          /\ \A p \in Query : p # q => tops'[p] = tops[p]
      BY <1>5, <3>1, <3>4
    <3> QED BY <1>5, <3>2, <3>3, <3>5, <3>6
  <2> QED BY <2>1, <2>2, <2>3, <2>4, <2>5, <2>6 DEF Goes
<1>7. \A v \in Worker : WorkerTypes(worker'[v])
  BY <1>3, <1>6 DEF Types
<1>8. \A v \in Worker : WorkerTypes(worker[v])'
  BY <1>2, <1>7 DEF WorkerTypes, File
<1> QED BY <1>1, <1>2, <1>3, <1>5, <1>6, <1>8 DEF Types, WorkerState, File

-----------------------------------------------------------------------------
(* What the answer is made of.                                              *)

\* What WithPath has after each image.
Looks(g, s, S) ==
    /\ g[0] = <<>>
    /\ \A n \in 1..Len(s) : g[n] = IF s[n] \in S THEN Append(g[n - 1], s[n]) ELSE g[n - 1]

LEMMA WithPathLooks ==
    ASSUME NEW X, NEW s \in Seq(X)
    PROVE  \E g : Looks(g, s, live) /\ WithPath(s) = g[Len(s)]
<1>1. PICK N \in Nat : N = Len(s) /\ DOMAIN s = 1..N
  BY LenProperties
<1>2. \A n \in 1..N : s[n] \in X
  BY <1>1, ElementOfSeq
<1> DEFINE Put(b, x) == IF x \in live THEN Append(b, x) ELSE b
           Step(f) == [t \in SUBSET (1..N) |->
                IF t = {} THEN <<>> ELSE Put(f[t \ {Max(t)}], s[Max(t)])]
           it == CHOOSE f : f = Step(f)
<1>3. WithPath(s) = it[1..N]
  BY <1>1 DEF WithPath, FoldLeft, MapThenFoldSet
<1>4. it = Step(it)
  <2> DEFINE G == [x \in Seq(X) \X (1..N) |-> Put(x[1], s[x[2]])]
  <2>1. G \in [Seq(X) \X (1..N) -> Seq(X)]
    <3>1. ASSUME NEW b \in Seq(X), NEW n \in 1..N PROVE Put(b, s[n]) \in Seq(X)
      BY <1>2, <3>1, AppendProperties
    <3> HIDE DEF Put
    <3> QED BY <3>1
  <2>2. \A b \in Seq(X), n \in 1..N : G[<<b, n>>] = Put(b, s[n])
    OBVIOUS
  <2> HIDE DEF G, Put
  <2>3. PICK g \in [SUBSET (1..N) -> Seq(X)] : Folds(g, <<>>, G, N)
    <3>1. PICK A, a : A = Seq(X) /\ a = <<>>
      OBVIOUS
    <3>2. a \in A /\ G \in [A \X (1..N) -> A]
      BY <2>1, <3>1
    <3>3. \E g \in [SUBSET (1..N) -> A] : Folds(g, a, G, N)
      BY <3>2, FoldExists
    <3> QED BY <3>1, <3>3
  <2>4. ASSUME NEW t \in SUBSET (1..N)
        PROVE  g[t] = IF t = {} THEN <<>> ELSE Put(g[t \ {Max(t)}], s[Max(t)])
    <3>1. CASE t = {}
      BY <2>3, <3>1 DEF Folds
    <3>2. CASE t # {}
      <4>1. g[t] = G[<<g[t \ {Max(t)}], Max(t)>>]
        BY <2>3, <3>2 DEF Folds
      <4>2. g[t \ {Max(t)}] \in Seq(X)
        OBVIOUS
      <4>3. Max(t) \in 1..N
        BY <3>2, LargestIs
      <4> QED BY <2>2, <3>2, <4>1, <4>2, <4>3
    <3> QED BY <3>1, <3>2
  <2>5. g = Step(g)
    BY <2>4
  <2> QED BY <2>5
<1> HIDE DEF it, Put
<1> DEFINE p == [n \in 0..N |-> it[1..n]]
<1>5. p[0] = <<>>
  <2>1. 1..0 = {} /\ {} \in SUBSET (1..N)
    OBVIOUS
  <2> QED BY <1>4, <2>1
<1>6. ASSUME NEW n \in 1..N PROVE p[n] = Put(p[n - 1], s[n])
  <2>1. 1..n \in SUBSET (1..N) /\ n - 1 \in 0..N /\ n \in Nat \ {0}
    OBVIOUS
  <2>2. Max(1..n) = n /\ (1..n) \ {n} = 1..(n - 1) /\ 1..n # {}
    BY <2>1, FirstOnes
  <2>3. it[1..n] = Put(it[(1..n) \ {Max(1..n)}], s[Max(1..n)])
    BY <1>4, <2>1, <2>2
  <2>4. p[n] = it[1..n] /\ p[n - 1] = it[1..(n - 1)]
    BY <2>1
  <2> HIDE DEF p
  <2> QED BY <2>2, <2>3, <2>4
<1>7. p[N] = it[1..N]
  OBVIOUS
<1> HIDE DEF p
<1> QED BY <1>1, <1>3, <1>5, <1>6, <1>7 DEF Looks, Put

\* r has of the first n images of s those of S, in their order.
Picked(r, s, S, n) ==
    /\ Len(r) <= n
    /\ \A m \in 1..Len(r) : r[m] \in S /\ \E i \in 1..n : r[m] = s[i]
    /\ \A m, k \in 1..Len(r) : m < k => \E i, j \in 1..n : i < j /\ r[m] = s[i] /\ r[k] = s[j]
    /\ \A i \in 1..n : s[i] \in S => \E m \in 1..Len(r) : r[m] = s[i]

LEMMA PickedNext ==
    ASSUME NEW X, NEW s, NEW S, NEW n \in Nat \ {0}, s[n] \in X,
           NEW b \in Seq(X), Picked(b, s, S, n - 1), NEW r,
           r = IF s[n] \in S THEN Append(b, s[n]) ELSE b
    PROVE  r \in Seq(X) /\ Picked(r, s, S, n)
<1>1. PICK L \in Nat : L = Len(b)
  BY LenProperties
<1>2. \A i \in 1..(n - 1) : i \in 1..n /\ i < n
  OBVIOUS
<1>3. \A i \in 1..n : i \in 1..(n - 1) \/ i = n
  OBVIOUS
<1>4. CASE s[n] \notin S
  <2>1. r = b
    BY <1>4
  <2>2. \A i \in 1..n : s[i] \in S => \E m \in 1..L : b[m] = s[i]
    BY <1>1, <1>3, <1>4 DEF Picked
  <2>3. \A m \in 1..L : b[m] \in S /\ \E i \in 1..n : b[m] = s[i]
    BY <1>1, <1>2 DEF Picked
  <2>4. \A m, k \in 1..L : m < k => \E i, j \in 1..n : i < j /\ b[m] = s[i] /\ b[k] = s[j]
    BY <1>1, <1>2 DEF Picked
  <2>5. L <= n
    BY <1>1 DEF Picked
  <2> QED BY <1>1, <2>1, <2>2, <2>3, <2>4, <2>5 DEF Picked
<1>5. CASE s[n] \in S
  <2>1. /\ r \in Seq(X) /\ Len(r) = L + 1 /\ r[L + 1] = s[n]
        /\ \A m \in 1..L : r[m] = b[m]
    BY <1>1, <1>5, AppendProperties
  <2>2. \A m \in 1..(L + 1) : m \in 1..L \/ m = L + 1
    OBVIOUS
  <2>3. n \in 1..n
    OBVIOUS
  <2>4. \A m \in 1..L : b[m] \in S /\ \E i \in 1..n : i < n /\ b[m] = s[i]
    BY <1>1, <1>2 DEF Picked
  <2>5. \A m \in 1..(L + 1) : r[m] \in S /\ \E i \in 1..n : r[m] = s[i]
    BY <1>5, <2>1, <2>2, <2>3, <2>4
  <2>6. ASSUME NEW m \in 1..(L + 1), NEW k \in 1..(L + 1), m < k
        PROVE  \E i, j \in 1..n : i < j /\ r[m] = s[i] /\ r[k] = s[j]
    <3>1. m \in 1..L
      BY <2>6
    <3>2. CASE k = L + 1
      BY <2>1, <2>3, <2>4, <3>1, <3>2
    <3>3. CASE k \in 1..L
      <4>1. \E i, j \in 1..(n - 1) : i < j /\ b[m] = s[i] /\ b[k] = s[j]
        BY <1>1, <2>6, <3>1, <3>3 DEF Picked
      <4> QED BY <1>2, <2>1, <3>1, <3>3, <4>1
    <3> QED BY <2>2, <3>2, <3>3
  <2>7. ASSUME NEW i \in 1..n, s[i] \in S PROVE \E m \in 1..(L + 1) : r[m] = s[i]
    <3>1. CASE i = n
      BY <2>1, <3>1
    <3>2. CASE i \in 1..(n - 1)
      <4>1. PICK m \in 1..L : b[m] = s[i]
        BY <1>1, <2>7, <3>2 DEF Picked
      <4>2. m \in 1..(L + 1)
        BY <4>1
      <4> QED BY <2>1, <4>1, <4>2
    <3> QED BY <1>3, <3>1, <3>2
  <2>8. L + 1 <= n
    BY <1>1 DEF Picked
  <2>9. Len(r) = L + 1 /\ Len(r) <= n
    BY <2>1, <2>8
  <2>10. \A m \in 1..Len(r) : r[m] \in S /\ \E i \in 1..n : r[m] = s[i]
    BY <2>5, <2>9
  <2>11. \A m, k \in 1..Len(r) : m < k => \E i, j \in 1..n : i < j /\ r[m] = s[i] /\ r[k] = s[j]
    <3> SUFFICES ASSUME NEW m \in 1..Len(r), NEW k \in 1..Len(r), m < k
                 PROVE  \E i, j \in 1..n : i < j /\ r[m] = s[i] /\ r[k] = s[j]
      OBVIOUS
    <3>1. m \in 1..(L + 1) /\ k \in 1..(L + 1)
      BY <2>9
    <3> QED BY <2>6, <3>1
  <2>12. \A i \in 1..n : s[i] \in S => \E m \in 1..Len(r) : r[m] = s[i]
    BY <2>7, <2>9
  <2> QED BY <2>1, <2>9, <2>10, <2>11, <2>12, Zenon DEF Picked
<1> QED BY <1>4, <1>5

LEMMA WithPathPicks ==
    ASSUME NEW X, NEW s \in Seq(X)
    PROVE  WithPath(s) \in Seq(X) /\ Picked(WithPath(s), s, live, Len(s))
<1>1. PICK N \in Nat : N = Len(s) /\ DOMAIN s = 1..N /\ \A n \in 1..N : s[n] \in X
  BY LenProperties, ElementOfSeq
<1>2. PICK g : Looks(g, s, live) /\ WithPath(s) = g[N]
  BY <1>1, WithPathLooks
<1> DEFINE H == {n \in 0..N : g[n] \in Seq(X) /\ Picked(g[n], s, live, n)}
<1>3. 0 \in H
  <2>1. PICK r : r = g[0] /\ r \in Seq(X) /\ Len(r) = 0
    BY <1>2, EmptySeq DEF Looks
  <2>2. 1..Len(r) = {} /\ 1..0 = {} /\ Len(r) <= 0
    BY <2>1
  <2>3. Picked(r, s, live, 0)
    BY <2>2 DEF Picked
  <2> QED BY <2>1, <2>3
<1>4. NextHas(H, N)
  <2> SUFFICES ASSUME NEW n \in 1..N, n - 1 \in H PROVE n \in H
    BY DEF NextHas
  <2>1. PICK b, r : b = g[n - 1] /\ r = g[n]
    OBVIOUS
  <2>2. b \in Seq(X) /\ Picked(b, s, live, n - 1)
    BY <2>1
  <2>3. r = IF s[n] \in live THEN Append(b, s[n]) ELSE b
    BY <1>1, <1>2, <2>1 DEF Looks
  <2>4. n \in Nat \ {0} /\ s[n] \in X
    BY <1>1
  <2>5. r \in Seq(X) /\ Picked(r, s, live, n)
    BY <2>2, <2>3, <2>4, PickedNext
  <2> QED BY <2>1, <2>5
<1>5. N \in H
  <2> HIDE DEF H
  <2> QED BY <1>3, <1>4, ReachesAll
<1> QED BY <1>1, <1>2, <1>5

LEMMA ImagesAreFinite ==
    ASSUME in \in Input
    PROVE  IsFiniteSet(Image)
<1> DEFINE f == [e \in Entry |-> in.image[e]]
<1>1. f \in Surjection(Entry, Image)
  BY DEF Image, Surjection
<1> HIDE DEF f
<1> QED BY <1>1, SetsAssumption, FS_Surjection

\* The images that have votes, in some order.
LEMMA VotedFor ==
    ASSUME Types, NEW s \in SetToSeqs({i \in Image : votes[i] > 0})
    PROVE  /\ s \in Seq(Image) /\ Distinct(s)
           /\ \A i \in Image : votes[i] > 0 => \E n \in 1..Len(s) : s[n] = i
<1> DEFINE V == {i \in Image : votes[i] > 0}
<1>1. V \subseteq Image
  OBVIOUS
<1>2. IsFiniteSet(V)
  <2>1. IsFiniteSet(Image)
    BY ImagesAreFinite DEF Types
  <2> HIDE DEF V
  <2> QED BY <1>1, <2>1, FS_Subset
<1>3. PICK c \in Nat : c = Cardinality(V)
  <2> HIDE DEF V
  <2> QED BY <1>2, FS_CardinalityType
<1>4. s \in [1..c -> V] /\ \A m, n \in 1..c : m # n => s[m] # s[n]
  BY <1>3 DEF SetToSeqs
<1>5. \A i \in V : \E n \in 1..c : s[n] = i
  <2> HIDE DEF V
  <2>1. s \in Injection(1..c, V)
    BY <1>4 DEF Injection, IsInjective
  <2>2. IsFiniteSet(1..c) /\ Cardinality(1..c) = c
    BY FS_Interval
  <2> DEFINE R == {s[n] : n \in 1..c}
  <2>3. s \in Surjection(1..c, R) /\ s \in Injection(1..c, R) /\ R \subseteq V
    BY <1>4 DEF Surjection, Injection, IsInjective
  <2> HIDE DEF R
  <2>4. Cardinality(R) = c
    BY <2>2, <2>3, FS_Surjection
  <2>5. R = V
    BY <1>2, <1>3, <2>3, <2>4, FS_Subset
  <2> QED BY <2>5 DEF R
<1>6. Len(s) = c /\ DOMAIN s = 1..c
  BY <1>4
<1>7. s \in Seq(Image)
  BY <1>1, <1>4
<1> QED BY <1>4, <1>5, <1>6, <1>7 DEF Distinct

LEMMA FirstFewIs ==
    ASSUME NEW X, NEW s \in Seq(X)
    PROVE  /\ FirstFew(s) \in Seq(X) /\ Len(FirstFew(s)) <= Len(s)
           /\ Len(FirstFew(s)) <= MaxResults
           /\ Len(FirstFew(s)) = MaxResults \/ Len(FirstFew(s)) = Len(s)
           /\ \A n \in 1..Len(FirstFew(s)) : FirstFew(s)[n] = s[n]
<1>1. PICK L \in Nat : L = Len(s)
  BY LenProperties
<1>2. PICK c \in Nat :
         FirstFew(s) = SubSeq(s, 1, c) /\ c <= L /\ c <= MaxResults /\ (c = MaxResults \/ c = L)
  <2> DEFINE d == IF L < MaxResults THEN L ELSE MaxResults
  <2>1. d \in Nat /\ d <= L /\ d <= MaxResults /\ (d = MaxResults \/ d = L)
    BY BoundsAssumption
  <2>2. FirstFew(s) = SubSeq(s, 1, d)
    BY <1>1 DEF FirstFew
  <2> HIDE DEF d
  <2> QED BY <2>1, <2>2
<1>3. \A n \in 1..c : s[n] \in X
  <2>1. \A n \in 1..c : n \in 1..L
    BY <1>2
  <2> QED BY <1>1, <2>1, ElementOfSeq
<1>4. /\ SubSeq(s, 1, c) \in Seq(X)
      /\ Len(SubSeq(s, 1, c)) = IF 1 <= c THEN c - 1 + 1 ELSE 0
      /\ \A n \in 1..(c - 1 + 1) : SubSeq(s, 1, c)[n] = s[1 + n - 1]
  <2>1. 1 \in Int /\ c \in Int
    OBVIOUS
  <2> QED BY <1>3, <2>1, SubSeqProperties
<1>5. PICK t : t = FirstFew(s) /\ t = SubSeq(s, 1, c)
  BY <1>2
<1>6. t \in Seq(X) /\ Len(t) = c /\ \A n \in 1..c : t[n] = s[n]
  <2>1. t \in Seq(X) /\ Len(t) = c
    BY <1>4, <1>5
  <2>2. \A n \in 1..c : n \in 1..(c - 1 + 1) /\ 1 + n - 1 = n
    OBVIOUS
  <2> QED BY <1>4, <1>5, <2>1, <2>2
<1> QED BY <1>1, <1>2, <1>5, <1>6

LEMMA SupportCounts ==
    ASSUME NEW i
    PROVE  Cardinality(Support(i)) \in Nat
<1>1. IsFiniteSet(Query \X (1..K))
  <2>1. IsFiniteSet(Query) /\ IsFiniteSet(1..K)
    BY SetsAssumption, BoundsAssumption, FS_Interval
  <2> QED BY <2>1, FS_Product
<1>2. Support(i) \subseteq Query \X (1..K)
  BY DEF Support
<1> QED BY <1>1, <1>2, FS_Subset, FS_CardinalityType

\* The steps of a reload, of a deletion and of the end leave the workers alone.
Outside ==
    \/ \E f \in File : CloseDecoder(f)
    \/ \E f \in File : CloseFile(f)
    \/ \E i \in live : DeleteImage(i)
    \/ Group
    \/ Rank

LEMMA OutsideLeaves ==
    ASSUME Outside
    PROVE  UNCHANGED <<in, left, worker, tops, skipped, crashed>>
BY DEF Outside, CloseDecoder, CloseFile, DeleteImage, Group, Rank, searchVars

LEMMA NextIs ==
    ASSUME [Next]_vars
    PROVE  (\E w \in Worker : WorkerStep(w)) \/ Outside \/ UNCHANGED vars
BY DEF Next, Outside, Ended

\* The rest of the state has its types after such a step.
LEMMA OutsideTypes ==
    ASSUME Types, Outside
    PROVE  /\ status' \in [File -> {"open", "no decoder", "closed"}]
           /\ stage' \in {"search", "rank", "done"}
           /\ live' \subseteq Image
           /\ votes' \in [Image -> Nat]
           /\ ranked' \in Seq(Image) /\ Len(ranked') <= MaxResults
<1>1. /\ status \in [File -> {"open", "no decoder", "closed"}]
      /\ stage \in {"search", "rank", "done"}
      /\ live \subseteq Image
      /\ votes \in [Image -> Nat]
      /\ ranked \in Seq(Image) /\ Len(ranked) <= MaxResults
  BY DEF Types
<1>2. ASSUME NEW f \in File, CloseDecoder(f) \/ CloseFile(f)
      PROVE  /\ status' \in [File -> {"open", "no decoder", "closed"}]
             /\ UNCHANGED <<live, stage, votes, ranked>>
  BY <1>1, <1>2 DEF CloseDecoder, CloseFile, rankVars
<1>3. ASSUME NEW i \in live, DeleteImage(i)
      PROVE  live' \subseteq live /\ UNCHANGED <<status, stage, votes, ranked>>
  BY <1>3 DEF DeleteImage, rankVars
<1>4. CASE Group
  <2>1. /\ stage' = "rank" /\ UNCHANGED <<status, live, ranked>>
        /\ votes' = [i \in Image |-> IF i \in live THEN Cardinality(Support(i)) ELSE 0]
    BY <1>4 DEF Group
  <2>2. votes' \in [Image -> Nat]
    BY <2>1, SupportCounts
  <2> QED BY <1>1, <2>1, <2>2
<1>5. CASE Rank
  <2>1. PICK s \in SetToSeqs({i \in Image : votes[i] > 0}) : ranked' = WithPath(FirstFew(s))
    BY <1>5 DEF Rank
  <2>2. stage' = "done" /\ UNCHANGED <<status, live, votes>>
    BY <1>5 DEF Rank
  <2>3. s \in Seq(Image)
    BY VotedFor
  <2>4. FirstFew(s) \in Seq(Image) /\ Len(FirstFew(s)) <= MaxResults /\ Len(FirstFew(s)) \in Nat
    BY <2>3, FirstFewIs, LenProperties
  <2>5. ranked' \in Seq(Image) /\ Len(ranked') <= Len(FirstFew(s))
    BY <2>1, <2>4, WithPathPicks DEF Picked
  <2>6. Len(ranked') <= MaxResults
    BY <2>4, <2>5, BoundsAssumption, LenProperties
  <2> QED BY <1>1, <2>2, <2>5, <2>6
<1> QED BY <1>1, <1>2, <1>3, <1>4, <1>5 DEF Outside

LEMMA SameTypes ==
    ASSUME Types, UNCHANGED <<in, left, worker, tops, skipped>>,
           status' \in [File -> {"open", "no decoder", "closed"}],
           stage' \in {"search", "rank", "done"},
           live' \subseteq Image, votes' \in [Image -> Nat],
           ranked' \in Seq(Image), Len(ranked') <= MaxResults
    PROVE  Types'
<1>1. Probed' = Probed /\ Image' = Image /\ \A l : Askers(l)' = Askers(l)
  BY SameSearch
<1>2. \A w \in Worker : WorkerTypes(worker[w])'
  BY <1>1 DEF Types, WorkerTypes, File
<1> QED BY <1>1, <1>2 DEF Types, WorkerState, File

LEMMA TypesNext ==
    ASSUME Types, [Next]_vars
    PROVE  Types'
<1>1. ASSUME NEW w \in Worker, WorkerStep(w) PROVE Types'
  <2>1. /\ UNCHANGED Elsewhere
        /\ \/ UNCHANGED <<left, worker, tops, skipped>>
           \/ \E m : Moves(w, m) /\ Goes(w, m)
    BY <1>1, WorkerGoes
  <2>2. CASE UNCHANGED <<left, worker, tops, skipped>>
    <3>1. /\ in' = in /\ status' = status /\ live' = live /\ stage' = stage
          /\ votes' = votes /\ ranked' = ranked
      BY <2>1 DEF Elsewhere, rankVars
    <3> QED BY <2>2, <3>1, SameTypes DEF Types
  <2>3. ASSUME NEW m, Moves(w, m), Goes(w, m) PROVE Types'
    BY <2>1, <2>3, MovesTypes
  <2> QED BY <2>1, <2>2, <2>3
<1>2. CASE Outside
  <2>1. UNCHANGED <<in, left, worker, tops, skipped>>
    BY <1>2, OutsideLeaves
  <2> QED BY <1>2, <2>1, OutsideTypes, SameTypes
<1>3. CASE UNCHANGED vars
  <2>1. /\ UNCHANGED <<in, left, worker, tops, skipped>> /\ status' = status /\ live' = live
        /\ stage' = stage /\ votes' = votes /\ ranked' = ranked
    BY <1>3 DEF vars, searchVars, rankVars
  <2> QED BY <2>1, SameTypes DEF Types
<1> QED BY <1>1, <1>2, <1>3, NextIs

LEMMA TypesInit ==
    ASSUME Init
    PROVE  Types
<1>1. in \in Input /\ left = Probed /\ skipped = {}
  BY DEF Init, Probed
<1>2. worker \in [Worker -> WorkerState] /\ \A w \in Worker : WorkerTypes(worker[w])
  BY IdleIs DEF Init
<1>3. /\ DOMAIN tops = Query
      /\ \A q \in Query : tops[q] \in Seq(Nears(in, q, Entry)) /\ Len(tops[q]) <= K
  <2>1. \A q \in Query : tops[q] = <<>>
    BY DEF Init
  <2>2. \A X : <<>> \in Seq(X) /\ Len(<<>>) = 0
    BY EmptySeq
  <2>3. 0 <= K
    BY BoundsAssumption
  <2>4. \A q \in Query : tops[q] \in Seq(Nears(in, q, Entry))
    BY <2>1, <2>2
  <2>5. \A q \in Query : Len(tops[q]) <= K
    BY <2>1, <2>2, <2>3
  <2> QED BY <2>4, <2>5 DEF Init
<1>4. /\ status \in [File -> {"open", "no decoder", "closed"}]
      /\ stage \in {"search", "rank", "done"}
      /\ live \subseteq Image /\ votes \in [Image -> Nat]
  BY DEF Init
<1>5. ranked \in Seq(Image) /\ Len(ranked) <= MaxResults
  <2>1. ranked = <<>> /\ Len(<<>>) = 0
    BY DEF Init
  <2> QED BY <2>1, EmptySeq, BoundsAssumption
<1> QED BY <1>1, <1>2, <1>3, <1>4, <1>5 DEF Types

LEMMA AlwaysTypes == Spec => []Types
BY TypesInit, TypesNext, PTL DEF Spec

\* The types of the search, the bound of the heaps, which are merged from those of
\* the lists, and that of the answer.
THEOREM TypeCorrect == Spec => []TypeOK
<1>1. Types => TypeOK
  <2> SUFFICES ASSUME Types PROVE TypeOK
    OBVIOUS
  <2>1. Probed \subseteq List
    BY ProbedLists DEF Types
  <2>2. \A w \in Worker :
           /\ worker[w].pc \in {"idle", "read", "decode", "scan", "gone"}
           /\ worker[w].pc \in {"read", "decode"} => worker[w].file \in File
           /\ worker[w].pc = "scan" => worker[w].ask # {} /\ worker[w].got # <<>>
    BY StateIs DEF WorkerState, WorkerTypes
  <2> QED BY <2>1, <2>2 DEF Types, TypeOK
<1> QED BY <1>1, AlwaysTypes, PTL

-----------------------------------------------------------------------------
(* The answer: votes are counted when nobody searches any more, and no image *)
(* is deleted after the answer is made.                                      *)

Counted ==
    /\ stage # "search" => \A w \in Worker : worker[w].pc = "gone"
    /\ stage = "rank" => \A i \in live : votes[i] = Cardinality(Support(i))
    /\ BestImagesFirst

LEMMA RankAnswers ==
    ASSUME Types, Counted, Rank
    PROVE  Counted'
<1>1. PICK s \in SetToSeqs({i \in Image : votes[i] > 0}) :
         ByVotes(s) /\ ranked' = WithPath(FirstFew(s))
  BY DEF Rank
<1>2. /\ stage = "rank" /\ stage' = "done"
      /\ UNCHANGED <<in, worker, tops, live, votes>>
  BY DEF Rank, searchVars
<1>3. /\ s \in Seq(Image) /\ Distinct(s)
      /\ \A i \in Image : votes[i] > 0 => \E n \in 1..Len(s) : s[n] = i
  BY VotedFor
<1>4. PICK few : few = FirstFew(s)
  OBVIOUS
<1>5. PICK L \in Nat, c \in Nat :
         /\ L = Len(s) /\ c = Len(few) /\ few \in Seq(Image)
         /\ c <= L /\ (c = MaxResults \/ c = L)
         /\ \A n \in 1..c : few[n] = s[n]
  <2>1. /\ few \in Seq(Image) /\ Len(few) <= Len(s)
        /\ Len(few) = MaxResults \/ Len(few) = Len(s)
        /\ \A n \in 1..Len(few) : few[n] = s[n]
    BY <1>3, <1>4, FirstFewIs
  <2>2. Len(s) \in Nat /\ Len(few) \in Nat
    BY <1>3, <2>1, LenProperties
  <2> QED BY <2>1, <2>2
<1>6. DOMAIN s = 1..L /\ \A n \in 1..L : s[n] \in Image /\ votes[s[n]] \in Nat
  <2>1. DOMAIN s = 1..L /\ \A n \in 1..L : s[n] \in Image
    BY <1>3, <1>5, LenProperties, ElementOfSeq
  <2>2. \A i \in Image : votes[i] \in Nat
    BY DEF Types
  <2> QED BY <2>1, <2>2
<1>7. PICK r : r = ranked' /\ r \in Seq(Image) /\ Picked(r, few, live, c)
  BY <1>1, <1>4, <1>5, WithPathPicks
<1>8. PICK R \in Nat : R = Len(r) /\ DOMAIN r = 1..R
  BY <1>7, LenProperties
<1>9. \A n \in 1..c : n \in 1..L
  BY <1>5
<1>10. \A m \in 1..R : r[m] \in live /\ \E i \in 1..c : r[m] = s[i]
  <2> TAKE m \in 1..R
  <2>1. r[m] \in live /\ \E i \in 1..c : r[m] = few[i]
    BY <1>7, <1>8 DEF Picked
  <2> QED BY <1>5, <2>1
<1>11. \A m, k \in 1..R : m < k => \E i, j \in 1..c : i < j /\ r[m] = s[i] /\ r[k] = s[j]
  <2> SUFFICES ASSUME NEW m \in 1..R, NEW k \in 1..R, m < k
               PROVE  \E i, j \in 1..c : i < j /\ r[m] = s[i] /\ r[k] = s[j]
    OBVIOUS
  <2>1. \E i, j \in 1..c : i < j /\ r[m] = few[i] /\ r[k] = few[j]
    BY <1>7, <1>8 DEF Picked
  <2> QED BY <1>5, <2>1
<1>12. \A i \in 1..c : s[i] \in live => \E m \in 1..R : r[m] = s[i]
  BY <1>5, <1>7, <1>8 DEF Picked
<1>13. \A i, j \in 1..L : i < j => s[i] # s[j] /\ votes[s[i]] >= votes[s[j]]
  BY <1>1, <1>3, <1>6 DEF ByVotes, Distinct
<1>14. ASSUME NEW m \in 1..R, NEW n \in 1..R, m < n
       PROVE  r[m] # r[n] /\ votes[r[m]] >= votes[r[n]]
  BY <1>9, <1>11, <1>13, <1>14
<1>15. ASSUME NEW n \in 1..R, NEW i \in live, votes[i] > votes[r[n]]
       PROVE  \E m \in 1..R : r[m] = i
  <2>1. PICK a \in 1..c : r[n] = s[a]
    BY <1>10
  <2>2. votes[r[n]] \in Nat /\ votes[i] \in Nat /\ i \in Image
    BY <1>6, <1>9, <2>1 DEF Types
  <2>3. PICK b \in 1..L : s[b] = i
    BY <1>3, <1>5, <1>15, <2>2
  <2>4. b \in 1..c
    <3>1. CASE a < b
      BY <1>9, <1>13, <1>15, <2>1, <2>2, <2>3, <3>1
    <3>2. CASE ~(a < b)
      BY <3>2
    <3> QED BY <3>1, <3>2
  <2> QED BY <1>12, <2>3, <2>4
<1>16. \A i \in live : Cardinality(Support(i)) = votes[i]
  BY <1>2 DEF Counted
<1>17. \A i : Support(i)' = Support(i)
  BY <1>2 DEF Support
<1>18. BestImagesFirst'
  <2>1. \A m, n \in DOMAIN r : m < n => r[m] # r[n] /\ votes[r[m]] >= votes[r[n]]
    BY <1>8, <1>14
  <2>2. \A n \in DOMAIN r : r[n] \in live
    BY <1>8, <1>10
  <2>3. \A n \in DOMAIN r : \A i \in live :
           Cardinality(Support(i)) > votes[r[n]] => \E m \in DOMAIN r : r[m] = i
    BY <1>8, <1>15, <1>16
  <2> QED BY <1>2, <1>7, <1>17, <2>1, <2>2, <2>3 DEF BestImagesFirst
<1> QED BY <1>2, <1>18 DEF Counted

LEMMA SameCounted ==
    ASSUME Counted, UNCHANGED <<in, worker, tops, stage, live, votes, ranked>>
    PROVE  Counted'
<1>1. \A i : Support(i)' = Support(i)
  BY DEF Support
<1>2. BestImagesFirst'
  BY <1>1 DEF Counted, BestImagesFirst
<1> QED BY <1>1, <1>2 DEF Counted

LEMMA CountedNext ==
    ASSUME Types, Counted, [Next]_vars
    PROVE  Counted'
<1>1. ASSUME NEW w \in Worker, WorkerStep(w) PROVE Counted'
  <2>1. /\ in' = in /\ live' = live /\ stage' = stage /\ votes' = votes /\ ranked' = ranked
        /\ \/ UNCHANGED <<left, worker, tops, skipped>>
           \/ \E m : Moves(w, m) /\ Goes(w, m)
    BY <1>1, WorkerGoes DEF Elsewhere, rankVars
  <2>2. CASE UNCHANGED <<left, worker, tops, skipped>>
    BY <2>1, <2>2, SameCounted
  <2>3. ASSUME NEW m, Goes(w, m) PROVE Counted'
    <3>1. worker[w].pc # "gone"
      BY <2>3 DEF Goes, Takes, Leaves, Advances, GivesUp, Opens, Scans
    <3>2. stage = "search"
      BY <3>1 DEF Counted
    <3> QED BY <2>1, <3>2 DEF Counted, BestImagesFirst
  <2> QED BY <2>1, <2>2, <2>3
<1>2. ASSUME NEW f \in File, CloseDecoder(f) \/ CloseFile(f) PROVE Counted'
  BY <1>2, SameCounted DEF CloseDecoder, CloseFile, searchVars, rankVars
<1>3. ASSUME NEW i \in live, DeleteImage(i) PROVE Counted'
  <2>1. /\ stage # "done" /\ live' = live \ {i}
        /\ UNCHANGED <<in, worker, tops, stage, votes, ranked>>
    BY <1>3 DEF DeleteImage, searchVars, rankVars
  <2>2. \A j : Support(j)' = Support(j)
    BY <2>1 DEF Support
  <2> QED BY <2>1, <2>2 DEF Counted, BestImagesFirst
<1>4. CASE Group
  <2>1. /\ stage' = "rank" /\ UNCHANGED <<in, worker, tops, live>>
        /\ \A w \in Worker : worker[w].pc = "gone"
        /\ votes' = [i \in Image |-> IF i \in live THEN Cardinality(Support(i)) ELSE 0]
    BY <1>4 DEF Group, searchVars
  <2>2. \A j : Support(j)' = Support(j)
    BY <2>1 DEF Support
  <2>3. \A i \in live : votes'[i] = Cardinality(Support(i))
    BY <2>1 DEF Types
  <2> QED BY <2>1, <2>2, <2>3 DEF Counted, BestImagesFirst
<1>5. CASE Rank
  BY <1>5, RankAnswers
<1>6. CASE UNCHANGED vars
  BY <1>6, SameCounted DEF vars, searchVars, rankVars
<1> QED BY <1>1, <1>2, <1>3, <1>4, <1>5, <1>6, NextIs DEF Outside

\* The answer names images that were there when their paths were looked up, each
\* once, best first, and leaves out none that has more votes than one it names.
THEOREM AnswersBestFirst == Spec => []BestImagesFirst
<1>1. Init => Counted
  BY DEF Init, Counted, BestImagesFirst
<1>2. Types /\ Counted /\ [Next]_vars => Counted'
  BY CountedNext
<1>3. Counted => BestImagesFirst
  BY DEF Counted
<1> QED BY <1>1, <1>2, <1>3, AlwaysTypes, PTL DEF Spec

-----------------------------------------------------------------------------
(* The search: each list is with one worker at most, who has read of it what  *)
(* the files before have; and each heap holds the nearest of the lists that   *)
(* are done with.                                                             *)

IsBusy(me) == me.pc \in {"read", "decode", "scan"}

Held ==
    /\ left \cap skipped = {}
    /\ \A w \in Worker : IsBusy(worker[w]) => worker[w].list \notin left \cup skipped
    /\ \A v, w \in Worker :
          v # w /\ IsBusy(worker[v]) /\ IsBusy(worker[w]) => worker[v].list # worker[w].list
    /\ \A w \in Worker : worker[w].pc = "gone" => left = {}
    /\ skipped # {} => \E f \in File : status[f] # "open"

\* What a worker has of its list; nothing of it twice.
HasRead(me) ==
    /\ me.pc \in {"read", "decode"} => Range(me.got) = Stored(in, me.list, me.file - 1)
    /\ me.pc = "scan" => Range(me.got) = Stored(in, me.list, Files)
    /\ IsBusy(me) /\ StoredOnce(in) => Distinct(me.got)

Reading == \A w \in Worker : HasRead(worker[w])

LEMMA MovesHeld ==
    ASSUME Types, Held, NEW w \in Worker, NEW m, Moves(w, m), Goes(w, m), status' = status
    PROVE  Held'
<1>1. worker'[w] = m /\ \A v \in Worker : v # w => worker'[v] = worker[v]
  BY MovedIs
<1>2. CASE Takes(w, m)
  <2>1. PICK l \in left :
           /\ left' = left \ {l} /\ skipped' = skipped
           /\ m = [pc |-> "read", list |-> l, file |-> 1, got |-> <<>>, ask |-> Askers(l)]
    BY <1>2 DEF Takes
  <2>2. m.pc = "read" /\ m.list = l
    BY <2>1
  <2> QED BY <1>1, <2>1, <2>2 DEF Held, IsBusy
<1>3. CASE Leaves(w, m)
  BY <1>1, <1>3 DEF Leaves, Held, IsBusy
<1>4. CASE GivesUp(w, m)
  <2>1. /\ m.pc = "idle" /\ left' = left /\ skipped' = skipped \cup {worker[w].list}
        /\ IsBusy(worker[w]) /\ \E f \in File : status[f] # "open"
    BY <1>4 DEF GivesUp, Idle, IsBusy
  <2>2. worker[w].list \notin left
    BY <2>1 DEF Held
  <2>3. \A v \in Worker : v # w /\ IsBusy(worker[v]) => worker[v].list # worker[w].list
    BY <2>1 DEF Held
  <2>4. \A v \in Worker : IsBusy(worker'[v]) => v # w
    BY <1>1, <2>1 DEF IsBusy
  <2>5. \A v \in Worker : worker'[v].pc = "gone" => worker[v].pc = "gone"
    BY <1>1, <2>1
  <2> QED BY <1>1, <2>1, <2>2, <2>3, <2>4, <2>5 DEF Held
<1>5. CASE Advances(w, m) \/ Opens(w, m) \/ Scans(w, m)
  <2>1. /\ left' = left /\ skipped' = skipped /\ m.pc # "gone"
        /\ IsBusy(m) => IsBusy(worker[w]) /\ m.list = worker[w].list
    <3>1. CASE Advances(w, m)
      BY <3>1 DEF Advances, IsBusy
    <3>2. CASE Opens(w, m)
      BY <3>2 DEF Opens, IsBusy
    <3>3. CASE Scans(w, m)
      BY <3>3 DEF Scans, IsBusy, Idle
    <3> QED BY <1>5, <3>1, <3>2, <3>3
  <2> QED BY <1>1, <2>1 DEF Held
<1> QED BY <1>2, <1>3, <1>4, <1>5 DEF Goes

LEMMA MovesReading ==
    ASSUME Types, Reading, NEW w \in Worker, NEW m, Moves(w, m), Goes(w, m), in' = in
    PROVE  Reading'
<1>1. worker'[w] = m /\ \A v \in Worker : v # w => worker'[v] = worker[v]
  BY MovedIs
<1>2. worker[w] \in WorkerState /\ WorkerTypes(worker[w]) /\ HasRead(worker[w]) /\ in \in Input
  BY StateIs DEF Reading, Types
<1>3. HasRead(m)
  <2>1. CASE Takes(w, m)
    <3>1. m.pc = "read" /\ m.file = 1 /\ m.got = <<>>
      BY <2>1 DEF Takes
    <3>2. Range(<<>>) = {} /\ Distinct(<<>>)
      BY DEF Range, Distinct
    <3>3. Stored(in, m.list, 1 - 1) = {}
      BY DEF Stored
    <3> QED BY <3>1, <3>2, <3>3 DEF HasRead
  <2>2. CASE Leaves(w, m) \/ GivesUp(w, m)
    BY <2>2 DEF Leaves, GivesUp, HasRead, IsBusy, Idle
  <2>3. CASE Advances(w, m)
    <3>1. PICK l, f, g : l = worker[w].list /\ f = worker[w].file /\ g = worker[w].got
      OBVIOUS
    <3>2. l \in List /\ f \in File /\ g \in Seq(Entry) /\ f \in Nat
      <4>1. l \in Probed /\ f \in File /\ g \in Seq(Entry)
        BY <1>2, <2>3, <3>1 DEF Advances, WorkerTypes, WorkerState
      <4> QED BY <1>2, <4>1, ProbedLists DEF File
    <3>3. PICK p : p = in.part[l][f]
      OBVIOUS
    <3>4. /\ p \in Seq(Entry) /\ Stored(in, l, f) = Stored(in, l, f - 1) \cup Range(p)
          /\ StoredOnce(in) => Distinct(p) /\ Stored(in, l, f - 1) \cap Range(p) = {}
      BY <1>2, <3>2, <3>3, StoredNext
    <3>5. /\ Range(g) = Stored(in, l, f - 1)
          /\ StoredOnce(in) => Distinct(g)
      BY <1>2, <2>3, <3>1 DEF Advances, HasRead, IsBusy
    <3>6. m.got = g \o p /\ m.list = l /\ m.file = f + 1
      BY <2>3, <3>1, <3>3 DEF Advances, Part
    <3>7. /\ Range(m.got) = Stored(in, l, f)
          /\ StoredOnce(in) => Distinct(m.got)
      <4>1. g \in Seq(Entry) /\ p \in Seq(Entry)
        BY <3>2, <3>4
      <4>2. Range(g \o p) = Range(g) \cup Range(p) /\ (Apart(g, p) => Distinct(g \o p))
        BY <4>1, Joined
      <4>3. StoredOnce(in) => Apart(g, p)
        BY <3>4, <3>5 DEF Apart
      <4>4. Range(m.got) = Range(g) \cup Range(p) /\ (Apart(g, p) => Distinct(m.got))
        BY <3>6, <4>2
      <4> QED BY <3>4, <3>5, <4>3, <4>4
    <3>8. (m.pc = "scan" => f = Files) /\ m.file - 1 = f
      <4>1. m.pc = "scan" => f = Files
        BY <2>3, <3>1 DEF Advances
      <4>2. m.file - 1 = f
        BY <3>2, <3>6
      <4> QED BY <4>1, <4>2
    <3> QED BY <3>6, <3>7, <3>8 DEF HasRead
  <2>4. CASE Opens(w, m)
    BY <1>2, <2>4 DEF Opens, HasRead, IsBusy
  <2>5. CASE Scans(w, m)
    BY <1>2, <2>5 DEF Scans, HasRead, IsBusy, Idle
  <2> QED BY <2>1, <2>2, <2>3, <2>4, <2>5 DEF Goes
<1>4. \A v \in Worker : HasRead(worker'[v])
  BY <1>1, <1>3 DEF Reading
<1>5. \A v \in Worker : HasRead(worker[v])'
  BY <1>4 DEF HasRead
<1> QED BY <1>5 DEF Reading

-----------------------------------------------------------------------------
HoldsFor(me, q, l) == IsBusy(me) /\ me.list = l /\ q \in me.ask

\* The list has yet to be scanned for the query, or is left out.
Waits(q, l) ==
    l \in left \cup skipped \/ \E w \in Worker : HoldsFor(worker[w], q, l)

Done(q) == {l \in in.probe[q] : ~Waits(q, l)}

LEMMA MovesWaits ==
    ASSUME Types, Held, NEW w \in Worker, NEW m, Moves(w, m), Goes(w, m), in' = in,
           NEW q \in Query, NEW l \in in.probe[q]
    PROVE  Waits(q, l)' <=>
             Waits(q, l) /\ ~(HoldsFor(worker[w], q, l) /\ ~HoldsFor(m, q, l) /\ ~GivesUp(w, m))
<1>1. worker'[w] = m /\ \A v \in Worker : v # w => worker'[v] = worker[v]
  BY MovedIs
<1> DEFINE Other == \E v \in Worker : v # w /\ HoldsFor(worker[v], q, l)
<1>2. Waits(q, l) <=> l \in left \cup skipped \/ Other \/ HoldsFor(worker[w], q, l)
  BY DEF Waits
<1>3. Waits(q, l)' <=> l \in left' \cup skipped' \/ Other \/ HoldsFor(m, q, l)
  BY <1>1 DEF Waits, HoldsFor, IsBusy
<1>4. HoldsFor(worker[w], q, l) => ~Other /\ l \notin left \cup skipped
  BY DEF Held, HoldsFor
<1> HIDE DEF Other
<1>5. l \in Probed /\ q \in Askers(l)
  BY DEF Probed, Askers
<1>6. CASE Takes(w, m)
  <2>1. PICK k \in left :
           /\ left' = left \ {k} /\ skipped' = skipped
           /\ m = [pc |-> "read", list |-> k, file |-> 1, got |-> <<>>, ask |-> Askers(k)]
    BY <1>6 DEF Takes
  <2>2. ~HoldsFor(worker[w], q, l)
    BY <1>6 DEF Takes, HoldsFor, IsBusy
  <2>3. HoldsFor(m, q, l) <=> k = l
    BY <1>5, <2>1 DEF HoldsFor, IsBusy
  <2> QED BY <1>2, <1>3, <2>1, <2>2, <2>3
<1>7. CASE Leaves(w, m)
  BY <1>2, <1>3, <1>7 DEF Leaves, HoldsFor, IsBusy
<1>8. CASE GivesUp(w, m)
  <2>1. worker[w].list = l => HoldsFor(worker[w], q, l)
    BY <1>5, <1>8, StateIs DEF GivesUp, WorkerTypes, HoldsFor, IsBusy
  <2>2. ~HoldsFor(m, q, l) /\ left' = left /\ skipped' = skipped \cup {worker[w].list}
    BY <1>8 DEF GivesUp, HoldsFor, IsBusy, Idle
  <2>3. HoldsFor(worker[w], q, l) => worker[w].list = l
    BY DEF HoldsFor
  <2> QED BY <1>2, <1>3, <1>8, <2>1, <2>2, <2>3
<1>9. CASE Advances(w, m) \/ Opens(w, m) \/ Scans(w, m)
  <2>1. left' = left /\ skipped' = skipped /\ ~GivesUp(w, m)
    <3>1. worker[w].list \notin skipped
      BY <1>9 DEF Advances, Opens, Scans, Held, IsBusy
    <3> QED BY <1>9, <3>1 DEF Advances, Opens, Scans, GivesUp
  <2>2. HoldsFor(m, q, l) => HoldsFor(worker[w], q, l)
    <3>1. CASE Advances(w, m)
      BY <3>1 DEF Advances, HoldsFor, IsBusy
    <3>2. CASE Opens(w, m)
      BY <3>2 DEF Opens, HoldsFor, IsBusy
    <3>3. CASE Scans(w, m)
      BY <3>3 DEF Scans, HoldsFor, IsBusy, Idle
    <3> QED BY <1>9, <3>1, <3>2, <3>3
  <2> QED BY <1>2, <1>3, <1>4, <2>1, <2>2
<1> QED BY <1>6, <1>7, <1>8, <1>9 DEF Goes

Of(lists) == UNION {Stored(in, l, Files) : l \in lists}

\* Where each entry is stored once, a heap holds the nearest of what is done.
Merged ==
    StoredOnce(in) => \A q \in Query : Nearest(tops[q], Nears(in, q, Of(Done(q))), K)

LEMMA OfTypes ==
    ASSUME in \in Input, NEW lists \in SUBSET List
    PROVE  /\ Of(lists) \subseteq Entry /\ IsFiniteSet(Of(lists))
           /\ \A l \in List : Of(lists \cup {l}) = Of(lists) \cup Stored(in, l, Files)
           /\ \A l \in List : StoredOnce(in) /\ l \notin lists =>
                                Of(lists) \cap Stored(in, l, Files) = {}
<1>1. Files \in 0..Files
  BY BoundsAssumption
<1>2. \A l \in List : Stored(in, l, Files) \subseteq Entry
  BY <1>1, StoredTypes
<1>3. Of(lists) \subseteq Entry
  BY <1>2 DEF Of
<1>4. IsFiniteSet(Of(lists))
  BY <1>3, SetsAssumption, FS_Subset
<1>5. \A l \in List : Of(lists \cup {l}) = Of(lists) \cup Stored(in, l, Files)
  BY DEF Of
<1>6. ASSUME NEW l \in List, StoredOnce(in), l \notin lists
      PROVE  Of(lists) \cap Stored(in, l, Files) = {}
  <2>1. \A k \in lists : Stored(in, k, Files) \cap Stored(in, l, Files) = {}
    <3> TAKE k \in lists
    <3>1. k \in List /\ k # l
      BY <1>6
    <3> QED BY <1>6, <3>1, StoredApart
  <2> QED BY <2>1 DEF Of
<1> QED BY <1>3, <1>4, <1>5, <1>6

LEMMA NearsOfBoth ==
    ASSUME NEW x, NEW q, NEW A, NEW B
    PROVE  /\ Nears(x, q, A \cup B) = Nears(x, q, A) \cup Nears(x, q, B)
           /\ A \cap B = {} => Nears(x, q, A) \cap Nears(x, q, B) = {}
           /\ A \subseteq B => Nears(x, q, A) \subseteq Nears(x, q, B)
<1>1. \A d, e : Near(x, q, d) = Near(x, q, e) => d = e
  BY DEF Near
<1> QED BY <1>1 DEF Nears

\* The lists that the worker's step ends with for the query.
Finished(w, m, q) ==
    {l \in in.probe[q] :
        HoldsFor(worker[w], q, l) /\ ~HoldsFor(m, q, l) /\ ~GivesUp(w, m)}

LEMMA MovesDone ==
    ASSUME Types, Held, NEW w \in Worker, NEW m, Moves(w, m), Goes(w, m), in' = in,
           NEW q \in Query
    PROVE  Done(q)' = Done(q) \cup Finished(w, m, q) /\ Finished(w, m, q) \cap Done(q) = {}
<1>1. \A l \in in.probe[q] :
         Waits(q, l)' <=>
             Waits(q, l) /\ ~(HoldsFor(worker[w], q, l) /\ ~HoldsFor(m, q, l) /\ ~GivesUp(w, m))
  BY MovesWaits
<1>2. Done(q)' = {l \in in.probe[q] : ~Waits(q, l)'}
  BY DEF Done
<1>3. \A l : HoldsFor(worker[w], q, l) => Waits(q, l)
  BY DEF Waits
<1> QED BY <1>1, <1>2, <1>3 DEF Done, Finished

LEMMA DoneTypes ==
    ASSUME Types, NEW q \in Query
    PROVE  Done(q) \in SUBSET List
BY InputAssumption DEF IsInput, Types, Done

\* The entries of the list are merged into the heap of the query.
LEMMA ScanMerges ==
    ASSUME Types, Reading, StoredOnce(in), NEW w \in Worker, worker[w].pc = "scan",
           NEW q \in worker[w].ask, worker[w].list \notin Done(q),
           Nearest(tops[q], Nears(in, q, Of(Done(q))), K)
    PROVE  Nearest(PushAll(tops[q], KNN(Got(w, q), K), K),
                   Nears(in, q, Of(Done(q) \cup {worker[w].list})), K)
<1>1. worker[w] \in WorkerState /\ WorkerTypes(worker[w]) /\ HasRead(worker[w]) /\ in \in Input
  BY StateIs DEF Reading, Types
<1>2. q \in Query /\ worker[w].got \in Seq(Entry)
  BY <1>1 DEF WorkerState
<1>3. PICK l : l = worker[w].list /\ l \in List
  BY <1>1, ProbedLists DEF WorkerTypes
<1>4. PICK done : done = Done(q) /\ done \in SUBSET List /\ l \notin done
  BY <1>2, <1>3, DoneTypes
<1>5. PICK X, S, T, h, got :
         /\ X = Nears(in, q, Entry) /\ S = Nears(in, q, Of(done))
         /\ T = Nears(in, q, Stored(in, l, Files))
         /\ h = tops[q] /\ got = Got(w, q)
  OBVIOUS
<1>6. (\A x \in X : x.dist \in Int) /\ K \in Nat
  <2>1. \A x \in X : x.dist \in Nat
    BY <1>1, <1>2, <1>5, NearsAreWeighed
  <2> QED BY <2>1, BoundsAssumption
<1>7. got \in Seq(X) /\ Range(got) = T /\ Distinct(got) /\ h \in Seq(X)
  <2>1. Range(worker[w].got) = Stored(in, l, Files) /\ Distinct(worker[w].got)
    BY <1>1, <1>3 DEF HasRead, IsBusy
  <2>2. h \in Seq(X)
    BY <1>2, <1>5 DEF Types
  <2> QED BY <1>2, <1>5, <2>1, <2>2, GotIs
<1>8. S \in SUBSET X /\ T \in SUBSET X /\ IsFiniteSet(S) /\ IsFiniteSet(T) /\ S \cap T = {}
  <2>1. Of(done) \subseteq Entry /\ IsFiniteSet(Of(done)) /\ Of(done) \cap Stored(in, l, Files) = {}
    BY <1>1, <1>3, <1>4, OfTypes
  <2>2. Stored(in, l, Files) \subseteq Entry /\ IsFiniteSet(Stored(in, l, Files))
    BY <1>1, <1>3, BoundsAssumption, StoredTypes
  <2>3. S \subseteq X /\ T \subseteq X /\ S \cap T = {}
    BY <1>5, <2>1, <2>2, NearsOfBoth
  <2> QED BY <1>5, <2>1, <2>2, <2>3, NearsCount
<1>9. S \cup T = Nears(in, q, Of(Done(q) \cup {worker[w].list}))
  <2>1. Of(done \cup {l}) = Of(done) \cup Stored(in, l, Files)
    BY <1>1, <1>3, <1>4, OfTypes
  <2>2. PICK A, B : A = Of(done) /\ B = Stored(in, l, Files)
    OBVIOUS
  <2>3. Nears(in, q, A \cup B) = Nears(in, q, A) \cup Nears(in, q, B)
    BY NearsOfBoth
  <2>4. S \cup T = Nears(in, q, Of(done \cup {l}))
    BY <1>5, <2>1, <2>2, <2>3
  <2> QED BY <1>3, <1>4, <2>4
<1>10. Nearest(h, S, K)
  BY <1>4, <1>5
<1>11. PICK near : near = KNN(got, K)
  OBVIOUS
<1>12. near \in Seq(X) /\ Nearest(near, T, K)
  BY <1>6, <1>7, <1>11, KNNTypes, KNNNearest
<1>13. PICK r : r = PushAll(h, near, K)
  OBVIOUS
<1>14. r \in Seq(X) /\ Nearest(r, S \cup Range(near), K)
  <2>1. Distinct(near) /\ S \cap Range(near) = {}
    BY <1>8, <1>12 DEF Nearest
  <2>2. Nearest(PushAll(h, near, K), S \cup Range(near), K)
    BY <1>6, <1>7, <1>8, <1>10, <1>12, <2>1, PushAllNearest
  <2>3. Len(h) <= K
    BY <1>2, <1>5 DEF Types
  <2>4. PushAll(h, near, K) \in Seq(X)
    BY <1>6, <1>7, <1>12, <2>3, PushAllTypes
  <2> QED BY <1>13, <2>2, <2>4
<1>15. Nearest(r, S \cup T, K)
  BY <1>6, <1>8, <1>12, <1>14, NearestOfBoth
<1> QED BY <1>5, <1>9, <1>11, <1>13, <1>15

LEMMA MovesMerged ==
    ASSUME Types, Held, Reading, Merged, StoredOnce(in), NEW w \in Worker,
           NEW m, Moves(w, m), Goes(w, m), in' = in, NEW q \in Query
    PROVE  Nearest(tops'[q], Nears(in, q, Of(Done(q)')), K)
<1>1. /\ Done(q)' = Done(q) \cup Finished(w, m, q) /\ Finished(w, m, q) \cap Done(q) = {}
      /\ Done(q) \in SUBSET List
  BY MovesDone, DoneTypes
<1>2. Nearest(tops[q], Nears(in, q, Of(Done(q))), K)
  BY DEF Merged
<1>3. worker[w] \in WorkerState /\ WorkerTypes(worker[w]) /\ HasRead(worker[w]) /\ in \in Input
  BY StateIs DEF Reading, Types
<1>4. ASSUME Finished(w, m, q) = {}, tops'[q] = tops[q]
      PROVE  Nearest(tops'[q], Nears(in, q, Of(Done(q)')), K)
  <2>1. Done(q)' = Done(q)
    BY <1>1, <1>4
  <2> QED BY <1>2, <1>4, <2>1
<1>5. CASE Takes(w, m) \/ Leaves(w, m)
  <2>1. Finished(w, m, q) = {} /\ tops'[q] = tops[q]
    BY <1>5 DEF Takes, Leaves, Finished, HoldsFor, IsBusy
  <2> QED BY <1>4, <2>1
<1>6. CASE GivesUp(w, m)
  <2>1. Finished(w, m, q) = {} /\ tops'[q] = tops[q]
    BY <1>6 DEF GivesUp, Finished
  <2> QED BY <1>4, <2>1
<1>7. CASE Opens(w, m)
  <2>1. Finished(w, m, q) = {} /\ tops'[q] = tops[q]
    BY <1>7 DEF Opens, Finished, HoldsFor, IsBusy
  <2> QED BY <1>4, <2>1
<1>8. CASE Advances(w, m)
  <2>1. tops'[q] = tops[q]
    BY <1>8 DEF Advances
  <2>2. CASE m.pc # "idle"
    <3>1. Finished(w, m, q) = {}
      BY <1>8, <2>2 DEF Advances, Finished, HoldsFor, IsBusy
    <3> QED BY <1>4, <2>1, <3>1
  <2>3. CASE m.pc = "idle"
    <3>1. PICK l, g, p : l = worker[w].list /\ g = worker[w].got /\ p = in.part[l][Files]
      OBVIOUS
    <3>2. worker[w].file = Files /\ <<>> = g \o p /\ Range(g) = Stored(in, l, Files - 1)
      BY <1>3, <1>8, <2>3, <3>1 DEF Advances, Part, HasRead
    <3>3. l \in List /\ Files \in File /\ g \in Seq(Entry)
      BY <1>3, <1>8, <3>1, <3>2, ProbedLists DEF Advances, WorkerTypes, WorkerState
    <3>4. p \in Seq(Entry) /\ Stored(in, l, Files) = Stored(in, l, Files - 1) \cup Range(p)
      BY <1>3, <3>1, <3>3, StoredNext
    <3>5. Stored(in, l, Files) = {}
      <4>1. g = <<>> /\ p = <<>>
        BY <3>2, <3>3, <3>4, Joined
      <4>2. Range(<<>>) = {}
        BY DEF Range
      <4> QED BY <3>2, <3>4, <4>1, <4>2
    <3>6. Finished(w, m, q) \subseteq {l}
      BY <3>1 DEF Finished, HoldsFor
    <3>7. Of(Done(q)') = Of(Done(q))
      <4>1. Done(q)' = Done(q) \/ Done(q)' = Done(q) \cup {l}
        BY <1>1, <3>6
      <4>2. Of(Done(q) \cup {l}) = Of(Done(q)) \cup Stored(in, l, Files)
        BY <1>1, <1>3, <3>3, OfTypes
      <4>3. PICK D, E : D = Done(q) /\ E = Done(q)'
        OBVIOUS
      <4> QED BY <3>5, <4>1, <4>2, <4>3
    <3> QED BY <1>2, <2>1, <3>7
  <2> QED BY <2>2, <2>3
<1>9. CASE Scans(w, m)
  <2>1. PICK p \in worker[w].ask :
           /\ tops' = [tops EXCEPT ![p] = PushAll(tops[p], KNN(Got(w, p), K), K)]
           /\ \/ worker[w].ask = {p} /\ m = Idle
              \/ /\ worker[w].ask # {p}
                 /\ m.pc = "scan" /\ m.list = worker[w].list /\ m.file = worker[w].file
                 /\ m.got = worker[w].got /\ m.ask = worker[w].ask \ {p}
    BY <1>9 DEF Scans
  <2>2. worker[w].pc = "scan" /\ ~GivesUp(w, m)
    BY <1>9 DEF Scans, GivesUp
  <2>3. p \in Query /\ worker[w].list \in in.probe[p]
    BY <1>3, <2>1, <2>2 DEF WorkerTypes, Askers
  <2>4. CASE q # p
    <3>1. tops'[q] = tops[q]
      BY <2>1, <2>4 DEF Types
    <3>2. Finished(w, m, q) = {}
      <4>1. CASE worker[w].ask = {p}
        BY <2>4, <4>1 DEF Finished, HoldsFor
      <4>2. CASE m.pc = "scan" /\ m.list = worker[w].list /\ m.ask = worker[w].ask \ {p}
        BY <2>4, <4>2 DEF Finished, HoldsFor, IsBusy
      <4> QED BY <2>1, <4>1, <4>2
    <3> QED BY <1>4, <3>1, <3>2
  <2>5. CASE q = p
    <3>1. HoldsFor(worker[w], q, worker[w].list) /\ \A l : ~HoldsFor(m, q, l)
      BY <2>1, <2>2, <2>5 DEF HoldsFor, IsBusy, Idle
    <3>2. Finished(w, m, q) = {worker[w].list}
      <4>1. \A l : HoldsFor(worker[w], q, l) => l = worker[w].list
        BY DEF HoldsFor
      <4> QED BY <2>2, <2>3, <2>5, <3>1, <4>1 DEF Finished
    <3>3. worker[w].list \notin Done(q) /\ Done(q)' = Done(q) \cup {worker[w].list}
      BY <1>1, <3>2
    <3>4. tops'[q] = PushAll(tops[q], KNN(Got(w, q), K), K)
      BY <2>1, <2>3, <2>5 DEF Types
    <3>5. Nearest(PushAll(tops[q], KNN(Got(w, q), K), K),
                  Nears(in, q, Of(Done(q) \cup {worker[w].list})), K)
      BY <1>2, <2>1, <2>2, <2>5, <3>3, ScanMerges
    <3> QED BY <3>3, <3>4, <3>5
  <2> QED BY <2>4, <2>5
<1> QED BY <1>5, <1>6, <1>7, <1>8, <1>9 DEF Goes

-----------------------------------------------------------------------------
Searching == Types /\ Counted /\ Held /\ Reading /\ Merged

LEMMA SameSearching ==
    ASSUME Held, Reading, Merged, UNCHANGED <<in, left, worker, tops, skipped>>,
           \A f \in File : status[f] # "open" => status'[f] # "open"
    PROVE  Held' /\ Reading' /\ Merged'
<1>1. Held'
  <2>1. (\E f \in File : status[f] # "open") => \E f \in File : status'[f] # "open"
    OBVIOUS
  <2> QED BY <2>1 DEF Held, File
<1>2. Reading'
  <2>1. \A v \in Worker : HasRead(worker[v])'
    BY DEF Reading, HasRead
  <2> QED BY <2>1 DEF Reading
<1>3. \A q \in Query : Done(q)' = Done(q)
  <2>1. \A q, l : Waits(q, l)' <=> Waits(q, l)
    BY DEF Waits, HoldsFor, IsBusy
  <2> QED BY <2>1 DEF Done
<1>4. \A q \in Query : Of(Done(q))' = Of(Done(q))
  BY <1>3 DEF Of
<1> QED BY <1>1, <1>2, <1>4 DEF Merged

LEMMA SearchingNext ==
    ASSUME Searching, [Next]_vars
    PROVE  Searching'
<1>1. Types' /\ Counted'
  BY TypesNext, CountedNext DEF Searching
<1>2. Types /\ Held /\ Reading /\ Merged
  BY DEF Searching
<1>3. ASSUME NEW w \in Worker, WorkerStep(w) PROVE Held' /\ Reading' /\ Merged'
  <2>1. /\ in' = in /\ status' = status
        /\ \/ UNCHANGED <<left, worker, tops, skipped>>
           \/ \E m : Moves(w, m) /\ Goes(w, m)
    BY <1>2, <1>3, WorkerGoes DEF Elsewhere
  <2>2. CASE UNCHANGED <<left, worker, tops, skipped>>
    BY <1>2, <2>1, <2>2, SameSearching
  <2>3. ASSUME NEW m, Moves(w, m), Goes(w, m) PROVE Held' /\ Reading' /\ Merged'
    <3>1. Held' /\ Reading'
      BY <1>2, <2>1, <2>3, MovesHeld, MovesReading
    <3>2. ASSUME StoredOnce(in), NEW q \in Query
          PROVE  Nearest(tops'[q], Nears(in, q, Of(Done(q)')), K)
      BY <1>2, <2>1, <2>3, <3>2, MovesMerged
    <3>3. \A q \in Query : Of(Done(q))' = Of(Done(q)')
      BY <2>1 DEF Of
    <3>4. Merged'
      BY <2>1, <3>2, <3>3 DEF Merged
    <3> QED BY <3>1, <3>4
  <2> QED BY <2>1, <2>2, <2>3
<1>4. CASE Outside
  <2>1. UNCHANGED <<in, left, worker, tops, skipped>>
    BY <1>4, OutsideLeaves
  <2>2. \/ status' = status
        \/ \E g \in File : status' = [status EXCEPT ![g] = "no decoder"]
        \/ \E g \in File : status' = [status EXCEPT ![g] = "closed"]
    BY <1>4 DEF Outside, CloseDecoder, CloseFile, DeleteImage, Group, Rank
  <2>3. \A f \in File : status[f] # "open" => status'[f] # "open"
    BY <1>2, <2>2 DEF Types
  <2> QED BY <1>1, <1>2, <2>1, <2>3, SameSearching DEF Searching
<1>5. CASE UNCHANGED vars
  <2>1. UNCHANGED <<in, left, worker, tops, skipped, status>>
    BY <1>5 DEF vars, searchVars
  <2> QED BY <1>1, <1>2, <2>1, SameSearching DEF Searching
<1> QED BY <1>1, <1>3, <1>4, <1>5, NextIs DEF Searching

LEMMA SearchingInit ==
    ASSUME Init
    PROVE  Searching
<1>1. Types
  BY TypesInit
<1>2. left = Probed /\ skipped = {} /\ stage = "search" /\ \A w \in Worker : worker[w] = Idle
  BY DEF Init, Probed
<1>3. Counted
  BY <1>2 DEF Counted, BestImagesFirst
<1>4. Held /\ Reading
  BY <1>2 DEF Held, Reading, HasRead, IsBusy, Idle
<1>5. Merged
  <2>1. ASSUME NEW q \in Query PROVE Nearest(tops[q], Nears(in, q, Of(Done(q))), K)
    <3>1. \A l \in in.probe[q] : l \in left
      BY <1>2 DEF Probed
    <3>2. Done(q) = {}
      BY <3>1 DEF Done, Waits
    <3>3. Nears(in, q, Of({})) = {}
      BY DEF Nears, Of
    <3>4. tops[q] = <<>>
      BY DEF Init
    <3>5. Nearest(<<>>, {}, K)
      BY BoundsAssumption, NothingIsNearest
    <3> QED BY <3>2, <3>3, <3>4, <3>5
  <2> QED BY <2>1 DEF Merged
<1> QED BY <1>1, <1>3, <1>4, <1>5 DEF Searching

LEMMA AlwaysSearching == Spec => []Searching
BY SearchingInit, SearchingNext, PTL DEF Spec

\* What a heap that holds the nearest of C says of the entries.
Ids(h) == {h[n].id : n \in DOMAIN h}

NearestOf(q, found, C, n) ==
    /\ found \subseteq C
    /\ Cardinality(found) = n
    /\ n = IF Cardinality(C) < K THEN Cardinality(C) ELSE K
    /\ \A e \in found, o \in C \ found :
          Distance(in.query[q], in.vec[e]) <= Distance(in.query[q], in.vec[o])

LEMMA NearestEntries ==
    ASSUME in \in Input, NEW q \in Query, NEW C \in SUBSET Entry,
           NEW h \in Seq(Nears(in, q, Entry)), Nearest(h, Nears(in, q, C), K)
    PROVE  NearestOf(q, Ids(h), C, Len(h))
<1>0. PICK found : found = Ids(h)
  OBVIOUS
<1>1. IsFiniteSet(C)
  BY SetsAssumption, FS_Subset
<1>2. Range(h) \subseteq Nears(in, q, C)
  BY DEF Nearest
<1>3. \A e : /\ Near(in, q, e).id = e
             /\ Near(in, q, e).dist = Distance(in.query[q], in.vec[e])
  BY DEF Near
<1>4. found = {x.id : x \in Range(h)}
  BY <1>0 DEF Range, Ids
<1>5. found \subseteq C /\ Range(h) = Nears(in, q, found)
  <2>1. \A x \in Range(h) : x.id \in C /\ x = Near(in, q, x.id)
    BY <1>2, <1>3 DEF Nears
  <2>2. found \subseteq C
    BY <1>4, <2>1
  <2>3. Range(h) \subseteq Nears(in, q, found)
    BY <1>4, <2>1 DEF Nears
  <2>4. ASSUME NEW e \in found PROVE Near(in, q, e) \in Range(h)
    <3>1. PICK x \in Range(h) : x.id = e
      BY <1>4
    <3> QED BY <2>1, <3>1
  <2>5. Nears(in, q, found) \subseteq Range(h)
    BY <2>4 DEF Nears
  <2> QED BY <2>2, <2>3, <2>5
<1>6. IsFiniteSet(found)
  BY <1>1, <1>5, FS_Subset
<1>7. Cardinality(found) = Len(h)
  <2>1. Cardinality(Nears(in, q, found)) = Cardinality(found)
    BY <1>6, NearsCount
  <2>2. Cardinality(Range(h)) = Len(h)
    BY CountIn DEF Nearest
  <2> QED BY <1>5, <2>1, <2>2
<1>8. Len(h) = IF Cardinality(C) < K THEN Cardinality(C) ELSE K
  <2>1. Cardinality(Nears(in, q, C)) = Cardinality(C)
    BY <1>1, NearsCount
  <2> QED BY <2>1 DEF Nearest
<1>9. ASSUME NEW e \in found, NEW o \in C \ found
      PROVE  Distance(in.query[q], in.vec[e]) <= Distance(in.query[q], in.vec[o])
  <2>1. Near(in, q, e) \in Range(h)
    BY <1>5 DEF Nears
  <2>2. Near(in, q, o) \in Nears(in, q, C) \ Range(h)
    <3>1. \A x \in Range(h) : x.id \in found
      BY <1>4
    <3> QED BY <1>3, <1>9, <3>1 DEF Nears
  <2>3. Near(in, q, e).dist <= Near(in, q, o).dist
    BY <2>1, <2>2 DEF Nearest
  <2> QED BY <1>3, <2>3
<1> QED BY <1>0, <1>5, <1>7, <1>8, <1>9 DEF NearestOf

\* When all workers are gone every list is done with, or could not be read.
LEMMA AllIsDone ==
    ASSUME Searching, stage # "search", NEW q \in Query
    PROVE  Of(Done(q)) = Candidates(q)
<1>1. \A w \in Worker : worker[w].pc = "gone"
  BY DEF Searching, Counted
<1>2. left = {}
  BY <1>1, WorkerAssumption DEF Searching, Held
<1>3. \A l : Waits(q, l) <=> l \in skipped
  BY <1>1, <1>2 DEF Waits, HoldsFor, IsBusy
<1>4. Done(q) = in.probe[q] \ skipped
  BY <1>3 DEF Done
<1> QED BY <1>4 DEF Of, Stored, Candidates, Part, File

\* Whatever worker scans which list when, and whatever is closed under them, a
\* query whose search ends has its K nearest entries (or all, when there are
\* fewer) of the lists that could be read, none of them twice, if the files have
\* each entry at one place; only a reload keeps a list from being read.
THEOREM FindsTheNearest == Spec => [](StoredOnce(in) => FindsNearest)
<1>1. Searching /\ StoredOnce(in) => FindsNearest
  <2> SUFFICES ASSUME Searching, StoredOnce(in), stage # "search" PROVE FindsNearest
    BY DEF FindsNearest
  <2>1. skipped # {} => \E f \in File : status[f] # "open"
    BY DEF Searching, Held
  <2>2. ASSUME NEW q \in Query
        PROVE  NearestOf(q, Ids(tops[q]), Candidates(q), Len(tops[q]))
    <3>1. PICK C, h : C = Of(Done(q)) /\ h = tops[q] /\ C = Candidates(q)
      BY AllIsDone
    <3>2. C \in SUBSET Entry /\ in \in Input /\ h \in Seq(Nears(in, q, Entry))
      <4>1. Done(q) \in SUBSET List /\ in \in Input
        BY DoneTypes DEF Searching, Types
      <4>2. Of(Done(q)) \subseteq Entry
        BY <4>1, OfTypes
      <4> QED BY <3>1, <4>1, <4>2 DEF Searching, Types
    <3>3. Nearest(h, Nears(in, q, C), K)
      BY <3>1 DEF Searching, Merged
    <3>4. NearestOf(q, Ids(h), C, Len(h))
      BY <3>2, <3>3, NearestEntries
    <3> QED BY <3>1, <3>4
  <2> QED BY <2>1, <2>2, Zenon DEF FindsNearest, NearestOf, Ids
<1> QED BY <1>1, AlwaysSearching, PTL

=============================================================================
