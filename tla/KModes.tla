------------------------------- MODULE KModes -------------------------------
(***************************************************************************)
(* Clustering of binary descriptors: the steps of kmodes.Cluster and of    *)
(* kmodes.Cluster2Level.  What the random numbers decide, the first        *)
(* centroids, is a set.                                                    *)
(***************************************************************************)
EXTENDS Integers, Hamming, SequencesExt

CONSTANTS
    Bit,        \* bits of a descriptor
    PerCenter,  \* vectors a center needs for the two-level clustering (30)
    Subset      \* vectors for a center of the first level (1024)

ASSUME BitAssumption == IsFiniteSet(Bit)
ASSUME ClusterAssumption == PerCenter \in Nat \ {0} /\ Subset \in Nat \ {0}

Lesser(a, b) == IF a < b THEN a ELSE b

\* The sum of f[1..n].
Total(f, n) == FoldLeft(LAMBDA acc, x : acc + x, 0, SubSeq(f, 1, n))

\* The elements of s at the positions in P, in order.
AtPositions(s, P) ==
    LET upto[n \in 0..Len(s)] ==
            IF n = 0 THEN <<>>
            ELSE IF n \in P THEN Append(upto[n - 1], s[n])
            ELSE upto[n - 1]
    IN  upto[Len(s)]

ToNearest(v, centroids) == Min({Distance(v, c) : c \in Range(centroids)})

\* updateAssignments: the first of the nearest centroids.
Assign(v, centroids) ==
    Min({j \in DOMAIN centroids : Distance(v, centroids[j]) = ToNearest(v, centroids)})

Assigned(data, centroids) == [n \in DOMAIN data |-> Assign(data[n], centroids)]

Cost(data, centroids) ==
    Total([n \in DOMAIN data |-> ToNearest(data[n], centroids)], Len(data))

-----------------------------------------------------------------------------
(* First centroids.                                                        *)

\* initRandom: distinct positions, no more of them than there are vectors.
RandomSeeds(data, k) ==
    {[c \in 1..Lesser(k, Len(data)) |-> data[pos[c]]] :
        pos \in {p \in [1..Lesser(k, Len(data)) -> DOMAIN data] :
                    \A a, b \in DOMAIN p : a # b => p[a] # p[b]}}

\* initKmeansPlusPlus: each one is drawn from the vectors that are no centroid
\* yet, from all of them when there are no others.
PlusPlusSeeds(data, k) ==
    LET away(seeds) == Range(data) \ Range(seeds)
        more(seeds) == IF away(seeds) = {} THEN Range(data) ELSE away(seeds)
        upto[n \in 0..k] ==
            IF n = 0 THEN {<<>>}
            ELSE UNION {{Append(s, v) : v \in more(s)} : s \in upto[n - 1]}
    IN  upto[k]

Seeds(data, k, init) ==
    IF init = "kmeans-plus-plus" THEN PlusPlusSeeds(data, k) ELSE RandomSeeds(data, k)

-----------------------------------------------------------------------------
(* New centroids.                                                          *)

\* Bug: half of the points are enough for a bit.
BugMajority(points, data) ==
    {b \in Bit : points # {} /\
        Cardinality({n \in points : b \in data[n]}) >= Cardinality(points) \div 2}

\* updateCentroid: the bits more than half of the points have; of no points,
\* no bit.
Majority(points, data) ==
    {b \in Bit : Cardinality({n \in points : b \in data[n]}) > Cardinality(points) \div 2}

Recentered(data, assignment, k) ==
    [c \in 1..k |-> Majority({n \in DOMAIN data : assignment[n] = c}, data)]

-----------------------------------------------------------------------------
(* Two levels.                                                             *)

Isqrt(n) == Max({r \in 0..n : r * r <= n})

FirstLevel(nc) == IF Isqrt(nc) < 1 THEN 1 ELSE Isqrt(nc)

\* The vectors nearest to each centroid of the first level.
Buckets(data, centroids) ==
    [c \in DOMAIN centroids |->
        AtPositions(data, {n \in DOMAIN data : Assign(data[n], centroids) = c})]

\* Bug: every bucket gets its share, rounded down.
BugShares(size, nc) ==
    [c \in DOMAIN size |-> (size[c] * nc) \div Total(size, Len(size))]

\* The centers of each bucket: differences of rounded prefix sums.
Shares(size, nc) ==
    LET all == Total(size, Len(size))
        upto(c) == IF all = 0 THEN 0 ELSE (Total(size, c) * nc) \div all
    IN  [c \in DOMAIN size |-> upto(c) - IF c = 1 THEN 0 ELSE upto(c - 1)]

-----------------------------------------------------------------------------
(* What is clustered: IMDB.ExportVectors.                                  *)

\* Every step-th of a sequence, from the first.
Strided(s, step) == [n \in 1..((Len(s) + step - 1) \div step) |-> s[(n - 1) * step + 1]]

\* The codes of each image that are taken, and how many images are read before
\* there are enough.  The total is what the statistics say.
Stride(images, count) ==
    LET total == Total([n \in DOMAIN images |-> images[n].count], Len(images)) IN
    IF count >= total THEN 1 ELSE total \div count

TakenOf(images, count, n) == Strided(images[n].codes, Stride(images, count))

Export(images, count) ==
    IF count = 0 THEN <<>>
    ELSE LET taken == FlattenSeq([n \in DOMAIN images |-> TakenOf(images, count, n)])
         IN  SubSeq(taken, 1, Lesser(count, Len(taken)))
=============================================================================
