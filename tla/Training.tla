------------------------------ MODULE Training ------------------------------
(***************************************************************************)
(* `imseek train` with the local backend: a sample of the catalog's        *)
(* descriptors is clustered, the centroids become the graph that is the    *)
(* quantizer, and the quantizer is saved; then builds assign descriptors   *)
(* to lists with it and searches ask it for lists.  The process may stop   *)
(* at any step.                                                            *)
(***************************************************************************)
EXTENDS KModes, Hnsw

CONSTANTS
    Catalog,      \* sets of images: see IsImages
    Options,      \* what `train` is asked for
    MaxIter,      \* iterations of a clustering
    Level,        \* levels the random numbers give the nodes of the graph
    Vector,       \* descriptors that are looked up
    MaxProbe,     \* largest number of lists asked for
    MaxTrainings  \* bound

IsImages(images) ==
    /\ images \in Seq([count : Nat, codes : Seq(SUBSET Bit)])
    /\ \A n \in DOMAIN images : Len(images[n].codes) <= images[n].count

ASSUME CatalogAssumption == \A images \in Catalog : IsImages(images)
ASSUME OptionsAssumption ==
    \A o \in Options :
        /\ o.nlist \in Nat \ {0} /\ o.twoLevel \in BOOLEAN
        /\ o.init \in {"random", "kmeans-plus-plus"} /\ o.images \in Nat
ASSUME LevelAssumption == Level \subseteq Nat /\ 0 \in Level
ASSUME VectorAssumption == Vector \subseteq SUBSET Bit
ASSUME TrainingBoundsAssumption ==
    MaxIter \in Nat \ {0} /\ MaxProbe \in Nat \ {0} /\ MaxTrainings \in Nat

VARIABLES
    images,     \* the catalog
    opts,       \* options of the training
    sample,     \* what it clusters
    pc,         \* where it is
    task,       \* the clustering that runs, see NewTask
    todo,       \* clusterings of the second level that are left
    result,     \* centroids so far
    graph,      \* the graph that is built
    file,       \* the quantizer file, NoFile when there is none
    builder,    \* the quantizer a builder has loaded, NoFile when there is no builder
    built,      \* entries of the inverted lists
    makers,     \* history: the quantizers they were made with
    found,      \* the last search of the quantizer
    trainings   \* history: trainings begun

given == <<images, opts>>
clustering == <<sample, task, todo>>
stored == <<file, builder, built, makers>>
vars == <<given, clustering, pc, result, graph, stored, found, trainings>>

NoFile == EmptyGraph
NoSearch == [query |-> {}, near |-> <<>>]

\* round counts iterations; settled says that the last one brought nothing.
NewTask(first, data, k) ==
    [first |-> first, data |-> data, k |-> k, centroids |-> <<>>, distance |-> 0,
     round |-> 0, settled |-> FALSE]
NoTask == NewTask(FALSE, <<>>, 0)

\* There may be a quantizer of one list from before.
Init ==
    /\ images \in Catalog
    /\ opts \in Options
    /\ sample = <<>> /\ task = NoTask /\ todo = <<>>
    /\ pc = "idle"
    /\ result = <<>> /\ graph = EmptyGraph
    /\ file \in {NoFile, Add(EmptyGraph, {}, 0)}
    /\ builder = NoFile /\ built = {} /\ makers = {}
    /\ found = NoSearch
    /\ trainings = 0

-----------------------------------------------------------------------------
(* Clustering.                                                             *)

\* runTrain: without --images, PerCenter for each list, at most all.
SampleCount ==
    LET total == Total([n \in DOMAIN images |-> images[n].count], Len(images)) IN
    IF opts.images > 0 THEN opts.images ELSE Lesser(PerCenter * opts.nlist, total)

TwoLevel(data) == opts.twoLevel /\ Len(data) >= PerCenter * opts.nlist

\* What the process has in memory when it trains nothing.
NothingInMemory ==
    /\ sample' = <<>> /\ task' = NoTask /\ todo' = <<>>
    /\ result' = <<>> /\ graph' = EmptyGraph

\* ExportVectors and Backend.Train up to the first clustering; without samples
\* it is an error.
Train ==
    LET data == Export(images, SampleCount)
        nc1 == FirstLevel(opts.nlist)
    IN
    /\ pc = "idle"
    /\ trainings < MaxTrainings
    /\ trainings' = trainings + 1
    /\ IF data = <<>> THEN UNCHANGED <<pc, sample, task>>
       ELSE /\ pc' = "seed"
            /\ sample' = data
            /\ task' = IF TwoLevel(data)
                       THEN NewTask(TRUE, SubSeq(data, 1, Lesser(nc1 * Subset, Len(data))), nc1)
                       ELSE NewTask(FALSE, data, opts.nlist)
    /\ found' = NoSearch
    /\ UNCHANGED <<given, todo, result, graph, stored>>

Seed ==
    /\ pc = "seed"
    /\ \E seeds \in Seeds(task.data, task.k, opts.init) :
          task' = [task EXCEPT !.centroids = seeds]
    /\ pc' = "iterate"
    /\ UNCHANGED <<given, sample, todo, result, graph, stored, found, trainings>>

\* An iteration that lowers the cost moves the centroids; when there are fewer
\* than k, setting the first that is missing panics.
Iterate ==
    LET now == Cost(task.data, task.centroids)
        better == task.round = 0 \/ now < task.distance
    IN
    /\ pc = "iterate"
    /\ task.round < MaxIter /\ ~task.settled
    /\ \/ /\ ~better
          /\ task' = [task EXCEPT !.settled = TRUE]
          /\ UNCHANGED pc
       \/ /\ better /\ Len(task.centroids) < task.k
          /\ pc' = "panicked"
          /\ UNCHANGED task
       \/ /\ better /\ Len(task.centroids) >= task.k
          /\ task' = [task EXCEPT
                !.distance = now,
                !.centroids = Recentered(task.data, Assigned(task.data, @), task.k),
                !.round = @ + 1]
          /\ UNCHANGED pc
    /\ UNCHANGED <<given, sample, todo, result, graph, stored, found, trainings>>

Clustered == pc = "iterate" /\ (task.settled \/ task.round = MaxIter)

\* Cluster returns to Train.
EndOnly ==
    /\ Clustered
    /\ ~TwoLevel(sample)
    /\ result' = task.centroids
    /\ pc' = "index"
    /\ UNCHANGED <<given, clustering, graph, stored, found, trainings>>

\* The second level: the clusterings of the buckets that have a share, and the
\* count that ends it.
NextPart(parts, centroids) ==
    /\ todo' = IF parts = <<>> THEN <<>> ELSE Tail(parts)
    /\ task' = IF parts = <<>> THEN task ELSE Head(parts)
    /\ pc' = CASE parts # <<>> -> "seed"
               [] parts = <<>> /\ Len(centroids) = opts.nlist -> "index"
               [] OTHER -> "panicked"

\* Of the first level, only the buckets are kept.
EndFirst ==
    LET buckets == Buckets(sample, task.centroids)
        share == Shares([c \in DOMAIN buckets |-> Len(buckets[c])], opts.nlist)
    IN
    /\ Clustered
    /\ TwoLevel(sample) /\ task.first
    /\ NextPart(AtPositions([c \in DOMAIN buckets |-> NewTask(FALSE, buckets[c], share[c])],
                            {c \in DOMAIN share : share[c] > 0}),
                <<>>)
    /\ UNCHANGED <<given, sample, result, graph, stored, found, trainings>>

EndPart ==
    /\ Clustered
    /\ TwoLevel(sample) /\ ~task.first
    /\ result' = result \o task.centroids
    /\ NextPart(todo, result')
    /\ UNCHANGED <<given, sample, graph, stored, found, trainings>>

-----------------------------------------------------------------------------
(* The quantizer.                                                          *)

\* quantizer.New: the centroids are added in order.
AddCentroid ==
    /\ pc = "index"
    /\ Len(graph.vec) < Len(result)
    /\ \E level \in Level : graph' = Add(graph, result[Len(graph.vec) + 1], level)
    /\ UNCHANGED <<given, clustering, pc, result, stored, found, trainings>>

\* Bug: the file is written in place.
BugSaveTmp ==
    /\ pc = "index"
    /\ Len(graph.vec) = Len(result)
    /\ pc' = "rename"
    /\ file' = [graph EXCEPT !.links = [n \in DOMAIN graph.vec |-> <<<<>>>>]]
    /\ UNCHANGED <<given, clustering, result, graph, builder, built, makers, found, trainings>>

\* Save writes path.tmp, which nobody reads.
SaveTmp ==
    /\ pc = "index"
    /\ Len(graph.vec) = Len(result)
    /\ pc' = "rename"
    /\ UNCHANGED <<given, clustering, result, graph, stored, found, trainings>>

SaveRename ==
    /\ pc = "rename"
    /\ file' = graph
    /\ pc' = "idle"
    /\ NothingInMemory
    /\ UNCHANGED <<given, builder, built, makers, found, trainings>>

\* The process ends: what was in memory is lost.
Crash ==
    /\ pc # "idle"
    /\ pc' = "idle"
    /\ NothingInMemory
    /\ UNCHANGED <<given, stored, found, trainings>>

-----------------------------------------------------------------------------
(* The quantizer in use, by this process or another.  It touches nothing a  *)
(* training in progress reads or writes before SaveRename, so it is enough  *)
(* to take these steps when none is in progress.                            *)

\* NewBuilder loads the file; it is kept until the builder is closed.  (Bound:
\* one build.)
OpenBuilder ==
    /\ pc = "idle" /\ builder = NoFile /\ file # NoFile
    /\ built = {}
    /\ builder' = file
    /\ UNCHANGED <<given, clustering, pc, result, graph, file, built, makers, found, trainings>>

\* Bug: the vector itself is stored.
BugNewEntry(g, v) == [vec |-> v, list |-> Search(g, v, 1)[1].id, code |-> v]

\* ivf.Index.Add: an entry is the residual of a vector, in the nearest list.
NewEntry(g, v) ==
    LET list == Search(g, v, 1)[1].id IN
    [vec |-> v, list |-> list, code |-> Xor(v, g.vec[list])]

\* A build: all vectors there are, then Close.
Build ==
    /\ pc = "idle" /\ builder # NoFile
    /\ built' = built \cup {NewEntry(builder, v) :
                                v \in UNION {Range(images[n].codes) : n \in DOMAIN images}}
    /\ makers' = makers \cup {builder}
    /\ builder' = NoFile
    /\ UNCHANGED <<given, clustering, pc, result, graph, file, found, trainings>>

\* A search of the quantizer, for each number of lists up to MaxProbe.  It
\* changes nothing, so one is enough.
Lookup ==
    /\ pc = "idle" /\ builder = NoFile
    /\ file # NoFile /\ found = NoSearch
    /\ \E q \in Vector :
          found' = [query |-> q, near |-> [k \in 1..MaxProbe |-> Search(file, q, k)]]
    /\ UNCHANGED <<given, clustering, pc, result, graph, stored, trainings>>

-----------------------------------------------------------------------------
Next ==
    \/ Train \/ Seed \/ Iterate \/ EndOnly \/ EndFirst \/ EndPart
    \/ AddCentroid \/ SaveTmp \/ SaveRename \/ Crash
    \/ OpenBuilder \/ Build \/ Lookup

Spec == Init /\ [][Next]_vars

-----------------------------------------------------------------------------
(* What the quantizer promises.                                            *)

IsGraph(g) ==
    /\ DOMAIN g.links = DOMAIN g.vec
    /\ g.entry \in 0..Len(g.vec)
    /\ g.top \in Level \cup {-1}

TypeOK ==
    /\ pc \in {"idle", "seed", "iterate", "index", "rename", "panicked"}
    /\ Range(sample) \subseteq SUBSET Bit
    /\ Range(result) \subseteq SUBSET Bit
    /\ task.round \in 0..MaxIter
    /\ IsGraph(graph) /\ IsGraph(file) /\ IsGraph(builder)
    /\ trainings \in 0..MaxTrainings

\* DistSum is said to be the distance of all points to their nearest centroid
\* at convergence.  It is when the clustering has converged: moving centroids
\* and points never makes the sum larger, so the iteration that brings nothing
\* measures the same sum for the centroids that are kept.
CostIsReal ==
    task.settled => Cost(task.data, task.centroids) = task.distance

\* Training panics for one reason only: random first centroids are asked for
\* and there are fewer samples than lists.  The shares of the second level add
\* up to the lists asked for, and no bucket is asked for more than it has.
PanicsOnlyShort ==
    pc = "panicked" => opts.init = "random" /\ Len(sample) < opts.nlist

\* Links stay within their bounds and lead to other nodes that have the layer,
\* each once, and the entry point is a node of the top layer.
WellLinked ==
    /\ graph.entry # 0 =>
          \A n \in DOMAIN graph.vec : Len(graph.links[n]) <= Len(graph.links[graph.entry])
    /\ \A n \in DOMAIN graph.vec, l \in 0..graph.top :
          LET nbs == LinksOf(graph, n, l) IN
          /\ Len(nbs) <= IF l = 0 THEN M0 ELSE M
          /\ Cardinality(Range(nbs)) = Len(nbs)
          /\ \A o \in Range(nbs) : o # n /\ l < Len(graph.links[o])

\* The answers to a search are different lists, nearest first, no more than were
\* asked for; who asks for more, up to EfSearch, gets the same lists in front;
\* and in a graph so small that no links were dropped, they are the nearest, as
\* many as were asked for if there are.
FindsLists ==
    \A k \in DOMAIN found.near :
        LET ids == Range(Ids(found.near[k]))
            far(n) == Distance(found.query, file.vec[n])
            small == Len(file.vec) <= Lesser(M0 + 1, EfConstruction)
        IN
        found.near[k] # <<>> =>
            /\ Cardinality(ids) = Len(found.near[k]) /\ Len(found.near[k]) <= k
            /\ \A i, j \in DOMAIN found.near[k] :
                  i < j => far(found.near[k][i].id) <= far(found.near[k][j].id)
            /\ k <= EfSearch => \A i \in 1..k : found.near[i] = UpTo(found.near[k], i)
            /\ small /\ (Len(file.vec) <= EfSearch \/ Len(file.vec) <= k) =>
                  /\ Cardinality(ids) = Lesser(k, Len(file.vec))
                  /\ \A n \in ids, o \in DOMAIN file.vec \ ids : far(n) <= far(o)

\* A vector in the lists is found by a search for itself, in whatever list the
\* quantizer put it and at distance zero, however few lists are probed, as long
\* as all entries were made with the quantizer that is searched.  Training
\* again, or while a build runs, breaks this, and nothing in the code forbids it.
StoredIsFound ==
    \A e \in built, k \in 1..Lesser(MaxProbe, EfSearch) :
        makers = {file} /\ e.vec = found.query /\ k \in DOMAIN found.near =>
            /\ e.list \in Range(Ids(found.near[k]))
            /\ Distance(Xor(found.query, file.vec[e.list]), e.code) = 0

\* The sample is said to be spread evenly over the whole dataset: if there is
\* room for one descriptor of each image, no image is left out.
EveryImageSampled ==
    pc = "seed" /\ todo = <<>> /\ result = <<>> /\ SampleCount >= Len(images) =>
        \A n \in DOMAIN images :
            images[n].codes # <<>> =>
                \E v \in Range(images[n].codes) : v \in Range(sample)
=============================================================================
