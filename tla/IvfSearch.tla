------------------------------ MODULE IvfSearch ------------------------------
(***************************************************************************)
(* One search: ivf.Index.Search over the files of a searcher, and the      *)
(* ranking of images by IMDB.processNeighbors.                             *)
(*                                                                         *)
(* The quantizer names the lists to probe for each query descriptor.       *)
(* Workers take lists, each list once, in no particular order (the map is  *)
(* iterated), read it from every file of the searcher, and push the        *)
(* nearest entries into the heaps of the queries that asked for it, a heap *)
(* at a time under its lock.  Meanwhile a reload may close the searcher    *)
(* (server.go runs Close in a goroutine that waits for nobody), and images *)
(* may be deleted from the catalog.                                        *)
(***************************************************************************)
EXTENDS Integers, FiniteSets, Hamming, TopK

CONSTANTS
    Input,      \* the searches: see IsInput
    Entry,      \* vector ids
    Query,      \* positions of the query descriptors
    List,       \* inverted lists
    Files,      \* number of files: the main one and shards
    Worker,     \* goroutines of the search
    K,          \* neighbours per descriptor
    NProbe,     \* lists per descriptor
    MaxDist,    \* SearchOptions.Distance
    MaxResults, \* SearchOptions.Count
    MaxDeleted  \* bound: images deleted during the search

ASSUME BoundsAssumption ==
    /\ Files \in Nat \ {0} /\ K \in Nat /\ NProbe \in Nat /\ MaxDist \in Nat
    /\ MaxResults \in Nat /\ MaxDeleted \in Nat
ASSUME SetsAssumption ==
    /\ Entry \subseteq Nat /\ IsFiniteSet(Entry)
    /\ Query \subseteq Nat /\ IsFiniteSet(Query)
\* At least one thread, and one goroutine for each of at most as many lists.
ASSUME WorkerAssumption == Worker # {}

File == 1..Files

\* What is stored and asked: vectors, the part of each list in each file,
\* centroids, the image of each vector, query descriptors, and the lists the
\* quantizer finds for them (fewer than NProbe when its graph yields fewer: the
\* rest is -1, and skipped).
IsInput(x) ==
    /\ DOMAIN x.vec = Entry /\ DOMAIN x.image = Entry
    /\ DOMAIN x.part = List /\ DOMAIN x.centroid = List /\ DOMAIN x.query = Query
    /\ \A e \in Entry : IsFiniteSet(x.vec[e])
    /\ \A l \in List, f \in File : x.part[l][f] \in Seq(Entry)
    /\ \A q \in Query :
          /\ IsFiniteSet(x.query[q])
          /\ x.probe[q] \subseteq List /\ Cardinality(x.probe[q]) <= NProbe

ASSUME InputAssumption == \A x \in Input : IsInput(x)

VARIABLES
    in,        \* the search that is made
    left,      \* lists no worker has taken
    worker,    \* what each worker is doing
    tops,      \* the heap of each query
    skipped,   \* history: lists that could not be read
    status,    \* each file: "open", "no decoder", "closed"
    crashed,   \* a worker has dereferenced a nil decoder: the process is gone
    stage,     \* "search", "rank" (votes are counted), "done"
    live,      \* images in the catalog
    votes,     \* neighbours of each image
    ranked     \* the answer

searchVars == <<left, worker, tops, skipped>>
rankVars == <<stage, votes, ranked>>
vars == <<in, searchVars, status, crashed, live, rankVars>>

Image == {in.image[e] : e \in Entry}
Idle == [pc |-> "idle", list |-> 0, file |-> 0, got |-> <<>>, ask |-> {}]

\* listQueries
Askers(l) == {q \in Query : l \in in.probe[q]}

\* The entries of list l in file f.
Part(l, f) == in.part[l][f]

\* What is stored of an entry is its residual, and the query is compared as a
\* residual too.
Item(q, l, e) ==
    LET c == in.centroid[l] IN
    [id |-> e, dist |-> Distance(Xor(in.query[q], c), Xor(in.vec[e], c))]

Init ==
    /\ in \in Input
    /\ left = UNION {in.probe[q] : q \in Query}
    /\ worker = [w \in Worker |-> Idle]
    /\ tops = [q \in Query |-> <<>>]
    /\ skipped = {}
    /\ status = [f \in File |-> "open"]
    /\ crashed = FALSE
    /\ stage = "search"
    /\ live = Image
    /\ votes = [i \in Image |-> 0]
    /\ ranked = <<>>

-----------------------------------------------------------------------------
(* The workers.                                                            *)

Take(w) ==
    /\ worker[w].pc = "idle"
    /\ \E l \in left :
          /\ left' = left \ {l}
          /\ worker' = [worker EXCEPT ![w] =
                [pc |-> "read", list |-> l, file |-> 1, got |-> <<>>, ask |-> Askers(l)]]
    /\ UNCHANGED <<in, tops, skipped, status, crashed, live, rankVars>>

\* Leaves out of lists.
Leave(w) ==
    /\ worker[w].pc = "idle"
    /\ left = {}
    /\ worker' = [worker EXCEPT ![w].pc = "gone"]
    /\ UNCHANGED <<in, left, tops, skipped, status, crashed, live, rankVars>>

\* GetList goes to the next file; after the last one an empty list is skipped.
NextFile(w, got) ==
    LET me == worker[w]
        next == CASE me.file < Files -> "read"
                  [] me.file = Files /\ got # <<>> -> "scan"
                  [] OTHER -> "idle"
    IN  worker' = [worker EXCEPT ![w] =
            [pc |-> next, list |-> me.list, file |-> me.file + 1, got |-> got, ask |-> me.ask]]

\* GetList fails: the whole list is skipped.
GiveUp(w) ==
    /\ worker' = [worker EXCEPT ![w] = Idle]
    /\ skipped' = skipped \cup {worker[w].list}

\* VStack.GetList and OnDisk.GetList: an empty list of a file is not read;
\* ReadAt of a closed file is an error.
Read(w) ==
    LET f == worker[w].file
        part == Part(worker[w].list, f)
    IN
    /\ worker[w].pc = "read"
    /\ \/ /\ part = <<>>
          /\ NextFile(w, worker[w].got)
          /\ UNCHANGED skipped
       \/ /\ part # <<>>
          /\ status[f] = "closed"
          /\ GiveUp(w)
       \/ /\ part # <<>>
          /\ status[f] # "closed"
          /\ worker' = [worker EXCEPT ![w].pc = "decode"]
          /\ UNCHANGED skipped
    /\ UNCHANGED <<in, left, tops, status, crashed, live, rankVars>>

\* Bug: of several files only the last one counts.
BugDecodeForgets(w) ==
    /\ worker[w].pc = "decode"
    /\ status[worker[w].file] = "open"
    /\ NextFile(w, Part(worker[w].list, worker[w].file))
    /\ UNCHANGED <<in, left, tops, skipped, status, crashed, live, rankVars>>

\* DecodeAll with the shared decoder.
Decode(w) ==
    LET f == worker[w].file IN
    /\ worker[w].pc = "decode"
    /\ status[f] = "open"
    /\ NextFile(w, worker[w].got \o Part(worker[w].list, f))
    /\ UNCHANGED <<in, left, tops, skipped, status, crashed, live, rankVars>>

\* DecodeAll of a decoder that is being closed is an error, of the nil left
\* behind a panic, which nothing recovers in a worker.
DecodeClosed(w) ==
    LET f == worker[w].file IN
    /\ worker[w].pc = "decode"
    /\ status[f] # "open"
    /\ \/ /\ status[f] = "no decoder"
          /\ GiveUp(w)
          /\ UNCHANGED crashed
       \/ /\ crashed' = TRUE
          /\ UNCHANGED <<worker, skipped>>
    /\ UNCHANGED <<in, left, tops, status, live, rankVars>>

\* The nearest entries of the list go into the heap of one query.
Scan(w) ==
    LET me == worker[w]
        q == Min(me.ask)
        near == KNN([n \in DOMAIN me.got |-> Item(q, me.list, me.got[n])], K)
    IN
    /\ me.pc = "scan"
    /\ tops' = [tops EXCEPT ![q] = PushAll(@, near, K)]
    /\ worker' = [worker EXCEPT ![w] =
                    IF me.ask = {q} THEN Idle ELSE [me EXCEPT !.ask = @ \ {q}]]
    /\ UNCHANGED <<in, left, skipped, status, crashed, live, rankVars>>

-----------------------------------------------------------------------------
(* searcher.Close, file after file, whoever still reads.                   *)

CloseDecoder(f) ==
    /\ status[f] = "open"
    /\ \A g \in 1..(f - 1) : status[g] = "closed"
    /\ status' = [status EXCEPT ![f] = "no decoder"]
    /\ UNCHANGED <<in, searchVars, crashed, live, rankVars>>

CloseFile(f) ==
    /\ status[f] = "no decoder"
    /\ status' = [status EXCEPT ![f] = "closed"]
    /\ UNCHANGED <<in, searchVars, crashed, live, rankVars>>

-----------------------------------------------------------------------------
(* processNeighbors.                                                       *)

DeleteImage(i) ==
    /\ stage # "done"
    /\ Cardinality(Image \ live) < MaxDeleted
    /\ live' = live \ {i}
    /\ UNCHANGED <<in, searchVars, status, crashed, rankVars>>

\* Neighbours of an image within the distance.
Support(i) ==
    {x \in Query \X (1..K) :
        LET top == tops[x[1]] IN
        /\ x[2] <= Len(top)
        /\ top[x[2]].dist <= MaxDist
        /\ in.image[top[x[2]].id] = i}

\* wg.Wait returns; neighbours become votes for the images findImageID finds.
Group ==
    /\ stage = "search"
    /\ \A w \in Worker : worker[w].pc = "gone"
    /\ stage' = "rank"
    /\ votes' = [i \in Image |-> IF i \in live THEN Cardinality(Support(i)) ELSE 0]
    /\ UNCHANGED <<in, searchVars, status, crashed, live, ranked>>

FirstFew(s) == SubSeq(s, 1, IF Len(s) < MaxResults THEN Len(s) ELSE MaxResults)
ByVotes(s) == \A m, n \in DOMAIN s : m < n => votes[s[m]] >= votes[s[n]]

\* Paths are looked up one after the other; an image that is gone by now is
\* left out.
WithPath(s) == FoldLeft(LAMBDA found, i : IF i \in live THEN Append(found, i) ELSE found, <<>>, s)

\* Bug: the list is cut before it is sorted.
BugRankCutsFirst ==
    /\ stage = "rank"
    /\ stage' = "done"
    /\ \E s \in SetToSeqs({i \in Image : votes[i] > 0}) :
          /\ ByVotes(FirstFew(s))
          /\ ranked' = WithPath(FirstFew(s))
    /\ UNCHANGED <<in, searchVars, status, crashed, live, votes>>

\* Sort by score, keep the first few, look their paths up.  With ScoreCount the
\* score is the number of votes.
Rank ==
    /\ stage = "rank"
    /\ stage' = "done"
    /\ \E s \in SetToSeqs({i \in Image : votes[i] > 0}) :
          /\ ByVotes(s)
          /\ ranked' = WithPath(FirstFew(s))
    /\ UNCHANGED <<in, searchVars, status, crashed, live, votes>>

-----------------------------------------------------------------------------
WorkerStep(w) ==
    \/ Take(w)
    \/ Leave(w)
    \/ Read(w)
    \/ Decode(w)
    \/ DecodeClosed(w)
    \/ Scan(w)

Ended == (stage = "done" \/ crashed) /\ UNCHANGED vars

\* Nothing can be done over, so a search that reaches no state where it is stuck
\* short of its end always ends: Ended leaves that to TLC's deadlock check.
Next ==
    \/ /\ ~crashed
       /\ \/ \E w \in Worker : WorkerStep(w)
          \/ \E f \in File : CloseDecoder(f)
          \/ \E f \in File : CloseFile(f)
          \/ \E i \in live : DeleteImage(i)
          \/ Group
          \/ Rank
    \/ Ended

Spec == Init /\ [][Next]_vars

-----------------------------------------------------------------------------
(* What a search promises.                                                 *)

TypeOK ==
    /\ in \in Input
    /\ left \subseteq List /\ skipped \subseteq List
    /\ \A w \in Worker :
          /\ worker[w].pc \in {"idle", "read", "decode", "scan", "gone"}
          /\ worker[w].pc \in {"read", "decode"} => worker[w].file \in File
          /\ worker[w].pc = "scan" => worker[w].ask # {} /\ worker[w].got # <<>>
    /\ \A q \in Query : Len(tops[q]) <= K
    /\ status \in [File -> {"open", "no decoder", "closed"}]
    /\ live \subseteq Image
    /\ Len(ranked) <= MaxResults

Candidates(q) ==
    UNION {Range(Part(l, f)) : l \in in.probe[q] \ skipped, f \in File}

\* Whatever worker scans which list when, a query ends with its K nearest
\* entries (or all, when there are fewer) of the lists it probes, none of them
\* twice; the only lists that are missing are those a reload closed under it.
FindsNearest ==
    stage # "search" =>
        /\ skipped # {} => \E f \in File : status[f] # "open"
        /\ \A q \in Query :
              LET found == {tops[q][n].id : n \in DOMAIN tops[q]}
                  there == Cardinality(Candidates(q))
              IN
              /\ found \subseteq Candidates(q)
              /\ Cardinality(found) = Len(tops[q])
              /\ Len(tops[q]) = IF there < K THEN there ELSE K
              /\ \A e \in found, o \in Candidates(q) \ found :
                    Distance(in.query[q], in.vec[e]) <= Distance(in.query[q], in.vec[o])

\* The answer names images that were there when their paths were looked up,
\* each once, best first, and leaves out none that has more votes than one it
\* names.
BestImagesFirst ==
    stage = "done" =>
        /\ \A m, n \in DOMAIN ranked : m < n =>
              ranked[m] # ranked[n] /\ votes[ranked[m]] >= votes[ranked[n]]
        /\ \A n \in DOMAIN ranked :
              /\ ranked[n] \in live
              /\ \A i \in live :
                    Cardinality(Support(i)) > votes[ranked[n]] =>
                        \E m \in DOMAIN ranked : ranked[m] = i

\* The decoder is said to be safe for concurrent use.
NeverCrashes == ~crashed
=============================================================================
