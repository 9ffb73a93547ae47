-------------------------------- MODULE Hnsw --------------------------------
(***************************************************************************)
(* The graph over the centroids: hnsw.HNSW.  A graph is a record of the    *)
(* vectors, the links of each node in each of its layers (layer l is       *)
(* position l + 1), the entry point (0: none) and the highest layer.       *)
(*                                                                         *)
(* Ties are broken as the code breaks them: by the order in which links    *)
(* were added and by the heaps.  Only the level of a node is random.       *)
(***************************************************************************)
EXTENDS Hamming, TopK

CONSTANTS
    M,              \* links of a node in an upper layer
    M0,             \* links of a node in layer 0
    EfConstruction, \* candidates looked for by Add
    EfSearch        \* candidates looked for by Search, at least

ASSUME ParamsAssumption ==
    /\ M \in Nat \ {0} /\ M0 \in Nat \ {0}
    /\ EfConstruction \in Nat \ {0} /\ EfSearch \in Nat \ {0}

EmptyGraph == [vec |-> <<>>, links |-> <<>>, entry |-> 0, top |-> -1]

LinksOf(g, n, layer) ==
    IF layer < Len(g.links[n]) THEN g.links[n][layer + 1] ELSE <<>>

Candidate(g, v, n) == [id |-> n, dist |-> Distance(v, g.vec[n])]
Ids(cands) == [n \in DOMAIN cands |-> cands[n].id]
UpTo(s, n) == SubSeq(s, 1, IF Len(s) < n THEN Len(s) ELSE n)

-----------------------------------------------------------------------------
(* The two heaps of a search.  One that is to yield the nearest first holds *)
(* negated distances.                                                      *)

\* The last item rises past the parents that are nearer.
PushHeap(h, x) ==
    LET last == Len(h) + 1
        stays(j) == j = 1 \/ h[j \div 2].dist >= x.dist
        path[j \in 1..last] == IF stays(j) THEN {j} ELSE {j} \cup path[j \div 2]
    IN  [j \in 1..last |->
            CASE j \notin path[last] -> h[j]
              [] j \in path[last] /\ stays(j) -> x
              [] OTHER -> h[j \div 2]]

PopHeap(h) ==
    IF Len(h) = 1 THEN <<>>
    ELSE SiftDown([Front(h) EXCEPT ![1] = Last(h)], 1)

\* What popping everything gives, the last item popped first.
Drain(h) ==
    LET after[n \in 0..Len(h)] ==
            IF n = 0 THEN [heap |-> h, out |-> <<>>]
            ELSE [heap |-> PopHeap(after[n - 1].heap),
                  out |-> <<after[n - 1].heap[1]>> \o after[n - 1].out]
    IN  after[Len(h)].out

Neg(c) == [c EXCEPT !.dist = -@]

-----------------------------------------------------------------------------
(* Searching a layer.                                                      *)

\* Along links to strictly nearer nodes.  A round looks at the links of the
\* node it begins with, and ends at the first of the nearest.
GreedyClosest(g, v, start, layer) ==
    LET near(n) == Distance(v, g.vec[n])
        walk[n \in DOMAIN g.vec] ==
            LET nbs == LinksOf(g, n, layer)
                firstNearest(j) ==
                    /\ \A i \in DOMAIN nbs : near(nbs[j]) <= near(nbs[i])
                    /\ \A i \in 1..(j - 1) : near(nbs[i]) > near(nbs[j])
            IN  IF \E i \in DOMAIN nbs : near(nbs[i]) < near(n)
                THEN walk[nbs[CHOOSE j \in DOMAIN nbs : firstNearest(j)]]
                ELSE n
    IN  walk[start]

Descend(g, v, down) ==
    LET at[layer \in (down + 1)..(g.top + 1)] ==
            IF layer = g.top + 1 THEN g.entry
            ELSE GreedyClosest(g, v, at[layer + 1], layer)
    IN  IF down > g.top THEN g.entry ELSE at[down + 1]

\* A neighbour not seen before is kept if it is among the ef nearest so far.
Visit(s, c, ef) ==
    IF c.id \in s.visited THEN s
    ELSE IF Len(s.res) < ef \/ c.dist < s.res[1].dist
    THEN [s EXCEPT
            !.visited = @ \cup {c.id},
            !.cand = PushHeap(@, Neg(c)),
            !.res = LET more == PushHeap(@, c) IN IF Len(more) > ef THEN PopHeap(more) ELSE more]
    ELSE [s EXCEPT !.visited = @ \cup {c.id}]

\* The nearest candidate is expanded, or ends the search: it is farther than
\* all of ef results.
Expand(g, v, s, ef, layer) ==
    LET c == Neg(s.cand[1])
        nbs == LinksOf(g, c.id, layer)
        rest == [s EXCEPT !.cand = PopHeap(@)]
        after[n \in 0..Len(nbs)] ==
            IF n = 0 THEN rest ELSE Visit(after[n - 1], Candidate(g, v, nbs[n]), ef)
    IN  IF Len(s.res) >= ef /\ c.dist > s.res[1].dist
        THEN [s EXCEPT !.cand = <<>>]
        ELSE after[Len(nbs)]

\* searchLayer: at most ef nodes, nearest first.
SearchLayer(g, v, ep, ef, layer) ==
    LET first == Candidate(g, v, ep)
        after[n \in 0..Len(g.vec)] ==
            IF n = 0 THEN [visited |-> {ep}, cand |-> <<Neg(first)>>, res |-> <<first>>]
            ELSE IF after[n - 1].cand = <<>> THEN after[n - 1]
            ELSE Expand(g, v, after[n - 1], ef, layer)
    IN  Drain(after[Len(g.vec)].res)

Search(g, q, k) ==
    IF g.entry = 0 \/ k <= 0 THEN <<>>
    ELSE UpTo(SearchLayer(g, q, Descend(g, q, 0), IF EfSearch > k THEN EfSearch ELSE k, 0), k)

-----------------------------------------------------------------------------
(* Adding a node.                                                          *)

\* Candidates, nearest first, that are not nearer to one already taken than to
\* the node; then, to have m of them, the nearest of the others.
SelectNeighbors(g, cands, m) ==
    LET good(taken, c) == \A s \in Range(taken) : Distance(g.vec[c.id], g.vec[s]) >= c.dist
        after[n \in 0..Len(cands)] ==
            IF n = 0 THEN [taken |-> <<>>, others |-> <<>>]
            ELSE IF Len(after[n - 1].taken) < m /\ good(after[n - 1].taken, cands[n])
            THEN [after[n - 1] EXCEPT !.taken = Append(@, cands[n].id)]
            ELSE [after[n - 1] EXCEPT !.others = Append(@, cands[n].id)]
        split == after[Len(cands)]
    IN  IF Len(cands) <= m THEN Ids(cands) ELSE UpTo(split.taken \o split.others, m)

\* A stable sort by distance.
ByDistance(cands) ==
    LET before(i, j) == cands[i].dist < cands[j].dist \/ (cands[i].dist = cands[j].dist /\ i < j)
        place(j) == Cardinality({i \in DOMAIN cands : before(i, j)}) + 1
    IN  [p \in DOMAIN cands |-> cands[CHOOSE j \in DOMAIN cands : place(j) = p]]

\* Bug: the links back are not pruned.
BugLinkBackGrows(g, n, id, layer, m) ==
    [g EXCEPT !.links[n][layer + 1] = Append(@, id)]

\* The links of n with one more to id, pruned to m.
LinkBack(g, n, id, layer, m) ==
    LET nbs == Append(g.links[n][layer + 1], id)
        cands == [i \in DOMAIN nbs |-> Candidate(g, g.vec[n], nbs[i])]
    IN  [g EXCEPT !.links[n][layer + 1] =
            IF Len(nbs) > m THEN SelectNeighbors(g, ByDistance(cands), m) ELSE nbs]

\* The new node id gets its links in one layer, and the search goes on from the
\* nearest node found.
LinkLayer(s, id, layer) ==
    LET v == s.g.vec[id]
        m == IF layer = 0 THEN M0 ELSE M
        cands == SearchLayer(s.g, v, s.curr, EfConstruction, layer)
        selected == SelectNeighbors(s.g, cands, m)
        after[n \in 0..Len(selected)] ==
            IF n = 0 THEN [s.g EXCEPT !.links[id][layer + 1] = selected]
            ELSE LinkBack(after[n - 1], selected[n], id, layer, m)
    IN  [g |-> after[Len(selected)], curr |-> IF cands = <<>> THEN s.curr ELSE cands[1].id]

\* Bug: the number of layers is taken for the highest one.
BugAddCounts(g, v, level) ==
    [vec |-> Append(g.vec, v), links |-> Append(g.links, [l \in 1..(level + 1) |-> <<>>]),
     entry |-> Len(g.vec) + 1, top |-> level + 1]

\* Add with the level the random number gives.
Add(g, v, level) ==
    LET id == Len(g.vec) + 1
        bare == [g EXCEPT !.vec = Append(@, v),
                          !.links = Append(@, [l \in 1..(level + 1) |-> <<>>])]
        start == IF level < g.top THEN level ELSE g.top
        after[layer \in 0..(start + 1)] ==
            IF layer = start + 1 THEN [g |-> bare, curr |-> Descend(bare, v, level)]
            ELSE LinkLayer(after[layer + 1], id, layer)
        linked == after[0].g
    IN  CASE g.entry = 0 -> [bare EXCEPT !.entry = id, !.top = level]
          [] g.entry # 0 /\ level > g.top -> [linked EXCEPT !.entry = id, !.top = level]
          [] OTHER -> linked
=============================================================================
