-------------------------------- MODULE TopK --------------------------------
(***************************************************************************)
(* The k nearest of a stream, kept in a binary max-heap (ivf/topk.go and   *)
(* hamming.KNN, which are the same algorithm).  A heap is a sequence of    *)
(* items with a field dist; the children of position j are 2j and 2j + 1.  *)
(***************************************************************************)
EXTENDS Integers, SequencesExt

\* The child with the larger distance, the left one on a tie.
FarChild(h, j) ==
    IF 2 * j < Len(h) /\ h[2 * j + 1].dist > h[2 * j].dist THEN 2 * j + 1 ELSE 2 * j

\* The item x stays at position j: no child is farther.
Settles(h, x, j) == 2 * j > Len(h) \/ h[FarChild(h, j)].dist <= x.dist

\* The item at i sinks along the farther children until it settles.
SiftDown(h, i) ==
    LET path[j \in 1..Len(h)] ==
            IF Settles(h, h[i], j) THEN {j} ELSE {j} \cup path[FarChild(h, j)]
    IN  [j \in 1..Len(h) |->
            CASE j \notin path[i] -> h[j]
              [] j \in path[i] /\ Settles(h, h[i], j) -> h[i]
              [] OTHER -> h[FarChild(h, j)]]

BuildHeap(h) ==
    LET half == Len(h) \div 2
        after[n \in 0..half] ==
            IF n = 0 THEN h ELSE SiftDown(after[n - 1], half - n + 1)
    IN  after[half]

\* topK.push: fill up, make a heap of it, then replace the farthest.
Push(h, x, k) ==
    CASE k <= 0 -> h
      [] k > 0 /\ Len(h) < k ->
            IF Len(h) + 1 = k THEN BuildHeap(Append(h, x)) ELSE Append(h, x)
      [] OTHER -> IF x.dist < h[1].dist THEN SiftDown([h EXCEPT ![1] = x], 1) ELSE h

\* Bug: results are merged without regard to the bound.
BugPushAllUnbounded(h, items, k) == h \o items

PushAll(h, items, k) == FoldLeft(LAMBDA acc, x : Push(acc, x, k), h, items)

\* hamming.KNN: never asks for more than there are.
KNN(items, k) ==
    IF k <= 0 THEN <<>>
    ELSE PushAll(<<>>, items, IF k > Len(items) THEN Len(items) ELSE k)
=============================================================================
