----------------------------- MODULE MCIvfSearch -----------------------------
(* Small searches for TLC: five entries in two lists and two files, two    *)
(* queries that share a list; the first list has a part in both files.     *)
EXTENDS IvfSearch, TLC

Vec == {{}, {1}, {1, 2}}

MCInput ==
    {[vec |-> <<v[1], v[2], {}, v[3], {1}>>,
      part |-> <<<<<<1, 2>>, <<3>>>>, <<<<4>>, <<5>>>>>>,
      image |-> <<"a", "b", "b", "c", "a">>,
      centroid |-> <<{}, {1, 2}>>,
      query |-> <<{}, {1}>>,
      probe |-> <<{1, 2}, {1}>>] : v \in [1..3 -> Vec]}

WorkerSymmetry == Permutations(Worker)
=============================================================================
