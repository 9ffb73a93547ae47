----------------------------- MODULE MCTraining -----------------------------
(* Small catalogs and trainings for TLC.                                   *)
EXTENDS Training

Image(codes) == [count |-> Len(codes), codes |-> codes]

\* Nine descriptors of three images; and a few of which one image has lost its
\* codes.
MCCatalog ==
    {<<Image(<<{}, {1}, {1, 2}, {1, 2, 3}>>), Image(<<{3}, {2, 3}, {}, {1, 2}>>), Image(<<{1, 3}>>)>>,
     <<Image(<<{1}, {1, 3}>>), [count |-> 2, codes |-> <<>>], Image(<<{2}>>)>>}

Opts(n, two, init, m) == [nlist |-> n, twoLevel |-> two, init |-> init, images |-> m]

MCOptions ==
    {Opts(4, TRUE, "random", 0), Opts(2, TRUE, "kmeans-plus-plus", 6),
     Opts(4, FALSE, "kmeans-plus-plus", 4), Opts(4, FALSE, "random", 4)}

MCVector == {{}, {1, 2, 3}}
=============================================================================
