--------------------------- MODULE MCAddPipeline ----------------------------
(* A directory with two copies of one image, another image, and a file with *)
(* too few key points.                                                     *)
EXTENDS AddPipeline, TLC

MCFile ==
    <<[hash |-> "a", usable |-> TRUE], [hash |-> "a", usable |-> TRUE],
      [hash |-> "x", usable |-> FALSE], [hash |-> "b", usable |-> TRUE]>>

MCSymmetry == Permutations(Worker) \cup Permutations(Conn)
=============================================================================
