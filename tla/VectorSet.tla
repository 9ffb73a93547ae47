------------------------------ MODULE VectorSet -----------------------------
(***************************************************************************)
(* What a vector index promises the rest of the system (internal/index,    *)
(* interfaces Backend and Builder): it is a set of entries.  A flush adds  *)
(* a batch of them at once.  DeleteVectors takes its entries out one part  *)
(* after another, reports success only when none is left, and may give up  *)
(* half way.  Nothing else changes what the index holds; what has been     *)
(* reported removed never comes back.                                      *)
(***************************************************************************)
CONSTANT Entry

VARIABLES
    contents,  \* the entries the index holds
    purging,   \* the entries DeleteVectors is taking out
    gone       \* the entries DeleteVectors has reported removed

vars == <<contents, purging, gone>>

Init ==
    /\ contents = {}
    /\ purging = {}
    /\ gone = {}

Insert(S) ==
    /\ contents' = contents \cup S
    /\ UNCHANGED <<purging, gone>>

PurgeBegin(D) ==
    /\ purging = {}
    /\ purging' = D
    /\ UNCHANGED <<contents, gone>>

PurgeSome ==
    /\ \E T \in SUBSET purging : contents' = contents \ T
    /\ UNCHANGED <<purging, gone>>

PurgeEnd ==
    /\ contents \cap purging = {}
    /\ purging' = {}
    /\ gone' = gone \cup purging
    /\ UNCHANGED contents

PurgeGiveUp ==
    /\ purging' = {}
    /\ UNCHANGED <<contents, gone>>

Next ==
    \/ \E S \in SUBSET (Entry \ gone) : Insert(S)
    \/ \E D \in SUBSET Entry : PurgeBegin(D)
    \/ PurgeSome
    \/ PurgeEnd
    \/ PurgeGiveUp

Spec == Init /\ [][Next]_vars
=============================================================================
