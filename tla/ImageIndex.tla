----------------------------- MODULE ImageIndex -----------------------------
(***************************************************************************)
(* The catalog and the vector index kept in step (internal/imdb):          *)
(* AddImage fills the tables, BuildIndex copies the vectors of unindexed   *)
(* images into the index, and DeleteImage takes them out of both.          *)
(*                                                                         *)
(* The two stores share no transaction, and IMDB takes no lock: a build    *)
(* and any number of deletions interleave between their calls, and a call  *)
(* may fail, or the process end, between any two of them.                  *)
(*                                                                         *)
(* The index is the plain set of entries of VectorSet, here an entry a     *)
(* vector id with, as a ghost, the image whose descriptor it is: on disk   *)
(* there is only the id.  A deletion takes its entries out of the index in *)
(* one step when it succeeds, and any part of them when it fails.  At most *)
(* one build runs, as BuildScheduler shows.                                *)
(***************************************************************************)
EXTENDS CatalogTables

CONSTANTS
    Hash,     \* content hashes of the images that may be added
    Counts,   \* numbers of descriptors an image may have
    Deleter,  \* goroutines that may be inside DeleteImage
    Chunk,    \* rows read at a time (dbReadChunk)
    VecCap,   \* vectors that make a batch (BuildOptions.BatchSize)
    MaxId     \* bound: AddImage is explored while fewer ids were given out

ASSUME CountsAssumption == Counts \subseteq Nat
ASSUME BuildAssumption == Chunk \in Nat \ {0} /\ VecCap \in Nat \ {0}
ASSUME MaxIdAssumption == MaxId \in Nat

VARIABLES
    db,         \* the tables
    index,      \* the entries a searcher opened now would find
    pc,         \* where BuildIndex is
    batch,      \* batchImageIDs, in no order
    il,         \* entries handed to the builder and not yet flushed
    del,        \* what each deletion is doing
    due,        \* history: the images that waited when the build began
    shifted,    \* history: rows have been deleted under the running build
    mixed,      \* history: images whose deletion overlapped a build
    touched,    \* history: images some deletion began to purge
    twice       \* history: an image was being deleted by two at once

buildVars == <<pc, batch, il>>
histVars == <<due, shifted, mixed, touched, twice>>
vars == <<db, index, buildVars, del, histVars>>

\* A bug: the range is taken for a closed one.
BugVectorIdsClosed(d, i) ==
    (d.stats[i].total - d.stats[i].count)..d.stats[i].total

VectorIds(d, i) == (d.stats[i].total - d.stats[i].count + 1)..d.stats[i].total
Entries(d, i) == {[vid |-> v, img |-> i] : v \in VectorIds(d, i)}

\* A deletion at rest.
AtRest == [pc |-> "idle", id |-> 0, vids |-> {}]
BeingDeleted == {del[d].id : d \in {x \in Deleter : del[x].pc # "idle"}}

\* GetVectorsUnindexed without its LIMIT, and the row's place in the result.
Unindexed(d) == {i \in d.blob : d.stats[i].indexed = 0}
RowNumber(d, i) == Cardinality({j \in Unindexed(d) : j <= i})

Init ==
    /\ db = EmptyDb
    /\ index = {}
    /\ pc = "idle"
    /\ batch = {}
    /\ il = {}
    /\ del = [d \in Deleter |-> AtRest]
    /\ due = {}
    /\ shifted = FALSE
    /\ mixed = {}
    /\ touched = {}
    /\ twice = FALSE

\* AddImage, one transaction.
AddImage(h, c) ==
    /\ db.lastId < MaxId
    /\ h \notin Hashes(db)
    /\ db' = Insert(db, h, c)
    /\ UNCHANGED <<index, buildVars, del, histVars>>

-----------------------------------------------------------------------------
(* BuildIndex.                                                             *)

BuildBegin ==
    /\ pc = "idle"
    /\ pc' = "read"
    /\ due' = {i \in Unindexed(db) : db.stats[i].count > 0}
    /\ shifted' = FALSE
    /\ mixed' = mixed \cup BeingDeleted
    /\ UNCHANGED <<db, index, batch, il, del, touched, twice>>

\* GetVectorsUnindexed(Chunk, len(batchImageIDs)): the rows at these places.
NextRows ==
    {i \in Unindexed(db) :
        /\ Cardinality(batch) < RowNumber(db, i)
        /\ RowNumber(db, i) <= Cardinality(batch) + Chunk}

\* The next rows join the batch, their vectors go to the builder.
BuildRead ==
    /\ pc = "read"
    /\ NextRows # {}
    /\ batch' = batch \cup NextRows
    /\ il' = il \cup UNION {Entries(db, i) : i \in NextRows}
    /\ pc' = IF Cardinality(il') >= VecCap THEN "flush" ELSE "read"
    /\ UNCHANGED <<db, index, del, histVars>>

\* No row is left.  A batch without vectors is neither flushed nor marked.
BuildReadEnd ==
    /\ pc = "read"
    /\ NextRows = {}
    /\ pc' = IF il = {} THEN "commit" ELSE "last flush"
    /\ UNCHANGED <<db, index, batch, il, del, histVars>>

\* The closure "flush": first the index ...
BuildFlush ==
    /\ \/ pc = "flush" /\ pc' = "mark"
       \/ pc = "last flush" /\ pc' = "last mark"
    /\ index' = index \cup il
    /\ il' = {}
    /\ UNCHANGED <<db, batch, del, histVars>>

\* A bug: the batch, and with it the OFFSET, is not reset.
BugBuildMarkKeepsBatch ==
    /\ \/ pc = "mark" /\ pc' = "read"
       \/ pc = "last mark" /\ pc' = "commit"
    /\ db' = MarkIndexed(db, batch)
    /\ UNCHANGED <<index, batch, il, del, histVars>>

\* ... then the catalog.
BuildMark ==
    /\ \/ pc = "mark" /\ pc' = "read"
       \/ pc = "last mark" /\ pc' = "commit"
    /\ db' = MarkIndexed(db, batch)
    /\ batch' = {}
    /\ UNCHANGED <<index, il, del, histVars>>

\* Commit, which leaves the entries as they are; BuildIndex returns.
BuildCommit ==
    /\ pc = "commit"
    /\ pc' = "idle"
    /\ batch' = {}
    /\ due' = {}
    /\ UNCHANGED <<db, index, il, del, shifted, mixed, touched, twice>>

\* One of its calls fails and BuildIndex returns an error.
BuildFails ==
    /\ pc # "idle"
    /\ pc' = "idle"
    /\ batch' = {}
    /\ il' = {}
    /\ due' = {}
    /\ UNCHANGED <<db, index, del, shifted, mixed, touched, twice>>

-----------------------------------------------------------------------------
(* IMDB.DeleteImage.                                                       *)

\* A bug: an image that is not marked is taken to have nothing to purge.
BugDeleteTrustsFlag(d, i) ==
    /\ del[d].pc = "idle"
    /\ i \in DOMAIN db.image
    /\ del' = [del EXCEPT ![d] =
                 [pc |-> IF db.stats[i].indexed = 0 THEN "rows" ELSE "purge",
                  id |-> i,
                  vids |-> VectorIds(db, i)]]
    /\ mixed' = IF pc = "idle" THEN mixed ELSE mixed \cup {i}
    /\ touched' = touched \cup {i}
    /\ twice' = (twice \/ i \in BeingDeleted)
    /\ UNCHANGED <<db, index, buildVars, due, shifted>>

\* The range is read; an image without vectors has nothing to purge.
DeleteBegin(d, i) ==
    /\ del[d].pc = "idle"
    /\ i \in DOMAIN db.image
    /\ del' = [del EXCEPT ![d] =
                 [pc |-> IF VectorIds(db, i) = {} THEN "rows" ELSE "purge",
                  id |-> i,
                  vids |-> VectorIds(db, i)]]
    /\ mixed' = IF pc = "idle" THEN mixed ELSE mixed \cup {i}
    /\ touched' = touched \cup {i}
    /\ twice' = (twice \/ i \in BeingDeleted)
    /\ UNCHANGED <<db, index, buildVars, due, shifted>>

\* A bug: the id below the range goes with it.
BugInRangeOneMore(d) ==
    {e \in index : e.vid \in del[d].vids \/ e.vid + 1 \in del[d].vids}

InRange(d) == {e \in index : e.vid \in del[d].vids}

\* Backend.DeleteVectors returns.
DeletePurge(d) ==
    /\ del[d].pc = "purge"
    /\ index' = index \ InRange(d)
    /\ del' = [del EXCEPT ![d].pc = "rows"]
    /\ UNCHANGED <<db, buildVars, histVars>>

\* Backend.DeleteVectors, or the transaction after it, returns an error.
DeleteFails(d) ==
    /\ \/ /\ del[d].pc = "purge"
          /\ \E part \in SUBSET InRange(d) : index' = index \ part
       \/ /\ del[d].pc = "rows"
          /\ UNCHANGED index
    /\ del' = [del EXCEPT ![d] = AtRest]
    /\ UNCHANGED <<db, buildVars, histVars>>

\* db.DeleteImage, one transaction; ErrNoRows when another deletion has been
\* faster.
DeleteRows(d) ==
    /\ del[d].pc = "rows"
    /\ IF del[d].id \in DOMAIN db.image
       THEN /\ db' = Delete(db, del[d].id)
            /\ due' = due \ {del[d].id}
            /\ shifted' = (pc # "idle")
       ELSE UNCHANGED <<db, due, shifted>>
    /\ del' = [del EXCEPT ![d] = AtRest]
    /\ UNCHANGED <<index, buildVars, mixed, touched, twice>>

-----------------------------------------------------------------------------
\* The process ends and starts again.
Crash ==
    /\ pc # "idle" \/ BeingDeleted # {}
    /\ pc' = "idle"
    /\ batch' = {}
    /\ il' = {}
    /\ del' = [d \in Deleter |-> AtRest]
    /\ due' = {}
    /\ UNCHANGED <<db, index, shifted, mixed, touched, twice>>

DeleteStep(d) ==
    \/ DeletePurge(d)
    \/ DeleteRows(d)
    \/ DeleteFails(d)

Next ==
    \/ \E h \in Hash, c \in Counts : AddImage(h, c)
    \/ BuildBegin
    \/ BuildRead
    \/ BuildReadEnd
    \/ BuildFlush
    \/ BuildMark
    \/ BuildCommit
    \/ BuildFails
    \/ \E d \in Deleter, i \in DOMAIN db.image : DeleteBegin(d, i)
    \/ \E d \in Deleter : DeleteStep(d)
    \/ Crash

Spec == Init /\ [][Next]_vars

-----------------------------------------------------------------------------
(* What keeps the two stores in step.                                      *)

TypeOK ==
    /\ DOMAIN db.image = DOMAIN db.stats
    /\ DOMAIN db.stats \subseteq 1..db.lastId
    /\ index \cup il \subseteq [vid : Nat \ {0}, img : 1..db.lastId]
    /\ pc \in {"idle", "read", "flush", "mark", "last flush", "last mark",
               "commit"}
    /\ batch \cup due \cup mixed \cup touched \subseteq 1..db.lastId
    /\ \A d \in Deleter :
          /\ del[d].pc \in {"idle", "purge", "rows"}
          /\ del[d].id \in 0..db.lastId
    /\ twice \in BOOLEAN /\ shifted \in BOOLEAN

\* An image the catalog calls indexed has all its vectors in the index: at
\* every instant, after a crash or an error between any two calls, and while
\* others are being deleted.  Excepted are images whose own deletion has begun
\* and not come to its end, and everything once one image is deleted by two
\* requests at once: the slower one then purges vector ids that may have been
\* given to a new image.
IndexedIsPresent ==
    \A i \in DOMAIN db.stats \ touched :
        db.stats[i].indexed = 1 /\ ~twice => Entries(db, i) \subseteq index

\* A deletion that overlaps no build leaves nothing behind, also when it was
\* tried several times before it went through: what is left in the index of an
\* image that is gone was put there by a build that ran beside its deletion.
DeletionIsClean ==
    \A e \in index : e.img \in DOMAIN db.image \cup mixed

\* A vector in the index is never taken for one of another image, unless it
\* is of an image whose deletion overlapped a build.
NeverRemappedApart ==
    \A e \in index : e.img \notin mixed => Owners(db, e.vid) \subseteq {e.img}

\* The same without the exception.
NeverRemapped == \A e \in index : Owners(db, e.vid) \subseteq {e.img}

\* A build that gets to its end has indexed every image that was waiting when
\* it began, however the rows were cut into chunks and batches, if no image
\* was deleted meanwhile: a deletion shifts the rows under the build's OFFSET.
BuildTakesAll ==
    pc = "commit" /\ ~shifted => \A i \in due : db.stats[i].indexed = 1
=============================================================================
