---------------------------- MODULE ImageCatalog ----------------------------
(***************************************************************************)
(* The SQLite catalog of imseek (internal/db) and the part of              *)
(* internal/imdb that writes it and caches it.                             *)
(*                                                                         *)
(* Every image owns a block of global vector ids, the half-open range      *)
(* (total - count, total].  The inverted lists of the index carry nothing  *)
(* but these ids, so a search hit is turned into an image by looking the   *)
(* id up in vector_stats, or in a copy of its bounds kept in memory.       *)
(*                                                                         *)
(* A committed transaction is one step.  AddImageBatch keeps a transaction *)
(* open over many inserts: its private view of the tables is "tx", and     *)
(* while it is open SQLite's single write lock keeps other writers out and *)
(* readers see the last commit.  A statement that fails changes nothing    *)
(* and is not a step.                                                      *)
(***************************************************************************)
EXTENDS CatalogTables

CONSTANTS
    Hash,       \* content hashes of the images that may be added
    Counts,     \* numbers of descriptors an image may have
    Reloaders,  \* goroutines that may be inside loadVectorBounds
    MaxId,      \* bound: AddImage is explored while fewer ids were given out
    None        \* "no transaction is open", "nothing read"

ASSUME CountsAssumption == Counts \subseteq Nat
ASSUME MaxIdAssumption == MaxId \in Nat

VARIABLES
    db,       \* the committed tables
    tx,       \* the tables as the open AddImageBatch transaction sees them
    bounds,   \* IMDB.bounds: the cached vector_stats bounds
    loading   \* what each reloader has read and not yet stored in bounds

vars == <<db, tx, bounds, loading>>

-----------------------------------------------------------------------------
Init ==
    /\ db = EmptyDb
    /\ tx = None
    /\ bounds = BoundsOf(EmptyDb)
    /\ loading = [r \in Reloaders |-> None]

\* AddImage and AddImageRaw: three inserts in one transaction.  A hash that is
\* already in the table violates UNIQUE and leaves the tables as they were.
\* The cached bounds are not refreshed.  An image without descriptors gets in
\* when its blob is empty and not nil, as a caller of AddImageRaw or
\* AddImageBatch may pass it.
AddImage(h, c) ==
    /\ tx = None
    /\ db.lastId < MaxId
    /\ h \notin Hashes(db)
    /\ db' = Insert(db, h, c)
    /\ UNCHANGED <<tx, bounds, loading>>

\* AddImageBatch opens its transaction ...
BatchBegin ==
    /\ tx = None
    /\ tx' = db
    /\ UNCHANGED <<db, bounds, loading>>

\* ... inserts its jobs one by one, passing over the hashes it meets again ...
BatchInsert(h, c) ==
    /\ tx # None
    /\ tx.lastId < MaxId
    /\ h \notin Hashes(tx)
    /\ tx' = Insert(tx, h, c)
    /\ UNCHANGED <<db, bounds, loading>>

\* ... and commits them together,
BatchCommit ==
    /\ tx # None
    /\ db' = tx
    /\ tx' = None
    /\ UNCHANGED <<bounds, loading>>

\* or gives all of them up when one insert fails.
BatchRollback ==
    /\ tx # None
    /\ tx' = None
    /\ UNCHANGED <<db, bounds, loading>>

\* Bug: the deletion does not wait for the write lock.
BugDeleteImageUnlocked(id) ==
    /\ id \in DOMAIN db.image
    /\ db' = Delete(db, id)
    /\ UNCHANGED <<tx, bounds, loading>>

\* db.DeleteImage; an id without an image rolls back with ErrNoRows.
DeleteImage(id) ==
    /\ tx = None
    /\ id \in DOMAIN db.image
    /\ db' = Delete(db, id)
    /\ UNCHANGED <<tx, bounds, loading>>

\* db.SetIndexedBatch, called with ids that were read from the tables before:
\* some of them may have been deleted since.
SetIndexedBatch(ids) ==
    /\ tx = None
    /\ db' = MarkIndexed(db, ids)
    /\ UNCHANGED <<tx, bounds, loading>>

\* IMDB.ClearCache: the descriptor blobs of the indexed images go, or all do.
ClearCache(all) ==
    /\ tx = None
    /\ db' = DropBlobs(db, IF all THEN db.blob ELSE IndexedIds(db))
    /\ UNCHANGED <<tx, bounds, loading>>

\* loadVectorBounds reads the bounds outside the lock ...
ReadBounds(r) ==
    /\ loading[r] = None
    /\ loading' = [loading EXCEPT ![r] = BoundsOf(db)]
    /\ UNCHANGED <<db, tx, bounds>>

\* ... and stores them under it.  Nothing orders two reloaders.
StoreBounds(r) ==
    /\ loading[r] # None
    /\ bounds' = loading[r]
    /\ loading' = [loading EXCEPT ![r] = None]
    /\ UNCHANGED <<db, tx>>

\* The process ends at any point and imdb.Open starts over from the file.
Reopen ==
    /\ tx' = None
    /\ bounds' = BoundsOf(db)
    /\ loading' = [r \in Reloaders |-> None]
    /\ UNCHANGED db

Next ==
    \/ \E h \in Hash, c \in Counts : AddImage(h, c)
    \/ BatchBegin
    \/ \E h \in Hash, c \in Counts : BatchInsert(h, c)
    \/ BatchCommit
    \/ BatchRollback
    \/ \E id \in DOMAIN db.image : DeleteImage(id)
    \/ \E ids \in SUBSET (1..db.lastId) : SetIndexedBatch(ids)
    \/ \E all \in BOOLEAN : ClearCache(all)
    \/ \E r \in Reloaders : ReadBounds(r)
    \/ \E r \in Reloaders : StoreBounds(r)
    \/ Reopen

Spec == Init /\ [][Next]_vars

-----------------------------------------------------------------------------
(* What makes the catalog correct.                                         *)

IsBounds(b) ==
    /\ DOMAIN b \subseteq Id
    /\ \A i \in DOMAIN b : b[i] \in [total : Nat, count : Nat]

IsTables(d) ==
    /\ d = [image |-> d.image, stats |-> d.stats, blob |-> d.blob,
            lastId |-> d.lastId]
    /\ d.lastId \in Nat
    /\ DOMAIN d.stats \subseteq 1..d.lastId
    /\ DOMAIN d.image = DOMAIN d.stats
    /\ d.blob \subseteq DOMAIN d.stats
    /\ \A i \in DOMAIN d.stats : d.image[i] \in Hash /\ d.stats[i] \in Row

\* The shape of the state: the three tables hold rows of the same images, and
\* every id is one the AUTOINCREMENT counter has passed.
TypeOK ==
    /\ IsTables(db)
    /\ tx # None => IsTables(tx)
    /\ IsBounds(bounds)
    /\ \A r \in Reloaders : loading[r] # None => IsBounds(loading[r])

\* A vector id belongs to at most one image, after every history of additions,
\* batches and deletions, so that LIMIT 1 in GetImageIDByVectorID never has to
\* choose.
RangesDisjoint ==
    \A v \in 1..MaxTotal(db) :
        \A i, j \in Owners(db, v) : i = j

\* The binary search over freshly read bounds in findImageID gives the answer
\* the SQL query of GetImageIDByVectorID gives, for ids of live images, of
\* deleted images and past the end, also next to images without descriptors,
\* whose total ties with a neighbour's.
FreshCacheAgrees ==
    \A v \in 1..(MaxTotal(db) + 1) :
        CachedOwners(BoundsOf(db), v) = Owners(db, v)

CachedIds(b) ==
    UNION {(b[i].total - b[i].count + 1)..b[i].total : i \in DOMAIN b}

\* Bounds that additions, deletions and an older reload arriving late have
\* made stale may miss an image or name one that has gone (whose path
\* lookup then fails), but never give a vector id to the wrong live image,
\* although vector ids are given out again once the newest image is deleted.
StaleCacheHarmless ==
    \A v \in CachedIds(bounds) :
        CachedOwners(bounds, v) \cap DOMAIN db.image \subseteq Owners(db, v)

\* A vector id below the largest total that belongs to no image will not be
\* given to one by any step: the gap a deleted image leaves is not filled.
GapsStayGaps ==
    [][\A v \in 1..MaxTotal(db) :
          Owners(db, v) = {} => Owners(db', v) = {}]_vars

\* The id of a deleted image never comes back, so what a build, a cache or a
\* client remembers by id cannot come to mean another image.
DeletedStaysDeleted ==
    [][\A i \in 1..db.lastId :
          i \notin DOMAIN db.image => i \notin DOMAIN db'.image]_vars
=============================================================================
