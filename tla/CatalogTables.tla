---------------------------- MODULE CatalogTables ---------------------------
(***************************************************************************)
(* The three tables of the SQLite catalog (internal/db) as a value, and    *)
(* what its statements do to them and read from them.                      *)
(*                                                                         *)
(* image holds the content hash of every image by id, stats is             *)
(* vector_stats, blob the ids that have a row in table vector (their       *)
(* descriptors), and lastId is the AUTOINCREMENT counter of table image.   *)
(***************************************************************************)
EXTENDS Integers, FiniteSets

Id == Nat \ {0}
Row == [count : Nat, total : Nat, indexed : 0..1]
EmptyDb == [image |-> <<>>, stats |-> <<>>, blob |-> {}, lastId |-> 0]

Hashes(d) == {d.image[i] : i \in DOMAIN d.image}
Totals(d) == {d.stats[i].total : i \in DOMAIN d.stats}

\* COALESCE(MAX(total_vector_count), 0)
MaxTotal(d) ==
    IF DOMAIN d.stats = {} THEN 0
    ELSE CHOOSE t \in Totals(d) : \A u \in Totals(d) : u <= t

\* The rows one image adds to the three tables, its vector ids above "top".
InsertAbove(d, top, h, c) ==
    LET id == d.lastId + 1
        row == [count |-> c, total |-> top + c, indexed |-> 0]
    IN [image  |-> [i \in DOMAIN d.image \cup {id} |->
                      IF i = id THEN h ELSE d.image[i]],
        stats  |-> [i \in DOMAIN d.stats \cup {id} |->
                      IF i = id THEN row ELSE d.stats[i]],
        blob   |-> d.blob \cup {id},
        lastId |-> id]

\* Bug: the running total continues from the number of vectors there are.
BugInsertAboveCount(d, h, c) ==
    InsertAbove(d, Cardinality(UNION
        {(d.stats[i].total - d.stats[i].count + 1)..d.stats[i].total :
            i \in DOMAIN d.stats}), h, c)

Insert(d, h, c) == InsertAbove(d, MaxTotal(d), h, c)

\* Bug: without AUTOINCREMENT the id of the newest image is given out again.
BugRemoveFreesId(d, id) ==
    LET kept == DOMAIN d.image \ {id}
    IN [image  |-> [i \in kept |-> d.image[i]],
        stats  |-> [i \in kept |-> d.stats[i]],
        blob   |-> d.blob \ {id},
        lastId |-> CHOOSE m \in kept \cup {0} : \A i \in kept : i <= m]

\* Bug: the row of table vector stays behind.
BugRemoveKeepsBlob(d, id) ==
    [image  |-> [i \in DOMAIN d.image \ {id} |-> d.image[i]],
     stats  |-> [i \in DOMAIN d.stats \ {id} |-> d.stats[i]],
     blob   |-> d.blob,
     lastId |-> d.lastId]

\* The rows of one image leave the three tables; its id is not given out again.
Delete(d, id) ==
    [image  |-> [i \in DOMAIN d.image \ {id} |-> d.image[i]],
     stats  |-> [i \in DOMAIN d.stats \ {id} |-> d.stats[i]],
     blob   |-> d.blob \ {id},
     lastId |-> d.lastId]

\* UPDATE ... SET indexed = 1: an id whose row has gone is passed over.
AsIndexed(row) == [count |-> row.count, total |-> row.total, indexed |-> 1]

MarkIndexed(d, ids) ==
    [image  |-> d.image,
     stats  |-> [i \in DOMAIN d.stats |->
                   IF i \in ids THEN AsIndexed(d.stats[i]) ELSE d.stats[i]],
     blob   |-> d.blob,
     lastId |-> d.lastId]

IndexedIds(d) == {i \in DOMAIN d.stats : d.stats[i].indexed = 1}

\* DELETE FROM vector, of the given images.
DropBlobs(d, ids) ==
    [image |-> d.image, stats |-> d.stats, blob |-> d.blob \ ids,
     lastId |-> d.lastId]

\* The images whose range holds vector id v, asked of the table.
Owners(d, v) ==
    {i \in DOMAIN d.stats :
        /\ d.stats[i].total - d.stats[i].count < v
        /\ v <= d.stats[i].total}

\* The bounds read for the cache: (image, total, count) in the order of total.
BoundsOf(d) ==
    [i \in DOMAIN d.stats |->
        [total |-> d.stats[i].total, count |-> d.stats[i].count]]

\* i is the first bound whose total reaches v.  SQLite returns rows of equal
\* total in the order of their ids.
FirstBound(b, v, i) ==
    /\ v <= b[i].total
    /\ \A j \in DOMAIN b :
          v <= b[j].total => \/ b[i].total < b[j].total
                             \/ b[i].total = b[j].total /\ i <= j

\* Bug: an id that no image owns is given to the next image.
BugCachedOwnersRemaps(b, v) == {i \in DOMAIN b : FirstBound(b, v, i)}

\* The images whose range holds vector id v, asked of the cached bounds.
CachedOwners(b, v) ==
    {i \in DOMAIN b : FirstBound(b, v, i) /\ b[i].total - b[i].count < v}
=============================================================================
