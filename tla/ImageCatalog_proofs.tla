------------------------ MODULE ImageCatalog_proofs -------------------------
(***************************************************************************)
(* Proofs about the catalog, for every set of hashes and descriptor        *)
(* counts and any number of images and reloaders.                          *)
(***************************************************************************)
EXTENDS ImageCatalog, Data_proofs

-----------------------------------------------------------------------------
(* The inductive invariant.  Blocks of vector ids are handed out in the    *)
(* order of image ids (Sound); an open transaction has only added rows     *)
(* with new ids (Extends); whatever was read for the cache agrees with     *)
(* the rows that are still there (Agrees).                                 *)

Good(d) == IsTables(d) /\ Sound(d)

Agrees(b, d) ==
    /\ DOMAIN b \subseteq 1..d.lastId
    /\ \A i \in DOMAIN b \cap DOMAIN d.stats :
          /\ b[i].total = d.stats[i].total
          /\ b[i].count = d.stats[i].count

Extends(t, d) ==
    /\ d.lastId <= t.lastId
    /\ DOMAIN d.stats \subseteq DOMAIN t.stats
    /\ \A i \in DOMAIN d.stats :
          /\ t.stats[i].total = d.stats[i].total
          /\ t.stats[i].count = d.stats[i].count
    /\ \A i \in DOMAIN t.stats \ DOMAIN d.stats : d.lastId < i

IInv ==
    /\ TypeOK
    /\ Good(db)
    /\ tx # None => Good(tx) /\ Extends(tx, db)
    /\ Agrees(bounds, db)
    /\ \A r \in Reloaders : loading[r] # None => Agrees(loading[r], db)

-----------------------------------------------------------------------------
(* Lemmas about the tables.                                                *)

\* Tables whose images have hashes are good when they are sound.
LEMMA GoodIsSound ==
    ASSUME NEW d, Sound(d), \A i \in DOMAIN d.stats : d.image[i] \in Hash
    PROVE  Good(d)
BY DEF Good, Sound, Shaped, IsTables

\* Adding an image keeps the tables good and changes no other row.
LEMMA InsertGood ==
    ASSUME NEW d, Good(d), NEW h \in Hash, NEW c \in Counts
    PROVE  Good(Insert(d, h, c)) /\ Extends(Insert(d, h, c), d)
<1> DEFINE e == Insert(d, h, c)
<1>1. Sound(d) /\ c \in Nat
  BY CountsAssumption DEF Good
<1>2. Sound(e) /\ Inserted(e, d, h)
  BY <1>1, InsertSound
<1> HIDE DEF e
<1>3. \A i \in DOMAIN e.stats : e.image[i] \in Hash
  BY <1>2 DEF Good, IsTables, Inserted
<1>4. Extends(e, d)
  BY <1>2 DEF Extends, Good, IsTables, Inserted
<1> QED BY <1>2, <1>3, <1>4, GoodIsSound DEF e

\* Deleting an image keeps the tables good.
LEMMA RemoveGood ==
    ASSUME NEW d, Good(d), NEW id
    PROVE  Good(Delete(d, id))
<1> DEFINE e == Delete(d, id)
<1>1. Sound(e) /\ Removed(e, d, id)
  BY RemoveSound DEF Good
<1> HIDE DEF e
<1>2. \A i \in DOMAIN e.stats : e.image[i] \in Hash
  BY <1>1 DEF Good, IsTables, Removed
<1> QED BY <1>1, <1>2, GoodIsSound DEF e

\* Marking images as indexed keeps the tables good and every range what it is.
LEMMA MarkIndexedGood ==
    ASSUME NEW d, Good(d), NEW ids
    PROVE  Good(MarkIndexed(d, ids)) /\ Marked(MarkIndexed(d, ids), d, ids)
<1> DEFINE e == MarkIndexed(d, ids)
<1>1. Sound(e) /\ Marked(e, d, ids)
  BY MarkIndexedSound DEF Good
<1> HIDE DEF e
<1>2. \A i \in DOMAIN e.stats : e.image[i] \in Hash
  BY <1>1 DEF Good, IsTables, Marked
<1> QED BY <1>1, <1>2, GoodIsSound DEF e

-----------------------------------------------------------------------------
(* Lemmas about what is remembered outside the committed tables.           *)

\* Bounds read in a committed state agree with it.
LEMMA BoundsAgree ==
    ASSUME NEW d, Good(d)
    PROVE  IsBounds(BoundsOf(d)) /\ Agrees(BoundsOf(d), d)
BY DEF Good, IsTables, Row, BoundsOf, IsBounds, Agrees, Id

\* New rows carry new ids, so bounds read before still agree afterwards.
LEMMA AgreesExtends ==
    ASSUME NEW b, NEW d, NEW e, Good(d), Good(e), Extends(e, d), Agrees(b, d)
    PROVE  Agrees(b, e)
BY DEF Good, IsTables, Extends, Agrees

\* Bounds agree with every state whose rows are among those they agree with.
LEMMA AgreesFewer ==
    ASSUME NEW b, NEW d, NEW e, Agrees(b, d), e.lastId = d.lastId,
           DOMAIN e.stats \subseteq DOMAIN d.stats,
           \A i \in DOMAIN e.stats :
              /\ e.stats[i].count = d.stats[i].count
              /\ e.stats[i].total = d.stats[i].total
    PROVE  Agrees(b, e)
BY DEF Agrees

\* A transaction that goes on inserting goes on extending the committed tables.
LEMMA ExtendsTransitive ==
    ASSUME NEW d, NEW t, NEW u, Good(d), Good(t), Good(u),
           Extends(t, d), Extends(u, t)
    PROVE  Extends(u, d)
BY DEF Extends, Good, IsTables

LEMMA ExtendsReflexive ==
    ASSUME NEW d, Good(d)
    PROVE  Extends(d, d)
BY DEF Extends, Good, IsTables

-----------------------------------------------------------------------------
(* The invariant.                                                          *)

LEMMA InitIInv == Init => IInv
<1> SUFFICES ASSUME Init PROVE IInv
  OBVIOUS
<1>1. Good(EmptyDb)
  <2>1. DOMAIN EmptyDb.stats = {}
    BY DEF EmptyDb
  <2> QED BY <2>1, EmptySound, GoodIsSound
<1>2. IsBounds(BoundsOf(EmptyDb)) /\ Agrees(BoundsOf(EmptyDb), EmptyDb)
  BY <1>1, BoundsAgree
<1>3. db = EmptyDb /\ tx = None /\ bounds = BoundsOf(EmptyDb)
      /\ \A r \in Reloaders : loading[r] = None
  BY DEF Init
<1> QED BY <1>1, <1>2, <1>3 DEF IInv, TypeOK, Good

\* A step of the committed tables to good tables with which everything that
\* agreed with the old ones still agrees, with no transaction open, keeps the
\* invariant if it touches nothing else.
LEMMA TablesStep ==
    ASSUME IInv, Good(db'), tx' = None,
           \A b : Agrees(b, db) => Agrees(b, db'),
           UNCHANGED <<bounds, loading>>
    PROVE  IInv'
BY DEF IInv, TypeOK, Good

LEMMA NextIInv == IInv /\ [Next]_vars => IInv'
<1> SUFFICES ASSUME IInv, [Next]_vars PROVE IInv'
  OBVIOUS
<1> USE DEF IInv
<1>1. ASSUME NEW h \in Hash, NEW c \in Counts, AddImage(h, c)
      PROVE  IInv'
  <2>1. Good(db') /\ Extends(db', db)
    BY <1>1, InsertGood DEF AddImage
  <2>2. \A b : Agrees(b, db) => Agrees(b, db')
    BY <2>1, AgreesExtends
  <2> QED BY <1>1, <2>1, <2>2, TablesStep DEF AddImage
<1>2. ASSUME BatchBegin
      PROVE  IInv'
  <2>1. Good(tx') /\ Extends(tx', db)
    BY <1>2, ExtendsReflexive DEF BatchBegin
  <2> QED BY <1>2, <2>1 DEF BatchBegin, TypeOK, Good
<1>3. ASSUME NEW h \in Hash, NEW c \in Counts, BatchInsert(h, c)
      PROVE  IInv'
  <2>1. Good(tx) /\ Extends(tx, db) /\ tx' = Insert(tx, h, c)
    BY <1>3 DEF BatchInsert
  <2>2. Good(tx') /\ Extends(tx', tx)
    BY <2>1, InsertGood
  <2>3. Extends(tx', db)
    BY <2>1, <2>2, ExtendsTransitive
  <2> QED BY <1>3, <2>2, <2>3 DEF BatchInsert, TypeOK, Good
<1>4. ASSUME BatchCommit
      PROVE  IInv'
  <2>1. Good(db') /\ Extends(db', db)
    BY <1>4 DEF BatchCommit
  <2>2. \A b : Agrees(b, db) => Agrees(b, db')
    BY <2>1, AgreesExtends
  <2> QED BY <1>4, <2>1, <2>2, TablesStep DEF BatchCommit
<1>5. ASSUME BatchRollback
      PROVE  IInv'
  BY <1>5 DEF BatchRollback, TypeOK
<1>6. ASSUME NEW id \in DOMAIN db.image, DeleteImage(id)
      PROVE  IInv'
  <2>1. Good(db')
    BY <1>6, RemoveGood DEF DeleteImage
  <2>2. /\ db'.lastId = db.lastId
        /\ DOMAIN db'.stats \subseteq DOMAIN db.stats
        /\ \A i \in DOMAIN db'.stats :
              /\ db'.stats[i].count = db.stats[i].count
              /\ db'.stats[i].total = db.stats[i].total
    BY <1>6 DEF DeleteImage, Delete
  <2>3. \A b : Agrees(b, db) => Agrees(b, db')
    BY <2>2, AgreesFewer
  <2> QED BY <1>6, <2>1, <2>3, TablesStep DEF DeleteImage
<1>7. ASSUME NEW ids \in SUBSET (1..db.lastId), SetIndexedBatch(ids)
      PROVE  IInv'
  <2>1. /\ Good(db')
        /\ db'.lastId = db.lastId
        /\ DOMAIN db'.stats = DOMAIN db.stats
        /\ \A i \in DOMAIN db'.stats :
              /\ db'.stats[i].count = db.stats[i].count
              /\ db'.stats[i].total = db.stats[i].total
    BY <1>7, MarkIndexedGood DEF SetIndexedBatch, Marked, SameRange
  <2>2. \A b : Agrees(b, db) => Agrees(b, db')
    BY <2>1, AgreesFewer
  <2> QED BY <1>7, <2>1, <2>2, TablesStep DEF SetIndexedBatch
<1>8. ASSUME NEW all \in BOOLEAN, ClearCache(all)
      PROVE  IInv'
  <2>1. \E ids : db' = DropBlobs(db, ids)
    BY <1>8 DEF ClearCache
  <2>2. /\ db'.image = db.image /\ db'.stats = db.stats
        /\ db'.lastId = db.lastId /\ db'.blob \subseteq db.blob
        /\ db' = [image |-> db'.image, stats |-> db'.stats, blob |-> db'.blob,
                  lastId |-> db'.lastId]
    BY <2>1 DEF DropBlobs
  <2>3. Good(db')
    <3>1. \A i \in DOMAIN db'.stats :
             db'.stats[i] \in Row /\ SameRange(db', db, i)
      BY <2>2 DEF Good, IsTables, SameRange
    <3>2. Sound(db')
      BY <2>2, <3>1, SameRangesSound DEF Good
    <3> QED BY <2>2, <3>2, GoodIsSound DEF Good, IsTables
  <2>4. \A b : Agrees(b, db) => Agrees(b, db')
    BY <2>2 DEF Agrees
  <2> QED BY <1>8, <2>3, <2>4, TablesStep DEF ClearCache
<1>9. ASSUME NEW r \in Reloaders, ReadBounds(r)
      PROVE  IInv'
  <2>1. IsBounds(BoundsOf(db)) /\ Agrees(BoundsOf(db), db)
    BY BoundsAgree
  <2>2. \A q \in Reloaders :
           loading'[q] = BoundsOf(db) \/ loading'[q] = loading[q]
    BY <1>9 DEF ReadBounds
  <2> QED BY <1>9, <2>1, <2>2 DEF ReadBounds, TypeOK
<1>10. ASSUME NEW r \in Reloaders, StoreBounds(r)
       PROVE  IInv'
  <2>1. \A q \in Reloaders : loading'[q] = None \/ loading'[q] = loading[q]
    BY <1>10 DEF StoreBounds
  <2> QED BY <1>10, <2>1 DEF StoreBounds, TypeOK
<1>11. ASSUME Reopen
       PROVE  IInv'
  <2>1. IsBounds(BoundsOf(db)) /\ Agrees(BoundsOf(db), db)
    BY BoundsAgree
  <2> QED BY <1>11, <2>1 DEF Reopen, TypeOK
<1>12. ASSUME UNCHANGED vars
       PROVE  IInv'
  BY <1>12 DEF vars, TypeOK, Good, IsTables, Sound, Shaped, Ordered, Agrees,
               Extends, IsBounds
<1> QED BY <1>1, <1>2, <1>3, <1>4, <1>5, <1>6, <1>7, <1>8, <1>9, <1>10, <1>11,
           <1>12 DEF Next

\* The inductive invariant holds in every reachable state.
THEOREM Invariance == Spec => []IInv
BY InitIInv, NextIInv, PTL DEF Spec

\* The three tables always hold rows of the same images.
THEOREM TypeCorrect == Spec => []TypeOK
<1>1. IInv => TypeOK
  BY DEF IInv
<1> QED BY <1>1, Invariance, PTL

-----------------------------------------------------------------------------
(* What the invariant gives.                                               *)

\* No vector id ever belongs to two images.
THEOREM RangesAlwaysDisjoint == Spec => []RangesDisjoint
<1>1. IInv => RangesDisjoint
  BY OneOwner, MaxTotalIsMax DEF IInv, Good, RangesDisjoint
<1> QED BY <1>1, Invariance, PTL

\* Looking a vector id up in fresh bounds is looking it up in the table.
THEOREM FreshCacheAlwaysAgrees == Spec => []FreshCacheAgrees
<1>1. IInv => FreshCacheAgrees
  <2> SUFFICES ASSUME IInv, NEW v \in 1..(MaxTotal(db) + 1)
               PROVE  CachedOwners(BoundsOf(db), v) = Owners(db, v)
    BY DEF FreshCacheAgrees
  <2>1. /\ DOMAIN BoundsOf(db) = DOMAIN db.stats
        /\ \A i \in DOMAIN db.stats :
              /\ BoundsOf(db)[i].total = db.stats[i].total
              /\ BoundsOf(db)[i].count = db.stats[i].count
    BY DEF BoundsOf
  <2>2. \A i \in DOMAIN db.stats : i \in Nat /\ db.stats[i] \in Row
    BY DEF IInv, TypeOK, IsTables
  <2>3. CachedOwners(BoundsOf(db), v) \subseteq Owners(db, v)
    BY <2>1 DEF CachedOwners, FirstBound, Owners
  <2>4. ASSUME NEW i \in Owners(db, v)
        PROVE  FirstBound(BoundsOf(db), v, i)
    <3>1. i \in DOMAIN db.stats /\ v <= db.stats[i].total
          /\ db.stats[i].total - db.stats[i].count < v
      BY DEF Owners
    <3>2. ASSUME NEW j \in DOMAIN db.stats, v <= db.stats[j].total, j < i
          PROVE  FALSE
      <4>1. db.stats[j].total <= db.stats[i].total - db.stats[i].count
        BY <3>1, <3>2 DEF IInv, Good, Sound, Ordered
      <4> QED BY <2>2, <3>1, <3>2, <4>1 DEF Row
    <3>3. ASSUME NEW j \in DOMAIN db.stats, i < j
          PROVE  db.stats[i].total <= db.stats[j].total
      <4>1. db.stats[i].total <= db.stats[j].total - db.stats[j].count
        BY <3>1, <3>3 DEF IInv, Good, Sound, Ordered
      <4> QED BY <2>2, <3>1, <4>1 DEF Row
    <3>4. ASSUME NEW j \in DOMAIN db.stats, v <= db.stats[j].total
          PROVE  \/ db.stats[i].total < db.stats[j].total
                 \/ db.stats[i].total = db.stats[j].total /\ i <= j
      <4>1. i <= j
        BY <2>2, <3>1, <3>2, <3>4
      <4>2. CASE i = j
        BY <2>2, <3>1, <4>2 DEF Row
      <4>3. CASE i < j
        BY <2>2, <3>1, <3>3, <4>3 DEF Row
      <4> QED BY <2>2, <3>1, <4>1, <4>2, <4>3
    <3> QED BY <2>1, <3>1, <3>4 DEF FirstBound
  <2>5. Owners(db, v) \subseteq CachedOwners(BoundsOf(db), v)
    BY <2>1, <2>4 DEF CachedOwners, Owners
  <2> QED BY <2>3, <2>5
<1> QED BY <1>1, Invariance, PTL

\* However stale the cached bounds are, they never give a vector id to the
\* wrong live image.
THEOREM StaleCacheAlwaysHarmless == Spec => []StaleCacheHarmless
<1>1. IInv => StaleCacheHarmless
  <2> SUFFICES ASSUME IInv, NEW v \in CachedIds(bounds),
                      NEW i \in CachedOwners(bounds, v), i \in DOMAIN db.image
               PROVE  i \in Owners(db, v)
    BY DEF StaleCacheHarmless
  <2>1. i \in DOMAIN bounds /\ v <= bounds[i].total
        /\ bounds[i].total - bounds[i].count < v
    BY DEF CachedOwners, FirstBound
  <2>2. i \in DOMAIN db.stats
    BY DEF IInv, TypeOK, IsTables
  <2> QED BY <2>1, <2>2 DEF IInv, Agrees, Owners
<1> QED BY <1>1, Invariance, PTL

-----------------------------------------------------------------------------
(* What no step may do.                                                    *)

Shrinks(e, d) ==
    /\ e.lastId = d.lastId
    /\ DOMAIN e.stats \subseteq DOMAIN d.stats
    /\ \A i \in DOMAIN e.stats :
          /\ e.stats[i].count = d.stats[i].count
          /\ e.stats[i].total = d.stats[i].total

\* Every step adds rows with new ids to the committed tables or leaves at most
\* the rows there were, with the ranges they had.
LEMMA TablesGrowOrShrink ==
    ASSUME IInv, [Next]_vars
    PROVE  Extends(db', db) \/ Shrinks(db', db)
<1> USE DEF IInv
<1>1. ASSUME NEW h \in Hash, NEW c \in Counts, AddImage(h, c)
      PROVE  Extends(db', db)
  BY <1>1, InsertGood DEF AddImage
<1>2. ASSUME BatchCommit
      PROVE  Extends(db', db)
  BY <1>2 DEF BatchCommit
<1>3. ASSUME NEW id \in DOMAIN db.image, DeleteImage(id)
      PROVE  Shrinks(db', db)
  BY <1>3 DEF DeleteImage, Delete, Shrinks
<1>4. ASSUME NEW ids \in SUBSET (1..db.lastId), SetIndexedBatch(ids)
      PROVE  Shrinks(db', db)
  BY <1>4, MarkIndexedGood DEF SetIndexedBatch, Shrinks, Marked, SameRange
<1>5. ASSUME NEW all \in BOOLEAN, ClearCache(all)
      PROVE  Shrinks(db', db)
  <2>1. \E ids : db' = DropBlobs(db, ids)
    BY <1>5 DEF ClearCache
  <2> QED BY <2>1 DEF DropBlobs, Shrinks
<1>6. ASSUME UNCHANGED db
      PROVE  Shrinks(db', db)
  BY <1>6 DEF Shrinks
<1>7. CASE Next
  BY <1>1, <1>2, <1>3, <1>4, <1>5, <1>6, <1>7
     DEF Next, BatchBegin, BatchInsert, BatchRollback, ReadBounds, StoreBounds,
         Reopen
<1> QED BY <1>6, <1>7 DEF vars

\* The id of a deleted image never comes back.
THEOREM DeletedAlwaysStaysDeleted == Spec => DeletedStaysDeleted
<1> DEFINE Kept == \A i \in 1..db.lastId :
                      i \notin DOMAIN db.image => i \notin DOMAIN db'.image
<1>1. IInv /\ IInv' /\ [Next]_vars => [Kept]_vars
  <2> SUFFICES ASSUME IInv, IInv', [Next]_vars,
                      NEW i \in 1..db.lastId, i \notin DOMAIN db.image
               PROVE  i \notin DOMAIN db'.image
    OBVIOUS
  <2>1. DOMAIN db.image = DOMAIN db.stats /\ DOMAIN db'.image = DOMAIN db'.stats
        /\ db.lastId \in Nat
    BY DEF IInv, TypeOK, IsTables
  <2>2. CASE Extends(db', db)
    <3>1. ~(db.lastId < i)
      BY <2>1
    <3> QED BY <2>1, <2>2, <3>1 DEF Extends
  <2>3. CASE Shrinks(db', db)
    BY <2>1, <2>3 DEF Shrinks
  <2> QED BY <2>2, <2>3, TablesGrowOrShrink
<1> QED BY <1>1, Invariance, PTL DEF Spec, DeletedStaysDeleted

\* The gap a deleted image leaves among the vector ids is never filled.
THEOREM GapsAlwaysStayGaps == Spec => GapsStayGaps
<1> DEFINE Kept == \A v \in 1..MaxTotal(db) :
                      Owners(db, v) = {} => Owners(db', v) = {}
<1>1. IInv /\ IInv' /\ [Next]_vars => [Kept]_vars
  <2> SUFFICES ASSUME IInv, IInv', [Next]_vars,
                      NEW v \in 1..MaxTotal(db), NEW i \in Owners(db', v)
               PROVE  i \in Owners(db, v)
    OBVIOUS
  <2>1. /\ i \in DOMAIN db'.stats /\ v <= db'.stats[i].total
        /\ db'.stats[i].total - db'.stats[i].count < v
    BY DEF Owners
  <2>2. CASE Shrinks(db', db)
    BY <2>1, <2>2 DEF Shrinks, Owners
  <2>3. CASE Extends(db', db)
    <3>1. Good(db) /\ Good(db')
      BY DEF IInv
    <3>2. CASE i \in DOMAIN db.stats
      BY <2>1, <2>3, <3>2 DEF Extends, Owners
    <3>3. CASE i \notin DOMAIN db.stats
      <4>1. \A j \in DOMAIN db.stats : j < i
        BY <2>1, <2>3, <3>1, <3>3 DEF Extends, Good, IsTables
      <4>2. \A j \in DOMAIN db.stats :
               db.stats[j].total <= db'.stats[i].total - db'.stats[i].count
        BY <2>1, <2>3, <3>1, <4>1 DEF Extends, Good, Sound, Ordered
      <4>3. 0 <= db'.stats[i].total - db'.stats[i].count
        BY <2>1, <3>1 DEF Good, Sound, IsTables, Row
      <4>4. MaxTotal(db) <= db'.stats[i].total - db'.stats[i].count
        BY <3>1, <4>2, <4>3, MaxTotalIsMax DEF Good
      <4>5. MaxTotal(db) \in Nat /\ db'.stats[i] \in Row
        BY <2>1, <3>1, MaxTotalIsMax DEF Good, IsTables
      <4> QED BY <2>1, <4>4, <4>5 DEF Row
    <3> QED BY <3>2, <3>3
  <2> QED BY <2>2, <2>3, TablesGrowOrShrink
<1> QED BY <1>1, Invariance, PTL DEF Spec, GapsStayGaps
=============================================================================
