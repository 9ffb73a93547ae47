------------------------- MODULE ImageIndex_proofs --------------------------
(***************************************************************************)
(* Proofs about the catalog and the index in step, for every set of hashes *)
(* and descriptor counts, any number of images and deleting goroutines,    *)
(* and any size of chunks and batches.                                     *)
(***************************************************************************)
EXTENDS ImageIndex, Data_proofs, FiniteSetTheorems

-----------------------------------------------------------------------------
(* The inductive invariant.                                                *)

Deletion == [pc : {"idle", "purge", "rows"}, id : Nat, vids : SUBSET Nat]
Entry(n) == [vid : Nat \ {0}, img : 1..n]

\* What TypeOK leaves out: the tables are sound, the deletions are records, and
\* one that has begun has an image.
Types ==
    /\ TypeOK
    /\ Sound(db)
    /\ del \in [Deleter -> Deletion]
    /\ \A d \in Deleter : del[d].pc # "idle" => del[d].id \in 1..db.lastId

\* What a deletion remembers and what it knows.  Only with no build in between
\* does a deletion that has purged its vectors know that none came back; and an
\* image that no two are deleting stays until its deletion takes the rows.
Fits(d) ==
    LET x == del[d] IN
    x.pc # "idle" =>
        /\ x.id \in touched
        /\ x.id \in DOMAIN db.stats => x.vids = VectorIds(db, x.id)
        /\ pc # "idle" => x.id \in mixed
        /\ x.pc = "rows" /\ x.id \in DOMAIN db.stats =>
              x.id \in mixed \/ \A e \in index : e.img # x.id
        /\ ~twice => x.id \in DOMAIN db.stats

Deletions == \A d \in Deleter : Fits(d)

\* No two deletions of one image, as long as nobody has seen them.
Apart ==
    ~twice => \A d, f \in Deleter :
                 del[d].pc # "idle" /\ del[f].pc # "idle" /\ d # f
                    => del[d].id # del[f].id

\* An entry of an image that is there has one of the image's vector ids: rows
\* are never changed, and image ids never given out again.
Owned ==
    \A e \in index \cup il :
        e.img \in DOMAIN db.stats => e.vid \in VectorIds(db, e.img)

\* The builder holds entries only while a build reads and flushes, and none of
\* an image that is gone, unless its deletion overlapped the build.
Buffered ==
    /\ pc \notin {"read", "flush", "last flush"} => il = {}
    /\ pc = "idle" => batch = {} /\ due = {}
    /\ \A e \in il : e.img \in DOMAIN db.stats \cup mixed

\* What a build is about to mark is in the index or on its way there.
BatchIsPresent ==
    ~twice => \A i \in (batch \cap DOMAIN db.stats) \ touched :
                 Entries(db, i) \subseteq index \cup il

\* The images of the batch that are still there have their entries in il until
\* they are flushed.
BatchIsRead ==
    pc \in {"read", "flush", "last flush"} =>
        \A i \in batch \cap DOMAIN db.stats : Entries(db, i) \subseteq il

\* The batch is the first rows of those not yet indexed, so that OFFSET passes
\* over it and nothing else.
BatchIsPrefix ==
    pc # "idle" /\ ~shifted =>
        /\ batch \subseteq Unindexed(db)
        /\ \A i \in batch, j \in Unindexed(db) : j < i => j \in batch

\* Of the images the build began with, none is skipped.
DueIsAhead ==
    /\ due \subseteq db.blob
    /\ \A i \in due : db.stats[i].count > 0
    /\ ~shifted /\ pc \in {"last flush", "last mark"} =>
          due \cap Unindexed(db) \subseteq batch
    /\ ~shifted /\ pc = "commit" => due \cap Unindexed(db) = {}

IInv ==
    /\ Types
    /\ Deletions
    /\ Apart
    /\ Owned
    /\ Buffered
    /\ DeletionIsClean
    /\ IndexedIsPresent
    /\ BatchIsPresent
    /\ BatchIsRead
    /\ BatchIsPrefix
    /\ DueIsAhead

-----------------------------------------------------------------------------
(* Lemmas about ranges and entries.                                        *)

LEMMA RangeTypes ==
    ASSUME NEW d, Sound(d), NEW i \in DOMAIN d.stats
    PROVE  VectorIds(d, i) \subseteq Nat \ {0} /\ i \in 1..d.lastId
<1>1. /\ d.stats[i] \in Row /\ d.stats[i].count <= d.stats[i].total
      /\ DOMAIN d.stats \subseteq 1..d.lastId
  BY DEF Sound, Shaped
<1> QED BY <1>1 DEF VectorIds, Row

LEMMA EntriesTypes ==
    ASSUME NEW d, Sound(d), NEW i \in DOMAIN d.stats, NEW e \in Entries(d, i)
    PROVE  e \in Entry(d.lastId) /\ e.img = i /\ e.vid \in VectorIds(d, i)
<1>1. PICK v \in VectorIds(d, i) : e = [vid |-> v, img |-> i]
  BY DEF Entries
<1>2. v \in Nat \ {0} /\ i \in 1..d.lastId
  BY RangeTypes
<1> QED BY <1>1, <1>2 DEF Entry

\* The other way round: an entry of an image with one of its vector ids.
LEMMA EntriesComplete ==
    ASSUME NEW d, NEW i, NEW n, NEW e \in Entry(n), e.img = i,
           e.vid \in VectorIds(d, i)
    PROVE  e \in Entries(d, i)
<1>1. e = [vid |-> e.vid, img |-> i]
  BY DEF Entry
<1> QED BY <1>1 DEF Entries

LEMMA SameRangeSameEntries ==
    ASSUME NEW d, NEW e, NEW i, SameRange(e, d, i)
    PROVE  VectorIds(e, i) = VectorIds(d, i) /\ Entries(e, i) = Entries(d, i)
BY DEF SameRange, VectorIds, Entries

\* An image owns what is in its range.
LEMMA RangeIsOwned ==
    ASSUME NEW d, Sound(d), NEW i \in DOMAIN d.stats, NEW v \in Nat
    PROVE  v \in VectorIds(d, i) <=> i \in Owners(d, v)
<1>1. d.stats[i] \in Row /\ d.stats[i].count <= d.stats[i].total
  BY DEF Sound, Shaped
<1> QED BY <1>1 DEF VectorIds, Owners, Row

LEMMA RangesApart ==
    ASSUME NEW d, Sound(d), NEW i \in DOMAIN d.stats, NEW j \in DOMAIN d.stats,
           i # j
    PROVE  VectorIds(d, i) \cap VectorIds(d, j) = {}
<1> SUFFICES ASSUME NEW v \in VectorIds(d, i), v \in VectorIds(d, j) PROVE FALSE
  OBVIOUS
<1>1. v \in Nat
  BY RangeTypes
<1> QED BY <1>1, RangeIsOwned, OneOwner

\* An image with vectors has entries.
LEMMA SomeEntry ==
    ASSUME NEW d, Sound(d), NEW i \in DOMAIN d.stats, d.stats[i].count > 0
    PROVE  Entries(d, i) # {}
<1>1. d.stats[i] \in Row
  BY DEF Sound, Shaped
<1>2. d.stats[i].total \in VectorIds(d, i)
  BY <1>1 DEF VectorIds, Row
<1> QED BY <1>2 DEF Entries

-----------------------------------------------------------------------------
(* Types, and what a step does to the tables and to the deletions.         *)

\* A deletion gets a new record, the others keep theirs.
LEMMA OneDeletion ==
    ASSUME Types, NEW d \in Deleter, NEW x \in Deletion,
           del' = [del EXCEPT ![d] = x]
    PROVE  /\ del' \in [Deleter -> Deletion]
           /\ \A f \in Deleter : del'[f] = IF f = d THEN x ELSE del[f]
BY DEF Types

LEMMA AtRestTypes == AtRest \in Deletion
<1>1. 0 \in Nat
  OBVIOUS
<1> QED BY <1>1 DEF AtRest, Deletion

LEMMA BeginRecord ==
    ASSUME Types, NEW d \in Deleter, NEW i \in DOMAIN db.image, DeleteBegin(d, i)
    PROVE  \E x \in Deletion :
              /\ del' = [del EXCEPT ![d] = x]
              /\ x.pc = IF VectorIds(db, i) = {} THEN "rows" ELSE "purge"
              /\ x.id = i /\ x.vids = VectorIds(db, i)
<1> DEFINE x == [pc |-> IF VectorIds(db, i) = {} THEN "rows" ELSE "purge",
                 id |-> i,
                 vids |-> VectorIds(db, i)]
<1>1. i \in DOMAIN db.stats
  BY DEF Types, TypeOK
<1>2. VectorIds(db, i) \subseteq Nat /\ i \in Nat
  BY <1>1, RangeTypes DEF Types
<1>3. x \in Deletion
  BY <1>2 DEF Deletion
<1>4. del' = [del EXCEPT ![d] = x]
  BY DEF DeleteBegin
<1> QED BY <1>3, <1>4

LEMMA PurgeRecord ==
    ASSUME Types, NEW d \in Deleter, DeletePurge(d)
    PROVE  \E x \in Deletion :
              /\ del' = [del EXCEPT ![d] = x]
              /\ x.pc = "rows" /\ x.id = del[d].id /\ x.vids = del[d].vids
<1> DEFINE x == [pc |-> "rows", id |-> del[d].id, vids |-> del[d].vids]
<1>1. del[d] \in Deletion
  BY DEF Types
<1>2. x \in Deletion
  BY <1>1 DEF Deletion
<1>3. del' = [del EXCEPT ![d] = x]
  <2>1. [del[d] EXCEPT !.pc = "rows"] = x
    BY <1>1 DEF Deletion
  <2>2. del' = [del EXCEPT ![d] = [del[d] EXCEPT !.pc = "rows"]]
    BY DEF DeletePurge, Types
  <2> QED BY <2>1, <2>2
<1> QED BY <1>2, <1>3

\* What a step may do to the tables: rows come with new ids, and none changes
\* but in its flag.
Kept ==
    /\ Sound(db')
    /\ db.lastId <= db'.lastId
    /\ \A i \in DOMAIN db'.stats \ DOMAIN db.stats :
          db.lastId < i /\ db'.stats[i].indexed = 0
    /\ \A i \in DOMAIN db'.stats \cap DOMAIN db.stats : SameRange(db', db, i)

LEMMA UnchangedKept ==
    ASSUME Types, db' = db
    PROVE  Kept
BY DEF Types, Kept, Sound, Shaped, SameRange

LEMMA AddImageDoes ==
    ASSUME Types, NEW h \in Hash, NEW c \in Counts, AddImage(h, c)
    PROVE  Inserted(db', db, h) /\ Kept
<1>1. Sound(db) /\ c \in Nat
  BY CountsAssumption DEF Types
<1>2. Sound(db') /\ Inserted(db', db, h)
  BY <1>1, InsertSound DEF AddImage
<1>3. Kept
  BY <1>1, <1>2 DEF Kept, Inserted, SameRange, Sound, Shaped
<1> QED BY <1>2, <1>3

LEMMA BuildMarkDoes ==
    ASSUME Types, BuildMark
    PROVE  Marked(db', db, batch) /\ Kept
<1>1. Sound(db') /\ Marked(db', db, batch)
  BY MarkIndexedSound DEF BuildMark, Types
<1>2. Kept
  BY <1>1 DEF Kept, Marked, Types, Sound, Shaped
<1> QED BY <1>1, <1>2

LEMMA DeleteRowsDoes ==
    ASSUME Types, NEW d \in Deleter, DeleteRows(d)
    PROVE  /\ Removed(db', db, del[d].id) \/ db' = db
           /\ DOMAIN db'.stats = DOMAIN db.stats \ {del[d].id}
           /\ Kept
<1>1. CASE del[d].id \in DOMAIN db.image
  <2>1. Sound(db') /\ Removed(db', db, del[d].id)
    BY <1>1, RemoveSound DEF DeleteRows, Types
  <2>2. Kept
    BY <2>1 DEF Kept, Removed, SameRange, Types, Sound, Shaped
  <2> QED BY <2>1, <2>2 DEF Removed
<1>2. CASE del[d].id \notin DOMAIN db.image
  <2>1. db' = db
    BY <1>2 DEF DeleteRows
  <2> QED BY <1>2, <2>1, UnchangedKept DEF Types, TypeOK
<1> QED BY <1>1, <1>2

LEMMA StepKept ==
    ASSUME Types, [Next]_vars
    PROVE  Kept
BY UnchangedKept, AddImageDoes, BuildMarkDoes, DeleteRowsDoes
   DEF Next, vars, DeleteStep, BuildBegin, BuildRead, BuildReadEnd, BuildFlush,
       BuildCommit, BuildFails, DeleteBegin, DeletePurge, DeleteFails, Crash

\* What Kept says of ranges and entries.
LEMMA KeptRanges ==
    ASSUME Kept, NEW i \in DOMAIN db.stats, i \in DOMAIN db'.stats
    PROVE  /\ VectorIds(db', i) = VectorIds(db, i)
           /\ Entries(db', i) = Entries(db, i)
           /\ db'.stats[i].count = db.stats[i].count
<1>1. SameRange(db', db, i)
  BY DEF Kept
<1> QED BY <1>1, SameRangeSameEntries DEF SameRange

\* The rows read next wait to be indexed.
LEMMA NextRowsWait ==
    ASSUME Types
    PROVE  /\ Unindexed(db) \subseteq DOMAIN db.stats
           /\ NextRows \subseteq Unindexed(db)
BY DEF Types, Sound, Shaped, NextRows, Unindexed

\* What the types say of the deletions, apart.
DelTypes(n) ==
    /\ del \in [Deleter -> Deletion]
    /\ \A d \in Deleter :
          /\ del[d].pc \in {"idle", "purge", "rows"} /\ del[d].id \in 0..n
          /\ del[d].pc # "idle" => del[d].id \in 1..n

LEMMA IntervalGrows ==
    ASSUME NEW m \in Nat, NEW n \in Nat, m <= n
    PROVE  1..m \subseteq 1..n /\ 0..m \subseteq 0..n
OBVIOUS

LEMMA OneDeletionTypes ==
    ASSUME Types, NEW d \in Deleter, NEW x \in Deletion, x.id \in 0..db.lastId,
           x.pc # "idle" => x.id \in 1..db.lastId,
           del' = [del EXCEPT ![d] = x], db'.lastId = db.lastId
    PROVE  DelTypes(db.lastId)'
<1>1. /\ del' \in [Deleter -> Deletion]
      /\ \A f \in Deleter : del'[f] = IF f = d THEN x ELSE del[f]
  BY OneDeletion
<1>2. x.pc \in {"idle", "purge", "rows"}
  BY DEF Deletion
<1> QED BY <1>1, <1>2 DEF DelTypes, Types, TypeOK

LEMMA SameDeletionTypes ==
    ASSUME Types, del' = del, Kept
    PROVE  DelTypes(db.lastId)'
<1>1. db.lastId \in Nat /\ db'.lastId \in Nat /\ db.lastId <= db'.lastId
  BY DEF Kept, Types, Sound, Shaped
<1>2. 0..db.lastId \subseteq 0..db'.lastId /\ 1..db.lastId \subseteq 1..db'.lastId
  BY <1>1, IntervalGrows
<1> QED BY <1>2 DEF Types, TypeOK, DelTypes

\* No step disturbs the types of what it leaves alone or takes away from.
LEMMA TypesStep ==
    ASSUME Types, Kept, DelTypes(db.lastId)',
           index' \cup il' \subseteq Entry(db.lastId),
           pc' \in {"idle", "read", "flush", "mark", "last flush", "last mark",
                    "commit"},
           batch' \subseteq 1..db.lastId, due' \subseteq 1..db.lastId,
           mixed' \subseteq 1..db.lastId, touched' \subseteq 1..db.lastId,
           twice' \in BOOLEAN, shifted' \in BOOLEAN
    PROVE  Types'
<1>1. db.lastId \in Nat /\ db'.lastId \in Nat /\ db.lastId <= db'.lastId
      /\ DOMAIN db'.image = DOMAIN db'.stats
      /\ DOMAIN db'.stats \subseteq 1..db'.lastId
  BY DEF Kept, Types, Sound, Shaped
<1>2. 1..db.lastId \subseteq 1..db'.lastId
  BY <1>1, IntervalGrows, Zenon
<1>3. Entry(db.lastId) \subseteq Entry(db'.lastId)
  BY <1>2 DEF Entry
<1>4. index' \cup il' \subseteq [vid : Nat \ {0}, img : 1..db'.lastId]
  BY <1>3 DEF Entry
<1>5. batch' \cup due' \cup mixed' \cup touched' \subseteq 1..db'.lastId
  BY <1>2
<1>6. TypeOK'
  BY <1>1, <1>4, <1>5 DEF TypeOK, DelTypes
<1> QED BY <1>6 DEF Types, DelTypes, Kept

LEMMA InitTypes == Init => Types
<1> SUFFICES ASSUME Init PROVE Types
  OBVIOUS
<1>1. del \in [Deleter -> Deletion] /\ \A d \in Deleter : del[d] = AtRest
  BY AtRestTypes DEF Init
<1>2. Sound(db) /\ db.lastId = 0
  BY EmptySound DEF Init, EmptyDb
<1>3. DOMAIN db.image = DOMAIN db.stats /\ DOMAIN db.stats \subseteq 1..db.lastId
  BY <1>2 DEF Sound, Shaped
<1>4. 0 \in 0..0
  OBVIOUS
<1>5. \A d \in Deleter :
         /\ del[d].pc \in {"idle", "purge", "rows"}
         /\ del[d].id \in 0..db.lastId
  BY <1>1, <1>2, <1>4 DEF AtRest
<1>6. TypeOK
  BY <1>3, <1>5 DEF Init, TypeOK
<1> QED BY <1>1, <1>2, <1>6 DEF Types, AtRest

LEMMA NextTypes == Types /\ [Next]_vars => Types'
<1> SUFFICES ASSUME Types, [Next]_vars PROVE Types'
  OBVIOUS
<1>1. Kept
  BY StepKept
<1>2. /\ index \cup il \subseteq Entry(db.lastId)
      /\ pc \in {"idle", "read", "flush", "mark", "last flush", "last mark",
                 "commit"}
      /\ batch \subseteq 1..db.lastId /\ due \subseteq 1..db.lastId
      /\ mixed \subseteq 1..db.lastId /\ touched \subseteq 1..db.lastId
      /\ twice \in BOOLEAN /\ shifted \in BOOLEAN
  BY DEF Types, TypeOK, Entry
<1>3. DOMAIN db.stats \subseteq 1..db.lastId
      /\ DOMAIN db.image = DOMAIN db.stats
      /\ Unindexed(db) \subseteq DOMAIN db.stats
      /\ NextRows \subseteq Unindexed(db)
  BY NextRowsWait DEF Types, TypeOK
<1>4. BeingDeleted \subseteq 1..db.lastId
  BY DEF BeingDeleted, Types, TypeOK
<1>5. ASSUME NEW h \in Hash, NEW c \in Counts, AddImage(h, c) PROVE Types'
  <2>1. DelTypes(db.lastId)'
    BY <1>1, <1>5, SameDeletionTypes DEF AddImage
  <2> QED BY <1>1, <1>2, <1>5, <2>1, TypesStep DEF AddImage, buildVars, histVars
<1>6. CASE BuildBegin
  <2>1. DelTypes(db.lastId)'
    BY <1>1, <1>6, SameDeletionTypes DEF BuildBegin
  <2>2. mixed' \subseteq 1..db.lastId
    BY <1>2, <1>4, <1>6 DEF BuildBegin
  <2>3. due' \subseteq 1..db.lastId
    BY <1>3, <1>6 DEF BuildBegin
  <2> QED BY <1>1, <1>2, <1>6, <2>1, <2>2, <2>3, TypesStep DEF BuildBegin
<1>7. CASE BuildRead
  <2>1. DelTypes(db.lastId)'
    BY <1>1, <1>7, SameDeletionTypes DEF BuildRead
  <2>2. il' \subseteq Entry(db.lastId)
    BY <1>2, <1>3, <1>7, EntriesTypes DEF BuildRead, Types
  <2>3. batch' \subseteq 1..db.lastId
    BY <1>2, <1>3, <1>7 DEF BuildRead
  <2> QED BY <1>1, <1>2, <1>7, <2>1, <2>2, <2>3, TypesStep
          DEF BuildRead, histVars
<1>8. CASE BuildReadEnd \/ BuildFlush \/ BuildMark \/ BuildCommit \/ BuildFails
  <2>1. DelTypes(db.lastId)'
    BY <1>1, <1>8, SameDeletionTypes
       DEF BuildReadEnd, BuildFlush, BuildMark, BuildCommit, BuildFails
  <2> QED BY <1>1, <1>2, <1>8, <2>1, TypesStep
          DEF BuildReadEnd, BuildFlush, BuildMark, BuildCommit, BuildFails,
              histVars
<1>9. ASSUME NEW d \in Deleter, NEW i \in DOMAIN db.image, DeleteBegin(d, i)
      PROVE  Types'
  <2>1. i \in 1..db.lastId /\ i \in 0..db.lastId
    BY <1>3
  <2>2. DelTypes(db.lastId)'
    <3>1. PICK x \in Deletion : del' = [del EXCEPT ![d] = x] /\ x.id = i
      BY <1>9, BeginRecord
    <3>2. x.id \in 0..db.lastId /\ x.id \in 1..db.lastId /\ db'.lastId = db.lastId
      BY <1>9, <2>1, <3>1 DEF DeleteBegin
    <3> QED BY <3>1, <3>2, OneDeletionTypes
  <2>3. twice' \in BOOLEAN
    BY <1>9 DEF DeleteBegin
  <2> QED BY <1>1, <1>2, <1>9, <2>1, <2>2, <2>3, TypesStep
          DEF DeleteBegin, buildVars
<1>10. ASSUME NEW d \in Deleter, DeletePurge(d) PROVE Types'
  <2>1. del[d].id \in 0..db.lastId /\ del[d].id \in 1..db.lastId
    BY <1>10 DEF Types, TypeOK, DeletePurge
  <2>2. DelTypes(db.lastId)'
    BY <1>10, <2>1, PurgeRecord, OneDeletionTypes DEF DeletePurge
  <2> QED BY <1>1, <1>2, <1>10, <2>2, TypesStep
          DEF DeletePurge, buildVars, histVars
<1>11. ASSUME NEW d \in Deleter, DeleteRows(d) \/ DeleteFails(d) PROVE Types'
  <2>1. 0 \in 0..db.lastId /\ AtRest.id = 0 /\ AtRest.pc = "idle"
    BY DEF AtRest, Types, Sound, Shaped
  <2>2. db'.lastId = db.lastId
    BY <1>11 DEF DeleteRows, DeleteFails, Delete
  <2>3. DelTypes(db.lastId)'
    BY <1>11, <2>1, <2>2, AtRestTypes, OneDeletionTypes DEF DeleteRows, DeleteFails
  <2>4. shifted' \in BOOLEAN
    BY <1>2, <1>11 DEF DeleteRows, DeleteFails, histVars
  <2>5. index' \subseteq index /\ due' \subseteq due
    BY <1>11 DEF DeleteRows, DeleteFails, histVars
  <2> QED BY <1>1, <1>2, <1>11, <2>3, <2>4, <2>5, TypesStep
          DEF DeleteRows, DeleteFails, buildVars, histVars
<1>12. CASE Crash
  <2>1. del' = [d \in Deleter |-> AtRest] /\ db' = db
    BY <1>12 DEF Crash
  <2>2. 0 \in 0..db.lastId /\ AtRest.id = 0 /\ AtRest.pc = "idle"
    BY DEF AtRest, Types, Sound, Shaped
  <2>3. DelTypes(db.lastId)'
    BY <2>1, <2>2, AtRestTypes DEF DelTypes
  <2> QED BY <1>1, <1>2, <1>12, <2>3, TypesStep DEF Crash
<1>13. CASE UNCHANGED vars
  <2>1. DelTypes(db.lastId)'
    BY <1>1, <1>13, SameDeletionTypes DEF vars
  <2> QED BY <1>1, <1>2, <1>13, <2>1, TypesStep DEF vars, buildVars, histVars
<1> QED BY <1>5, <1>6, <1>7, <1>8, <1>9, <1>10, <1>11, <1>12, <1>13
        DEF Next, DeleteStep

-----------------------------------------------------------------------------
(* What a step does to the entries and to the histories.                   *)

LEMMA HistoryGrows ==
    ASSUME Types, [Next]_vars
    PROVE  /\ mixed \subseteq mixed' /\ touched \subseteq touched'
           /\ twice => twice'
<1> USE DEF histVars, vars
<1>1. ASSUME NEW d \in Deleter, NEW i \in DOMAIN db.image, DeleteBegin(d, i)
      PROVE  mixed \subseteq mixed' /\ touched \subseteq touched' /\ (twice => twice')
  BY <1>1 DEF DeleteBegin
<1>2. ASSUME NEW d \in Deleter, DeleteStep(d)
      PROVE  UNCHANGED <<mixed, touched, twice>>
  BY <1>2 DEF DeleteStep, DeletePurge, DeleteRows, DeleteFails
<1>3. ASSUME UNCHANGED <<mixed, touched, twice>>
      PROVE  mixed \subseteq mixed' /\ touched \subseteq touched' /\ (twice => twice')
  BY <1>3
<1>4. ASSUME BuildBegin
      PROVE  mixed \subseteq mixed' /\ touched \subseteq touched' /\ (twice => twice')
  BY <1>4 DEF BuildBegin
<1>5. CASE UNCHANGED vars
  BY <1>3, <1>5
<1>6. CASE Next
  <2>1. \/ UNCHANGED <<mixed, touched, twice>>
        \/ BuildBegin
        \/ \E d \in Deleter, i \in DOMAIN db.image : DeleteBegin(d, i)
    BY <1>2, <1>6
       DEF Next, AddImage, BuildRead, BuildReadEnd, BuildFlush, BuildMark,
           BuildCommit, BuildFails, Crash
  <2> QED BY <1>1, <1>3, <1>4, <2>1, Zenon
<1> QED BY <1>5, <1>6

\* Entries come from the rows read next.
LEMMA EntriesComeFromRows ==
    ASSUME Types, [Next]_vars
    PROVE  /\ index' \subseteq index \cup il
           /\ il' \subseteq il \cup UNION {Entries(db, i) : i \in NextRows}
<1> USE DEF buildVars, vars
<1>1. ASSUME NEW d \in Deleter, DeleteStep(d)
      PROVE  index' \subseteq index /\ il' = il
  BY <1>1 DEF DeleteStep, DeletePurge, DeleteRows, DeleteFails
<1> QED BY <1>1
        DEF Next, AddImage, BuildBegin, BuildRead, BuildReadEnd, BuildFlush,
            BuildMark, BuildCommit, BuildFails, DeleteBegin, Crash

\* Images come with new ids: one that an entry, a batch or a deletion knows is
\* none of them.
LEMMA KnownIsOld ==
    ASSUME Types, Kept, NEW i \in 1..db.lastId, i \in DOMAIN db'.stats
    PROVE  i \in DOMAIN db.stats
<1>1. db.lastId \in Nat /\ ~(db.lastId < i)
  BY DEF Types, Sound, Shaped
<1> QED BY <1>1 DEF Kept

LEMMA EntryIsTyped ==
    ASSUME Types, NEW e \in index \cup il
    PROVE  e \in Entry(db.lastId) /\ e.img \in 1..db.lastId /\ e.vid \in Nat \ {0}
BY DEF Types, TypeOK, Entry

LEMMA NextOwned == IInv /\ [Next]_vars => Owned'
<1> SUFFICES ASSUME IInv, [Next]_vars,
                    NEW e \in index' \cup il', e.img \in DOMAIN db'.stats
             PROVE  e.vid \in VectorIds(db', e.img)
  BY DEF Owned
<1>1. Types /\ Kept
  BY StepKept DEF IInv
<1>2. CASE e \in index \cup il
  <2>1. e.img \in DOMAIN db.stats
    BY <1>1, <1>2, EntryIsTyped, KnownIsOld
  <2>2. e.vid \in VectorIds(db, e.img)
    BY <1>2, <2>1 DEF IInv, Owned
  <2> QED BY <1>1, <2>1, <2>2, KeptRanges
<1>3. CASE \E i \in NextRows : e \in Entries(db, i)
  <2>1. PICK i \in NextRows : e \in Entries(db, i)
    BY <1>3
  <2>2. i \in DOMAIN db.stats
    BY <1>1, NextRowsWait
  <2>3. e.img = i /\ e.vid \in VectorIds(db, i)
    BY <1>1, <2>1, <2>2, EntriesTypes DEF Types
  <2> QED BY <1>1, <2>2, <2>3, KeptRanges
<1> QED BY <1>1, <1>2, <1>3, EntriesComeFromRows

-----------------------------------------------------------------------------
(* Deletions.                                                              *)

\* A deletion that goes on as it was fits as well as before, if its image gets
\* no new entries that mixed does not tell of, and is not deleted by another
\* that twice does not tell of.
LEMMA SameDeletionFits ==
    ASSUME IInv, [Next]_vars, NEW d \in Deleter, del'[d] = del[d],
           pc' # "idle" /\ del[d].pc # "idle" => pc # "idle" \/ del[d].id \in mixed',
           index' \subseteq index \/ pc # "idle",
           ~twice' /\ del[d].pc # "idle" /\ del[d].id \in DOMAIN db.stats
               => del[d].id \in DOMAIN db'.stats
    PROVE  Fits(d)'
<1> SUFFICES ASSUME del[d].pc # "idle" PROVE Fits(d)'
  BY DEF Fits
<1> DEFINE x == del[d]
<1>1. Types /\ Kept /\ x.id \in 1..db.lastId
  BY StepKept DEF IInv, Types
<1>2. /\ x.id \in touched
      /\ x.id \in DOMAIN db.stats => x.vids = VectorIds(db, x.id)
      /\ pc # "idle" => x.id \in mixed
      /\ x.pc = "rows" /\ x.id \in DOMAIN db.stats =>
            x.id \in mixed \/ \A e \in index : e.img # x.id
      /\ ~twice => x.id \in DOMAIN db.stats
  BY DEF IInv, Deletions, Fits
<1>3. mixed \subseteq mixed' /\ touched \subseteq touched' /\ (twice => twice')
  BY <1>1, HistoryGrows
<1>4. x.id \in DOMAIN db'.stats => x.id \in DOMAIN db.stats
  BY <1>1, KnownIsOld
<1>5. x.id \in DOMAIN db'.stats => x.vids = VectorIds(db', x.id)
  BY <1>1, <1>2, <1>4, KeptRanges
<1>6. x.pc = "rows" /\ x.id \in DOMAIN db'.stats =>
         x.id \in mixed' \/ \A e \in index' : e.img # x.id
  BY <1>2, <1>3, <1>4
<1> QED BY <1>2, <1>3, <1>5, <1>6 DEF Fits

LEMMA NextDeletions == IInv /\ [Next]_vars => Deletions'
<1> SUFFICES ASSUME IInv, [Next]_vars, NEW f \in Deleter PROVE Fits(f)'
  BY DEF Deletions
<1>0. Types /\ Kept
  BY StepKept DEF IInv
<1>1. ASSUME NEW h \in Hash, NEW c \in Counts, AddImage(h, c) PROVE Fits(f)'
  <2>1. DOMAIN db.stats \subseteq DOMAIN db'.stats
    BY <1>0, <1>1, AddImageDoes DEF Inserted
  <2> QED BY <1>1, <2>1, SameDeletionFits DEF AddImage, buildVars
<1>2. CASE BuildBegin
  BY <1>2, SameDeletionFits DEF BuildBegin, BeingDeleted
<1>3. CASE BuildRead \/ BuildReadEnd \/ BuildFlush \/ BuildCommit \/ BuildFails
  BY <1>3, SameDeletionFits
     DEF BuildRead, BuildReadEnd, BuildFlush, BuildCommit, BuildFails
<1>4. CASE BuildMark
  <2>1. DOMAIN db'.stats = DOMAIN db.stats
    BY <1>0, <1>4, BuildMarkDoes DEF Marked
  <2> QED BY <1>4, <2>1, SameDeletionFits DEF BuildMark
<1>5. ASSUME NEW d \in Deleter, NEW i \in DOMAIN db.image, DeleteBegin(d, i)
      PROVE  Fits(f)'
  <2>0. PICK x \in Deletion :
           /\ del' = [del EXCEPT ![d] = x]
           /\ x.pc = IF VectorIds(db, i) = {} THEN "rows" ELSE "purge"
           /\ x.id = i /\ x.vids = VectorIds(db, i)
    BY <1>0, <1>5, BeginRecord
  <2>1. \A g \in Deleter : del'[g] = IF g = d THEN x ELSE del[g]
    BY <1>0, <2>0, OneDeletion
  <2>2. CASE f # d
    BY <1>5, <2>1, <2>2, SameDeletionFits DEF DeleteBegin, buildVars
  <2>3. CASE f = d
    <3>1. i \in DOMAIN db.stats
      BY <1>0 DEF Types, TypeOK
    <3>2. VectorIds(db, i) = {} => \A e \in index : e.img # i
      BY <3>1 DEF IInv, Owned
    <3>3. db' = db /\ index' = index /\ pc' = pc /\ i \in touched'
          /\ (pc # "idle" => i \in mixed')
      BY <1>5 DEF DeleteBegin, buildVars
    <3> QED BY <2>0, <2>1, <2>3, <3>1, <3>2, <3>3 DEF Fits
  <2> QED BY <2>2, <2>3
<1>6. ASSUME NEW d \in Deleter, DeletePurge(d) PROVE Fits(f)'
  <2>0. PICK x \in Deletion :
           /\ del' = [del EXCEPT ![d] = x]
           /\ x.pc = "rows" /\ x.id = del[d].id /\ x.vids = del[d].vids
    BY <1>0, <1>6, PurgeRecord
  <2>1. \A g \in Deleter : del'[g] = IF g = d THEN x ELSE del[g]
    BY <1>0, <2>0, OneDeletion
  <2>2. index' = index \ InRange(d) /\ db' = db /\ pc' = pc /\ del[d].pc = "purge"
        /\ UNCHANGED <<mixed, touched, twice>>
    BY <1>6 DEF DeletePurge, buildVars, histVars
  <2>3. CASE f # d
    BY <2>1, <2>2, <2>3, SameDeletionFits
  <2>4. CASE f = d
    <3>1. /\ x.id \in touched
          /\ x.id \in DOMAIN db.stats => x.vids = VectorIds(db, x.id)
          /\ pc # "idle" => x.id \in mixed
          /\ ~twice => x.id \in DOMAIN db.stats
      BY <2>0, <2>2 DEF IInv, Deletions, Fits
    <3>2. ASSUME x.id \in DOMAIN db.stats, NEW e \in index, e.img = x.id
          PROVE  e \in InRange(d)
      <4>1. e.vid \in VectorIds(db, x.id)
        BY <3>2 DEF IInv, Owned
      <4> QED BY <2>0, <3>1, <3>2, <4>1 DEF InRange
    <3>3. x.id \in DOMAIN db.stats => \A e \in index' : e.img # x.id
      BY <2>2, <3>2
    <3> QED BY <2>1, <2>2, <2>4, <3>1, <3>3 DEF Fits
  <2> QED BY <2>3, <2>4
<1>7. ASSUME NEW d \in Deleter, DeleteRows(d) \/ DeleteFails(d) PROVE Fits(f)'
  <2>1. \A g \in Deleter : del'[g] = IF g = d THEN AtRest ELSE del[g]
    BY <1>0, <1>7, AtRestTypes, OneDeletion DEF DeleteRows, DeleteFails
  <2>2. CASE f = d
    BY <2>1, <2>2 DEF Fits, AtRest
  <2>3. CASE f # d
    <3>1. index' \subseteq index /\ pc' = pc /\ twice' = twice
      BY <1>7 DEF DeleteRows, DeleteFails, buildVars, histVars
    <3>2. CASE DeleteFails(d)
      BY <2>1, <2>3, <3>1, <3>2, SameDeletionFits DEF DeleteFails
    <3>3. CASE DeleteRows(d)
      <4>1. DOMAIN db'.stats = DOMAIN db.stats \ {del[d].id}
        BY <1>0, <3>3, DeleteRowsDoes
      <4>2. ~twice /\ del[f].pc # "idle" => del[f].id # del[d].id
        BY <2>3, <3>3 DEF IInv, Apart, DeleteRows
      <4> QED BY <2>1, <2>3, <3>1, <4>1, <4>2, SameDeletionFits
    <3> QED BY <1>7, <3>2, <3>3
  <2> QED BY <2>2, <2>3
<1>8. CASE Crash
  BY <1>8 DEF Crash, Fits, AtRest
<1>9. CASE UNCHANGED vars
  BY <1>9, SameDeletionFits DEF vars, buildVars
<1> QED BY <1>1, <1>2, <1>3, <1>4, <1>5, <1>6, <1>7, <1>8, <1>9
        DEF Next, DeleteStep

LEMMA NextApart == IInv /\ [Next]_vars => Apart'
<1> SUFFICES ASSUME IInv, [Next]_vars, ~twice',
                    NEW f \in Deleter, NEW g \in Deleter, f # g,
                    del'[f].pc # "idle", del'[g].pc # "idle"
             PROVE  del'[f].id # del'[g].id
  BY DEF Apart
<1>0. Types /\ ~twice
  BY HistoryGrows DEF IInv
<1>1. ASSUME \A d \in Deleter :
                 del'[d].pc # "idle" => del[d].pc # "idle" /\ del'[d].id = del[d].id
      PROVE  del'[f].id # del'[g].id
  BY <1>0, <1>1 DEF IInv, Apart
<1>2. ASSUME NEW d \in Deleter, NEW i \in DOMAIN db.image, DeleteBegin(d, i)
      PROVE  del'[f].id # del'[g].id
  <2>0. PICK x \in Deletion : del' = [del EXCEPT ![d] = x] /\ x.id = i
    BY <1>0, <1>2, BeginRecord
  <2>1. \A e \in Deleter : del'[e] = IF e = d THEN x ELSE del[e]
    BY <1>0, <2>0, OneDeletion
  <2>2. \A e \in Deleter : del[e].pc # "idle" => del[e].id # i
    BY <1>2 DEF DeleteBegin, BeingDeleted
  <2>3. del[f].pc # "idle" /\ del[g].pc # "idle" => del[f].id # del[g].id
    BY <1>0 DEF IInv, Apart
  <2> QED BY <2>0, <2>1, <2>2, <2>3
<1>3. ASSUME NEW d \in Deleter, DeleteStep(d)
      PROVE  del'[f].id # del'[g].id
  <2>1. CASE DeletePurge(d)
    <3>0. PICK x \in Deletion : del' = [del EXCEPT ![d] = x] /\ x.id = del[d].id
      BY <1>0, <2>1, PurgeRecord
    <3>1. \A e \in Deleter : del'[e] = IF e = d THEN x ELSE del[e]
      BY <1>0, <3>0, OneDeletion
    <3> QED BY <1>1, <2>1, <3>0, <3>1 DEF DeletePurge
  <2>2. CASE DeleteRows(d) \/ DeleteFails(d)
    <3>1. \A e \in Deleter : del'[e] = IF e = d THEN AtRest ELSE del[e]
      BY <1>0, <2>2, AtRestTypes, OneDeletion DEF DeleteRows, DeleteFails
    <3> QED BY <1>1, <3>1 DEF AtRest
  <2> QED BY <1>3, <2>1, <2>2 DEF DeleteStep
<1>4. CASE Crash
  BY <1>4 DEF Crash, AtRest
<1>5. CASE UNCHANGED del
  BY <1>1, <1>5
<1> QED BY <1>2, <1>3, <1>4, <1>5
        DEF Next, vars, AddImage, BuildBegin, BuildRead, BuildReadEnd, BuildFlush,
            BuildMark, BuildCommit, BuildFails

-----------------------------------------------------------------------------
(* Nothing is left of a deleted image.                                     *)

\* Rows that go without mixed telling of it go while no build runs, and when the
\* index has none of the entries of their image left.
LEMMA RemovalIsMixed ==
    ASSUME IInv, [Next]_vars, NEW i \in DOMAIN db.stats, i \notin DOMAIN db'.stats,
           i \notin mixed
    PROVE  /\ pc = "idle" /\ index' = index /\ il' = il
           /\ \A e \in index : e.img # i
<1>0. Types
  BY DEF IInv
<1>1. ASSUME NEW h \in Hash, NEW c \in Counts, AddImage(h, c) PROVE FALSE
  BY <1>0, <1>1, AddImageDoes DEF Inserted
<1>2. ASSUME BuildMark PROVE FALSE
  BY <1>0, <1>2, BuildMarkDoes DEF Marked
<1>3. ASSUME db' = db PROVE FALSE
  BY <1>3
<1>4. PICK d \in Deleter : DeleteRows(d)
  BY <1>1, <1>2, <1>3
     DEF Next, vars, DeleteStep, BuildBegin, BuildRead, BuildReadEnd, BuildFlush,
         BuildCommit, BuildFails, DeleteBegin, DeletePurge, DeleteFails, Crash
<1>5. DOMAIN db'.stats = DOMAIN db.stats \ {del[d].id}
  BY <1>0, <1>4, DeleteRowsDoes
<1>6. del[d].id = i /\ del[d].pc = "rows" /\ index' = index /\ il' = il
  BY <1>4, <1>5 DEF DeleteRows, buildVars
<1> QED BY <1>6 DEF IInv, Deletions, Fits

LEMMA NextDeletionIsClean == IInv /\ [Next]_vars => DeletionIsClean'
<1> SUFFICES ASSUME IInv, [Next]_vars, NEW e \in index', e.img \notin mixed'
             PROVE  e.img \in DOMAIN db'.image
  BY DEF DeletionIsClean
<1>0. Types /\ Types' /\ mixed \subseteq mixed'
  BY NextTypes, HistoryGrows DEF IInv
<1>1. e \in index \cup il
  BY <1>0, EntriesComeFromRows
<1>2. e.img \in DOMAIN db.stats
  BY <1>0, <1>1 DEF IInv, DeletionIsClean, Buffered, Types, TypeOK
<1>3. DOMAIN db'.image = DOMAIN db'.stats
  BY <1>0 DEF Types, TypeOK
<1>4. ASSUME e.img \notin DOMAIN db'.stats PROVE FALSE
  <2>1. pc = "idle" /\ \A f \in index : f.img # e.img
    BY <1>0, <1>2, <1>4, RemovalIsMixed
  <2> QED BY <1>1, <2>1 DEF IInv, Buffered
<1> QED BY <1>3, <1>4

LEMMA NextBuffered == IInv /\ [Next]_vars => Buffered'
<1> SUFFICES ASSUME IInv, [Next]_vars PROVE Buffered'
  OBVIOUS
<1>0. Types /\ mixed \subseteq mixed'
  BY HistoryGrows DEF IInv
<1>1. ASSUME NEW e \in il' PROVE e.img \in DOMAIN db'.stats \cup mixed'
  <2>1. CASE e \in il
    <3>1. e.img \in DOMAIN db.stats \cup mixed
      BY <2>1 DEF IInv, Buffered
    <3>2. pc # "idle"
      BY <2>1 DEF IInv, Buffered
    <3> QED BY <1>0, <3>1, <3>2, RemovalIsMixed
  <2>2. CASE e \notin il
    <3>1. PICK i \in NextRows : e \in Entries(db, i)
      BY <1>0, <1>1, <2>2, EntriesComeFromRows
    <3>2. i \in DOMAIN db.stats
      BY <1>0, NextRowsWait
    <3>3. e.img = i
      BY <1>0, <3>1, <3>2, EntriesTypes DEF Types
    <3> QED BY <1>0, <1>1, <2>2, <3>2, <3>3, RemovalIsMixed
  <2> QED BY <2>1, <2>2
<1>2. pc' \notin {"read", "flush", "last flush"} => il' = {}
  <2> USE DEF IInv, Buffered
  <2>1. CASE BuildBegin \/ BuildRead \/ BuildReadEnd \/ BuildFlush \/ BuildMark
             \/ BuildCommit \/ BuildFails \/ Crash
    BY <2>1 DEF BuildBegin, BuildRead, BuildReadEnd, BuildFlush, BuildMark,
                BuildCommit, BuildFails, Crash
  <2>2. CASE UNCHANGED buildVars
    BY <2>2 DEF buildVars
  <2> QED BY <2>1, <2>2
          DEF Next, vars, AddImage, DeleteBegin, DeleteStep, DeletePurge,
              DeleteRows, DeleteFails
<1>3. pc' = "idle" => batch' = {} /\ due' = {}
  <2> USE DEF IInv, Buffered
  <2>1. CASE BuildBegin \/ BuildRead \/ BuildReadEnd \/ BuildFlush \/ BuildMark
             \/ BuildCommit \/ BuildFails \/ Crash
    BY <2>1 DEF BuildBegin, BuildRead, BuildReadEnd, BuildFlush, BuildMark,
                BuildCommit, BuildFails, Crash
  <2>2. CASE UNCHANGED buildVars /\ due' \subseteq due
    BY <2>2 DEF buildVars
  <2>3. ASSUME NEW d \in Deleter, DeleteStep(d)
        PROVE  UNCHANGED buildVars /\ due' \subseteq due
    BY <2>3 DEF DeleteStep, DeletePurge, DeleteRows, DeleteFails, histVars
  <2> QED BY <2>1, <2>2, <2>3 DEF Next, vars, histVars, AddImage, DeleteBegin
<1> QED BY <1>1, <1>2, <1>3 DEF Buffered

-----------------------------------------------------------------------------
(* What is indexed is present.                                             *)

\* A deletion purges no vector of an image that it does not delete, as long as
\* the range it has read is the one of its image.
LEMMA PurgeSpares ==
    ASSUME IInv, ~twice, NEW d \in Deleter, del[d].pc # "idle",
           NEW i \in DOMAIN db.stats, i \notin touched, NEW e \in Entries(db, i)
    PROVE  e \notin InRange(d)
<1> DEFINE j == del[d].id
<1>1. j \in touched /\ j \in DOMAIN db.stats /\ del[d].vids = VectorIds(db, j)
  BY DEF IInv, Deletions, Fits
<1>2. Sound(db)
  BY DEF IInv, Types
<1>3. e.vid \in VectorIds(db, i)
  BY <1>2, EntriesTypes
<1>4. VectorIds(db, i) \cap VectorIds(db, j) = {}
  BY <1>1, <1>2, RangesApart
<1> QED BY <1>1, <1>3, <1>4 DEF InRange

LEMMA IndexKeeps ==
    ASSUME IInv, [Next]_vars, ~twice, NEW i \in DOMAIN db.stats, i \notin touched,
           NEW e \in Entries(db, i), e \in index
    PROVE  e \in index'
<1>1. ASSUME NEW d \in Deleter, DeletePurge(d) PROVE e \in index'
  BY <1>1, PurgeSpares DEF DeletePurge
<1>2. ASSUME NEW d \in Deleter, DeleteFails(d) PROVE e \in index'
  <2>1. e \notin InRange(d)
    BY <1>2, PurgeSpares DEF DeleteFails
  <2> QED BY <1>2, <2>1 DEF DeleteFails
<1>3. CASE index \subseteq index'
  BY <1>3
<1> QED BY <1>1, <1>2, <1>3
        DEF Next, vars, AddImage, BuildBegin, BuildRead, BuildReadEnd, BuildFlush,
            BuildMark, BuildCommit, BuildFails, DeleteBegin, DeleteStep,
            DeleteRows, Crash

\* The batch grows by the rows whose entries the builder gets, and what the
\* builder loses is flushed or was of a batch that is given up.
LEMMA BatchStep ==
    ASSUME IInv, [Next]_vars
    PROVE  \/ batch' = {}
           \/ BuildRead
           \/ batch' = batch /\ il \cup index \subseteq il' \cup index'
           \/ batch' = batch /\ il' = il
<1>1. ASSUME NEW d \in Deleter, DeleteStep(d) PROVE batch' = batch /\ il' = il
  BY <1>1 DEF DeleteStep, DeletePurge, DeleteRows, DeleteFails, buildVars
<1> QED BY <1>1
        DEF Next, vars, buildVars, AddImage, BuildBegin, BuildReadEnd, BuildFlush,
            BuildMark, BuildCommit, BuildFails, DeleteBegin, Crash

LEMMA NextBatchIsPresent == IInv /\ [Next]_vars => BatchIsPresent'
<1> SUFFICES ASSUME IInv, [Next]_vars, ~twice',
                    NEW i \in batch', i \in DOMAIN db'.stats, i \notin touched',
                    NEW e \in Entries(db', i)
             PROVE  e \in index' \cup il'
  BY DEF BatchIsPresent
<1>0. Types /\ Kept /\ ~twice /\ i \notin touched
  BY StepKept, HistoryGrows DEF IInv
<1>1. CASE i \in batch
  <2>1. i \in DOMAIN db.stats
    BY <1>0, <1>1, KnownIsOld DEF Types, TypeOK
  <2>2. e \in Entries(db, i)
    BY <1>0, <2>1, KeptRanges
  <2>3. e \in index \cup il
    BY <1>0, <1>1, <2>1, <2>2 DEF IInv, BatchIsPresent
  <2>4. e \in index => e \in index'
    BY <1>0, <2>1, <2>2, IndexKeeps
  <2>5. CASE BuildRead
    BY <2>3, <2>5 DEF BuildRead
  <2> QED BY <2>3, <2>4, <2>5, BatchStep
<1>2. CASE i \notin batch
  <2>1. BuildRead /\ i \in NextRows
    BY <1>2, BatchStep DEF BuildRead
  <2>2. e \in Entries(db, i)
    BY <2>1 DEF BuildRead
  <2> QED BY <2>1, <2>2 DEF BuildRead
<1> QED BY <1>1, <1>2

LEMMA NextIndexedIsPresent == IInv /\ [Next]_vars => IndexedIsPresent'
<1> SUFFICES ASSUME IInv, [Next]_vars, ~twice',
                    NEW i \in DOMAIN db'.stats, i \notin touched',
                    db'.stats[i].indexed = 1,
                    NEW e \in Entries(db', i)
             PROVE  e \in index'
  BY DEF IndexedIsPresent
<1>0. Types /\ Kept /\ ~twice /\ i \notin touched
  BY StepKept, HistoryGrows DEF IInv
<1>1. i \in DOMAIN db.stats
  BY <1>0 DEF Kept
<1>2. e \in Entries(db, i)
  BY <1>0, <1>1, KeptRanges
<1>3. CASE db.stats[i].indexed = 1
  <2>1. e \in index
    BY <1>0, <1>1, <1>2, <1>3 DEF IInv, IndexedIsPresent
  <2> QED BY <1>0, <1>1, <1>2, <2>1, IndexKeeps
<1>4. CASE db.stats[i].indexed # 1
  <2>1. ASSUME db' = db PROVE FALSE
    BY <1>4, <2>1
  <2>2. ASSUME NEW h \in Hash, NEW c \in Counts, AddImage(h, c) PROVE FALSE
    BY <1>0, <1>1, <1>4, <2>2, AddImageDoes DEF Inserted
  <2>3. ASSUME NEW d \in Deleter, DeleteRows(d) PROVE FALSE
    BY <1>0, <1>1, <1>4, <2>3, DeleteRowsDoes DEF Removed
  <2>4. BuildMark
    BY <2>1, <2>2, <2>3
       DEF Next, vars, DeleteStep, BuildBegin, BuildRead, BuildReadEnd, BuildFlush,
           BuildCommit, BuildFails, DeleteBegin, DeletePurge, DeleteFails, Crash
  <2>5. i \in batch
    BY <1>0, <1>1, <1>4, <2>4, BuildMarkDoes DEF Marked
  <2>6. il = {} /\ index' = index
    BY <2>4 DEF IInv, Buffered, BuildMark
  <2> QED BY <1>0, <1>1, <1>2, <2>5, <2>6 DEF IInv, BatchIsPresent
<1> QED BY <1>3, <1>4

LEMMA NextBatchIsRead == IInv /\ [Next]_vars => BatchIsRead'
<1> SUFFICES ASSUME IInv, [Next]_vars, pc' \in {"read", "flush", "last flush"},
                    NEW i \in batch', i \in DOMAIN db'.stats,
                    NEW e \in Entries(db', i)
             PROVE  e \in il'
  BY DEF BatchIsRead
<1>0. Types /\ Kept
  BY StepKept DEF IInv
<1>1. CASE i \in batch
  <2>1. i \in DOMAIN db.stats
    BY <1>0, <1>1, KnownIsOld DEF Types, TypeOK
  <2>2. e \in Entries(db, i)
    BY <1>0, <2>1, KeptRanges
  <2>3. pc \in {"read", "flush", "last flush"} => e \in il
    BY <1>1, <2>1, <2>2 DEF IInv, BatchIsRead
  <2>4. CASE BuildBegin \/ BuildRead \/ BuildReadEnd \/ BuildFlush \/ BuildMark
             \/ BuildCommit \/ BuildFails \/ Crash
    BY <1>1, <2>3, <2>4
       DEF BuildBegin, BuildRead, BuildReadEnd, BuildFlush, BuildMark,
           BuildCommit, BuildFails, Crash, IInv, Buffered
  <2>5. CASE UNCHANGED buildVars
    BY <2>3, <2>5 DEF buildVars
  <2> QED BY <2>4, <2>5
          DEF Next, vars, AddImage, DeleteBegin, DeleteStep, DeletePurge,
              DeleteRows, DeleteFails
<1>2. CASE i \notin batch
  <2>1. BuildRead /\ i \in NextRows
    BY <1>2, BatchStep DEF BuildRead
  <2> QED BY <2>1 DEF BuildRead
<1> QED BY <1>1, <1>2

-----------------------------------------------------------------------------
(* The rows in the order of their ids.  B is a prefix of U if it has, with *)
(* a row, every row before it.                                             *)

Prefix(B, U) == B \subseteq U /\ \A i \in B, j \in U : j < i => j \in B
UpTo(U, i) == {j \in U : j <= i}

LEMMA UpToFinite ==
    ASSUME NEW U \in SUBSET Nat, IsFiniteSet(U), NEW B \in SUBSET U, NEW i
    PROVE  /\ IsFiniteSet(UpTo(U, i)) /\ Cardinality(UpTo(U, i)) \in Nat
           /\ IsFiniteSet(B) /\ Cardinality(B) \in Nat
<1>1. UpTo(U, i) \subseteq U
  BY DEF UpTo
<1> QED BY <1>1, FS_Subset, FS_CardinalityType

\* Later rows have larger numbers.
LEMMA UpToGrows ==
    ASSUME NEW U \in SUBSET Nat, IsFiniteSet(U), NEW i \in U, NEW j \in U, i <= j
    PROVE  Cardinality(UpTo(U, i)) <= Cardinality(UpTo(U, j))
<1>1. ASSUME NEW k \in UpTo(U, i) PROVE k \in UpTo(U, j)
  <2>1. k \in Nat /\ i \in Nat /\ j \in Nat /\ k \in U /\ k <= i
    BY DEF UpTo
  <2> QED BY <2>1 DEF UpTo
<1>2. IsFiniteSet(UpTo(U, j))
  BY UpToFinite
<1> QED BY <1>1, <1>2, FS_Subset

\* The rows of a prefix are those whose number is not above its size.
LEMMA PrefixByNumber ==
    ASSUME NEW U \in SUBSET Nat, IsFiniteSet(U), NEW B, Prefix(B, U), NEW i \in U
    PROVE  i \in B <=> Cardinality(UpTo(U, i)) <= Cardinality(B)
<1>0. /\ IsFiniteSet(UpTo(U, i)) /\ Cardinality(UpTo(U, i)) \in Nat
      /\ IsFiniteSet(B) /\ Cardinality(B) \in Nat /\ B \subseteq U
  BY UpToFinite DEF Prefix
<1>1. ASSUME i \in B
      PROVE  Cardinality(UpTo(U, i)) <= Cardinality(B)
  <2>1. ASSUME NEW j \in UpTo(U, i) PROVE j \in B
    <3>1. j \in Nat /\ i \in Nat /\ j \in U /\ j <= i
      BY DEF UpTo
    <3>2. j = i \/ j < i
      BY <3>1
    <3> QED BY <1>1, <3>1, <3>2 DEF Prefix
  <2> QED BY <1>0, <2>1, FS_Subset
<1>2. ASSUME i \notin B
      PROVE  Cardinality(B) < Cardinality(UpTo(U, i))
  <2>1. B \cup {i} \subseteq UpTo(U, i)
    BY <1>0, <1>2 DEF UpTo, Prefix
  <2>2. Cardinality(B \cup {i}) = Cardinality(B) + 1
    BY <1>0, <1>2, FS_AddElement
  <2>3. Cardinality(B \cup {i}) <= Cardinality(UpTo(U, i))
    BY <1>0, <2>1, FS_Subset
  <2> QED BY <1>0, <2>2, <2>3
<1> QED BY <1>0, <1>1, <1>2

\* The first row that a prefix does not have comes right after it.
LEMMA RowAfterPrefix ==
    ASSUME NEW U \in SUBSET Nat, IsFiniteSet(U), NEW B, Prefix(B, U), B # U
    PROVE  \E i \in U \ B : Cardinality(UpTo(U, i)) = Cardinality(B) + 1
<1>1. IsFiniteSet(B) /\ Cardinality(B) \in Nat /\ B \subseteq U
  BY UpToFinite DEF Prefix
<1>2. PICK i \in U \ B : \A j \in U \ B : i <= j
  <2>1. U \ B # {} /\ U \ B \subseteq Nat
    BY <1>1
  <2> QED BY <2>1, LeastElement
<1>3. UpTo(U, i) = B \cup {i}
  <2>1. ASSUME NEW j \in U, j <= i, j # i PROVE j \in B
    BY <1>2, <2>1
  <2>2. ASSUME NEW j \in B PROVE j <= i
    BY <1>1, <1>2 DEF Prefix
  <2> QED BY <1>1, <1>2, <2>1, <2>2 DEF UpTo
<1>4. Cardinality(B \cup {i}) = Cardinality(B) + 1
  BY <1>1, <1>2, FS_AddElement
<1> QED BY <1>2, <1>3, <1>4

LEMMA UnindexedFinite ==
    ASSUME Types
    PROVE  /\ Unindexed(db) \subseteq Nat /\ IsFiniteSet(Unindexed(db))
           /\ Unindexed(db) \subseteq 1..db.lastId
<1>1. Unindexed(db) \subseteq 1..db.lastId /\ db.lastId \in Nat
  BY NextRowsWait DEF Types, TypeOK, Sound, Shaped
<1>2. IsFiniteSet(1..db.lastId)
  BY <1>1, FS_Interval
<1> QED BY <1>1, <1>2, FS_Subset

\* Reading on with OFFSET = the size of the batch extends a prefix to a prefix,
\* and comes to its end only when the prefix is everything.
LEMMA ReadingExtends ==
    ASSUME Types, Prefix(batch, Unindexed(db))
    PROVE  /\ Prefix(batch \cup NextRows, Unindexed(db))
           /\ NextRows = {} => batch = Unindexed(db)
<1> DEFINE U == Unindexed(db)
<1>1. U \subseteq Nat /\ IsFiniteSet(U)
  BY UnindexedFinite
<1>2. NextRows = {i \in U : /\ Cardinality(batch) < Cardinality(UpTo(U, i))
                            /\ Cardinality(UpTo(U, i)) <= Cardinality(batch) + Chunk}
  BY DEF NextRows, RowNumber, UpTo
<1>3. Cardinality(batch) \in Nat /\ batch \subseteq U
  BY <1>1, UpToFinite DEF Prefix
<1> HIDE DEF U
<1>4. ASSUME NEW i \in batch \cup NextRows, NEW j \in U, j < i
      PROVE  j \in batch \cup NextRows
  <2>1. i \in U
    BY <1>2, <1>3
  <2>2. CASE i \in batch
    BY <1>4, <2>2 DEF Prefix, U
  <2>3. CASE i \in NextRows
    <3>1. Cardinality(UpTo(U, j)) <= Cardinality(UpTo(U, i))
      BY <1>1, <1>4, <2>1, UpToGrows
    <3>2. Cardinality(UpTo(U, j)) \in Nat /\ Cardinality(UpTo(U, i)) \in Nat
      BY <1>1, UpToFinite
    <3>3. j \in batch <=> Cardinality(UpTo(U, j)) <= Cardinality(batch)
      BY <1>1, PrefixByNumber DEF U
    <3>4. Cardinality(UpTo(U, i)) <= Cardinality(batch) + Chunk
      BY <1>2, <2>3
    <3>5. Cardinality(UpTo(U, j)) <= Cardinality(batch) + Chunk
      BY <1>3, <3>1, <3>2, <3>4, BuildAssumption
    <3> QED BY <1>2, <1>3, <3>2, <3>3, <3>5
  <2> QED BY <1>4, <2>2, <2>3
<1>5. ASSUME NextRows = {}, batch # U
      PROVE  FALSE
  <2>1. PICK i \in U \ batch : Cardinality(UpTo(U, i)) = Cardinality(batch) + 1
    BY <1>1, <1>5, RowAfterPrefix DEF U
  <2>2. i \in NextRows
    BY <1>2, <1>3, <2>1, BuildAssumption
  <2> QED BY <1>5, <2>2
<1>6. batch \cup NextRows \subseteq U
  BY <1>2, <1>3
<1> QED BY <1>4, <1>5, <1>6 DEF Prefix, U

\* What the steps do to the rows that wait.
LEMMA AddImageWaits ==
    ASSUME Types, NEW h \in Hash, NEW c \in Counts, AddImage(h, c)
    PROVE  Unindexed(db') = Unindexed(db) \cup {db.lastId + 1}
<1>1. Inserted(db', db, h) /\ db.blob \subseteq DOMAIN db.stats
  BY AddImageDoes DEF Types, Sound, Shaped
<1> QED BY <1>1 DEF Inserted, Unindexed

LEMMA BuildMarkIndexes ==
    ASSUME Types, BuildMark
    PROVE  Unindexed(db') = Unindexed(db) \ batch /\ db'.blob = db.blob
<1>1. Marked(db', db, batch) /\ db.blob \subseteq DOMAIN db.stats
  BY BuildMarkDoes DEF Types, Sound, Shaped
<1> QED BY <1>1 DEF Marked, Unindexed

\* A deletion that takes rows from under a build shifts the others.
LEMMA RemovalShifts ==
    ASSUME Types, NEW d \in Deleter, DeleteRows(d)
    PROVE  \/ UNCHANGED <<db, due>>
           \/ /\ Removed(db', db, del[d].id) /\ due' = due \ {del[d].id}
              /\ pc # "idle" => shifted'
<1>1. CASE del[d].id \in DOMAIN db.image
  <2>1. db' = Delete(db, del[d].id)
    BY <1>1 DEF DeleteRows
  <2>2. Removed(db', db, del[d].id)
    BY <2>1, RemoveSound DEF Types
  <2>3. due' = due \ {del[d].id}
    BY <1>1 DEF DeleteRows
  <2>4. shifted' = (pc # "idle")
    BY <1>1, Zenon DEF DeleteRows
  <2> QED BY <2>2, <2>3, <2>4, Zenon
<1>2. CASE del[d].id \notin DOMAIN db.image
  BY <1>2 DEF DeleteRows
<1> QED BY <1>1, <1>2

\* While a build runs, shifted is not taken back.
LEMMA ShiftedStays ==
    ASSUME Types, [Next]_vars, ~shifted', pc # "idle"
    PROVE  ~shifted
<1>1. ASSUME NEW d \in Deleter, DeleteRows(d) PROVE ~shifted
  <2>1. CASE del[d].id \in DOMAIN db.image
    <3>1. shifted' = (pc # "idle")
      BY <1>1, <2>1, Zenon DEF DeleteRows
    <3> QED BY <3>1, Zenon
  <2>2. CASE del[d].id \notin DOMAIN db.image
    <3>1. shifted' = shifted
      BY <1>1, <2>2 DEF DeleteRows
    <3> QED BY <3>1, Zenon
  <2> QED BY <2>1, <2>2
<1>2. ASSUME shifted' = shifted PROVE ~shifted
  BY <1>2, Zenon
<1>3. \/ shifted' = shifted
      \/ \E d \in Deleter : DeleteRows(d)
  BY DEF Next, vars, histVars, AddImage, BuildBegin, BuildRead, BuildReadEnd,
         BuildFlush, BuildMark, BuildCommit, BuildFails, DeleteBegin, DeleteStep,
         DeletePurge, DeleteFails, Crash
<1> QED BY <1>1, <1>2, <1>3

LEMMA NextBatchIsPrefix == IInv /\ [Next]_vars => BatchIsPrefix'
<1> SUFFICES ASSUME IInv, [Next]_vars, pc' # "idle", ~shifted'
             PROVE  Prefix(batch', Unindexed(db'))
  BY DEF BatchIsPrefix, Prefix
<1>0. Types
  BY DEF IInv
<1>1. CASE batch' = {}
  BY <1>1 DEF Prefix
<1>2. CASE pc = "idle"
  <2>1. batch = {}
    BY <1>2 DEF IInv, Buffered
  <2> QED BY <1>1, <1>2, <2>1, BatchStep DEF BuildRead
<1>3. CASE pc # "idle"
  <2>0. Prefix(batch, Unindexed(db))
    BY <1>0, <1>3, ShiftedStays DEF IInv, BatchIsPrefix, Prefix
  <2>1. ASSUME NEW h \in Hash, NEW c \in Counts, AddImage(h, c)
        PROVE  Prefix(batch', Unindexed(db'))
    <3>1. Unindexed(db') = Unindexed(db) \cup {db.lastId + 1} /\ batch' = batch
      BY <1>0, <2>1, AddImageWaits DEF AddImage, buildVars
    <3>2. batch \subseteq 1..db.lastId /\ db.lastId \in Nat
      BY <1>0 DEF Types, TypeOK, Sound, Shaped
    <3>3. \A i \in batch : ~(db.lastId + 1 < i)
      BY <3>2
    <3> QED BY <2>0, <3>1, <3>3 DEF Prefix
  <2>2. CASE BuildRead
    BY <1>0, <2>0, <2>2, ReadingExtends DEF BuildRead
  <2>3. CASE BuildMark \/ BuildCommit \/ BuildFails \/ Crash
    BY <1>1, <2>3 DEF BuildMark, BuildCommit, BuildFails, Crash
  <2>4. ASSUME db' = db, batch' = batch
        PROVE  Prefix(batch', Unindexed(db'))
    BY <2>0, <2>4
  <2>5. ASSUME NEW d \in Deleter, DeleteRows(d)
        PROVE  Prefix(batch', Unindexed(db'))
    BY <1>0, <1>3, <2>4, <2>5, RemovalShifts DEF DeleteRows, buildVars
  <2> QED BY <1>3, <2>1, <2>2, <2>3, <2>4, <2>5
          DEF Next, vars, buildVars, BuildBegin, BuildReadEnd, BuildFlush,
              DeleteBegin, DeleteStep, DeletePurge, DeleteFails
<1> QED BY <1>2, <1>3

-----------------------------------------------------------------------------
(* None of the images a build began with is skipped.                       *)

LEMMA DueHasRows ==
    ASSUME IInv, NEW i \in due
    PROVE  /\ i \in db.blob /\ i \in DOMAIN db.stats /\ db.stats[i].count > 0
           /\ i \in 1..db.lastId /\ i # db.lastId + 1
<1>1. i \in db.blob /\ i \in DOMAIN db.stats /\ db.stats[i].count > 0
  BY DEF IInv, DueIsAhead, Types, Sound, Shaped
<1>2. i \in 1..db.lastId /\ db.lastId \in Nat
  BY DEF IInv, Types, TypeOK, Sound, Shaped
<1> QED BY <1>1, <1>2

LEMMA NextDueHasRows ==
    ASSUME IInv, [Next]_vars, NEW i \in due'
    PROVE  i \in db'.blob /\ db'.stats[i].count > 0
<1>0. Types /\ Kept /\ Sound(db) /\ Sound(db')
  BY StepKept DEF IInv, Kept, Types
<1>1. \A j \in db.blob \cap db'.blob : db'.stats[j].count = db.stats[j].count
  BY <1>0, KeptRanges DEF Sound, Shaped
<1>2. CASE i \in due
  <2>1. i \in db.blob /\ db.stats[i].count > 0
    BY <1>2, DueHasRows
  <2>2. i \in db'.blob
    <3>1. ASSUME NEW h \in Hash, NEW c \in Counts, AddImage(h, c) PROVE i \in db'.blob
      BY <1>0, <2>1, <3>1, AddImageDoes DEF Inserted
    <3>2. ASSUME NEW d \in Deleter, DeleteRows(d) PROVE i \in db'.blob
      BY <1>0, <2>1, <3>2, RemovalShifts DEF Removed
    <3>3. CASE BuildMark
      BY <1>0, <2>1, <3>3, BuildMarkIndexes
    <3>4. CASE db' = db
      BY <2>1, <3>4
    <3> QED BY <3>1, <3>2, <3>3, <3>4
            DEF Next, vars, BuildBegin, BuildRead, BuildReadEnd, BuildFlush,
                BuildCommit, BuildFails, DeleteBegin, DeleteStep, DeletePurge,
                DeleteFails, Crash
  <2> QED BY <1>1, <2>1, <2>2
<1>3. CASE i \notin due
  <2>1. ASSUME NEW d \in Deleter, DeleteStep(d) PROVE FALSE
    BY <1>3, <2>1 DEF DeleteStep, DeletePurge, DeleteRows, DeleteFails, histVars
  <2>2. BuildBegin
    BY <1>3, <2>1
       DEF Next, vars, histVars, AddImage, BuildRead, BuildReadEnd, BuildFlush,
           BuildMark, BuildCommit, BuildFails, DeleteBegin, Crash
  <2> QED BY <2>2 DEF BuildBegin, Unindexed
<1> QED BY <1>2, <1>3

\* A build has the images it began with in its batch when it has read the last
\* row, and has marked them when it commits.
LEMMA NextDueIsAhead == IInv /\ [Next]_vars => DueIsAhead'
<1> SUFFICES ASSUME IInv, [Next]_vars, ~shifted', NEW i \in due',
                    pc' \in {"last flush", "last mark", "commit"},
                    i \in Unindexed(db')
             PROVE  pc' # "commit" /\ i \in batch'
  BY NextDueHasRows DEF DueIsAhead
<1>0. Types
  BY DEF IInv
<1>1. ASSUME db' = db, due' = due, batch' = batch, pc' = pc
      PROVE  pc' # "commit" /\ i \in batch'
  <2>1. ~shifted
    BY <1>0, <1>1, ShiftedStays
  <2> QED BY <1>1, <2>1 DEF IInv, DueIsAhead
<1>2. ASSUME NEW h \in Hash, NEW c \in Counts, AddImage(h, c)
      PROVE  pc' # "commit" /\ i \in batch'
  <2>1. ~shifted /\ due' = due /\ batch' = batch /\ pc' = pc
    BY <1>0, <1>2, ShiftedStays DEF AddImage, buildVars, histVars
  <2>2. i \in Unindexed(db)
    BY <1>0, <1>2, <2>1, AddImageWaits, DueHasRows
  <2> QED BY <2>1, <2>2 DEF IInv, DueIsAhead
<1>3. ASSUME NEW d \in Deleter, DeleteRows(d)
      PROVE  pc' # "commit" /\ i \in batch'
  <2>1. pc' = pc /\ batch' = batch
    BY <1>3 DEF DeleteRows, buildVars
  <2>2. UNCHANGED <<db, due>>
    BY <1>0, <1>3, <2>1, RemovalShifts
  <2> QED BY <1>1, <2>1, <2>2
<1>4. CASE BuildReadEnd
  <2>1. /\ pc = "read" /\ NextRows = {} /\ db' = db /\ due' = due /\ batch' = batch
        /\ pc' = IF il = {} THEN "commit" ELSE "last flush"
    BY <1>4 DEF BuildReadEnd, histVars
  <2>2. Prefix(batch, Unindexed(db))
    BY <1>0, <2>1, ShiftedStays DEF IInv, BatchIsPrefix, Prefix
  <2>3. i \in batch
    BY <1>0, <2>1, <2>2, ReadingExtends
  <2>4. i \in DOMAIN db.stats /\ Entries(db, i) # {}
    BY <1>0, <2>1, DueHasRows, SomeEntry DEF Types
  <2>5. Entries(db, i) \subseteq il
    BY <2>1, <2>3, <2>4 DEF IInv, BatchIsRead
  <2> QED BY <2>1, <2>3, <2>4, <2>5
<1>5. CASE BuildFlush
  <2>1. /\ pc = "last flush" /\ pc' = "last mark"
        /\ db' = db /\ due' = due /\ batch' = batch
    BY <1>5 DEF BuildFlush, histVars
  <2>2. ~shifted
    BY <1>0, <2>1, ShiftedStays
  <2> QED BY <2>1, <2>2 DEF IInv, DueIsAhead
<1>6. CASE BuildMark
  <2>1. pc = "last mark" /\ due' = due
    BY <1>6 DEF BuildMark, histVars
  <2>2. ~shifted
    BY <1>0, <2>1, ShiftedStays
  <2>3. i \in Unindexed(db) /\ i \notin batch
    BY <1>0, <1>6, BuildMarkIndexes
  <2> QED BY <2>1, <2>2, <2>3 DEF IInv, DueIsAhead
<1>7. CASE BuildBegin \/ BuildRead \/ BuildCommit \/ BuildFails \/ Crash
  BY <1>7 DEF BuildBegin, BuildRead, BuildCommit, BuildFails, Crash
<1>8. ASSUME NEW d \in Deleter, DeletePurge(d) \/ DeleteFails(d)
      PROVE  pc' # "commit" /\ i \in batch'
  BY <1>1, <1>8 DEF DeletePurge, DeleteFails, buildVars, histVars
<1>9. CASE UNCHANGED vars
  BY <1>1, <1>9 DEF vars, buildVars, histVars
<1>10. ASSUME NEW d \in Deleter, NEW j \in DOMAIN db.image, DeleteBegin(d, j)
       PROVE  pc' # "commit" /\ i \in batch'
  BY <1>1, <1>10 DEF DeleteBegin, buildVars
<1> QED BY <1>2, <1>3, <1>4, <1>5, <1>6, <1>7, <1>8, <1>9, <1>10
        DEF Next, DeleteStep

-----------------------------------------------------------------------------
(* The theorems.                                                           *)

LEMMA InitIInv == Init => IInv
<1> SUFFICES ASSUME Init PROVE IInv
  OBVIOUS
<1>1. Types
  BY InitTypes
<1>2. \A d \in Deleter : del[d].pc = "idle"
  BY DEF Init, AtRest
<1>3. DOMAIN db.stats = {}
  BY DEF Init, EmptyDb
<1> QED BY <1>1, <1>2, <1>3
        DEF Init, IInv, Deletions, Fits, Apart, Owned, Buffered, DeletionIsClean,
            IndexedIsPresent, BatchIsPresent, BatchIsRead, BatchIsPrefix, DueIsAhead

\* The inductive invariant holds in every reachable state.
THEOREM Invariance == Spec => []IInv
<1>1. IInv /\ [Next]_vars => IInv'
  <2> SUFFICES ASSUME IInv, [Next]_vars PROVE IInv'
    OBVIOUS
  <2>1. Types' /\ Deletions' /\ Apart' /\ Owned' /\ Buffered'
    BY NextTypes, NextDeletions, NextApart, NextOwned, NextBuffered DEF IInv
  <2>2. DeletionIsClean' /\ IndexedIsPresent' /\ BatchIsPresent' /\ BatchIsRead'
    BY NextDeletionIsClean, NextIndexedIsPresent, NextBatchIsPresent, NextBatchIsRead
  <2>3. BatchIsPrefix' /\ DueIsAhead'
    BY NextBatchIsPrefix, NextDueIsAhead
  <2> QED BY <2>1, <2>2, <2>3 DEF IInv
<1> QED BY <1>1, InitIInv, PTL DEF Spec

\* Tables and entries only ever know images whose ids were given out.
THEOREM TypeCorrect == Spec => []TypeOK
<1>1. IInv => TypeOK
  BY DEF IInv, Types
<1> QED BY <1>1, Invariance, PTL

\* What the catalog calls indexed is in the index, at every instant.
THEOREM AlwaysIndexedIsPresent == Spec => []IndexedIsPresent
<1>1. IInv => IndexedIsPresent
  BY DEF IInv
<1> QED BY <1>1, Invariance, PTL

\* A deletion that overlaps no build leaves nothing behind.
THEOREM AlwaysDeletionIsClean == Spec => []DeletionIsClean
<1>1. IInv => DeletionIsClean
  BY DEF IInv
<1> QED BY <1>1, Invariance, PTL

\* A vector in the index is never taken for one of another image, unless it is
\* of an image whose deletion overlapped a build.
THEOREM NeverRemappedIfApart == Spec => []NeverRemappedApart
<1>1. IInv => NeverRemappedApart
  <2> SUFFICES ASSUME IInv, NEW e \in index, e.img \notin mixed,
                      NEW j \in Owners(db, e.vid)
               PROVE  j = e.img
    BY DEF NeverRemappedApart
  <2>1. Sound(db) /\ e.img \in DOMAIN db.stats /\ e.vid \in Nat
    BY EntryIsTyped DEF IInv, Types, TypeOK, DeletionIsClean
  <2>2. e.vid \in VectorIds(db, e.img)
    BY <2>1 DEF IInv, Owned
  <2>3. e.img \in Owners(db, e.vid)
    BY <2>1, <2>2, RangeIsOwned
  <2> QED BY <2>1, <2>3, OneOwner
<1> QED BY <1>1, Invariance, PTL

\* A build that gets to its end has indexed all that waited when it began, if
\* nothing was deleted meanwhile.
THEOREM AlwaysBuildTakesAll == Spec => []BuildTakesAll
<1>1. IInv => BuildTakesAll
  <2> SUFFICES ASSUME IInv, pc = "commit", ~shifted, NEW i \in due
               PROVE  db.stats[i].indexed = 1
    BY DEF BuildTakesAll
  <2>1. i \in db.blob /\ i \in DOMAIN db.stats
    BY DueHasRows
  <2>2. db.stats[i].indexed \in 0..1
    BY <2>1 DEF IInv, Types, Sound, Shaped, Row
  <2>3. i \notin Unindexed(db)
    BY DEF IInv, DueIsAhead
  <2> QED BY <2>1, <2>2, <2>3 DEF Unindexed
<1> QED BY <1>1, Invariance, PTL
=============================================================================
