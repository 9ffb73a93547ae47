# Verification of imseek

imseek finds images by their ORB features.  It keeps a catalog of images in
SQLite, an index of their binary descriptors on disk, and serves both over HTTP
and a command line.  This directory holds TLA+ models of the parts that keep
state, the TLC runs that check them on small instances, and TLAPS proofs about
them.  `PROJECT.json` says which definition stands for which lines of `src/`.

## The system

| part | state | operations | what makes it hard |
|---|---|---|---|
| catalog (`internal/db`) | tables image, vector_stats, vector | insert an image with its block of vector ids, delete it, mark it indexed, drop blobs, look a vector id up | ids continue from `MAX(total)`, so they are given out again; a batch keeps a transaction open |
| facade (`internal/imdb/imdb.go`) | cached vector bounds | AddImage, AddImageRaw, AddImageBatch, DeleteImage, Search | the cache is read outside its lock; catalog and index share no transaction |
| build loop (`internal/imdb/build.go`) | image ids and entries of the batch in memory | BuildIndex, ClearCache, ExportVectors | rows are paged by OFFSET while others delete; flush and mark are two steps |
| local index (`internal/index/local`) | invlists.bin, shards invlists.N, temporary files | build, flush, commit, merge, compact, delete, open | several files, no lock, crashes between two of them |
| IVF search (`internal/ivf`, `imdb.processNeighbors`) | open files, heaps, votes | probe, k nearest neighbours, ranking | a worker pool shares the heaps; a reload closes the files under it |
| server (`internal/server`) | building, pendingRebuild, timer, current searcher | POST and DELETE of images, search, POST of builds | timers, requests and builds race; the old searcher is closed under running searches |
| HNSW graph (`internal/hnsw`) | layers of links | Add, Search, Save, Load | link caps and pruning, heaps, ties |
| k-modes (`internal/kmodes`) | centroids | Cluster, Cluster2Level | arithmetic of the two-level split, a cost measured before the centroids move |
| pgvector store (`internal/index/pgvector`) | PostgreSQL tables and index, bulk flag, settings of connections | online add, delete, search, bulk import | index creation races bulk imports; errors inside a transaction; a setting survives a query |
| milvus backend | buffer of a builder | train, add, flush, search | an external service |
| add pipeline (`internal/cli/add.go`) | channels, counters | walk, extract, insert in batches | a failed batch is repeated item by item; a commit may succeed and report an error |
| ORB (`internal/orb`), scoring, config | none | pure functions | numeric code |

An upload goes from the handler to `AddImage`, which writes the catalog and asks
the scheduler for a build.  After two seconds without another upload the build
goroutine runs `BuildIndex`: it reads unindexed rows, hands vectors to the
builder, flushes shards, marks the rows and commits; the server then reloads the
cached bounds, opens a new searcher and swaps it in, and compacts the index when
there are many shards.  A deletion reads the vector-id range of the image,
rewrites every index file without it, deletes the rows and reloads.  A search
asks the current searcher for vector ids and turns them into images by the
bounds.  Before any build, `train` exports a sample of the descriptors, clusters
it, puts the centroids into an HNSW graph and saves that as the quantizer, which
builds and searches then ask for inverted lists.  `add` imports a directory
without the server: offline into the catalog, online into PostgreSQL, which then
holds rows and index both.

## The modules

**CatalogTables** is the content of the three tables as a value: `Insert`,
`Delete`, `MarkIndexed`, `DropBlobs` are the statements that change it, `Owners`
is the query of `GetImageIDByVectorID`, `BoundsOf` that of
`GetAllVectorBounds`, and `CachedOwners` the binary search of `findImageID` over
the bounds.

**ImageCatalog** is the catalog with the writers of `imdb` around it.  `db` is
the last commit, `tx` what the open transaction of `AddImageBatch` sees (SQLite
has one writer; deletions and marks wait for it, readers see `db`), `bounds` the
cache and `loading` what each goroutine inside `loadVectorBounds` has read and
not yet stored.  Every single-transaction call is one action, a batch is
`BatchBegin`, `BatchInsert`, `BatchCommit` or `BatchRollback`.

**BuildScheduler** is the part of the server that decides when builds run.  What
happens under `buildMu` is one action.  The timer that `buildTimer` points at is
`timer`; armed timers it has lost are counted by `stray`, callbacks that have
fired and wait for the lock by `firing`, goroutines on their way into
`startBuild` by `starting`.  A build reads, flushes, commits, reloads and compacts
in phases.  `mainFile` says whether `invlists.bin` exists, which a first build
leaves to its commit; without it `OpenIndex` fails, a reload keeps the searcher
there is, and a server that starts serves the empty one (`served`).  `forgotten`
is a history variable: the images whose request for a build died with a failed
build, a shutdown or a restart, which the code does not retry.  `stranded` is
another: images that were marked indexed when the process ended before any build
had committed.  Deletions are not part of this module: its builds read every waiting row,
and what a deletion does to that is the subject of ImageIndex.

**VectorSet** is the promise of the interfaces `Backend` and `Builder`: a set of
entries that grows by whole flushes and loses, part after part, what
`DeleteVectors` takes out; what a call has reported removed (`gone`) never comes
back, while a call that returns an error promises nothing.

**LocalIndex** is the directory of the local index.  File 0 is `invlists.bin`,
file k the shard `invlists.(k-1)`; a file's content is the set of its entries.
Building (`NewBuilder`, `Add`, `Flush`, the three ways of `Commit`), merging
(`MergeLoad` file by file, `MergeRename`, `MergeRemove` shard by shard) and
deleting (`DeleteLoad`, `DeleteSave`, `DeleteRename` for each file) are steps of
their own, each may fail, and the process may end between any two.  What a merge
or a builder has in memory goes when it returns.  Renames are
taken to be atomic; loss of data the operating system has acknowledged is not
modelled.  With `Overlap` a deletion may run beside a build or another deletion,
as the code permits.  `Stacked` is what is in the files a searcher stacks, the main
file and the shards before the first gap; `Found` is what a searcher opened now
finds of it, which is nothing without a main file, as `NewSearcher` then returns an
error.  The module maps to `VectorSet` by `contents <- Stacked`, what is on disk
whether or not a searcher can be opened on it yet, and `gone <- purged`.

**ImageIndex** composes catalog and index: `AddImage`, the loop of `BuildIndex`
with its chunks, batches and OFFSET, and `IMDB.DeleteImage` with its three
calls, interleaved call by call, with errors and crashes between them.  The
index is the set of `VectorSet`; an entry carries as a ghost the image it came
from.  At most one build runs, which is `OneBuild` of BuildScheduler.

**SearcherSwap** is the other half of the server: which searcher it serves.  A
searcher is a snapshot (`content`) of the files, opened one by one (`OpenMain`,
`OpenShard`, `OpenEnd`); `Swap` puts it into `handler.idx` (`current`) and leaves
the old one to a goroutine (`closing`, `Close`).  The build goroutine reloads
after a build and after a compaction, every deletion after its purge; each is a
`Reloader` with its own progress in `load`.  A compaction is taken apart into
reading, renaming and removing shards, as a reload may run beside it; a build's
shard and a deletion's rewrite are one step each, and no deletion falls into a
merge, since LocalIndex and ImageIndex are about that.  `raced` remembers the images
whose files were written, merged or purged while another reload was half way.

**Hamming** and **TopK** are operators: a descriptor is the set of its bits, a
heap a sequence.  `SiftDown`, `BuildHeap` and `Push` move items where the code
moves them, since which of two items at equal distance survives decides what a
search returns.

**IvfSearch** is one search.  Workers take lists in any order (the code ranges
over a map), read a list file by file, decode it, and push the nearest entries
into the heap of each query that asked for the list, one heap at a time; a heap's
lock is the atomicity of `Scan`.  A file is `"open"`, has `"no decoder"` (Close
has set it to nil but not closed the file), or is `"closed"`; what a worker does
on each is read off `ondisk.go`.  `DecodeClosed` lets a worker that runs into a
closing decoder get an error or panic, as the data race permits.  `Group` and
`Rank` are the two halves of `processNeighbors`, which ask the catalog (`live`)
at two moments; images of equal score come in any order.  The score is the count of
neighbours (`ScoreCount`).  There is at least one worker, as the code starts one
for each list up to the number of threads; without a list a worker of the model leaves.

**KModes** and **Hnsw** are the steps of clustering and of the graph as
operators; **Training** is the process that uses them: export, clustering round
by round (`Iterate`), the second level bucket by bucket, the graph node by node,
`SaveTmp` and `SaveRename`, with a crash anywhere, and then builds and searches
with the file.  Everything but the random numbers is computed as the code computes
it, ties included.  Random numbers are choices: `Seeds` is the set of first
centroids either initialisation can draw, `Level` the levels a node can get.
Lookups and builds are steps of their own only between trainings: they read the
file, which a training touches in `SaveRename` alone.

**PgVector** is the PostgreSQL store as two processes see it, an importer and a
server: the rows, the one ANN index (who made it and from which rows), the bulk
flag of each process, `ensureANN` in its two halves, the attempts of
`EndBulkImport`, and which `ivfflat.probes` each pooled connection has.  A
transaction is one step.  PostgreSQL is modelled from the statements sent to it:
`UNIQUE`, `IF NOT EXISTS`, an error that aborts a transaction, `RESET` that goes
back to the server's default and not to what `AfterConnect` set.  A search is
`SearchDescriptors`, which shares its sample out to workers (`query`), and a
`QueryBatch` of each worker on some connection; `answers` has what each has sent,
with which setting, and whether something failed.  The worker may get no connection
(`AcquireFails`), its `SET` may fail, one of its queries, and the `RESET`; the code
goes on after each.  A connection is one worker's at a time, and nothing but the
settings of connections is shared, so a `QueryBatch` is one step and one search
follows another.  `raised` has the connections whose setting was last changed by
a `RESET`.

**AddPipeline** composes `add` with that store, or with the hashes of the SQLite
catalog: walker, workers, writer, the two bounded channels and their closing
order, batches, the repetition of a failed batch item by item, `EndBulkImport`, a
crash at any step, the early return when no extractor can be made (`Abandon`,
behind which `EndBulkImport` still runs) and another run.  Other processes add and delete images and open
searchers meanwhile.  A failing statement may have committed (`unsure`), is counted
(`failures`) and never assumed away.  `mine`, `passed`, `unsure`, `lost`, `ever`
and `gone` are histories the counters are compared with.  Searches on
pooled connections share nothing with an import, so they are explored apart
(`stage = "searching"`).

## Runs

| run | instance | shows |
|---|---|---|
| catalog | 2 hashes, images of 0, 1 or 2 descriptors, 3 ids, 1 reloader | ranges disjoint, cached lookup = query, stale cache harmless, no gap filled, no id reused |
| scheduler | 2 images, 2 goroutines, 2 explicit requests, 1 failure, 1 restart, fairness | one build at a time, no lost wake-up, every image becomes searchable, the server comes to rest |
| local_index | 2 entries, 3 shards, 1 deleter, no overlap | nothing lost, purges final, index opens, no hidden shard, refinement of VectorSet |
| image_index | 3 hashes, images of 0 or 1 descriptors, 3 ids, 2 deleters, chunks of 1, batches of 2 | index and catalog in step |
| searcher | 2 images, 2 deleters, 2 shards (compacted at 2), 3 searchers open at a time | the served searcher is open and current, old ones are closed |
| local_index_overlap | as local_index, with overlap | violation of `PurgeIsFinal` |
| image_index_remap | as image_index | violation of `NeverRemapped` |
| search | 5 entries in 2 lists and 2 files, 2 queries, 2 workers, k = 3, one image deleted | k nearest whoever scans what, ranking, termination |
| search_closed | as search | violation of `NeverCrashes` |
| training | descriptors of 3 bits, catalogs of 9 and 3, four kinds of training, levels 0 and 1 | cost, split of the second level, links, answers of the graph, stored vectors found |
| training_sample | as training | violation of `EveryImageSampled` |
| import | 4 files (two alike, one unusable), 2 workers, channels of 1, batches of 2, 2 failures, 2 runs, 2 changes by others; 3 searches on 4 connections, 2 failures | counts, no file forgotten, an index at the end, searches as asked, termination |

Bounds.  `MaxId` stops additions after three ids: enough to delete the newest
image and hand its vector ids out again next to an older one.  An image without descriptors is in the instances as
its range is empty and its total ties with its neighbour's.  Two entries can lie
in different shards, in the main file and a stale shard, or be written twice
after a crash; three shards leave one behind a gap after one removal and two
after another.  Two deletions are needed for a deletion of the same image by two
requests.  Batches of two rows read in chunks of one, with three images, give a
full batch, a partial one and an OFFSET inside a batch.  Two shards, with
`Threshold` lowered from 8 to 2, let a reload pass over a shard that a compaction
removes; `Slot` and `MaxShards` only hold back a swap or a build that would need
one more, and three searchers allow one to be served while two are closed.  Two goroutines are
enough for a second build to start, were it allowed.  Five entries of which a query's lists hold more than K = 3 make the heaps drop
some; one list lies in both files, so its parts are joined, and the two queries
share a list, so two workers meet at a heap.  The vectors of three entries take
every combination of three values, ties among them.  Nine descriptors are just
more than the eight from which four lists are trained on two levels (`PerCenter` is 2
for 30), and the second catalog has an image whose descriptors are gone.
`M = 1` and `M0 = 2` let links be pruned, and four nodes are one more than the
small graphs for which `FindsLists` promises exact answers; up to four lists are asked
for, one more than `EfSearch`.  Three bits leave each point with several equally near
centroids.  Batches of two fill up and leave one file for the last flush;
channels of one block walker and workers; two runs let a second import meet what
the first has left; eight descriptors are more than `MaxQueryDescs = 5`, which two
workers do not divide; three searches let a setting be reset, fail to be reset and
be met again, and the pool of four connections leaves two that a search did not use.  `MaxPosts`,
`MaxFailures` and `MaxRestarts` bound requests, errors and restarts;
they occur in guards only.  Symmetry is used over
hashes, entries, images, goroutines and searchers, in safety runs only.

Fairness (scheduler).  Timers fire, the callback and the goroutines get the
lock in the end, a request that has committed its image goes on to
`scheduleBuild`: weak fairness of these actions, which the Go runtime and
`sync.Mutex` provide.  Nothing is assumed of clients, failures or restarts.  The
code retries neither a failed build nor one a restart has cut short, so
`EventuallySearchable` excepts images whose request has died in that way
(`forgotten`), images that a first build had marked when the process ended before its
commit (`stranded`), and those a failing build had marked before it could reload.
Searches and imports are checked to end without any
fairness: none of their steps can be taken over and over, so it is enough that TLC
finds no deadlock short of the end, where alone `Ended` is enabled.

Deadlock is checked except for the scheduler, which may rest for good once no
client adds anything, and the training, which ends when it has been done
`MaxTrainings` times.

## What the code does not promise

Four violation runs are behaviours of the code that its comments exclude.

* *A deletion beside a build or a compaction* (local_index_overlap).
  `DeleteVectors` shares no lock with `Commit` or `Compact`.  A first build has flushed
  a shard; a deletion begins, finds no main file and passes on; the commit renames the
  shard to the main file behind it; the deletion finds no shard, and reports removed
  what is still in the main file.  With the same instance TLC also finds that
  `NothingLost` fails: a deletion that has loaded a shard writes it back over another
  shard that a later build has given the same number.
* *A build beside a deletion* (image_index_remap).  The build writes vectors of
  an image that is gone; the next image is given the same vector ids.
  `NeverRemappedApart` and `DeletionIsClean` say that this is the only way: only
  images whose deletion overlapped a build (`mixed`) are affected.
* *A search on a searcher that is closed* (search_closed).  A reload closes the old
  searcher at once, whoever still reads.  A worker that finds a file closed skips the
  list, and the answer lacks it: `FindsNearest` says that nothing else is lost.  A
  worker that has read a list but not decoded it calls a nil decoder, and the
  process ends.
* *A sample that is not spread* (training_sample).  The stride between descriptors
  is a quotient rounded down: with room for more than half of them it is one, and
  the last images are not sampled at all.

Other behaviours are visible as exceptions in properties that hold:

* *A merge that leaves shards behind* (`torn`).  Shards are removed from the first
  on, errors of the removals are dropped, and shards are counted up to the first
  gap: a crash in between, or a removal that fails, can hide a shard; a later
  deletion misses it and a later build brings it back.  `NothingLost` and
  `OpensAfterBuild` hold nevertheless, as the main file has everything;
  `PurgeIsFinal`, `NoHiddenShards` and the refinement are stated up to such an event.
* *A first build that is cut short* (`stranded`; in LocalIndex `cut` without a main
  file).  It has flushed shards and marked their images indexed, but there is no
  `invlists.bin`, which only its commit makes.  Nothing can be opened on the shards: a
  server started now serves the empty searcher, and it schedules no build, as the
  images count as indexed.  They are found after the next upload or POST of a
  build, which takes the shards in.  `NothingLost` says that until then the entries are in files that
  build will take in, and that a searcher finds all of them once there is a main file;
  `EventuallySearchable` excepts these images.
* *A deletion under a running build* (`shifted`).  It moves the rows under the
  build's OFFSET; a waiting image is passed over and nothing asks for another build.
  `BuildTakesAll` holds when no row is deleted meanwhile.
* *Two reloads at a time* (`raced`).  Nothing orders reloads: one that opened the
  files before a purge may swap in after the deletion's own, and the deleted image
  is served until the next reload.  `PurgeSeenApart` and `BuiltIsServed` say that
  nothing else goes wrong.
* *A cost that is not the cost* (`settled`).  A clustering that stops at its
  iteration limit reports the sum measured before the last move of the centroids.
* *Too few samples.*  Random initialisation with fewer samples than lists makes
  training panic, and `PanicsOnlyShort` says that nothing else does.
* *Training over an index* (`makers`).  Nothing forbids training again when there are
  entries; `StoredIsFound` holds while all entries were made with the quantizer that
  is searched.
* *A connection after a search above the floor* (`late`).  `RESET` does not bring
  back what `AfterConnect` set: later searches on that connection run with the
  server's default, until one above the floor fails to reset it or the pool replaces
  the connection.
* *A search with a failing statement* (`failed`).  Without a connection a worker drops
  its descriptors, a query that fails drops those after it, and behind a `SET` that
  fails the queries run with what the connection has.  All this is only logged: the
  search returns fewer or poorer neighbours and no error.
* *An index during an import.*  A server that opens a searcher builds the index the
  importer has dropped; the import then inserts into it, and `EndBulkImport`
  finds an index and leaves it.  `IndexedAfterImport` names this case.
* *A commit that reports an error* (`unsure`).  Its images are stored and counted as
  skipped, or tried again and counted as skipped.

`IndexedIsPresent` excepts images whose own deletion has begun (a failed or
crashed deletion leaves an image marked indexed without vectors) and histories in
which two requests delete one image at the same time (`twice`).

## Proofs

All theorems hold for every value of the constants, from the named assumptions
of the modules only: counts and bounds are naturals, sizes of chunks, batches and
channels at least one; `NoFile` is not a set of entries; a directory (`File`) is a
sequence of records; an import has finitely many workers, a search any number, both
at least one; the connections of a pool are finitely many, and `"nobody"` is no
process; an index has at least one file, and entries, queries and the bits of a
descriptor are finite sets; catalogs and options of training have their shapes,
vectors looked up are descriptors, and levels are naturals with 0 among them.
Proofs use the module's own actions; nothing is assumed about how they interleave.

**ImageCatalog_proofs.**  None of the properties is inductive as it stands.  The
invariant `IInv` adds that the blocks of vector ids lie in the order of the
image ids (`Ordered`: the heart of the argument, since `Insert` puts a new id
above every other and a new block above every total), that an open transaction
has only added rows with new ids (`Extends`, kept because deletions wait for the
write lock), and that whatever a reloader or the cache holds agrees with the rows
still there (`Agrees`; it survives the reuse of vector ids because image ids are
never reused).  `MaxTotal` is a maximum because a finite bound on the totals is
part of `Good`.  From `IInv` follow `RangesDisjoint`, `FreshCacheAgrees`,
`StaleCacheHarmless` and, as step properties, `DeletedStaysDeleted` and
`GapsStayGaps`.

**Data_proofs.**  What several of the proofs share.  Of the tables: which are sound
(`Sound`), and what `Insert`, `Delete` and `MarkIndexed` do to them.  Of the heap:
`HeapFrom` says that all positions from some one on are in heap order; a sift down
follows a path (`Way`) along which it moves the items up, which rearranges them and
restores the order one position further; so the farthest is at the root, and pushing
every item leaves the `k` nearest (`Nearest`), in whichever order they come
(`KNNNearest`).  And of recursive functions: that there is one whose steps stay within
what each step needs (`StepsExist`, `StepsWithin`).

**ImageIndex_proofs.**  `IndexedIsPresent`, `DeletionIsClean`, `NeverRemappedApart`
and `BuildTakesAll`, for any number of hashes, images and deleting goroutines and
any size of chunks and batches.  Even the types need help: that the image of a deletion
is a row id holds only because one that has begun has looked its image up (`Types`).
A deletion that has purged its vectors knows that none came back only if no build
has run since it began; `mixed` names the others (`Deletions`).  No two deletions
have one image unless `twice` says so (`Apart`).  `Owned` is why vector ids may be
given out again: an entry of an image that is there has one of its own ids, as rows
never change and image ids are never reused; with it `DeletionIsClean`
gives `NeverRemappedApart`.  For `IndexedIsPresent`, what a build is about
to mark is flushed or in the builder (`BatchIsPresent`, `BatchIsRead`).  For
`BuildTakesAll`, the batch is an initial part of the rows still to be indexed
(`BatchIsPrefix`), so that an OFFSET of its size passes over it and nothing else
unless a row was deleted (`shifted`), and none that the build began with is left
out (`DueIsAhead`).

**Server_proofs.**  Both halves of the server; the definitions of BuildScheduler carry
names of their own (`SchedulerNext`, `SchedulerTypeOK`, ...) for that.  For the
scheduler (`AlwaysScheduled`) the invariant joins the type invariant, `OneBuild`,
`BuildingIsRunning`, `NoLostWakeup` and two facts: only a build that reads or
flushes has a batch, and an unindexed image has been added.  Every action is
checked against each part.  For the reloads, `ServedIsOpen` is inductive by itself.  What is served
needs to know what reloads have opened: a reload in the midst of the files has
everything of the files behind it, and one that is through has everything on disk
(`Reading`, `Ready`), but for images that were written or merged while it was under
way, which `raced` remembers; nothing purged is in it but what `raced` remembers
(`Clean`).  That the walk can stop at the first missing shard is `Counted`: no shard
is behind a gap, unless a merge is removing shards, and then the main file has all
they have; which in turn is so because a merge reads all there is and no deletion falls
between its reading and its renaming (`Merges`).  `Swap` then turns `Ready` and `Clean`
into `BuiltIsServed` and `PurgeSeenApart`.  All this holds for any number of images, shards,
searchers and deletions.

**LocalIndex_proofs.**  Types hold in general, the rest under `~Overlap` (with
overlap it is false, see above), for any number of entries, shards and deleting
goroutines.  `Keeping` gives that no entry leaves the files a searcher stacks: deletions exclude everything else
(`Exclusive`), what a deletion writes back is the file as it still is, less what
it drops (`DeletionKeeps`), and the entries to keep reach as far as some shard n
without a gap before it, `Kept(n)`, where n depends on the task
(`MaintenanceKeeps`): the shard before the next one while building, the last one
taken in while a merge loads, none while it removes shards, since by then the
main file holds all that was loaded.  `Tidy` adds, for histories in which no merge
has left shards behind, that every shard on disk is one that counting finds
(`Counted`), that a deletion is done with the files behind it (`Progress`), and
that nothing purged is on disk or in a merge (`Gone`); from it follow
`PurgeIsFinal`, `NoHiddenShards` and `OpensAfterBuild`.  For `NothingLost`
(`FlushedIsNotLost`) it takes both: what is in the files is found when there is a main
file, and at rest after a build that was not cut short there is one, or no file at
all (`NothingWithoutFiles`).  The refinement
(`ImplementsSet`) needs one more fact, that a merge gathers no more and no less
than what is on disk (`Faithful`): then the files a searcher stacks hold all that is
on disk, and each step of files is a step of the set or none.

**AddPipeline_proofs.**  The counters, the files, the index and the searches, for
any directory, number of workers, capacities and batch size, and whatever others do
to the store.  `EndsInOrder` is the order of closing: the writer is gone only when
`jobs` is closed and empty, `jobs` is closed only when all workers are gone, a worker
goes only when `paths` is closed and empty, and there is at least one worker, so by
then everything walked has been taken.  `EachCountedOnce` is a sum over all places a file
can be in, `MineIsStored` relates the counters to the rows (`CountsAreTrue`), `NothingDropped`
says that a file in none of these places is stored or given up (`NoneForgotten`), and
`MadeAtTheEnd` who can have made the index, and from which rows (`IndexedAfterImport`).
`SearchesSend` is about the searches of PgVector: a connection has the floor or more
unless its setting was last changed by a `RESET`, what a worker has answered stays as
it is (`AnswerStays`), and the chunks partition the subsample, because
the workers whose share is not empty are the first ones (`Share`, `Sharing`).

**IvfSearch_proofs.**  With the heap of Data_proofs, the search.  `Held`: at
most one worker has a list, and none a list that is left over or skipped.  `Reading`:
what a worker has read is what the files before hold.  `Merged`: the heap of each query
has the nearest of the entries in the lists done with, because the nearest of two
disjoint sets are the nearest among the nearest of each (`NearestOfBoth`).  From these
follows `FindsNearest`, for any quantizer, files, queries, number of workers and k,
and whichever files a reload closes meanwhile.  It is proved where each entry is
stored at one place (`StoredOnce`), as in the inputs of the run.  That is not always
so in the program: a crash between a flush and the mark of its rows stores entries
twice, and copies then take places of a heap from other entries.  Votes are counted once all
workers are gone (`Counted`), and `Rank` puts the best first (`AnswersBestFirst`).

**Training_proofs.**  All six invariants of Training, for any catalog, options, seeds,
levels and parameters of the graph, in three parts.

*Clusterings.*  `Typed` has the types, which need every operator of KModes to return
what it should (`ExportTypes`, `SeedsTypes`, `RecenteredTypes`, ...).  `Phases` says
that the centroids there are, those of the running clustering and those the parts
left ask for (`Asked`) add up to the lists (`Running`), and that every clustering has
as many vectors as it is asked for centroids, unless it is the only one (`Room`).  The
step into the second level needs the arithmetic of the split: the buckets hold all
vectors (`BucketsIs`), the differences of rounded prefix sums add up, and a share
never exceeds its bucket as there are at least as many vectors as lists (`SharesIs`).
With `Room` only the random initialisation of a single clustering can come short:
`PanicsOnlyShort`.

*Cost.*  `CostIsReal` rests on `CostFalls`.  The sum of distances to the assigned
centroids is the number of pairs of a vector and a bit in which they differ (`Rows`,
`RowsCount`).  For each centroid and bit, the majority leaves no more such vectors
than any other choice (`Outvoted`), so they can be mapped into those of the old
centroid one to one, and all these maps together are one (`RowsFewer`); assigning
anew only lowers the sum further (`TotalGrows`).  Then the sum measured last bounds
that of the centroids kept (`Costs`), and an iteration that brings nothing finds
both equal.

*The graph.*  `Proper` is what every graph is that `Add` makes: in every layer the
links of a node that has it are bounded, distinct, and lead to other nodes that have
it (`Layered`), the entry point has the highest layer, and while the graph is so
small that nothing was dropped (`Small`), each node is linked to all others
(`Meshed`).  A search keeps two heaps that grow and shrink (`PushHeapPushes`,
`PopHeapPops`) and ends with distinct nodes, nearest first, and in a mesh with the
nearest of all (`SearchLayerFinds`); walking down the layers stays among nodes that
have them (`DescendFinds`); selection picks distinct nodes within the bound
(`SelectPicks`), and a link back keeps its node tidy (`LinkBackKeeps`).  So adding keeps
a graph proper, layer by layer (`LayersAdded`, `AddKeeps`).  `Quantizer` carries this
from memory to the file, the builder and the entries: `WellLinked` and `FindsLists`
follow, and `StoredIsFound` since who asks for more lists, up to `EfSearch`, gets the
same in front (`SearchPrefix`).

*Recursion.*  The library's induction theorems cannot be used here, as they take an
operator as their parameter.  That a recursive function or a fold has a property for every
argument is proved by a least counterexample instead (`Least`, from `WFMin` of
WellFoundedInduction): the set of arguments that fail has a least one if it has any, and there
the recursive equation gives a contradiction.

Only model-checked: the liveness properties `EventuallyQuiet` and
`EventuallySearchable` (TLAPS does not reason about fairness), and that searches and
imports end.  Every invariant and action property of a passing run is also proved, and
so is the refinement.  Of PgVector the proofs cover what AddPipeline uses of it, which is
all its actions.

## Plan

Done: the models and runs above, and proofs about the catalog, the scheduler, the
local index, catalog and index together, reloads, import, the searches of the store,
the search with its heaps, clustering and the graph.  Left: searches in flight over
several reloads, by composing IvfSearch with SearcherSwap.  Each is proved by itself;
what the composition adds is which searcher a search holds.

## Not modelled

* Image decoding, ORB extraction, the Wilson score and configuration: pure functions
  without state, numeric in nature.
* Milvus: a thin client of a service whose answers decide every property; in
  PgVector, the HNSW index type and indexes other than the one ANN index, and listing.
* Compression of inverted lists, `ImbalanceFactor` (a reported figure),
  `SimpleNeighborSelect` and `BatchKNN` (no caller outside benchmarks and tests).
* Authentication, JSON, listing, paths stored with an image (`AppendImagePath` has no
  caller but tests).
* Several processes on one data directory: nothing in the code expects them.
