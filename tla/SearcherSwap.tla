---------------------------- MODULE SearcherSwap ----------------------------
(***************************************************************************)
(* Which searcher the server serves (internal/server/server.go).           *)
(*                                                                         *)
(* A searcher is a snapshot: NewSearcher opens the main file of the index  *)
(* and its shards one by one, and what is written or deleted afterwards    *)
(* it does not see.  The build goroutine and every request that deletes an *)
(* image therefore reload: they open a searcher, swap it for the one in    *)
(* the atomic pointer, and leave it to a goroutine to close the old one.   *)
(* No lock orders the reloads among themselves, nor with a compaction.     *)
(*                                                                         *)
(* An image stands for its vectors.  How a build or a deletion gets at the *)
(* files is the subject of LocalIndex and of ImageIndex; here a build      *)
(* writes one shard, a deletion takes an image out of all files, each in   *)
(* one step, and no deletion touches the files while a merge is at work.   *)
(***************************************************************************)
EXTENDS Integers, FiniteSets

CONSTANTS
    Image,      \* the images that may be added
    Deleter,    \* requests that may be inside deleteImage
    Builder,    \* the build goroutine
    Slot,       \* bound: searchers that may be open or being closed at a time
    MaxShards,  \* bound: shards on disk
    Threshold,  \* shards that make the build goroutine compact (8 in the code)
    NoFile      \* "there is no such file"

ASSUME BuilderAssumption == Builder \notin Deleter
ASSUME ShardsAssumption == MaxShards \in Nat /\ Threshold \in 1..MaxShards
ASSUME SlotAssumption == IsFiniteSet(Slot) /\ Slot # {}
ASSUME NoFileAssumption == \A S \in SUBSET Image : S # NoFile

VARIABLES
    waiting,   \* images in the catalog that the index does not hold yet
    main,      \* the main file
    shard,     \* the shards
    build,     \* what the build goroutine is doing
    merged,    \* what the running compaction has read
    req,       \* the image each running deletion is about, if any
    load,      \* each reload: how far NewSearcher is and what it has opened
    content,   \* what the searcher in a slot holds
    open,      \* the slots whose files are open
    current,   \* handler.idx
    closing,   \* searchers a goroutine has been started to close
    used,      \* history: images that have been added
    shown,     \* history: images whose build has reloaded
    purged,    \* history: images that have been taken out of the files
    told,      \* history: images whose deletion has reloaded
    raced      \* history: images whose files changed under another's reload

fileVars == <<main, shard>>
slotVars == <<content, open, current, closing>>
histVars == <<used, shown, purged, told, raced>>
vars == <<waiting, fileVars, build, merged, req, load, slotVars, histVars>>

Reloader == Deleter \cup {Builder}
Shards == 1..MaxShards
NoImage == {}

\* Shards before the first gap.
IsShardCount(n) ==
    /\ \A f \in 1..n : shard[f] # NoFile
    /\ n < MaxShards => shard[n + 1] = NoFile

InShards == UNION {shard[f] : f \in {g \in Shards : shard[g] # NoFile}}
OnDisk == main \cup InShards

Settled == [pc |-> "idle", at |-> 0, got |-> {}]
Opening == [pc |-> "open", at |-> 0, got |-> {}]

\* Another goroutine than p has a searcher half open, or open and not in place.
OthersReloading(p) == \E q \in Reloader \ {p} : load[q].pc # "idle"

\* The server has started on an index without vectors.
Init ==
    /\ waiting = {}
    /\ main = {}
    /\ shard = [f \in Shards |-> NoFile]
    /\ build = "idle"
    /\ merged = {}
    /\ req = [d \in Deleter |-> NoImage]
    /\ load = [p \in Reloader |-> Settled]
    /\ content = [s \in Slot |-> {}]
    /\ \E s \in Slot : current = s /\ open = {s}
    /\ closing = {}
    /\ used = {}
    /\ shown = {}
    /\ purged = {}
    /\ told = {}
    /\ raced = {}

\* addImage
AddImage(i) ==
    /\ i \notin used
    /\ used' = used \cup {i}
    /\ waiting' = waiting \cup {i}
    /\ UNCHANGED <<fileVars, build, merged, req, load, slotVars, shown, purged,
                   told, raced>>

-----------------------------------------------------------------------------
(* reloadSearcher.                                                         *)

\* NewSearcher opens the main file ...
OpenMain(p) ==
    /\ load[p].pc = "open"
    /\ load[p].at = 0
    /\ load' = [load EXCEPT ![p] = [pc |-> "open", at |-> 1, got |-> main]]
    /\ UNCHANGED <<waiting, fileVars, build, merged, req, slotVars, histVars>>

\* A bug: the walk does not end at a missing shard.
BugOpenShardWalksOn(p) ==
    LET f == load[p].at
        found == {g \in Shards : g = f /\ shard[g] # NoFile}
    IN  /\ load[p].pc = "open"
        /\ f > 0
        /\ load' = [load EXCEPT ![p] =
                      [pc |-> "open", at |-> f + 1,
                       got |-> load[p].got \cup UNION {shard[g] : g \in found}]]
        /\ UNCHANGED <<waiting, fileVars, build, merged, req, slotVars, histVars>>

\* ... then shard after shard ...
OpenShard(p) ==
    LET f == load[p].at IN
    /\ load[p].pc = "open"
    /\ f \in Shards
    /\ shard[f] # NoFile
    /\ load' = [load EXCEPT ![p] = [pc |-> "open", at |-> f + 1,
                                    got |-> load[p].got \cup shard[f]]]
    /\ UNCHANGED <<waiting, fileVars, build, merged, req, slotVars, histVars>>

\* ... and is done at the first that is missing.
OpenEnd(p) ==
    LET f == load[p].at IN
    /\ load[p].pc = "open"
    /\ f > 0
    /\ f \in Shards => shard[f] = NoFile
    /\ load' = [load EXCEPT ![p] = [pc |-> "swap", at |-> 0, got |-> load[p].got]]
    /\ UNCHANGED <<waiting, fileVars, build, merged, req, slotVars, histVars>>

\* A file cannot be opened or read: the old searcher stays.
OpenFails(p) ==
    /\ load[p].pc = "open"
    /\ load' = [load EXCEPT ![p] = Settled]
    /\ req' = [d \in Deleter |-> IF d = p THEN NoImage ELSE req[d]]
    /\ build' = CASE p # Builder -> build
                  [] p = Builder /\ build = "reload" -> "count"
                  [] p = Builder /\ build # "reload" -> "idle"
    /\ UNCHANGED <<waiting, fileVars, merged, slotVars, histVars>>

\* What the one who reloads does once its searcher is in place.
Reloaded(p) ==
    /\ load' = [load EXCEPT ![p] = Settled]
    /\ IF p = Builder
       THEN /\ build' = IF build = "reload" THEN "count" ELSE "idle"
            /\ shown' = shown \cup OnDisk
            /\ UNCHANGED <<req, told>>
       ELSE /\ req' = [req EXCEPT ![p] = NoImage]
            /\ told' = told \cup req[p]
            /\ UNCHANGED <<build, shown>>

\* A bug: the new searcher is forgotten where the old one should be closed.
BugSwapLeaks(p) ==
    /\ load[p].pc = "swap"
    /\ \E s \in Slot \ (open \cup closing) :
          /\ content' = [content EXCEPT ![s] = load[p].got]
          /\ open' = open \cup {s}
          /\ current' = s
    /\ Reloaded(p)
    /\ UNCHANGED <<waiting, fileVars, merged, closing, used, purged, raced>>

\* handler.idx.Swap, and the goroutine that closes the old searcher.
Swap(p) ==
    /\ load[p].pc = "swap"
    /\ \E s \in Slot \ (open \cup closing) :
          /\ content' = [content EXCEPT ![s] = load[p].got]
          /\ open' = open \cup {s}
          /\ current' = s
    /\ closing' = closing \cup {current}
    /\ Reloaded(p)
    /\ UNCHANGED <<waiting, fileVars, merged, used, purged, raced>>

\* searcher.Close
Close(s) ==
    /\ s \in closing
    /\ closing' = closing \ {s}
    /\ open' = open \ {s}
    /\ content' = [content EXCEPT ![s] = {}]
    /\ UNCHANGED <<waiting, fileVars, build, merged, req, load, current, histVars>>

-----------------------------------------------------------------------------
(* The build goroutine.                                                    *)

\* BuildIndex: what waits becomes a shard; without anything to index there is
\* none.  A reload follows.
Build ==
    /\ build = "idle"
    /\ \/ /\ waiting = {}
          /\ UNCHANGED shard
       \/ /\ waiting # {}
          /\ \E n \in 0..(MaxShards - 1) :
                /\ IsShardCount(n)
                /\ shard' = [shard EXCEPT ![n + 1] = waiting]
    /\ waiting' = {}
    /\ build' = "reload"
    /\ load' = [load EXCEPT ![Builder] = Opening]
    /\ raced' = IF OthersReloading(Builder) THEN raced \cup waiting ELSE raced
    /\ UNCHANGED <<main, merged, req, slotVars, used, shown, purged, told>>

\* Too few shards: the goroutine is done.
CompactSkip ==
    /\ build = "count"
    /\ \E n \in 0..(Threshold - 1) : IsShardCount(n)
    /\ build' = "idle"
    /\ UNCHANGED <<waiting, fileVars, merged, req, load, slotVars, histVars>>

\* A bug: each shard is removed as soon as it has been read.
BugCompactLoadRemoves ==
    /\ build = "count"
    /\ \E n \in Threshold..MaxShards : IsShardCount(n)
    /\ merged' = OnDisk
    /\ shard' = [f \in Shards |-> NoFile]
    /\ build' = "rename"
    /\ UNCHANGED <<waiting, main, req, load, slotVars, histVars>>

\* Compact reads all files ...
CompactLoad ==
    /\ build = "count"
    /\ \E n \in Threshold..MaxShards : IsShardCount(n)
    /\ merged' = OnDisk
    /\ build' = "rename"
    /\ UNCHANGED <<waiting, fileVars, req, load, slotVars, histVars>>

\* ... puts the merged one in place of the main file ...
CompactRename ==
    /\ build = "rename"
    /\ main' = merged
    /\ merged' = {}
    /\ build' = "remove"
    /\ raced' = IF OthersReloading(Builder) THEN raced \cup InShards ELSE raced
    /\ UNCHANGED <<waiting, shard, req, load, slotVars, used, shown, purged, told>>

\* ... removes the shards, the first one first ...
CompactRemove ==
    /\ build = "remove"
    /\ \E f \in Shards :
          /\ shard[f] # NoFile
          /\ \A g \in Shards : g < f => shard[g] = NoFile
          /\ shard' = [shard EXCEPT ![f] = NoFile]
    /\ UNCHANGED <<waiting, main, build, merged, req, load, slotVars, histVars>>

\* ... and the goroutine reloads again.
CompactEnd ==
    /\ build = "remove"
    /\ \A f \in Shards : shard[f] = NoFile
    /\ build' = "reload again"
    /\ load' = [load EXCEPT ![Builder] = Opening]
    /\ UNCHANGED <<waiting, fileVars, merged, req, slotVars, histVars>>

\* Compact fails before the merged file is in place.
CompactFails ==
    /\ build = "rename"
    /\ merged' = {}
    /\ build' = "idle"
    /\ UNCHANGED <<waiting, fileVars, req, load, slotVars, histVars>>

-----------------------------------------------------------------------------
(* deleteImage.                                                            *)

Merging == build \in {"rename", "remove"}
Without(c, i) == IF c = NoFile THEN NoFile ELSE c \ {i}

\* A bug: the purge is left to the next build to show.
BugDeleteNoReload(d, i) ==
    /\ req[d] = NoImage
    /\ ~Merging
    /\ i \in used \ purged
    /\ purged' = purged \cup {i}
    /\ told' = told \cup {i}
    /\ waiting' = waiting \ {i}
    /\ main' = main \ {i}
    /\ shard' = [f \in Shards |-> Without(shard[f], i)]
    /\ raced' = IF OthersReloading(d) THEN raced \cup {i} ELSE raced
    /\ UNCHANGED <<build, merged, req, load, slotVars, used, shown>>

\* IMDB.DeleteImage takes the image out of index and catalog; a reload follows.
Delete(d, i) ==
    /\ req[d] = NoImage
    /\ ~Merging
    /\ i \in used \ purged
    /\ req' = [req EXCEPT ![d] = {i}]
    /\ purged' = purged \cup {i}
    /\ waiting' = waiting \ {i}
    /\ main' = main \ {i}
    /\ shard' = [f \in Shards |-> Without(shard[f], i)]
    /\ load' = [load EXCEPT ![d] = Opening]
    /\ raced' = IF OthersReloading(d) THEN raced \cup {i} ELSE raced
    /\ UNCHANGED <<build, merged, slotVars, used, shown, told>>

-----------------------------------------------------------------------------
ReloadStep(p) ==
    \/ OpenMain(p)
    \/ OpenShard(p)
    \/ OpenEnd(p)
    \/ OpenFails(p)
    \/ Swap(p)

Next ==
    \/ \E i \in Image : AddImage(i)
    \/ \E p \in Reloader : ReloadStep(p)
    \/ \E s \in Slot : Close(s)
    \/ Build
    \/ CompactSkip
    \/ CompactLoad
    \/ CompactRename
    \/ CompactRemove
    \/ CompactEnd
    \/ CompactFails
    \/ \E d \in Deleter, i \in Image : Delete(d, i)

Spec == Init /\ [][Next]_vars

-----------------------------------------------------------------------------
(* What is served.                                                         *)

IsFile(c) == c = NoFile \/ c \subseteq used

TypeOK ==
    /\ waiting \cup main \cup merged \subseteq used
    /\ \A f \in Shards : IsFile(shard[f])
    /\ build \in {"idle", "reload", "count", "rename", "remove", "reload again"}
    /\ \A d \in Deleter : req[d] \subseteq purged
    /\ \A p \in Reloader :
          /\ load[p].pc \in {"idle", "open", "swap"}
          /\ load[p].at \in 0..(MaxShards + 1)
          /\ load[p].got \subseteq used
    /\ \A s \in Slot : content[s] \subseteq used
    /\ current \in Slot
    /\ used \subseteq Image
    /\ shown \cup purged \cup told \cup raced \subseteq used

\* The searcher that requests pick up is open and no goroutine is about to close
\* it, and none is forgotten: every other one that is open has a goroutine that
\* will close it, however many reloads swap at a time.
ServedIsOpen ==
    /\ current \in open
    /\ open \ {current} = closing

\* What a deletion has purged and reloaded is not served again, except an image
\* whose deletion found another reload half way: that one may have opened the
\* files before the purge and put its searcher in place after it.
PurgeSeenApart == (told \ raced) \cap content[current] = {}

\* What a build has written and reloaded stays served until it is deleted,
\* whatever is compacted meanwhile and whoever reloads, except an image whose
\* files were written or merged while another reload was half way.
BuiltIsServed == shown \ (raced \cup purged) \subseteq content[current]
=============================================================================
