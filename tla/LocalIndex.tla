----------------------------- MODULE LocalIndex -----------------------------
(***************************************************************************)
(* The files of the local IVF index (internal/index/local/local.go).       *)
(*                                                                         *)
(* The index is invlists.bin, the main file, and the shards invlists.0,    *)
(* invlists.1, ... that incremental builds leave beside it.  A file is     *)
(* written under another name and renamed into place, so its content       *)
(* changes in one step and whoever has loaded it keeps what was there.     *)
(* No lock protects the files: the build goroutine (Flush, Commit,         *)
(* Compact) and the goroutines that delete images (DeleteVectors) each     *)
(* walk over them file by file.                                            *)
(*                                                                         *)
(* File 0 is the main file and file k the shard invlists.(k - 1), the      *)
(* order in which a searcher stacks them.  What is kept of a file is the   *)
(* set of its entries (vector ids with their codes); which inverted list   *)
(* an entry is in, and the encoding, are left out.                         *)
(***************************************************************************)
EXTENDS Integers, FiniteSets

CONSTANTS
    Entry,      \* the entries that may ever be indexed
    Deleter,    \* goroutines that may be inside DeleteVectors
    MaxShards,  \* bound: shards on disk at a time
    NoFile,     \* "there is no such file"
    Overlap     \* may a deletion overlap a build or another deletion?

ASSUME MaxShardsAssumption == MaxShards \in Nat \ {0}
ASSUME OverlapAssumption == Overlap \in BOOLEAN
ASSUME NoFileAssumption == \A S \in SUBSET Entry : S # NoFile

VARIABLES
    file,      \* the files of the index
    delFile,   \* the file DeleteVectors writes beside each ("<path>.del")
    task,      \* what the build goroutine is doing
    sub,       \* builder.subIndex, as a file number: the next shard to write
    il,        \* builder.il: entries added and not yet flushed
    last,      \* the last shard the running merge takes in
    next,      \* the next file the running merge reads or removes
    merged,    \* what the running merge has read
    del,       \* what each deletion is doing
    flushed,   \* history: entries that a Flush has written
    doomed,    \* history: entries that some DeleteVectors was asked to remove
    purged,    \* history: entries that some DeleteVectors has reported removed
    cut,       \* history: a build was cut short and none has committed since
    torn       \* history: a merge has not removed all of its shards, because a
               \* removal failed or the process ended

fileVars == <<file, delFile>>
mergeVars == <<last, next, merged>>
buildVars == <<task, sub, il, mergeVars>>
histVars == <<flushed, doomed, purged, cut, torn>>
vars == <<fileVars, buildVars, del, histVars>>

FileNo == 0..MaxShards
Shards == 1..MaxShards

\* countShards returns n: the shards before the first gap.
IsShardCount(n) ==
    /\ \A f \in 1..n : file[f] # NoFile
    /\ n < MaxShards => file[n + 1] = NoFile

Content(f) == IF file[f] = NoFile THEN {} ELSE file[f]

\* The files that whoever walks over the index comes to: the main file and the
\* shards before the first gap.
InSight(f) == \A g \in 1..f : file[g] # NoFile

\* What these files hold ...
Stacked == UNION {Content(f) : f \in {g \in FileNo : InSight(g)}}

\* ... and what is found of it by a searcher opened now: NewSearcher stacks these
\* files, but returns an error when there is no main file.
Found == IF file[0] = NoFile THEN {} ELSE Stacked

\* A deletion at rest.
AtRest == [pc |-> "idle", drop |-> {}, at |-> 0, kept |-> {}]
Deleting == {d \in Deleter : del[d].pc # "idle"}

Init ==
    /\ file = [f \in FileNo |-> NoFile]
    /\ delFile = [f \in FileNo |-> NoFile]
    /\ task = "idle"
    /\ sub = 1
    /\ il = {}
    /\ last = 0
    /\ next = 0
    /\ merged = {}
    /\ del = [d \in Deleter |-> AtRest]
    /\ flushed = {}
    /\ doomed = {}
    /\ purged = {}
    /\ cut = FALSE
    /\ torn = FALSE

MayMaintain == Overlap \/ Deleting = {}

\* Compact, Commit or the whole build returns, with what it kept in memory.
TaskEnds ==
    /\ task' = "idle"
    /\ sub' = 1
    /\ il' = {}
    /\ last' = 0
    /\ next' = 0
    /\ merged' = {}

-----------------------------------------------------------------------------
(* Building.                                                               *)

\* A bug: numbering starts over, on top of the shards that are there.
BugNewBuilderRestarts ==
    /\ task = "idle"
    /\ MayMaintain
    /\ task' = "build"
    /\ sub' = 1
    /\ il' = {}
    /\ UNCHANGED <<fileVars, mergeVars, del, histVars>>

\* NewBuilder: the first shard number that is free.
NewBuilder ==
    /\ task = "idle"
    /\ MayMaintain
    /\ task' = "build"
    /\ \E n \in FileNo : IsShardCount(n) /\ sub' = n + 1
    /\ il' = {}
    /\ UNCHANGED <<fileVars, mergeVars, del, histVars>>

\* builder.Add
Add(S) ==
    /\ task = "build"
    /\ il' = il \cup S
    /\ UNCHANGED <<fileVars, task, sub, mergeVars, del, histVars>>

\* builder.Flush; without entries it does nothing.
Flush ==
    /\ task = "build"
    /\ il # {}
    /\ sub <= MaxShards
    /\ file' = [file EXCEPT ![sub] = il]
    /\ sub' = sub + 1
    /\ il' = {}
    /\ flushed' = flushed \cup il
    /\ UNCHANGED <<delFile, task, mergeVars, del, doomed, purged, cut, torn>>

\* A bug: the first build leaves its shards without a main file.
BugCommitNeverMoves ==
    /\ task = "build"
    /\ il = {}
    /\ TaskEnds
    /\ cut' = FALSE
    /\ UNCHANGED <<fileVars, del, flushed, doomed, purged, torn>>

\* builder.Commit, when there is nothing to move: no shard at all, or a main
\* file that the shards are stacked on.
CommitInPlace ==
    /\ task = "build"
    /\ il = {}
    /\ sub = 1 \/ file[0] # NoFile
    /\ TaskEnds
    /\ cut' = FALSE
    /\ UNCHANGED <<fileVars, del, flushed, doomed, purged, torn>>

\* builder.Commit of a single shard without a main file: rename it.
CommitRename ==
    /\ task = "build"
    /\ il = {}
    /\ sub = 2
    /\ file[0] = NoFile
    /\ file' = [file EXCEPT ![0] = file[1], ![1] = NoFile]
    /\ TaskEnds
    /\ cut' = FALSE
    /\ UNCHANGED <<delFile, del, flushed, doomed, purged, torn>>

\* A bug: the number of shards is taken for the number of the last one.
BugCommitMergesOneMore ==
    /\ task = "build"
    /\ il = {}
    /\ sub > 2
    /\ file[0] = NoFile
    /\ task' = "load"
    /\ last' = sub
    /\ next' = 1
    /\ UNCHANGED <<fileVars, sub, il, merged, del, histVars>>

\* builder.Commit of several shards without a main file: mergeIntoNew.
CommitMerge ==
    /\ task = "build"
    /\ il = {}
    /\ sub > 2
    /\ file[0] = NoFile
    /\ task' = "load"
    /\ last' = sub - 1
    /\ next' = 1
    /\ UNCHANGED <<fileVars, sub, il, merged, del, histVars>>

\* A bug: the shards alone are merged, over the main file.
BugCompactForgetsMain ==
    /\ task = "idle"
    /\ MayMaintain
    /\ \E n \in Shards : IsShardCount(n) /\ last' = n
    /\ task' = "load"
    /\ next' = 1
    /\ UNCHANGED <<fileVars, sub, il, merged, del, histVars>>

\* Compact counts the shards ...
CompactBegin ==
    /\ task = "idle"
    /\ MayMaintain
    /\ \E n \in Shards : IsShardCount(n) /\ last' = n
    /\ task' = "load"
    /\ UNCHANGED <<fileVars, sub, il, next, merged, del, histVars>>

\* ... and, like mergeIntoNew, loads file after file; the main file may be
\* missing, a shard may not.
MergeLoad ==
    /\ task = "load"
    /\ next <= last
    /\ next = 0 \/ file[next] # NoFile
    /\ merged' = merged \cup Content(next)
    /\ next' = next + 1
    /\ UNCHANGED <<fileVars, task, sub, il, last, del, histVars>>

\* The merged file is saved and renamed over the main file ...
MergeRename ==
    /\ task = "load"
    /\ next > last
    /\ file' = [file EXCEPT ![0] = merged]
    /\ task' = "remove"
    /\ next' = 1
    /\ UNCHANGED <<delFile, sub, il, last, merged, del, histVars>>

\* ... and the shards it took in are removed, the first one first.  That a
\* removal fails goes unnoticed.
MergeRemove ==
    /\ task = "remove"
    /\ next <= last
    /\ \/ /\ file' = [file EXCEPT ![next] = NoFile]
          /\ UNCHANGED torn
       \/ /\ torn' = TRUE
          /\ UNCHANGED file
    /\ next' = next + 1
    /\ UNCHANGED <<delFile, task, sub, il, last, merged, del, flushed, doomed,
                   purged, cut>>

\* A bug: the last shard is not removed.
BugMergeEndsEarly ==
    /\ task = "remove"
    /\ next >= last
    /\ TaskEnds
    /\ cut' = FALSE
    /\ UNCHANGED <<fileVars, del, flushed, doomed, purged, torn>>

MergeEnd ==
    /\ task = "remove"
    /\ next > last
    /\ TaskEnds
    /\ cut' = FALSE
    /\ UNCHANGED <<fileVars, del, flushed, doomed, purged, torn>>

\* A file cannot be read or written: the build or the merge returns an error.
MaintenanceFails ==
    /\ task \in {"build", "load"}
    /\ TaskEnds
    /\ cut' = TRUE
    /\ UNCHANGED <<fileVars, del, flushed, doomed, purged, torn>>

-----------------------------------------------------------------------------
(* Deleting.  Each file in turn is loaded, filtered, saved as "<path>.del" *)
(* and renamed back.                                                       *)

\* Deletion d goes on to pc, at file n, keeping S of it.
Proceed(d, pc, n, S) ==
    del' = [del EXCEPT ![d] =
              [pc |-> pc, drop |-> del[d].drop, at |-> n, kept |-> S]]

\* DeleteVectors is called to remove the entries D.
DeleteBegin(d, D) ==
    /\ del[d].pc = "idle"
    /\ Overlap \/ (Deleting = {} /\ task = "idle")
    /\ del' = [del EXCEPT ![d] =
                 [pc |-> "load", drop |-> D, at |-> 0, kept |-> {}]]
    /\ doomed' = doomed \cup D
    /\ UNCHANGED <<fileVars, buildVars, flushed, purged, cut, torn>>

\* filterInvlistsFile loads the file and keeps the entries that stay; a main
\* file that does not exist is passed over.
DeleteLoad(d) ==
    /\ del[d].pc = "load"
    /\ del[d].at <= MaxShards
    /\ \/ /\ file[del[d].at] # NoFile
          /\ Proceed(d, "save", del[d].at, file[del[d].at] \ del[d].drop)
       \/ /\ file[del[d].at] = NoFile
          /\ del[d].at = 0
          /\ Proceed(d, "load", 1, {})
    /\ UNCHANGED <<fileVars, buildVars, histVars>>

DeleteSave(d) ==
    /\ del[d].pc = "save"
    /\ delFile' = [delFile EXCEPT ![del[d].at] = del[d].kept]
    /\ Proceed(d, "rename", del[d].at, del[d].kept)
    /\ UNCHANGED <<file, buildVars, histVars>>

\* The rename puts into place whatever "<path>.del" holds by now.
DeleteRename(d) ==
    /\ del[d].pc = "rename"
    /\ delFile[del[d].at] # NoFile
    /\ file' = [file EXCEPT ![del[d].at] = delFile[del[d].at]]
    /\ delFile' = [delFile EXCEPT ![del[d].at] = NoFile]
    /\ Proceed(d, "load", del[d].at + 1, {})
    /\ UNCHANGED <<buildVars, histVars>>

\* A bug: the shards are not looked at.
BugDeleteMainOnly(d) ==
    /\ del[d].pc = "load"
    /\ del[d].at > 0
    /\ del' = [del EXCEPT ![d] = AtRest]
    /\ purged' = purged \cup del[d].drop
    /\ UNCHANGED <<fileVars, buildVars, flushed, doomed, cut, torn>>

\* The first missing shard ends the walk.
DeleteEnd(d) ==
    /\ del[d].pc = "load"
    /\ del[d].at > 0
    /\ del[d].at <= MaxShards => file[del[d].at] = NoFile
    /\ del' = [del EXCEPT ![d] = AtRest]
    /\ purged' = purged \cup del[d].drop
    /\ UNCHANGED <<fileVars, buildVars, flushed, doomed, cut, torn>>

\* A file cannot be read, written or renamed: DeleteVectors returns an error.
DeleteFails(d) ==
    /\ del[d].pc # "idle"
    /\ del' = [del EXCEPT ![d] = AtRest]
    /\ UNCHANGED <<fileVars, buildVars, histVars>>

-----------------------------------------------------------------------------
\* The process ends and starts again: the files are what is left.
Crash ==
    /\ TaskEnds
    /\ del' = [d \in Deleter |-> AtRest]
    /\ cut' = (cut \/ task # "idle")
    /\ torn' = (torn \/ task = "remove")
    /\ UNCHANGED <<fileVars, flushed, doomed, purged>>

DeleteStep(d) ==
    \/ DeleteLoad(d)
    \/ DeleteSave(d)
    \/ DeleteRename(d)
    \/ DeleteEnd(d)
    \/ DeleteFails(d)

Next ==
    \/ NewBuilder
    \/ \E S \in SUBSET (Entry \ doomed) \ {{}} : Add(S)
    \/ Flush
    \/ CommitInPlace
    \/ CommitRename
    \/ CommitMerge
    \/ CompactBegin
    \/ MergeLoad
    \/ MergeRename
    \/ MergeRemove
    \/ MergeEnd
    \/ MaintenanceFails
    \/ \E d \in Deleter, D \in SUBSET flushed \ {{}} : DeleteBegin(d, D)
    \/ \E d \in Deleter : DeleteStep(d)
    \/ Crash

Spec == Init /\ [][Next]_vars

-----------------------------------------------------------------------------
(* What the index promises.                                                *)

IsFile(c) == c = NoFile \/ c \subseteq flushed

TypeOK ==
    /\ \A f \in FileNo : IsFile(file[f]) /\ IsFile(delFile[f])
    /\ task \in {"idle", "build", "load", "remove"}
    /\ sub \in 1..(MaxShards + 1)
    /\ last \in FileNo /\ next \in 0..(MaxShards + 1)
    /\ il \subseteq Entry /\ merged \subseteq flushed
    /\ flushed \subseteq Entry
    /\ doomed \subseteq flushed /\ purged \subseteq doomed
    /\ \A d \in Deleter :
          /\ del[d].pc \in {"idle", "load", "save", "rename"}
          /\ del[d].drop \subseteq doomed
          /\ del[d].at \in 0..(MaxShards + 1)
    /\ cut \in BOOLEAN /\ torn \in BOOLEAN

\* No entry is lost.  What a Flush has written and no deletion was asked to
\* remove is in files that the next build and the next merge take in, and is
\* found by a searcher opened at any instant: while shards are being merged or
\* removed, while other entries are being deleted, and after a crash or a failure
\* at any of these points.  Until a first build has committed there is no main
\* file and no searcher can be opened: while that build runs, and once it was cut
\* short, its entries are on disk and not found.
NothingLost ==
    LET lasting == flushed \ doomed IN
    /\ lasting \subseteq Stacked
    /\ \/ lasting \subseteq Found
       \/ file[0] = NoFile /\ (cut \/ task # "idle")

\* A deletion is final.  Entries DeleteVectors has reported removed are in none
\* of the files a searcher stacks, nor come back to them, whatever is merged,
\* committed or cut short afterwards.  A merge
\* that does not get to remove all of its shards is the exception: it can leave
\* one behind a gap, where DeleteVectors misses it.
PurgeIsFinal == ~torn => purged \cap Stacked = {}

\* After a build that was not cut short a searcher can be opened: there is a
\* main file as soon as there is a shard.
OpensAfterBuild ==
    task = "idle" /\ ~cut /\ file[1] # NoFile => file[0] # NoFile

\* A merge leaves nothing behind: shards are numbered without a gap, so counting
\* up to the first missing one finds them all, unless shards are being removed
\* or a removal has failed or been interrupted.
NoHiddenShards ==
    ~torn /\ task # "remove" =>
        \A f \in Shards : file[f] # NoFile => InSight(f)

\* Files, shards, merges, deletions, crashes and failures implement the plain
\* set of entries of VectorSet, until a merge leaves shards behind.  The set is
\* what is on disk, whether or not a searcher can be opened on it yet.
Abstract == INSTANCE VectorSet WITH
    contents <- Stacked,
    purging <- UNION {del[d].drop : d \in Deleter},
    gone <- purged

ImplementsVectorSet ==
    Abstract!Init /\ [][Abstract!Next \/ torn']_(Abstract!vars)
=============================================================================
