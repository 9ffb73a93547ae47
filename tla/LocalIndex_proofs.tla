-------------------------- MODULE LocalIndex_proofs -------------------------
(***************************************************************************)
(* Proofs about the files of the local index, for any set of entries, any  *)
(* number of shards and of deleting goroutines, as long as no deletion     *)
(* overlaps a build, a merge or another deletion.                          *)
(***************************************************************************)
EXTENDS LocalIndex, TLAPS

Deletion == [pc : {"idle", "load", "save", "rename"}, drop : SUBSET Entry,
             at : 0..(MaxShards + 1), kept : SUBSET Entry]

\* The deletions are records; one that has loaded a file is at a file.
DelTypes ==
    /\ del \in [Deleter -> Deletion]
    /\ \A d \in Deleter :
          /\ del[d].pc \in {"idle", "load", "save", "rename"}
          /\ del[d].drop \subseteq doomed
          /\ del[d].at \in 0..(MaxShards + 1)
          /\ del[d].kept \subseteq flushed
          /\ del[d].pc \in {"save", "rename"} => del[d].at \in FileNo

\* What TypeOK leaves out because TLC never needs it: the variables are
\* functions and records.
Types ==
    /\ TypeOK
    /\ file \in [FileNo -> (SUBSET Entry) \cup {NoFile}]
    /\ delFile \in [FileNo -> (SUBSET Entry) \cup {NoFile}]
    /\ DelTypes

LEMMA InitTypes == Init => Types
<1> SUFFICES ASSUME Init PROVE Types
  OBVIOUS
<1>1. /\ file \in [FileNo -> (SUBSET Entry) \cup {NoFile}]
      /\ delFile \in [FileNo -> (SUBSET Entry) \cup {NoFile}]
  BY DEF Init
<1>2. AtRest \in Deletion
  BY MaxShardsAssumption DEF AtRest, Deletion
<1>3. del \in [Deleter -> Deletion]
  BY <1>2 DEF Init
<1>4. \A d \in Deleter : del[d] = AtRest
  BY DEF Init
<1>5. \A f \in FileNo : file[f] = NoFile /\ delFile[f] = NoFile
  BY DEF Init
<1>6. TypeOK
  <2>1. \A d \in Deleter :
           /\ del[d].pc \in {"idle", "load", "save", "rename"}
           /\ del[d].drop \subseteq doomed
           /\ del[d].at \in 0..(MaxShards + 1)
    BY <1>4, MaxShardsAssumption DEF AtRest
  <2>2. /\ sub \in 1..(MaxShards + 1)
        /\ last \in FileNo /\ next \in 0..(MaxShards + 1)
    BY MaxShardsAssumption DEF Init, FileNo
  <2>3. cut \in BOOLEAN /\ torn \in BOOLEAN
    BY DEF Init
  <2> QED BY <1>5, <2>1, <2>2, <2>3 DEF Init, TypeOK, IsFile
<1> QED BY <1>1, <1>3, <1>4, <1>6, MaxShardsAssumption
        DEF Types, DelTypes, AtRest

-----------------------------------------------------------------------------
(* Types.                                                                  *)

\* What returning leaves in memory has its type.
LEMMA TaskEndsTypes ==
    ASSUME TaskEnds
    PROVE  /\ task' = "idle" /\ sub' \in 1..(MaxShards + 1)
           /\ last' \in FileNo /\ next' \in 0..(MaxShards + 1)
           /\ il' = {} /\ merged' = {}
BY MaxShardsAssumption DEF TaskEnds, FileNo

\* A step of one deletion keeps the types if the new record has them.
LEMMA DeletionStepTypes ==
    ASSUME Types, NEW d \in Deleter, NEW r \in Deletion,
           del' = [del EXCEPT ![d] = r],
           r.drop \subseteq doomed, r.kept \subseteq flushed,
           r.pc \in {"save", "rename"} => r.at \in FileNo,
           UNCHANGED <<flushed, doomed>>
    PROVE  DelTypes'
<1>1. del' \in [Deleter -> Deletion]
  BY DEF Types, DelTypes
<1>2. \A e \in Deleter : del'[e] = IF e = d THEN r ELSE del[e]
  BY DEF Types, DelTypes
<1>3. r.pc \in {"idle", "load", "save", "rename"} /\ r.at \in 0..(MaxShards + 1)
  BY DEF Deletion
<1> QED BY <1>1, <1>2, <1>3 DEF Types, DelTypes, FileNo

LEMMA NextTypes == Types /\ [Next]_vars => Types'
<1> SUFFICES ASSUME Types, [Next]_vars PROVE Types'
  OBVIOUS
<1> USE MaxShardsAssumption DEF Types, DelTypes, TypeOK, IsFile, FileNo
<1>1. CASE NewBuilder
  <2>1. sub' \in 1..(MaxShards + 1)
    BY <1>1 DEF NewBuilder
  <2> QED BY <1>1, <2>1 DEF NewBuilder, fileVars, mergeVars, histVars
<1>2. ASSUME NEW S \in SUBSET (Entry \ doomed), Add(S) PROVE Types'
  BY <1>2 DEF Add, fileVars, mergeVars, histVars
<1>3. CASE Flush
  <2>1. sub \in FileNo /\ flushed \subseteq flushed' /\ il \subseteq flushed'
        /\ flushed' \subseteq Entry
    BY <1>3 DEF Flush
  <2>2. file' \in [FileNo -> (SUBSET Entry) \cup {NoFile}]
    BY <1>3, <2>1 DEF Flush
  <2>3. \A f \in FileNo : file'[f] = NoFile \/ file'[f] \subseteq flushed'
    BY <1>3, <2>1 DEF Flush
  <2>4. \A f \in FileNo : delFile[f] = NoFile \/ delFile[f] \subseteq flushed'
    BY <2>1
  <2>5. sub' \in 1..(MaxShards + 1)
    BY <1>3 DEF Flush
  <2>6. merged \subseteq flushed' /\ doomed \subseteq flushed'
        /\ \A d \in Deleter : del[d].kept \subseteq flushed'
    BY <2>1
  <2> QED BY <1>3, <2>1, <2>2, <2>3, <2>4, <2>5, <2>6 DEF Flush, mergeVars
<1>4. CASE CommitInPlace \/ MergeEnd \/ MaintenanceFails
  <2>1. TaskEnds /\ UNCHANGED <<fileVars, del, flushed, doomed, purged, torn>>
    BY <1>4 DEF CommitInPlace, MergeEnd, MaintenanceFails
  <2>2. cut' \in BOOLEAN
    BY <1>4 DEF CommitInPlace, MergeEnd, MaintenanceFails
  <2> QED BY <2>1, <2>2, TaskEndsTypes DEF fileVars
<1>5. CASE CommitRename
  <2>1. 0 \in FileNo /\ 1 \in FileNo
    OBVIOUS
  <2>2. file' \in [FileNo -> (SUBSET Entry) \cup {NoFile}]
    BY <1>5, <2>1 DEF CommitRename
  <2>3. \A f \in FileNo : file'[f] = NoFile \/ file'[f] \subseteq flushed
    BY <1>5, <2>1 DEF CommitRename
  <2>4. /\ TaskEnds
        /\ UNCHANGED <<delFile, del, flushed, doomed, purged, torn>>
    BY <1>5 DEF CommitRename
  <2>5. cut' \in BOOLEAN
    BY <1>5 DEF CommitRename
  <2> QED BY <2>2, <2>3, <2>4, <2>5, TaskEndsTypes
<1>6. CASE CommitMerge
  BY <1>6 DEF CommitMerge, fileVars, histVars
<1>7. CASE CompactBegin
  BY <1>7 DEF CompactBegin, Shards, fileVars, histVars
<1>8. CASE MergeLoad
  <2>1. next \in FileNo /\ next' \in 0..(MaxShards + 1)
    BY <1>8 DEF MergeLoad
  <2>2. merged' \subseteq flushed
    BY <1>8, <2>1 DEF MergeLoad, Content
  <2> QED BY <1>8, <2>1, <2>2 DEF MergeLoad, fileVars, histVars
<1>9. CASE MergeRename
  <2>1. 0 \in FileNo /\ merged \in SUBSET Entry
    OBVIOUS
  <2>2. file' \in [FileNo -> (SUBSET Entry) \cup {NoFile}]
    BY <1>9, <2>1 DEF MergeRename
  <2>3. \A f \in FileNo : file'[f] = NoFile \/ file'[f] \subseteq flushed
    BY <1>9, <2>1 DEF MergeRename
  <2>4. next' \in 0..(MaxShards + 1)
    BY <1>9 DEF MergeRename
  <2> QED BY <1>9, <2>2, <2>3, <2>4 DEF MergeRename, histVars
<1>10. CASE MergeRemove
  <2>1. next \in FileNo /\ next' \in 0..(MaxShards + 1)
    BY <1>10 DEF MergeRemove
  <2>2. file' \in [FileNo -> (SUBSET Entry) \cup {NoFile}]
    BY <1>10, <2>1 DEF MergeRemove
  <2>3. \A f \in FileNo : file'[f] = NoFile \/ file'[f] \subseteq flushed
    <3>1. \A f \in FileNo : file'[f] \in {file[f], NoFile}
      <4>1. file' = [file EXCEPT ![next] = NoFile] \/ file' = file
        BY <1>10 DEF MergeRemove
      <4>2. file \in [FileNo -> (SUBSET Entry) \cup {NoFile}]
        OBVIOUS
      <4> QED BY <4>1, <4>2
    <3>2. \A f \in FileNo : file[f] = NoFile \/ file[f] \subseteq flushed
      OBVIOUS
    <3> QED BY <3>1, <3>2
  <2>4. torn' \in BOOLEAN
    BY <1>10 DEF MergeRemove
  <2> QED BY <1>10, <2>1, <2>2, <2>3, <2>4 DEF MergeRemove
<1>11. ASSUME NEW d \in Deleter, NEW D \in SUBSET flushed, DeleteBegin(d, D)
       PROVE  Types'
  <2>1. D \subseteq Entry
    OBVIOUS
  <2>2. del' = [del EXCEPT ![d] =
                  [pc |-> "load", drop |-> D, at |-> 0, kept |-> {}]]
    BY <1>11 DEF DeleteBegin
  <2>3. [pc |-> "load", drop |-> D, at |-> 0, kept |-> {}] \in Deletion
    BY <2>1 DEF Deletion
  <2>4. del' \in [Deleter -> Deletion]
    BY <2>2, <2>3
  <2>5. \A e \in Deleter :
           /\ del'[e].drop \subseteq doomed \cup D
           /\ del'[e].kept \subseteq flushed
           /\ del'[e].pc \in {"save", "rename"} => del'[e].at \in FileNo
           /\ del'[e].pc \in {"idle", "load", "save", "rename"}
           /\ del'[e].at \in 0..(MaxShards + 1)
    BY <2>2
  <2> QED BY <1>11, <2>4, <2>5 DEF DeleteBegin, fileVars, buildVars, mergeVars
<1>12. ASSUME NEW d \in Deleter, DeleteStep(d) PROVE Types'
  <2> USE DEF Deletion
  <2>1. CASE DeleteLoad(d)
    <3>1. CASE file[del[d].at] # NoFile /\ del[d].at \in FileNo
               /\ Proceed(d, "save", del[d].at, file[del[d].at] \ del[d].drop)
      <4> DEFINE r == [pc |-> "save", drop |-> del[d].drop, at |-> del[d].at,
                       kept |-> file[del[d].at] \ del[d].drop]
      <4>1. del' = [del EXCEPT ![d] = r]
        BY <3>1 DEF Proceed
      <4>2. file[del[d].at] \subseteq flushed
        BY <3>1
      <4>3. r \in Deletion /\ r.drop \subseteq doomed /\ r.kept \subseteq flushed
        BY <4>2
      <4>4. r.at \in FileNo
        BY <3>1
      <4>5. UNCHANGED <<fileVars, buildVars, histVars>>
        BY <2>1 DEF DeleteLoad
      <4> HIDE DEF r
      <4>6. DelTypes'
        BY <4>1, <4>3, <4>4, <4>5, DeletionStepTypes DEF histVars
      <4> QED BY <4>5, <4>6 DEF fileVars, buildVars, mergeVars, histVars
    <3>2. CASE Proceed(d, "load", 1, {})
      <4> DEFINE r == [pc |-> "load", drop |-> del[d].drop, at |-> 1,
                       kept |-> {}]
      <4>1. del' = [del EXCEPT ![d] = r]
        BY <3>2 DEF Proceed
      <4>2. r \in Deletion /\ r.drop \subseteq doomed /\ r.kept \subseteq flushed
        OBVIOUS
      <4>3. r.pc \notin {"save", "rename"}
        BY <3>2
      <4>4. UNCHANGED <<fileVars, buildVars, histVars>>
        BY <2>1 DEF DeleteLoad
      <4> HIDE DEF r
      <4>5. DelTypes'
        BY <4>1, <4>2, <4>3, <4>4, DeletionStepTypes DEF histVars
      <4> QED BY <4>4, <4>5 DEF fileVars, buildVars, mergeVars, histVars
    <3> QED BY <2>1, <3>1, <3>2 DEF DeleteLoad
  <2>2. CASE DeleteSave(d)
    <3> DEFINE r == [pc |-> "rename", drop |-> del[d].drop, at |-> del[d].at,
                     kept |-> del[d].kept]
    <3>1. del' = [del EXCEPT ![d] = r]
      BY <2>2 DEF DeleteSave, Proceed
    <3>2. r \in Deletion /\ r.drop \subseteq doomed /\ r.kept \subseteq flushed
          /\ r.at \in FileNo
      BY <2>2 DEF DeleteSave
    <3>3. delFile' \in [FileNo -> (SUBSET Entry) \cup {NoFile}]
      BY <2>2 DEF DeleteSave
    <3>4. \A f \in FileNo : delFile'[f] = NoFile \/ delFile'[f] \subseteq flushed
      BY <2>2 DEF DeleteSave
    <3>5. UNCHANGED <<file, buildVars, histVars>>
      BY <2>2 DEF DeleteSave
    <3> HIDE DEF r
    <3>6. DelTypes'
      BY <3>1, <3>2, <3>5, DeletionStepTypes DEF histVars
    <3> QED BY <3>3, <3>4, <3>5, <3>6 DEF buildVars, mergeVars, histVars
  <2>3. CASE DeleteRename(d)
    <3> DEFINE r == [pc |-> "load", drop |-> del[d].drop, at |-> del[d].at + 1,
                     kept |-> {}]
    <3>0. del[d].at \in FileNo
      BY <2>3 DEF DeleteRename
    <3>1. del' = [del EXCEPT ![d] = r]
      BY <2>3 DEF DeleteRename, Proceed
    <3>2. r \in Deletion /\ r.drop \subseteq doomed /\ r.kept \subseteq flushed
          /\ r.pc \notin {"save", "rename"}
      BY <3>0
    <3>3. /\ file' \in [FileNo -> (SUBSET Entry) \cup {NoFile}]
          /\ delFile' \in [FileNo -> (SUBSET Entry) \cup {NoFile}]
      BY <2>3, <3>0 DEF DeleteRename
    <3>4. \A f \in FileNo :
             /\ file'[f] = NoFile \/ file'[f] \subseteq flushed
             /\ delFile'[f] = NoFile \/ delFile'[f] \subseteq flushed
      BY <2>3, <3>0 DEF DeleteRename
    <3>5. UNCHANGED <<buildVars, histVars>>
      BY <2>3 DEF DeleteRename
    <3> HIDE DEF r
    <3>6. DelTypes'
      BY <3>1, <3>2, <3>5, DeletionStepTypes DEF histVars
    <3> QED BY <3>3, <3>4, <3>5, <3>6 DEF buildVars, mergeVars, histVars
  <2>4. CASE DeleteEnd(d) \/ DeleteFails(d)
    <3>1. AtRest \in Deletion /\ AtRest.drop = {} /\ AtRest.kept = {}
          /\ AtRest.pc = "idle"
      BY DEF AtRest
    <3>2. del' = [del EXCEPT ![d] = AtRest]
      BY <2>4 DEF DeleteEnd, DeleteFails
    <3>3. /\ purged' \subseteq doomed
          /\ UNCHANGED <<fileVars, buildVars, flushed, doomed, cut, torn>>
      BY <2>4 DEF DeleteEnd, DeleteFails, histVars
    <3> QED BY <3>1, <3>2, <3>3, DeletionStepTypes
            DEF fileVars, buildVars, mergeVars
  <2> QED BY <1>12, <2>1, <2>2, <2>3, <2>4 DEF DeleteStep
<1>13. CASE Crash
  <2>1. AtRest \in Deletion
    BY DEF AtRest, Deletion
  <2>2. del' \in [Deleter -> Deletion] /\ \A d \in Deleter : del'[d] = AtRest
    BY <1>13, <2>1 DEF Crash
  <2>3. cut' \in BOOLEAN /\ torn' \in BOOLEAN
    BY <1>13 DEF Crash
  <2> QED BY <1>13, <2>2, <2>3 DEF Crash, TaskEnds, fileVars, AtRest
<1>14. CASE UNCHANGED vars
  BY <1>14 DEF vars, fileVars, buildVars, mergeVars, histVars
<1> QED BY <1>1, <1>2, <1>3, <1>4, <1>5, <1>6, <1>7, <1>8, <1>9, <1>10, <1>11,
           <1>12, <1>13, <1>14 DEF Next

-----------------------------------------------------------------------------
(* Deletions do not overlap.                                               *)

\* One deletion runs at a time, and only while nothing is built or merged.
Exclusive ==
    /\ \A d, e \in Deleting : d = e
    /\ Deleting # {} => task = "idle"

LEMMA DeleteStepFrame ==
    ASSUME Types, NEW d \in Deleter, DeleteStep(d)
    PROVE  /\ del[d].pc # "idle"
           /\ \A e \in Deleter : e # d => del'[e] = del[e]
           /\ UNCHANGED <<buildVars, flushed, doomed, cut, torn>>
BY DEF DeleteStep, DeleteLoad, DeleteSave, DeleteRename, DeleteEnd, DeleteFails,
       Proceed, Types, DelTypes, histVars

LEMMA NextExclusive ==
    ASSUME ~Overlap, Types, Exclusive, [Next]_vars
    PROVE  Exclusive'
<1>1. ASSUME UNCHANGED del, task' = "idle" \/ task' = task PROVE Exclusive'
  BY <1>1 DEF Exclusive, Deleting
<1>2. ASSUME UNCHANGED del, Deleting = {} PROVE Exclusive'
  BY <1>2 DEF Exclusive, Deleting
<1>3. CASE NewBuilder \/ CompactBegin
  BY <1>2, <1>3 DEF NewBuilder, CompactBegin, MayMaintain
<1>4. ASSUME NEW S \in SUBSET (Entry \ doomed), Add(S) PROVE Exclusive'
  BY <1>1, <1>4 DEF Add
<1>5. CASE Flush \/ MergeLoad \/ MergeRemove
  BY <1>1, <1>5 DEF Flush, MergeLoad, MergeRemove
<1>6. CASE CommitInPlace \/ CommitRename \/ MergeEnd \/ MaintenanceFails
  BY <1>1, <1>6 DEF CommitInPlace, CommitRename, MergeEnd, MaintenanceFails,
                    TaskEnds
<1>7. CASE CommitMerge \/ MergeRename
  BY <1>2, <1>7 DEF CommitMerge, MergeRename, Exclusive
<1>8. ASSUME NEW d \in Deleter, NEW D \in SUBSET flushed, DeleteBegin(d, D)
      PROVE  Exclusive'
  <2>1. Deleting = {} /\ task' = "idle"
    BY <1>8 DEF DeleteBegin, buildVars
  <2>2. \A e \in Deleter : e # d => del'[e] = del[e]
    BY <1>8 DEF DeleteBegin, Types, DelTypes
  <2> QED BY <2>1, <2>2 DEF Exclusive, Deleting
<1>9. ASSUME NEW d \in Deleter, DeleteStep(d) PROVE Exclusive'
  <2>1. Deleting' \subseteq Deleting /\ task' = task
    BY <1>9, DeleteStepFrame DEF Deleting, buildVars
  <2> QED BY <2>1 DEF Exclusive
<1>10. CASE Crash
  <2>1. Deleting' = {}
    BY <1>10 DEF Crash, Deleting, AtRest
  <2> QED BY <2>1 DEF Exclusive
<1>11. CASE UNCHANGED vars
  BY <1>1, <1>11 DEF vars, buildVars
<1> QED BY <1>3, <1>4, <1>5, <1>6, <1>7, <1>8, <1>9, <1>10, <1>11 DEF Next

-----------------------------------------------------------------------------
(* Nothing is lost.                                                        *)

\* The main file and the first n shards are all there, and they hold every
\* entry that was written and is not being, or has not been, deleted.
Kept(n) ==
    /\ n \in FileNo
    /\ \A g \in 1..n : file[g] # NoFile
    /\ \A x \in flushed \ doomed : \E f \in 0..n : x \in Content(f)

\* How far the entries reach depends on what the build goroutine is doing: to
\* the shard before the next one, to the last one that is being merged, and
\* once the merged file is in place, no further than the main file.
MaintenanceKeeps ==
    /\ task = "idle" => next = 0 /\ \E n \in FileNo : Kept(n)
    /\ task = "build" => next = 0 /\ Kept(sub - 1)
    /\ task = "load" =>
          Kept(last) /\ \A f \in FileNo : f < next => Content(f) \subseteq merged
    /\ task = "remove" => next >= 1 /\ Kept(0)

\* What a deletion is about to put in place of a file is that file, still as it
\* was read, without the entries to remove.
DeletionKeeps ==
    \A d \in Deleter :
        LET at == del[d].at IN
        /\ del[d].pc = "save" =>
              file[at] # NoFile /\ del[d].kept = file[at] \ del[d].drop
        /\ del[d].pc = "rename" =>
              file[at] # NoFile /\ delFile[at] = file[at] \ del[d].drop

LEMMA KeptIsStacked ==
    ASSUME NEW n, Kept(n), Types PROVE flushed \ doomed \subseteq Stacked
<1> SUFFICES ASSUME NEW x \in flushed \ doomed PROVE x \in Stacked
  OBVIOUS
<1>1. PICK f \in 0..n : x \in Content(f)
  BY DEF Kept
<1>2. f \in FileNo /\ 1..f \subseteq 1..n
  BY MaxShardsAssumption DEF Kept, FileNo
<1>3. InSight(f)
  BY <1>2 DEF Kept, InSight
<1> QED BY <1>1, <1>2, <1>3 DEF Stacked

\* Whatever the build goroutine is doing, dropping what it has in memory leaves
\* the entries on disk.
LEMMA SomethingKept ==
    ASSUME Types, MaintenanceKeeps PROVE \E n \in FileNo : Kept(n)
<1>1. \A n : Kept(n) => n \in FileNo
  BY DEF Kept
<1> QED BY <1>1 DEF Types, TypeOK, MaintenanceKeeps

\* The number of shards counted before a gap is at least n.
LEMMA KeptUpToCount ==
    ASSUME NEW m, Kept(m), NEW n \in FileNo, IsShardCount(n), Types
    PROVE  Kept(n)
<1>1. m <= n
  <2>1. ~ n < m
    <3> SUFFICES ASSUME n < m PROVE FALSE
      OBVIOUS
    <3>1. n + 1 \in 1..m /\ n < MaxShards
      BY MaxShardsAssumption DEF Kept, FileNo
    <3> QED BY <3>1 DEF Kept, IsShardCount
  <2> QED BY <2>1, MaxShardsAssumption DEF Kept, FileNo
<1>2. 0..m \subseteq 0..n
  BY <1>1, MaxShardsAssumption DEF Kept, FileNo
<1> QED BY <1>2 DEF Kept, IsShardCount

\* Kept depends on the files and on the history alone.
LEMMA KeptStays ==
    ASSUME NEW n, Kept(n), UNCHANGED <<file, flushed>>, doomed \subseteq doomed'
    PROVE  Kept(n)'
BY DEF Kept, Content
LEMMA NextMaintenanceKeeps ==
    ASSUME ~Overlap, Types, Types', Exclusive, MaintenanceKeeps, DeletionKeeps,
           [Next]_vars
    PROVE  MaintenanceKeeps'
<1> USE MaxShardsAssumption
<1>1. CASE NewBuilder
  <2>1. PICK m \in FileNo : Kept(m)
    BY <1>1 DEF NewBuilder, MaintenanceKeeps
  <2>2. PICK n \in FileNo : IsShardCount(n) /\ sub' = n + 1
    BY <1>1 DEF NewBuilder
  <2>3. Kept(n)
    BY <2>1, <2>2, KeptUpToCount
  <2>4. Kept(n)'
    BY <1>1, <2>3, KeptStays DEF NewBuilder, fileVars, histVars
  <2>5. sub' - 1 = n
    BY <2>2 DEF FileNo
  <2> QED BY <1>1, <2>4, <2>5 DEF NewBuilder, MaintenanceKeeps, mergeVars
<1>2. ASSUME NEW S \in SUBSET (Entry \ doomed), Add(S) PROVE MaintenanceKeeps'
  <2>1. Kept(sub - 1)'
    BY <1>2, KeptStays DEF Add, MaintenanceKeeps, fileVars, histVars, Kept, Content
  <2> QED BY <1>2, <2>1 DEF Add, MaintenanceKeeps, mergeVars
<1>3. CASE Flush
  <2>1. sub \in FileNo /\ sub' - 1 = sub /\ sub' = sub + 1 /\ Kept(sub - 1)
    BY <1>3 DEF Flush, Types, TypeOK, FileNo, MaintenanceKeeps
  <2>2. \A f \in FileNo : file'[f] = IF f = sub THEN il ELSE file[f]
    BY <1>3, <2>1 DEF Flush, Types
  <2>3. il # NoFile
    BY NoFileAssumption DEF Types, TypeOK
  <2>4. \A g \in 1..sub : file'[g] # NoFile
    BY <2>1, <2>2, <2>3 DEF Kept, FileNo
  <2>5. ASSUME NEW x \in flushed' \ doomed'
        PROVE  \E f \in 0..sub : x \in Content(f)'
    <3>1. CASE x \in il
      BY <2>1, <2>2, <2>3, <3>1 DEF Content, FileNo
    <3>2. CASE x \notin il
      <4>1. x \in flushed \ doomed
        BY <1>3, <2>5, <3>2 DEF Flush
      <4>2. PICK f \in 0..(sub - 1) : x \in Content(f)
        BY <2>1, <4>1 DEF Kept
      <4>3. f \in FileNo /\ f # sub /\ f \in 0..sub
        BY <2>1 DEF FileNo
      <4> QED BY <2>2, <4>2, <4>3 DEF Content
    <3> QED BY <3>1, <3>2
  <2>6. PICK n \in FileNo : n = sub
    BY <2>1
  <2>7. Kept(n)'
    BY <2>4, <2>5, <2>6 DEF Kept
  <2>8. sub' - 1 = n
    BY <2>1, <2>6
  <2> QED BY <1>3, <2>7, <2>8 DEF Flush, MaintenanceKeeps, mergeVars
<1>4. CASE CommitInPlace \/ MergeEnd \/ MaintenanceFails
  <2>1. PICK n \in FileNo : Kept(n)
    BY SomethingKept
  <2>2. TaskEnds /\ UNCHANGED <<fileVars, flushed, doomed>>
    BY <1>4 DEF CommitInPlace, MergeEnd, MaintenanceFails
  <2>3. Kept(n)'
    BY <2>1, <2>2, KeptStays DEF fileVars
  <2> QED BY <2>2, <2>3 DEF TaskEnds, MaintenanceKeeps
<1>5. CASE CommitRename
  <2>1. Kept(1) /\ file[0] = NoFile
    BY <1>5 DEF CommitRename, MaintenanceKeeps
  <2>2. 0 \in FileNo /\ 1 \in FileNo /\ file'[0] = file[1]
    BY <1>5 DEF CommitRename, Types, FileNo
  <2>3. \A x \in flushed \ doomed : x \in Content(1)
    BY <2>1 DEF Kept, Content
  <2>4. \A x \in flushed' \ doomed' : x \in Content(0)'
    BY <1>5, <2>2, <2>3 DEF CommitRename, Content
  <2>5. Kept(0)'
    BY <2>2, <2>4 DEF Kept
  <2> QED BY <1>5, <2>2, <2>5 DEF CommitRename, TaskEnds, MaintenanceKeeps
<1>6. CASE CommitMerge
  <2>1. Kept(last)'
    BY <1>6 DEF CommitMerge, MaintenanceKeeps, Kept, fileVars, histVars, Content
  <2>2. \A f \in FileNo : f < 1 => Content(f) = {}
    BY <1>6 DEF CommitMerge, Content, FileNo
  <2> QED BY <1>6, <2>1, <2>2
          DEF CommitMerge, MaintenanceKeeps, fileVars, Content
<1>7. CASE CompactBegin
  <2>1. PICK m \in FileNo : Kept(m)
    BY <1>7 DEF CompactBegin, MaintenanceKeeps
  <2>2. last' \in FileNo /\ IsShardCount(last')
    BY <1>7 DEF CompactBegin, Shards, FileNo
  <2>3. Kept(last')
    BY <2>1, <2>2, KeptUpToCount
  <2>4. Kept(last)'
    BY <1>7, <2>3 DEF CompactBegin, fileVars, histVars, Kept, Content
  <2>5. \A f \in FileNo : ~ f < next'
    BY <1>7 DEF CompactBegin, MaintenanceKeeps, FileNo
  <2> QED BY <1>7, <2>4, <2>5 DEF CompactBegin, MaintenanceKeeps
<1>8. CASE MergeLoad
  <2>1. Kept(last)'
    BY <1>8 DEF MergeLoad, MaintenanceKeeps, Kept, fileVars, histVars, Content
  <2>2. next' = next + 1 /\ next \in 0..(MaxShards + 1)
    BY <1>8 DEF MergeLoad, Types, TypeOK
  <2>3. \A f \in FileNo : f < next' => f < next \/ f = next
    BY <2>2 DEF FileNo
  <2>4. \A f \in FileNo : f < next' => Content(f) \subseteq merged'
    BY <1>8, <2>3 DEF MergeLoad, MaintenanceKeeps
  <2> QED BY <1>8, <2>1, <2>4 DEF MergeLoad, MaintenanceKeeps, fileVars, Content
<1>9. CASE MergeRename
  <2>1. \A x \in flushed \ doomed : x \in merged
    <3> SUFFICES ASSUME NEW x \in flushed \ doomed PROVE x \in merged
      OBVIOUS
    <3>1. PICK f \in 0..last : x \in Content(f)
      BY <1>9 DEF MergeRename, MaintenanceKeeps, Kept
    <3>2. f \in FileNo /\ f < next
      BY <1>9 DEF MergeRename, Types, TypeOK, FileNo
    <3> QED BY <1>9, <3>1, <3>2 DEF MergeRename, MaintenanceKeeps
  <2>2. 0 \in FileNo /\ file'[0] = merged /\ merged # NoFile
    BY <1>9, NoFileAssumption DEF MergeRename, Types, TypeOK, FileNo
  <2>3. Kept(0)'
    BY <1>9, <2>1, <2>2 DEF MergeRename, Kept, Content, histVars
  <2> QED BY <1>9, <2>3 DEF MergeRename, MaintenanceKeeps
<1>10. CASE MergeRemove
  <2>1. Kept(0) /\ next >= 1 /\ next' = next + 1 /\ next \in FileNo
    BY <1>10 DEF MergeRemove, MaintenanceKeeps, Types, TypeOK, FileNo
  <2>2. file'[0] = file[0]
    BY <1>10, <2>1 DEF MergeRemove, Types, FileNo
  <2>3. Kept(0)'
    BY <1>10, <2>1, <2>2 DEF MergeRemove, Kept, Content
  <2>4. next' >= 1
    BY <2>1 DEF FileNo
  <2> QED BY <1>10, <2>3, <2>4 DEF MergeRemove, MaintenanceKeeps
<1>11. ASSUME NEW d \in Deleter, NEW D \in SUBSET flushed, DeleteBegin(d, D)
       PROVE  MaintenanceKeeps'
  <2>1. task = "idle" /\ doomed \subseteq doomed'
        /\ UNCHANGED <<fileVars, buildVars, flushed>>
    BY <1>11 DEF DeleteBegin
  <2>2. PICK n \in FileNo : Kept(n)
    BY <2>1 DEF MaintenanceKeeps
  <2>3. Kept(n)'
    BY <2>1, <2>2, KeptStays DEF fileVars
  <2> QED BY <2>1, <2>3 DEF MaintenanceKeeps, buildVars, mergeVars
<1>12. ASSUME NEW d \in Deleter, DeleteStep(d) PROVE MaintenanceKeeps'
  <2>1. task = "idle" /\ UNCHANGED <<buildVars, flushed, doomed>>
    BY <1>12, DeleteStepFrame DEF Exclusive, Deleting
  <2>2. PICK n \in FileNo : Kept(n)
    BY <2>1 DEF MaintenanceKeeps
  <2>3. CASE DeleteRename(d)
    <3> DEFINE at == del[d].at
    <3>1. /\ at \in FileNo /\ file[at] # NoFile
          /\ delFile[at] = file[at] \ del[d].drop
          /\ del[d].drop \subseteq doomed
      BY <2>3 DEF DeleteRename, Types, DelTypes, DeletionKeeps
    <3>2. \A f \in FileNo : file'[f] = IF f = at THEN delFile[at] ELSE file[f]
      BY <2>3, <3>1 DEF DeleteRename, Types
    <3>3. delFile[at] # NoFile
      BY <2>3 DEF DeleteRename
    <3>4. \A f \in FileNo : file[f] # NoFile => file'[f] # NoFile
      BY <3>2, <3>3
    <3>5. \A f \in FileNo : Content(f) \ doomed \subseteq Content(f)'
      BY <3>1, <3>2, <3>3 DEF Content
    <3>6. \A f \in 0..n : f \in FileNo
      BY DEF FileNo
    <3>7. \A g \in 1..n : file'[g] # NoFile
      BY <2>2, <3>4, <3>6 DEF Kept
    <3>8. \A x \in flushed \ doomed : \E f \in 0..n : x \in Content(f)'
      BY <2>2, <3>5, <3>6 DEF Kept
    <3>9. Kept(n)'
      BY <2>1, <3>7, <3>8 DEF Kept
    <3> QED BY <2>1, <3>9 DEF MaintenanceKeeps, buildVars, mergeVars
  <2>4. CASE UNCHANGED file
    BY <2>1, <2>2, <2>4, KeptStays DEF MaintenanceKeeps, buildVars, mergeVars
  <2> QED BY <1>12, <2>3, <2>4 DEF DeleteStep, DeleteLoad, DeleteSave, DeleteEnd,
                                   DeleteFails, fileVars
<1>13. CASE Crash
  <2>1. PICK n \in FileNo : Kept(n)
    BY SomethingKept
  <2>2. TaskEnds /\ UNCHANGED <<fileVars, flushed, doomed>>
    BY <1>13 DEF Crash
  <2>3. Kept(n)'
    BY <2>1, <2>2, KeptStays DEF fileVars
  <2> QED BY <2>2, <2>3 DEF TaskEnds, MaintenanceKeeps
<1>14. CASE UNCHANGED vars
  BY <1>14 DEF vars, fileVars, buildVars, mergeVars, histVars, MaintenanceKeeps,
               Kept, Content
<1> QED BY <1>1, <1>2, <1>3, <1>4, <1>5, <1>6, <1>7, <1>8, <1>9, <1>10, <1>11,
           <1>12, <1>13, <1>14 DEF Next
LEMMA NextDeletionKeeps ==
    ASSUME ~Overlap, Types, Exclusive, MaintenanceKeeps, DeletionKeeps, [Next]_vars
    PROVE  DeletionKeeps'
<1>1. ASSUME UNCHANGED <<fileVars, del>> PROVE DeletionKeeps'
  BY <1>1 DEF DeletionKeeps, fileVars
<1>2. ASSUME UNCHANGED del, task # "idle" PROVE DeletionKeeps'
  <2>1. \A d \in Deleter : del'[d].pc = "idle"
    BY <1>2 DEF Exclusive, Deleting
  <2> QED BY <2>1 DEF DeletionKeeps
<1>3. CASE NewBuilder \/ CommitInPlace \/ CommitMerge \/ CompactBegin
           \/ MergeLoad \/ MergeEnd \/ MaintenanceFails \/ UNCHANGED vars
  BY <1>1, <1>3 DEF NewBuilder, CommitInPlace, CommitMerge, CompactBegin,
                    MergeLoad, MergeEnd, MaintenanceFails, vars
<1>4. ASSUME NEW S \in SUBSET (Entry \ doomed), Add(S) PROVE DeletionKeeps'
  BY <1>1, <1>4 DEF Add
<1>5. CASE Flush \/ CommitRename \/ MergeRename \/ MergeRemove
  BY <1>2, <1>5 DEF Flush, CommitRename, MergeRename, MergeRemove
<1>6. ASSUME NEW d \in Deleter, NEW D \in SUBSET flushed, DeleteBegin(d, D)
      PROVE  DeletionKeeps'
  <2>1. \A e \in Deleter : del[e].pc = "idle"
    BY <1>6 DEF DeleteBegin, Deleting
  <2>2. \A e \in Deleter : del'[e].pc \in {"idle", "load"}
    BY <1>6, <2>1 DEF DeleteBegin, Types, DelTypes
  <2> QED BY <2>2 DEF DeletionKeeps
<1>7. ASSUME NEW d \in Deleter, DeleteStep(d) PROVE DeletionKeeps'
  <2>1. \A e \in Deleter : e # d => del'[e].pc = "idle"
    BY <1>7, DeleteStepFrame DEF Exclusive, Deleting
  <2>2. CASE DeleteLoad(d)
    <3>1. CASE file[del[d].at] # NoFile
               /\ Proceed(d, "save", del[d].at, file[del[d].at] \ del[d].drop)
      <4>1. /\ del'[d].pc = "save" /\ del'[d].at = del[d].at
            /\ del'[d].drop = del[d].drop
            /\ del'[d].kept = file[del[d].at] \ del[d].drop
        BY <3>1 DEF Proceed, Types, DelTypes
      <4>2. UNCHANGED fileVars
        BY <2>2 DEF DeleteLoad
      <4> QED BY <2>1, <3>1, <4>1, <4>2 DEF DeletionKeeps, fileVars
    <3>2. CASE Proceed(d, "load", 1, {})
      <4>1. del'[d].pc = "load"
        BY <3>2 DEF Proceed, Types, DelTypes
      <4> QED BY <2>1, <4>1 DEF DeletionKeeps
    <3> QED BY <2>2, <3>1, <3>2 DEF DeleteLoad
  <2>3. CASE DeleteSave(d)
    <3>1. /\ del'[d].pc = "rename" /\ del'[d].at = del[d].at
          /\ del'[d].drop = del[d].drop
      BY <2>3 DEF DeleteSave, Proceed, Types, DelTypes
    <3>2. /\ file[del[d].at] # NoFile
          /\ del[d].kept = file[del[d].at] \ del[d].drop
          /\ del[d].at \in FileNo
      BY <2>3 DEF DeleteSave, DeletionKeeps, Types, DelTypes
    <3>3. delFile'[del[d].at] = del[d].kept /\ file' = file
      BY <2>3, <3>2 DEF DeleteSave, Types
    <3> QED BY <2>1, <3>1, <3>2, <3>3 DEF DeletionKeeps
  <2>4. CASE DeleteRename(d) \/ DeleteEnd(d) \/ DeleteFails(d)
    <3>1. del'[d].pc \in {"idle", "load"}
      BY <2>4 DEF DeleteRename, DeleteEnd, DeleteFails, Proceed, AtRest, Types,
                  DelTypes
    <3> QED BY <2>1, <3>1 DEF DeletionKeeps
  <2> QED BY <1>7, <2>2, <2>3, <2>4 DEF DeleteStep
<1>8. CASE Crash
  <2>1. \A d \in Deleter : del'[d].pc = "idle"
    BY <1>8 DEF Crash, AtRest
  <2> QED BY <2>1 DEF DeletionKeeps
<1> QED BY <1>3, <1>4, <1>5, <1>6, <1>7, <1>8 DEF Next

-----------------------------------------------------------------------------
Keeping == Types /\ Exclusive /\ MaintenanceKeeps /\ DeletionKeeps

LEMMA InitKeeping == Init => Keeping
<1> SUFFICES ASSUME Init PROVE Keeping
  OBVIOUS
<1>1. \A d \in Deleter : del[d].pc = "idle"
  BY DEF Init, AtRest
<1>2. Exclusive /\ DeletionKeeps
  BY <1>1 DEF Exclusive, Deleting, DeletionKeeps
<1>3. Kept(0)
  BY MaxShardsAssumption DEF Init, Kept, FileNo
<1>4. MaintenanceKeeps
  BY <1>3, MaxShardsAssumption DEF Init, MaintenanceKeeps, FileNo
<1> QED BY <1>2, <1>4, InitTypes DEF Keeping

LEMMA NextKeeping == ASSUME ~Overlap, Keeping, [Next]_vars PROVE Keeping'
<1>1. Types'
  BY NextTypes DEF Keeping
<1> QED BY <1>1, NextExclusive, NextMaintenanceKeeps, NextDeletionKeeps DEF Keeping

\* The types hold whether or not deletions overlap with anything.
THEOREM TypeCorrectness == Spec => []TypeOK
<1>1. Types => TypeOK
  BY DEF Types
<1> QED BY <1>1, InitTypes, NextTypes, PTL DEF Spec

LEMMA KeepingAlways == ASSUME ~Overlap PROVE Spec => []Keeping
BY InitKeeping, NextKeeping, PTL DEF Spec

-----------------------------------------------------------------------------
(* No file is left over.                                                   *)

\* What is in memory belongs to what is being done.
Memory ==
    /\ task # "build" => il = {}
    /\ task \in {"idle", "build"} => merged = {}
    /\ il \cap doomed = {}
    /\ \A d \in Deleter : del[d].pc = "idle" => del[d].drop = {}

LEMMA NextMemory ==
    ASSUME ~Overlap, Keeping, Memory, [Next]_vars PROVE Memory'
<1> USE DEF Keeping, Types, DelTypes
<1>1. ASSUME UNCHANGED <<task, il, merged, del, doomed>> PROVE Memory'
  BY <1>1 DEF Memory
<1>2. ASSUME TaskEnds, UNCHANGED <<del, doomed>> PROVE Memory'
  BY <1>2 DEF Memory, TaskEnds
<1>3. CASE NewBuilder \/ CommitMerge \/ CompactBegin \/ MergeLoad \/ MergeRename
  <2>1. UNCHANGED <<del, doomed>>
    BY <1>3 DEF NewBuilder, CommitMerge, CompactBegin, MergeLoad, MergeRename,
                histVars
  <2>2. task' # "build" => il' = {}
    BY <1>3 DEF NewBuilder, CommitMerge, CompactBegin, MergeLoad, MergeRename,
                Memory
  <2>3. task' \in {"idle", "build"} => merged' = {}
    BY <1>3 DEF NewBuilder, CommitMerge, CompactBegin, MergeLoad, MergeRename,
                Memory, mergeVars
  <2>4. il' = {} \/ il' = il
    BY <1>3 DEF NewBuilder, CommitMerge, CompactBegin, MergeLoad, MergeRename
  <2> QED BY <2>1, <2>2, <2>3, <2>4 DEF Memory
<1>4. ASSUME NEW S \in SUBSET (Entry \ doomed), Add(S) PROVE Memory'
  BY <1>4 DEF Add, Memory, mergeVars, histVars
<1>5. CASE Flush
  BY <1>5 DEF Flush, Memory, mergeVars
<1>6. CASE CommitInPlace \/ CommitRename \/ MergeEnd \/ MaintenanceFails
  BY <1>2, <1>6 DEF CommitInPlace, CommitRename, MergeEnd, MaintenanceFails
<1>7. CASE MergeRemove
  BY <1>1, <1>7 DEF MergeRemove
<1>8. ASSUME NEW d \in Deleter, NEW D \in SUBSET flushed, DeleteBegin(d, D)
      PROVE  Memory'
  <2>1. il = {} /\ UNCHANGED <<task, il, merged>>
    BY <1>8 DEF DeleteBegin, Memory, buildVars, mergeVars
  <2>2. \A e \in Deleter : del'[e].pc = "idle" => del'[e] = del[e]
    BY <1>8 DEF DeleteBegin
  <2> QED BY <2>1, <2>2 DEF Memory
<1>9. ASSUME NEW d \in Deleter, DeleteStep(d) PROVE Memory'
  <2>1. UNCHANGED <<task, il, merged, doomed>>
    BY <1>9, DeleteStepFrame DEF buildVars, mergeVars
  <2>2. \A e \in Deleter : e # d => del'[e] = del[e]
    BY <1>9, DeleteStepFrame
  <2>3. del'[d].pc = "idle" => del'[d].drop = {}
    BY <1>9 DEF DeleteStep, DeleteLoad, DeleteSave, DeleteRename, DeleteEnd,
                DeleteFails, Proceed, AtRest
  <2> QED BY <2>1, <2>2, <2>3 DEF Memory
<1>10. CASE Crash
  <2>1. \A d \in Deleter : del'[d].drop = {}
    BY <1>10 DEF Crash, AtRest
  <2> QED BY <1>10, <2>1 DEF Crash, TaskEnds, Memory
<1>11. CASE UNCHANGED vars
  BY <1>1, <1>11 DEF vars, buildVars, mergeVars, histVars
<1> QED BY <1>3, <1>4, <1>5, <1>6, <1>7, <1>8, <1>9, <1>10, <1>11 DEF Next

\* Unless a merge has not removed all of its shards, the shards on disk are
\* the ones counted: those before a gap, those before the next one to write,
\* those being merged, those still to be removed.
Counted ==
    ~torn => \A f \in Shards : file[f] # NoFile =>
        /\ task = "idle" => InSight(f)
        /\ task = "build" => f < sub
        /\ task = "load" => f <= last
        /\ task = "remove" => next <= f /\ f <= last

LEMMA TornStays == ASSUME [Next]_vars, torn PROVE torn'
BY DEF Next, vars, NewBuilder, Add, Flush, CommitInPlace, CommitRename,
       CommitMerge, CompactBegin, MergeLoad, MergeRename, MergeRemove, MergeEnd,
       MaintenanceFails, DeleteBegin, DeleteStep, DeleteLoad, DeleteSave,
       DeleteRename, DeleteEnd, DeleteFails, Crash, histVars

LEMMA CountedIsInSight ==
    ASSUME Keeping, Counted PROVE NoHiddenShards
<1> SUFFICES ASSUME ~torn, task # "remove",
                    NEW f \in Shards, file[f] # NoFile
             PROVE  InSight(f)
  BY DEF NoHiddenShards
<1>1. ASSUME NEW n \in FileNo, Kept(n), f <= n PROVE InSight(f)
  BY <1>1 DEF Kept, InSight, FileNo, Shards
<1>2. CASE task = "idle"
  BY <1>2 DEF Counted
<1>3. CASE task = "build"
  <2>1. Kept(sub - 1) /\ sub - 1 \in FileNo /\ f <= sub - 1
    BY <1>3 DEF Keeping, Types, TypeOK, MaintenanceKeeps, Counted, Shards, Kept
  <2> QED BY <1>1, <2>1
<1>4. CASE task = "load"
  <2>1. Kept(last) /\ last \in FileNo /\ f <= last
    BY <1>4 DEF Keeping, MaintenanceKeeps, Counted, Kept
  <2> QED BY <1>1, <2>1
<1> QED BY <1>2, <1>3, <1>4 DEF Keeping, Types, TypeOK

\* Counting finds every shard.
LEMMA CountIsComplete ==
    ASSUME NEW n \in FileNo, IsShardCount(n), NEW f \in Shards, InSight(f)
    PROVE  f <= n
<1> SUFFICES ASSUME ~ f <= n PROVE FALSE
  OBVIOUS
<1>1. n + 1 \in 1..f /\ n < MaxShards
  BY MaxShardsAssumption DEF FileNo, Shards
<1> QED BY <1>1 DEF IsShardCount, InSight
\* A deletion puts a file in place of a file, with no more in it than before.
LEMMA DeleteStepFiles ==
    ASSUME Keeping, NEW d \in Deleter, DeleteStep(d), NEW f \in FileNo
    PROVE  /\ file'[f] = NoFile <=> file[f] = NoFile
           /\ Content(f)' \subseteq Content(f)
           /\ Content(f) \ Content(f)' \subseteq del[d].drop
<1>1. CASE DeleteRename(d)
  <2> DEFINE at == del[d].at
  <2>1. /\ at \in FileNo /\ file[at] # NoFile /\ delFile[at] # NoFile
        /\ delFile[at] = file[at] \ del[d].drop
    BY <1>1 DEF DeleteRename, Keeping, Types, DelTypes, DeletionKeeps
  <2>2. file'[f] = IF f = at THEN delFile[at] ELSE file[f]
    BY <1>1, <2>1 DEF DeleteRename, Keeping, Types
  <2> QED BY <2>1, <2>2 DEF Content
<1>2. CASE UNCHANGED file
  BY <1>2 DEF Content
<1> QED BY <1>1, <1>2 DEF DeleteStep, DeleteLoad, DeleteSave, DeleteEnd,
                          DeleteFails, fileVars

LEMMA NextCounted ==
    ASSUME ~Overlap, Keeping, Counted, [Next]_vars PROVE Counted'
<1> USE MaxShardsAssumption
<1>0. SUFFICES ASSUME ~torn, ~torn', NEW f \in Shards, file'[f] # NoFile
               PROVE  /\ task' = "idle" => InSight(f)'
                      /\ task' = "build" => f < sub'
                      /\ task' = "load" => f <= last'
                      /\ task' = "remove" => next' <= f /\ f <= last'
  BY TornStays DEF Counted
<1> DEFINE Goal == /\ task' = "idle" => InSight(f)'
                   /\ task' = "build" => f < sub'
                   /\ task' = "load" => f <= last'
                   /\ task' = "remove" => next' <= f /\ f <= last'
<1>a. f \in FileNo
  BY DEF Shards, FileNo
<1>b. task # "remove" /\ file[f] # NoFile => InSight(f)
  BY <1>0, CountedIsInSight DEF NoHiddenShards
<1>1. CASE NewBuilder
  <2>1. PICK n \in FileNo : IsShardCount(n) /\ sub' = n + 1
    BY <1>1 DEF NewBuilder
  <2>2. InSight(f)
    BY <1>1, <1>0, <1>b DEF NewBuilder, fileVars
  <2>3. f <= n
    BY <2>1, <2>2, CountIsComplete
  <2> QED BY <1>1, <2>1, <2>3 DEF NewBuilder, Shards, FileNo
<1>2. ASSUME NEW S \in SUBSET (Entry \ doomed), Add(S) PROVE Goal
  BY <1>0, <1>2 DEF Add, Counted, fileVars
<1>3. CASE Flush
  <2>1. sub \in FileNo /\ sub' = sub + 1 /\ task' = "build"
    BY <1>3 DEF Flush, Keeping, Types, TypeOK, FileNo
  <2>2. f # sub => file'[f] = file[f]
    BY <1>3, <1>a, <2>1 DEF Flush, Keeping, Types
  <2>3. f # sub => f < sub
    BY <1>0, <1>3, <2>2 DEF Flush, Counted
  <2> QED BY <2>1, <2>3 DEF Shards, FileNo
<1>4. CASE CommitInPlace \/ MaintenanceFails \/ Crash
  <2>1. task' = "idle" /\ file' = file /\ task # "remove"
    BY <1>0, <1>4 DEF CommitInPlace, MaintenanceFails, Crash, TaskEnds, fileVars
  <2>2. InSight(f)
    BY <1>0, <1>b, <2>1
  <2> QED BY <2>1, <2>2 DEF InSight
<1>5. CASE CommitRename
  <2>1. 0 \in FileNo /\ 1 \in FileNo
    BY DEF FileNo
  <2>2. f # 1 /\ (f > 1 => file[f] # NoFile)
    BY <1>0, <1>5, <1>a, <2>1 DEF CommitRename, Keeping, Types
  <2>3. f > 1
    BY <2>2 DEF Shards
  <2>4. f < 2
    BY <1>0, <1>5, <2>2, <2>3 DEF CommitRename, Counted
  <2> QED BY <2>3, <2>4 DEF Shards
<1>6. CASE CommitMerge
  BY <1>0, <1>6 DEF CommitMerge, fileVars, Counted, Keeping, Types, TypeOK, Shards
<1>7. CASE CompactBegin
  <2>1. last' \in FileNo /\ IsShardCount(last') /\ task' = "load"
    BY <1>7 DEF CompactBegin, Shards, FileNo
  <2>2. InSight(f)
    BY <1>7, <1>0, <1>b DEF CompactBegin, fileVars
  <2>3. f <= last'
    BY <2>1, <2>2, CountIsComplete
  <2> QED BY <2>1, <2>3
<1>8. CASE MergeLoad
  BY <1>0, <1>8 DEF MergeLoad, fileVars, Counted
<1>9. CASE MergeRename
  <2>1. file'[f] = file[f]
    BY <1>9, <1>a DEF MergeRename, Keeping, Types, Shards, FileNo
  <2>2. f <= last
    BY <1>0, <1>9, <2>1 DEF MergeRename, Counted
  <2>3. task' = "remove" /\ last' = last /\ next' = 1
    BY <1>9 DEF MergeRename
  <2> QED BY <2>2, <2>3 DEF Shards
<1>10. CASE MergeRemove
  <2>1. file' = [file EXCEPT ![next] = NoFile]
    BY <1>0, <1>10 DEF MergeRemove
  <2>2. next \in FileNo
    BY <1>10 DEF MergeRemove, Keeping, Types, TypeOK, FileNo
  <2>3. f # next /\ file'[f] = file[f]
    BY <1>0, <1>a, <2>1, <2>2 DEF Keeping, Types
  <2>4. next <= f /\ f <= last
    BY <1>0, <1>10, <2>3 DEF MergeRemove, Counted
  <2>5. next + 1 <= f
    BY <2>2, <2>3, <2>4 DEF FileNo, Shards
  <2> QED BY <1>10, <2>4, <2>5 DEF MergeRemove
<1>11. CASE MergeEnd
  <2>1. next <= f /\ f <= last /\ next > last
    BY <1>0, <1>11 DEF MergeEnd, fileVars, Counted
  <2>2. next \in Int /\ last \in Int
    BY DEF Keeping, Types, TypeOK, FileNo
  <2> QED BY <2>1, <2>2 DEF Shards
<1>12. ASSUME NEW d \in Deleter, NEW D \in SUBSET flushed, DeleteBegin(d, D)
       PROVE  Goal
  BY <1>0, <1>12 DEF DeleteBegin, fileVars, buildVars, mergeVars, Counted, InSight
<1>13. ASSUME NEW d \in Deleter, DeleteStep(d) PROVE Goal
  <2>1. task = "idle" /\ UNCHANGED buildVars
    BY <1>13, DeleteStepFrame DEF Keeping, Exclusive, Deleting
  <2>2. InSight(f)
    BY <1>0, <1>13, <1>a, <1>b, <2>1, DeleteStepFiles
  <2>3. InSight(f)'
    <3>1. \A g \in 1..f : g \in FileNo
      BY DEF Shards, FileNo
    <3> QED BY <1>13, <2>2, <3>1, DeleteStepFiles DEF InSight
  <2> QED BY <2>1, <2>3 DEF buildVars
<1>14. CASE UNCHANGED vars
  BY <1>0, <1>14 DEF vars, fileVars, buildVars, mergeVars, Counted, InSight
<1> QED BY <1>1, <1>2, <1>3, <1>4, <1>5, <1>6, <1>7, <1>8, <1>9, <1>10, <1>11,
           <1>12, <1>13, <1>14 DEF Next
-----------------------------------------------------------------------------
(* What has been deleted is gone.                                          *)

\* The files a deletion is done with hold none of its entries.
Progress ==
    \A d \in Deleter, f \in FileNo :
        del[d].pc # "idle" /\ f < del[d].at => Content(f) \cap del[d].drop = {}

LEMMA NextProgress ==
    ASSUME ~Overlap, Keeping, Progress, [Next]_vars PROVE Progress'
<1> USE DEF Keeping
<1>1. ASSUME UNCHANGED <<file, del>> PROVE Progress'
  BY <1>1 DEF Progress, Content
<1>2. ASSUME UNCHANGED del, task # "idle" PROVE Progress'
  <2>1. \A d \in Deleter : del'[d].pc = "idle"
    BY <1>2 DEF Exclusive, Deleting
  <2> QED BY <2>1 DEF Progress
<1>3. CASE NewBuilder \/ CommitInPlace \/ CommitMerge \/ CompactBegin
           \/ MergeLoad \/ MergeEnd \/ MaintenanceFails \/ UNCHANGED vars
  BY <1>1, <1>3 DEF NewBuilder, CommitInPlace, CommitMerge, CompactBegin,
                    MergeLoad, MergeEnd, MaintenanceFails, vars, fileVars
<1>4. ASSUME NEW S \in SUBSET (Entry \ doomed), Add(S) PROVE Progress'
  BY <1>1, <1>4 DEF Add, fileVars
<1>5. CASE Flush \/ CommitRename \/ MergeRename \/ MergeRemove
  BY <1>2, <1>5 DEF Flush, CommitRename, MergeRename, MergeRemove
<1>6. ASSUME NEW d \in Deleter, NEW D \in SUBSET flushed, DeleteBegin(d, D)
      PROVE  Progress'
  <2>1. \A e \in Deleter : e # d => del'[e].pc = "idle"
    BY <1>6 DEF DeleteBegin, Deleting, Types, DelTypes
  <2>2. del'[d].at = 0
    BY <1>6 DEF DeleteBegin, Types, DelTypes
  <2>3. \A f \in FileNo : ~ f < del'[d].at
    BY <2>2 DEF FileNo
  <2> QED BY <2>1, <2>3 DEF Progress
<1>7. ASSUME NEW d \in Deleter, DeleteStep(d) PROVE Progress'
  <2>1. \A e \in Deleter : e # d => del'[e].pc = "idle"
    BY <1>7, DeleteStepFrame DEF Exclusive, Deleting
  <2>2. CASE del'[d].pc # "idle"
    <3>1. SUFFICES ASSUME NEW f \in FileNo, f < del'[d].at
                   PROVE  Content(f)' \cap del'[d].drop = {}
      BY <2>1 DEF Progress
    <3>2. del'[d].drop = del[d].drop
      BY <1>7, <2>2 DEF DeleteStep, DeleteLoad, DeleteSave, DeleteRename,
                        DeleteEnd, DeleteFails, Proceed, AtRest, Types, DelTypes
    <3>3. CASE f < del[d].at
      BY <1>7, <3>2, <3>3, DeleteStepFiles, DeleteStepFrame DEF Progress
    <3>4. CASE ~ f < del[d].at
      <4>1. CASE DeleteRename(d)
        <5>1. /\ del[d].at \in FileNo /\ del'[d].at = del[d].at + 1
              /\ delFile[del[d].at] = file[del[d].at] \ del[d].drop
              /\ delFile[del[d].at] # NoFile
          BY <4>1 DEF DeleteRename, Proceed, Types, DelTypes, DeletionKeeps
        <5>2. f = del[d].at
          BY <3>1, <3>4, <5>1 DEF FileNo
        <5>3. file'[f] = file[f] \ del[d].drop /\ file'[f] # NoFile
          BY <4>1, <5>1, <5>2 DEF DeleteRename, Types
        <5> QED BY <3>2, <5>3 DEF Content
      <4>2. CASE file[del[d].at] = NoFile /\ del[d].at = 0 /\ UNCHANGED file
                 /\ Proceed(d, "load", 1, {})
        <5>1. f = 0
          BY <3>1, <4>2 DEF Proceed, Types, DelTypes, FileNo
        <5> QED BY <4>2, <5>1 DEF Content
      <4>3. CASE del'[d].at = del[d].at
        BY <3>1, <3>4, <4>3
      <4> QED BY <1>7, <2>2, <4>1, <4>2, <4>3
              DEF DeleteStep, DeleteLoad, DeleteSave, DeleteEnd, DeleteFails,
                  Proceed, AtRest, Types, DelTypes, fileVars
    <3> QED BY <3>3, <3>4
  <2> QED BY <2>1, <2>2 DEF Progress
<1>8. CASE Crash
  <2>1. \A d \in Deleter : del'[d].pc = "idle"
    BY <1>8 DEF Crash, AtRest
  <2> QED BY <2>1 DEF Progress
<1> QED BY <1>3, <1>4, <1>5, <1>6, <1>7, <1>8 DEF Next

\* Unless a merge has not removed all of its shards, deleted entries are in no
\* file and in no running merge.
Gone ==
    ~torn => /\ \A f \in FileNo : Content(f) \cap purged = {}
             /\ merged \cap purged = {}

LEMMA NextGone ==
    ASSUME ~Overlap, Keeping, Memory, Counted, Progress, Gone, [Next]_vars
    PROVE  Gone'
<1> USE DEF Keeping, Types
<1>0. SUFFICES ASSUME ~torn, ~torn' PROVE Gone'
  BY TornStays DEF Gone
<1>1. ASSUME UNCHANGED <<file, purged>>, merged' = merged \/ merged' = {}
      PROVE  Gone'
  BY <1>0, <1>1 DEF Gone, Content
<1>2. CASE NewBuilder \/ CommitInPlace \/ CommitMerge \/ CompactBegin
           \/ MergeEnd \/ MaintenanceFails \/ Crash \/ UNCHANGED vars
  BY <1>1, <1>2 DEF NewBuilder, CommitInPlace, CommitMerge, CompactBegin,
                    MergeEnd, MaintenanceFails, Crash, vars, fileVars, buildVars,
                    mergeVars, histVars, TaskEnds
<1>3. ASSUME NEW S \in SUBSET (Entry \ doomed), Add(S) PROVE Gone'
  BY <1>1, <1>3 DEF Add, fileVars, mergeVars, histVars
<1>4. CASE Flush
  <2>1. sub \in FileNo
    BY <1>4 DEF Flush, TypeOK, FileNo
  <2>2. \A f \in FileNo : file'[f] = IF f = sub THEN il ELSE file[f]
    BY <1>4, <2>1 DEF Flush
  <2>3. il \cap purged = {}
    BY DEF Memory, TypeOK
  <2>4. \A f \in FileNo : Content(f)' \cap purged = {}
    BY <1>0, <2>2, <2>3 DEF Gone, Content
  <2> QED BY <1>0, <1>4, <2>4 DEF Flush, Gone, mergeVars
<1>5. CASE CommitRename
  <2>1. 0 \in FileNo /\ 1 \in FileNo
    BY MaxShardsAssumption DEF FileNo
  <2>2. \A f \in FileNo : file'[f] = IF f = 1 THEN NoFile ELSE
                                     IF f = 0 THEN file[1] ELSE file[f]
    BY <1>5, <2>1 DEF CommitRename
  <2>3. \A f \in FileNo : Content(f)' \cap purged = {}
    BY <1>0, <2>1, <2>2 DEF Gone, Content
  <2> QED BY <1>5, <2>3 DEF CommitRename, TaskEnds, Gone
<1>6. CASE MergeLoad
  <2>1. next \in FileNo
    BY <1>6, MaxShardsAssumption DEF MergeLoad, TypeOK, FileNo
  <2>2. merged' \cap purged = {}
    BY <1>0, <1>6, <2>1 DEF MergeLoad, Gone
  <2> QED BY <1>0, <1>6, <2>2 DEF MergeLoad, Gone, fileVars, histVars, Content
<1>7. CASE MergeRename
  <2>1. 0 \in FileNo
    BY MaxShardsAssumption DEF FileNo
  <2>2. \A f \in FileNo : file'[f] = IF f = 0 THEN merged ELSE file[f]
    BY <1>7, <2>1 DEF MergeRename
  <2>3. \A f \in FileNo : Content(f)' \cap purged = {}
    BY <1>0, <2>2 DEF Gone, Content
  <2> QED BY <1>0, <1>7, <2>3 DEF MergeRename, Gone, histVars
<1>8. CASE MergeRemove
  <2>1. next \in FileNo /\ file' = [file EXCEPT ![next] = NoFile]
    BY <1>0, <1>8, MaxShardsAssumption DEF MergeRemove, TypeOK, FileNo
  <2>2. \A f \in FileNo : Content(f)' \subseteq Content(f)
    BY <2>1 DEF Content
  <2> QED BY <1>0, <1>8, <2>2 DEF MergeRemove, Gone
<1>9. ASSUME NEW d \in Deleter, NEW D \in SUBSET flushed, DeleteBegin(d, D)
      PROVE  Gone'
  BY <1>1, <1>9 DEF DeleteBegin, fileVars, buildVars, mergeVars
<1>10. ASSUME NEW d \in Deleter, DeleteStep(d) PROVE Gone'
  <2>1. task = "idle" /\ merged = {} /\ merged' = {}
    BY <1>10, DeleteStepFrame DEF Exclusive, Deleting, Memory, buildVars, mergeVars
  <2>2. CASE purged' = purged
    BY <1>0, <1>10, <2>1, <2>2, DeleteStepFiles DEF Gone
  <2>3. CASE DeleteEnd(d)
    <3>1. SUFFICES ASSUME NEW f \in FileNo
                   PROVE  Content(f) \cap del[d].drop = {}
      BY <1>0, <2>1, <2>3 DEF DeleteEnd, Gone, fileVars, Content
    <3>2. CASE f < del[d].at
      BY <2>3, <3>2 DEF Progress, DeleteEnd
    <3>3. CASE ~ f < del[d].at
      <4>1. SUFFICES ASSUME file[f] # NoFile PROVE FALSE
        BY DEF Content
      <4>2. f \in Shards /\ del[d].at \in 1..f /\ del[d].at <= MaxShards
        BY <2>3, <3>3, MaxShardsAssumption
           DEF DeleteEnd, DelTypes, FileNo, Shards
      <4>3. InSight(f)
        BY <1>0, <2>1, <4>1, <4>2 DEF Counted
      <4> QED BY <2>3, <4>2, <4>3 DEF DeleteEnd, InSight
    <3> QED BY <3>2, <3>3
  <2> QED BY <1>10, <2>2, <2>3 DEF DeleteStep, DeleteLoad, DeleteSave,
                                   DeleteRename, DeleteFails, histVars
<1> QED BY <1>2, <1>3, <1>4, <1>5, <1>6, <1>7, <1>8, <1>9, <1>10 DEF Next
-----------------------------------------------------------------------------
(* The main file.                                                          *)

\* A build that starts without shards has none in its way, and a merge has put
\* the main file in place before it removes a shard.
Headed ==
    /\ OpensAfterBuild
    /\ task = "build" /\ sub = 1 => file[1] = NoFile
    /\ task = "remove" => file[0] # NoFile

LEMMA NextHeaded ==
    ASSUME ~Overlap, Keeping, Headed, [Next]_vars PROVE Headed'
<1> USE DEF Keeping, Types
<1>a. 0 \in FileNo /\ 1 \in FileNo
  BY MaxShardsAssumption DEF FileNo
<1>1. CASE NewBuilder
  <2>1. PICK n \in FileNo : IsShardCount(n) /\ sub' = n + 1
    BY <1>1 DEF NewBuilder
  <2>2. sub' = 1 => file[1] = NoFile
    BY <2>1, MaxShardsAssumption DEF IsShardCount, FileNo
  <2> QED BY <1>1, <2>2 DEF NewBuilder, Headed, OpensAfterBuild, fileVars
<1>2. ASSUME NEW S \in SUBSET (Entry \ doomed), Add(S) PROVE Headed'
  BY <1>2 DEF Add, Headed, OpensAfterBuild, fileVars
<1>3. CASE Flush
  <2>1. sub' # 1 /\ task' = "build"
    BY <1>3 DEF Flush, TypeOK
  <2> QED BY <2>1 DEF Headed, OpensAfterBuild
<1>4. CASE CommitInPlace
  BY <1>4 DEF CommitInPlace, TaskEnds, Headed, OpensAfterBuild, fileVars
<1>5. CASE CommitRename
  <2>1. file'[1] = NoFile /\ task' = "idle"
    BY <1>5, <1>a DEF CommitRename, TaskEnds
  <2> QED BY <2>1 DEF Headed, OpensAfterBuild
<1>6. CASE CommitMerge \/ CompactBegin \/ MergeLoad
  BY <1>6 DEF CommitMerge, CompactBegin, MergeLoad, Headed, OpensAfterBuild
<1>7. CASE MergeRename
  <2>1. file'[0] # NoFile /\ task' = "remove"
    BY <1>7, <1>a, NoFileAssumption DEF MergeRename, TypeOK
  <2> QED BY <2>1 DEF Headed, OpensAfterBuild
<1>8. CASE MergeRemove
  <2>1. file'[0] = file[0] /\ task' = "remove"
    BY <1>8, <1>a DEF MergeRemove, MaintenanceKeeps
  <2> QED BY <1>8, <2>1 DEF MergeRemove, Headed, OpensAfterBuild
<1>9. CASE MergeEnd
  BY <1>9 DEF MergeEnd, TaskEnds, Headed, OpensAfterBuild, fileVars
<1>10. CASE MaintenanceFails
  BY <1>10 DEF MaintenanceFails, TaskEnds, Headed, OpensAfterBuild
<1>11. ASSUME NEW d \in Deleter, NEW D \in SUBSET flushed, DeleteBegin(d, D)
       PROVE  Headed'
  BY <1>11 DEF DeleteBegin, fileVars, buildVars, Headed, OpensAfterBuild
<1>12. ASSUME NEW d \in Deleter, DeleteStep(d) PROVE Headed'
  <2>1. task = "idle" /\ UNCHANGED <<buildVars, cut>>
    BY <1>12, DeleteStepFrame DEF Exclusive, Deleting
  <2>2. file'[1] # NoFile <=> file[1] # NoFile
    BY <1>12, <1>a, DeleteStepFiles
  <2>3. file'[0] # NoFile <=> file[0] # NoFile
    BY <1>12, <1>a, DeleteStepFiles
  <2> QED BY <2>1, <2>2, <2>3 DEF Headed, OpensAfterBuild, buildVars
<1>13. CASE Crash
  <2>1. task' = "idle" /\ file' = file /\ (~cut' => ~cut /\ task = "idle")
    BY <1>13 DEF Crash, TaskEnds, fileVars
  <2> QED BY <2>1 DEF Headed, OpensAfterBuild
<1>14. CASE UNCHANGED vars
  BY <1>14 DEF vars, fileVars, buildVars, histVars, Headed, OpensAfterBuild
<1> QED BY <1>1, <1>2, <1>3, <1>4, <1>5, <1>6, <1>7, <1>8, <1>9, <1>10, <1>11,
           <1>12, <1>13, <1>14 DEF Next

-----------------------------------------------------------------------------
Tidy == Keeping /\ Memory /\ Counted /\ Progress /\ Gone /\ Headed

LEMMA InitTidy == Init => Tidy
<1> SUFFICES ASSUME Init PROVE Tidy
  OBVIOUS
<1>1. \A d \in Deleter : del[d] = AtRest
  BY DEF Init
<1>2. \A f \in FileNo : file[f] = NoFile /\ Content(f) = {}
  BY DEF Init, Content
<1>3. \A f \in Shards : f \in FileNo
  BY DEF Shards, FileNo
<1>4. 0 \in FileNo /\ 1 \in FileNo
  BY MaxShardsAssumption DEF FileNo
<1>5. Memory /\ Progress
  BY <1>1 DEF Init, Memory, Progress, AtRest
<1>6. Counted /\ Gone /\ Headed
  BY <1>2, <1>3, <1>4 DEF Init, Counted, Gone, Headed, OpensAfterBuild
<1> QED BY <1>5, <1>6, InitKeeping DEF Tidy

LEMMA TidyAlways == ASSUME ~Overlap PROVE Spec => []Tidy
<1>1. Tidy /\ [Next]_vars => Tidy'
  BY NextKeeping, NextMemory, NextCounted, NextProgress, NextGone, NextHeaded
     DEF Tidy
<1> QED BY <1>1, InitTidy, PTL DEF Spec

\* Entries DeleteVectors has reported removed stay out of the files, whatever is
\* built, merged or cut short afterwards, as long as deletions overlap with
\* nothing and every merge has removed the shards it took in.
THEOREM PurgedStaysGone == ASSUME ~Overlap PROVE Spec => []PurgeIsFinal
<1>1. Tidy => PurgeIsFinal
  BY DEF Tidy, Gone, PurgeIsFinal, Stacked
<1> QED BY <1>1, TidyAlways, PTL

\* countShards, and every loop that stops at the first missing shard, misses no
\* shard, except while a merge removes its shards or after one has failed to.
THEOREM NoShardIsHidden == ASSUME ~Overlap PROVE Spec => []NoHiddenShards
<1>1. Tidy => NoHiddenShards
  BY CountedIsInSight DEF Tidy
<1> QED BY <1>1, TidyAlways, PTL

\* After a build that was not cut short NewSearcher finds a main file as soon as
\* there is a shard.
THEOREM BuildLeavesMainFile == ASSUME ~Overlap PROVE Spec => []OpensAfterBuild
<1>1. Tidy => OpensAfterBuild
  BY DEF Tidy, Headed
<1> QED BY <1>1, TidyAlways, PTL

\* Without a main file and without a first shard the index is empty.
LEMMA NothingWithoutFiles ==
    ASSUME file[0] = NoFile, file[1] = NoFile PROVE Stacked = {}
<1>1. ASSUME NEW f \in FileNo, InSight(f) PROVE Content(f) = {}
  <2>1. CASE f = 0
    BY <2>1 DEF Content
  <2>2. CASE f # 0
    <3>1. 1 \in 1..f
      BY <2>2, MaxShardsAssumption DEF FileNo
    <3> QED BY <1>1, <3>1 DEF InSight
  <2> QED BY <2>1, <2>2
<1> QED BY <1>1 DEF Stacked

\* Whatever is flushed and not deleted stays in the files a searcher stacks, at
\* any instant of a build, of a merge or of a deletion (Compact, builder.Commit,
\* DeleteVectors), and after a failure or a crash in the middle of one, and a
\* searcher opened then finds it, unless there is no main file yet because the
\* first build runs or was cut short; provided that deletions overlap with
\* nothing.
THEOREM FlushedIsNotLost == ASSUME ~Overlap PROVE Spec => []NothingLost
<1>1. ASSUME Tidy PROVE NothingLost
  <2>1. flushed \ doomed \subseteq Stacked
    BY <1>1, SomethingKept, KeptIsStacked DEF Tidy, Keeping
  <2>2. CASE file[0] # NoFile
    BY <2>1, <2>2 DEF NothingLost, Found
  <2>3. CASE file[0] = NoFile /\ ~(cut \/ task # "idle")
    <3>1. file[1] = NoFile
      BY <1>1, <2>3 DEF Tidy, Headed, OpensAfterBuild, Keeping, Types, TypeOK
    <3>2. flushed \ doomed = {}
      BY <2>1, <2>3, <3>1, NothingWithoutFiles
    <3> QED BY <2>1, <3>2 DEF NothingLost
  <2> QED BY <2>1, <2>2, <2>3 DEF NothingLost
<1> QED BY <1>1, TidyAlways, PTL
-----------------------------------------------------------------------------
(* The index implements a set of entries.                                  *)

OnDisk == UNION {Content(f) : f \in FileNo}
Purging == UNION {del[d].drop : d \in Deleter}

\* A merge gathers nothing but what is on disk, and nothing that is in a shard
\* is missing from the merged file.
Faithful ==
    ~torn => /\ task = "load" => merged \subseteq OnDisk
             /\ task = "remove" => \A f \in FileNo : Content(f) \subseteq Content(0)

LEMMA NextFaithful ==
    ASSUME ~Overlap, Tidy, Faithful, [Next]_vars PROVE Faithful'
<1> USE DEF Tidy, Keeping
<1>0. SUFFICES ASSUME ~torn, ~torn' PROVE Faithful'
  BY TornStays DEF Faithful
<1>1. ASSUME task' \notin {"load", "remove"} PROVE Faithful'
  BY <1>1 DEF Faithful
<1>2. CASE NewBuilder \/ Flush \/ CommitInPlace \/ CommitRename \/ MergeEnd
           \/ MaintenanceFails \/ Crash
  BY <1>1, <1>2 DEF NewBuilder, Flush, CommitInPlace, CommitRename, MergeEnd,
                    MaintenanceFails, Crash, TaskEnds
<1>3. ASSUME NEW S \in SUBSET (Entry \ doomed), Add(S) PROVE Faithful'
  BY <1>1, <1>3 DEF Add
<1>4. CASE CommitMerge \/ CompactBegin
  <2>1. task' = "load" /\ merged' = {}
    BY <1>4 DEF CommitMerge, CompactBegin, Memory
  <2> QED BY <2>1 DEF Faithful
<1>5. CASE MergeLoad
  <2>1. next \in FileNo
    BY <1>5, MaxShardsAssumption DEF MergeLoad, Types, TypeOK, FileNo
  <2>2. merged' \subseteq OnDisk
    BY <1>0, <1>5, <2>1 DEF MergeLoad, Faithful, OnDisk
  <2>3. OnDisk' = OnDisk /\ task' = "load"
    BY <1>5 DEF MergeLoad, fileVars, OnDisk, Content
  <2> QED BY <2>2, <2>3 DEF Faithful
<1>6. CASE MergeRename
  <2>1. 0 \in FileNo /\ task' = "remove"
    BY <1>6, MaxShardsAssumption DEF MergeRename, FileNo
  <2>2. \A f \in FileNo : file'[f] = IF f = 0 THEN merged ELSE file[f]
    BY <1>6, <2>1 DEF MergeRename, Types
  <2>3. Content(0)' = merged
    BY <2>1, <2>2, NoFileAssumption DEF Content, Types, TypeOK
  <2>4. ASSUME NEW f \in FileNo, f # 0 PROVE Content(f)' \subseteq merged
    <3>1. CASE file[f] = NoFile
      BY <2>2, <2>4, <3>1 DEF Content
    <3>2. CASE file[f] # NoFile
      <4>1. f <= last
        BY <1>0, <1>6, <2>4, <3>2 DEF MergeRename, Counted, FileNo, Shards
      <4>2. f < next
        BY <1>6, <4>1 DEF MergeRename, Types, TypeOK, FileNo
      <4>3. Content(f) \subseteq merged
        BY <1>6, <4>2 DEF MergeRename, MaintenanceKeeps
      <4> QED BY <2>2, <2>4, <4>3 DEF Content
    <3> QED BY <3>1, <3>2
  <2>5. \A f \in FileNo : Content(f)' \subseteq Content(0)'
    BY <2>3, <2>4
  <2> QED BY <2>1, <2>5 DEF Faithful
<1>7. CASE MergeRemove
  <2>1. /\ next \in FileNo /\ next # 0 /\ task' = "remove" /\ task = "remove"
        /\ file' = [file EXCEPT ![next] = NoFile]
    BY <1>0, <1>7, MaxShardsAssumption
       DEF MergeRemove, Types, TypeOK, FileNo, MaintenanceKeeps
  <2>2. \A f \in FileNo : Content(f)' \subseteq Content(f)
    BY <2>1 DEF Content, Types
  <2>3. Content(0)' = Content(0)
    BY <2>1 DEF Content, Types
  <2>4. \A f \in FileNo : Content(f)' \subseteq Content(0)'
    BY <1>0, <2>1, <2>2, <2>3 DEF Faithful
  <2> QED BY <2>1, <2>4 DEF Faithful
<1>8. ASSUME NEW d \in Deleter, NEW D \in SUBSET flushed, DeleteBegin(d, D)
      PROVE  Faithful'
  BY <1>1, <1>8 DEF DeleteBegin, buildVars
<1>9. ASSUME NEW d \in Deleter, DeleteStep(d) PROVE Faithful'
  BY <1>1, <1>9, DeleteStepFrame DEF buildVars, Exclusive, Deleting
<1>10. CASE UNCHANGED vars
  BY <1>0, <1>10 DEF vars, fileVars, buildVars, mergeVars, Faithful, OnDisk, Content
<1> QED BY <1>2, <1>3, <1>4, <1>5, <1>6, <1>7, <1>8, <1>9, <1>10 DEF Next

\* The files a searcher stacks hold all that is on disk.
LEMMA StackedIsOnDisk ==
    ASSUME Tidy, Faithful, ~torn PROVE Stacked = OnDisk
<1>1. Stacked \subseteq OnDisk
  BY DEF Stacked, OnDisk
<1>2. ASSUME NEW f \in FileNo PROVE Content(f) \subseteq Stacked
  <2>1. InSight(0) /\ 0 \in FileNo
    BY MaxShardsAssumption DEF InSight, FileNo
  <2>2. CASE task = "remove"
    BY <2>1, <2>2 DEF Faithful, Stacked
  <2>3. CASE task # "remove" /\ file[f] # NoFile
    <3>1. f = 0 \/ f \in Shards
      BY DEF FileNo, Shards
    <3>2. InSight(f)
      BY <2>1, <2>3, <3>1, CountedIsInSight DEF Tidy, NoHiddenShards
    <3> QED BY <3>2 DEF Stacked
  <2>4. CASE file[f] = NoFile
    BY <2>4 DEF Content
  <2> QED BY <2>2, <2>3, <2>4
<1> QED BY <1>1, <1>2 DEF OnDisk

\* What the abstract state is, as the steps below need it before and after.
Sees ==
    /\ ~torn => Stacked = OnDisk
    /\ \A d \in Deleter : del[d].pc # "idle" => Purging = del[d].drop
    /\ Deleting = {} => Purging = {}

LEMMA TidySees == ASSUME Tidy, Faithful PROVE Sees
<1>1. \A d \in Deleter : del[d].pc # "idle" => Purging = del[d].drop
  BY DEF Tidy, Keeping, Exclusive, Deleting, Memory, Purging
<1>2. Deleting = {} => Purging = {}
  BY DEF Tidy, Memory, Deleting, Purging
<1> QED BY <1>1, <1>2, StackedIsOnDisk DEF Sees

LEMMA StepImplements ==
    ASSUME ~Overlap, Tidy, Tidy', Faithful, Sees, Sees', [Next]_vars
    PROVE  [Abstract!Next \/ torn']_(Abstract!vars)
<1> USE DEF Tidy, Keeping
<1>0. SUFFICES ASSUME ~torn, ~torn'
               PROVE  Abstract!Next \/ UNCHANGED <<Stacked, Purging, purged>>
  BY TornStays DEF Abstract!vars, Purging
<1>a. Stacked = OnDisk /\ Stacked' = OnDisk'
  BY <1>0 DEF Sees
<1>b. ASSUME UNCHANGED <<file, del, purged>>
      PROVE  UNCHANGED <<Stacked, Purging, purged>>
  BY <1>a, <1>b DEF OnDisk, Content, Purging
<1>1. CASE NewBuilder \/ CommitInPlace \/ CommitMerge \/ CompactBegin
           \/ MergeLoad \/ MergeEnd \/ MaintenanceFails \/ UNCHANGED vars
  BY <1>1, <1>b DEF NewBuilder, CommitInPlace, CommitMerge, CompactBegin,
                    MergeLoad, MergeEnd, MaintenanceFails, vars, fileVars,
                    histVars
<1>2. ASSUME NEW S \in SUBSET (Entry \ doomed), Add(S)
      PROVE  UNCHANGED <<Stacked, Purging, purged>>
  BY <1>2, <1>b DEF Add, fileVars, histVars
<1>3. CASE Flush
  <2>1. sub \in FileNo /\ il # NoFile /\ il \in SUBSET Entry
    BY <1>3, NoFileAssumption DEF Flush, Types, TypeOK, FileNo
  <2>2. \A f \in FileNo : file'[f] = IF f = sub THEN il ELSE file[f]
    BY <1>3, <2>1 DEF Flush, Types
  <2>3. file[sub] = NoFile
    BY <1>0, <1>3, <2>1 DEF Flush, Counted, Types, TypeOK, FileNo, Shards
  <2>4. \A f \in FileNo : Content(f)' = IF f = sub THEN il ELSE Content(f)
    BY <2>1, <2>2 DEF Content
  <2>5. Content(sub) = {}
    BY <2>3 DEF Content
  <2>6. OnDisk' = OnDisk \cup il
    BY <2>1, <2>4, <2>5 DEF OnDisk
  <2>7. Purging' = Purging /\ purged' = purged
    BY <1>3 DEF Flush, Purging
  <2>8. Abstract!Insert(il)
    BY <1>a, <2>6, <2>7 DEF Abstract!Insert, Purging
  <2>9. il \cap purged = {}
    BY DEF Memory, Types, TypeOK
  <2> QED BY <2>1, <2>8, <2>9 DEF Abstract!Next
<1>4. CASE CommitRename
  <2>1. 0 \in FileNo /\ 1 \in FileNo /\ file[0] = NoFile
    BY <1>4, MaxShardsAssumption DEF CommitRename, FileNo
  <2>2. \A f \in FileNo : file'[f] = IF f = 1 THEN NoFile ELSE
                                     IF f = 0 THEN file[1] ELSE file[f]
    BY <1>4, <2>1 DEF CommitRename, Types
  <2>3. \A f \in FileNo : Content(f)' = IF f = 1 THEN {} ELSE
                                        IF f = 0 THEN Content(1) ELSE Content(f)
    BY <2>2 DEF Content
  <2>4. Content(0) = {}
    BY <2>1 DEF Content
  <2>5. OnDisk' = OnDisk
    BY <2>1, <2>3, <2>4 DEF OnDisk
  <2> QED BY <1>4, <1>a, <2>5 DEF CommitRename, Purging
<1>5. CASE MergeRename
  <2>1. 0 \in FileNo /\ merged # NoFile
    BY MaxShardsAssumption, NoFileAssumption DEF FileNo, Types, TypeOK
  <2>2. \A f \in FileNo : file'[f] = IF f = 0 THEN merged ELSE file[f]
    BY <1>5, <2>1 DEF MergeRename, Types
  <2>3. \A f \in FileNo : Content(f)' = IF f = 0 THEN merged ELSE Content(f)
    BY <2>1, <2>2 DEF Content
  <2>4. merged \subseteq OnDisk
    BY <1>0, <1>5 DEF MergeRename, Faithful
  <2>5. Content(0) \subseteq merged
    <3>1. 0 < next
      BY <1>5 DEF MergeRename, Types, TypeOK, FileNo
    <3> QED BY <1>5, <2>1, <3>1 DEF MergeRename, MaintenanceKeeps
  <2>6. OnDisk' = OnDisk
    BY <2>1, <2>3, <2>4, <2>5 DEF OnDisk
  <2> QED BY <1>5, <1>a, <2>6 DEF MergeRename, Purging, histVars
<1>6. CASE MergeRemove
  <2>1. /\ next \in FileNo /\ next # 0 /\ task = "remove"
        /\ file' = [file EXCEPT ![next] = NoFile]
    BY <1>0, <1>6, MaxShardsAssumption
       DEF MergeRemove, Types, TypeOK, FileNo, MaintenanceKeeps
  <2>2. 0 \in FileNo
    BY MaxShardsAssumption DEF FileNo
  <2>3. \A f \in FileNo : Content(f)' = IF f = next THEN {} ELSE Content(f)
    BY <2>1 DEF Content, Types
  <2>4. Content(next) \subseteq Content(0)
    BY <1>0, <2>1 DEF Faithful
  <2>5. OnDisk' = OnDisk
    BY <2>1, <2>2, <2>3, <2>4 DEF OnDisk
  <2> QED BY <1>6, <1>a, <2>5 DEF MergeRemove, Purging
<1>7. ASSUME NEW d \in Deleter, NEW D \in SUBSET flushed, DeleteBegin(d, D)
      PROVE  Abstract!Next
  <2>1. Purging = {}
    BY <1>7 DEF DeleteBegin, Sees
  <2>2. del'[d].pc # "idle" /\ del'[d].drop = D
    BY <1>7 DEF DeleteBegin, Types, DelTypes
  <2>3. Purging' = D
    BY <2>2 DEF Sees
  <2>4. OnDisk' = OnDisk /\ purged' = purged
    BY <1>7 DEF DeleteBegin, fileVars, OnDisk, Content
  <2>5. Abstract!PurgeBegin(D)
    BY <1>a, <2>1, <2>3, <2>4 DEF Abstract!PurgeBegin, Purging
  <2>6. D \in SUBSET Entry
    BY DEF Types, TypeOK
  <2> QED BY <2>5, <2>6 DEF Abstract!Next
<1>8. ASSUME NEW d \in Deleter, DeleteStep(d)
      PROVE  Abstract!Next \/ UNCHANGED <<Stacked, Purging, purged>>
  <2>1. del[d].pc # "idle"
    BY <1>8, DeleteStepFrame
  <2>2. Purging = del[d].drop
    BY <2>1 DEF Sees
  <2>3. CASE DeleteLoad(d) \/ DeleteSave(d) \/ DeleteRename(d)
    <3>1. del'[d].pc # "idle" /\ del'[d].drop = del[d].drop
      BY <2>3 DEF DeleteLoad, DeleteSave, DeleteRename, Proceed, Types, DelTypes
    <3>2. Purging' = Purging
      BY <2>2, <3>1 DEF Sees
    <3>3. OnDisk' \subseteq OnDisk /\ OnDisk \ OnDisk' \subseteq Purging
      BY <1>8, <2>2, DeleteStepFiles DEF OnDisk
    <3>4. OnDisk' = OnDisk \ (OnDisk \ OnDisk')
      BY <3>3
    <3>5. purged' = purged
      BY <2>3 DEF DeleteLoad, DeleteSave, DeleteRename, histVars
    <3>6. Abstract!PurgeSome
      BY <1>a, <3>2, <3>3, <3>4, <3>5 DEF Abstract!PurgeSome, Purging
    <3> QED BY <3>6 DEF Abstract!Next
  <2>4. CASE DeleteEnd(d) \/ DeleteFails(d)
    <3>1. del' = [del EXCEPT ![d] = AtRest] /\ UNCHANGED file
      BY <2>4 DEF DeleteEnd, DeleteFails, fileVars
    <3>2. Deleting' = {}
      BY <2>1, <3>1 DEF Exclusive, Deleting, Types, DelTypes, AtRest
    <3>3. Purging' = {}
      BY <3>2 DEF Sees
    <3>4. OnDisk' = OnDisk
      BY <3>1 DEF OnDisk, Content
    <3>5. CASE DeleteEnd(d)
      <4>1. purged' = purged \cup Purging
        BY <2>2, <3>5 DEF DeleteEnd
      <4>2. OnDisk \cap Purging = {}
        BY <1>0, <3>4, <4>1 DEF Gone, OnDisk
      <4>3. Abstract!PurgeEnd
        BY <1>a, <3>3, <3>4, <4>1, <4>2 DEF Abstract!PurgeEnd, Purging
      <4> QED BY <4>3 DEF Abstract!Next
    <3>6. CASE DeleteFails(d)
      <4>1. purged' = purged
        BY <3>6 DEF DeleteFails, histVars
      <4>2. Abstract!PurgeGiveUp
        BY <1>a, <3>3, <3>4, <4>1 DEF Abstract!PurgeGiveUp, Purging
      <4> QED BY <4>2 DEF Abstract!Next
    <3> QED BY <2>4, <3>5, <3>6
  <2> QED BY <1>8, <2>3, <2>4 DEF DeleteStep
<1>9. CASE Crash
  <2>1. \A d \in Deleter : del'[d].drop = {}
    BY <1>9 DEF Crash, AtRest
  <2>2. Purging' = {}
    BY <2>1 DEF Purging
  <2>3. OnDisk' = OnDisk /\ purged' = purged
    BY <1>9 DEF Crash, fileVars, OnDisk, Content
  <2>4. Abstract!PurgeGiveUp
    BY <1>a, <2>2, <2>3 DEF Abstract!PurgeGiveUp, Purging
  <2> QED BY <2>4 DEF Abstract!Next
<1> QED BY <1>1, <1>2, <1>3, <1>4, <1>5, <1>6, <1>7, <1>8, <1>9 DEF Next
LEMMA InitImplements == Init => Abstract!Init
<1> SUFFICES ASSUME Init PROVE Abstract!Init
  OBVIOUS
<1>1. \A f : f \in FileNo => Content(f) = {}
  BY DEF Init, Content
<1>2. Stacked = {}
  BY <1>1 DEF Stacked
<1>3. UNION {del[d].drop : d \in Deleter} = {} /\ purged = {}
  BY DEF Init, AtRest
<1> QED BY <1>2, <1>3 DEF Abstract!Init

\* Files, shards, builds, merges, deletions, failures and crashes implement the
\* set of entries of VectorSet, as long as deletions overlap with nothing and
\* until a merge leaves shards behind.
THEOREM ImplementsSet == ASSUME ~Overlap PROVE Spec => ImplementsVectorSet
<1>1. Init => Faithful
  BY DEF Init, Faithful
<1>2. Tidy /\ Faithful /\ [Next]_vars => Faithful'
  BY NextFaithful
<1>3. Tidy /\ Faithful => Sees
  BY TidySees
<1>4. Tidy /\ Tidy' /\ Faithful /\ Sees /\ Sees' /\ [Next]_vars
         => [Abstract!Next \/ torn']_(Abstract!vars)
  BY StepImplements
<1> QED BY <1>1, <1>2, <1>3, <1>4, InitImplements, TidyAlways, PTL
        DEF Spec, ImplementsVectorSet
=============================================================================
