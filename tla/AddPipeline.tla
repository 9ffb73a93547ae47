----------------------------- MODULE AddPipeline -----------------------------
(***************************************************************************)
(* The command `add`: a walker, workers and one writer with bounded        *)
(* channels between them, storing images in batches, on a store that other *)
(* processes use meanwhile.  Online the store is pgvector and the command  *)
(* imports in bulk; offline it is the SQLite catalog, of which only the    *)
(* hashes count here.  The process may stop at any step and be run again.  *)
(* Its context is never cancelled: nothing but the end of the process      *)
(* stops it.                                                               *)
(***************************************************************************)
EXTENDS PgVector

CONSTANTS
    File,       \* the files of the directory, in the order they are walked
    Worker,     \* goroutines of the first stage
    PathCap,    \* capacity of pathCh
    JobCap,     \* capacity of insertCh
    BatchSize,
    MaxRuns,    \* bound: runs of the command
    MaxOthers   \* bound: images added or deleted by others

ASSUME FileAssumption == File \in Seq([hash : Hash, usable : BOOLEAN])
ASSUME PipelineAssumption ==
    /\ Worker # {} /\ IsFiniteSet(Worker)
    /\ PathCap \in Nat \ {0} /\ JobCap \in Nat \ {0} /\ BatchSize \in Nat \ {0}
    /\ MaxRuns \in Nat /\ MaxOthers \in Nat

VARIABLES
    online,    \* the backend is pgvector
    stage,     \* the command: "off", "running", "ending" (EndBulkImport), "done",
               \* "abandoned" (EndBulkImport, and nothing imported); or "searching":
               \* nobody imports, a server searches
    walked,    \* files the walker has passed on
    paths,     \* pathCh, and whether it is closed
    work,      \* what each worker is doing
    jobs,      \* insertCh, and whether it is closed
    writer,    \* the writer: "take", "flush", "retry", "gone"
    batch,     \* its batch; while it retries, what is left of it
    added, skipped,
    mine,      \* history: what this run has stored
    passed,    \* history: duplicates a batch has left out
    unsure,    \* history: images stored by a commit that reported an error
    lost,      \* history: hashes given up after an error
    ever,      \* history: hashes that were stored at some time
    gone,      \* history: hashes that others have deleted
    runs,      \* history: runs
    others     \* history: images added or deleted by others

counts == <<added, skipped, mine, passed, unsure, lost>>
pipe == <<walked, paths, work, jobs, writer, batch>>
history == <<ever, gone, runs, others>>
pipeVars == <<online, stage, pipe, counts, history>>
vars == <<storeVars, pipeVars>>

Idle == [pc |-> "idle", file |-> 0]
Empty == [buffer |-> <<>>, closed |-> FALSE]

AllIdle == [w \in Worker |-> Idle]

Init ==
    /\ StoreInit
    /\ online \in BOOLEAN
    /\ stage \in {"off", "searching"} /\ (stage = "searching" => online)
    /\ walked = 0 /\ paths = Empty /\ work = AllIdle /\ jobs = Empty
    /\ writer = "take" /\ batch = <<>>
    /\ added = 0 /\ skipped = 0 /\ mine = {} /\ passed = 0 /\ unsure = 0 /\ lost = {}
    /\ ever = {} /\ gone = {} /\ runs = 0 /\ others = 0

HashOf(n) == File[n].hash

-----------------------------------------------------------------------------
(* The command.                                                            *)

\* runAdd up to the start of its goroutines.  (Opening the store may make an
\* index, as NewSearcher does; BeginBulkImport drops it.)
Run ==
    /\ stage = "off"
    /\ runs < MaxRuns
    /\ runs' = runs + 1
    /\ stage' = "running"
    /\ IF online THEN BeginBulkImport ELSE UNCHANGED storeVars
    /\ UNCHANGED <<online, pipe, counts, ever, gone, others>>

\* writeWg.Wait returns, and the deferred EndBulkImport runs.
Finish ==
    /\ stage = "running"
    /\ writer = "gone"
    /\ IF online THEN stage' = "ending" /\ EndBulkImport
       ELSE stage' = "done" /\ UNCHANGED storeVars
    /\ UNCHANGED <<online, pipe, counts, history>>

Done ==
    /\ stage = "ending"
    /\ ann[Importer] \in {"ok", "error"}
    /\ stage' = "done"
    /\ UNCHANGED <<online, pipe, counts, history, storeVars>>

\* newExtractor fails: runAdd returns before it starts a goroutine, and the
\* deferred EndBulkImport runs all the same.
Abandon ==
    /\ stage = "running"
    /\ walked = 0 /\ ~paths.closed
    /\ runs < MaxRuns
    /\ IF online THEN stage' = "abandoned" /\ EndBulkImport
       ELSE stage' = "off" /\ UNCHANGED storeVars
    /\ UNCHANGED <<online, pipe, counts, history>>

Abandoned ==
    /\ stage = "abandoned"
    /\ ann[Importer] \in {"ok", "error"}
    /\ stage' = "off"
    /\ ann' = [ann EXCEPT ![Importer] = "off"]
    /\ attempt' = 0
    /\ UNCHANGED <<online, pipe, counts, history, rows, index, bulk, queryVars, failures>>

\* The process ends; the next one starts with nothing but the store.
Crash ==
    /\ stage \in {"running", "ending", "abandoned"}
    /\ runs < MaxRuns
    /\ stage' = "off"
    /\ walked' = 0 /\ paths' = Empty /\ work' = AllIdle /\ jobs' = Empty
    /\ writer' = "take" /\ batch' = <<>>
    /\ added' = 0 /\ skipped' = 0 /\ mine' = {} /\ passed' = 0 /\ unsure' = 0 /\ lost' = {}
    /\ bulk' = [bulk EXCEPT ![Importer] = FALSE]
    /\ ann' = [ann EXCEPT ![Importer] = "off"]
    /\ attempt' = 0
    /\ UNCHANGED <<online, history, rows, index, queryVars, failures>>

-----------------------------------------------------------------------------
(* Walker and workers.                                                     *)

Walk ==
    /\ stage = "running"
    /\ walked < Len(File)
    /\ Len(paths.buffer) < PathCap
    /\ walked' = walked + 1
    /\ paths' = [paths EXCEPT !.buffer = Append(@, walked + 1)]
    /\ UNCHANGED <<online, stage, work, jobs, writer, batch, counts, history, storeVars>>

WalkEnds ==
    /\ stage = "running"
    /\ walked = Len(File) /\ ~paths.closed
    /\ paths' = [paths EXCEPT !.closed = TRUE]
    /\ UNCHANGED <<online, stage, walked, work, jobs, writer, batch, counts, history, storeVars>>

\* A worker takes a path, or leaves when there are no more.
WorkerTakes(w) ==
    /\ stage = "running"
    /\ work[w].pc = "idle"
    /\ \/ /\ paths.buffer # <<>>
          /\ work' = [work EXCEPT ![w] = [pc |-> "check", file |-> Head(paths.buffer)]]
          /\ paths' = [paths EXCEPT !.buffer = Tail(@)]
       \/ /\ paths.buffer = <<>> /\ paths.closed
          /\ work' = [work EXCEPT ![w].pc = "gone"]
          /\ UNCHANGED paths
    /\ UNCHANGED <<online, stage, walked, jobs, writer, batch, counts, history, storeVars>>

\* Read, hash, look the hash up, extract; what is known or has too few key
\* points is skipped, and so is what cannot be looked up.
WorkerChecks(w) ==
    LET n == work[w].file
        use == HashOf(n) \notin rows /\ File[n].usable
    IN
    /\ stage = "running"
    /\ work[w].pc = "check"
    /\ \/ /\ use
          /\ work' = [work EXCEPT ![w].pc = "send"]
          /\ UNCHANGED <<skipped, lost, failures>>
       \/ /\ ~use
          /\ work' = [work EXCEPT ![w] = Idle]
          /\ skipped' = skipped + 1
          /\ UNCHANGED <<lost, failures>>
       \/ /\ Fails
          /\ work' = [work EXCEPT ![w] = Idle]
          /\ skipped' = skipped + 1
          /\ lost' = lost \cup {HashOf(n)}
    /\ UNCHANGED <<online, stage, walked, paths, jobs, writer, batch, added, mine, passed, unsure,
                   history, rows, annVars, queryVars>>

WorkerSends(w) ==
    /\ stage = "running"
    /\ work[w].pc = "send"
    /\ Len(jobs.buffer) < JobCap
    /\ jobs' = [jobs EXCEPT !.buffer = Append(@, work[w].file)]
    /\ work' = [work EXCEPT ![w] = Idle]
    /\ UNCHANGED <<online, stage, walked, paths, writer, batch, counts, history, storeVars>>

\* procWg.Wait returns.
CloseJobs ==
    /\ stage = "running"
    /\ ~jobs.closed
    /\ \A w \in Worker : work[w].pc = "gone"
    /\ jobs' = [jobs EXCEPT !.closed = TRUE]
    /\ UNCHANGED <<online, stage, walked, paths, work, writer, batch, counts, history, storeVars>>

-----------------------------------------------------------------------------
(* The writer.                                                             *)

\* A job whose hash has been stored by now, or cannot be looked up, is skipped;
\* a full batch is flushed.
WriterTakes ==
    LET n == Head(jobs.buffer) IN
    /\ stage = "running"
    /\ writer = "take"
    /\ jobs.buffer # <<>>
    /\ jobs' = [jobs EXCEPT !.buffer = Tail(@)]
    /\ \/ /\ HashOf(n) \notin rows
          /\ batch' = Append(batch, n)
          /\ UNCHANGED <<skipped, lost, failures>>
       \/ /\ HashOf(n) \in rows
          /\ skipped' = skipped + 1
          /\ UNCHANGED <<batch, lost, failures>>
       \/ /\ Fails
          /\ skipped' = skipped + 1
          /\ lost' = lost \cup {HashOf(n)}
          /\ UNCHANGED batch
    /\ writer' = IF Len(batch') >= BatchSize THEN "flush" ELSE "take"
    /\ UNCHANGED <<online, stage, walked, paths, work, added, mine, passed, unsure, history,
                   rows, annVars, queryVars>>

\* Bug: what is in the batch when the jobs end stays there.
BugWriterEnds ==
    /\ stage = "running"
    /\ writer = "take"
    /\ jobs.buffer = <<>> /\ jobs.closed
    /\ writer' = "gone"
    /\ UNCHANGED <<online, stage, walked, paths, work, jobs, batch, counts, history, storeVars>>

\* No more jobs: the last flush.
WriterEnds ==
    /\ stage = "running"
    /\ writer = "take"
    /\ jobs.buffer = <<>> /\ jobs.closed
    /\ writer' = IF batch = <<>> THEN "gone" ELSE "flush"
    /\ UNCHANGED <<online, stage, walked, paths, work, jobs, batch, counts, history, storeVars>>

\* After a batch: on with the jobs, or the end.
Onward == IF jobs.buffer = <<>> /\ jobs.closed THEN "gone" ELSE "take"

InBatch == {HashOf(batch[i]) : i \in DOMAIN batch}
Fresh == InBatch \ rows
HasDuplicates == Cardinality(Fresh) < Len(batch)

Store(hashes) ==
    /\ rows' = rows \cup hashes
    /\ ever' = ever \cup hashes
    /\ mine' = mine \cup hashes

\* Bug: every item of the batch is counted.
BugFlush ==
    /\ stage = "running"
    /\ writer = "flush"
    /\ online => ~HasDuplicates
    /\ Store(Fresh)
    /\ added' = added + Len(batch)
    /\ passed' = passed
    /\ batch' = <<>>
    /\ writer' = Onward
    /\ UNCHANGED <<online, stage, walked, paths, work, jobs, skipped, unsure, lost, gone, runs, others,
                   annVars, queryVars, failures>>

\* AddImageBatch commits.  Offline a duplicate may be left out; in PostgreSQL it
\* has aborted the transaction.
Flush ==
    /\ stage = "running"
    /\ writer = "flush"
    /\ online => ~HasDuplicates
    /\ Store(Fresh)
    /\ added' = added + Cardinality(Fresh)
    /\ passed' = passed + Len(batch) - Cardinality(Fresh)
    /\ batch' = <<>>
    /\ writer' = Onward
    /\ UNCHANGED <<online, stage, walked, paths, work, jobs, skipped, unsure, lost, gone, runs, others,
                   annVars, queryVars, failures>>

\* It returns an error: for a duplicate (offline if the driver's code for it is
\* not the one isUniqueConstraintErr knows), or because a statement or the commit
\* failed, in which case PostgreSQL may have committed and only its answer be
\* missing.  The items are tried one by one.
FlushFails ==
    /\ stage = "running"
    /\ writer = "flush"
    /\ writer' = "retry"
    /\ \/ /\ HasDuplicates
          /\ UNCHANGED <<rows, ever, mine, unsure, failures>>
       \/ /\ Fails
          /\ UNCHANGED <<rows, ever, mine, unsure>>
       \/ /\ online /\ ~HasDuplicates
          /\ Fails
          /\ Store(Fresh)
          /\ unsure' = unsure + Cardinality(Fresh)
    /\ UNCHANGED <<online, stage, walked, paths, work, jobs, batch, added, skipped, passed, lost,
                   gone, runs, others, annVars, queryVars>>

\* AddImageRaw of the next item; a failure is a skipped image.
Retry ==
    LET h == HashOf(Head(batch)) IN
    /\ stage = "running"
    /\ writer = "retry"
    /\ batch' = Tail(batch)
    /\ writer' = IF batch' = <<>> THEN Onward ELSE "retry"
    /\ \/ /\ h \notin rows
          /\ Store({h})
          /\ added' = added + 1
          /\ UNCHANGED <<skipped, unsure, lost, failures>>
       \/ /\ h \in rows
          /\ skipped' = skipped + 1
          /\ UNCHANGED <<rows, ever, mine, added, unsure, lost, failures>>
       \/ /\ h \notin rows
          /\ Fails
          /\ skipped' = skipped + 1
          /\ lost' = lost \cup {h}
          /\ UNCHANGED <<rows, ever, mine, added, unsure>>
       \/ /\ online /\ h \notin rows
          /\ Fails
          /\ Store({h})
          /\ skipped' = skipped + 1
          /\ unsure' = unsure + 1
          /\ UNCHANGED <<added, lost>>
    /\ UNCHANGED <<online, stage, walked, paths, work, jobs, passed, gone, runs, others,
                   annVars, queryVars>>

-----------------------------------------------------------------------------
(* The other processes.                                                    *)

Other ==
    /\ stage # "searching"
    /\ others < MaxOthers
    /\ others' = others + 1
    /\ \E h \in Hash :
          \/ AddElsewhere(h) /\ ever' = ever \cup {h} /\ UNCHANGED gone
          \/ DeleteElsewhere(h) /\ gone' = gone \cup {h} /\ UNCHANGED ever
    /\ UNCHANGED <<online, stage, pipe, counts, runs>>

ANN(p) == CheckANN(p) \/ CreateANN(p) \/ CreateFails(p)

Index ==
    /\ online /\ stage # "searching"
    /\ \/ ANN(Importer) \/ ANN(Server) \/ TryAgain \/ SearcherOpened
       \/ others < MaxOthers /\ NewSearcher
    /\ others' = IF ann[Server] = "off" /\ ann'[Server] = "check" THEN others + 1 ELSE others
    /\ UNCHANGED <<online, stage, pipe, counts, ever, gone, runs>>

\* Searches touch nothing the import does, so it is enough to look at them apart.
Searching ==
    /\ stage = "searching"
    /\ Search
    /\ UNCHANGED pipeVars

Ended ==
    /\ stage = "done" \/ (stage = "searching" /\ SearchReturned)
    /\ UNCHANGED vars

\* No step can be taken over and over, so a command that reaches no state where
\* it is stuck always ends: TLC's deadlock check sees to it.
Next ==
    \/ Run \/ Finish \/ Done \/ Abandon \/ Abandoned \/ Crash
    \/ Walk \/ WalkEnds
    \/ \E w \in Worker : WorkerTakes(w) \/ WorkerChecks(w) \/ WorkerSends(w)
    \/ CloseJobs
    \/ WriterTakes \/ WriterEnds \/ Flush \/ FlushFails \/ Retry
    \/ Other \/ Index \/ Searching
    \/ Ended

Spec == Init /\ [][Next]_vars

-----------------------------------------------------------------------------
TypeOK ==
    /\ StoreTypeOK
    /\ stage \in {"off", "running", "ending", "done", "abandoned", "searching"}
    /\ Len(paths.buffer) <= PathCap /\ Len(jobs.buffer) <= JobCap
    /\ Len(batch) <= BatchSize
    /\ writer \in {"take", "flush", "retry", "gone"}
    /\ writer = "gone" => batch = <<>>

\* What the command reports as added is what it has stored, except what a
\* commit stored whose answer was an error (an image that others delete in
\* between may be stored, and counted, twice); and every file is added or skipped,
\* except duplicates that a batch of the catalog leaves out.
CountsAreTrue ==
    /\ gone = {} => added + unsure = Cardinality(mine)
    /\ stage \in {"ending", "done"} => added + skipped + passed = Len(File)

\* When the command is done, every usable file has been in the store, by this
\* command or another, or a statement about it has failed; none is lost in a
\* channel, a batch or between two processes that add the same image.
NoneForgotten ==
    stage \in {"ending", "done"} =>
        \A n \in DOMAIN File : File[n].usable => HashOf(n) \in ever \cup lost

\* When an import ends without an error there is an index again, and it is one
\* made from all the import has stored, unless others have deleted that, or
\* another process has made the index during the import: then it was made from
\* whatever was there, although `add` is said to drop the index during the import
\* and to rebuild it once at the end.
IndexedAfterImport ==
    stage = "done" /\ online /\ ann[Importer] = "ok" =>
        \/ index.by = Server
        \/ mine \subseteq index.of \cup gone
=============================================================================
