--------------------------- MODULE BuildScheduler ---------------------------
(***************************************************************************)
(* How the HTTP server (internal/server/server.go) schedules index builds. *)
(*                                                                         *)
(* Adding an image leaves it unindexed in the catalog and asks for a       *)
(* build: a timer debounces the requests, POST /index/build skips the      *)
(* wait, and a request that meets a running build is remembered in         *)
(* pendingRebuild.  Everything under buildMu is one step; between two      *)
(* critical sections any other goroutine may run, so a timer callback may  *)
(* have fired and still be waiting for the lock while its timer is         *)
(* stopped, reset or replaced.                                             *)
(*                                                                         *)
(* Of the build itself this module keeps what the scheduling depends on:   *)
(* which images it has read, when it stops reading, when it marks them     *)
(* indexed and when a new searcher serves them.                            *)
(***************************************************************************)
EXTENDS Integers, FiniteSets

CONSTANTS
    NewImage,       \* the images clients add
    Goroutine,   \* identities for build goroutines
    MaxPosts,    \* bound: POST /index/build requests
    MaxFailures, \* bound: builds and reloads that fail
    MaxRestarts  \* bound: shutdowns and restarts of the process

ASSUME BoundsAssumption ==
    MaxPosts \in Nat /\ MaxFailures \in Nat /\ MaxRestarts \in Nat

VARIABLES
    building,        \* handler.building
    pendingRebuild,  \* handler.pendingRebuild
    timer,           \* the timer handler.buildTimer points at: "none" (nil),
                     \* "armed", or "fired" (expired, callback not done)
    stray,           \* armed timers buildTimer no longer points at
    firing,          \* timer callbacks that have not had the lock yet
    starting,        \* goroutines about to call startBuild
    phase,           \* where each build goroutine is
    batch,           \* images each build has read and not yet marked indexed
    added,           \* progress of each POST /images: "no", "committed" to the
                     \* catalog, or "scheduled" (scheduleBuild returned)
    unindexed,       \* committed images with indexed = 0
    mainFile,        \* invlists.bin exists, without which no searcher is opened
    served,          \* images the current searcher was opened over
    stranded,        \* history: images that were marked indexed when the process
                     \* ended before any build had committed
    forgotten,       \* history: images whose request for a build died with a
                     \* failed build, a shutdown or a restart
    posts, failures, restarts

timerVars == <<timer, stray, firing>>
buildVars == <<phase, batch>>
bounded == <<posts, failures, restarts>>
searcherVars == <<mainFile, served, stranded>>
schedulerVars == <<building, pendingRebuild, timerVars, starting, buildVars, added,
          unindexed, searcherVars, forgotten, bounded>>

Phase == {"idle", "read", "flush", "commit", "reload", "compact", "done"}

SchedulerInit ==
    /\ building = FALSE
    /\ pendingRebuild = FALSE
    /\ timer = "none"
    /\ stray = 0
    /\ firing = 0
    /\ starting = 0
    /\ phase = [g \in Goroutine |-> "idle"]
    /\ batch = [g \in Goroutine |-> {}]
    /\ added = [i \in NewImage |-> "no"]
    /\ unindexed = {}
    /\ mainFile = FALSE
    /\ served = {}
    /\ stranded = {}
    /\ forgotten = {}
    /\ posts = 0
    /\ failures = 0
    /\ restarts = 0

-----------------------------------------------------------------------------
(* Requests.                                                               *)

\* addImage: the catalog transaction commits.
CommitImage(i) ==
    /\ added[i] = "no"
    /\ added' = [added EXCEPT ![i] = "committed"]
    /\ unindexed' = unindexed \cup {i}
    /\ UNCHANGED <<building, pendingRebuild, timerVars, starting, buildVars,
                   searcherVars, forgotten, bounded>>

\* Bug: a request that meets a running build is not remembered.
BugScheduleBuildIgnored(i) ==
    /\ added[i] = "committed"
    /\ added' = [added EXCEPT ![i] = "scheduled"]
    /\ timer' = IF building THEN timer ELSE "armed"
    /\ UNCHANGED <<building, pendingRebuild, stray, firing, starting, buildVars,
                   unindexed, searcherVars, forgotten, bounded>>

\* addImage: scheduleBuild.  Reset re-arms a timer also when it has expired.
ScheduleBuild(i) ==
    /\ added[i] = "committed"
    /\ added' = [added EXCEPT ![i] = "scheduled"]
    /\ \/ /\ building
          /\ pendingRebuild' = TRUE
          /\ UNCHANGED timer
       \/ /\ ~building
          /\ timer' = "armed"
          /\ UNCHANGED pendingRebuild
    /\ UNCHANGED <<building, stray, firing, starting, buildVars, unindexed,
                   searcherVars, forgotten, bounded>>

\* buildIndex: stop the timer, then startBuild.  A timer that has expired is
\* not stopped: its callback is on its way.
PostBuild ==
    /\ posts < MaxPosts
    /\ posts' = posts + 1
    /\ timer' = "none"
    /\ starting' = starting + 1
    /\ UNCHANGED <<building, pendingRebuild, stray, firing, buildVars, added,
                   unindexed, searcherVars, forgotten, failures, restarts>>

-----------------------------------------------------------------------------
(* The timer.                                                              *)

TimerExpires ==
    /\ \/ /\ timer = "armed"
          /\ timer' = "fired"
          /\ UNCHANGED stray
       \/ /\ stray > 0
          /\ stray' = stray - 1
          /\ UNCHANGED timer
    /\ firing' = firing + 1
    /\ UNCHANGED <<building, pendingRebuild, starting, buildVars, added,
                   unindexed, searcherVars, forgotten, bounded>>

\* Bug: the callback of a timer that was stopped in time runs all the same.
BugTimerCallbackSpurious ==
    /\ firing' = firing - 1
    /\ stray' = IF timer = "armed" THEN stray + 1 ELSE stray
    /\ timer' = "none"
    /\ starting' = starting + 1
    /\ UNCHANGED <<building, pendingRebuild, buildVars, added, unindexed,
                   searcherVars, forgotten, bounded>>

\* The callback drops whatever timer buildTimer points at, which need not be
\* the one that fired it, and goes on to startBuild.
TimerCallback ==
    /\ firing > 0
    /\ firing' = firing - 1
    /\ stray' = IF timer = "armed" THEN stray + 1 ELSE stray
    /\ timer' = "none"
    /\ starting' = starting + 1
    /\ UNCHANGED <<building, pendingRebuild, buildVars, added, unindexed,
                   searcherVars, forgotten, bounded>>

-----------------------------------------------------------------------------
(* The build goroutine.                                                    *)

\* startBuild when a build is running: the request is dropped.
StartBuildBusy ==
    /\ starting > 0
    /\ building
    /\ starting' = starting - 1
    /\ UNCHANGED <<building, pendingRebuild, timerVars, buildVars, added,
                   unindexed, searcherVars, forgotten, bounded>>

\* Bug: startBuild does not look at the flag.
BugStartBuildUnguarded(g) ==
    /\ starting > 0
    /\ phase[g] = "idle"
    /\ starting' = starting - 1
    /\ building' = TRUE
    /\ pendingRebuild' = FALSE
    /\ phase' = [phase EXCEPT ![g] = "read"]
    /\ UNCHANGED <<timerVars, batch, added, unindexed, searcherVars, forgotten,
                   bounded>>

\* startBuild otherwise.
StartBuild(g) ==
    /\ starting > 0
    /\ ~building
    /\ phase[g] = "idle"
    /\ starting' = starting - 1
    /\ building' = TRUE
    /\ pendingRebuild' = FALSE
    /\ phase' = [phase EXCEPT ![g] = "read"]
    /\ UNCHANGED <<timerVars, batch, added, unindexed, searcherVars, forgotten,
                   bounded>>

\* BuildIndex reads the next rows past those of its batch.
ReadRows(g) ==
    /\ phase[g] = "read"
    /\ \E rows \in SUBSET (unindexed \ batch[g]) \ {{}} :
          batch' = [batch EXCEPT ![g] = @ \cup rows]
    /\ UNCHANGED <<building, pendingRebuild, timerVars, starting, phase, added,
                   unindexed, searcherVars, forgotten, bounded>>

\* BuildIndex reaches its batch size and marks what it has flushed.
FlushBatch(g) ==
    /\ phase[g] = "read"
    /\ batch[g] # {}
    /\ unindexed' = unindexed \ batch[g]
    /\ batch' = [batch EXCEPT ![g] = {}]
    /\ UNCHANGED <<building, pendingRebuild, timerVars, starting, phase, added,
                   searcherVars, forgotten, bounded>>

\* BuildIndex reads no more rows: what is added from here on is for a later
\* build.
ReadEnd(g) ==
    /\ phase[g] = "read"
    /\ unindexed \subseteq batch[g]
    /\ phase' = [phase EXCEPT ![g] = "flush"]
    /\ UNCHANGED <<building, pendingRebuild, timerVars, starting, batch, added,
                   unindexed, searcherVars, forgotten, bounded>>

\* BuildIndex flushes and marks the last batch ...
LastFlush(g) ==
    /\ phase[g] = "flush"
    /\ unindexed' = unindexed \ batch[g]
    /\ batch' = [batch EXCEPT ![g] = {}]
    /\ phase' = [phase EXCEPT ![g] = "commit"]
    /\ UNCHANGED <<building, pendingRebuild, timerVars, starting, added, searcherVars,
                   forgotten, bounded>>

Indexed == {i \in NewImage : added[i] # "no"} \ unindexed

\* ... and commits: shards without a main file become one, also those that an
\* earlier build has left.
CommitIndex(g) ==
    /\ phase[g] = "commit"
    /\ mainFile' = (mainFile \/ Indexed # {})
    /\ phase' = [phase EXCEPT ![g] = "reload"]
    /\ UNCHANGED <<building, pendingRebuild, timerVars, starting, batch, added,
                   unindexed, served, stranded, forgotten, bounded>>

\* BuildIndex returns an error.  Nothing retries it.
BuildFails(g) ==
    /\ failures < MaxFailures
    /\ failures' = failures + 1
    /\ phase[g] \in {"read", "flush", "commit"}
    /\ phase' = [phase EXCEPT ![g] = "done"]
    /\ batch' = [batch EXCEPT ![g] = {}]
    /\ forgotten' = IF pendingRebuild THEN forgotten
                    ELSE forgotten \cup {i \in unindexed : added[i] = "scheduled"}
    /\ UNCHANGED <<building, pendingRebuild, timerVars, starting, added,
                   unindexed, searcherVars, restarts, posts>>

\* OpenIndex gives a searcher over all that is indexed, or fails; without a main
\* file it always does.
OpenIndex ==
    \/ mainFile /\ served' = Indexed /\ UNCHANGED failures
    \/ ~mainFile /\ UNCHANGED <<served, failures>>
    \/ failures < MaxFailures /\ failures' = failures + 1 /\ UNCHANGED served

\* reloadSearcher after the build; with enough shards a compaction follows.
Reload(g) ==
    /\ phase[g] = "reload"
    /\ \E next \in {"compact", "done"} : phase' = [phase EXCEPT ![g] = next]
    /\ OpenIndex
    /\ UNCHANGED <<building, pendingRebuild, timerVars, starting, batch, added,
                   unindexed, mainFile, stranded, forgotten, posts, restarts>>

\* Compact, and a second reload unless one of the two fails.
Compact(g) ==
    /\ phase[g] = "compact"
    /\ phase' = [phase EXCEPT ![g] = "done"]
    /\ OpenIndex
    /\ UNCHANGED <<building, pendingRebuild, timerVars, starting, batch, added,
                   unindexed, mainFile, stranded, forgotten, posts, restarts>>

\* Bug: pendingRebuild is cleared before it is looked at.
BugFinishForgets(g) ==
    /\ phase[g] = "done"
    /\ phase' = [phase EXCEPT ![g] = "idle"]
    /\ building' = FALSE
    /\ pendingRebuild' = FALSE
    /\ UNCHANGED <<timerVars, starting, batch, added, unindexed, searcherVars,
                   forgotten, bounded>>

\* Bug: a build that found nothing to do starts the next one all the same.
BugFinishRepeats(g) ==
    /\ phase[g] = "done"
    /\ phase' = [phase EXCEPT ![g] = "idle"]
    /\ building' = FALSE
    /\ pendingRebuild' = FALSE
    /\ starting' = starting + 1
    /\ UNCHANGED <<timerVars, batch, added, unindexed, searcherVars, forgotten,
                   bounded>>

\* The deferred function: leave, and go round again if asked to.
Finish(g) ==
    /\ phase[g] = "done"
    /\ phase' = [phase EXCEPT ![g] = "idle"]
    /\ building' = FALSE
    /\ pendingRebuild' = FALSE
    /\ starting' = IF pendingRebuild THEN starting + 1 ELSE starting
    /\ UNCHANGED <<timerVars, batch, added, unindexed, searcherVars, forgotten,
                   bounded>>

-----------------------------------------------------------------------------
(* The process.                                                            *)

\* handler.Shutdown stops the timer; requests and builds that are under way
\* go on until the process is gone.
Shutdown ==
    /\ restarts < MaxRestarts
    /\ timer # "none"
    /\ timer' = "none"
    /\ forgotten' = forgotten \cup {i \in unindexed : added[i] = "scheduled"}
    /\ UNCHANGED <<building, pendingRebuild, stray, firing, starting, buildVars,
                   added, unindexed, searcherVars, bounded>>

\* The process ends, at any point, and starts again: it opens the index as it
\* is, or serves the empty searcher if there is no main file, and schedules no
\* build.
Restart ==
    /\ restarts < MaxRestarts
    /\ restarts' = restarts + 1
    /\ building' = FALSE
    /\ pendingRebuild' = FALSE
    /\ timer' = "none"
    /\ stray' = 0
    /\ firing' = 0
    /\ starting' = 0
    /\ phase' = [g \in Goroutine |-> "idle"]
    /\ batch' = [g \in Goroutine |-> {}]
    /\ added' = [i \in NewImage |-> IF added[i] = "committed" THEN "scheduled"
                                 ELSE added[i]]
    /\ served' = IF mainFile THEN Indexed ELSE {}
    /\ stranded' = IF mainFile THEN stranded ELSE stranded \cup Indexed
    /\ forgotten' = forgotten \cup unindexed
    /\ UNCHANGED <<unindexed, mainFile, posts, failures>>

BuildStep(g) ==
    \/ StartBuild(g)
    \/ ReadRows(g)
    \/ FlushBatch(g)
    \/ ReadEnd(g)
    \/ LastFlush(g)
    \/ CommitIndex(g)
    \/ Reload(g)
    \/ Compact(g)
    \/ Finish(g)

SchedulerNext ==
    \/ \E i \in NewImage : CommitImage(i)
    \/ \E i \in NewImage : ScheduleBuild(i)
    \/ PostBuild
    \/ TimerExpires
    \/ TimerCallback
    \/ StartBuildBusy
    \/ \E g \in Goroutine : BuildStep(g)
    \/ \E g \in Goroutine : BuildFails(g)
    \/ Shutdown
    \/ Restart

SchedulerSpec == SchedulerInit /\ [][SchedulerNext]_schedulerVars

\* Timers fire, goroutines that can run do run, and a request that has
\* committed its image goes on to schedule the build.  Nothing makes a client
\* add an image or a build fail.
Fairness ==
    /\ \A i \in NewImage : WF_schedulerVars(ScheduleBuild(i))
    /\ WF_schedulerVars(TimerExpires)
    /\ WF_schedulerVars(TimerCallback)
    /\ WF_schedulerVars(StartBuildBusy)
    /\ WF_schedulerVars(\E g \in Goroutine : BuildStep(g))

FairSpec == SchedulerSpec /\ Fairness

-----------------------------------------------------------------------------
(* What the scheduler promises.                                            *)

Running == {g \in Goroutine : phase[g] # "idle"}

\* The shape of the state; no count of timers or goroutines goes below zero.
SchedulerTypeOK ==
    /\ building \in BOOLEAN
    /\ pendingRebuild \in BOOLEAN
    /\ timer \in {"none", "armed", "fired"}
    /\ stray \in Nat
    /\ firing \in Nat
    /\ starting \in Nat
    /\ phase \in [Goroutine -> Phase]
    /\ batch \in [Goroutine -> SUBSET NewImage]
    /\ added \in [NewImage -> {"no", "committed", "scheduled"}]
    /\ unindexed \subseteq NewImage
    /\ mainFile \in BOOLEAN
    /\ served \subseteq NewImage /\ stranded \subseteq NewImage
    /\ forgotten \subseteq NewImage
    /\ posts \in Nat /\ failures \in Nat /\ restarts \in Nat

\* However timers, requests and rebuilds race, two builds never run at once:
\* the shard files and the batch of rows belong to one goroutine.
OneBuild == \A g, h \in Running : g = h

\* The flag tells the truth: it is set exactly while a goroutine builds, so
\* startBuild neither drops a request nobody will serve nor starts a second
\* build.
BuildingIsRunning == building <=> Running # {}

\* A build that will still read this image, or has it in its batch.
InHand(i) ==
    \E g \in Goroutine : phase[g] = "read" \/ i \in batch[g]

\* No wake-up is lost.  An image that is not indexed has its scheduleBuild
\* call before it, or is in the hands of the running build, or the running
\* build has been told to go round again, or, when no build runs, a timer or
\* a goroutine is on its way to start one.  Only images whose request died
\* with a failed build, a shutdown or a restart are excepted.
NoLostWakeup ==
    \A i \in unindexed \ forgotten :
        \/ added[i] = "committed"
        \/ building /\ (pendingRebuild \/ InHand(i))
        \/ ~building /\ (timer = "armed" \/ stray + firing + starting > 0)

\* Every image that is added is found by search in the end, whatever the
\* interleaving of timers, requests and builds.  Excepted are images whose
\* request died (forgotten), images that the first build had marked when the
\* process ended before its commit (stranded: nothing can open their shards, and
\* nothing asks for another build), and, after a build or a reload that failed,
\* images that are indexed but wait for the next one.
EventuallySearchable ==
    \A i \in NewImage :
        added[i] = "committed" ~>
            \/ i \in served
            \/ i \in forgotten \cup stranded
            \/ failures > 0 /\ i \notin unindexed

\* The server comes to rest: builds do not go on forever.
EventuallyQuiet ==
    <>[](~building /\ timer = "none" /\ stray = 0 /\ firing = 0 /\ starting = 0)
=============================================================================
