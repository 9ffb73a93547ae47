------------------------- MODULE AddPipeline_proofs -------------------------
(***************************************************************************)
(* Proofs about the command `add`, for every directory, any number of      *)
(* workers, any capacity of the channels and size of the batches, and      *)
(* whatever other processes do to the store meanwhile.                     *)
(***************************************************************************)
EXTENDS AddPipeline, SequenceTheorems, FiniteSetTheorems, WellFoundedInduction, TLAPS

-----------------------------------------------------------------------------
(* The inductive invariant.                                                *)

FileNo == 1..Len(File)
Channel == [buffer : Seq(FileNo), closed : BOOLEAN]
Work == [pc : {"idle", "check", "send", "gone"}, file : 0..Len(File)]
AnnIndex == [by : Process \cup {"nobody"}, of : SUBSET Hash]

Busy == {w \in Worker : work[w].pc \in {"check", "send"}}
In(s) == {s[i] : i \in DOMAIN s}

\* The channels and the goroutines behind them end in the order in which the
\* work passes through them.
EndsInOrder ==
    /\ paths.closed => walked = Len(File)
    /\ \A w \in Worker :
          work[w].pc = "gone" => paths.closed /\ paths.buffer = <<>>
    /\ jobs.closed => \A w \in Worker : work[w].pc = "gone"
    /\ writer = "gone" => jobs.closed /\ jobs.buffer = <<>>
    /\ stage \in {"ending", "done"} => writer = "gone"

\* Every file the walker has passed on is in one place, or counted once.
EachCountedOnce ==
    walked = Len(paths.buffer) + Cardinality(Busy) + Len(jobs.buffer)
             + Len(batch) + added + skipped + passed

\* What the run has stored is in the table until others delete it, so that
\* nothing is stored twice before.
MineIsStored ==
    /\ mine \subseteq rows \cup gone /\ rows \subseteq ever
    /\ gone = {} => added + unsure = Cardinality(mine)

\* A file that is nowhere on its way has been stored or given up.
Held(n) ==
    \/ n \in In(paths.buffer) \cup In(jobs.buffer) \cup In(batch)
    \/ \E w \in Busy : work[w].file = n

NothingDropped ==
    \A n \in 1..walked :
        Held(n) \/ (File[n].usable => HashOf(n) \in ever \cup lost)

\* The importer makes an index only at the end, from all it has stored; until
\* then the only index there can be is one that another process has made.
MadeAtTheEnd ==
    /\ index.by = "nobody" => index = NoIndex
    /\ stage \notin {"ending", "done", "abandoned"} => ann[Importer] = "off" /\ attempt = 0
    /\ online /\ stage = "running" => index.by # Importer
    /\ online /\ stage \in {"ending", "done", "abandoned"} =>
          /\ ~bulk[Importer]
          /\ index.by = Importer => mine \subseteq index.of \cup gone
          /\ ann[Importer] = "ok" =>
                index.by = Server \/ mine \subseteq index.of \cup gone

\* What TypeOK leaves out of the store: the index is a record, another attempt is
\* made only while there are some left, and a search asks for what it may ask for.
StoreTypes ==
    /\ rows \subseteq Hash
    /\ index \in AnnIndex
    /\ bulk \in [Process -> BOOLEAN]
    /\ ann \in [Process -> {"off", "check", "create", "failed", "ok", "error"}]
    /\ attempt \in 0..(MaxAttempts + 1)
    /\ ann[Importer] \in {"check", "create", "failed"} => attempt \in 1..MaxAttempts
    /\ guc \in [Conn -> {Floor, ServerDefault} \cup NProbe] /\ raised \subseteq Conn
    /\ query.asked \in {0} \cup NProbe

\* What it leaves out of the command: the channels hold files, the counts are
\* naturals, and a batch is full only when it is flushed.
PipeTypes ==
    /\ online \in BOOLEAN
    /\ stage \in {"off", "running", "ending", "done", "abandoned", "searching"}
    /\ walked \in 0..Len(File)
    /\ paths \in Channel /\ Len(paths.buffer) <= PathCap
    /\ jobs \in Channel /\ Len(jobs.buffer) <= JobCap
    /\ work \in [Worker -> Work] /\ \A w \in Busy : work[w].file \in FileNo
    /\ batch \in Seq(FileNo) /\ Len(batch) <= BatchSize
    /\ writer \in {"take", "flush", "retry", "gone"}
    /\ writer = "gone" => batch = <<>>
    /\ writer = "take" => Len(batch) < BatchSize
    /\ writer \in {"flush", "retry"} => batch # <<>>
    /\ added \in Nat /\ skipped \in Nat /\ passed \in Nat /\ unsure \in Nat
    /\ mine \subseteq Hash /\ IsFiniteSet(mine)

Types == StoreTypes /\ PipeTypes

IInv ==
    /\ Types
    /\ EndsInOrder
    /\ EachCountedOnce
    /\ MineIsStored
    /\ NothingDropped
    /\ MadeAtTheEnd

-----------------------------------------------------------------------------
(* Sequences, channels and files.                                          *)

LEMMA FileTypes ==
    ASSUME NEW n \in FileNo
    PROVE  HashOf(n) \in Hash /\ File[n].usable \in BOOLEAN /\ n \in DOMAIN File
<1>1. DOMAIN File = 1..Len(File) /\ File[n] \in [hash : Hash, usable : BOOLEAN]
  BY FileAssumption, LenProperties, ElementOfSeq DEF FileNo
<1> QED BY <1>1 DEF FileNo, HashOf

LEMMA Put ==
    ASSUME NEW s \in Seq(FileNo), NEW n \in FileNo
    PROVE  /\ Append(s, n) \in Seq(FileNo)
           /\ Len(Append(s, n)) = Len(s) + 1 /\ Len(s) \in Nat
           /\ Append(s, n) # <<>>
           /\ In(Append(s, n)) = In(s) \cup {n}
<1>1. /\ Append(s, n) \in Seq(FileNo)
      /\ Len(Append(s, n)) = Len(s) + 1 /\ Len(s) \in Nat
      /\ \A i \in 1..Len(s) : Append(s, n)[i] = s[i]
      /\ Append(s, n)[Len(s) + 1] = n
      /\ DOMAIN s = 1..Len(s) /\ DOMAIN Append(s, n) = 1..(Len(s) + 1)
  OBVIOUS
<1>2. In(Append(s, n)) = In(s) \cup {n}
  BY <1>1 DEF In
<1> QED BY <1>1, <1>2

LEMMA Take ==
    ASSUME NEW s \in Seq(FileNo), s # <<>>
    PROVE  /\ Tail(s) \in Seq(FileNo)
           /\ Len(Tail(s)) = Len(s) - 1 /\ Len(s) \in Nat /\ Len(s) > 0
           /\ Head(s) \in FileNo
           /\ In(s) = In(Tail(s)) \cup {Head(s)}
<1>1. /\ Tail(s) \in Seq(FileNo)
      /\ Len(Tail(s)) = Len(s) - 1 /\ Len(s) \in Nat /\ Len(s) > 0
      /\ Head(s) = s[1] /\ Head(s) \in FileNo
      /\ \A i \in 1..(Len(s) - 1) : Tail(s)[i] = s[i + 1]
      /\ DOMAIN s = 1..Len(s) /\ DOMAIN Tail(s) = 1..(Len(s) - 1)
  BY HeadTailProperties, EmptySeq, LenProperties
<1>2. ASSUME NEW x \in In(s) PROVE x \in In(Tail(s)) \cup {Head(s)}
  <2>1. PICK i \in 1..Len(s) : x = s[i]
    BY <1>1 DEF In
  <2>2. CASE i = 1
    BY <1>1, <2>1, <2>2
  <2>3. CASE i # 1
    <3>1. i - 1 \in 1..(Len(s) - 1) /\ (i - 1) + 1 = i
      BY <1>1, <2>1, <2>3
    <3>2. Tail(s)[i - 1] = x
      BY <1>1, <2>1, <3>1
    <3> QED BY <1>1, <3>1, <3>2 DEF In
  <2> QED BY <2>2, <2>3
<1>3. ASSUME NEW x \in In(Tail(s)) \cup {Head(s)} PROVE x \in In(s)
  <2>1. CASE x = Head(s)
    <3>1. 1 \in 1..Len(s)
      BY <1>1
    <3> QED BY <1>1, <2>1, <3>1 DEF In
  <2>2. CASE x \in In(Tail(s))
    <3>1. PICK i \in 1..(Len(s) - 1) : x = Tail(s)[i]
      BY <1>1, <2>2 DEF In
    <3>2. i + 1 \in 1..Len(s) /\ x = s[i + 1]
      BY <1>1, <3>1
    <3> QED BY <1>1, <3>2 DEF In
  <2> QED BY <2>1, <2>2
<1> QED BY <1>1, <1>2, <1>3

LEMMA ChannelTypes ==
    ASSUME NEW c \in Channel
    PROVE  c.buffer \in Seq(FileNo) /\ c.closed \in BOOLEAN /\ Len(c.buffer) \in Nat
<1>1. c.buffer \in Seq(FileNo) /\ c.closed \in BOOLEAN
  BY DEF Channel
<1> QED BY <1>1, LenProperties

\* A channel whose buffer is replaced is still one, as open as before.
LEMMA ChannelBuffer ==
    ASSUME NEW c \in Channel, NEW s \in Seq(FileNo)
    PROVE  /\ [c EXCEPT !.buffer = s] \in Channel
           /\ [c EXCEPT !.buffer = s].buffer = s
           /\ [c EXCEPT !.buffer = s].closed = c.closed
BY DEF Channel

LEMMA ChannelClosed ==
    ASSUME NEW c \in Channel
    PROVE  /\ [c EXCEPT !.closed = TRUE] \in Channel
           /\ [c EXCEPT !.closed = TRUE].buffer = c.buffer
           /\ [c EXCEPT !.closed = TRUE].closed
BY DEF Channel

LEMMA EmptyChannel ==
    /\ Empty \in Channel /\ Empty.buffer = <<>> /\ ~Empty.closed
    /\ <<>> \in Seq(FileNo) /\ Len(<<>>) = 0 /\ In(<<>>) = {}
<1>1. <<>> \in Seq(FileNo) /\ Len(<<>>) = 0 /\ DOMAIN <<>> = {}
  OBVIOUS
<1> QED BY <1>1 DEF Empty, Channel, In

LEMMA WorkTypes ==
    /\ \A n \in 0..Len(File), q \in {"idle", "check", "send", "gone"} :
          [pc |-> q, file |-> n] \in Work
    /\ Idle \in Work /\ Idle.pc = "idle"
<1>1. Len(File) \in Nat /\ 0 \in 0..Len(File)
  BY FileAssumption, LenProperties
<1> QED BY <1>1 DEF Work, Idle

\* What a worker does next, the others go on as they were.
LEMMA OneWorker ==
    ASSUME PipeTypes, NEW w \in Worker, NEW x \in Work,
           work' = [work EXCEPT ![w] = x]
    PROVE  /\ work' \in [Worker -> Work]
           /\ \A v \in Worker : work'[v] = IF v = w THEN x ELSE work[v]
BY DEF PipeTypes

LEMMA WorkerMoves ==
    ASSUME PipeTypes, NEW w \in Worker, NEW q \in {"idle", "check", "send", "gone"},
           work' = [work EXCEPT ![w].pc = q]
    PROVE  \E x \in Work : /\ work' = [work EXCEPT ![w] = x]
                           /\ x.pc = q /\ x.file = work[w].file
<1> DEFINE x == [pc |-> q, file |-> work[w].file]
<1>1. work[w] \in Work
  BY DEF PipeTypes
<1>2. x \in Work
  BY <1>1 DEF Work
<1>3. [work[w] EXCEPT !.pc = q] = x
  BY <1>1 DEF Work
<1>4. work' = [work EXCEPT ![w] = [work[w] EXCEPT !.pc = q]]
  BY DEF PipeTypes
<1> QED BY <1>2, <1>3, <1>4

\* The hashes of a batch that are new to the table.
LEMMA FreshTypes ==
    ASSUME PipeTypes
    PROVE  /\ InBatch \subseteq Hash /\ Fresh \subseteq Hash
           /\ Fresh \subseteq InBatch
           /\ IsFiniteSet(Fresh) /\ Cardinality(Fresh) \in Nat
           /\ Cardinality(Fresh) <= Len(batch) /\ Len(batch) \in Nat
<1>1. /\ DOMAIN batch = 1..Len(batch) /\ Len(batch) \in Nat
      /\ \A i \in 1..Len(batch) : batch[i] \in FileNo
  BY LenProperties, ElementOfSeq DEF PipeTypes
<1>2. InBatch \subseteq Hash
  BY <1>1, FileTypes DEF InBatch
<1> DEFINE f == [i \in 1..Len(batch) |-> HashOf(batch[i])]
<1>3. f \in Surjection(1..Len(batch), InBatch)
  <2>1. f \in [1..Len(batch) -> InBatch]
    BY <1>1 DEF InBatch
  <2>2. ASSUME NEW h \in InBatch PROVE \E i \in 1..Len(batch) : f[i] = h
    BY <1>1 DEF InBatch
  <2> HIDE DEF f
  <2> QED BY <2>1, <2>2 DEF Surjection
<1> HIDE DEF f
<1>4. ExistsSurjection(1..Len(batch), InBatch)
  BY <1>3 DEF ExistsSurjection
<1>5. IsFiniteSet(InBatch) /\ Cardinality(InBatch) <= Len(batch)
  BY <1>1, <1>4, FS_NatSurjection, FS_SurjCardinalityBound
<1>6. Fresh \subseteq InBatch
  BY DEF Fresh
<1>7. /\ IsFiniteSet(Fresh) /\ Cardinality(Fresh) \in Nat
      /\ Cardinality(Fresh) <= Cardinality(InBatch) /\ Cardinality(InBatch) \in Nat
  BY <1>5, <1>6, FS_Subset, FS_CardinalityType
<1> QED BY <1>1, <1>2, <1>5, <1>6, <1>7


LEMMA Constants ==
    /\ Importer \in Process /\ Server \in Process /\ Importer # Server
    /\ Importer # "nobody" /\ Server # "nobody"
    /\ NoIndex \in AnnIndex /\ NoIndex.by = "nobody" /\ NoIndex.of = {}
    /\ MaxAttempts \in Nat /\ 1 \in 1..MaxAttempts
    /\ PathCap \in Nat /\ JobCap \in Nat /\ BatchSize \in Nat /\ BatchSize > 0
    /\ Len(File) \in Nat
    /\ IsFiniteSet(Worker) /\ Worker # {}
<1>1. Len(File) \in Nat
  BY FileAssumption, LenProperties
<1>2. Importer # "nobody" /\ Server # "nobody"
  BY ProcessAssumption DEF Process
<1> QED BY <1>1, <1>2, ProcessAssumption, PoolAssumption, PipelineAssumption
        DEF Process, NoIndex, AnnIndex

-----------------------------------------------------------------------------
(* The steps: of the command, of its goroutines, and of other processes.   *)

Command == Run \/ Finish \/ Done \/ Abandon \/ Abandoned \/ Crash

Goroutine ==
    \/ Walk \/ WalkEnds
    \/ \E w \in Worker : WorkerTakes(w) \/ WorkerChecks(w) \/ WorkerSends(w)
    \/ CloseJobs
    \/ WriterTakes \/ WriterEnds \/ Flush \/ FlushFails \/ Retry

Outside == Other \/ Index \/ Searching \/ UNCHANGED vars

LEMMA EveryStep ==
    ASSUME [Next]_vars
    PROVE  Command \/ Goroutine \/ Outside
BY DEF Next, Ended, Command, Goroutine, Outside

\* The goroutines run only while the command does, leave the index and the
\* connections alone, and take nothing back that is stored or given up.
GoroutineKeeps ==
    /\ stage = "running" /\ stage' = stage /\ online' = online
    /\ index' = index /\ bulk' = bulk /\ ann' = ann /\ attempt' = attempt
    /\ guc' = guc /\ raised' = raised /\ query' = query /\ gone' = gone
    /\ rows \subseteq rows' /\ ever \subseteq ever' /\ lost \subseteq lost'

LEMMA GoroutinesKeep ==
    ASSUME Goroutine
    PROVE  GoroutineKeeps
<1> USE DEF GoroutineKeeps, storeVars, annVars, queryVars, history, counts
<1>1. CASE Walk BY <1>1 DEF Walk
<1>2. CASE WalkEnds BY <1>2 DEF WalkEnds
<1>3. CASE \E w \in Worker : WorkerTakes(w) BY <1>3 DEF WorkerTakes
<1>4. CASE \E w \in Worker : WorkerChecks(w) BY <1>4 DEF WorkerChecks
<1>5. CASE \E w \in Worker : WorkerSends(w) BY <1>5 DEF WorkerSends
<1>6. CASE CloseJobs BY <1>6 DEF CloseJobs
<1>7. CASE WriterTakes BY <1>7 DEF WriterTakes
<1>8. CASE WriterEnds BY <1>8 DEF WriterEnds
<1>9. CASE Flush BY <1>9 DEF Flush, Store
<1>10. CASE FlushFails BY <1>10 DEF FlushFails, Store
<1>11. CASE Retry BY <1>11 DEF Retry, Store
<1> QED BY <1>1, <1>2, <1>3, <1>4, <1>5, <1>6, <1>7, <1>8, <1>9, <1>10, <1>11 DEF Goroutine

\* A search leaves the rows and their index alone.
LEMMA SearchesOnlyRead ==
    ASSUME Search
    PROVE  UNCHANGED <<rows, annVars>>
BY DEF Search, SearchDescriptors, AcquireFails, QueryBatch, Reconnect

\* Other processes touch nothing of the command, and what they take from the
\* table is known to be gone.
OutsideKeeps ==
    /\ stage' = stage /\ online' = online
    /\ walked' = walked /\ paths' = paths /\ work' = work /\ jobs' = jobs
    /\ writer' = writer /\ batch' = batch
    /\ added' = added /\ skipped' = skipped /\ mine' = mine /\ passed' = passed
    /\ unsure' = unsure /\ lost' = lost
    /\ ever \subseteq ever' /\ gone \subseteq gone'
    /\ rows \subseteq rows' \cup gone' /\ rows' \subseteq rows \cup ever'

LEMMA OthersKeep ==
    ASSUME Outside
    PROVE  OutsideKeeps
<1> USE DEF OutsideKeeps, pipe, counts
<1>1. CASE Other
  BY <1>1 DEF Other, AddElsewhere, DeleteElsewhere
<1>2. CASE Index
  <2>1. rows' = rows
    BY <1>2 DEF Index, ANN, CheckANN, CreateANN, CreateFails, TryAgain, SearcherOpened, NewSearcher
  <2> QED BY <1>2, <2>1 DEF Index
<1>3. CASE Searching
  <2>1. rows' = rows
    BY <1>3, SearchesOnlyRead DEF Searching
  <2> QED BY <1>3, <2>1 DEF Searching, pipeVars, history
<1>4. CASE UNCHANGED vars
  BY <1>4 DEF vars, storeVars, pipeVars, history
<1> QED BY <1>1, <1>2, <1>3, <1>4 DEF Outside

-----------------------------------------------------------------------------
(* Types of the store.                                                     *)

LEMMA IndexTypes ==
    ASSUME StoreTypes, Index
    PROVE  StoreTypes'
<1> USE Constants DEF StoreTypes, queryVars
<1>1. CASE \E p \in Process : CheckANN(p)
  BY <1>1 DEF CheckANN
<1>2. CASE \E p \in Process : CreateANN(p)
  BY <1>2 DEF CreateANN, AnnIndex
<1>3. CASE \E p \in Process : CreateFails(p)
  BY <1>3 DEF CreateFails
<1>4. CASE TryAgain
  BY <1>4 DEF TryAgain
<1>5. CASE SearcherOpened
  BY <1>5 DEF SearcherOpened
<1>6. CASE NewSearcher
  BY <1>6 DEF NewSearcher
<1> QED BY <1>1, <1>2, <1>3, <1>4, <1>5, <1>6 DEF Index, ANN

LEMMA SearchTypes ==
    ASSUME StoreTypes, Search
    PROVE  StoreTypes'
<1> SUFFICES /\ guc' \in [Conn -> {Floor, ServerDefault} \cup NProbe]
             /\ raised' \subseteq Conn
             /\ query'.asked \in {0} \cup NProbe
  BY SearchesOnlyRead DEF StoreTypes, annVars
<1> USE DEF StoreTypes
<1>1. ASSUME NEW n \in Given, NEW q \in NProbe, SearchDescriptors(n, q)
      PROVE  guc' = guc /\ raised' = raised /\ query'.asked = q
  BY <1>1 DEF SearchDescriptors
<1>2. ASSUME NEW w \in DOMAIN answers, AcquireFails(w)
      PROVE  guc' = guc /\ raised' = raised /\ query' = query
  BY <1>2 DEF AcquireFails
<1>3. ASSUME NEW w \in DOMAIN answers, NEW c \in Conn, QueryBatch(w, c)
      PROVE  /\ guc' \in [Conn -> {Floor, ServerDefault} \cup NProbe]
             /\ raised' \subseteq Conn /\ query' = query
  <2>1. \/ guc' = guc /\ raised' = raised
        \/ guc' = [guc EXCEPT ![c] = ServerDefault] /\ raised' = raised \cup {c}
        \/ /\ query.asked > Floor
           /\ guc' = [guc EXCEPT ![c] = query.asked] /\ raised' = raised \ {c}
    BY <1>3 DEF QueryBatch
  <2>2. query.asked > Floor => query.asked \in NProbe
    BY PoolAssumption
  <2> QED BY <1>3, <2>1, <2>2 DEF QueryBatch
<1>4. ASSUME NEW c \in Conn, Reconnect(c)
      PROVE  /\ guc' \in [Conn -> {Floor, ServerDefault} \cup NProbe]
             /\ raised' \subseteq Conn /\ query' = query
  BY <1>4 DEF Reconnect
<1> QED BY <1>1, <1>2, <1>3, <1>4 DEF Search

LEMMA OutsideTypes ==
    ASSUME StoreTypes, Outside
    PROVE  StoreTypes'
<1>1. CASE Other
  BY <1>1 DEF Other, AddElsewhere, DeleteElsewhere, StoreTypes, annVars, queryVars
<1>2. CASE Index
  BY <1>2, IndexTypes
<1>3. CASE Searching
  BY <1>3, SearchTypes DEF Searching
<1>4. CASE UNCHANGED vars
  BY <1>4 DEF vars, storeVars, annVars, queryVars, StoreTypes
<1> QED BY <1>1, <1>2, <1>3, <1>4 DEF Outside

LEMMA CommandStoreTypes ==
    ASSUME StoreTypes, Command
    PROVE  StoreTypes'
<1> USE Constants DEF StoreTypes, storeVars, annVars, queryVars
<1>1. CASE Run
  BY <1>1 DEF Run, BeginBulkImport
<1>2. CASE Finish \/ Abandon
  <2>1. CASE EndBulkImport
    <3>1. /\ bulk' \in [Process -> BOOLEAN]
          /\ ann' \in [Process -> {"off", "check", "create", "failed", "ok", "error"}]
      BY <2>1 DEF EndBulkImport
    <3>2. 1 \in 0..(MaxAttempts + 1)
      OBVIOUS
    <3> QED BY <2>1, <3>1, <3>2 DEF EndBulkImport
  <2>2. CASE UNCHANGED storeVars
    BY <2>2
  <2> QED BY <1>2, <2>1, <2>2 DEF Finish, Abandon
<1>3. CASE Done \/ Abandoned
  BY <1>3 DEF Done, Abandoned
<1>4. CASE Crash
  BY <1>4 DEF Crash
<1> QED BY <1>1, <1>2, <1>3, <1>4 DEF Command

\* The goroutines only add to the table.
LEMMA GoroutineStoreTypes ==
    ASSUME Types, Goroutine
    PROVE  StoreTypes'
<1>1. rows' \subseteq Hash
  <2>1. CASE rows' = rows
    BY <2>1 DEF Types, StoreTypes
  <2>2. CASE Flush
    BY <2>2, FreshTypes DEF Types, StoreTypes, Flush, Store
  <2>3. CASE FlushFails
    BY <2>3, FreshTypes DEF Types, StoreTypes, FlushFails, Store
  <2>4. CASE Retry
    <3>1. HashOf(Head(batch)) \in Hash
      BY <2>4, Take, FileTypes DEF Retry, Types, PipeTypes
    <3> QED BY <2>4, <3>1 DEF Types, StoreTypes, Retry, Store
  <2> QED
    BY <2>1, <2>2, <2>3, <2>4
       DEF Goroutine, Walk, WalkEnds, WorkerTakes, WorkerChecks, WorkerSends, CloseJobs,
           WriterTakes, WriterEnds, storeVars
<1> QED BY <1>1, GoroutinesKeep DEF Types, StoreTypes, GoroutineKeeps

LEMMA StoreTypesStay ==
    ASSUME Types, [Next]_vars
    PROVE  StoreTypes'
BY EveryStep, OutsideTypes, CommandStoreTypes, GoroutineStoreTypes DEF Types

-----------------------------------------------------------------------------
(* Types of the command.                                                   *)

LEMMA CommandPipeTypes ==
    ASSUME PipeTypes, Command
    PROVE  PipeTypes'
<1> USE DEF PipeTypes, pipe, counts
<1>1. CASE stage' \in {"off", "running", "ending", "done", "abandoned"} /\ UNCHANGED <<online, pipe, counts>>
  BY <1>1 DEF Busy
<1>2. CASE Crash
  <2>1. work' \in [Worker -> Work] /\ Busy' = {}
    BY <1>2, WorkTypes DEF Crash, AllIdle, Busy
  <2>2. IsFiniteSet({})
    BY FS_EmptySet
  <2> QED BY <1>2, <2>1, <2>2, EmptyChannel, Constants DEF Crash
<1> QED BY <1>1, <1>2 DEF Command, Run, Finish, Done, Abandon, Abandoned

\* The state of a worker is its own.
WorkIsTyped == work \in [Worker -> Work] /\ \A w \in Busy : work[w].file \in FileNo

LEMMA WorkerTypes ==
    ASSUME PipeTypes, NEW w \in Worker, NEW x \in Work,
           x.pc \in {"check", "send"} => x.file \in FileNo,
           work' = [work EXCEPT ![w] = x]
    PROVE  WorkIsTyped'
BY OneWorker DEF PipeTypes, WorkIsTyped, Busy

LEMMA WalkTypes ==
    ASSUME PipeTypes, Walk \/ WalkEnds
    PROVE  PipeTypes'
<1>1. CASE Walk
  <2>0. /\ walked \in 0..Len(File) /\ walked < Len(File) /\ walked' = walked + 1
        /\ paths \in Channel /\ Len(paths.buffer) < PathCap
    BY <1>1 DEF Walk, PipeTypes
  <2>1. walked + 1 \in FileNo /\ walked + 1 \in 0..Len(File)
    BY <2>0, Constants DEF FileNo
  <2> DEFINE s == Append(paths.buffer, walked + 1)
  <2>2. /\ s \in Seq(FileNo) /\ Len(s) = Len(paths.buffer) + 1
        /\ Len(paths.buffer) \in Nat
    BY <2>0, <2>1, Put, ChannelTypes
  <2>3. paths' = [paths EXCEPT !.buffer = s]
    BY <1>1 DEF Walk
  <2> HIDE DEF s
  <2>4. paths' \in Channel /\ paths'.buffer = s
    BY <2>0, <2>2, <2>3, ChannelBuffer
  <2>5. Len(paths'.buffer) <= PathCap
    BY <2>0, <2>2, <2>4, Constants
  <2>6. /\ online' = online /\ stage' = stage /\ work' = work /\ jobs' = jobs
        /\ writer' = writer /\ batch' = batch /\ UNCHANGED counts
    BY <1>1 DEF Walk
  <2> QED BY <2>0, <2>1, <2>4, <2>5, <2>6 DEF PipeTypes, Busy, counts
<1>2. CASE WalkEnds
  BY <1>2, ChannelClosed DEF WalkEnds, Busy, PipeTypes, counts
<1> QED BY <1>1, <1>2

LEMMA WorkersTypes ==
    ASSUME PipeTypes, NEW w \in Worker, WorkerTakes(w) \/ WorkerChecks(w) \/ WorkerSends(w)
    PROVE  PipeTypes'
<1> USE DEF PipeTypes, counts
<1>1. CASE WorkerTakes(w)
  <2>1. CASE paths.buffer # <<>> /\ paths' = [paths EXCEPT !.buffer = Tail(@)]
             /\ work' = [work EXCEPT ![w] = [pc |-> "check", file |-> Head(paths.buffer)]]
    <3> DEFINE s == Tail(paths.buffer)
               x == [pc |-> "check", file |-> Head(paths.buffer)]
    <3>1. /\ s \in Seq(FileNo) /\ Len(s) = Len(paths.buffer) - 1
          /\ Len(paths.buffer) \in Nat /\ Head(paths.buffer) \in FileNo
      BY <2>1, Take, ChannelTypes
    <3>2. paths' = [paths EXCEPT !.buffer = s]
      BY <2>1
    <3>3. Head(paths.buffer) \in 0..Len(File)
      BY <3>1, Constants DEF FileNo
    <3>4. x \in Work /\ x.pc = "check" /\ x.file \in FileNo
      BY <3>1, <3>3, WorkTypes
    <3>5. work' = [work EXCEPT ![w] = x]
      BY <2>1
    <3> HIDE DEF s, x
    <3>6. paths' \in Channel /\ paths'.buffer = s
      BY <3>1, <3>2, ChannelBuffer
    <3>7. Len(paths'.buffer) <= PathCap
      BY <3>1, <3>6, Constants
    <3>8. WorkIsTyped'
      BY <3>4, <3>5, WorkerTypes
    <3> QED BY <1>1, <3>6, <3>7, <3>8 DEF WorkerTakes, WorkIsTyped
  <2>2. CASE work' = [work EXCEPT ![w].pc = "gone"] /\ UNCHANGED paths
    <3>1. PICK x \in Work : work' = [work EXCEPT ![w] = x] /\ x.pc = "gone"
      BY <2>2, WorkerMoves
    <3>2. WorkIsTyped'
      BY <3>1, WorkerTypes
    <3> QED BY <1>1, <2>2, <3>2 DEF WorkerTakes, WorkIsTyped
  <2> QED BY <1>1, <2>1, <2>2 DEF WorkerTakes
<1>2. CASE WorkerChecks(w)
  <2>1. work[w].file \in FileNo
    BY <1>2 DEF WorkerChecks, Busy
  <2>2. CASE work' = [work EXCEPT ![w].pc = "send"] /\ UNCHANGED skipped
    <3>1. PICK x \in Work : /\ work' = [work EXCEPT ![w] = x]
                            /\ x.pc = "send" /\ x.file = work[w].file
      BY <2>2, WorkerMoves
    <3>2. WorkIsTyped'
      BY <2>1, <3>1, WorkerTypes
    <3> QED BY <1>2, <2>2, <3>2 DEF WorkerChecks, WorkIsTyped
  <2>3. CASE work' = [work EXCEPT ![w] = Idle] /\ skipped' = skipped + 1
    <3>1. WorkIsTyped'
      BY <2>3, WorkTypes, WorkerTypes
    <3> QED BY <1>2, <2>3, <3>1 DEF WorkerChecks, WorkIsTyped
  <2> QED BY <1>2, <2>2, <2>3 DEF WorkerChecks
<1>3. CASE WorkerSends(w)
  <2> DEFINE s == Append(jobs.buffer, work[w].file)
  <2>1. work[w].file \in FileNo
    BY <1>3 DEF WorkerSends, Busy
  <2>2. /\ s \in Seq(FileNo) /\ Len(s) = Len(jobs.buffer) + 1
        /\ Len(jobs.buffer) \in Nat
    BY <2>1, Put, ChannelTypes
  <2>3. jobs' = [jobs EXCEPT !.buffer = s]
    BY <1>3 DEF WorkerSends
  <2> HIDE DEF s
  <2>4. jobs' \in Channel /\ jobs'.buffer = s
    BY <2>2, <2>3, ChannelBuffer
  <2>5. Len(jobs'.buffer) <= JobCap
    BY <1>3, <2>2, <2>4, Constants DEF WorkerSends
  <2>6. WorkIsTyped'
    BY <1>3, WorkTypes, WorkerTypes DEF WorkerSends
  <2> QED BY <1>3, <2>4, <2>5, <2>6 DEF WorkerSends, WorkIsTyped
<1> QED BY <1>1, <1>2, <1>3

\* What the writer takes from the channel, stated once for its three outcomes.
LEMMA WriterTook ==
    ASSUME PipeTypes, WriterTakes
    PROVE  /\ Head(jobs.buffer) \in FileNo
           /\ jobs' \in Channel /\ jobs'.buffer = Tail(jobs.buffer)
           /\ jobs'.closed = jobs.closed
           /\ Len(jobs'.buffer) = Len(jobs.buffer) - 1 /\ Len(jobs.buffer) \in Nat
           /\ In(jobs.buffer) = In(jobs'.buffer) \cup {Head(jobs.buffer)}
<1> DEFINE s == Tail(jobs.buffer)
<1>1. /\ s \in Seq(FileNo) /\ Head(jobs.buffer) \in FileNo
      /\ Len(s) = Len(jobs.buffer) - 1 /\ Len(jobs.buffer) \in Nat
      /\ In(jobs.buffer) = In(s) \cup {Head(jobs.buffer)}
  BY Take, ChannelTypes DEF WriterTakes, PipeTypes
<1>2. jobs' = [jobs EXCEPT !.buffer = s]
  BY DEF WriterTakes
<1> HIDE DEF s
<1>3. jobs' \in Channel /\ jobs'.buffer = s /\ jobs'.closed = jobs.closed
  BY <1>1, <1>2, ChannelBuffer DEF PipeTypes
<1> QED BY <1>1, <1>3 DEF s

\* What the run has stored grows by what it stores.
LEMMA MineGrows ==
    ASSUME PipeTypes, NEW H \in SUBSET Hash, IsFiniteSet(H), Store(H)
    PROVE  mine' \subseteq Hash /\ IsFiniteSet(mine')
<1>1. mine' = mine \cup H /\ IsFiniteSet(mine) /\ mine \subseteq Hash
  BY DEF Store, PipeTypes
<1>2. IsFiniteSet(mine \cup H)
  BY <1>1, FS_Union
<1> QED BY <1>1, <1>2

LEMMA WriterTypes ==
    ASSUME PipeTypes,
           CloseJobs \/ WriterTakes \/ WriterEnds \/ Flush \/ FlushFails \/ Retry
    PROVE  PipeTypes'
<1> USE DEF PipeTypes, counts
<1>1. CASE CloseJobs
  BY <1>1, ChannelClosed DEF CloseJobs, Busy
<1>2. CASE WriterTakes
  <2> DEFINE s == Append(batch, Head(jobs.buffer))
  <2>1. /\ s \in Seq(FileNo) /\ Len(s) = Len(batch) + 1 /\ Len(batch) \in Nat /\ s # <<>>
    BY WriterTook, <1>2, Put
  <2>2. Len(batch) < BatchSize
    BY <1>2 DEF WriterTakes
  <2>3. jobs' \in Channel /\ Len(jobs'.buffer) <= JobCap
    BY <1>2, WriterTook, Constants
  <2>6. /\ online' = online /\ stage' = stage /\ walked' = walked /\ paths' = paths
        /\ work' = work /\ added' = added /\ mine' = mine /\ passed' = passed
        /\ unsure' = unsure
    BY <1>2 DEF WriterTakes
  <2>4. CASE batch' = s /\ UNCHANGED skipped
    <3> HIDE DEF s
    <3>1. /\ batch' \in Seq(FileNo) /\ Len(batch') <= BatchSize
          /\ writer' \in {"take", "flush"}
          /\ writer' = "take" => Len(batch') < BatchSize
          /\ batch' # <<>>
      <4>1. writer' = IF Len(batch') >= BatchSize THEN "flush" ELSE "take"
        BY <1>2 DEF WriterTakes
      <4> QED BY <2>1, <2>2, <2>4, <4>1, Constants
    <3> QED BY <2>3, <2>4, <2>6, <3>1 DEF Busy
  <2>5. CASE batch' = batch /\ skipped' = skipped + 1
    <3>1. writer' = "take" /\ Len(batch') < BatchSize
      <4>1. writer' = IF Len(batch') >= BatchSize THEN "flush" ELSE "take"
        BY <1>2 DEF WriterTakes
      <4> QED BY <2>1, <2>2, <2>5, <4>1, Constants
    <3> QED BY <2>3, <2>5, <2>6, <3>1 DEF Busy
  <2> QED BY <1>2, <2>4, <2>5 DEF WriterTakes
<1>3. CASE WriterEnds
  BY <1>3 DEF WriterEnds, Busy
<1>4. CASE Flush
  <2>1. mine' \subseteq Hash /\ IsFiniteSet(mine')
    BY <1>4, FreshTypes, MineGrows DEF Flush
  <2>4. added' \in Nat /\ passed' \in Nat
    <3>1. /\ added' = added + Cardinality(Fresh)
          /\ passed' = passed + Len(batch) - Cardinality(Fresh)
          /\ added \in Nat /\ passed \in Nat /\ batch # <<>> /\ batch \in Seq(FileNo)
      BY <1>4 DEF Flush
    <3> QED BY <3>1, FreshTypes
  <2>2. writer' \in {"take", "gone"}
    BY <1>4 DEF Flush, Onward
  <2>3. batch' = <<>> /\ batch' \in Seq(FileNo) /\ Len(batch') = 0
    BY <1>4, EmptyChannel DEF Flush
  <2>5. /\ online' = online /\ stage' = stage /\ walked' = walked /\ paths' = paths
        /\ work' = work /\ jobs' = jobs /\ skipped' = skipped /\ unsure' = unsure
    BY <1>4 DEF Flush
  <2> QED BY <2>1, <2>2, <2>3, <2>4, <2>5, Constants DEF Busy
<1>5. CASE FlushFails
  <2>1. mine' \subseteq Hash /\ IsFiniteSet(mine')
    BY <1>5, FreshTypes, MineGrows DEF FlushFails
  <2>2. unsure' \in Nat
    BY <1>5, FreshTypes DEF FlushFails
  <2>3. /\ online' = online /\ stage' = stage /\ walked' = walked /\ paths' = paths
        /\ work' = work /\ jobs' = jobs /\ batch' = batch /\ added' = added
        /\ skipped' = skipped /\ passed' = passed
        /\ writer = "flush" /\ writer' = "retry"
    BY <1>5 DEF FlushFails
  <2> QED BY <2>1, <2>2, <2>3 DEF Busy
<1>6. CASE Retry
  <2>1. /\ batch' \in Seq(FileNo) /\ Len(batch') = Len(batch) - 1 /\ Len(batch) \in Nat
        /\ HashOf(Head(batch)) \in Hash
    BY <1>6, Take, FileTypes DEF Retry
  <2>2. IsFiniteSet({HashOf(Head(batch))})
    BY FS_Singleton
  <2>3. mine' \subseteq Hash /\ IsFiniteSet(mine')
    BY <1>6, <2>1, <2>2, MineGrows DEF Retry
  <2>4. added' \in Nat /\ skipped' \in Nat /\ unsure' \in Nat
    BY <1>6 DEF Retry, Store
  <2>5. /\ writer' \in {"take", "retry", "gone"}
        /\ writer' = "retry" <=> batch' # <<>>
    BY <1>6 DEF Retry, Onward
  <2>6. Len(batch') <= BatchSize /\ Len(<<>>) = 0
    BY <2>1, Constants
  <2>7. /\ online' = online /\ stage' = stage /\ walked' = walked /\ paths' = paths
        /\ work' = work /\ jobs' = jobs /\ passed' = passed
    BY <1>6 DEF Retry
  <2>8. writer' = "take" => Len(batch') < BatchSize
    BY <2>1, <2>5, <2>6, Constants
  <2> QED BY <2>1, <2>3, <2>4, <2>5, <2>6, <2>7, <2>8 DEF Busy
<1> QED BY <1>1, <1>2, <1>3, <1>4, <1>5, <1>6

LEMMA PipeTypesStay ==
    ASSUME PipeTypes, [Next]_vars
    PROVE  PipeTypes'
<1>1. CASE Command
  BY <1>1, CommandPipeTypes
<1>2. CASE Goroutine
  BY <1>2, WalkTypes, WorkersTypes, WriterTypes DEF Goroutine
<1>3. CASE Outside
  BY <1>3, OthersKeep DEF OutsideKeeps, PipeTypes, Busy
<1> QED BY EveryStep, <1>1, <1>2, <1>3

LEMMA TypesStay ==
    ASSUME Types, [Next]_vars
    PROVE  Types'
BY StoreTypesStay, PipeTypesStay DEF Types

-----------------------------------------------------------------------------
(* The order of the ends.                                                  *)

LEMMA EndsInOrderStays ==
    ASSUME Types, EndsInOrder, [Next]_vars
    PROVE  EndsInOrder'
<1> USE DEF Types, EndsInOrder, pipe, counts
<1>1. CASE Run \/ Finish \/ Done \/ Abandon \/ Abandoned
  BY <1>1 DEF Run, Finish, Done, Abandon, Abandoned
<1>2. CASE Crash
  BY <1>2, EmptyChannel DEF Crash, AllIdle, Idle
<1>3. CASE Walk
  <2>1. ~paths.closed
    BY <1>3, Constants DEF Walk, PipeTypes
  <2>2. paths'.closed = paths.closed
    BY <1>3 DEF Walk, PipeTypes, Channel
  <2> QED BY <1>3, <2>1, <2>2 DEF Walk
<1>4. CASE WalkEnds
  BY <1>4, ChannelClosed DEF WalkEnds, PipeTypes
<1>5. ASSUME NEW w \in Worker, WorkerTakes(w) \/ WorkerChecks(w) \/ WorkerSends(w)
      PROVE  EndsInOrder'
  <2>1. ~jobs.closed /\ writer # "gone"
    BY <1>5 DEF WorkerTakes, WorkerChecks, WorkerSends
  <2>2. stage = "running" /\ stage' = stage /\ writer' = writer /\ walked' = walked
    BY <1>5 DEF WorkerTakes, WorkerChecks, WorkerSends
  <2>3. jobs'.closed = jobs.closed
    BY <1>5 DEF WorkerTakes, WorkerChecks, WorkerSends, PipeTypes, Channel
  <2>4. paths'.closed = paths.closed
    BY <1>5 DEF WorkerTakes, WorkerChecks, WorkerSends, PipeTypes, Channel
  <2>5. ASSUME NEW v \in Worker, work'[v].pc = "gone"
        PROVE  paths'.closed /\ paths'.buffer = <<>>
    <3>1. CASE WorkerTakes(w)
      <4>1. CASE paths.buffer # <<>>
                 /\ work' = [work EXCEPT ![w] = [pc |-> "check", file |-> Head(paths.buffer)]]
        BY <2>5, <4>1 DEF PipeTypes
      <4>2. CASE paths.buffer = <<>> /\ paths.closed /\ paths' = paths
        BY <4>2
      <4> QED BY <3>1, <4>1, <4>2 DEF WorkerTakes
    <3>2. CASE WorkerChecks(w) \/ WorkerSends(w)
      <4>1. paths' = paths
        BY <3>2 DEF WorkerChecks, WorkerSends
      <4>2. CASE work' = [work EXCEPT ![w].pc = "send"]
        <5>1. PICK x \in Work : work' = [work EXCEPT ![w] = x] /\ x.pc = "send"
          BY <4>2, WorkerMoves
        <5> QED BY <2>5, <4>1, <5>1 DEF PipeTypes
      <4>3. CASE work' = [work EXCEPT ![w] = Idle]
        BY <2>5, <4>1, <4>3, WorkTypes DEF PipeTypes
      <4> QED BY <3>2, <4>2, <4>3 DEF WorkerChecks, WorkerSends
    <3> QED BY <1>5, <3>1, <3>2
  <2> QED BY <2>1, <2>2, <2>3, <2>4, <2>5
<1>6. CASE CloseJobs
  BY <1>6, ChannelClosed DEF CloseJobs, PipeTypes
<1>7. CASE WriterTakes
  <2>1. jobs'.closed = jobs.closed
    BY <1>7, WriterTook
  <2> QED BY <1>7, <2>1 DEF WriterTakes
<1>8. CASE WriterEnds
  BY <1>8 DEF WriterEnds
<1>9. CASE Flush \/ FlushFails \/ Retry
  BY <1>9 DEF Flush, FlushFails, Retry, Onward
<1>10. CASE Outside
  BY <1>10, OthersKeep DEF OutsideKeeps
<1> QED BY EveryStep, <1>1, <1>2, <1>3, <1>4, <1>5, <1>6, <1>7, <1>8, <1>9, <1>10
        DEF Command, Goroutine

-----------------------------------------------------------------------------
(* Every file is counted once.                                             *)

LEMMA BusyIsFinite ==
    IsFiniteSet(Busy) /\ Cardinality(Busy) \in Nat
BY Constants, FS_Subset, FS_CardinalityType DEF Busy

\* The number of busy workers changes with the one that moves.
LEMMA BusyCount ==
    ASSUME PipeTypes, NEW w \in Worker, NEW x \in Work,
           work' = [work EXCEPT ![w] = x]
    PROVE  /\ w \in Busy /\ x.pc \in {"check", "send"} => Cardinality(Busy') = Cardinality(Busy)
           /\ w \in Busy /\ x.pc \notin {"check", "send"} =>
                 Cardinality(Busy') = Cardinality(Busy) - 1
           /\ w \notin Busy /\ x.pc \in {"check", "send"} =>
                 Cardinality(Busy') = Cardinality(Busy) + 1
           /\ w \notin Busy /\ x.pc \notin {"check", "send"} =>
                 Cardinality(Busy') = Cardinality(Busy)
<1>1. \A v \in Worker : work'[v] = IF v = w THEN x ELSE work[v]
  BY OneWorker
<1>2. CASE x.pc \in {"check", "send"}
  <2>1. Busy' = Busy \cup {w}
    BY <1>1, <1>2 DEF Busy
  <2>2. CASE w \in Busy
    <3>1. Busy' = Busy
      BY <2>1, <2>2
    <3> QED BY <1>2, <2>2, <3>1
  <2>3. CASE w \notin Busy
    <3>1. Cardinality(Busy \cup {w}) = Cardinality(Busy) + 1
      BY <2>3, BusyIsFinite, FS_AddElement
    <3> QED BY <1>2, <2>1, <2>3, <3>1
  <2> QED BY <2>2, <2>3
<1>3. CASE x.pc \notin {"check", "send"}
  <2>1. Busy' = Busy \ {w}
    BY <1>1, <1>3 DEF Busy
  <2>2. CASE w \in Busy
    <3>1. Cardinality(Busy \ {w}) = Cardinality(Busy) - 1
      BY <2>2, BusyIsFinite, FS_RemoveElement
    <3> QED BY <1>3, <2>1, <2>2, <3>1
  <2>3. CASE w \notin Busy
    <3>1. Busy' = Busy
      BY <2>1, <2>3
    <3> QED BY <1>3, <2>3, <3>1
  <2> QED BY <2>2, <2>3
<1> QED BY <1>2, <1>3

LEMMA CountNumbers ==
    ASSUME PipeTypes
    PROVE  /\ walked \in Nat /\ Len(paths.buffer) \in Nat /\ Len(jobs.buffer) \in Nat
           /\ Len(batch) \in Nat /\ Cardinality(Busy) \in Nat
           /\ added \in Nat /\ skipped \in Nat /\ passed \in Nat /\ unsure \in Nat
<1>1. Len(batch) \in Nat
  BY LenProperties DEF PipeTypes
<1>2. Len(paths.buffer) \in Nat /\ Len(jobs.buffer) \in Nat
  BY ChannelTypes DEF PipeTypes
<1>3. walked \in Nat
  BY Constants DEF PipeTypes
<1> QED BY <1>1, <1>2, <1>3, BusyIsFinite DEF PipeTypes

\* The counts as numbers.
Counts(n, p, b, j, l, a, s, d) ==
    /\ walked = n /\ Len(paths.buffer) = p /\ Cardinality(Busy) = b
    /\ Len(jobs.buffer) = j /\ Len(batch) = l
    /\ added = a /\ skipped = s /\ passed = d

LEMMA Recount ==
    ASSUME NEW n, NEW p, NEW b, NEW j, NEW l, NEW a, NEW s, NEW d,
           Counts(n, p, b, j, l, a, s, d)',
           n = p + b + j + l + a + s + d
    PROVE  EachCountedOnce'
BY DEF Counts, EachCountedOnce

LEMMA CountBefore ==
    ASSUME PipeTypes, EachCountedOnce
    PROVE  \E n, p, b, j, l, a, s, d \in Nat :
              /\ Counts(n, p, b, j, l, a, s, d)
              /\ n = p + b + j + l + a + s + d
BY CountNumbers DEF Counts, EachCountedOnce

\* A worker takes a file from one place and puts it into the next.
LEMMA WorkersCount ==
    ASSUME PipeTypes, EachCountedOnce, NEW w \in Worker,
           WorkerTakes(w) \/ WorkerChecks(w) \/ WorkerSends(w)
    PROVE  EachCountedOnce'
<1>0. PICK n, p, b, j, l, a, s, d \in Nat :
         Counts(n, p, b, j, l, a, s, d) /\ n = p + b + j + l + a + s + d
  BY CountBefore
<1> USE DEF counts
<1>1. CASE WorkerTakes(w)
  <2>0. w \notin Busy
    BY <1>1 DEF WorkerTakes, Busy
  <2>3. /\ walked' = walked /\ jobs' = jobs /\ batch' = batch
        /\ added' = added /\ skipped' = skipped /\ passed' = passed
    BY <1>1 DEF WorkerTakes
  <2>1. CASE paths.buffer # <<>> /\ paths' = [paths EXCEPT !.buffer = Tail(@)]
             /\ work' = [work EXCEPT ![w] = [pc |-> "check", file |-> Head(paths.buffer)]]
    <3> DEFINE x == [pc |-> "check", file |-> Head(paths.buffer)]
    <3>1. /\ Tail(paths.buffer) \in Seq(FileNo)
          /\ Len(Tail(paths.buffer)) = Len(paths.buffer) - 1
          /\ Head(paths.buffer) \in FileNo
      BY <2>1, Take, ChannelTypes DEF PipeTypes
    <3>2. Head(paths.buffer) \in 0..Len(File)
      BY <3>1, Constants DEF FileNo
    <3>3. Len(paths'.buffer) = Len(paths.buffer) - 1
      BY <2>1, <3>1, ChannelBuffer DEF PipeTypes
    <3>4. x \in Work /\ x.pc = "check" /\ work' = [work EXCEPT ![w] = x]
      BY <2>1, <3>2, WorkTypes
    <3> HIDE DEF x
    <3>5. Cardinality(Busy') = Cardinality(Busy) + 1
      BY <2>0, <3>4, BusyCount
    <3>6. Counts(n, p - 1, b + 1, j, l, a, s, d)'
      BY <1>0, <2>3, <3>3, <3>5 DEF Counts
    <3>7. n = (p - 1) + (b + 1) + j + l + a + s + d
      BY <1>0
    <3> QED BY <3>6, <3>7, Recount
  <2>2. CASE work' = [work EXCEPT ![w].pc = "gone"] /\ UNCHANGED paths
    <3>1. PICK x \in Work : work' = [work EXCEPT ![w] = x] /\ x.pc = "gone"
      BY <2>2, WorkerMoves
    <3>2. Cardinality(Busy') = Cardinality(Busy)
      BY <2>0, <3>1, BusyCount
    <3>3. Counts(n, p, b, j, l, a, s, d)'
      BY <1>0, <2>2, <2>3, <3>2 DEF Counts
    <3> QED BY <1>0, <3>3, Recount
  <2> QED BY <1>1, <2>1, <2>2 DEF WorkerTakes
<1>2. CASE WorkerChecks(w)
  <2>0. w \in Busy
    BY <1>2 DEF WorkerChecks, Busy
  <2>3. /\ walked' = walked /\ paths' = paths /\ jobs' = jobs /\ batch' = batch
        /\ added' = added /\ passed' = passed
    BY <1>2 DEF WorkerChecks
  <2>1. CASE work' = [work EXCEPT ![w].pc = "send"] /\ UNCHANGED skipped
    <3>1. PICK x \in Work : work' = [work EXCEPT ![w] = x] /\ x.pc = "send"
      BY <2>1, WorkerMoves
    <3>2. Cardinality(Busy') = Cardinality(Busy)
      BY <2>0, <3>1, BusyCount
    <3>3. Counts(n, p, b, j, l, a, s, d)'
      BY <1>0, <2>1, <2>3, <3>2 DEF Counts
    <3> QED BY <1>0, <3>3, Recount
  <2>2. CASE work' = [work EXCEPT ![w] = Idle] /\ skipped' = skipped + 1
    <3>1. Cardinality(Busy') = Cardinality(Busy) - 1
      BY <2>0, <2>2, WorkTypes, BusyCount
    <3>2. Counts(n, p, b - 1, j, l, a, s + 1, d)'
      BY <1>0, <2>2, <2>3, <3>1 DEF Counts
    <3>3. n = p + (b - 1) + j + l + a + (s + 1) + d
      BY <1>0
    <3> QED BY <3>2, <3>3, Recount
  <2> QED BY <1>2, <2>1, <2>2 DEF WorkerChecks
<1>3. CASE WorkerSends(w)
  <2>1. w \in Busy /\ work[w].file \in FileNo
    BY <1>3 DEF WorkerSends, Busy, PipeTypes
  <2>2. Cardinality(Busy') = Cardinality(Busy) - 1
    BY <1>3, <2>1, WorkTypes, BusyCount DEF WorkerSends
  <2>3. /\ Append(jobs.buffer, work[w].file) \in Seq(FileNo)
        /\ Len(Append(jobs.buffer, work[w].file)) = Len(jobs.buffer) + 1
    BY <2>1, Put, ChannelTypes DEF PipeTypes
  <2>4. Len(jobs'.buffer) = Len(jobs.buffer) + 1
    BY <1>3, <2>3, ChannelBuffer DEF WorkerSends, PipeTypes
  <2>5. Counts(n, p, b - 1, j + 1, l, a, s, d)'
    BY <1>0, <1>3, <2>2, <2>4 DEF WorkerSends, Counts
  <2>6. n = p + (b - 1) + (j + 1) + l + a + s + d
    BY <1>0
  <2> QED BY <2>5, <2>6, Recount
<1> QED BY <1>1, <1>2, <1>3

LEMMA EachCountedOnceStays ==
    ASSUME Types, EachCountedOnce, [Next]_vars
    PROVE  EachCountedOnce'
<1>0. PICK n, p, b, j, l, a, s, d \in Nat :
         Counts(n, p, b, j, l, a, s, d) /\ n = p + b + j + l + a + s + d
  BY CountBefore DEF Types
<1> USE DEF Types, pipe, counts
<1>1. CASE Run \/ Finish \/ Done \/ Abandon \/ Abandoned
  BY <1>1 DEF EachCountedOnce, Run, Finish, Done, Abandon, Abandoned, Busy
<1>2. CASE Crash
  <2>1. Busy' = {} /\ Cardinality({}) = 0
    BY <1>2, WorkTypes, FS_EmptySet DEF Crash, AllIdle, Busy
  <2>2. Counts(0, 0, 0, 0, 0, 0, 0, 0)'
    BY <1>2, <2>1, EmptyChannel DEF Crash, Counts
  <2> QED BY <2>2, Recount
<1>3. CASE Walk
  <2>1. walked + 1 \in FileNo
    <3>1. walked \in 0..Len(File) /\ walked < Len(File)
      BY <1>3 DEF Walk, PipeTypes
    <3> QED BY <3>1, Constants DEF FileNo
  <2>2. /\ Append(paths.buffer, walked + 1) \in Seq(FileNo)
        /\ Len(Append(paths.buffer, walked + 1)) = Len(paths.buffer) + 1
    BY <2>1, Put, ChannelTypes DEF PipeTypes
  <2>3. Len(paths'.buffer) = Len(paths.buffer) + 1
    BY <1>3, <2>2, ChannelBuffer DEF Walk, PipeTypes
  <2>4. Busy' = Busy
    BY <1>3 DEF Walk, Busy
  <2>5. Counts(n + 1, p + 1, b, j, l, a, s, d)'
    BY <1>0, <1>3, <2>3, <2>4 DEF Walk, Counts
  <2>6. n + 1 = (p + 1) + b + j + l + a + s + d
    BY <1>0
  <2> QED BY <2>5, <2>6, Recount
<1>4. CASE WalkEnds \/ CloseJobs
  <2>1. paths'.buffer = paths.buffer /\ jobs'.buffer = jobs.buffer
    BY <1>4, ChannelClosed DEF WalkEnds, CloseJobs, PipeTypes
  <2> QED BY <1>4, <2>1 DEF EachCountedOnce, WalkEnds, CloseJobs, Busy
<1>5. ASSUME NEW w \in Worker, WorkerTakes(w) \/ WorkerChecks(w) \/ WorkerSends(w)
      PROVE  EachCountedOnce'
  BY <1>5, WorkersCount
<1>6. CASE WriterTakes
  <2>1. /\ Len(jobs'.buffer) = Len(jobs.buffer) - 1
        /\ Len(Append(batch, Head(jobs.buffer))) = Len(batch) + 1
    BY <1>6, WriterTook, Put DEF PipeTypes
  <2>2. Busy' = Busy
    BY <1>6 DEF WriterTakes, Busy
  <2>3. /\ walked' = walked /\ paths' = paths /\ added' = added /\ passed' = passed
        /\ \/ batch' = Append(batch, Head(jobs.buffer)) /\ skipped' = skipped
           \/ batch' = batch /\ skipped' = skipped + 1
    BY <1>6 DEF WriterTakes
  <2>4. \/ Counts(n, p, b, j - 1, l + 1, a, s, d)'
        \/ Counts(n, p, b, j - 1, l, a, s + 1, d)'
    BY <1>0, <2>1, <2>2, <2>3 DEF Counts
  <2>5. /\ n = p + b + (j - 1) + (l + 1) + a + s + d
        /\ n = p + b + (j - 1) + l + a + (s + 1) + d
    BY <1>0
  <2> QED BY <2>4, <2>5, Recount
<1>7. CASE WriterEnds \/ FlushFails
  BY <1>7 DEF EachCountedOnce, WriterEnds, FlushFails, Busy
<1>8. CASE Flush
  <2>1. Busy' = Busy /\ Len(batch') = 0
    BY <1>8, EmptyChannel DEF Flush, Busy
  <2>2. PICK f \in Nat : f = Cardinality(Fresh)
    BY FreshTypes
  <2>3. added' = a + f /\ passed' = (d + l) - f
    BY <1>0, <1>8, <2>2 DEF Flush, Counts
  <2>4. Counts(n, p, b, j, 0, a + f, s, (d + l) - f)'
    BY <1>0, <1>8, <2>1, <2>3 DEF Flush, Counts
  <2>5. n = p + b + j + 0 + (a + f) + s + ((d + l) - f)
    BY <1>0
  <2> QED BY <2>4, <2>5, Recount
<1>9. CASE Retry
  <2>1. Len(batch') = Len(batch) - 1
    BY <1>9, Take DEF Retry, PipeTypes
  <2>2. Busy' = Busy
    BY <1>9 DEF Retry, Busy
  <2>3. /\ walked' = walked /\ paths' = paths /\ jobs' = jobs /\ passed' = passed
        /\ \/ added' = added + 1 /\ skipped' = skipped
           \/ added' = added /\ skipped' = skipped + 1
    BY <1>9 DEF Retry
  <2>4. \/ Counts(n, p, b, j, l - 1, a + 1, s, d)'
        \/ Counts(n, p, b, j, l - 1, a, s + 1, d)'
    BY <1>0, <2>1, <2>2, <2>3 DEF Counts
  <2>5. /\ n = p + b + j + (l - 1) + (a + 1) + s + d
        /\ n = p + b + j + (l - 1) + a + (s + 1) + d
    BY <1>0
  <2> QED BY <2>4, <2>5, Recount
<1>10. CASE Outside
  BY <1>10, OthersKeep DEF EachCountedOnce, OutsideKeeps, Busy
<1> QED BY EveryStep, <1>1, <1>2, <1>3, <1>4, <1>5, <1>6, <1>7, <1>8, <1>9, <1>10
        DEF Command, Goroutine

-----------------------------------------------------------------------------
(* What the run has stored.                                                *)

\* What is new to the table is new to the run, unless others delete.
LEMMA StoresNew ==
    ASSUME Types, MineIsStored, NEW H \in SUBSET Hash, IsFiniteSet(H),
           H \cap rows = {}, Store(H), gone' = gone
    PROVE  /\ mine' \subseteq rows' \cup gone' /\ rows' \subseteq ever'
           /\ gone = {} => Cardinality(mine') = Cardinality(mine) + Cardinality(H)
           /\ Cardinality(mine) \in Nat /\ Cardinality(H) \in Nat
<1>1. mine' \subseteq rows' \cup gone' /\ rows' \subseteq ever' /\ mine' = mine \cup H
  BY DEF MineIsStored, Store
<1>2. IsFiniteSet(mine) /\ Cardinality(mine) \in Nat /\ Cardinality(H) \in Nat
  BY FS_CardinalityType DEF Types, PipeTypes
<1>3. ASSUME gone = {} PROVE Cardinality(mine') = Cardinality(mine) + Cardinality(H)
  <2>1. mine \cap H = {}
    BY <1>3 DEF MineIsStored
  <2>2. Cardinality(mine \cup H)
          = Cardinality(mine) + Cardinality(H) - Cardinality(mine \cap H)
    BY <1>2, FS_Union
  <2>3. Cardinality(mine \cap H) = 0
    BY <2>1, FS_EmptySet
  <2> QED BY <1>1, <1>2, <2>2, <2>3
<1> QED BY <1>1, <1>2, <1>3

LEMMA MineIsStoredStays ==
    ASSUME Types, MineIsStored, [Next]_vars
    PROVE  MineIsStored'
<1> USE DEF Types, pipe, counts
<1>0. added \in Nat /\ unsure \in Nat
  BY DEF PipeTypes
<1>1. CASE Run \/ Finish \/ Done \/ Abandon \/ Abandoned
  BY <1>1 DEF Run, Finish, Done, Abandon, Abandoned, BeginBulkImport, EndBulkImport,
              storeVars, history, MineIsStored
<1>2. CASE Crash
  <2>1. Cardinality({}) = 0
    BY FS_EmptySet
  <2> QED BY <1>2, <2>1 DEF Crash, history, MineIsStored
<1>3. CASE UNCHANGED <<rows, ever, gone, mine, added, unsure>>
  BY <1>3 DEF MineIsStored
<1>4. CASE Walk \/ WalkEnds \/ CloseJobs \/ WriterTakes \/ WriterEnds
  BY <1>3, <1>4 DEF Walk, WalkEnds, CloseJobs, WriterTakes, WriterEnds, storeVars, history
<1>5. ASSUME NEW w \in Worker, WorkerTakes(w) \/ WorkerChecks(w) \/ WorkerSends(w)
      PROVE  MineIsStored'
  BY <1>3, <1>5 DEF WorkerTakes, WorkerChecks, WorkerSends, storeVars, history
<1>6. CASE Flush
  <2>1. /\ Store(Fresh) /\ gone' = gone /\ unsure' = unsure
        /\ added' = added + Cardinality(Fresh)
    BY <1>6 DEF Flush
  <2>2. Fresh \in SUBSET Hash /\ IsFiniteSet(Fresh) /\ Fresh \cap rows = {}
    BY FreshTypes DEF Fresh
  <2> QED BY <1>0, <2>1, <2>2, StoresNew DEF MineIsStored
<1>7. CASE FlushFails
  <2>1. CASE UNCHANGED <<rows, ever, mine, unsure>>
    BY <1>3, <1>7, <2>1 DEF FlushFails
  <2>2. CASE Store(Fresh) /\ unsure' = unsure + Cardinality(Fresh)
    <3>1. gone' = gone /\ added' = added
      BY <1>7 DEF FlushFails
    <3>2. Fresh \in SUBSET Hash /\ IsFiniteSet(Fresh) /\ Fresh \cap rows = {}
      BY FreshTypes DEF Fresh
    <3> QED BY <1>0, <2>2, <3>1, <3>2, StoresNew DEF MineIsStored
  <2> QED BY <1>7, <2>1, <2>2 DEF FlushFails
<1>8. CASE Retry
  <2> DEFINE h == HashOf(Head(batch))
  <2>1. gone' = gone
    BY <1>8 DEF Retry
  <2>2. CASE UNCHANGED <<rows, ever, mine, added, unsure>>
    BY <1>3, <2>1, <2>2
  <2>3. CASE /\ h \notin rows /\ Store({h})
             /\ \/ added' = added + 1 /\ unsure' = unsure
                \/ added' = added /\ unsure' = unsure + 1
    <3>1. h \in Hash
      BY <1>8, Take, FileTypes DEF Retry, PipeTypes
    <3>2. {h} \in SUBSET Hash /\ IsFiniteSet({h}) /\ Cardinality({h}) = 1 /\ {h} \cap rows = {}
      BY <2>3, <3>1, FS_Singleton
    <3> HIDE DEF h
    <3> QED BY <1>0, <2>1, <2>3, <3>2, StoresNew DEF MineIsStored
  <2> QED BY <1>8, <2>2, <2>3 DEF Retry
<1>9. CASE Outside
  BY <1>9, OthersKeep DEF OutsideKeeps, MineIsStored
<1> QED BY EveryStep, <1>1, <1>2, <1>4, <1>5, <1>6, <1>7, <1>8, <1>9
        DEF Command, Goroutine

-----------------------------------------------------------------------------
(* No file is dropped on its way.                                          *)

\* The files that workers hold.
Taken == {work[w].file : w \in Busy}

Settled(n) == File[n].usable => HashOf(n) \in ever \cup lost

\* A file that moves on, and one that is settled where it was held.
LEMMA Moved ==
    ASSUME NothingDropped, walked' = walked, ever \subseteq ever', lost \subseteq lost',
           \A n \in 1..walked : Held(n) => Held(n)' \/ Settled(n)'
    PROVE  NothingDropped'
BY DEF NothingDropped, Settled, HashOf

LEMMA TakenMoves ==
    ASSUME PipeTypes, NEW w \in Worker, NEW x \in Work,
           work' = [work EXCEPT ![w] = x]
    PROVE  /\ Taken \subseteq Taken' \cup (IF w \in Busy THEN {work[w].file} ELSE {})
           /\ x.pc \in {"check", "send"} => x.file \in Taken'
<1>1. \A v \in Worker : work'[v] = IF v = w THEN x ELSE work[v]
  BY OneWorker
<1>2. ASSUME NEW v \in Busy, v # w PROVE work[v].file \in Taken'
  BY <1>1, <1>2 DEF Busy, Taken
<1> QED BY <1>1, <1>2 DEF Busy, Taken

LEMMA WorkersDropNothing ==
    ASSUME Types, MineIsStored, NothingDropped, NEW w \in Worker,
           WorkerTakes(w) \/ WorkerChecks(w) \/ WorkerSends(w)
    PROVE  NothingDropped'
<1> USE DEF Types, counts, history
<1>0. walked' = walked /\ batch' = batch /\ ever' = ever /\ lost \subseteq lost'
  BY DEF WorkerTakes, WorkerChecks, WorkerSends
<1>1. CASE WorkerTakes(w)
  <2>0. w \notin Busy /\ jobs' = jobs
    BY <1>1 DEF WorkerTakes, Busy
  <2>1. CASE paths.buffer # <<>> /\ paths' = [paths EXCEPT !.buffer = Tail(@)]
             /\ work' = [work EXCEPT ![w] = [pc |-> "check", file |-> Head(paths.buffer)]]
    <3> DEFINE x == [pc |-> "check", file |-> Head(paths.buffer)]
    <3>1. /\ Tail(paths.buffer) \in Seq(FileNo)
          /\ Head(paths.buffer) \in FileNo
          /\ In(paths.buffer) = In(Tail(paths.buffer)) \cup {Head(paths.buffer)}
      BY <2>1, Take, ChannelTypes DEF PipeTypes
    <3>2. Head(paths.buffer) \in 0..Len(File)
      BY <3>1, Constants DEF FileNo
    <3>3. paths'.buffer = Tail(paths.buffer)
      BY <2>1, <3>1, ChannelBuffer DEF PipeTypes
    <3>4. /\ x \in Work /\ x.pc = "check" /\ x.file = Head(paths.buffer)
          /\ work' = [work EXCEPT ![w] = x]
      BY <2>1, <3>2, WorkTypes
    <3> HIDE DEF x
    <3>5. Taken \subseteq Taken' /\ Head(paths.buffer) \in Taken'
      BY <2>0, <3>4, TakenMoves
    <3>6. \A n : Held(n) => Held(n)'
      BY <1>0, <2>0, <3>1, <3>3, <3>5 DEF Held, Taken
    <3> QED BY <1>0, <3>6, Moved
  <2>2. CASE work' = [work EXCEPT ![w].pc = "gone"] /\ UNCHANGED paths
    <3>1. PICK x \in Work : work' = [work EXCEPT ![w] = x] /\ x.pc = "gone"
      BY <2>2, WorkerMoves
    <3>2. Taken \subseteq Taken'
      BY <2>0, <3>1, TakenMoves
    <3>3. \A n : Held(n) => Held(n)'
      BY <1>0, <2>0, <2>2, <3>2 DEF Held, Taken
    <3> QED BY <1>0, <3>3, Moved
  <2> QED BY <1>1, <2>1, <2>2 DEF WorkerTakes
<1>2. CASE WorkerChecks(w)
  <2>0. w \in Busy /\ paths' = paths /\ jobs' = jobs
    BY <1>2 DEF WorkerChecks, Busy
  <2>1. CASE work' = [work EXCEPT ![w].pc = "send"]
    <3>1. PICK x \in Work : /\ work' = [work EXCEPT ![w] = x]
                            /\ x.pc = "send" /\ x.file = work[w].file
      BY <2>1, WorkerMoves
    <3>2. Taken \subseteq Taken'
      BY <2>0, <3>1, TakenMoves
    <3>3. \A n : Held(n) => Held(n)'
      BY <1>0, <2>0, <3>2 DEF Held, Taken
    <3> QED BY <1>0, <3>3, Moved
  <2>2. CASE /\ work' = [work EXCEPT ![w] = Idle]
             /\ \/ ~(HashOf(work[w].file) \notin rows /\ File[work[w].file].usable)
                \/ lost' = lost \cup {HashOf(work[w].file)}
    <3>0. PICK f : f = work[w].file
      OBVIOUS
    <3>1. Taken \subseteq Taken' \cup {f}
      BY <2>0, <2>2, <3>0, WorkTypes, TakenMoves
    <3>2. Settled(f)'
      BY <1>0, <2>2, <3>0 DEF Settled, HashOf, MineIsStored
    <3>3. \A n : Held(n) => Held(n)' \/ Settled(n)'
      BY <1>0, <2>0, <3>1, <3>2 DEF Held, Taken
    <3> QED BY <1>0, <3>3, Moved
  <2> QED BY <1>2, <2>1, <2>2 DEF WorkerChecks
<1>3. CASE WorkerSends(w)
  <2>1. w \in Busy /\ work[w].file \in FileNo /\ paths' = paths
    BY <1>3 DEF WorkerSends, Busy, PipeTypes
  <2>2. Taken \subseteq Taken' \cup {work[w].file}
    BY <1>3, <2>1, WorkTypes, TakenMoves DEF WorkerSends
  <2>3. /\ Append(jobs.buffer, work[w].file) \in Seq(FileNo)
        /\ In(Append(jobs.buffer, work[w].file)) = In(jobs.buffer) \cup {work[w].file}
    BY <2>1, Put, ChannelTypes DEF PipeTypes
  <2>4. In(jobs'.buffer) = In(jobs.buffer) \cup {work[w].file}
    BY <1>3, <2>3, ChannelBuffer DEF WorkerSends, PipeTypes
  <2>5. \A n : Held(n) => Held(n)'
    BY <1>0, <2>1, <2>2, <2>4 DEF Held, Taken
  <2> QED BY <1>0, <2>5, Moved
<1> QED BY <1>1, <1>2, <1>3

LEMMA NothingDroppedStays ==
    ASSUME Types, MineIsStored, NothingDropped, [Next]_vars
    PROVE  NothingDropped'
<1> USE DEF Types, pipe, counts
<1>1. CASE Run \/ Finish \/ Done \/ Abandon \/ Abandoned
  <2>1. \A n : Held(n)' <=> Held(n)
    BY <1>1 DEF Run, Finish, Done, Abandon, Abandoned, Held, Busy
  <2>2. walked' = walked /\ ever' = ever /\ lost' = lost
    BY <1>1 DEF Run, Finish, Done, Abandon, Abandoned, history
  <2> QED BY <2>1, <2>2, Moved
<1>2. CASE Crash
  <2>1. 1..walked' = {}
    BY <1>2 DEF Crash
  <2> QED BY <2>1 DEF NothingDropped
<1>3. CASE Walk
  <2>1. walked \in Nat /\ walked + 1 \in FileNo
    <3>1. walked \in 0..Len(File) /\ walked < Len(File)
      BY <1>3 DEF Walk, PipeTypes
    <3> QED BY <3>1, Constants DEF FileNo
  <2>2. /\ Append(paths.buffer, walked + 1) \in Seq(FileNo)
        /\ In(Append(paths.buffer, walked + 1)) = In(paths.buffer) \cup {walked + 1}
    BY <2>1, Put, ChannelTypes DEF PipeTypes
  <2>3. In(paths'.buffer) = In(paths.buffer) \cup {walked + 1}
    BY <1>3, <2>2, ChannelBuffer DEF Walk, PipeTypes
  <2>4. /\ jobs' = jobs /\ batch' = batch /\ work' = work /\ walked' = walked + 1
        /\ ever' = ever /\ lost' = lost
    BY <1>3 DEF Walk, history
  <2>5. \A n : Held(n) \/ n = walked + 1 => Held(n)'
    BY <2>3, <2>4 DEF Held, Busy
  <2>6. \A n \in 1..walked' : n \in 1..walked \/ n = walked + 1
    BY <2>1, <2>4
  <2> QED BY <2>4, <2>5, <2>6 DEF NothingDropped, HashOf
<1>4. CASE WalkEnds \/ CloseJobs
  <2>1. paths'.buffer = paths.buffer /\ jobs'.buffer = jobs.buffer
    BY <1>4, ChannelClosed DEF WalkEnds, CloseJobs, PipeTypes
  <2>2. \A n : Held(n)' <=> Held(n)
    BY <1>4, <2>1 DEF WalkEnds, CloseJobs, Held, Busy
  <2>3. walked' = walked /\ ever' = ever /\ lost' = lost
    BY <1>4 DEF WalkEnds, CloseJobs, history
  <2> QED BY <2>2, <2>3, Moved
<1>5. ASSUME NEW w \in Worker, WorkerTakes(w) \/ WorkerChecks(w) \/ WorkerSends(w)
      PROVE  NothingDropped'
  BY <1>5, WorkersDropNothing
<1>6. CASE WriterTakes
  <2>0. PICK h : h = Head(jobs.buffer)
    OBVIOUS
  <2>1. /\ h \in FileNo /\ batch \in Seq(FileNo)
        /\ In(jobs.buffer) = In(jobs'.buffer) \cup {h}
    BY <1>6, <2>0, WriterTook DEF PipeTypes
  <2>2. paths' = paths /\ work' = work /\ walked' = walked /\ ever' = ever /\ lost \subseteq lost'
    BY <1>6 DEF WriterTakes, history
  <2>3. CASE batch' = Append(batch, h)
    <3>1. In(batch') = In(batch) \cup {h}
      BY <2>1, <2>3, Put
    <3>2. \A n : Held(n) => Held(n)'
      BY <2>1, <2>2, <3>1 DEF Held, Busy
    <3> QED BY <2>2, <3>2, Moved
  <2>4. CASE batch' = batch /\ (HashOf(h) \in rows \/ lost' = lost \cup {HashOf(h)})
    <3>1. Settled(h)'
      BY <2>2, <2>4 DEF Settled, HashOf, MineIsStored
    <3>2. \A n : Held(n) => Held(n)' \/ Settled(n)'
      BY <2>1, <2>2, <2>4, <3>1 DEF Held, Busy
    <3> QED BY <2>2, <3>2, Moved
  <2> QED BY <1>6, <2>0, <2>3, <2>4 DEF WriterTakes
<1>7. CASE WriterEnds \/ FlushFails
  <2>1. \A n : Held(n)' <=> Held(n)
    BY <1>7 DEF WriterEnds, FlushFails, Held, Busy
  <2>2. walked' = walked /\ ever \subseteq ever' /\ lost' = lost
    BY <1>7 DEF WriterEnds, FlushFails, Store, history
  <2> QED BY <2>1, <2>2, Moved
<1>8. CASE Flush
  <2>1. /\ paths' = paths /\ work' = work /\ jobs' = jobs /\ walked' = walked
        /\ lost' = lost /\ ever' = ever \cup Fresh
    BY <1>8 DEF Flush, Store
  <2>2. \A n \in In(batch) : HashOf(n) \in InBatch
    BY DEF In, InBatch
  <2>3. \A n \in In(batch) : Settled(n)'
    BY <2>1, <2>2 DEF Fresh, Settled, HashOf, MineIsStored
  <2>4. \A n : Held(n) => Held(n)' \/ Settled(n)'
    BY <2>1, <2>3 DEF Held, Busy
  <2> QED BY <2>1, <2>4, Moved
<1>9. CASE Retry
  <2>0. PICK h : h = Head(batch)
    OBVIOUS
  <2>1. In(batch) = In(batch') \cup {h}
    BY <1>9, <2>0, Take DEF Retry, PipeTypes
  <2>2. /\ paths' = paths /\ work' = work /\ jobs' = jobs /\ walked' = walked
        /\ ever \subseteq ever' /\ lost \subseteq lost'
    BY <1>9 DEF Retry, Store
  <2>3. Settled(h)'
    BY <1>9, <2>0 DEF Retry, Store, Settled, HashOf, MineIsStored
  <2>4. \A n : Held(n) => Held(n)' \/ Settled(n)'
    BY <2>1, <2>2, <2>3 DEF Held, Busy
  <2> QED BY <2>2, <2>4, Moved
<1>10. CASE Outside
  <2>1. \A n : Held(n)' <=> Held(n)
    BY <1>10, OthersKeep DEF OutsideKeeps, Held, Busy
  <2> QED BY <1>10, <2>1, OthersKeep, Moved DEF OutsideKeeps
<1> QED BY EveryStep, <1>1, <1>2, <1>3, <1>4, <1>5, <1>6, <1>7, <1>8, <1>9, <1>10
        DEF Command, Goroutine

-----------------------------------------------------------------------------
(* The index at the end of an import.                                      *)

LEMMA CommandIndex ==
    ASSUME Types, MineIsStored, MadeAtTheEnd, Command
    PROVE  MadeAtTheEnd'
<1> USE Constants DEF Types, MadeAtTheEnd, counts
<1>1. CASE Run
  <2>1. CASE online
    <3>1. /\ index' = NoIndex /\ stage = "off" /\ stage' = "running"
          /\ ann' = ann /\ attempt' = attempt
      BY <1>1, <2>1 DEF Run, BeginBulkImport
    <3> QED BY <3>1
  <2>2. CASE ~online
    BY <1>1, <2>2 DEF Run, storeVars, annVars
  <2> QED BY <2>1, <2>2
<1>2. CASE Finish \/ Abandon
  <2>1. stage = "running" /\ online' = online
    BY <1>2 DEF Finish, Abandon
  <2>2. CASE online
    <3>1. /\ index' = index /\ stage' \in {"ending", "abandoned"} /\ ~bulk'[Importer]
          /\ ann'[Importer] = "check"
      BY <1>2, <2>2 DEF Finish, Abandon, EndBulkImport, StoreTypes
    <3> QED BY <2>1, <2>2, <3>1
  <2>3. CASE ~online
    BY <1>2, <2>1, <2>3 DEF Finish, Abandon, storeVars, annVars
  <2> QED BY <2>2, <2>3
<1>3. CASE Done
  BY <1>3 DEF Done, storeVars, annVars, history
<1>5. CASE Abandoned
  <2>1. /\ stage' = "off" /\ index' = index /\ attempt' = 0
        /\ ann'[Importer] = "off"
    BY <1>5 DEF Abandoned, StoreTypes
  <2> QED BY <2>1
<1>4. CASE Crash
  BY <1>4 DEF Crash, StoreTypes
<1> QED BY <1>1, <1>2, <1>3, <1>4, <1>5 DEF Command

\* What is made while nobody imports is made from what is there.
LEMMA OthersIndex ==
    ASSUME Types, MineIsStored, MadeAtTheEnd, Outside
    PROVE  MadeAtTheEnd'
<1> USE Constants DEF Types, MadeAtTheEnd, StoreTypes
<1>0. OutsideKeeps
  BY OthersKeep
<1>1. CASE index' = index /\ ann' = ann /\ bulk' = bulk /\ attempt' = attempt
  BY <1>0, <1>1 DEF OutsideKeeps
<1>2. CASE Other
  BY <1>1, <1>2 DEF Other, AddElsewhere, DeleteElsewhere, annVars
<1>3. CASE Index
  <2>0. online /\ gone' = gone
    BY <1>3 DEF Index
  <2>1. CASE CheckANN(Importer)
    <3>1. /\ index' = index /\ bulk' = bulk /\ attempt' = attempt
          /\ ann[Importer] = "check"
          /\ ann'[Importer] = IF bulk[Importer] \/ index # NoIndex THEN "ok" ELSE "create"
      BY <2>1 DEF CheckANN
    <3>2. index # NoIndex => index.by = Importer \/ index.by = Server
      BY DEF AnnIndex, Process
    <3>3. stage \in {"ending", "done", "abandoned"}
      BY <3>1
    <3> QED BY <1>0, <2>0, <3>1, <3>2, <3>3 DEF OutsideKeeps
  <2>2. CASE CreateANN(Importer)
    <3>1. /\ index' = IF rows = {} \/ index # NoIndex THEN index
                      ELSE [by |-> Importer, of |-> rows]
          /\ bulk' = bulk /\ attempt' = attempt
          /\ ann[Importer] = "create" /\ ann'[Importer] = "ok"
      BY <2>2 DEF CreateANN
    <3>2. index # NoIndex => index.by = Importer \/ index.by = Server
      BY DEF AnnIndex, Process
    <3>3. stage \in {"ending", "done", "abandoned"} /\ mine \subseteq rows \cup gone
      BY <3>1 DEF MineIsStored
    <3>4. CASE index # NoIndex
      BY <1>0, <2>0, <3>1, <3>2, <3>3, <3>4 DEF OutsideKeeps
    <3>5. CASE index = NoIndex /\ rows = {}
      BY <1>0, <2>0, <3>1, <3>3, <3>5 DEF OutsideKeeps
    <3>6. CASE index = NoIndex /\ rows # {}
      <4>1. index'.by = Importer /\ index'.of = rows
        BY <3>1, <3>6
      <4> QED BY <1>0, <2>0, <3>1, <3>3, <4>1 DEF OutsideKeeps
    <3> QED BY <3>4, <3>5, <3>6
  <2>3. CASE CreateFails(Importer)
    BY <1>0, <2>0, <2>3 DEF CreateFails, OutsideKeeps
  <2>4. CASE TryAgain
    <3>1. /\ index' = NoIndex /\ bulk' = bulk /\ ann[Importer] = "failed"
          /\ ann'[Importer] \in {"check", "error"}
      BY <2>4 DEF TryAgain
    <3>2. stage \in {"ending", "done", "abandoned"}
      BY <3>1
    <3> QED BY <1>0, <2>0, <3>1, <3>2 DEF OutsideKeeps
  <2>5. CASE CreateANN(Server)
    <3>1. /\ index' = IF rows = {} \/ index # NoIndex THEN index
                      ELSE [by |-> Server, of |-> rows]
          /\ bulk' = bulk /\ attempt' = attempt /\ ann'[Importer] = ann[Importer]
      BY <2>5 DEF CreateANN
    <3>2. \/ index' = index
          \/ index'.by = Server
      BY <3>1
    <3> QED BY <1>0, <2>0, <3>1, <3>2 DEF OutsideKeeps
  <2>6. CASE CheckANN(Server) \/ CreateFails(Server) \/ SearcherOpened \/ NewSearcher
    <3>1. /\ index' = index /\ bulk' = bulk /\ attempt' = attempt
          /\ ann'[Importer] = ann[Importer]
      BY <2>6 DEF CheckANN, CreateFails, SearcherOpened, NewSearcher
    <3> QED BY <1>0, <2>0, <3>1 DEF OutsideKeeps
  <2> QED BY <1>3, <2>1, <2>2, <2>3, <2>4, <2>5, <2>6 DEF Index, ANN
<1>4. CASE Searching
  BY <1>1, <1>4, SearchesOnlyRead DEF Searching, annVars
<1>5. CASE UNCHANGED vars
  BY <1>1, <1>5 DEF vars, storeVars, annVars
<1> QED BY <1>2, <1>3, <1>4, <1>5 DEF Outside

LEMMA MadeAtTheEndStays ==
    ASSUME Types, MineIsStored, MadeAtTheEnd, [Next]_vars
    PROVE  MadeAtTheEnd'
<1>1. CASE Goroutine
  BY <1>1, GoroutinesKeep DEF GoroutineKeeps, MadeAtTheEnd
<1> QED BY EveryStep, CommandIndex, OthersIndex, <1>1

-----------------------------------------------------------------------------
(* The theorems.                                                           *)

LEMMA Starts ==
    ASSUME Init
    PROVE  IInv
<1> USE Constants DEF Init, StoreInit
<1>1. Busy = {} /\ work \in [Worker -> Work] /\ \A w \in Worker : work[w].pc = "idle"
  BY WorkTypes DEF AllIdle, Busy
<1>2. IsFiniteSet({}) /\ Cardinality({}) = 0
  BY FS_EmptySet
<1>3. /\ ann \in [Process -> {"off", "check", "create", "failed", "ok", "error"}]
      /\ ann[Importer] = "off" /\ bulk \in [Process -> BOOLEAN]
      /\ guc \in [Conn -> {Floor, ServerDefault} \cup NProbe]
  OBVIOUS
<1>4. StoreTypes
  BY <1>3 DEF StoreTypes, NoQuery
<1>5. PipeTypes
  BY <1>1, <1>2, EmptyChannel DEF PipeTypes
<1>6. EndsInOrder
  BY <1>1, EmptyChannel DEF EndsInOrder
<1>7. EachCountedOnce
  BY <1>1, <1>2, EmptyChannel DEF EachCountedOnce
<1>8. MineIsStored
  BY <1>2 DEF MineIsStored
<1>9. NothingDropped
  BY DEF NothingDropped
<1>10. MadeAtTheEnd
  BY <1>3 DEF MadeAtTheEnd
<1> QED BY <1>4, <1>5, <1>6, <1>7, <1>8, <1>9, <1>10 DEF IInv, Types

LEMMA StaysInvariant ==
    ASSUME IInv, [Next]_vars
    PROVE  IInv'
BY TypesStay, EndsInOrderStays, EachCountedOnceStays, MineIsStoredStays, NothingDroppedStays,
   MadeAtTheEndStays DEF IInv

\* The inductive invariant holds in every reachable state, whatever the
\* directory, the number of workers, the capacities, the size of a batch, the
\* crashes, the failures and what other processes do.
THEOREM Invariance == Spec => []IInv
BY Starts, StaysInvariant, PTL DEF Spec

\* Every channel and batch keeps within its bound, and the command and the store
\* are always in one of their states (runAdd, EndBulkImport).
THEOREM TypeCorrect == Spec => []TypeOK
<1>1. IInv => TypeOK
  BY ChannelTypes DEF IInv, Types, StoreTypes, PipeTypes, TypeOK, StoreTypeOK, AnnIndex
<1> QED BY <1>1, Invariance, PTL

\* When the command has ended, nothing is on its way: the writer leaves after
\* the jobs are closed, which are closed when all workers have left, of which
\* there is one, and which leave when the paths are closed and taken.
LEMMA AllGone ==
    ASSUME IInv, stage \in {"ending", "done"}
    PROVE  /\ walked = Len(File) /\ batch = <<>>
           /\ paths.buffer = <<>> /\ jobs.buffer = <<>> /\ Busy = {}
<1>1. writer = "gone" /\ jobs.closed /\ jobs.buffer = <<>> /\ batch = <<>>
  BY DEF IInv, EndsInOrder, Types, PipeTypes
<1>2. \A w \in Worker : work[w].pc = "gone"
  BY <1>1 DEF IInv, EndsInOrder
<1>3. PICK w \in Worker : TRUE
  BY Constants
<1>4. paths.closed /\ paths.buffer = <<>> /\ walked = Len(File)
  BY <1>2, <1>3 DEF IInv, EndsInOrder
<1>5. Busy = {}
  BY <1>2 DEF Busy
<1> QED BY <1>1, <1>4, <1>5

\* What the command reports as added is what it has stored, and every file of
\* the directory is counted once (the statistics of runAdd).
THEOREM AlwaysCountsAreTrue == Spec => []CountsAreTrue
<1>1. ASSUME IInv PROVE CountsAreTrue
  <2>1. gone = {} => added + unsure = Cardinality(mine)
    BY <1>1 DEF IInv, MineIsStored
  <2>2. ASSUME stage \in {"ending", "done"} PROVE added + skipped + passed = Len(File)
    <3>1. /\ walked = Len(File) /\ Len(batch) = 0 /\ Cardinality(Busy) = 0
          /\ Len(paths.buffer) = 0 /\ Len(jobs.buffer) = 0
      BY <1>1, <2>2, AllGone, EmptyChannel, FS_EmptySet
    <3>2. walked = 0 + 0 + 0 + 0 + added + skipped + passed
      BY <1>1, <3>1 DEF IInv, EachCountedOnce
    <3>3. added \in Nat /\ skipped \in Nat /\ passed \in Nat
      BY <1>1 DEF IInv, Types, PipeTypes
    <3> QED BY <3>1, <3>2, <3>3
  <2> QED BY <2>1, <2>2 DEF CountsAreTrue
<1> QED BY <1>1, Invariance, PTL

\* When the command is done, every usable file has been in the store or a
\* statement about it has failed: none is lost on the way from the walker to
\* the writer, in a batch that is not flushed, or to a duplicate in a batch.
THEOREM NoneIsForgotten == Spec => []NoneForgotten
<1>1. ASSUME IInv PROVE NoneForgotten
  <2>1. ASSUME stage \in {"ending", "done"}, NEW n \in DOMAIN File, File[n].usable
        PROVE  HashOf(n) \in ever \cup lost
    <3>1. n \in 1..walked
      BY <1>1, <2>1, AllGone, FileAssumption, LenProperties
    <3>2. ~Held(n)
      BY <1>1, <2>1, AllGone, EmptyChannel DEF Held
    <3> QED BY <1>1, <2>1, <3>1, <3>2 DEF IInv, NothingDropped
  <2> QED BY <2>1 DEF NoneForgotten
<1> QED BY <1>1, Invariance, PTL

\* When an import ends without an error, the index is one made from all the
\* import has stored and others have not deleted, or one that another process
\* has made meanwhile (EndBulkImport, ensureANN).
THEOREM AlwaysIndexedAfterImport == Spec => []IndexedAfterImport
<1>1. IInv => IndexedAfterImport
  BY DEF IInv, MadeAtTheEnd, IndexedAfterImport
<1> QED BY <1>1, Invariance, PTL
-----------------------------------------------------------------------------
(* Searches: who queries which descriptor, with how many probes.           *)

LEMMA Least ==
    ASSUME NEW T \in SUBSET Nat, T # {}
    PROVE  \E m \in T : \A t \in T : m <= t
<1> DEFINE R == OpToRel(<, Nat)
<1>1. IsWellFoundedOn(R, Nat)
  BY NatLessThanWellFounded
<1>2. PICK m \in T : \A t \in T : ~(<<t, m>> \in R)
  <2> HIDE DEF R
  <2> QED BY <1>1, WFMin
<1>3. m \in Nat /\ \A t \in T : t \in Nat /\ ~(t < m)
  BY <1>2 DEF OpToRel
<1> HIDE DEF R
<1> QED BY <1>3

\* Whatever satisfies the equation by which sequences are joined one by one is
\* what joins them: the equation has one solution on 1..m.
LEMMA Flattened ==
    ASSUME NEW m \in Nat \ {0}, NEW c, Len(c) = m, NEW P,
           \A i \in 1..m : P[i] = IF i = 1 THEN c[i] ELSE P[i - 1] \o c[i]
    PROVE  FlattenSeq(c) = P[m]
<1> DEFINE Step(g) == [i \in 1..m |-> IF i = 1 THEN c[i] ELSE g[i - 1] \o c[i]]
           f == CHOOSE g : g = Step(g)
           Q == [i \in 1..m |-> P[i]]
           T == {i \in Nat : i \in 1..m /\ f[i] # P[i]}
<1>1. FlattenSeq(c) = f[m]
  BY DEF FlattenSeq
<1>2. f = Step(f)
  <2>1. \A i \in 1..m : Q[i] = IF i = 1 THEN c[i] ELSE Q[i - 1] \o c[i]
    OBVIOUS
  <2>2. Q = Step(Q)
    BY <2>1
  <2> HIDE DEF Q
  <2> QED BY <2>2
<1>3. \A i \in 1..m : f[i] = IF i = 1 THEN c[i] ELSE f[i - 1] \o c[i]
  <2> HIDE DEF f
  <2> QED BY <1>2
<1>4. \A i \in 1..m : P[i] = IF i = 1 THEN c[i] ELSE P[i - 1] \o c[i]
  OBVIOUS
<1>5. T \in SUBSET Nat /\ \A i : i \in T <=> i \in 1..m /\ f[i] # P[i]
  OBVIOUS
<1>6. f[m] # P[m] => m \in T
  BY <1>5
<1> HIDE DEF f, T
<1>7. CASE T # {}
  <2>1. PICK i \in T : \A t \in T : i <= t
    BY <1>5, <1>7, Least
  <2>2. i \in 1..m /\ f[i] # P[i]
    BY <1>5, <2>1
  <2>3. i # 1
    BY <1>3, <1>4, <2>2
  <2>4. i - 1 \in 1..m /\ ~(i <= i - 1)
    BY <2>2, <2>3
  <2>5. f[i - 1] = P[i - 1]
    BY <1>5, <2>1, <2>4
  <2>6. f[i] = P[i]
    BY <1>3, <1>4, <2>2, <2>3, <2>5
  <2> QED BY <2>2, <2>6
<1> QED BY <1>1, <1>6, <1>7

LEMMA Lesser ==
    ASSUME NEW a \in Nat, NEW b \in Nat
    PROVE  Min({a, b}) = IF a <= b THEN a ELSE b
<1> DEFINE x == IF a <= b THEN a ELSE b
<1>1. x \in {a, b} /\ \A y \in {a, b} : x =< y
  OBVIOUS
<1>2. \A z \in {a, b} : (\A y \in {a, b} : z =< y) => z = x
  OBVIOUS
<1> HIDE DEF x
<1>3. Min({a, b}) = x
  BY <1>1, <1>2 DEF Min
<1> QED BY <1>3 DEF x

LEMMA FewWorkers ==
    ASSUME NEW n \in Nat \ {0}
    PROVE  Workers(n) \in 1..n
<1>1. Cardinality(Conn) \in Nat
  BY PoolAssumption, FS_CardinalityType
<1> QED BY <1>1 DEF Workers

\* The share of a worker, rounded up, and the number of workers that get one.
Share(n) == (n + Workers(n) - 1) \div Workers(n)
Sharing(n) == {w \in 1..Workers(n) : (w - 1) * Share(n) < n}

LEMMA ShareIsEnough ==
    ASSUME NEW n \in Nat \ {0}
    PROVE  Share(n) \in Nat \ {0} /\ Workers(n) * Share(n) >= n
<1>1. \A k \in 1..n : /\ (n + k - 1) \div k \in Nat \ {0}
                      /\ k * ((n + k - 1) \div k) >= n
  OBVIOUS
<1> QED BY <1>1, FewWorkers DEF Share

LEMMA Product ==
    ASSUME NEW a \in Nat, NEW b \in Nat, NEW z \in Nat, a <= b
    PROVE  a * z <= b * z /\ a * z \in Nat /\ b * z \in Nat
OBVIOUS

LEMMA SharingIsInterval ==
    ASSUME NEW n \in Nat \ {0}
    PROVE  \E m \in 1..Workers(n) :
              /\ Sharing(n) = 1..m
              /\ m * Share(n) >= n
              /\ \A w \in 1..m : (w - 1) * Share(n) < n
<1>1. PICK W \in 1..n : W = Workers(n)
  BY FewWorkers
<1>2. PICK z \in Nat \ {0} : z = Share(n) /\ W * z >= n
  BY <1>1, ShareIsEnough
<1> DEFINE T == {w \in Nat : w \in 1..W /\ w * z >= n}
<1>3. PICK m \in T : \A t \in T : m <= t
  <2>1. T \in SUBSET Nat /\ W \in T
    BY <1>1, <1>2
  <2> HIDE DEF T
  <2> QED BY <2>1, Least
<1>4. m \in 1..W /\ m * z >= n
  BY <1>3
<1>5. ASSUME NEW w \in 1..m PROVE (w - 1) * z < n
  <2>1. CASE w = 1
    BY <1>2, <2>1
  <2>2. CASE w # 1
    <3>1. w - 1 \in Nat /\ w - 1 \in 1..W /\ ~(m <= w - 1)
      BY <1>4, <2>2
    <3>2. w - 1 \notin T
      BY <1>3, <3>1
    <3>3. (w - 1) * z \in Nat
      BY <3>1, Product
    <3> QED BY <3>1, <3>2, <3>3
  <2> QED BY <2>1, <2>2
<1>6. ASSUME NEW w \in 1..W, w \notin 1..m PROVE ~((w - 1) * z < n)
  <2>1. w - 1 \in Nat /\ m \in Nat /\ m <= w - 1
    BY <1>4, <1>6
  <2>2. m * z <= (w - 1) * z /\ m * z \in Nat /\ (w - 1) * z \in Nat
    BY <2>1, <1>2, Product
  <2> QED BY <1>4, <2>2
<1>7. Sharing(n) = 1..m
  BY <1>1, <1>2, <1>4, <1>5, <1>6 DEF Sharing
<1> QED BY <1>1, <1>2, <1>4, <1>5, <1>7

\* What the workers are given, one after the other, is what there is: each
\* descriptor goes to one worker.  None is given nothing.
LEMMA ChunksPartition ==
    ASSUME NEW s \in Seq(Nat), s # <<>>
    PROVE  /\ FlattenSeq(Chunks(s)) = s
           /\ \A w \in DOMAIN Chunks(s) : Chunks(s)[w] # <<>>
<1>1. PICK n \in Nat \ {0} : n = Len(s)
  BY EmptySeq, LenProperties
<1>2. PICK m \in 1..Workers(n) :
         /\ Sharing(n) = 1..m
         /\ m * Share(n) >= n
         /\ \A w \in 1..m : (w - 1) * Share(n) < n
  BY SharingIsInterval
<1>3. PICK z \in Nat \ {0} : z = Share(n)
  BY ShareIsEnough
<1>4. m \in Nat \ {0} /\ Cardinality(1..m) = m
  BY <1>2, FewWorkers, FS_Interval
<1> DEFINE End(w) == Min({w * z, n})
           c == [w \in 1..m |-> SubSeq(s, (w - 1) * z + 1, End(w))]
           P == [w \in 1..m |-> SubSeq(s, 1, End(w))]
<1>5. Chunks(s) = c
  <2>1. Cardinality(Sharing(n)) = m
    BY <1>2, <1>4
  <2> QED BY <1>1, <1>3, <2>1 DEF Chunks, Share, Sharing
<1>6. \A w \in 1..m : /\ w * z \in Nat /\ (w - 1) * z \in Nat /\ w * z = (w - 1) * z + z
                      /\ End(w) = IF w * z <= n THEN w * z ELSE n
                      /\ (w - 1) * z < n
  <2> SUFFICES ASSUME NEW w \in 1..m
               PROVE  /\ w * z \in Nat /\ (w - 1) * z \in Nat /\ w * z = (w - 1) * z + z
                      /\ End(w) = IF w * z <= n THEN w * z ELSE n
                      /\ (w - 1) * z < n
    OBVIOUS
  <2>1. w * z \in Nat /\ (w - 1) * z \in Nat /\ w * z = (w - 1) * z + z
    OBVIOUS
  <2>2. (w - 1) * z < n
    BY <1>2, <1>3
  <2> QED BY <2>1, <2>2, Lesser
<1> HIDE DEF End
<1>7. \A w \in 1..m : /\ End(w) \in 1..n /\ (w - 1) * z + 1 \in 1..End(w)
  BY <1>6
<1>8. End(m) = n
  <2>1. m \in 1..m /\ m * z >= n
    BY <1>2, <1>3, <1>4
  <2>2. End(m) = IF m * z <= n THEN m * z ELSE n
    BY <1>6, <2>1
  <2>3. PICK t \in Nat : t = m * z
    BY <1>6, <2>1
  <2> QED BY <2>1, <2>2, <2>3
<1>9. \A w \in 1..m : P[w] = IF w = 1 THEN c[w] ELSE P[w - 1] \o c[w]
  <2>1. ASSUME NEW w \in 1..m PROVE P[w] = IF w = 1 THEN c[w] ELSE P[w - 1] \o c[w]
    <3>1. CASE w = 1
      <4>1. (w - 1) * z + 1 = 1
        BY <3>1
      <4> QED BY <3>1, <4>1
    <3>2. CASE w # 1
      <4>1. w - 1 \in 1..m
        BY <3>2
      <4>2. PICK a \in Nat, b \in Nat : a = (w - 1) * z /\ b = End(w)
        BY <1>6, <1>7
      <4>3. a < n /\ b \in 1..n /\ a + 1 \in 1..b
        BY <1>6, <1>7, <4>2
      <4>4. End(w - 1) = a
        <5>1. End(w - 1) = IF (w - 1) * z <= n THEN (w - 1) * z ELSE n
          BY <1>6, <4>1
        <5> QED BY <5>1, <4>2, <4>3
      <4>5. a \in 0..Len(s) /\ b \in a..Len(s) /\ 1 \in 1..(a + 1)
        BY <1>1, <4>3
      <4>6. SubSeq(s, 1, a) \o SubSeq(s, a + 1, b) = SubSeq(s, 1, b)
        BY <4>5, ConcatAdjacentSubSeq
      <4>7. P[w] = SubSeq(s, 1, b) /\ c[w] = SubSeq(s, a + 1, b)
        BY <4>2
      <4>8. P[w - 1] = SubSeq(s, 1, a)
        BY <4>1, <4>4
      <4> HIDE DEF P, c
      <4> QED BY <3>2, <4>6, <4>7, <4>8
    <3> QED BY <3>1, <3>2
  <2> QED BY <2>1
<1>10. P[m] = s
  BY <1>1, <1>4, <1>8, SubSeqFull
<1>11. Len(c) = m /\ DOMAIN c = 1..m
  BY <1>4
<1>12. \A w \in 1..m : c[w] # <<>>
  <2> SUFFICES ASSUME NEW w \in 1..m PROVE c[w] # <<>>
    OBVIOUS
  <2> DEFINE a == (w - 1) * z + 1
             b == End(w)
  <2>1. a \in 1..n /\ b \in 1..n /\ a <= b
    <3>1. End(w) \in 1..n /\ a \in 1..End(w)
      BY <1>7
    <3> HIDE DEF a
    <3> QED BY <3>1
  <2>2. c[w] = SubSeq(s, a, b)
    OBVIOUS
  <2> HIDE DEF a, b
  <2>3. \A i \in a..b : s[i] \in Nat
    BY <1>1, <2>1, ElementOfSeq
  <2>4. SubSeq(s, a, b) \in Seq(Nat) /\ Len(SubSeq(s, a, b)) = IF a <= b THEN b - a + 1 ELSE 0
    BY <2>1, <2>3, SubSeqProperties
  <2>5. Len(SubSeq(s, a, b)) # 0
    BY <2>1, <2>4
  <2> HIDE DEF c
  <2> QED BY <2>2, <2>4, <2>5, EmptySeq
<1>13. DOMAIN Chunks(s) = 1..m /\ Chunks(s) = c
  BY <1>5, <1>11
<1> HIDE DEF c, P
<1>14. FlattenSeq(c) = P[m]
  <2>1. \A Q : (\A i \in 1..m : Q[i] = IF i = 1 THEN c[i] ELSE Q[i - 1] \o c[i])
                 => FlattenSeq(c) = Q[m]
    BY <1>4, <1>11, Flattened
  <2> QED BY <1>9, <2>1
<1>15. FlattenSeq(Chunks(s)) = s
  BY <1>10, <1>13, <1>14
<1>16. \A w \in DOMAIN Chunks(s) : Chunks(s)[w] # <<>>
  BY <1>12, <1>13
<1> QED BY <1>15, <1>16

LEMMA Scaled ==
    ASSUME NEW n \in Nat, NEW m \in Nat \ {0}, n > m, NEW i \in 1..m, NEW j \in 1..m, i < j
    PROVE  /\ ((i - 1) * n) \div m < ((j - 1) * n) \div m
           /\ ((i - 1) * n) \div m \in 0..(n - 1)
           /\ ((j - 1) * n) \div m \in 0..(n - 1)
OBVIOUS

\* The positions that are queried: as many as may be, in order, none twice.
LEMMA SubsampleSpreads ==
    ASSUME NEW n \in Nat \ {0}
    PROVE  /\ Subsample(n) \in Seq(Nat) /\ Subsample(n) # <<>>
           /\ Len(Subsample(n)) = Min({n, MaxQueryDescs})
           /\ \A i \in DOMAIN Subsample(n) : Subsample(n)[i] \in 1..n
           /\ \A i, j \in DOMAIN Subsample(n) : i < j => Subsample(n)[i] < Subsample(n)[j]
<1>1. PICK m \in Nat \ {0} : m = MaxQueryDescs
  BY PoolAssumption
<1>2. Min({n, m}) = IF n <= m THEN n ELSE m
  BY Lesser
<1>3. CASE n <= m
  <2>1. Subsample(n) = [i \in 1..n |-> i]
    BY <1>1, <1>3 DEF Subsample
  <2> QED BY <1>1, <1>2, <1>3, <2>1
<1>4. CASE ~(n <= m)
  <2> DEFINE s == [i \in 1..m |-> ((i - 1) * n) \div m + 1]
  <2>1. Subsample(n) = s
    BY <1>1, <1>4 DEF Subsample
  <2>2. \A i, j \in 1..m : i < j => s[i] < s[j]
    <3> SUFFICES ASSUME NEW i \in 1..m, NEW j \in 1..m, i < j PROVE s[i] < s[j]
      OBVIOUS
    <3>1. /\ ((i - 1) * n) \div m < ((j - 1) * n) \div m
          /\ ((i - 1) * n) \div m \in 0..(n - 1)
          /\ ((j - 1) * n) \div m \in 0..(n - 1)
      BY <1>4, Scaled
    <3> QED BY <3>1
  <2>3. \A i \in 1..m : s[i] \in 1..n
    <3> SUFFICES ASSUME NEW i \in 1..m PROVE s[i] \in 1..n
      OBVIOUS
    <3>1. ((i - 1) * n) \div m \in 0..(n - 1)
      BY <1>4
    <3> QED BY <3>1
  <2>4. DOMAIN s = 1..m /\ s \in Seq(Nat) /\ Len(s) = m /\ s # <<>>
    BY <2>3
  <2> HIDE DEF s
  <2> QED BY <1>1, <1>2, <1>4, <2>1, <2>2, <2>3, <2>4
<1> QED BY <1>3, <1>4

\* What a search has sent is what its workers were given: the descriptors of
\* Subsample, each with one worker.
LEMMA SentAsGiven ==
    ASSUME NEW n \in Given
    PROVE  LET chunks == Chunks(Subsample(n))
               sent == FlattenSeq(chunks)
           IN  /\ Len(sent) = Min({n, MaxQueryDescs})
               /\ \A i, j \in DOMAIN sent : i < j => sent[i] < sent[j]
               /\ \A i \in DOMAIN sent : sent[i] \in 1..n
               /\ \A w \in DOMAIN chunks : chunks[w] # <<>>
<1>1. n \in Nat \ {0}
  BY PoolAssumption
<1>2. /\ Subsample(n) \in Seq(Nat) /\ Subsample(n) # <<>>
      /\ Len(Subsample(n)) = Min({n, MaxQueryDescs})
      /\ \A i \in DOMAIN Subsample(n) : Subsample(n)[i] \in 1..n
      /\ \A i, j \in DOMAIN Subsample(n) : i < j => Subsample(n)[i] < Subsample(n)[j]
  BY <1>1, SubsampleSpreads
<1>3. /\ FlattenSeq(Chunks(Subsample(n))) = Subsample(n)
      /\ \A w \in DOMAIN Chunks(Subsample(n)) : Chunks(Subsample(n))[w] # <<>>
  BY <1>2, ChunksPartition
<1> QED BY <1>2, <1>3

\* A connection has the floor or more unless its setting was reset last; the
\* descriptors of the running or last search are shared out as Subsample and
\* Chunks give; and each worker that has returned has done what it should.
SearchesSend ==
    /\ \A c \in Conn \ raised : guc[c] >= Floor
    /\ query # NoQuery =>
          /\ query.given \in Given
          /\ query.chunks = Chunks(Subsample(query.given))
          /\ DOMAIN answers = DOMAIN query.chunks
    /\ \A w \in DOMAIN answers : answers[w].done => Served(w)

LEMMA OnlySearchesQuery ==
    ASSUME [Next]_vars
    PROVE  Searching \/ UNCHANGED queryVars
<1> USE DEF storeVars
<1>1. CASE Command
  BY <1>1 DEF Command, Run, Finish, Done, Abandon, Abandoned, Crash, BeginBulkImport,
              EndBulkImport
<1>2. CASE Goroutine
  BY <1>2 DEF Goroutine, Walk, WalkEnds, WorkerTakes, WorkerChecks, WorkerSends, CloseJobs,
              WriterTakes, WriterEnds, Flush, FlushFails, Retry, Store
<1>3. CASE Outside
  <2>1. CASE Other
    BY <2>1 DEF Other, AddElsewhere, DeleteElsewhere
  <2>2. CASE Index
    BY <2>2 DEF Index, ANN, CheckANN, CreateANN, CreateFails, TryAgain, SearcherOpened, NewSearcher
  <2>3. CASE UNCHANGED vars
    BY <2>3 DEF vars
  <2> QED BY <1>3, <2>1, <2>2, <2>3 DEF Outside
<1> QED BY <1>1, <1>2, <1>3, EveryStep

\* An answer to the running search leaves it shared out as it is, and every other
\* answer as well.
LEMMA AnswerStays ==
    ASSUME SearchesSend, NEW w \in DOMAIN answers, NEW answer,
           answers' = [answers EXCEPT ![w] = answer], query' = query,
           \A c \in Conn \ raised' : guc'[c] >= Floor,
           /\ answer.failed \/ answer.sent = Len(query.chunks[w])
           /\ query.asked > Floor => answer.failed \/ answer.probes >= query.asked
           /\ answer.sent = 0 \/ answer.late \/ answer.probes >= Floor
    PROVE  SearchesSend'
<1>1. DOMAIN answers' = DOMAIN answers /\ answers'[w] = answer
  OBVIOUS
<1>2. \A v \in DOMAIN answers : v # w => answers'[v] = answers[v]
  OBVIOUS
<1>3. ASSUME NEW v \in DOMAIN answers', answers'[v].done PROVE Served(v)'
  <2>1. CASE v = w
    BY <1>1, <2>1 DEF Served
  <2>2. CASE v # w
    BY <1>1, <1>2, <1>3, <2>2 DEF Served, SearchesSend
  <2> QED BY <2>1, <2>2
<1> QED BY <1>1, <1>3 DEF SearchesSend

LEMMA SearchesSendStays ==
    ASSUME StoreTypes, SearchesSend, [Next]_vars
    PROVE  SearchesSend'
<1>0. Floor \in Nat /\ \A c \in Conn : guc[c] \in Nat
  BY PoolAssumption DEF StoreTypes
<1>a. query.asked \in Nat
  <2>1. query.asked = 0 \/ query.asked \in NProbe
    BY DEF StoreTypes
  <2>2. CASE query.asked = 0
    BY <2>2
  <2>3. CASE query.asked \in NProbe
    BY <2>3, PoolAssumption
  <2> QED BY <2>1, <2>2, <2>3
<1>1. CASE UNCHANGED queryVars
  BY <1>1 DEF SearchesSend, Served, queryVars
<1>2. ASSUME NEW c \in Conn, Reconnect(c) PROVE SearchesSend'
  <2>1. \A d \in Conn \ raised' : guc'[d] >= Floor
    BY <1>0, <1>2 DEF Reconnect, SearchesSend, StoreTypes
  <2>2. UNCHANGED <<query, answers>>
    BY <1>2 DEF Reconnect
  <2> QED BY <2>1, <2>2 DEF SearchesSend, Served
<1>3. ASSUME NEW n \in Given, NEW q \in NProbe, SearchDescriptors(n, q)
      PROVE  SearchesSend'
  <2>1. /\ query' = [given |-> n, asked |-> q, chunks |-> Chunks(Subsample(n))]
        /\ answers' = [w \in DOMAIN query'.chunks |-> NoAnswer]
        /\ UNCHANGED <<guc, raised>>
    BY <1>3 DEF SearchDescriptors
  <2>2. \A w \in DOMAIN answers' : ~answers'[w].done
    BY <2>1 DEF NoAnswer
  <2> QED BY <2>1, <2>2 DEF SearchesSend
<1>4. ASSUME NEW w \in DOMAIN answers, AcquireFails(w) PROVE SearchesSend'
  <2> DEFINE answer == [NoAnswer EXCEPT !.done = TRUE, !.failed = TRUE]
  <2>1. answers' = [answers EXCEPT ![w] = answer] /\ UNCHANGED <<query, guc, raised>>
    BY <1>4 DEF AcquireFails
  <2>2. answer.failed /\ answer.sent = 0
    BY DEF NoAnswer
  <2> HIDE DEF answer
  <2> QED BY <2>1, <2>2, AnswerStays DEF SearchesSend
<1>5. ASSUME NEW w \in DOMAIN answers, NEW c \in Conn, QueryBatch(w, c)
      PROVE  SearchesSend'
  <2> DEFINE above == query.asked > Floor
             answer(errors, sent) ==
                [done |-> TRUE, sent |-> sent,
                 probes |-> IF above /\ "set" \notin errors THEN query.asked ELSE guc[c],
                 late |-> c \in raised, failed |-> errors \ {"reset"} # {}]
  <2>1. PICK errors \in SUBSET {"set", "query", "reset"},
             sent \in 0..Len(query.chunks[w]) :
           /\ "query" \in errors <=> sent # Len(query.chunks[w])
           /\ answers' = [answers EXCEPT ![w] = answer(errors, sent)]
           /\ \/ UNCHANGED <<guc, raised>>
              \/ guc' = [guc EXCEPT ![c] = ServerDefault] /\ raised' = raised \cup {c}
              \/ /\ above
                 /\ guc' = [guc EXCEPT ![c] = query.asked] /\ raised' = raised \ {c}
           /\ query' = query
    BY <1>5 DEF QueryBatch
  <2>2. query.asked \in Nat
    BY <1>a
  <2>3. PICK a : a = answer(errors, sent)
    OBVIOUS
  <2>4. a.sent = sent
    BY <2>3
  <2>5. a.failed \/ ("set" \notin errors /\ "query" \notin errors)
    <3>1. a.failed <=> errors \ {"reset"} # {}
      BY <2>3
    <3>2. "set" \in errors \/ "query" \in errors => errors \ {"reset"} # {}
      OBVIOUS
    <3> QED BY <3>1, <3>2
  <2>6. a.late \/ c \notin raised
    BY <2>3
  <2>7. \/ a.probes = query.asked /\ above
        \/ a.probes = guc[c] /\ ~(above /\ "set" \notin errors)
    BY <2>3
  <2>8. a.failed \/ a.sent = Len(query.chunks[w])
    BY <2>1, <2>4, <2>5
  <2>9. above => a.failed \/ a.probes >= query.asked
    BY <2>2, <2>5, <2>7
  <2>10. c \in raised \/ guc[c] >= Floor
    BY DEF SearchesSend
  <2>11. a.late \/ a.probes >= Floor
    BY <1>0, <2>2, <2>6, <2>7, <2>10
  <2>12. \A d \in Conn \ raised' : guc'[d] >= Floor
    BY <1>0, <2>1, <2>2 DEF SearchesSend, StoreTypes
  <2>13. answers' = [answers EXCEPT ![w] = a] /\ query' = query
    BY <2>1, <2>3
  <2> QED BY <2>8, <2>9, <2>11, <2>12, <2>13, AnswerStays
<1> QED BY <1>1, <1>2, <1>3, <1>4, <1>5, OnlySearchesQuery DEF Searching, Search

\* However many descriptors a search is given and however many connections the
\* pool has, what it samples is shared out among its workers, each descriptor
\* once; a worker for which nothing has failed queries all of its share with the
\* probes asked for above the floor; and whatever has failed, none queries with
\* less than the floor, but on a connection whose setting an earlier search has
\* reset (SearchDescriptors, queryBatch, setQueryGUC).
THEOREM AlwaysSearchedAsAsked == Spec => []SearchedAsAsked
<1>1. Init => SearchesSend
  BY PoolAssumption DEF Init, StoreInit, SearchesSend
<1>2. IInv /\ SearchesSend /\ [Next]_vars => SearchesSend'
  BY SearchesSendStays DEF IInv, Types
<1>3. SearchesSend => SearchedAsAsked
  BY SentAsGiven DEF SearchesSend, SearchedAsAsked, Shared
<1> QED BY <1>1, <1>2, <1>3, Invariance, PTL DEF Spec
=============================================================================
