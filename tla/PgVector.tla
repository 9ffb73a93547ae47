------------------------------ MODULE PgVector ------------------------------
(***************************************************************************)
(* The pgvector store as several processes use it: the rows, the one ANN   *)
(* index and who builds and drops it, and the setting of each connection   *)
(* that queries run with.  A transaction is one step; PostgreSQL itself is *)
(* modelled from the statements sent to it.                                *)
(***************************************************************************)
EXTENDS Integers, SequencesExt

CONSTANTS
    Hash,           \* content hashes of images
    Importer,       \* the process of `add`
    Server,         \* a process that opens searchers
    Conn,           \* pooled connections of the server
    Floor,          \* s.probes, which AfterConnect sets
    ServerDefault,  \* what PostgreSQL has when nothing is set
    NProbe,         \* numbers of lists searches ask for
    Given,          \* numbers of descriptors searches are given
    MaxQueryDescs,  \* s.maxQueryDescs
    MaxAttempts,    \* settings EndBulkImport tries to build the index with
    MaxQueries,     \* bound
    MaxFailures     \* bound: statements that fail

Process == {Importer, Server}

ASSUME ProcessAssumption == Importer # Server /\ "nobody" \notin Process
ASSUME PoolAssumption ==
    /\ IsFiniteSet(Conn)
    /\ Floor \in Nat /\ ServerDefault \in Nat /\ NProbe \subseteq Nat
    /\ Given \subseteq Nat \ {0} /\ MaxQueryDescs \in Nat \ {0}
    /\ MaxAttempts \in Nat \ {0} /\ MaxQueries \in Nat /\ MaxFailures \in Nat

VARIABLES
    rows,      \* hashes of the images in the table, each with its vectors
    index,     \* the ANN index: who built it, from which rows
    bulk,      \* bulkMode of each process
    ann,       \* where each process is in ensureANN
    attempt,   \* which attempt of EndBulkImport
    guc,       \* the probes each connection runs queries with
    raised,    \* history: connections whose setting was last changed by a reset
    query,     \* the running or last search: what it was given and asks for, and
               \* the descriptors of each of its workers
    answers,   \* what each worker of that search has done
    queries,   \* history: number of searches
    failures   \* history: number of failures

annVars == <<index, bulk, ann, attempt>>
queryVars == <<guc, raised, query, answers, queries>>
storeVars == <<rows, annVars, queryVars, failures>>

NoIndex == [by |-> "nobody", of |-> {}]
NoQuery == [given |-> 0, asked |-> 0, chunks |-> <<>>]

\* An answer: how many of the worker's descriptors were queried, with how many
\* probes, whether the setting of its connection had been reset before, and
\* whether a statement failed that the answer needs.
NoAnswer == [done |-> FALSE, sent |-> 0, probes |-> 0, late |-> FALSE, failed |-> FALSE]

StoreInit ==
    /\ rows = {}
    /\ index = NoIndex
    /\ bulk = [p \in Process |-> FALSE]
    /\ ann = [p \in Process |-> "off"]
    /\ attempt = 0
    /\ guc = [c \in Conn |-> Floor]
    /\ raised = {}
    /\ query = NoQuery
    /\ answers = <<>>
    /\ queries = 0
    /\ failures = 0

Fails == failures < MaxFailures /\ failures' = failures + 1

-----------------------------------------------------------------------------
(* Rows.                                                                   *)

\* AddImage and DeleteImage of another process.
AddElsewhere(h) ==
    /\ h \notin rows
    /\ rows' = rows \cup {h}
    /\ UNCHANGED <<annVars, queryVars, failures>>

DeleteElsewhere(h) ==
    /\ h \in rows
    /\ rows' = rows \ {h}
    /\ UNCHANGED <<annVars, queryVars, failures>>

-----------------------------------------------------------------------------
(* The index.                                                              *)

\* BeginBulkImport: the index is dropped, then the flag is set.
BeginBulkImport ==
    /\ ~bulk[Importer]
    /\ index' = NoIndex
    /\ bulk' = [bulk EXCEPT ![Importer] = TRUE]
    /\ UNCHANGED <<rows, ann, attempt, queryVars, failures>>

\* Bug: the flag is cleared when the index is there.
BugEndBulkImport ==
    /\ attempt = 0
    /\ attempt' = 1
    /\ ann' = [ann EXCEPT ![Importer] = "check"]
    /\ UNCHANGED <<rows, index, bulk, queryVars, failures>>

EndBulkImport ==
    /\ attempt = 0
    /\ attempt' = 1
    /\ bulk' = [bulk EXCEPT ![Importer] = FALSE]
    /\ ann' = [ann EXCEPT ![Importer] = "check"]
    /\ UNCHANGED <<rows, index, queryVars, failures>>

NewSearcher ==
    /\ ann[Server] = "off"
    /\ ann' = [ann EXCEPT ![Server] = "check"]
    /\ UNCHANGED <<rows, index, bulk, attempt, queryVars, failures>>

\* The first half of ensureANN: is an index wanted, and is there none?  The
\* flag it reads is that of its own process.
CheckANN(p) ==
    /\ ann[p] = "check"
    /\ ann' = [ann EXCEPT ![p] = IF bulk[p] \/ index # NoIndex THEN "ok" ELSE "create"]
    /\ UNCHANGED <<rows, index, bulk, attempt, queryVars, failures>>

\* The second half, createIVFFlat: not for an empty table; CREATE INDEX IF NOT
\* EXISTS.
CreateANN(p) ==
    /\ ann[p] = "create"
    /\ index' = IF rows = {} \/ index # NoIndex THEN index ELSE [by |-> p, of |-> rows]
    /\ ann' = [ann EXCEPT ![p] = "ok"]
    /\ UNCHANGED <<rows, bulk, attempt, queryVars, failures>>

CreateFails(p) ==
    /\ ann[p] = "create" /\ rows # {}
    /\ Fails
    /\ ann' = [ann EXCEPT ![p] = "failed"]
    /\ UNCHANGED <<rows, index, bulk, attempt, queryVars>>

\* EndBulkImport drops whatever index there is and tries again with less.
TryAgain ==
    /\ ann[Importer] = "failed"
    /\ index' = NoIndex
    /\ attempt' = attempt + 1
    /\ ann' = [ann EXCEPT ![Importer] = IF attempt < MaxAttempts THEN "check" ELSE "error"]
    /\ UNCHANGED <<rows, bulk, queryVars, failures>>

\* NewSearcher returns a searcher or an error.
SearcherOpened ==
    /\ ann[Server] \in {"ok", "failed"}
    /\ ann' = [ann EXCEPT ![Server] = "off"]
    /\ UNCHANGED <<rows, index, bulk, attempt, queryVars, failures>>

-----------------------------------------------------------------------------
(* Searches.                                                               *)

\* subsampleDescs: positions spread over all n.
Subsample(n) ==
    IF n <= MaxQueryDescs THEN [i \in 1..n |-> i]
    ELSE [i \in 1..MaxQueryDescs |-> ((i - 1) * n) \div MaxQueryDescs + 1]

\* Workers: most of the pool, but one for each descriptor at most.
Workers(n) ==
    LET most == IF Cardinality(Conn) - 2 < 1 THEN 1 ELSE Cardinality(Conn) - 2
    IN  IF most > n THEN n ELSE most

\* Bug: what is left when the workers have equal shares is nobody's.
BugChunks(s) ==
    LET size == Len(s) \div Workers(Len(s))
    IN  [w \in 1..Workers(Len(s)) |-> SubSeq(s, (w - 1) * size + 1, w * size)]

\* The descriptors of each worker.
Chunks(s) ==
    LET n == Len(s)
        size == (n + Workers(n) - 1) \div Workers(n)
        count == Cardinality({w \in 1..Workers(n) : (w - 1) * size < n})
    IN  [w \in 1..count |-> SubSeq(s, (w - 1) * size + 1, Min({w * size, n}))]

SearchReturned == \A w \in DOMAIN answers : answers[w].done

\* SearchDescriptors starts its workers.  Searches share nothing but the settings
\* of connections, which outlive them, so one after another is enough.
SearchDescriptors(n, q) ==
    /\ SearchReturned
    /\ queries < MaxQueries
    /\ queries' = queries + 1
    /\ query' = [given |-> n, asked |-> q, chunks |-> Chunks(Subsample(n))]
    /\ answers' = [w \in DOMAIN query'.chunks |-> NoAnswer]
    /\ UNCHANGED <<rows, annVars, guc, raised, failures>>

\* queryBatch gets no connection: its descriptors are dropped.
AcquireFails(w) ==
    /\ ~answers[w].done
    /\ Fails
    /\ answers' = [answers EXCEPT ![w] = [NoAnswer EXCEPT !.done = TRUE, !.failed = TRUE]]
    /\ UNCHANGED <<rows, annVars, guc, raised, query, queries>>

\* queryBatch with connection c, which it has to itself.  A setting above the
\* floor is made first and reset afterwards, which gives what the server has.
\* When making it fails the queries run with what the connection has; a query
\* that fails drops those after it; and that the reset fails goes unnoticed.
QueryBatch(w, c) ==
    \E errors \in SUBSET {"set", "query", "reset"}, sent \in 0..Len(query.chunks[w]) :
        LET above == query.asked > Floor
            set == above /\ "set" \notin errors
        IN
        /\ ~answers[w].done
        /\ "set" \in errors => above
        /\ "query" \in errors <=> sent # Len(query.chunks[w])
        /\ "reset" \in errors => set
        /\ failures' = failures + Cardinality(errors)
        /\ failures' <= MaxFailures
        /\ answers' = [answers EXCEPT ![w] =
              [done |-> TRUE, sent |-> sent,
               probes |-> IF set THEN query.asked ELSE guc[c],
               late |-> c \in raised, failed |-> errors \ {"reset"} # {}]]
        /\ \/ ~set /\ UNCHANGED <<guc, raised>>
           \/ /\ set /\ "reset" \notin errors
              /\ guc' = [guc EXCEPT ![c] = ServerDefault]
              /\ raised' = raised \cup {c}
           \/ /\ "reset" \in errors
              /\ guc' = [guc EXCEPT ![c] = query.asked]
              /\ raised' = raised \ {c}
        /\ UNCHANGED <<rows, annVars, query, queries>>

\* The pool replaces a connection.
Reconnect(c) ==
    /\ guc[c] # Floor
    /\ guc' = [guc EXCEPT ![c] = Floor]
    /\ raised' = raised \ {c}
    /\ UNCHANGED <<rows, annVars, query, answers, queries, failures>>

Search ==
    \/ \E n \in Given, q \in NProbe : SearchDescriptors(n, q)
    \/ \E w \in DOMAIN answers : AcquireFails(w)
    \/ \E w \in DOMAIN answers, c \in Conn : QueryBatch(w, c)
    \/ \E c \in Conn : Reconnect(c)

-----------------------------------------------------------------------------
StoreTypeOK ==
    /\ rows \subseteq Hash
    /\ index.by \in Process \cup {"nobody"} /\ index.of \subseteq Hash
    /\ bulk \in [Process -> BOOLEAN]
    /\ ann \in [Process -> {"off", "check", "create", "failed", "ok", "error"}]
    /\ attempt \in 0..(MaxAttempts + 1)
    /\ guc \in [Conn -> {Floor, ServerDefault} \cup NProbe] /\ raised \subseteq Conn

\* The descriptors that the workers of a search have are MaxQueryDescs at most,
\* spread over all that are given, and each of them is one worker's, once.
Shared ==
    LET all == FlattenSeq(query.chunks) IN
    query # NoQuery =>
        /\ Len(all) = Min({query.given, MaxQueryDescs})
        /\ \A i, j \in DOMAIN all : i < j => all[i] < all[j]
        /\ \A i \in DOMAIN all : all[i] \in 1..query.given
        /\ DOMAIN answers = DOMAIN query.chunks
        /\ \A w \in DOMAIN query.chunks : query.chunks[w] # <<>>

\* What a worker has done when it returns.
Served(w) ==
    LET answer == answers[w] IN
    /\ answer.failed \/ answer.sent = Len(query.chunks[w])
    /\ query.asked > Floor => answer.failed \/ answer.probes >= query.asked
    /\ answer.sent = 0 \/ answer.late \/ answer.probes >= Floor

\* A search queries what it samples, as it is asked to.  The sample is shared out
\* (Shared), and a worker queries all it has with the probes the search asks for,
\* where these are above the floor that the pool sets for quality, unless it gets
\* no connection, or its SET or one of its queries fails.  Whatever has failed, for
\* it or for earlier searches, it queries nothing with less than the floor, except
\* on a connection whose setting an earlier search has reset: that does not bring
\* the floor back.
SearchedAsAsked ==
    /\ Shared
    /\ \A w \in DOMAIN answers : answers[w].done => Served(w)
=============================================================================
