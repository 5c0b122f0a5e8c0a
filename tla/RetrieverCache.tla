--------------------------- MODULE RetrieverCache ---------------------------
(***************************************************************************)
(* runnrr/rag/retriever.py and vector_index.py: a semantic search on a     *)
(* thread of the executor.  It fingerprints the index files, looks a       *)
(* retriever up in the process's cache or loads one, searches BM25 in      *)
(* memory and the vectors over sqlite, and asks the cache again for the    *)
(* size of the index.  Threads share the retrievers; a sqlite connection   *)
(* serves only the thread that opened it (check_same_thread).              *)
(*                                                                         *)
(* A build in another process rewrites the files meanwhile.  Every write   *)
(* is a new content <<build, stage>>, and so a new (mtime, size).          *)
(***************************************************************************)
EXTENDS Executor, Naturals, Sequences, FiniteSets, Functions

CONSTANTS
    Absent,      \* no such file
    NoConn,      \* VectorIndex._conn is None
    Live,        \* a connection reads the file that is there
    MaxBuilds    \* bound: builds of the index

ASSUME CacheAssumption == MaxBuilds \in Nat /\ Absent # NoConn /\ Live # NoConn

VARIABLES
    files,     \* the three index files
    build,     \* the build under way
    cache,     \* _RETRIEVER_CACHE of one profile and one embedding: key and retriever
    heap,      \* the retrievers someone refers to
    thread     \* per thread the locals of semantic_search_kb

cacheVars == <<files, build, cache, heap, thread>>

Names  == <<"manifest", "bm25", "vector">>     \* _INDEX_FINGERPRINT_FILES
Stages == <<"torn", "empty", "part", "full">>
Contents == (0 .. MaxBuilds) \X Range(Stages)
Connection == [owner : Threads, sees : Contents \cup {Live}]

\* What stands for nothing is not something.
ASSUME ValuesAssumption ==
    Absent \notin Contents /\ Live \notin Contents /\ NoConn \notin Connection

Age(c) == 5 * c[1] + (CHOOSE i \in DOMAIN Stages : Stages[i] = c[2])

Torn(c)  == c # Absent /\ c[2] = "torn"
Readable == \A f \in DOMAIN files : files[f] # Absent /\ ~Torn(files[f])

Fresh == [pc |-> "idle", round |-> 1, stats |-> <<>>, id |-> 0, conn |-> NoConn,
          began |-> <<>>, calm |-> FALSE, found |-> <<>>]

CacheInit ==
    /\ files = [f \in Range(Names) |-> <<0, "full">>]
    /\ build = [pc |-> "idle", n |-> 0]
    /\ cache = {}
    /\ heap = <<>>
    /\ thread = [w \in Threads |-> Fresh]

-----------------------------------------------------------------------------
(* The build, as indexer.py orders it (see RagIndex and IndexFiles).       *)

Running == build.pc # "idle"

\* History: a search under way no longer sees one and the same index throughout.
Stir(th) == [w \in Threads |-> [th[w] EXCEPT !.calm = FALSE]]

\* A connection goes on reading the file it has opened, also after its unlinking.
Detach(conn) == IF conn # NoConn /\ conn.sees = Live THEN [conn EXCEPT !.sees = files.vector] ELSE conn

\* Fault variant: the manifest is not unlinked.
MutFirstStep(rebuilt) == IF rebuilt THEN "bm25-" ELSE "open"

FirstStep(rebuilt) == IF rebuilt THEN "manifest-" ELSE "open"

StartBuild(rebuilt) ==
    /\ ~Running /\ build.n < MaxBuilds
    /\ ~Torn(files.manifest)
    /\ ~rebuilt => Readable
    /\ build' = [pc |-> FirstStep(rebuilt), n |-> build.n + 1]
    /\ UNCHANGED <<files, cache, heap, thread>>

Unlink(pc, f, next) ==
    /\ build.pc = pc
    /\ files' = [files EXCEPT ![f] = Absent]
    /\ build' = [build EXCEPT !.pc = next]
    /\ heap' = IF f = "vector"
               THEN [i \in DOMAIN heap |-> [heap[i] EXCEPT !.conn = Detach(@)]]
               ELSE heap
    /\ thread' = [w \in Threads |->
                    [Stir(thread)[w] EXCEPT !.conn = IF f = "vector" THEN Detach(@) ELSE @]]
    /\ UNCHANGED cache

\* A step that leaves the content c in file f.
Put(pc, f, c, next) ==
    /\ build.pc = pc
    /\ files' = [files EXCEPT ![f] = c]
    /\ build' = [build EXCEPT !.pc = next]
    /\ thread' = IF c = files[f] THEN thread ELSE Stir(thread)
    /\ UNCHANGED <<cache, heap>>

BuildStep ==
    LET n == build.n
    IN  \/ Unlink("manifest-", "manifest", "bm25-")
        \/ Unlink("bm25-", "bm25", "vector-")
        \/ Unlink("vector-", "vector", "open")
        \/ Put("open", "vector", IF files.vector = Absent THEN <<n, "empty">> ELSE files.vector, "delete")
        \/ Put("delete", "vector", <<n, "part">>, "add")
        \/ Put("add", "vector", <<n, "full">>, "bm25")
        \/ Put("bm25", "bm25", <<n, "torn">>, "save")
        \/ Put("save", "bm25", <<n, "full">>, "manifest")
        \/ Put("manifest", "manifest", <<n, "torn">>, "last")
        \/ Put("last", "manifest", <<n, "full">>, "idle")

\* The build dies, or the embedding service fails it.
CutBuild ==
    /\ Running
    /\ build' = [build EXCEPT !.pc = "idle"]
    /\ UNCHANGED <<files, cache, heap, thread>>

-----------------------------------------------------------------------------
(* The search on thread w.                                                 *)

At(w, pc) == thread[w].pc = pc

\* The retrievers that the cache or a thread still refers to.
Keep(h, c, th) ==
    Restrict(h, {i \in DOMAIN h : (\E e \in c : e.id = i) \/ \E w \in Threads : th[w].id = i})

\* A step of w that only moves on.
Move(w, t) ==
    /\ thread' = [thread EXCEPT ![w] = t]
    /\ UNCHANGED <<files, build, cache, heap>>

\* The search ends with an outcome; what it referred to may be freed.
End(w, outcome) ==
    /\ thread' = [thread EXCEPT ![w] =
                     [Fresh EXCEPT !.pc = outcome, !.calm = outcome = "missing" /\ thread[w].calm]]
    /\ heap' = Keep(heap, cache, thread')
    /\ UNCHANGED <<files, build, cache>>

Begin(w) ==
    Move(w, [Fresh EXCEPT !.pc = "stat", !.calm = TRUE,
                          !.began = <<files.bm25, files.vector>>])

\* Fault variant: only the manifest is fingerprinted.
MutFingerprinted == 1

Fingerprinted == Len(Names)

\* _index_fingerprint, one stat per file.  FileNotFoundError is reported as such by
\* the search proper, and as an unexpected failure by the second look-up.
Stat(w) ==
    LET t == thread[w]
        f == Names[Len(t.stats) + 1]
    IN  /\ At(w, "stat")
        /\ IF files[f] = Absent
           THEN End(w, IF t.round = 1 THEN "missing" ELSE "unexpected")
           ELSE Move(w, [t EXCEPT !.stats = Append(@, files[f]),
                                  !.pc = IF Len(t.stats) + 1 = Fingerprinted THEN "look" ELSE "stat"])

Search(t, i) == [t EXCEPT !.id = i, !.stats = <<>>, !.pc = "connect"]

\* Fault variant: the fingerprint is not part of the key.
MutHits(key) == cache

Hits(key) == {e \in cache : e.key = key}

\* Under the lock.
LookUp(w) ==
    /\ At(w, "look")
    /\ \/ Hits(thread[w].stats) = {} /\ Move(w, [thread[w] EXCEPT !.pc = "load"])
       \/ \E e \in Hits(thread[w].stats) : Move(w, Search(thread[w], e.id))

NewId == CHOOSE i \in 1 .. Cardinality(DOMAIN heap) + 1 : i \notin DOMAIN heap

\* BM25Index.load and VectorIndex(path), outside the lock; nothing connects yet.
Load(w) ==
    /\ At(w, "load")
    /\ IF files.bm25 = Absent \/ Torn(files.bm25)
       THEN End(w, IF files.bm25 = Absent /\ thread[w].round = 1 THEN "missing" ELSE "unexpected")
       ELSE LET made == [bm25 |-> files.bm25, conn |-> NoConn]
            IN  /\ thread' = [thread EXCEPT ![w] = [@ EXCEPT !.id = NewId, !.pc = "store"]]
                /\ heap' = [i \in DOMAIN heap \cup {NewId} |-> IF i = NewId THEN made ELSE heap[i]]
                /\ UNCHANGED <<files, build, cache>>

Foreign(w, i) == heap[i].conn # NoConn /\ heap[i].conn.owner # w

\* Fault variant: the lapsed retrievers stay in the cache.
MutLapsed(key) == {}

Lapsed(key) == {e \in cache : e.key # key}

\* _evict_matching_locked and the assignment, under the lock.  Closing a connection
\* of another thread raises after its entry was popped, and nothing is stored.
Store(w) ==
    LET t == thread[w]
    IN  /\ At(w, "store")
        /\ \/ \E e \in Lapsed(t.stats) :
                /\ Foreign(w, e.id)
                /\ cache' = cache \ {e}
                /\ thread' = [thread EXCEPT ![w] = [Fresh EXCEPT !.pc = "unexpected"]]
                /\ heap' = Keep(heap, cache', thread')
           \/ /\ \A e \in Lapsed(t.stats) : ~Foreign(w, e.id)
              /\ cache' = {e \in cache \ Lapsed(t.stats) : e.key # t.stats}
                             \cup {[key |-> t.stats, id |-> t.id]}
              /\ thread' = [thread EXCEPT ![w] = Search(t, t.id)]
              /\ heap' = Keep([i \in DOMAIN heap |->
                                 IF \E e \in Lapsed(t.stats) : e.id = i
                                 THEN [heap[i] EXCEPT !.conn = NoConn] ELSE heap[i]], cache', thread')
        /\ UNCHANGED <<files, build>>

\* embed_query asks a service.
EmbedFails(w) ==
    /\ At(w, "connect") /\ thread[w].round = 1
    /\ End(w, "unexpected")

\* The query over the connection conn: the first round has its answer, the second its size.
Answered(w, conn) ==
    LET t == thread[w]
        rows == IF conn.sees = Live THEN files.vector ELSE conn.sees
    IN  IF t.round = 2
        THEN End(w, "ok")
        ELSE /\ thread' = [thread EXCEPT ![w] = [t EXCEPT !.pc = "answer", !.id = 0, !.conn = NoConn,
                                                         !.found = <<heap[t.id].bm25, rows>>]]
             /\ heap' = Keep(heap, cache, thread')
             /\ UNCHANGED <<files, build, cache>>

\* VectorIndex._connect with a connection at hand, which serves one thread only.
Reuse(w) ==
    LET conn == heap[thread[w].id].conn
    IN  /\ At(w, "connect") /\ conn # NoConn
        /\ IF Foreign(w, thread[w].id) THEN End(w, "unexpected") ELSE Answered(w, conn)

\* sqlite3.connect, which creates the file if need be.
Connect(w) ==
    /\ At(w, "connect") /\ heap[thread[w].id].conn = NoConn
    /\ thread' = [(IF files.vector = Absent THEN Stir(thread) ELSE thread)
                   EXCEPT ![w].pc = "assign", ![w].conn = [owner |-> w, sees |-> Live]]
    /\ files' = [files EXCEPT !.vector = IF @ = Absent THEN <<build.n, "empty">> ELSE @]
    /\ UNCHANGED <<build, cache, heap>>

\* self._conn = conn
Assign(w) ==
    /\ At(w, "assign")
    /\ heap' = [heap EXCEPT ![thread[w].id].conn = thread[w].conn]
    /\ thread' = [thread EXCEPT ![w].pc = "schema"]
    /\ UNCHANGED <<files, build, cache>>

\* _ensure_schema works on self._conn, which another thread may have set since, and
\* closed again; the query uses the connection of this call.
Opened(w) ==
    LET conn == heap[thread[w].id].conn
    IN  /\ At(w, "schema")
        /\ IF conn = NoConn \/ Foreign(w, thread[w].id)
           THEN End(w, "unexpected") ELSE Answered(w, thread[w].conn)

\* semantic_search_kb gets the retriever once more, for total_tokens.
Tally(w) ==
    /\ At(w, "answer")
    /\ Move(w, [Fresh EXCEPT !.pc = "stat", !.round = 2])

SearchStep(w) ==
    \/ Stat(w) \/ LookUp(w) \/ Load(w) \/ Store(w) \/ EmbedFails(w) \/ Connect(w)
    \/ Assign(w) \/ Opened(w) \/ Reuse(w) \/ Tally(w)

Outcomes == {"ok", "missing", "unexpected"}

Ended(w) == thread[w].pc \in Outcomes

Indexing == (\E rebuilt \in BOOLEAN : StartBuild(rebuilt)) \/ BuildStep \/ CutBuild

CacheNext ==
    \/ \E w \in Threads : (At(w, "idle") \/ Ended(w)) /\ Begin(w)
    \/ \E w \in Threads : SearchStep(w)
    \/ Indexing

CacheSpec == CacheInit /\ [][CacheNext]_cacheVars

-----------------------------------------------------------------------------
Retriever == [bm25 : Contents, conn : Connection \cup {NoConn}]

BuildPoints  == {"idle", "manifest-", "bm25-", "vector-", "open", "delete", "add", "bm25", "save",
                 "manifest", "last"}
SearchPoints == {"idle", "stat", "look", "load", "store", "connect", "assign", "schema", "answer"}
                \cup Outcomes

SearchState == [pc : SearchPoints, round : {1, 2}, stats : Seq(Contents), id : Nat,
            conn : Connection \cup {NoConn}, calm : BOOLEAN,
            began : {<<>>} \cup ((Contents \cup {Absent}) \X (Contents \cup {Absent})),
            found : {<<>>} \cup (Contents \X Contents)]

\* Nobody refers to a retriever that was freed.
CacheTypeOK ==
    /\ files \in [Range(Names) -> Contents \cup {Absent}]
    /\ build \in [pc : BuildPoints, n : 0 .. MaxBuilds]
    /\ cache \subseteq [key : Seq(Contents), id : DOMAIN heap]
    /\ heap \in [DOMAIN heap -> Retriever]
    /\ IsFiniteSet(DOMAIN heap) /\ DOMAIN heap \subseteq Nat \ {0}
    /\ thread \in [Threads -> SearchState]
    /\ \A w \in Threads : thread[w].id \in DOMAIN heap \cup {0}

\* The cache is invisible: a search during which no index file changes finds its
\* files, and answers from exactly what they hold, whoever loaded the retriever it
\* uses, however long ago, and whatever builds came or were cut short before.
CalmSearchIsExact ==
    \A w \in Threads : thread[w].calm =>
        /\ thread[w].found # <<>> => thread[w].found = <<files.bm25, files.vector>>
        /\ thread[w].pc = "missing" => \E f \in DOMAIN files : files[f] = Absent

\* A search never answers from an older index than the one that was there when the
\* search began, also while a build rewrites the files under it, from either half.
NeverOlder ==
    \A w \in Threads : thread[w].found # <<>> =>
        \A i \in {1, 2} : thread[w].began[i] # Absent =>
            Age(thread[w].found[i]) >= Age(thread[w].began[i])

\* One retriever per profile and index stays in memory: racing loads, and evictions
\* that raise half-way, never leave two entries in _RETRIEVER_CACHE.
OneCached == Cardinality(cache) <= 1

\* The order in which the files come and go for a search is the builds' order.
Presence(c) == IF c = Absent THEN "absent" ELSE IF Torn(c) THEN "torn" ELSE "whole"

Protocol == INSTANCE IndexFiles WITH
    file <- [f \in Range(Names) |-> Presence(files[f])], building <- Running

FilesProtocol == Protocol!Spec
=============================================================================
