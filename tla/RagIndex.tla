------------------------------- MODULE RagIndex -------------------------------
(***************************************************************************)
(* runnrr/rag/indexer.py: Indexer.build, which brings the three files of a *)
(* profile's index (index.sqlite, bm25.pkl, manifest.json) in line with    *)
(* the markdown files of its knowledge base.  The vector index commits     *)
(* each delete and each batch; the BM25 index is changed in memory and     *)
(* saved once; the manifest, which the next build compares with, is        *)
(* written last.  Nothing ties the three together: the process can die,    *)
(* or an exception can end the build, between any two of them, and the     *)
(* knowledge base can be edited meanwhile.                                 *)
(*                                                                         *)
(* A version stands for the content of a file and for its sha256; a chunk  *)
(* is known by its file and its line range, as chunk_id is.                *)
(***************************************************************************)
EXTENDS Naturals, Sequences

CONSTANTS
    Files,       \* markdown files the knowledge base can have
    Versions,    \* contents a file can have
    Ranges,      \* line ranges a chunk can have
    ChunksOf,    \* the line ranges chunk_markdown cuts a version into
    Embeddings,  \* (backend, model, dim) triples
    Absent,      \* no such file
    Torn,        \* a file whose writing was cut short
    MaxEdits,    \* bound: edits of the knowledge base
    MaxCuts      \* bound: builds that are cut short

ASSUME IndexAssumption ==
    /\ ChunksOf \in [Versions -> SUBSET Ranges]
    /\ Absent \notin Versions
    /\ Embeddings # {}
    /\ MaxEdits \in Nat /\ MaxCuts \in Nat

VARIABLES
    kb,       \* per file its version
    disk,     \* the three index files
    build,    \* the locals of the build under way (the scan counts as one step with Start)
    suspect,  \* history: files whose entries a cut or an edit may have spoilt
    edits, cuts

indexVars == <<kb, disk, build, suspect, edits, cuts>>

Listing == [Files -> Versions \cup {Absent}]
NoFiles == [f \in Files |-> Absent]
Keys    == Files \X Ranges
Rows    == [version : Versions, embedding : Embeddings]
Vectors == [Keys -> Rows \cup {Absent}]
Chunk   == [file : Files, lines : Ranges, version : Versions]
Corpus  == [Chunk -> Nat]     \* BM25Index.chunks: a list, hence copies count

NoVectors == [k \in Keys |-> Absent]
NoChunks  == [c \in Chunk |-> 0]

Manifests == [embedding : Embeddings, files : Listing]

\* A file that cannot be read has none of the contents of one that can, and a row that
\* is not there is none.
ASSUME FilesAssumption ==
    /\ Absent # Torn /\ Absent \notin Rows
    /\ \A x \in {Absent, Torn} : x \notin Manifests /\ x \notin Corpus /\ x \notin Vectors

Build == [pc : {"idle", "reset", "delete", "write", "bm25", "saved", "manifest"},
          embedding : Embeddings, rebuilt : BOOLEAN, unlink : Seq({"manifest", "bm25", "vector"}),
          old : Listing, seen : Listing, bm25 : Corpus, dels : SUBSET Files, todo : SUBSET Chunk]

Idle == [pc |-> "idle", embedding |-> CHOOSE e \in Embeddings : TRUE, rebuilt |-> FALSE,
         unlink |-> <<>>, old |-> NoFiles, seen |-> NoFiles, bm25 |-> NoChunks,
         dels |-> {}, todo |-> {}]

ChunksIn(f, v) == {[file |-> f, lines |-> r, version |-> v] : r \in ChunksOf[v]}

-----------------------------------------------------------------------------
(* compute_diff: what the scan found against the manifest built from.      *)
Removed(b)  == {f \in Files : b.old[f] # Absent /\ b.seen[f] = Absent}
Modified(b) == {f \in Files : b.old[f] # Absent /\ b.seen[f] \notin {Absent, b.old[f]}}
Added(b)    == {f \in Files : b.old[f] = Absent /\ b.seen[f] # Absent}
Changed(b)  == Added(b) \cup Modified(b)

Init ==
    /\ kb \in Listing
    /\ disk = [manifest |-> Absent, bm25 |-> Absent, vector |-> Absent]
    /\ build = Idle
    /\ suspect = {}
    /\ edits = 0 /\ cuts = 0

Edit(f, v) ==
    /\ edits < MaxEdits
    /\ v # kb[f]
    /\ kb' = [kb EXCEPT ![f] = v]
    /\ edits' = edits + 1
    /\ UNCHANGED <<disk, build, suspect, cuts>>

\* Fault variant: an index built with another embedding is updated in place.
MutNeedsRebuild(force, e) == force \/ Absent \in {disk.manifest, disk.bm25, disk.vector}

\* Fault variant: --force is not passed on.
MutIgnoreForce(force, e) ==
    \/ Absent \in {disk.manifest, disk.bm25, disk.vector}
    \/ disk.manifest.embedding # e

NeedsRebuild(force, e) ==
    \/ force
    \/ Absent \in {disk.manifest, disk.bm25, disk.vector}
    \/ disk.manifest.embedding # e

\* Fault variant: the files go in the order they are written in.
MutResetOrder(rebuilt) == IF rebuilt THEN <<"bm25", "vector", "manifest">> ELSE <<>>

\* The order in which _reset_index_files unlinks.
ResetOrder(rebuilt) == IF rebuilt THEN <<"manifest", "bm25", "vector">> ELSE <<>>

\* A manifest that does not parse stops every build, a pickle that does not load
\* stops an incremental one; neither attempt leaves a trace.
Start(force, e) ==
    LET rebuilt == NeedsRebuild(force, e)
    IN  /\ build.pc = "idle"
        /\ disk.manifest # Torn
        /\ ~rebuilt => disk.bm25 # Torn
        /\ build' = [Idle EXCEPT
                        !.pc = "reset", !.embedding = e, !.rebuilt = rebuilt, !.seen = kb,
                        !.old = IF rebuilt THEN NoFiles ELSE disk.manifest.files,
                        !.unlink = ResetOrder(rebuilt)]
        /\ UNCHANGED <<kb, disk, suspect, edits, cuts>>

\* _reset_index_files
Unlink ==
    /\ build.pc = "reset" /\ build.unlink # <<>>
    /\ disk' = [disk EXCEPT ![Head(build.unlink)] = Absent]
    /\ build' = [build EXCEPT !.unlink = Tail(@)]
    /\ UNCHANGED <<kb, suspect, edits, cuts>>

\* Fault variant: a file that shrank keeps the chunks it no longer has.
MutObsolete(b) == Removed(b)

Obsolete(b) == Modified(b) \cup Removed(b)

\* Fault variant: a rebuild loads the pickle it has just unlinked.
MutCorpus(rebuilt) == disk.bm25

\* _load_bm25, or a new index.
Corpus0(rebuilt) == IF rebuilt THEN NoChunks ELSE disk.bm25

\* What a build that does not reach its end leaves behind.
Abandon ==
    /\ build' = Idle
    /\ suspect' = suspect \cup {f \in Files : build.old[f] # build.seen[f]}

\* The BM25 index is loaded or begun, the vector schema created if need be.
Open ==
    /\ build.pc = "reset" /\ build.unlink = <<>>
    /\ disk' = [disk EXCEPT !.vector = IF @ = Absent THEN NoVectors ELSE @]
    /\ build' = [build EXCEPT !.pc = "delete", !.bm25 = Corpus0(build.rebuilt),
                              !.dels = Obsolete(build)]
    /\ suspect' = IF build.rebuilt THEN {} ELSE suspect
    /\ UNCHANGED <<kb, edits, cuts>>

\* delete_by_path in both indexes; the vector index commits.
Delete(f) ==
    /\ build.pc = "delete" /\ f \in build.dels
    /\ disk' = [disk EXCEPT !.vector = [k \in Keys |-> IF k[1] = f THEN Absent ELSE @[k]]]
    /\ build' = [build EXCEPT !.dels = @ \ {f},
                              !.bm25 = [c \in Chunk |-> IF c.file = f THEN 0 ELSE @[c]]]
    /\ suspect' = suspect \ {f}
    /\ UNCHANGED <<kb, edits, cuts>>

\* _chunk_changed_files reads what the files hold now, not what the scan hashed.
Read ==
    /\ build.pc = "delete" /\ build.dels = {}
    /\ \A f \in Changed(build) : kb[f] # Absent
    /\ build' = [build EXCEPT !.pc = "write",
                              !.todo = UNION {ChunksIn(f, kb[f]) : f \in Changed(build)}]
    /\ suspect' = suspect \cup {f \in Changed(build) : kb[f] # build.seen[f]}
    /\ UNCHANGED <<kb, disk, edits, cuts>>

\* A changed file is gone by the time it is read: the build ends there.
ReadFails ==
    /\ build.pc = "delete" /\ build.dels = {}
    /\ \E f \in Changed(build) : kb[f] = Absent
    /\ Abandon
    /\ UNCHANGED <<kb, disk, edits, cuts>>

\* A batch of one file's chunks is embedded, committed, and added to the corpus.
Write(f, batch) ==
    /\ build.pc = "write"
    /\ batch # {} /\ \A c \in batch : c.file = f
    /\ disk' = [disk EXCEPT !.vector =
                  [k \in Keys |->
                     IF \E c \in batch : k = <<c.file, c.lines>>
                     THEN [version |-> (CHOOSE c \in batch : k = <<c.file, c.lines>>).version,
                           embedding |-> build.embedding]
                     ELSE @[k]]]
    /\ build' = [build EXCEPT !.todo = @ \ batch,
                              !.bm25 = [c \in Chunk |-> IF c \in batch THEN @[c] + 1 ELSE @[c]]]
    /\ UNCHANGED <<kb, suspect, edits, cuts>>

\* open("wb") empties bm25.pkl before the pickle is written.
BeginBm25 ==
    /\ build.pc = "write" /\ build.todo = {}
    /\ disk' = [disk EXCEPT !.bm25 = Torn]
    /\ build' = [build EXCEPT !.pc = "bm25"]
    /\ UNCHANGED <<kb, suspect, edits, cuts>>

EndBm25 ==
    /\ build.pc = "bm25"
    /\ disk' = [disk EXCEPT !.bm25 = build.bm25]
    /\ build' = [build EXCEPT !.pc = "saved"]
    /\ UNCHANGED <<kb, suspect, edits, cuts>>

\* So does write_text with manifest.json.
BeginManifest ==
    /\ build.pc = "saved"
    /\ disk' = [disk EXCEPT !.manifest = Torn]
    /\ build' = [build EXCEPT !.pc = "manifest"]
    /\ UNCHANGED <<kb, suspect, edits, cuts>>

EndManifest ==
    /\ build.pc = "manifest"
    /\ disk' = [disk EXCEPT !.manifest = [embedding |-> build.embedding, files |-> build.seen]]
    /\ build' = Idle
    /\ UNCHANGED <<kb, suspect, edits, cuts>>

\* The process dies, a disk is full or the embedding service fails.
Cut ==
    /\ build.pc # "idle" /\ cuts < MaxCuts
    /\ Abandon
    /\ cuts' = cuts + 1
    /\ UNCHANGED <<kb, disk, edits>>

BuildStep ==
    \/ Unlink
    \/ Open
    \/ \E f \in Files : Delete(f)
    \/ Read
    \/ ReadFails
    \/ \E f \in Files : \E batch \in SUBSET build.todo : Write(f, batch)
    \/ BeginBm25
    \/ EndBm25
    \/ BeginManifest
    \/ EndManifest

Next ==
    \/ \E f \in Files, v \in Versions \cup {Absent} : Edit(f, v)
    \/ \E force \in BOOLEAN, e \in Embeddings : Start(force, e)
    \/ BuildStep
    \/ Cut

Spec == Init /\ [][Next]_indexVars

\* A build that is not cut goes on; the operator runs `build --force` now and then.
Forced   == \E e \in Embeddings : Start(TRUE, e)
FairSpec == Spec /\ WF_indexVars(BuildStep) /\ SF_indexVars(Forced)

-----------------------------------------------------------------------------
\* The types of the knowledge base, the three files and the build's locals.
TypeOK ==
    /\ kb \in Listing
    /\ disk \in [manifest : Manifests \cup {Absent, Torn}, bm25 : Corpus \cup {Absent, Torn},
                 vector : Vectors \cup {Absent}]
    /\ build \in Build
    /\ suspect \subseteq Files
    /\ edits \in 0 .. MaxEdits /\ cuts \in 0 .. MaxCuts

Readable == {disk.manifest, disk.bm25, disk.vector} \cap {Absent, Torn} = {}

\* What both indexes hold of a file is the chunks of one version, each once.
Holds(f, v) ==
    LET chunks == IF v = Absent THEN {} ELSE ChunksIn(f, v)
    IN  /\ \A c \in Chunk : c.file = f => disk.bm25[c] = IF c \in chunks THEN 1 ELSE 0
        /\ \A r \in Ranges :
             LET row == disk.vector[<<f, r>>]
             IN  IF row = Absent THEN \A c \in chunks : c.lines # r
                                 ELSE \E c \in chunks : c.lines = r /\ c.version = row.version

\* Between builds the BM25 and the vector index hold, of every file, exactly the
\* chunks of the version the manifest lists (Indexer.build's deletes and writes),
\* unless the file is suspect: a build that was cut short had found it changed, or
\* it was edited between scan and read, and no build has deleted its chunks since.
IndexMatchesManifest ==
    build.pc = "idle" /\ Readable =>
        \A f \in Files \ suspect : Holds(f, disk.manifest.files[f])

\* Whoever reads the index while its manifest is there, also during a build or
\* after one that was cut short, finds vectors of the manifest's embedding only
\* (the rebuild on a change of embedding unlinks the manifest first).
OneEmbedding ==
    disk.manifest \notin {Absent, Torn} /\ disk.vector # Absent =>
        \A k \in Keys : disk.vector[k] # Absent =>
            disk.vector[k].embedding = disk.manifest.embedding

FileState(f) ==
    IF disk[f] = Absent THEN "absent" ELSE IF disk[f] = Torn THEN "torn" ELSE "whole"

View == [f \in {"manifest", "bm25", "vector"} |-> FileState(f)]

Protocol == INSTANCE IndexFiles WITH file <- View, building <- build.pc # "idle"

\* Every step of a build, and every way it can end, follows the order of the three
\* files that their readers rely on (IndexFiles): the manifest goes first and comes last.
FilesProtocol == Protocol!Spec

\* _stale_from_state, as info reports it.
IsStale(e) ==
    \/ Absent \in {disk.manifest, disk.bm25, disk.vector}
    \/ disk.manifest.embedding # e
    \/ disk.manifest.files # kb

Exact == Readable /\ \A f \in Files : Holds(f, kb[f])

\* Once edits and failures cease, forced builds always come back to an index of
\* exactly what the knowledge base holds (`build --force`), unless a cut has left
\* a manifest that does not parse, which not even a forced build gets past.
ForceRepairs == []<>(build.pc = "idle" /\ (Exact \/ disk.manifest = Torn))

\* "index is current" (rag/indexer.py:203): an index that is not reported stale
\* holds the knowledge base.  It does not: see the run current_index.
CurrentIndexIsExact ==
    build.pc = "idle" /\ Readable =>
        \A e \in Embeddings : ~IsStale(e) => Exact
=============================================================================
