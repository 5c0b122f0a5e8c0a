--------------------------- MODULE RagIndex_proofs ---------------------------
(***************************************************************************)
(* Proofs about the build of an index, for any files, versions, chunkings, *)
(* embeddings, edits and cuts: typing, one embedding per index, the order  *)
(* of the three files that readers rely on, and that the indexes hold what *)
(* the manifest lists.                                                     *)
(***************************************************************************)
EXTENDS RagIndex, TLAPS

(***************************************************************************)
(* The inductive invariant.  While the files of a rebuild go, the manifest *)
(* is the first to be gone; a build that does not rebuild has found all    *)
(* three whole, and of its own embedding.  Once it writes, the vectors are *)
(* of the build's embedding only, and a manifest that is still there is.   *)
(***************************************************************************)
Unlinks == {<<>>, <<"vector">>, <<"bm25", "vector">>, <<"manifest", "bm25", "vector">>}

Updating ==
    build.pc = "reset" /\ ~build.rebuilt =>
        /\ build.unlink = <<>>
        /\ disk.bm25 \in Corpus /\ disk.vector \in Vectors /\ disk.manifest \in Manifests
        /\ disk.manifest.embedding = build.embedding

Resetting ==
    build.pc = "reset" /\ build.rebuilt =>
        /\ build.unlink \in Unlinks
        /\ build.unlink # <<"manifest", "bm25", "vector">> => disk.manifest = Absent
        /\ build.unlink = <<>> => disk.vector = Absent

AllOf(e) == \A k \in Keys : disk.vector[k] # Absent => disk.vector[k].embedding = e

Writing ==
    build.pc \in {"delete", "write", "bm25", "saved", "manifest"} =>
        /\ disk.vector \in Vectors
        /\ AllOf(build.embedding)
        /\ disk.manifest \in Manifests => disk.manifest.embedding = build.embedding
        /\ build.pc = "bm25" => disk.bm25 = Torn
        /\ build.pc \in {"saved", "manifest"} => disk.bm25 \in Corpus
        /\ disk.manifest = Torn <=> build.pc = "manifest"

IInv == TypeOK /\ Updating /\ Resetting /\ Writing /\ OneEmbedding

-----------------------------------------------------------------------------
(* Typing of what the actions are built from.                              *)

LEMMA IdleIsTyped == Idle \in Build /\ Idle.pc = "idle"
<1>1. (CHOOSE e \in Embeddings : TRUE) \in Embeddings
  BY IndexAssumption
<1>2. NoFiles \in Listing /\ NoChunks \in Corpus
  BY DEF NoFiles, Listing, NoChunks, Corpus
<1> QED
  BY <1>1, <1>2 DEF Idle, Build

LEMMA NoVectorsIsTyped == NoVectors \in Vectors /\ \A k \in Keys : NoVectors[k] = Absent
BY DEF NoVectors, Vectors, Rows

LEMMA ChunksAreTyped ==
    ASSUME NEW f \in Files, NEW v \in Versions
    PROVE  ChunksIn(f, v) \subseteq Chunk
BY IndexAssumption DEF ChunksIn, Chunk

\* What a build can tell apart: files it cannot read from contents.
LEMMA ContentsAreNoGaps ==
    /\ Absent # Torn
    /\ Absent \notin Manifests /\ Torn \notin Manifests
    /\ Absent \notin Corpus /\ Torn \notin Corpus
    /\ Absent \notin Vectors /\ Torn \notin Vectors
BY FilesAssumption

\* Steps that change neither the files nor the build keep the invariant.
LEMMA QuietKeeps ==
    ASSUME IInv, UNCHANGED <<disk, build>>,
           kb' \in Listing, suspect' \subseteq Files, edits' \in 0 .. MaxEdits, cuts' \in 0 .. MaxCuts
    PROVE  IInv'
BY DEF IInv, TypeOK, Updating, Resetting, Writing, OneEmbedding, AllOf

\* A build that is left keeps it too, however it ends.
LEMMA AbandonKeeps ==
    ASSUME IInv, Abandon, UNCHANGED <<kb, disk>>, edits' = edits, cuts' \in 0 .. MaxCuts
    PROVE  IInv'
<1>1. build' = Idle /\ build'.pc = "idle" /\ build' \in Build
  BY IdleIsTyped DEF Abandon
<1>2. suspect' \subseteq Files
  BY DEF Abandon, IInv, TypeOK
<1> QED
  BY <1>1, <1>2 DEF IInv, TypeOK, Updating, Resetting, Writing, OneEmbedding

-----------------------------------------------------------------------------
(* The actions, one by one.                                                *)

LEMMA InitIsGood == Init => IInv
<1> SUFFICES ASSUME Init PROVE IInv
  OBVIOUS
<1>1. build = Idle /\ build.pc = "idle" /\ build \in Build
  BY IdleIsTyped DEF Init
<1>2. 0 \in 0 .. MaxEdits /\ 0 \in 0 .. MaxCuts
  BY IndexAssumption
<1> QED
  BY <1>1, <1>2 DEF Init, IInv, TypeOK, Updating, Resetting, Writing, OneEmbedding

LEMMA EditKeeps ==
    ASSUME IInv, NEW f \in Files, NEW v \in Versions \cup {Absent}, Edit(f, v)
    PROVE  IInv'
<1>1. kb' \in Listing /\ edits' \in 0 .. MaxEdits
  BY IndexAssumption DEF IInv, TypeOK, Edit, Listing
<1> QED
  BY <1>1, QuietKeeps DEF Edit, IInv, TypeOK

LEMMA StartKeeps ==
    ASSUME IInv, NEW force \in BOOLEAN, NEW e \in Embeddings, Start(force, e)
    PROVE  IInv'
<1> DEFINE rebuilt == NeedsRebuild(force, e)
<1>1. /\ build'.pc = "reset" /\ build'.rebuilt = rebuilt /\ build'.embedding = e
      /\ build'.unlink = ResetOrder(rebuilt)
  BY IdleIsTyped DEF Start, Build
<1>2. UNCHANGED <<kb, disk, suspect, edits, cuts>>
  BY DEF Start
<1>3. rebuilt \in BOOLEAN
  BY DEF NeedsRebuild
<1>4. ~rebuilt => /\ disk.bm25 \in Corpus /\ disk.vector \in Vectors /\ disk.manifest \in Manifests
                  /\ disk.manifest.embedding = e
  BY DEF Start, NeedsRebuild, IInv, TypeOK
<1>5. ResetOrder(rebuilt) \in Seq({"manifest", "bm25", "vector"})
  <2> DEFINE files == {"manifest", "bm25", "vector"}
  <2>1. <<"manifest", "bm25", "vector">> \in Seq(files)
    OBVIOUS
  <2>2. <<>> \in Seq(files)
    OBVIOUS
  <2> QED
    BY <2>1, <2>2 DEF ResetOrder
<1>6. (IF rebuilt THEN NoFiles ELSE disk.manifest.files) \in Listing
  BY <1>4 DEF NoFiles, Listing, Manifests
<1>7. build' \in Build
  BY <1>3, <1>5, <1>6, IdleIsTyped DEF Start, Build, IInv, TypeOK
<1>8. TypeOK'
  BY <1>2, <1>7 DEF IInv, TypeOK
<1>9. Updating'
  BY <1>1, <1>2, <1>4 DEF Updating, ResetOrder
<1>10. Resetting'
  BY <1>1, <1>2 DEF Resetting, ResetOrder, Unlinks
<1>11. Writing' /\ OneEmbedding'
  BY <1>1, <1>2 DEF Writing, OneEmbedding, IInv
<1> QED
  BY <1>8, <1>9, <1>10, <1>11 DEF IInv

\* The files of a rebuild go one by one.
LEMMA UnlinkOrder ==
    /\ Head(<<"manifest", "bm25", "vector">>) = "manifest"
    /\ Tail(<<"manifest", "bm25", "vector">>) = <<"bm25", "vector">>
    /\ Head(<<"bm25", "vector">>) = "bm25" /\ Tail(<<"bm25", "vector">>) = <<"vector">>
    /\ Head(<<"vector">>) = "vector" /\ Tail(<<"vector">>) = <<>>
<1>1. Head(<<"manifest", "bm25", "vector">>) = "manifest"
  OBVIOUS
<1>2. Tail(<<"manifest", "bm25", "vector">>) = <<"bm25", "vector">>
  OBVIOUS
<1>3. Head(<<"bm25", "vector">>) = "bm25" /\ Head(<<"vector">>) = "vector"
  OBVIOUS
<1>4. Tail(<<"bm25", "vector">>) = <<"vector">>
  OBVIOUS
<1>5. Tail(<<"vector">>) = <<>>
  OBVIOUS
<1> QED
  BY <1>1, <1>2, <1>3, <1>4, <1>5

LEMMA UnlinkKeeps ==
    ASSUME IInv, Unlink
    PROVE  IInv'
<1> DEFINE files == {"manifest", "bm25", "vector"}
<1>1. build.rebuilt /\ build.pc = "reset" /\ build.unlink \in Unlinks \ {<<>>}
  BY DEF Unlink, IInv, TypeOK, Build, Updating, Resetting
<1>2. /\ build' = [build EXCEPT !.unlink = Tail(build.unlink)]
      /\ disk' = [disk EXCEPT ![Head(build.unlink)] = Absent]
      /\ UNCHANGED <<kb, suspect, edits, cuts>>
  BY DEF Unlink
<1>3. build' = [build EXCEPT !.unlink = build'.unlink] /\ build'.unlink = Tail(build.unlink)
  BY <1>2 DEF IInv, TypeOK, Build
<1>4. build'.pc = "reset" /\ build'.rebuilt
  BY <1>1, <1>2 DEF IInv, TypeOK, Build
<1>5. ASSUME build'.unlink \in Seq(files)
      PROVE  build' \in Build
  BY <1>3, <1>5 DEF IInv, TypeOK, Build
<1>6. CASE build.unlink = <<"manifest", "bm25", "vector">>
  <2>1. build'.unlink = <<"bm25", "vector">> /\ disk' = [disk EXCEPT !.manifest = Absent]
    BY <1>2, <1>3, <1>6, UnlinkOrder
  <2>2. build'.unlink \in Seq(files) /\ build'.unlink \in Unlinks /\ build'.unlink # <<>>
    BY <2>1 DEF Unlinks
  <2>3. disk'.manifest = Absent
    BY <2>1 DEF IInv, TypeOK
  <2>4. TypeOK'
    BY <1>2, <1>5, <2>1, <2>2 DEF IInv, TypeOK
  <2> QED
    BY <1>4, <2>2, <2>3, <2>4 DEF IInv, Updating, Resetting, Writing, OneEmbedding
<1>7. CASE build.unlink = <<"bm25", "vector">>
  <2>1. build'.unlink = <<"vector">> /\ disk' = [disk EXCEPT !.bm25 = Absent]
    BY <1>2, <1>3, <1>7, UnlinkOrder
  <2>2. build'.unlink \in Seq(files) /\ build'.unlink \in Unlinks /\ build'.unlink # <<>>
    BY <2>1 DEF Unlinks
  <2>3. disk.manifest = Absent
    BY <1>1, <1>7 DEF IInv, Resetting
  <2>4. disk'.manifest = Absent
    BY <2>1, <2>3 DEF IInv, TypeOK
  <2>5. TypeOK'
    BY <1>2, <1>5, <2>1, <2>2 DEF IInv, TypeOK
  <2> QED
    BY <1>4, <2>2, <2>4, <2>5 DEF IInv, Updating, Resetting, Writing, OneEmbedding
<1>8. CASE build.unlink = <<"vector">>
  <2>1. build'.unlink = <<>> /\ disk' = [disk EXCEPT !.vector = Absent]
    BY <1>2, <1>3, <1>8, UnlinkOrder
  <2>2. build'.unlink \in Seq(files) /\ build'.unlink \in Unlinks
    BY <2>1 DEF Unlinks
  <2>3. disk.manifest = Absent
    BY <1>1, <1>8 DEF IInv, Resetting
  <2>4. disk'.manifest = Absent /\ disk'.vector = Absent
    BY <2>1, <2>3 DEF IInv, TypeOK
  <2>5. TypeOK'
    BY <1>2, <1>5, <2>1, <2>2 DEF IInv, TypeOK
  <2> QED
    BY <1>4, <2>2, <2>4, <2>5 DEF IInv, Updating, Resetting, Writing, OneEmbedding
<1> QED
  BY <1>1, <1>6, <1>7, <1>8 DEF Unlinks

LEMMA OpenKeeps ==
    ASSUME IInv, Open
    PROVE  IInv'
<1>1. /\ build.pc = "reset" /\ build.unlink = <<>>
      /\ disk' = [disk EXCEPT !.vector = IF @ = Absent THEN NoVectors ELSE @]
      /\ UNCHANGED <<kb, edits, cuts>>
  BY DEF Open
<1>2. Corpus0(build.rebuilt) \in Corpus
  BY <1>1 DEF Corpus0, NoChunks, Corpus, IInv, TypeOK, Build, Updating
<1>3. Obsolete(build) \subseteq Files
  BY DEF Obsolete, Modified, Removed
<1>4. build' = [build EXCEPT !.pc = "delete", !.bm25 = Corpus0(build.rebuilt), !.dels = Obsolete(build)]
  BY DEF Open
<1>5. build' \in Build /\ build'.pc = "delete" /\ build'.embedding = build.embedding
  BY <1>2, <1>3, <1>4 DEF IInv, TypeOK, Build
<1>6. suspect' \subseteq Files
  BY DEF Open, IInv, TypeOK
<1>7. TypeOK'
  BY <1>1, <1>5, <1>6, NoVectorsIsTyped DEF IInv, TypeOK
<1>8. disk'.vector \in Vectors /\ disk'.manifest = disk.manifest
  BY <1>1, NoVectorsIsTyped DEF IInv, TypeOK
<1>9. disk.manifest # Torn /\ (disk.manifest \in Manifests => disk.manifest.embedding = build.embedding)
  BY <1>1, ContentsAreNoGaps DEF IInv, TypeOK, Build, Updating, Resetting
<1>10. ASSUME NEW k \in Keys, disk'.vector[k] # Absent
       PROVE  disk'.vector[k].embedding = build.embedding
  <2>1. disk.vector # Absent /\ disk'.vector = disk.vector
    BY <1>1, <1>10, NoVectorsIsTyped DEF IInv, TypeOK
  <2>2. ~build.rebuilt
    BY <1>1, <2>1 DEF IInv, TypeOK, Build, Resetting
  <2>3. disk.manifest \in Manifests /\ disk.manifest.embedding = build.embedding
    BY <1>1, <2>2 DEF IInv, Updating
  <2> QED
    BY <1>10, <2>1, <2>3, ContentsAreNoGaps DEF IInv, OneEmbedding
<1>11. Writing'
  BY <1>5, <1>8, <1>9, <1>10 DEF Writing, AllOf
<1>12. OneEmbedding'
  BY <1>7, <1>8, <1>9, <1>10 DEF OneEmbedding, TypeOK
<1> QED
  BY <1>5, <1>7, <1>11, <1>12 DEF IInv, Updating, Resetting

\* A step of a build that writes vectors: it leaves the two other files and its own
\* embedding alone.
LEMMA VectorStepKeeps ==
    ASSUME IInv, NEW pc \in {"delete", "write"}, build.pc = pc, TypeOK',
           build'.pc \in {"delete", "write"}, build'.embedding = build.embedding,
           disk'.vector \in Vectors, disk'.manifest = disk.manifest,
           \A k \in Keys : disk'.vector[k] # Absent => disk'.vector[k].embedding = build.embedding
    PROVE  IInv'
<1>1. Writing'
  BY DEF IInv, Writing, AllOf
<1>2. OneEmbedding'
  BY DEF IInv, TypeOK, Writing, OneEmbedding
<1> QED
  BY <1>1, <1>2 DEF IInv, Updating, Resetting

LEMMA DeleteKeeps ==
    ASSUME IInv, NEW f \in Files, Delete(f)
    PROVE  IInv'
<1>1. /\ build.pc = "delete"
      /\ disk' = [disk EXCEPT !.vector = [k \in Keys |-> IF k[1] = f THEN Absent ELSE @[k]]]
      /\ build' = [build EXCEPT !.dels = @ \ {f},
                                !.bm25 = [c \in Chunk |-> IF c.file = f THEN 0 ELSE @[c]]]
      /\ UNCHANGED <<kb, edits, cuts>>
  BY DEF Delete
<1>2. disk.vector \in Vectors /\ AllOf(build.embedding)
  BY <1>1 DEF IInv, Writing
<1>3. /\ disk'.vector = [k \in Keys |-> IF k[1] = f THEN Absent ELSE disk.vector[k]]
      /\ disk'.manifest = disk.manifest
  BY <1>1 DEF IInv, TypeOK
<1>4. disk'.vector \in Vectors
  BY <1>2, <1>3 DEF Vectors
<1>5. \A k \in Keys : disk'.vector[k] # Absent => disk'.vector[k].embedding = build.embedding
  BY <1>2, <1>3 DEF AllOf
<1>6. [c \in Chunk |-> IF c.file = f THEN 0 ELSE build.bm25[c]] \in Corpus
  BY DEF IInv, TypeOK, Build, Corpus
<1>7. build' \in Build /\ build'.pc = "delete" /\ build'.embedding = build.embedding
  BY <1>1, <1>6 DEF IInv, TypeOK, Build
<1>8. TypeOK'
  BY <1>1, <1>3, <1>4, <1>7 DEF Delete, IInv, TypeOK
<1> QED
  BY <1>1, <1>3, <1>4, <1>5, <1>7, <1>8, VectorStepKeeps

LEMMA ReadKeeps ==
    ASSUME IInv, Read
    PROVE  IInv'
<1>1. /\ build.pc = "delete"
      /\ build' = [build EXCEPT !.pc = "write",
                                !.todo = UNION {ChunksIn(f, kb[f]) : f \in Changed(build)}]
      /\ UNCHANGED <<kb, disk, edits, cuts>>
  BY DEF Read
<1>2. UNION {ChunksIn(f, kb[f]) : f \in Changed(build)} \subseteq Chunk
  <2> SUFFICES ASSUME NEW f \in Changed(build) PROVE ChunksIn(f, kb[f]) \subseteq Chunk
    OBVIOUS
  <2>1. f \in Files /\ kb[f] \in Versions
    BY DEF Changed, Added, Modified, Read, IInv, TypeOK, Listing
  <2> QED
    BY <2>1, ChunksAreTyped
<1>3. build' \in Build /\ build'.pc = "write" /\ build'.embedding = build.embedding
  BY <1>1, <1>2 DEF IInv, TypeOK, Build
<1>4. suspect' \subseteq Files
  BY DEF Read, IInv, TypeOK, Changed, Added, Modified
<1>5. TypeOK'
  BY <1>1, <1>3, <1>4 DEF IInv, TypeOK
<1>6. disk.vector \in Vectors /\ AllOf(build.embedding)
  BY <1>1 DEF IInv, Writing
<1> QED
  BY <1>1, <1>3, <1>5, <1>6, VectorStepKeeps DEF AllOf

LEMMA WriteKeeps ==
    ASSUME IInv, NEW f \in Files, NEW batch \in SUBSET build.todo, Write(f, batch)
    PROVE  IInv'
<1> DEFINE Hit(k) == \E c \in batch : k = <<c.file, c.lines>>
           Row(k) == [version |-> (CHOOSE c \in batch : k = <<c.file, c.lines>>).version,
                      embedding |-> build.embedding]
<1>1. /\ build.pc = "write"
      /\ disk' = [disk EXCEPT !.vector = [k \in Keys |-> IF Hit(k) THEN Row(k) ELSE @[k]]]
      /\ build' = [build EXCEPT !.todo = @ \ batch,
                                !.bm25 = [c \in Chunk |-> IF c \in batch THEN @[c] + 1 ELSE @[c]]]
      /\ UNCHANGED <<kb, suspect, edits, cuts>>
  BY DEF Write
<1>2. disk.vector \in Vectors /\ AllOf(build.embedding)
  BY <1>1 DEF IInv, Writing
<1>3. batch \subseteq Chunk /\ build.embedding \in Embeddings
  BY DEF IInv, TypeOK, Build
<1>4. ASSUME NEW k \in Keys, Hit(k)
      PROVE  Row(k) \in Rows /\ Row(k).embedding = build.embedding
  <2>1. (CHOOSE c \in batch : k = <<c.file, c.lines>>) \in batch
    BY <1>4
  <2> QED
    BY <1>3, <2>1 DEF Chunk, Rows
<1> HIDE DEF Hit, Row
<1>5. /\ disk'.vector = [k \in Keys |-> IF Hit(k) THEN Row(k) ELSE disk.vector[k]]
      /\ disk'.manifest = disk.manifest
  BY <1>1 DEF IInv, TypeOK
<1>6. disk'.vector \in Vectors
  BY <1>2, <1>4, <1>5 DEF Vectors
<1>7. \A k \in Keys : disk'.vector[k] # Absent => disk'.vector[k].embedding = build.embedding
  BY <1>2, <1>4, <1>5 DEF AllOf
<1>8. [c \in Chunk |-> IF c \in batch THEN build.bm25[c] + 1 ELSE build.bm25[c]] \in Corpus
  BY DEF IInv, TypeOK, Build, Corpus
<1>9. build' \in Build /\ build'.pc = "write" /\ build'.embedding = build.embedding
  BY <1>1, <1>8 DEF IInv, TypeOK, Build
<1>10. TypeOK'
  BY <1>1, <1>6, <1>9 DEF IInv, TypeOK
<1> QED
  BY <1>1, <1>5, <1>7, <1>6, <1>9, <1>10, VectorStepKeeps

LEMMA BeginBm25Keeps ==
    ASSUME IInv, BeginBm25
    PROVE  IInv'
<1>1. /\ build.pc = "write"
      /\ disk' = [disk EXCEPT !.bm25 = Torn] /\ build' = [build EXCEPT !.pc = "bm25"]
      /\ UNCHANGED <<kb, suspect, edits, cuts>>
  BY DEF BeginBm25
<1>2. /\ build' \in Build /\ build'.pc = "bm25" /\ build'.embedding = build.embedding
      /\ disk'.bm25 = Torn /\ disk'.manifest = disk.manifest /\ disk'.vector = disk.vector
  BY <1>1 DEF IInv, TypeOK, Build
<1>3. TypeOK'
  BY <1>1, <1>2 DEF IInv, TypeOK
<1>4. Writing'
  BY <1>1, <1>2 DEF IInv, Writing, AllOf
<1> QED
  BY <1>2, <1>3, <1>4 DEF IInv, Updating, Resetting, OneEmbedding

LEMMA EndBm25Keeps ==
    ASSUME IInv, EndBm25
    PROVE  IInv'
<1>1. /\ build.pc = "bm25"
      /\ disk' = [disk EXCEPT !.bm25 = build.bm25] /\ build' = [build EXCEPT !.pc = "saved"]
      /\ UNCHANGED <<kb, suspect, edits, cuts>>
  BY DEF EndBm25
<1>2. /\ build' \in Build /\ build'.pc = "saved" /\ build'.embedding = build.embedding
      /\ disk'.bm25 \in Corpus /\ disk'.manifest = disk.manifest /\ disk'.vector = disk.vector
  BY <1>1 DEF IInv, TypeOK, Build
<1>3. TypeOK'
  BY <1>1, <1>2 DEF IInv, TypeOK
<1>4. Writing'
  BY <1>1, <1>2 DEF IInv, Writing, AllOf
<1> QED
  BY <1>2, <1>3, <1>4 DEF IInv, Updating, Resetting, OneEmbedding

LEMMA BeginManifestKeeps ==
    ASSUME IInv, BeginManifest
    PROVE  IInv'
<1>1. /\ build.pc = "saved"
      /\ disk' = [disk EXCEPT !.manifest = Torn] /\ build' = [build EXCEPT !.pc = "manifest"]
      /\ UNCHANGED <<kb, suspect, edits, cuts>>
  BY DEF BeginManifest
<1>2. /\ build' \in Build /\ build'.pc = "manifest" /\ build'.embedding = build.embedding
      /\ disk'.manifest = Torn /\ disk'.bm25 = disk.bm25 /\ disk'.vector = disk.vector
  BY <1>1 DEF IInv, TypeOK, Build
<1>3. TypeOK'
  BY <1>1, <1>2 DEF IInv, TypeOK
<1>4. Writing'
  BY <1>1, <1>2, ContentsAreNoGaps DEF IInv, Writing, AllOf
<1> QED
  BY <1>2, <1>3, <1>4 DEF IInv, Updating, Resetting, OneEmbedding

LEMMA EndManifestKeeps ==
    ASSUME IInv, EndManifest
    PROVE  IInv'
<1> DEFINE m == [embedding |-> build.embedding, files |-> build.seen]
<1>1. /\ build.pc = "manifest"
      /\ disk' = [disk EXCEPT !.manifest = m] /\ build' = Idle
      /\ UNCHANGED <<kb, suspect, edits, cuts>>
  BY DEF EndManifest
<1>2. m \in Manifests /\ m.embedding = build.embedding
  BY DEF IInv, TypeOK, Build, Manifests
<1> HIDE DEF m
<1>3. disk'.manifest = m /\ disk'.vector = disk.vector
  BY <1>1 DEF IInv, TypeOK
<1>4. TypeOK'
  BY <1>1, <1>2, IdleIsTyped DEF IInv, TypeOK
<1>5. OneEmbedding'
  BY <1>1, <1>2, <1>3 DEF IInv, Writing, AllOf, OneEmbedding
<1> QED
  BY <1>1, <1>4, <1>5, IdleIsTyped DEF IInv, Updating, Resetting, Writing

LEMMA NextKeeps ==
    ASSUME IInv, [Next]_indexVars
    PROVE  IInv'
<1>1. ASSUME NEW f \in Files, NEW v \in Versions \cup {Absent}, Edit(f, v) PROVE IInv'
  BY <1>1, EditKeeps
<1>2. ASSUME NEW force \in BOOLEAN, NEW e \in Embeddings, Start(force, e) PROVE IInv'
  BY <1>2, StartKeeps
<1>3. ASSUME NEW f \in Files, Delete(f) PROVE IInv'
  BY <1>3, DeleteKeeps
<1>4. ASSUME NEW f \in Files, NEW batch \in SUBSET build.todo, Write(f, batch) PROVE IInv'
  BY <1>4, WriteKeeps
<1>5. CASE ReadFails
  BY <1>5, AbandonKeeps DEF ReadFails, IInv, TypeOK
<1>6. CASE Cut
  <2>1. cuts + 1 \in 0 .. MaxCuts
    BY <1>6, IndexAssumption DEF Cut, IInv, TypeOK
  <2> QED
    BY <1>6, <2>1, AbandonKeeps DEF Cut
<1>7. CASE UNCHANGED indexVars
  BY <1>7, QuietKeeps DEF indexVars, IInv, TypeOK
<1> QED
  BY <1>1, <1>2, <1>3, <1>4, <1>5, <1>6, <1>7, UnlinkKeeps, OpenKeeps, ReadKeeps,
     BeginBm25Keeps, EndBm25Keeps, BeginManifestKeeps, EndManifestKeeps DEF Next, BuildStep

LEMMA Inductive == Spec => []IInv
BY InitIsGood, NextKeeps, PTL DEF Spec

-----------------------------------------------------------------------------
\* The knowledge base, the three files and the locals of a build keep their types,
\* whatever is edited and wherever builds are cut (Indexer.build).
THEOREM TypeCorrect == Spec => []TypeOK
BY Inductive, PTL DEF IInv

\* While there is a manifest, the vector index holds vectors of its embedding only:
\* a change of embedding rebuilds, and a rebuild unlinks the manifest first
\* (_needs_rebuild, _reset_index_files).
THEOREM OneEmbeddingHolds == Spec => []OneEmbedding
BY Inductive, PTL DEF IInv

-----------------------------------------------------------------------------
(* What a reader of the files sees of each action.                         *)

LEMMA ViewOfFiles ==
    ASSUME IInv
    PROVE  /\ View["manifest"] = IF disk.manifest = Absent THEN "absent"
                                 ELSE IF disk.manifest = Torn THEN "torn" ELSE "whole"
           /\ View["bm25"] = IF disk.bm25 = Absent THEN "absent"
                             ELSE IF disk.bm25 = Torn THEN "torn" ELSE "whole"
           /\ View["vector"] = IF disk.vector = Absent THEN "absent" ELSE "whole"
BY ContentsAreNoGaps DEF View, FileState, IInv, TypeOK

\* A step that changes one of the files, as its readers see it.
LEMMA OneFileChanges ==
    ASSUME NEW f \in {"manifest", "bm25", "vector"}, NEW state,
           \A g \in {"manifest", "bm25", "vector"} \ {f} : disk'[g] = disk[g],
           FileState(f)' = state
    PROVE  View' = [View EXCEPT ![f] = state]
BY DEF View, FileState

LEMMA NoFileChanges ==
    ASSUME disk' = disk
    PROVE  View' = View
BY DEF View, FileState

LEMMA InitMaps == Init => Protocol!Init
<1> SUFFICES ASSUME Init PROVE Protocol!Init
  OBVIOUS
<1>1. View = [f \in {"manifest", "bm25", "vector"} |-> "absent"]
  BY DEF Init, View, FileState
<1>2. build.pc = "idle"
  BY IdleIsTyped DEF Init
<1> QED
  BY <1>1, <1>2 DEF Protocol!Init, Protocol!IndexFile

LEMMA UnlinkMaps ==
    ASSUME IInv, Unlink
    PROVE  \E f \in Protocol!IndexFile : Protocol!Unlink(f)
<1>1. build.rebuilt /\ build.pc = "reset" /\ build.unlink \in Unlinks \ {<<>>}
  BY DEF Unlink, IInv, TypeOK, Build, Updating, Resetting
<1>2. PICK f \in {"manifest", "bm25", "vector"} : f = Head(build.unlink)
  BY <1>1, UnlinkOrder DEF Unlinks
<1>3. f # "manifest" => disk.manifest = Absent
  BY <1>1, <1>2, UnlinkOrder DEF Unlinks, IInv, Resetting
<1>4. disk' = [disk EXCEPT ![f] = Absent] /\ build' = [build EXCEPT !.unlink = Tail(@)]
  BY <1>2 DEF Unlink
<1>5. disk'[f] = Absent /\ \A g \in {"manifest", "bm25", "vector"} \ {f} : disk'[g] = disk[g]
  BY <1>2, <1>4 DEF IInv, TypeOK
<1>6. FileState(f)' = "absent"
  BY <1>5 DEF FileState
<1>7. View' = [View EXCEPT ![f] = "absent"]
  BY <1>2, <1>5, <1>6, OneFileChanges
<1>8. f # "manifest" => View["manifest"] = "absent"
  BY <1>3, ViewOfFiles
<1>9. build'.pc = "reset"
  BY <1>1, <1>4 DEF IInv, TypeOK, Build
<1> QED
  BY <1>1, <1>2, <1>7, <1>8, <1>9 DEF Protocol!Unlink, Protocol!IndexFile

LEMMA OpenMaps ==
    ASSUME IInv, Open
    PROVE  Protocol!CreateVector \/ UNCHANGED Protocol!indexFilesVars
<1>1. /\ build.pc = "reset"
      /\ disk' = [disk EXCEPT !.vector = IF @ = Absent THEN NoVectors ELSE @]
  BY DEF Open
<1>2. build'.pc = "delete"
  BY DEF Open, IInv, TypeOK, Build
<1>3. CASE disk.vector = Absent
  <2>1. disk'.vector = NoVectors /\ \A g \in {"manifest", "bm25"} : disk'[g] = disk[g]
    BY <1>1, <1>3 DEF IInv, TypeOK
  <2>2. FileState("vector")' = "whole"
    BY <2>1, NoVectorsIsTyped, ContentsAreNoGaps DEF FileState
  <2>3. View' = [View EXCEPT !["vector"] = "whole"]
    BY <2>1, <2>2, OneFileChanges
  <2> QED
    BY <1>1, <1>2, <1>3, <2>3, ViewOfFiles DEF Protocol!CreateVector
<1>4. CASE disk.vector # Absent
  <2>1. disk' = disk
    BY <1>1, <1>4 DEF IInv, TypeOK
  <2> QED
    BY <1>1, <1>2, <2>1, NoFileChanges DEF Protocol!indexFilesVars
<1> QED
  BY <1>3, <1>4

\* Deletes and batches change what the vector index holds, and no more.
LEMMA VectorStepMaps ==
    ASSUME IInv, IInv', build.pc \in {"delete", "write"}, build'.pc \in {"delete", "write"},
           disk'.manifest = disk.manifest, disk'.bm25 = disk.bm25
    PROVE  UNCHANGED Protocol!indexFilesVars
<1>1. disk.vector \in Vectors /\ disk'.vector \in Vectors
  BY DEF IInv, Writing
<1>2. \A g \in {"manifest", "bm25", "vector"} : FileState(g)' = FileState(g)
  BY <1>1, ContentsAreNoGaps DEF FileState
<1>3. View' = View
  BY <1>2 DEF View
<1> QED
  BY <1>3 DEF Protocol!indexFilesVars

LEMMA BeginBm25Maps ==
    ASSUME IInv, BeginBm25
    PROVE  Protocol!Tear("bm25")
<1>1. build.pc = "write" /\ build'.pc = "bm25"
  BY DEF BeginBm25, IInv, TypeOK, Build
<1>2. disk'.bm25 = Torn /\ disk'.manifest = disk.manifest /\ disk'.vector = disk.vector
  BY DEF BeginBm25, IInv, TypeOK
<1>3. FileState("bm25")' = "torn"
  BY <1>2, ContentsAreNoGaps DEF FileState
<1>4. View' = [View EXCEPT !["bm25"] = "torn"]
  BY <1>2, <1>3, OneFileChanges
<1>5. View["vector"] = "whole"
  BY <1>1, ViewOfFiles, ContentsAreNoGaps DEF IInv, Writing
<1> QED
  BY <1>1, <1>4, <1>5 DEF Protocol!Tear

LEMMA EndBm25Maps ==
    ASSUME IInv, IInv', EndBm25
    PROVE  Protocol!Write("bm25")
<1>1. build.pc = "bm25" /\ build'.pc = "saved"
  BY DEF EndBm25, IInv, TypeOK, Build
<1>2. disk'.bm25 \in Corpus /\ disk'.manifest = disk.manifest /\ disk'.vector = disk.vector
  BY <1>1 DEF EndBm25, IInv, TypeOK, Build
<1>3. FileState("bm25")' = "whole"
  BY <1>2, ContentsAreNoGaps DEF FileState
<1>4. View' = [View EXCEPT !["bm25"] = "whole"]
  BY <1>2, <1>3, OneFileChanges
<1>5. View["bm25"] = "torn"
  BY <1>1, ViewOfFiles, ContentsAreNoGaps DEF IInv, Writing
<1> QED
  BY <1>1, <1>4, <1>5 DEF Protocol!Write

LEMMA BeginManifestMaps ==
    ASSUME IInv, BeginManifest
    PROVE  Protocol!Tear("manifest")
<1>1. build.pc = "saved" /\ build'.pc = "manifest"
  BY DEF BeginManifest, IInv, TypeOK, Build
<1>2. disk'.manifest = Torn /\ disk'.bm25 = disk.bm25 /\ disk'.vector = disk.vector
  BY DEF BeginManifest, IInv, TypeOK
<1>3. FileState("manifest")' = "torn"
  BY <1>2, ContentsAreNoGaps DEF FileState
<1>4. View' = [View EXCEPT !["manifest"] = "torn"]
  BY <1>2, <1>3, OneFileChanges
<1>5. View["vector"] = "whole" /\ View["bm25"] = "whole"
  BY <1>1, ViewOfFiles, ContentsAreNoGaps DEF IInv, Writing
<1> QED
  BY <1>1, <1>4, <1>5 DEF Protocol!Tear

LEMMA EndManifestMaps ==
    ASSUME IInv, EndManifest
    PROVE  Protocol!Write("manifest")
<1> DEFINE m == [embedding |-> build.embedding, files |-> build.seen]
<1>1. build.pc = "manifest" /\ build'.pc = "idle"
  BY IdleIsTyped DEF EndManifest
<1>2. m \in Manifests
  BY DEF IInv, TypeOK, Build, Manifests
<1>3. disk'.manifest = m /\ disk'.bm25 = disk.bm25 /\ disk'.vector = disk.vector
  BY DEF EndManifest, IInv, TypeOK
<1> HIDE DEF m
<1>4. FileState("manifest")' = "whole"
  BY <1>2, <1>3, ContentsAreNoGaps DEF FileState
<1>5. View' = [View EXCEPT !["manifest"] = "whole"]
  BY <1>3, <1>4, OneFileChanges
<1>6. View["manifest"] = "torn"
  BY <1>1, ViewOfFiles, ContentsAreNoGaps DEF IInv, Writing
<1> QED
  BY <1>1, <1>5, <1>6 DEF Protocol!Write

LEMMA StepMaps ==
    ASSUME IInv, IInv', [Next]_indexVars
    PROVE  [Protocol!Next]_(Protocol!indexFilesVars)
<1>1. ASSUME NEW f \in Files, NEW v \in Versions \cup {Absent}, Edit(f, v)
      PROVE  UNCHANGED Protocol!indexFilesVars
  BY <1>1, NoFileChanges DEF Edit, Protocol!indexFilesVars
<1>2. ASSUME NEW force \in BOOLEAN, NEW e \in Embeddings, Start(force, e)
      PROVE  Protocol!Begin
  <2>1. build.pc = "idle" /\ build'.pc = "reset" /\ View' = View
    BY <1>2, IdleIsTyped, NoFileChanges DEF Start, Build
  <2>2. View["manifest"] # "torn"
    BY <1>2, ViewOfFiles DEF Start
  <2> QED
    BY <2>1, <2>2 DEF Protocol!Begin
<1>3. ASSUME NEW f \in Files, Delete(f)
      PROVE  UNCHANGED Protocol!indexFilesVars
  <2>1. build.pc = "delete" /\ build'.pc = "delete"
    BY <1>3 DEF Delete, IInv, TypeOK, Build
  <2>2. disk'.manifest = disk.manifest /\ disk'.bm25 = disk.bm25
    BY <1>3 DEF Delete, IInv, TypeOK
  <2> QED
    BY <2>1, <2>2, VectorStepMaps
<1>4. CASE Read
  <2>1. build.pc = "delete" /\ build'.pc = "write" /\ disk' = disk
    BY <1>4 DEF Read, IInv, TypeOK, Build
  <2> QED
    BY <2>1, VectorStepMaps
<1>5. ASSUME NEW f \in Files, NEW batch \in SUBSET build.todo, Write(f, batch)
      PROVE  UNCHANGED Protocol!indexFilesVars
  <2>1. build.pc = "write" /\ build'.pc = "write"
    BY <1>5 DEF Write, IInv, TypeOK, Build
  <2>2. disk'.manifest = disk.manifest /\ disk'.bm25 = disk.bm25
    BY <1>5 DEF Write, IInv, TypeOK
  <2> QED
    BY <2>1, <2>2, VectorStepMaps
<1>6. CASE ReadFails \/ Cut
  <2>1. build.pc # "idle" /\ build'.pc = "idle" /\ View' = View
    BY <1>6, IdleIsTyped, NoFileChanges DEF ReadFails, Cut, Abandon
  <2> QED
    BY <2>1 DEF Protocol!Leave, Protocol!Next
<1>7. CASE UNCHANGED indexVars
  BY <1>7, NoFileChanges DEF indexVars, Protocol!indexFilesVars
<1>8. CASE Unlink
  BY <1>8, UnlinkMaps DEF Protocol!Next
<1>9. CASE Open
  BY <1>9, OpenMaps DEF Protocol!Next
<1>10. CASE BeginBm25
  BY <1>10, BeginBm25Maps DEF Protocol!Next
<1>11. CASE EndBm25
  BY <1>11, EndBm25Maps DEF Protocol!Next
<1>12. CASE BeginManifest
  BY <1>12, BeginManifestMaps DEF Protocol!Next
<1>13. CASE EndManifest
  BY <1>13, EndManifestMaps DEF Protocol!Next
<1> QED
  BY <1>1, <1>2, <1>3, <1>4, <1>5, <1>6, <1>7, <1>8, <1>9, <1>10, <1>11, <1>12, <1>13
  DEF Next, BuildStep, Protocol!Next

\* Each step of a build, and each way it can end, is one that IndexFiles allows: the
\* manifest is the first file to go and the last to come (Indexer.build).
THEOREM ReadersOrder == Spec => FilesProtocol
BY Inductive, InitMaps, StepMaps, PTL DEF Spec, FilesProtocol, Protocol!Spec

FileStates == {"absent", "torn", "whole"}

Vouching == View \in [Protocol!IndexFile -> FileStates] /\ Protocol!ManifestVouches

\* By the order of the files, a manifest comes with the two others.
LEMMA OrderVouches ==
  ASSUME Vouching, [Protocol!Next]_(Protocol!indexFilesVars)
  PROVE  Vouching'
<1> USE DEF Vouching, Protocol!ManifestVouches, Protocol!IndexFile, FileStates
<1>1. CASE Protocol!Begin \/ Protocol!Leave \/ UNCHANGED Protocol!indexFilesVars
  BY <1>1 DEF Protocol!Begin, Protocol!Leave, Protocol!indexFilesVars
<1>2. ASSUME NEW f \in Protocol!IndexFile, Protocol!Unlink(f)
      PROVE  Vouching'
  BY <1>2 DEF Protocol!Unlink
<1>3. CASE Protocol!CreateVector
  BY <1>3 DEF Protocol!CreateVector
<1>4. ASSUME NEW f \in {"bm25", "manifest"}, Protocol!Tear(f)
      PROVE  Vouching'
  BY <1>4 DEF Protocol!Tear
<1>5. ASSUME NEW f \in {"bm25", "manifest"}, Protocol!Write(f)
      PROVE  Vouching'
  BY <1>5 DEF Protocol!Write
<1> QED
  BY <1>1, <1>2, <1>3, <1>4, <1>5 DEF Protocol!Next

\* A reader that finds a manifest, even a torn one, finds the two other files too,
\* whatever builds create, unlink and rewrite and wherever they are cut
\* (_reset_index_files, Indexer.build): the retriever's fingerprint relies on it.
THEOREM Vouched == Spec => []Protocol!ManifestVouches
<1>1. Protocol!Init => Vouching
  BY DEF Protocol!Init, Vouching, Protocol!ManifestVouches, Protocol!IndexFile, FileStates
<1>2. Vouching => Protocol!ManifestVouches
  BY DEF Vouching
<1> QED
  BY <1>1, <1>2, OrderVouches, ReadersOrder, PTL DEF FilesProtocol, Protocol!Spec

-----------------------------------------------------------------------------
(***************************************************************************)
(* What the index holds of each file.  IndexMatchesManifest speaks of the  *)
(* time between builds.  While a build runs, the corpus in memory and the  *)
(* vectors on disk hold of every file that is not suspect what the build   *)
(* has done of it so far; what the corpus on disk holds of a file that has *)
(* not changed is still right, should the build be cut; and what is left   *)
(* to write are chunks of the versions the scan has seen.                  *)
(***************************************************************************)
Of(f, v) == IF v = Absent THEN {} ELSE ChunksIn(f, v)

InCorpus(corpus, f, chunks) ==
    \A c \in Chunk : c.file = f => corpus[c] = IF c \in chunks THEN 1 ELSE 0

InVectors(vectors, f, chunks) ==
    \A r \in Ranges :
        LET row == vectors[<<f, r>>]
        IN  IF row = Absent THEN \A c \in chunks : c.lines # r
                            ELSE \E c \in chunks : c.lines = r /\ c.version = row.version

\* The chunks of f that the build has brought into both indexes, or found there.
Done(b, f) ==
    IF b.pc # "delete" THEN Of(f, b.seen[f]) \ b.todo
    ELSE IF b.old[f] = b.seen[f] THEN Of(f, b.seen[f]) ELSE {}

AtRest ==
    build.pc \in {"idle", "reset"} /\ Readable =>
        \A f \in Files \ suspect : Holds(f, disk.manifest.files[f])

\* A rebuild compares with nothing, an update with the manifest that is there.
Base ==
    /\ build.pc = "reset" /\ build.rebuilt => build.old = NoFiles
    /\ build.pc # "idle" /\ ~(build.pc = "reset" /\ build.rebuilt) /\ disk.manifest \in Manifests =>
         disk.manifest.files = build.old

Kept ==
    build.pc \in {"delete", "write"} /\ Readable =>
        \A f \in Files \ suspect : build.old[f] = build.seen[f] =>
            InCorpus(disk.bm25, f, Of(f, build.seen[f]))

Deleting == build.pc = "delete" => \A f \in build.dels : build.old[f] # build.seen[f]

ToWrite ==
    /\ build.pc = "write" =>
         \A c \in build.todo :
             /\ build.old[c.file] # build.seen[c.file]
             /\ c.file \notin suspect => c \in Of(c.file, build.seen[c.file])
    /\ build.pc \in {"bm25", "saved", "manifest"} => build.todo = {}

Progress ==
    build.pc \in {"delete", "write", "bm25", "saved", "manifest"} =>
        \A f \in Files \ suspect : (build.pc = "delete" => f \notin build.dels) =>
            /\ InCorpus(build.bm25, f, Done(build, f))
            /\ InVectors(disk.vector, f, Done(build, f))

Saved == build.pc \in {"saved", "manifest"} => disk.bm25 = build.bm25

Matching == AtRest /\ Base /\ Kept /\ Deleting /\ ToWrite /\ Progress /\ Saved

LEMMA HoldsBoth ==
    ASSUME NEW f, NEW v
    PROVE  Holds(f, v) <=> InCorpus(disk.bm25, f, Of(f, v)) /\ InVectors(disk.vector, f, Of(f, v))
BY DEF Holds, Of, InCorpus, InVectors

\* Chunks of a file name the file, and a line range at most once per version.
LEMMA ChunksOfFile ==
    ASSUME NEW f \in Files, NEW v \in Versions \cup {Absent}
    PROVE  /\ Of(f, v) \subseteq Chunk
           /\ \A c \in Of(f, v) : c.file = f /\ c.version = v
BY IndexAssumption, ChunksAreTyped DEF Of, ChunksIn, Chunk

LEMMA NothingIsIn ==
    ASSUME NEW f \in Files
    PROVE  InCorpus(NoChunks, f, {}) /\ InVectors(NoVectors, f, {})
BY DEF InCorpus, InVectors, NoChunks, NoVectors, Keys

\* A corpus that agrees on the chunks of f, and vectors that agree on its rows.
LEMMA SameCorpus ==
    ASSUME NEW x, NEW y, NEW f, NEW chunks, InCorpus(x, f, chunks),
           \A c \in Chunk : c.file = f => y[c] = x[c]
    PROVE  InCorpus(y, f, chunks)
BY DEF InCorpus

LEMMA SameVectors ==
    ASSUME NEW x, NEW y, NEW f, NEW chunks, InVectors(x, f, chunks),
           \A r \in Ranges : y[<<f, r>>] = x[<<f, r>>]
    PROVE  InVectors(y, f, chunks)
BY DEF InVectors

\* The files the diff names are those the scan found changed.
LEMMA DiffIsChange ==
    ASSUME NEW f \in Files, build.old \in Listing, build.seen \in Listing
    PROVE  /\ f \in Changed(build) <=> build.old[f] # build.seen[f] /\ build.seen[f] # Absent
           /\ f \in Obsolete(build) <=> build.old[f] # build.seen[f] /\ build.old[f] # Absent
BY DEF Changed, Added, Modified, Obsolete, Removed, Listing

\* Nothing is promised of files that cannot be read.
LEMMA Unreadable ==
    ASSUME disk.manifest \in {Absent, Torn} \/ disk.bm25 \in {Absent, Torn}
                                            \/ disk.vector \in {Absent, Torn}
    PROVE  ~Readable
BY DEF Readable

LEMMA ReadableIs ==
    ASSUME IInv, Readable
    PROVE  disk.manifest \in Manifests /\ disk.bm25 \in Corpus /\ disk.vector \in Vectors
BY DEF Readable, IInv, TypeOK

\* A step that leaves the files, the build and the history alone.
LEMMA QuietMatches ==
    ASSUME Matching, UNCHANGED <<disk, build, suspect>>
    PROVE  Matching'
BY DEF Matching, AtRest, Base, Kept, Deleting, ToWrite, Progress, Saved, Readable, Holds,
       InCorpus, InVectors, Done, Of

LEMMA InitMatches == Init => Matching
<1> SUFFICES ASSUME Init PROVE Matching
  OBVIOUS
<1>1. build.pc = "idle"
  BY IdleIsTyped DEF Init
<1>2. ~Readable
  BY Unreadable DEF Init
<1> QED
  BY <1>1, <1>2 DEF Matching, AtRest, Base, Kept, Deleting, ToWrite, Progress, Saved

LEMMA StartMatches ==
    ASSUME IInv, Matching, NEW force \in BOOLEAN, NEW e \in Embeddings, Start(force, e)
    PROVE  Matching'
<1> DEFINE rebuilt == NeedsRebuild(force, e)
<1>1. build.pc = "idle" /\ UNCHANGED <<disk, suspect>>
  BY DEF Start
<1>2. build'.pc = "reset" /\ build'.rebuilt = rebuilt
      /\ build'.old = IF rebuilt THEN NoFiles ELSE disk.manifest.files
  BY IdleIsTyped DEF Start, Build
<1> HIDE DEF rebuilt
<1>3. AtRest'
  BY <1>1, <1>2 DEF Matching, AtRest, Readable, Holds
<1>4. Base'
  BY <1>1, <1>2 DEF Base
<1> QED
  BY <1>2, <1>3, <1>4 DEF Matching, Kept, Deleting, ToWrite, Progress, Saved

LEMMA UnlinkMatches ==
    ASSUME IInv, Matching, Unlink
    PROVE  Matching'
<1>1. build.rebuilt /\ build.pc = "reset" /\ build.unlink \in Unlinks \ {<<>>}
  BY DEF Unlink, IInv, TypeOK, Build, Updating, Resetting
<1>2. PICK f \in {"manifest", "bm25", "vector"} : f = Head(build.unlink)
  BY <1>1, UnlinkOrder DEF Unlinks
<1>3. disk'[f] = Absent
  BY <1>2 DEF Unlink, IInv, TypeOK
<1>4. ~Readable'
  BY <1>3, <1>2 DEF Readable
<1>5. build'.pc = "reset" /\ build'.rebuilt /\ build'.old = build.old
  BY <1>1 DEF Unlink, IInv, TypeOK, Build
<1> QED
  BY <1>1, <1>4, <1>5 DEF Matching, AtRest, Base, Kept, Deleting, ToWrite, Progress, Saved

LEMMA OpenMatches ==
    ASSUME IInv, IInv', Matching, Open
    PROVE  Matching'
<1>1. /\ build.pc = "reset" /\ build.unlink = <<>>
      /\ build' = [build EXCEPT !.pc = "delete", !.bm25 = Corpus0(build.rebuilt), !.dels = Obsolete(build)]
      /\ disk' = [disk EXCEPT !.vector = IF @ = Absent THEN NoVectors ELSE @]
      /\ suspect' = IF build.rebuilt THEN {} ELSE suspect
  BY DEF Open
<1>2. /\ build'.pc = "delete" /\ build'.bm25 = Corpus0(build.rebuilt) /\ build'.dels = Obsolete(build)
      /\ build'.old = build.old /\ build'.seen = build.seen
      /\ build.old \in Listing /\ build.seen \in Listing /\ build.rebuilt \in BOOLEAN
  BY <1>1 DEF IInv, TypeOK, Build
<1>3. /\ disk'.manifest = disk.manifest /\ disk'.bm25 = disk.bm25
      /\ disk'.vector = IF disk.vector = Absent THEN NoVectors ELSE disk.vector
  BY <1>1 DEF IInv, TypeOK
<1>4. Deleting'
  BY <1>2, DiffIsChange DEF Deleting, Obsolete, Modified, Removed
<1>5. ToWrite' /\ Saved' /\ AtRest'
  BY <1>2 DEF ToWrite, Saved, AtRest
<1>6. CASE build.rebuilt
  <2>1. disk.manifest = Absent /\ disk.vector = Absent
    BY <1>1, <1>6 DEF IInv, Resetting
  <2>2. ~Readable'
    BY <1>3, <2>1 DEF Readable
  <2>3. Base' /\ Kept'
    BY <1>2, <1>3, <2>1, <2>2, ContentsAreNoGaps DEF Base, Kept
  <2> SUFFICES Progress'
    BY <1>4, <1>5, <2>3 DEF Matching
  <2>4. build.old = NoFiles
    BY <1>1, <1>6 DEF Matching, Base
  <2>5. disk'.vector = NoVectors /\ build'.bm25 = NoChunks
    BY <1>2, <1>3, <1>6, <2>1 DEF Corpus0
  <2>6. ASSUME NEW f \in Files
        PROVE  Done(build', f) = {}
    BY <1>2, <2>4 DEF Done, Of, NoFiles
  <2> QED
    BY <1>2, <2>5, <2>6, NothingIsIn DEF Progress
<1>7. CASE ~build.rebuilt
  <2>1. /\ disk.bm25 \in Corpus /\ disk.vector \in Vectors /\ disk.manifest \in Manifests
        /\ disk.manifest.files = build.old
    BY <1>1, <1>7 DEF IInv, Updating, Matching, Base
  <2>2. disk'.vector = disk.vector /\ build'.bm25 = disk.bm25 /\ suspect' = suspect /\ Readable
    BY <1>1, <1>2, <1>3, <1>7, <2>1, ContentsAreNoGaps DEF Readable, Corpus0
  <2>3. \A f \in Files \ suspect : /\ InCorpus(disk.bm25, f, Of(f, build.old[f]))
                                   /\ InVectors(disk.vector, f, Of(f, build.old[f]))
    BY <1>1, <2>1, <2>2, HoldsBoth DEF Matching, AtRest
  <2>4. Base'
    BY <1>2, <1>3, <2>1 DEF Base
  <2>5. Kept'
    BY <1>2, <1>3, <2>2, <2>3 DEF Kept
  <2>6. ASSUME NEW f \in Files \ suspect, f \notin Obsolete(build)
        PROVE  Done(build', f) = Of(f, build.old[f])
    <3>1. build.old[f] = build.seen[f] \/ build.old[f] = Absent
      BY <1>2, <2>6, DiffIsChange
    <3> QED
      BY <1>2, <3>1 DEF Done, Of
  <2>7. Progress'
    BY <1>2, <2>2, <2>3, <2>6 DEF Progress
  <2> QED
    BY <1>4, <1>5, <2>4, <2>5, <2>7 DEF Matching
<1> QED
  BY <1>2, <1>6, <1>7

LEMMA DeleteMatches ==
    ASSUME IInv, Matching, NEW f \in Files, Delete(f)
    PROVE  Matching'
<1>1. /\ build.pc = "delete" /\ f \in build.dels
      /\ disk' = [disk EXCEPT !.vector = [k \in Keys |-> IF k[1] = f THEN Absent ELSE @[k]]]
      /\ build' = [build EXCEPT !.dels = @ \ {f},
                                !.bm25 = [c \in Chunk |-> IF c.file = f THEN 0 ELSE @[c]]]
      /\ suspect' = suspect \ {f}
  BY DEF Delete
<1>2. /\ build'.pc = "delete" /\ build'.old = build.old /\ build'.seen = build.seen
      /\ build'.dels = build.dels \ {f}
      /\ build'.bm25 = [c \in Chunk |-> IF c.file = f THEN 0 ELSE build.bm25[c]]
  BY <1>1 DEF IInv, TypeOK, Build
<1>3. /\ disk'.manifest = disk.manifest /\ disk'.bm25 = disk.bm25
      /\ disk'.vector = [k \in Keys |-> IF k[1] = f THEN Absent ELSE disk.vector[k]]
  BY <1>1 DEF IInv, TypeOK
<1>4. build.old[f] # build.seen[f]
  BY <1>1 DEF Matching, Deleting
<1>5. \A g \in Files : Done(build', g) = Done(build, g)
  BY <1>1, <1>2 DEF Done
<1>6. ASSUME NEW g \in Files \ suspect', g \notin build'.dels
      PROVE  InCorpus(build'.bm25, g, Done(build', g)) /\ InVectors(disk'.vector, g, Done(build', g))
  <2>1. CASE g = f
    <3>1. Done(build', g) = {}
      BY <1>2, <1>4, <2>1 DEF Done
    <3>2. InCorpus(build'.bm25, f, {})
      BY <1>2 DEF InCorpus
    <3>3. InVectors(disk'.vector, f, {})
      BY <1>3 DEF InVectors, Keys
    <3> QED
      BY <2>1, <3>1, <3>2, <3>3
  <2>2. CASE g # f
    <3>1. InCorpus(build.bm25, g, Done(build, g)) /\ InVectors(disk.vector, g, Done(build, g))
      BY <1>1, <1>2, <1>6, <2>2 DEF Matching, Progress
    <3>2. InCorpus(build'.bm25, g, Done(build, g))
      BY <1>2, <2>2, <3>1, SameCorpus
    <3>3. \A r \in Ranges : disk'.vector[<<g, r>>] = disk.vector[<<g, r>>]
      BY <1>3, <2>2 DEF Keys
    <3>4. InVectors(disk'.vector, g, Done(build, g))
      BY <3>1, <3>3, SameVectors
    <3> QED
      BY <1>5, <3>2, <3>4
  <2> QED
    BY <2>1, <2>2
<1>7. Progress'
  BY <1>2, <1>6 DEF Progress
<1>8. disk.vector \in Vectors
  BY <1>1 DEF IInv, Writing
<1>9. Readable' => Readable
  BY <1>3, <1>8, ContentsAreNoGaps DEF Readable
<1>10. Kept'
  BY <1>1, <1>2, <1>3, <1>4, <1>9 DEF Matching, Kept
<1>11. Base' /\ Deleting'
  BY <1>1, <1>2, <1>3 DEF Matching, Base, Deleting
<1> QED
  BY <1>2, <1>7, <1>10, <1>11 DEF Matching, AtRest, ToWrite, Saved

LEMMA ReadMatches ==
    ASSUME IInv, Matching, Read
    PROVE  Matching'
<1> DEFINE todo == UNION {ChunksIn(f, kb[f]) : f \in Changed(build)}
<1>1. /\ build.pc = "delete" /\ build.dels = {}
      /\ \A f \in Changed(build) : kb[f] # Absent
      /\ build' = [build EXCEPT !.pc = "write", !.todo = todo]
      /\ suspect' = suspect \cup {f \in Changed(build) : kb[f] # build.seen[f]}
      /\ disk' = disk
  BY DEF Read
<1>2. /\ build'.pc = "write" /\ build'.todo = todo /\ build'.bm25 = build.bm25
      /\ build'.old = build.old /\ build'.seen = build.seen
      /\ build.old \in Listing /\ build.seen \in Listing
  BY <1>1 DEF IInv, TypeOK, Build
<1>3. ASSUME NEW c \in todo
      PROVE  c.file \in Changed(build) /\ c \in ChunksIn(c.file, kb[c.file])
  <2>1. PICK f \in Changed(build) : c \in ChunksIn(f, kb[f])
    BY <1>3
  <2>2. c.file = f
    BY <2>1 DEF ChunksIn
  <2> QED
    BY <2>1, <2>2
<1>4. ASSUME NEW f \in Changed(build), f \notin suspect'
      PROVE  kb[f] = build.seen[f]
  BY <1>1, <1>4
<1>5. ASSUME NEW f \in Changed(build)
      PROVE  f \in Files /\ build.old[f] # build.seen[f] /\ build.seen[f] # Absent
  BY <1>2, <1>5, DiffIsChange DEF Changed, Added, Modified
<1>6. ASSUME NEW f \in Changed(build)
      PROVE  ChunksIn(f, kb[f]) \subseteq todo
  BY <1>6
<1> HIDE DEF todo
<1>7. ToWrite'
  <2> SUFFICES ASSUME NEW c \in todo
               PROVE  /\ build.old[c.file] # build.seen[c.file]
                      /\ c.file \notin suspect' => c \in Of(c.file, build.seen[c.file])
    BY <1>2 DEF ToWrite
  <2> QED
    BY <1>3, <1>4, <1>5 DEF Of
<1>8. ASSUME NEW f \in Files \ suspect'
      PROVE  Done(build', f) = Done(build, f)
  <2>1. CASE f \in Changed(build)
    <3>1. Of(f, build.seen[f]) \subseteq todo
      BY <1>4, <1>5, <1>6, <1>8, <2>1 DEF Of
    <3> QED
      BY <1>1, <1>2, <1>5, <2>1, <3>1 DEF Done
  <2>2. CASE f \notin Changed(build)
    <3>1. build.old[f] = build.seen[f] \/ build.seen[f] = Absent
      BY <1>2, <2>2, DiffIsChange
    <3>2. build.seen[f] \in Versions \cup {Absent}
      BY <1>2 DEF Listing
    <3>3. \A c \in Of(f, build.seen[f]) : c.file = f
      BY <3>2, ChunksOfFile
    <3>4. Of(f, build.seen[f]) \ todo = Of(f, build.seen[f])
      BY <1>3, <2>2, <3>3
    <3>5. Done(build', f) = Of(f, build.seen[f])
      BY <1>2, <3>4 DEF Done
    <3> QED
      BY <1>1, <3>1, <3>5 DEF Done, Of
  <2> QED
    BY <2>1, <2>2
<1>9. Progress'
  BY <1>1, <1>2, <1>8 DEF Matching, Progress
<1>10. Kept'
  BY <1>1, <1>2 DEF Matching, Kept, Readable
<1>11. Base'
  BY <1>1, <1>2 DEF Matching, Base
<1> QED
  BY <1>2, <1>7, <1>9, <1>10, <1>11 DEF Matching, AtRest, Deleting, Saved

LEMMA WriteMatches ==
    ASSUME IInv, Matching, NEW f \in Files, NEW batch \in SUBSET build.todo, Write(f, batch)
    PROVE  Matching'
<1> DEFINE Hit(k) == \E c \in batch : k = <<c.file, c.lines>>
           Row(k) == [version |-> (CHOOSE c \in batch : k = <<c.file, c.lines>>).version,
                      embedding |-> build.embedding]
<1>1. /\ build.pc = "write" /\ \A c \in batch : c.file = f
      /\ disk' = [disk EXCEPT !.vector = [k \in Keys |-> IF Hit(k) THEN Row(k) ELSE @[k]]]
      /\ build' = [build EXCEPT !.todo = @ \ batch,
                                !.bm25 = [c \in Chunk |-> IF c \in batch THEN @[c] + 1 ELSE @[c]]]
      /\ UNCHANGED suspect
  BY DEF Write
<1>2. /\ build'.pc = "write" /\ build'.todo = build.todo \ batch
      /\ build'.bm25 = [c \in Chunk |-> IF c \in batch THEN build.bm25[c] + 1 ELSE build.bm25[c]]
      /\ build'.old = build.old /\ build'.seen = build.seen /\ build.seen \in Listing
      /\ batch \subseteq Chunk
  BY <1>1 DEF IInv, TypeOK, Build
<1>3. ASSUME NEW k \in Keys, Hit(k)
      PROVE  \E c \in batch : k = <<c.file, c.lines>> /\ Row(k).version = c.version
  <2> DEFINE c == CHOOSE c \in batch : k = <<c.file, c.lines>>
  <2>1. c \in batch /\ k = <<c.file, c.lines>>
    BY <1>3
  <2>2. Row(k).version = c.version
    OBVIOUS
  <2> QED
    BY <2>1, <2>2
<1>4. ASSUME NEW k \in Keys, Hit(k)
      PROVE  Row(k) # Absent
  <2>1. (CHOOSE c \in batch : k = <<c.file, c.lines>>) \in Chunk
    BY <1>2, <1>4
  <2>2. Row(k) \in Rows
    BY <2>1 DEF Rows, Chunk, IInv, TypeOK, Build
  <2> QED
    BY <2>2, FilesAssumption
<1>5. \A k \in Keys : Hit(k) <=> \E c \in batch : k = <<c.file, c.lines>>
  OBVIOUS
<1> HIDE DEF Hit, Row
<1>6. /\ disk'.vector = [k \in Keys |-> IF Hit(k) THEN Row(k) ELSE disk.vector[k]]
      /\ disk'.manifest = disk.manifest /\ disk'.bm25 = disk.bm25
  BY <1>1 DEF IInv, TypeOK
<1>7. ASSUME NEW g \in Files \ suspect
      PROVE  InCorpus(build'.bm25, g, Done(build', g)) /\ InVectors(disk'.vector, g, Done(build', g))
  <2>1. InCorpus(build.bm25, g, Done(build, g)) /\ InVectors(disk.vector, g, Done(build, g))
    BY <1>1 DEF Matching, Progress
  <2>2. /\ Done(build, g) = Of(g, build.seen[g]) \ build.todo
        /\ Done(build', g) = Of(g, build.seen[g]) \ (build.todo \ batch)
    BY <1>1, <1>2 DEF Done
  <2>3. build.seen[g] \in Versions \cup {Absent}
    BY <1>2 DEF Listing
  <2>4. CASE g # f
    <3>1. Done(build', g) = Done(build, g)
      <4> DEFINE all == Of(g, build.seen[g])
      <4>1. \A c \in all : c.file = g
        BY <2>3, ChunksOfFile
      <4>2. all \cap batch = {}
        BY <1>1, <2>4, <4>1
      <4> HIDE DEF all
      <4>3. all \ (build.todo \ batch) = all \ build.todo
        BY <4>2
      <4> QED
        BY <2>2, <4>3 DEF all
    <3>2. InCorpus(build'.bm25, g, Done(build, g))
      BY <1>1, <1>2, <2>1, <2>4, SameCorpus
    <3>3. \A r \in Ranges : disk'.vector[<<g, r>>] = disk.vector[<<g, r>>]
      BY <1>1, <1>5, <1>6, <2>4 DEF Keys
    <3>4. InVectors(disk'.vector, g, Done(build, g))
      BY <2>1, <3>3, SameVectors
    <3> QED
      BY <3>1, <3>2, <3>4
  <2>5. CASE g = f
    <3>1. batch \subseteq Of(g, build.seen[g]) /\ batch \subseteq build.todo
      BY <1>1, <1>7, <2>5 DEF Matching, ToWrite
    <3>2. Done(build', g) = Done(build, g) \cup batch /\ Done(build, g) \cap batch = {}
      BY <2>2, <3>1
    <3> DEFINE before == Done(build, g)
               after == Done(build', g)
    <3> HIDE DEF before, after
    <3>3. after = before \cup batch /\ before \cap batch = {}
      BY <3>2 DEF before, after
    <3>4. InCorpus(build.bm25, g, before) /\ InVectors(disk.vector, g, before)
      BY <2>1 DEF before
    <3>5. InCorpus(build'.bm25, g, after)
      BY <1>2, <3>3, <3>4 DEF InCorpus
    <3>6. ASSUME NEW r \in Ranges
          PROVE  LET row == disk'.vector[<<g, r>>]
                 IN  IF row = Absent THEN \A c \in after : c.lines # r
                                     ELSE \E c \in after : c.lines = r /\ c.version = row.version
      <4> DEFINE k == <<g, r>>
      <4>1. k \in Keys
        BY DEF Keys
      <4>2. CASE Hit(k)
        <5>1. PICK c \in batch : k = <<c.file, c.lines>> /\ Row(k).version = c.version
          BY <1>3, <4>1, <4>2
        <5>2. c.lines = r /\ c \in after
          BY <3>3, <5>1
        <5>3. disk'.vector[k] = Row(k) /\ Row(k) # Absent
          BY <1>4, <1>6, <4>1, <4>2
        <5>4. \E d \in after : d.lines = r /\ d.version = Row(k).version
          BY <5>1, <5>2
        <5> HIDE DEF k
        <5>5. LET row == disk'.vector[k]
              IN  IF row = Absent THEN \A d \in after : d.lines # r
                                  ELSE \E d \in after : d.lines = r /\ d.version = row.version
          BY <5>3, <5>4
        <5> QED
          BY <5>5 DEF k
      <4>3. CASE ~Hit(k)
        <5>1. disk'.vector[k] = disk.vector[k]
          BY <1>6, <4>1, <4>3
        <5>2. \A c \in batch : c.lines # r
          BY <1>1, <1>5, <2>5, <4>1, <4>3
        <5> QED
          BY <3>3, <3>4, <5>1, <5>2 DEF InVectors
      <4> QED
        BY <4>2, <4>3
    <3>7. InVectors(disk'.vector, g, after)
      BY <3>6 DEF InVectors
    <3> QED
      BY <3>5, <3>7 DEF after
  <2> QED
    BY <2>4, <2>5
<1>8. Progress'
  BY <1>1, <1>2, <1>7 DEF Progress
<1>9. disk.vector \in Vectors
  BY <1>1 DEF IInv, Writing
<1>10. Readable' => Readable
  BY <1>6, <1>9, ContentsAreNoGaps DEF Readable
<1>11. Kept'
  BY <1>1, <1>2, <1>6, <1>10 DEF Matching, Kept
<1>12. ToWrite'
  BY <1>1, <1>2 DEF Matching, ToWrite
<1>13. Base'
  BY <1>1, <1>2, <1>6 DEF Matching, Base
<1> QED
  BY <1>2, <1>8, <1>11, <1>12, <1>13 DEF Matching, AtRest, Deleting, Saved

LEMMA BeginBm25Matches ==
    ASSUME IInv, Matching, BeginBm25
    PROVE  Matching'
<1>1. /\ build.pc = "write" /\ build.todo = {} /\ disk' = [disk EXCEPT !.bm25 = Torn]
      /\ build' = [build EXCEPT !.pc = "bm25"] /\ UNCHANGED suspect
  BY DEF BeginBm25
<1>2. /\ build'.pc = "bm25" /\ build'.todo = {} /\ build'.bm25 = build.bm25
      /\ build'.old = build.old /\ build'.seen = build.seen
      /\ disk'.manifest = disk.manifest /\ disk'.vector = disk.vector
  BY <1>1 DEF IInv, TypeOK, Build
<1>3. \A f \in Files : Done(build', f) = Done(build, f)
  BY <1>1, <1>2 DEF Done
<1>4. Progress'
  BY <1>1, <1>2, <1>3 DEF Matching, Progress
<1>5. Base'
  BY <1>1, <1>2 DEF Matching, Base
<1> QED
  BY <1>2, <1>4, <1>5 DEF Matching, AtRest, Kept, Deleting, ToWrite, Saved

LEMMA EndBm25Matches ==
    ASSUME IInv, Matching, EndBm25
    PROVE  Matching'
<1>1. /\ build.pc = "bm25" /\ disk' = [disk EXCEPT !.bm25 = build.bm25]
      /\ build' = [build EXCEPT !.pc = "saved"] /\ UNCHANGED suspect
  BY DEF EndBm25
<1>2. /\ build'.pc = "saved" /\ build'.todo = build.todo /\ build'.bm25 = build.bm25
      /\ build'.old = build.old /\ build'.seen = build.seen
      /\ disk'.manifest = disk.manifest /\ disk'.vector = disk.vector /\ disk'.bm25 = build.bm25
  BY <1>1 DEF IInv, TypeOK, Build
<1>3. \A f \in Files : Done(build', f) = Done(build, f)
  BY <1>1, <1>2 DEF Done
<1>4. Progress'
  BY <1>1, <1>2, <1>3 DEF Matching, Progress
<1>5. Base' /\ ToWrite' /\ Saved'
  BY <1>1, <1>2 DEF Matching, Base, ToWrite, Saved
<1> QED
  BY <1>2, <1>4, <1>5 DEF Matching, AtRest, Kept, Deleting

LEMMA BeginManifestMatches ==
    ASSUME IInv, Matching, BeginManifest
    PROVE  Matching'
<1>1. /\ build.pc = "saved" /\ disk' = [disk EXCEPT !.manifest = Torn]
      /\ build' = [build EXCEPT !.pc = "manifest"] /\ UNCHANGED suspect
  BY DEF BeginManifest
<1>2. /\ build'.pc = "manifest" /\ build'.todo = build.todo /\ build'.bm25 = build.bm25
      /\ build'.old = build.old /\ build'.seen = build.seen
      /\ disk'.manifest = Torn /\ disk'.vector = disk.vector /\ disk'.bm25 = disk.bm25
  BY <1>1 DEF IInv, TypeOK, Build
<1>3. \A f \in Files : Done(build', f) = Done(build, f)
  BY <1>1, <1>2 DEF Done
<1>4. Progress'
  BY <1>1, <1>2, <1>3 DEF Matching, Progress
<1>5. Base' /\ ToWrite' /\ Saved'
  BY <1>1, <1>2, ContentsAreNoGaps DEF Matching, Base, ToWrite, Saved
<1> QED
  BY <1>2, <1>4, <1>5 DEF Matching, AtRest, Kept, Deleting

\* The manifest is written over indexes that hold what it lists.
LEMMA EndManifestMatches ==
    ASSUME IInv, Matching, EndManifest
    PROVE  Matching'
<1> DEFINE m == [embedding |-> build.embedding, files |-> build.seen]
<1>1. /\ build.pc = "manifest" /\ disk' = [disk EXCEPT !.manifest = m]
      /\ build' = Idle /\ UNCHANGED suspect
  BY DEF EndManifest
<1>2. /\ build'.pc = "idle" /\ disk'.manifest.files = build.seen
      /\ disk'.vector = disk.vector /\ disk'.bm25 = disk.bm25
  BY <1>1, IdleIsTyped DEF IInv, TypeOK
<1>3. disk.bm25 = build.bm25 /\ build.todo = {}
  BY <1>1 DEF Matching, Saved, ToWrite
<1>4. ASSUME NEW f \in Files \ suspect
      PROVE  /\ InCorpus(disk'.bm25, f, Of(f, build.seen[f]))
             /\ InVectors(disk'.vector, f, Of(f, build.seen[f]))
  <2>1. Done(build, f) = Of(f, build.seen[f])
    BY <1>1, <1>3 DEF Done
  <2> QED
    BY <1>1, <1>2, <1>3, <2>1 DEF Matching, Progress
<1>5. AtRest'
  BY <1>1, <1>2, <1>4 DEF AtRest, Holds, Of, InCorpus, InVectors
<1> QED
  BY <1>2, <1>5 DEF Matching, Base, Kept, Deleting, ToWrite, Progress, Saved

\* A build that is left behind, wherever it stands: files it found unchanged are as the
\* manifest that is still there says, and the others are suspect from now on.
LEMMA AbandonMatches ==
    ASSUME IInv, Matching, Abandon, build.pc # "idle", UNCHANGED disk
    PROVE  Matching'
<1>1. build'.pc = "idle" /\ suspect' = suspect \cup {f \in Files : build.old[f] # build.seen[f]}
  BY IdleIsTyped DEF Abandon
<1>2. ASSUME Readable, NEW f \in Files \ suspect'
      PROVE  Holds(f, disk.manifest.files[f])
  <2>1. f \in Files \ suspect /\ build.old[f] = build.seen[f]
    BY <1>1, <1>2
  <2>2. disk.manifest \in Manifests /\ disk.bm25 \in Corpus
    BY <1>2, ReadableIs
  <2>3. CASE build.pc = "reset"
    BY <1>2, <2>1, <2>3 DEF Matching, AtRest
  <2>4. CASE build.pc \in {"delete", "write", "saved"}
    <3>1. disk.manifest.files[f] = build.seen[f]
      BY <2>1, <2>2, <2>4 DEF Matching, Base
    <3>2. build.pc = "delete" => f \notin build.dels
      BY <2>1 DEF Matching, Deleting
    <3>3. Done(build, f) = Of(f, build.seen[f])
      <4>1. CASE build.pc = "delete"
        BY <2>1, <4>1 DEF Done
      <4>2. CASE build.pc = "saved"
        BY <4>2 DEF Done, Matching, ToWrite
      <4>3. CASE build.pc = "write"
        <5>1. build.seen[f] \in Versions \cup {Absent}
          BY DEF IInv, TypeOK, Build, Listing
        <5>2. \A c \in Of(f, build.seen[f]) : c.file = f
          BY <5>1, ChunksOfFile
        <5>3. \A c \in build.todo : c.file # f
          BY <2>1, <4>3 DEF Matching, ToWrite
        <5> QED
          BY <4>3, <5>2, <5>3 DEF Done
      <4> QED
        BY <2>4, <4>1, <4>2, <4>3
    <3>4. InCorpus(build.bm25, f, Of(f, build.seen[f])) /\ InVectors(disk.vector, f, Of(f, build.seen[f]))
      BY <2>1, <2>4, <3>2, <3>3 DEF Matching, Progress
    <3>5. InCorpus(disk.bm25, f, Of(f, build.seen[f]))
      <4>1. CASE build.pc = "saved"
        BY <3>4, <4>1 DEF Matching, Saved
      <4>2. CASE build.pc \in {"delete", "write"}
        BY <1>2, <2>1, <4>2 DEF Matching, Kept
      <4> QED
        BY <2>4, <4>1, <4>2
    <3> QED
      BY <3>1, <3>4, <3>5, HoldsBoth
  <2>5. build.pc \notin {"bm25", "manifest"}
    BY <2>2, ContentsAreNoGaps DEF IInv, Writing
  <2> QED
    BY <2>3, <2>4, <2>5 DEF IInv, TypeOK, Build
<1>3. AtRest'
  BY <1>1, <1>2 DEF AtRest, Readable, Holds
<1> QED
  BY <1>1, <1>3 DEF Matching, Base, Kept, Deleting, ToWrite, Progress, Saved

LEMMA NextMatches ==
    ASSUME IInv, IInv', Matching, [Next]_indexVars
    PROVE  Matching'
<1>1. ASSUME NEW f \in Files, NEW v \in Versions \cup {Absent}, Edit(f, v) PROVE Matching'
  BY <1>1, QuietMatches DEF Edit
<1>2. ASSUME NEW force \in BOOLEAN, NEW e \in Embeddings, Start(force, e) PROVE Matching'
  BY <1>2, StartMatches
<1>3. ASSUME NEW f \in Files, Delete(f) PROVE Matching'
  BY <1>3, DeleteMatches
<1>4. ASSUME NEW f \in Files, NEW batch \in SUBSET build.todo, Write(f, batch) PROVE Matching'
  BY <1>4, WriteMatches
<1>5. CASE ReadFails \/ Cut
  BY <1>5, AbandonMatches DEF ReadFails, Cut
<1>6. CASE UNCHANGED indexVars
  BY <1>6, QuietMatches DEF indexVars
<1> QED
  BY <1>1, <1>2, <1>3, <1>4, <1>5, <1>6, UnlinkMatches, OpenMatches, ReadMatches,
     BeginBm25Matches, EndBm25Matches, BeginManifestMatches, EndManifestMatches DEF Next, BuildStep

\* Between builds both indexes hold, of every file that is not suspect, exactly the
\* chunks of the version the manifest lists, each once: whatever was edited during
\* builds, and wherever builds were cut (Indexer.build).
THEOREM MatchesManifest == Spec => []IndexMatchesManifest
<1>1. Matching => IndexMatchesManifest
  BY DEF Matching, AtRest, IndexMatchesManifest
<1> QED
  BY <1>1, Inductive, InitMatches, NextMatches, PTL DEF Spec
=============================================================================
