------------------------ MODULE RetrieverCache_proofs ------------------------
(***************************************************************************)
(* Proofs about the retriever cache, for any threads and any builds: it    *)
(* holds one entry; the files come and go for searches as for the builds   *)
(* themselves; a search never answers from older files than it began with, *)
(* and one under which no file changes answers from exactly these.         *)
(***************************************************************************)
EXTENDS RetrieverCache, FiniteSetTheorems, TLAPS

\* What OneCached says, without the arithmetic of Cardinality.
AtMostOne == \E x : cache \subseteq {x}

\* The one step that adds an entry has evicted all with another key and replaces
\* the one with its own; an eviction that raises only takes entries away.
LEMMA StoreKeeps ==
    ASSUME AtMostOne, NEW w \in Threads, Store(w)
    PROVE  AtMostOne'
<1> DEFINE key == thread[w].stats
           new == [key |-> key, id |-> thread[w].id]
<1>1. CASE \E e \in Lapsed(key) : cache' = cache \ {e}
  BY <1>1 DEF AtMostOne
<1>2. CASE cache' = {e \in cache \ Lapsed(key) : e.key # key} \cup {new}
  <2>1. {e \in cache \ Lapsed(key) : e.key # key} = {}
    BY DEF Lapsed
  <2>2. cache' \subseteq {new}
    BY <1>2, <2>1
  <2> QED
    BY <2>2 DEF AtMostOne
<1> QED
  BY <1>1, <1>2 DEF Store

LEMMA NextKeeps ==
    ASSUME AtMostOne, [CacheNext]_cacheVars
    PROVE  AtMostOne'
<1>1. ASSUME UNCHANGED cache
      PROVE  AtMostOne'
  BY <1>1 DEF AtMostOne
<1>2. CASE Indexing
  <2>1. UNCHANGED cache
    BY <1>2 DEF Indexing, StartBuild, BuildStep, Unlink, Put, CutBuild
  <2> QED
    BY <1>1, <2>1
<1>3. ASSUME NEW w \in Threads, SearchStep(w) \/ Begin(w)
      PROVE  AtMostOne'
  <2>1. CASE Store(w)
    BY <2>1, StoreKeeps
  <2>2. CASE Stat(w) \/ LookUp(w) \/ EmbedFails(w) \/ Tally(w) \/ Begin(w)
    BY <1>1, <2>2 DEF Stat, LookUp, EmbedFails, Tally, Begin, Move, End
  <2>3. CASE Load(w)
    BY <1>1, <2>3 DEF Load, End
  <2>4. CASE Connect(w) \/ Assign(w)
    BY <1>1, <2>4 DEF Connect, Assign
  <2>5. CASE Opened(w) \/ Reuse(w)
    BY <1>1, <2>5 DEF Opened, Reuse, Answered, End
  <2> QED
    BY <1>3, <2>1, <2>2, <2>3, <2>4, <2>5 DEF SearchStep
<1>4. CASE UNCHANGED cacheVars
  BY <1>1, <1>4 DEF cacheVars
<1> QED
  BY <1>2, <1>3, <1>4 DEF CacheNext

LEMMA AtMostOneIsOneCached == AtMostOne => OneCached
<1> SUFFICES ASSUME AtMostOne PROVE OneCached
  OBVIOUS
<1>1. PICK x : cache \subseteq {x}
  BY DEF AtMostOne
<1>2. cache = {} \/ cache = {x}
  BY <1>1
<1>3. Cardinality({}) = 0 /\ Cardinality({x}) = 1
  BY FS_EmptySet, FS_Singleton
<1> QED
  BY <1>2, <1>3 DEF OneCached

\* However many threads load, store and evict at once, and however evictions fail,
\* the cache holds one retriever of a profile at most (_load_retriever,
\* _evict_matching_locked).
THEOREM OneCachedHolds == CacheSpec => []OneCached
<1>1. CacheInit => AtMostOne
  BY DEF CacheInit, AtMostOne
<1> QED
  BY <1>1, AtMostOneIsOneCached, NextKeeps, PTL DEF CacheSpec

-----------------------------------------------------------------------------
(***************************************************************************)
(* How old the files are.  A build writes newer contents than all before,  *)
(* and a file that is gone comes back newer than it went; Newest is the    *)
(* age of the file, or of the first content it can come back with.         *)
(***************************************************************************)
LEMMA NamesAre ==
    /\ Range(Names) = {"manifest", "bm25", "vector"}
    /\ Fingerprinted = 3
    /\ Names[1] = "manifest" /\ Names[2] = "bm25" /\ Names[3] = "vector"
<1>1. DOMAIN Names = 1 .. 3
  BY DEF Names
<1>2. Names[1] = "manifest" /\ Names[2] = "bm25" /\ Names[3] = "vector"
  BY DEF Names
<1>3. \A i \in 1 .. 3 : i = 1 \/ i = 2 \/ i = 3
  OBVIOUS
<1>4. Range(Names) = {"manifest", "bm25", "vector"}
  BY <1>1, <1>2, <1>3 DEF Range
<1>5. Fingerprinted = 3
  BY DEF Fingerprinted, Names
<1> QED
  BY <1>2, <1>4, <1>5

LEMMA StagesAre ==
    /\ DOMAIN Stages = 1 .. 4
    /\ Stages[1] = "torn" /\ Stages[2] = "empty" /\ Stages[3] = "part" /\ Stages[4] = "full"
    /\ Range(Stages) = {"torn", "empty", "part", "full"}
<1>1. DOMAIN Stages = 1 .. 4
  BY DEF Stages
<1>2. Stages[1] = "torn" /\ Stages[2] = "empty" /\ Stages[3] = "part" /\ Stages[4] = "full"
  BY DEF Stages
<1>3. \A i \in 1 .. 4 : i = 1 \/ i = 2 \/ i = 3 \/ i = 4
  OBVIOUS
<1> QED
  BY <1>1, <1>2, <1>3 DEF Range

\* The stages of one build's contents, in the order of their writing.
LEMMA AgeIs ==
    ASSUME NEW n
    PROVE  /\ Age(<<n, "torn">>) = 5 * n + 1 /\ Age(<<n, "empty">>) = 5 * n + 2
           /\ Age(<<n, "part">>) = 5 * n + 3 /\ Age(<<n, "full">>) = 5 * n + 4
<1> DEFINE at(s) == CHOOSE i \in DOMAIN Stages : Stages[i] = s
<1>1. \A i \in 1 .. 4 : i = 1 \/ i = 2 \/ i = 3 \/ i = 4
  OBVIOUS
<1>2. at("torn") = 1
  BY <1>1, StagesAre
<1>3. at("empty") = 2
  BY <1>1, StagesAre
<1>4. at("part") = 3
  BY <1>1, StagesAre
<1>5. at("full") = 4
  BY <1>1, StagesAre
<1>6. \A s : Age(<<n, s>>) = 5 * n + at(s)
  BY DEF Age
<1> HIDE DEF at
<1> QED
  BY <1>2, <1>3, <1>4, <1>5, <1>6

LEMMA ContentIs ==
    ASSUME NEW c \in Contents
    PROVE  /\ c = <<c[1], c[2]>> /\ c[1] \in Nat /\ c[1] <= MaxBuilds
           /\ c[2] \in {"torn", "empty", "part", "full"}
           /\ Age(c) \in Nat /\ 5 * c[1] < Age(c) /\ Age(c) <= 5 * c[1] + 4
           /\ c # Absent /\ c # Live
<1>1. /\ c = <<c[1], c[2]>> /\ c[1] \in 0 .. MaxBuilds
      /\ c[2] \in {"torn", "empty", "part", "full"}
  BY StagesAre DEF Contents
<1>2. /\ Age(<<c[1], "torn">>) = 5 * c[1] + 1 /\ Age(<<c[1], "empty">>) = 5 * c[1] + 2
      /\ Age(<<c[1], "part">>) = 5 * c[1] + 3 /\ Age(<<c[1], "full">>) = 5 * c[1] + 4
  BY AgeIs
<1>3. Age(c) \in {5 * c[1] + 1, 5 * c[1] + 2, 5 * c[1] + 3, 5 * c[1] + 4}
  BY <1>1, <1>2
<1>4. c[1] \in Nat /\ c[1] <= MaxBuilds
  BY <1>1, CacheAssumption
<1>5. Age(c) \in Nat /\ 5 * c[1] < Age(c) /\ Age(c) <= 5 * c[1] + 4
  BY <1>3, <1>4
<1> QED
  BY <1>1, <1>4, <1>5, ValuesAssumption

LEMMA ContentMade ==
    ASSUME NEW n \in 0 .. MaxBuilds, NEW s \in {"torn", "empty", "part", "full"}
    PROVE  <<n, s>> \in Contents /\ <<n, s>> # Absent
<1>1. <<n, s>> \in Contents
  BY StagesAre DEF Contents
<1> QED
  BY <1>1, ValuesAssumption

\* Two contents of one age are the same.
LEMMA AgeTells ==
    ASSUME NEW c \in Contents, NEW d \in Contents, Age(c) = Age(d)
    PROVE  c = d
<1>1. c[1] \in Nat /\ d[1] \in Nat /\ c[1] = d[1]
  <2>1. /\ c[1] \in Nat /\ 5 * c[1] < Age(c) /\ Age(c) <= 5 * c[1] + 4
        /\ d[1] \in Nat /\ 5 * d[1] < Age(d) /\ Age(d) <= 5 * d[1] + 4 /\ Age(c) \in Nat
    BY ContentIs
  <2> QED
    BY <2>1
<1>2. /\ c = <<c[1], c[2]>> /\ c[2] \in {"torn", "empty", "part", "full"}
      /\ d = <<c[1], d[2]>> /\ d[2] \in {"torn", "empty", "part", "full"}
  BY <1>1, ContentIs
<1>3. /\ Age(<<c[1], "torn">>) = 5 * c[1] + 1 /\ Age(<<c[1], "empty">>) = 5 * c[1] + 2
      /\ Age(<<c[1], "part">>) = 5 * c[1] + 3 /\ Age(<<c[1], "full">>) = 5 * c[1] + 4
  BY AgeIs
<1>4. c[2] = d[2]
  <2>1. CASE c[2] = "torn"
    BY <1>1, <1>2, <1>3, <2>1
  <2>2. CASE c[2] = "empty"
    BY <1>1, <1>2, <1>3, <2>2
  <2>3. CASE c[2] = "part"
    BY <1>1, <1>2, <1>3, <2>3
  <2>4. CASE c[2] = "full"
    BY <1>1, <1>2, <1>3, <2>4
  <2> QED
    BY <1>2, <2>1, <2>2, <2>3, <2>4
<1> QED
  BY <1>2, <1>4

Comes(f)  == IF f = "vector" THEN "empty" ELSE "torn"
Newest(f) == IF files[f] = Absent THEN Age(<<build.n, Comes(f)>>) ELSE Age(files[f])

\* How far a build has come with each file, as its steps and its readers rely on.
BuildInv ==
    /\ files \in [Range(Names) -> Contents \cup {Absent}]
    /\ build \in [pc : BuildPoints, n : 0 .. MaxBuilds]
    /\ \A f \in DOMAIN files : files[f] # Absent => files[f][1] <= build.n
    /\ files.vector # Absent => files.vector[2] # "torn"
    /\ build.pc \in {"manifest-", "bm25-", "vector-", "open", "delete", "add", "bm25"} =>
         (files.bm25 # Absent => files.bm25[1] < build.n)
    /\ build.pc \in {"manifest-", "bm25-", "vector-", "open", "delete"} =>
         (files.vector # Absent => files.vector[1] < build.n \/ files.vector = <<build.n, "empty">>)
    /\ build.pc \in {"delete", "add", "bm25", "save", "manifest", "last"} => files.vector # Absent
    /\ build.pc = "save" => Torn(files.bm25)
    /\ build.pc \in {"manifest", "last"} => files.bm25 # Absent /\ ~Torn(files.bm25)
    /\ build.pc \in {"bm25-", "vector-"} => files.manifest = Absent
    /\ build.pc = "last" => Torn(files.manifest)
    /\ Torn(files.manifest) => build.pc \in {"last", "idle"}

LEMMA NewestIsNat ==
    ASSUME BuildInv, NEW f \in {"bm25", "vector"}
    PROVE  Newest(f) \in Nat /\ (files[f] # Absent => files[f] \in Contents /\ Newest(f) = Age(files[f]))
<1>1. files[f] \in Contents \cup {Absent} /\ build.n \in 0 .. MaxBuilds
  BY NamesAre DEF BuildInv
<1>2. <<build.n, Comes(f)>> \in Contents
  BY <1>1, ContentMade DEF Comes
<1> QED
  BY <1>1, <1>2, ContentIs DEF Newest

LEMMA BuildBegins == CacheInit => BuildInv
<1> SUFFICES ASSUME CacheInit PROVE BuildInv
  OBVIOUS
<1>1. 0 \in 0 .. MaxBuilds
  BY CacheAssumption
<1>2. <<0, "full">> \in Contents /\ <<0, "full">> # Absent
  BY <1>1, ContentMade
<1>3. \A f \in Range(Names) : files[f] = <<0, "full">>
  BY DEF CacheInit
<1>4. build = [pc |-> "idle", n |-> 0]
  BY DEF CacheInit
<1>5. files.manifest = <<0, "full">> /\ files.vector = <<0, "full">>
  BY <1>3, NamesAre
<1>6. files \in [Range(Names) -> Contents \cup {Absent}] /\ build \in [pc : BuildPoints, n : 0 .. MaxBuilds]
  BY <1>1, <1>2, <1>4 DEF CacheInit, BuildPoints
<1>7. \A f \in DOMAIN files : files[f] # Absent => files[f][1] <= build.n
  BY <1>3, <1>4, <1>6
<1> QED
  BY <1>4, <1>5, <1>6, <1>7 DEF BuildInv, Torn

Grows ==
    /\ Newest("bm25") <= Newest("bm25")'
    /\ Newest("vector") <= Newest("vector")'

LEMMA SameFilesGrow ==
    ASSUME BuildInv, UNCHANGED <<files, build>>
    PROVE  BuildInv' /\ Grows
<1>1. Newest("bm25") \in Nat /\ Newest("vector") \in Nat
  BY NewestIsNat
<1>2. Newest("bm25")' = Newest("bm25") /\ Newest("vector")' = Newest("vector")
  BY DEF Newest
<1> QED
  BY <1>1, <1>2 DEF Grows, BuildInv, Torn

LEMMA StartGrows ==
    ASSUME BuildInv, NEW rebuilt \in BOOLEAN, StartBuild(rebuilt)
    PROVE  BuildInv' /\ Grows
<1>1. /\ build.pc = "idle" /\ build.n < MaxBuilds /\ ~Torn(files.manifest) /\ files' = files
      /\ ~rebuilt => Readable
      /\ build' = [pc |-> FirstStep(rebuilt), n |-> build.n + 1]
  BY DEF StartBuild, Running
<1>2. build.n \in 0 .. MaxBuilds /\ build.n + 1 \in 0 .. MaxBuilds /\ build.n \in Nat
  BY <1>1, CacheAssumption DEF BuildInv
<1>3. build'.pc \in {"manifest-", "open"} /\ build'.n = build.n + 1
  BY <1>1 DEF FirstStep
<1>4. build' \in [pc : BuildPoints, n : 0 .. MaxBuilds]
  BY <1>1, <1>2 DEF FirstStep, BuildPoints
<1>5. \A f \in DOMAIN files : files[f] # Absent => files[f][1] \in Nat /\ files[f][1] <= build.n
  BY ContentIs DEF BuildInv
<1>6. \A f \in DOMAIN files : files[f] # Absent => files[f][1] < build.n + 1
  BY <1>2, <1>5
<1>7. "bm25" \in DOMAIN files /\ "vector" \in DOMAIN files
  BY NamesAre DEF BuildInv
<1>8. BuildInv'
  BY <1>1, <1>3, <1>4, <1>5, <1>6, <1>7, <1>2 DEF BuildInv
<1>9. ASSUME NEW f \in {"bm25", "vector"}
      PROVE  Newest(f) <= Newest(f)'
  <2>1. CASE files[f] # Absent
    BY <1>1, <2>1, NewestIsNat DEF Newest
  <2>2. CASE files[f] = Absent
    <3>1. Newest(f) = Age(<<build.n, Comes(f)>>) /\ Newest(f)' = Age(<<build.n + 1, Comes(f)>>)
      BY <1>1, <1>3, <2>2 DEF Newest
    <3>2. Comes(f) \in {"torn", "empty"}
      BY DEF Comes
    <3>3. Age(<<build.n, Comes(f)>>) <= Age(<<build.n + 1, Comes(f)>>)
      <4>1. /\ Age(<<build.n, "torn">>) = 5 * build.n + 1 /\ Age(<<build.n, "empty">>) = 5 * build.n + 2
            /\ Age(<<build.n + 1, "torn">>) = 5 * (build.n + 1) + 1
            /\ Age(<<build.n + 1, "empty">>) = 5 * (build.n + 1) + 2
        BY AgeIs
      <4> QED
        BY <1>2, <3>2, <4>1
    <3> QED
      BY <3>1, <3>3
  <2> QED
    BY <2>1, <2>2
<1> QED
  BY <1>8, <1>9 DEF Grows

LEMMA CutGrows ==
    ASSUME BuildInv, CutBuild
    PROVE  BuildInv' /\ Grows
<1>1. files' = files /\ build' = [build EXCEPT !.pc = "idle"]
  BY DEF CutBuild
<1>2. build'.pc = "idle" /\ build'.n = build.n /\ build' \in [pc : BuildPoints, n : 0 .. MaxBuilds]
  BY <1>1 DEF BuildInv, BuildPoints
<1>3. Newest("bm25")' = Newest("bm25") /\ Newest("vector")' = Newest("vector")
  BY <1>1, <1>2 DEF Newest
<1>4. Newest("bm25") \in Nat /\ Newest("vector") \in Nat
  BY NewestIsNat
<1> QED
  BY <1>1, <1>2, <1>3, <1>4 DEF Grows, BuildInv

\* A file whose content is replaced, by one that is no older.
LEMMA NewerGrows ==
    ASSUME BuildInv, NEW f \in {"bm25", "vector"}, NEW c \in Contents,
           files' = [files EXCEPT ![f] = c], build'.n = build.n, Newest(f) <= Age(c)
    PROVE  Grows
<1>1. files'[f] = c /\ \A g \in {"bm25", "vector"} \ {f} : files'[g] = files[g]
  BY NamesAre DEF BuildInv
<1>2. Newest(f)' = Age(c)
  BY <1>1, ContentIs DEF Newest
<1>3. \A g \in {"bm25", "vector"} \ {f} : Newest(g)' = Newest(g)
  BY <1>1 DEF Newest
<1>4. Newest("bm25") \in Nat /\ Newest("vector") \in Nat
  BY NewestIsNat
<1> QED
  BY <1>2, <1>3, <1>4 DEF Grows

\* What a build that has not written file f yet can find there.
LEMMA NewestOfOthers ==
    ASSUME BuildInv
    PROVE  /\ build.n \in Nat /\ build.n \in 0 .. MaxBuilds
           /\ Newest("bm25") <= 5 * build.n + 4 /\ Newest("vector") <= 5 * build.n + 4
           /\ build.pc = "bm25" => Newest("bm25") <= 5 * build.n + 1
           /\ build.pc = "vector-" \/ build.pc = "open" \/ build.pc = "delete"
                => Newest("vector") <= 5 * build.n + 2
           /\ build.pc = "bm25-" => (files.bm25 # Absent => Newest("bm25") <= 5 * build.n + 1)
<1>1. build.n \in Nat /\ build.n \in 0 .. MaxBuilds
  BY CacheAssumption DEF BuildInv
<1>2. Age(<<build.n, "torn">>) = 5 * build.n + 1 /\ Age(<<build.n, "empty">>) = 5 * build.n + 2
  BY AgeIs
<1>3. ASSUME NEW f \in {"bm25", "vector"}, files[f] # Absent
      PROVE  /\ Newest(f) = Age(files[f]) /\ Age(files[f]) \in Nat /\ files[f][1] \in Nat
             /\ Age(files[f]) <= 5 * files[f][1] + 4 /\ files[f][1] <= build.n
  <2>1. files[f] \in Contents /\ Newest(f) = Age(files[f])
    BY <1>3, NewestIsNat
  <2> QED
    BY <1>3, <2>1, ContentIs, NamesAre DEF BuildInv
<1>4. files.bm25 = Absent => Newest("bm25") = 5 * build.n + 1
  BY <1>2 DEF Newest, Comes
<1>5. files.vector = Absent => Newest("vector") = 5 * build.n + 2
  BY <1>2 DEF Newest, Comes
<1>6. files.bm25 # Absent => /\ Newest("bm25") \in Nat /\ files.bm25[1] \in Nat /\ files.bm25[1] <= build.n
                             /\ Newest("bm25") <= 5 * files.bm25[1] + 4
  BY <1>3
<1>7. files.vector # Absent => /\ Newest("vector") \in Nat /\ files.vector[1] \in Nat
                               /\ files.vector[1] <= build.n
                               /\ Newest("vector") <= 5 * files.vector[1] + 4
  BY <1>3
<1>8. Newest("bm25") <= 5 * build.n + 4 /\ Newest("vector") <= 5 * build.n + 4
  BY <1>1, <1>4, <1>5, <1>6, <1>7
<1>9. build.pc \in {"bm25", "bm25-"} => Newest("bm25") <= 5 * build.n + 1
  <2>1. CASE files.bm25 = Absent
    BY <1>1, <1>4, <2>1
  <2>2. CASE files.bm25 # Absent
    <3>1. build.pc \in {"bm25", "bm25-"} => files.bm25[1] < build.n
      BY <2>2 DEF BuildInv
    <3> QED
      BY <1>1, <1>6, <2>2, <3>1
  <2> QED
    BY <2>1, <2>2
<1>10. build.pc \in {"vector-", "open", "delete"} => Newest("vector") <= 5 * build.n + 2
  <2>1. CASE files.vector = Absent
    BY <1>1, <1>5, <2>1
  <2>2. CASE files.vector # Absent
    <3>1. build.pc \in {"vector-", "open", "delete"} =>
             files.vector[1] < build.n \/ files.vector = <<build.n, "empty">>
      BY <2>2 DEF BuildInv
    <3>2. files.vector = <<build.n, "empty">> => Newest("vector") = 5 * build.n + 2
      BY <1>2, <1>3, <2>2
    <3> QED
      BY <1>1, <1>7, <2>2, <3>1, <3>2
  <2> QED
    BY <2>1, <2>2
<1> QED
  BY <1>1, <1>8, <1>9, <1>10

LEMMA UnlinkGrows ==
    ASSUME BuildInv, NEW pc, NEW f, NEW next, Unlink(pc, f, next),
           <<pc, f, next>> \in {<<"manifest-", "manifest", "bm25-">>, <<"bm25-", "bm25", "vector-">>,
                               <<"vector-", "vector", "open">>}
    PROVE  BuildInv' /\ Grows
<1>1. /\ files' = [files EXCEPT ![f] = Absent] /\ build' = [build EXCEPT !.pc = next] /\ build.pc = pc
      /\ \/ pc = "manifest-" /\ f = "manifest" /\ next = "bm25-"
         \/ pc = "bm25-" /\ f = "bm25" /\ next = "vector-"
         \/ pc = "vector-" /\ f = "vector" /\ next = "open"
  BY DEF Unlink
<1>2. /\ files'[f] = Absent /\ \A g \in {"manifest", "bm25", "vector"} \ {f} : files'[g] = files[g]
      /\ files' \in [Range(Names) -> Contents \cup {Absent}]
  BY <1>1, NamesAre DEF BuildInv
<1>3. build'.pc = next /\ build'.n = build.n /\ build' \in [pc : BuildPoints, n : 0 .. MaxBuilds]
  BY <1>1 DEF BuildInv, BuildPoints
<1>4. \A g \in DOMAIN files' : files'[g] # Absent => files'[g][1] <= build'.n
  BY <1>1, <1>2, <1>3, NamesAre DEF BuildInv
<1>5. build.pc \in {"manifest-", "bm25-", "vector-"} /\ ~Torn(files'.manifest)
  BY <1>1, <1>2 DEF BuildInv, Torn
<1>6. files'.bm25 # Absent => files'.bm25[1] < build'.n
  BY <1>1, <1>2, <1>3, <1>5 DEF BuildInv
<1>7. files'.vector # Absent => /\ files'.vector[1] < build'.n \/ files'.vector = <<build'.n, "empty">>
                                /\ files'.vector[2] # "torn"
  BY <1>1, <1>2, <1>3, <1>5 DEF BuildInv
<1>8. next \in {"bm25-", "vector-"} => files'.manifest = Absent
  BY <1>1, <1>2 DEF BuildInv
<1>9. BuildInv'
  BY <1>1, <1>2, <1>3, <1>4, <1>5, <1>6, <1>7, <1>8 DEF BuildInv
<1>10. ASSUME NEW g \in {"bm25", "vector"}
       PROVE  Newest(g) <= Newest(g)'
  <2>1. Newest(g) \in Nat
    BY NewestIsNat
  <2>2. CASE g # f
    BY <1>1, <1>2, <1>3, <2>1, <2>2 DEF Newest
  <2>3. CASE g = f
    <3>1. Newest(g)' = Age(<<build.n, Comes(g)>>)
      BY <1>2, <1>3, <2>3 DEF Newest
    <3>2. Age(<<build.n, "torn">>) = 5 * build.n + 1 /\ Age(<<build.n, "empty">>) = 5 * build.n + 2
      BY AgeIs
    <3>3. CASE g = "bm25" /\ files.bm25 # Absent
      BY <1>1, <2>1, <2>3, <3>1, <3>2, <3>3, NewestOfOthers DEF Comes
    <3>4. CASE g = "bm25" /\ files.bm25 = Absent
      BY <2>1, <3>1, <3>4 DEF Newest
    <3>5. CASE g = "vector"
      BY <1>1, <2>1, <2>3, <3>1, <3>2, <3>5, NewestOfOthers DEF Comes
    <3> QED
      BY <3>3, <3>4, <3>5
  <2> QED
    BY <2>2, <2>3
<1> QED
  BY <1>9, <1>10 DEF Grows

LEMMA PutIs ==
    ASSUME BuildInv, NEW pc, NEW f \in {"manifest", "bm25", "vector"}, NEW c \in Contents,
           NEW next \in BuildPoints, Put(pc, f, c, next), c[1] <= build.n
    PROVE  /\ files' = [files EXCEPT ![f] = c]
           /\ files'[f] = c /\ \A g \in {"manifest", "bm25", "vector"} \ {f} : files'[g] = files[g]
           /\ files' \in [Range(Names) -> Contents \cup {Absent}]
           /\ build.pc = pc /\ build'.pc = next /\ build'.n = build.n
           /\ build' \in [pc : BuildPoints, n : 0 .. MaxBuilds]
           /\ \A g \in DOMAIN files' : files'[g] # Absent => files'[g][1] <= build'.n
<1>1. files' = [files EXCEPT ![f] = c] /\ build' = [build EXCEPT !.pc = next] /\ build.pc = pc
  BY DEF Put
<1>2. /\ files'[f] = c /\ \A g \in {"manifest", "bm25", "vector"} \ {f} : files'[g] = files[g]
      /\ files' \in [Range(Names) -> Contents \cup {Absent}]
  BY <1>1, NamesAre DEF BuildInv
<1>3. /\ build'.pc = next /\ build'.n = build.n
      /\ build' \in [pc : BuildPoints, n : 0 .. MaxBuilds]
  BY <1>1 DEF BuildInv
<1>4. ASSUME NEW g \in DOMAIN files', files'[g] # Absent
      PROVE  files'[g][1] <= build'.n
  <2>1. g \in {"manifest", "bm25", "vector"} /\ g \in DOMAIN files
    BY <1>2, <1>4, NamesAre DEF BuildInv
  <2>2. CASE g = f
    BY <1>2, <1>3, <2>2
  <2>3. CASE g # f
    BY <1>2, <1>3, <1>4, <2>1, <2>3 DEF BuildInv
  <2> QED
    BY <2>2, <2>3
<1> QED
  BY <1>1, <1>2, <1>3, <1>4

LEMMA ManifestGrows ==
    ASSUME BuildInv, NEW pc, NEW s, NEW next, Put(pc, "manifest", <<build.n, s>>, next),
           <<pc, s, next>> \in {<<"manifest", "torn", "last">>, <<"last", "full", "idle">>}
    PROVE  BuildInv' /\ Grows
<1> DEFINE c == <<build.n, s>>
<1>1. \/ pc = "manifest" /\ s = "torn" /\ next = "last"
      \/ pc = "last" /\ s = "full" /\ next = "idle"
  OBVIOUS
<1>2. build.n \in Nat /\ build.n \in 0 .. MaxBuilds
  BY NewestOfOthers
<1>3. c \in Contents /\ c[1] = build.n /\ c[2] = s /\ c # Absent /\ next \in BuildPoints
  BY <1>1, <1>2, ContentMade DEF BuildPoints
<1>4. Put(pc, "manifest", c, next) /\ c[1] <= build.n
  BY <1>2, <1>3
<1> HIDE DEF c
<1>5. /\ files' = [files EXCEPT !["manifest"] = c]
      /\ files'.manifest = c /\ files'.bm25 = files.bm25 /\ files'.vector = files.vector
      /\ files' \in [Range(Names) -> Contents \cup {Absent}]
      /\ build.pc = pc /\ build'.pc = next /\ build'.n = build.n
      /\ build' \in [pc : BuildPoints, n : 0 .. MaxBuilds]
      /\ \A g \in DOMAIN files' : files'[g] # Absent => files'[g][1] <= build'.n
  BY <1>3, <1>4, PutIs
<1>6. BuildInv'
  BY <1>1, <1>3, <1>5 DEF BuildInv, Torn
<1>7. Newest("bm25")' = Newest("bm25") /\ Newest("vector")' = Newest("vector")
  BY <1>5 DEF Newest
<1>8. Newest("bm25") \in Nat /\ Newest("vector") \in Nat
  BY NewestIsNat
<1> QED
  BY <1>6, <1>7, <1>8 DEF Grows

\* A step of a build that writes a content into a file.
Puts ==
    LET n == build.n
    IN  \/ Put("open", "vector", IF files.vector = Absent THEN <<n, "empty">> ELSE files.vector, "delete")
        \/ Put("delete", "vector", <<n, "part">>, "add")
        \/ Put("add", "vector", <<n, "full">>, "bm25")
        \/ Put("bm25", "bm25", <<n, "torn">>, "save")
        \/ Put("save", "bm25", <<n, "full">>, "manifest")
        \/ Put("manifest", "manifest", <<n, "torn">>, "last")
        \/ Put("last", "manifest", <<n, "full">>, "idle")

LEMMA PutGrows ==
    ASSUME BuildInv, Puts
    PROVE  BuildInv' /\ Grows
<1> DEFINE n == build.n
<1>1. n \in Nat /\ n \in 0 .. MaxBuilds
  BY NewestOfOthers
<1>2. /\ Age(<<n, "torn">>) = 5 * n + 1 /\ Age(<<n, "empty">>) = 5 * n + 2
      /\ Age(<<n, "part">>) = 5 * n + 3 /\ Age(<<n, "full">>) = 5 * n + 4
  BY AgeIs
<1>3. \A s \in {"torn", "empty", "part", "full"} : <<n, s>> \in Contents /\ <<n, s>> # Absent
  BY <1>1, ContentMade
<1>4. {"delete", "add", "bm25", "save", "manifest", "last", "idle"} \subseteq BuildPoints
  BY DEF BuildPoints
<1>5. /\ Newest("bm25") \in Nat /\ Newest("vector") \in Nat
      /\ Newest("bm25") <= 5 * n + 4 /\ Newest("vector") <= 5 * n + 4
      /\ build.pc = "bm25" => Newest("bm25") <= 5 * n + 1
      /\ build.pc = "open" \/ build.pc = "delete" => Newest("vector") <= 5 * n + 2
  BY NewestIsNat, NewestOfOthers
<1>6. CASE Put("open", "vector", IF files.vector = Absent THEN <<n, "empty">> ELSE files.vector, "delete")
  <2> DEFINE c == IF files.vector = Absent THEN <<n, "empty">> ELSE files.vector
  <2>1. c \in Contents /\ c[1] <= n /\ c[2] # "torn"
    BY <1>1, <1>3, NewestIsNat, NamesAre DEF BuildInv
  <2>2. c[1] < n \/ c = <<n, "empty">>
    BY <1>6 DEF Put, BuildInv
  <2>3. Newest("vector") <= Age(c)
    BY <1>2, <1>5 DEF Newest, Comes
  <2>4. Put("open", "vector", c, "delete")
    BY <1>6
  <2> HIDE DEF c
  <2>5. /\ files' = [files EXCEPT !["vector"] = c]
        /\ files'.vector = c /\ files'.bm25 = files.bm25 /\ files'.manifest = files.manifest
        /\ files' \in [Range(Names) -> Contents \cup {Absent}]
        /\ build.pc = "open" /\ build'.pc = "delete" /\ build'.n = n
        /\ build' \in [pc : BuildPoints, n : 0 .. MaxBuilds]
        /\ \A g \in DOMAIN files' : files'[g] # Absent => files'[g][1] <= build'.n
    BY <1>4, <2>1, <2>4, PutIs
  <2>6. BuildInv'
    BY <2>1, <2>2, <2>5, ContentIs DEF BuildInv, Torn
  <2> QED
    BY <2>1, <2>3, <2>5, <2>6, NewerGrows
<1>7. CASE Put("delete", "vector", <<n, "part">>, "add")
  <2> DEFINE c == <<n, "part">>
  <2>1. c \in Contents /\ c[1] <= n /\ c[2] # "torn" /\ Age(c) = 5 * n + 3 /\ c # Absent
    BY <1>1, <1>2, <1>3
  <2>2. Put("delete", "vector", c, "add")
    BY <1>7
  <2> HIDE DEF c
  <2>3. /\ files' = [files EXCEPT !["vector"] = c]
        /\ files'.vector = c /\ files'.bm25 = files.bm25 /\ files'.manifest = files.manifest
        /\ files' \in [Range(Names) -> Contents \cup {Absent}]
        /\ build.pc = "delete" /\ build'.pc = "add" /\ build'.n = n
        /\ build' \in [pc : BuildPoints, n : 0 .. MaxBuilds]
        /\ \A g \in DOMAIN files' : files'[g] # Absent => files'[g][1] <= build'.n
    BY <1>4, <2>1, <2>2, PutIs
  <2>4. BuildInv'
    BY <2>1, <2>3 DEF BuildInv, Torn
  <2>5. Newest("vector") <= Age(c)
    BY <1>1, <1>5, <2>1, <2>3
  <2> QED
    BY <2>1, <2>3, <2>4, <2>5, NewerGrows
<1>8. CASE Put("add", "vector", <<n, "full">>, "bm25")
  <2> DEFINE c == <<n, "full">>
  <2>1. c \in Contents /\ c[1] <= n /\ c[2] # "torn" /\ Age(c) = 5 * n + 4 /\ c # Absent
    BY <1>1, <1>2, <1>3
  <2>2. Put("add", "vector", c, "bm25")
    BY <1>8
  <2> HIDE DEF c
  <2>3. /\ files' = [files EXCEPT !["vector"] = c]
        /\ files'.vector = c /\ files'.bm25 = files.bm25 /\ files'.manifest = files.manifest
        /\ files' \in [Range(Names) -> Contents \cup {Absent}]
        /\ build.pc = "add" /\ build'.pc = "bm25" /\ build'.n = n
        /\ build' \in [pc : BuildPoints, n : 0 .. MaxBuilds]
        /\ \A g \in DOMAIN files' : files'[g] # Absent => files'[g][1] <= build'.n
    BY <1>4, <2>1, <2>2, PutIs
  <2>4. BuildInv'
    BY <2>1, <2>3 DEF BuildInv, Torn
  <2>5. Newest("vector") <= Age(c)
    BY <1>1, <1>5, <2>1, <2>3
  <2> QED
    BY <2>1, <2>3, <2>4, <2>5, NewerGrows
<1>9. CASE Put("bm25", "bm25", <<n, "torn">>, "save")
  <2> DEFINE c == <<n, "torn">>
  <2>1. c \in Contents /\ c[1] <= n /\ c[2] = "torn" /\ Age(c) = 5 * n + 1 /\ c # Absent
    BY <1>1, <1>2, <1>3
  <2>2. Put("bm25", "bm25", c, "save")
    BY <1>9
  <2> HIDE DEF c
  <2>3. /\ files' = [files EXCEPT !["bm25"] = c]
        /\ files'.bm25 = c /\ files'.vector = files.vector /\ files'.manifest = files.manifest
        /\ files' \in [Range(Names) -> Contents \cup {Absent}]
        /\ build.pc = "bm25" /\ build'.pc = "save" /\ build'.n = n
        /\ build' \in [pc : BuildPoints, n : 0 .. MaxBuilds]
        /\ \A g \in DOMAIN files' : files'[g] # Absent => files'[g][1] <= build'.n
    BY <1>4, <2>1, <2>2, PutIs
  <2>4. BuildInv'
    BY <2>1, <2>3 DEF BuildInv, Torn
  <2>5. Newest("bm25") <= Age(c)
    BY <1>1, <1>5, <2>1, <2>3
  <2> QED
    BY <2>1, <2>3, <2>4, <2>5, NewerGrows
<1>10. CASE Put("save", "bm25", <<n, "full">>, "manifest")
  <2> DEFINE c == <<n, "full">>
  <2>1. c \in Contents /\ c[1] <= n /\ c[2] # "torn" /\ Age(c) = 5 * n + 4 /\ c # Absent
    BY <1>1, <1>2, <1>3
  <2>2. Put("save", "bm25", c, "manifest")
    BY <1>10
  <2> HIDE DEF c
  <2>3. /\ files' = [files EXCEPT !["bm25"] = c]
        /\ files'.bm25 = c /\ files'.vector = files.vector /\ files'.manifest = files.manifest
        /\ files' \in [Range(Names) -> Contents \cup {Absent}]
        /\ build.pc = "save" /\ build'.pc = "manifest" /\ build'.n = n
        /\ build' \in [pc : BuildPoints, n : 0 .. MaxBuilds]
        /\ \A g \in DOMAIN files' : files'[g] # Absent => files'[g][1] <= build'.n
    BY <1>4, <2>1, <2>2, PutIs
  <2>4. BuildInv'
    BY <2>1, <2>3 DEF BuildInv, Torn
  <2>5. Newest("bm25") <= Age(c)
    BY <1>1, <1>5, <2>1, <2>3
  <2> QED
    BY <2>1, <2>3, <2>4, <2>5, NewerGrows
<1>11. CASE Put("manifest", "manifest", <<n, "torn">>, "last")
  BY <1>11, ManifestGrows
<1>12. CASE Put("last", "manifest", <<n, "full">>, "idle")
  BY <1>12, ManifestGrows
<1> QED
  BY <1>6, <1>7, <1>8, <1>9, <1>10, <1>11, <1>12 DEF Puts

\* sqlite3.connect of a search creates the file, as that of a build would.
LEMMA ConnectGrows ==
    ASSUME BuildInv, build' = build,
           files' = [files EXCEPT !.vector = IF @ = Absent THEN <<build.n, "empty">> ELSE @]
    PROVE  BuildInv' /\ Grows /\ files'.vector # Absent /\ files'.bm25 = files.bm25
<1>1. build.n \in Nat /\ build.n \in 0 .. MaxBuilds
  BY NewestOfOthers
<1>2. CASE files.vector # Absent
  <2>1. files' = files
    BY <1>2 DEF BuildInv
  <2> QED
    BY <1>2, <2>1, SameFilesGrow
<1>3. CASE files.vector = Absent
  <2> DEFINE c == <<build.n, "empty">>
  <2>1. c \in Contents /\ c # Absent /\ c[1] = build.n /\ c[2] = "empty"
    BY <1>1, ContentMade
  <2>2. files' = [files EXCEPT !["vector"] = c] /\ Newest("vector") <= Age(c)
    <3>1. Newest("vector") = Age(c) /\ Newest("vector") \in Nat
      BY <1>3, NewestIsNat DEF Newest, Comes
    <3> QED
      BY <1>3, <3>1
  <2>3. /\ files'.vector = c /\ files'.bm25 = files.bm25 /\ files'.manifest = files.manifest
        /\ files' \in [Range(Names) -> Contents \cup {Absent}]
    BY <2>1, <2>2, NamesAre DEF BuildInv
  <2>4. build.pc \notin {"delete", "add", "bm25", "save", "manifest", "last"}
    BY <1>3 DEF BuildInv
  <2>5. \A g \in DOMAIN files' : files'[g] # Absent => files'[g][1] <= build.n
    <3> SUFFICES ASSUME NEW g \in DOMAIN files', files'[g] # Absent PROVE files'[g][1] <= build.n
      OBVIOUS
    <3>1. g \in {"manifest", "bm25", "vector"} /\ g \in DOMAIN files
      BY <2>3, NamesAre DEF BuildInv
    <3>2. CASE g = "vector"
      BY <1>1, <2>1, <2>3, <3>2
    <3>3. CASE g # "vector"
      BY <2>3, <3>1, <3>3 DEF BuildInv
    <3> QED
      BY <3>2, <3>3
  <2> HIDE DEF c
  <2>6. BuildInv'
    BY <2>1, <2>3, <2>4, <2>5 DEF BuildInv, Torn, c
  <2>7. Grows
    BY <2>1, <2>2, NewerGrows
  <2> QED
    BY <2>1, <2>3, <2>6, <2>7
<1> QED
  BY <1>2, <1>3

LEMMA IndexingGrows ==
    ASSUME BuildInv, Indexing
    PROVE  BuildInv' /\ Grows
<1>1. CASE BuildStep
  <2>1. CASE Puts
    BY <2>1, PutGrows
  <2>2. CASE Unlink("manifest-", "manifest", "bm25-")
    BY <2>2, UnlinkGrows
  <2>3. CASE Unlink("bm25-", "bm25", "vector-")
    BY <2>3, UnlinkGrows
  <2>4. CASE Unlink("vector-", "vector", "open")
    BY <2>4, UnlinkGrows
  <2> QED
    BY <1>1, <2>1, <2>2, <2>3, <2>4 DEF BuildStep, Puts
<1> QED
  BY <1>1, StartGrows, CutGrows DEF Indexing

\* What a step of a search can do to the files.
LEMMA SearchTouches ==
    ASSUME NEW w \in Threads, SearchStep(w) \/ Begin(w)
    PROVE  /\ build' = build
           /\ \/ files' = files
              \/ /\ Connect(w)
                 /\ files' = [files EXCEPT !.vector = IF @ = Absent THEN <<build.n, "empty">> ELSE @]
<1>1. CASE Stat(w) \/ LookUp(w) \/ EmbedFails(w) \/ Tally(w) \/ Begin(w)
  BY <1>1 DEF Stat, LookUp, EmbedFails, Tally, Begin, Move, End
<1>2. CASE Load(w) \/ Store(w)
  BY <1>2 DEF Load, Store, End
<1>3. CASE Connect(w) \/ Assign(w)
  BY <1>3 DEF Connect, Assign
<1>4. CASE Opened(w) \/ Reuse(w)
  BY <1>4 DEF Opened, Reuse, Answered, End
<1> QED
  BY <1>1, <1>2, <1>3, <1>4 DEF SearchStep

LEMMA NextGrows ==
    ASSUME BuildInv, [CacheNext]_cacheVars
    PROVE  BuildInv' /\ Grows
<1>1. ASSUME NEW w \in Threads, SearchStep(w) \/ Begin(w)
      PROVE  BuildInv' /\ Grows
  BY <1>1, SearchTouches, SameFilesGrow, ConnectGrows
<1>2. CASE Indexing
  BY <1>2, IndexingGrows
<1>3. CASE UNCHANGED cacheVars
  BY <1>3, SameFilesGrow DEF cacheVars
<1> QED
  BY <1>1, <1>2, <1>3 DEF CacheNext

LEMMA BuildInductive == CacheSpec => []BuildInv
BY BuildBegins, NextGrows, PTL DEF CacheSpec

-----------------------------------------------------------------------------
(* What the readers of the files see of each step.                         *)

View == [f \in Range(Names) |-> Presence(files[f])]

LEMMA OneFileSeen ==
    ASSUME NEW f \in {"manifest", "bm25", "vector"}, NEW state,
           \A g \in {"manifest", "bm25", "vector"} \ {f} : files'[g] = files[g],
           Presence(files'[f]) = state
    PROVE  View' = [View EXCEPT ![f] = state]
BY NamesAre DEF View

LEMMA SameFilesSeen ==
    ASSUME \A g \in {"manifest", "bm25", "vector"} : Presence(files'[g]) = Presence(files[g])
    PROVE  View' = View
BY NamesAre DEF View

LEMMA ViewIs ==
    ASSUME NEW f \in {"manifest", "bm25", "vector"}
    PROVE  View[f] = Presence(files[f])
BY NamesAre DEF View

LEMMA PresenceIs ==
    ASSUME NEW c \in Contents
    PROVE  /\ Presence(c) = IF c[2] = "torn" THEN "torn" ELSE "whole"
           /\ Presence(Absent) = "absent"
BY ContentIs DEF Presence, Torn

LEMMA BeginMaps == CacheInit => Protocol!Init
<1> SUFFICES ASSUME CacheInit PROVE Protocol!Init
  OBVIOUS
<1>1. 0 \in 0 .. MaxBuilds
  BY CacheAssumption
<1>2. <<0, "full">> \in Contents
  BY <1>1, ContentMade
<1>3. \A f \in Range(Names) : files[f] = <<0, "full">>
  BY DEF CacheInit
<1>4. Presence(<<0, "full">>) = "whole"
  BY <1>2, PresenceIs
<1>5. View = [f \in {"manifest", "bm25", "vector"} |-> "whole"]
  BY <1>3, <1>4, NamesAre DEF View
<1>6. ~Running
  BY DEF CacheInit, Running
<1> QED
  BY <1>5, <1>6 DEF Protocol!Init, Protocol!IndexFile, View

LEMMA UnlinkSeen ==
    ASSUME BuildInv, NEW pc, NEW f, NEW next, Unlink(pc, f, next),
           <<pc, f, next>> \in {<<"manifest-", "manifest", "bm25-">>, <<"bm25-", "bm25", "vector-">>,
                               <<"vector-", "vector", "open">>}
    PROVE  \E g \in Protocol!IndexFile : Protocol!Unlink(g)
<1>1. /\ files' = [files EXCEPT ![f] = Absent] /\ build' = [build EXCEPT !.pc = next] /\ build.pc = pc
      /\ \/ pc = "manifest-" /\ f = "manifest" /\ next = "bm25-"
         \/ pc = "bm25-" /\ f = "bm25" /\ next = "vector-"
         \/ pc = "vector-" /\ f = "vector" /\ next = "open"
  BY DEF Unlink
<1>2. /\ files'[f] = Absent /\ \A g \in {"manifest", "bm25", "vector"} \ {f} : files'[g] = files[g]
      /\ f \in {"manifest", "bm25", "vector"}
  BY <1>1, NamesAre DEF BuildInv
<1>3. Presence(files'[f]) = "absent"
  BY <1>2 DEF Presence
<1>4. View' = [View EXCEPT ![f] = "absent"]
  BY <1>2, <1>3, OneFileSeen
<1>5. f # "manifest" => View["manifest"] = "absent"
  <2>1. f # "manifest" => files.manifest = Absent
    BY <1>1 DEF BuildInv
  <2> QED
    BY <2>1, ViewIs DEF Presence
<1>6. Running /\ Running'
  BY <1>1 DEF Running, BuildInv
<1> QED
  BY <1>2, <1>4, <1>5, <1>6 DEF Protocol!Unlink, Protocol!IndexFile, View

\* The vector index, as a build or a search creates it, or finds it.
LEMMA CreateSeen ==
    ASSUME BuildInv, Running' = Running,
           files' = [files EXCEPT !.vector = IF @ = Absent THEN <<build.n, "empty">> ELSE @]
    PROVE  Protocol!CreateVector \/ UNCHANGED Protocol!indexFilesVars
<1>1. CASE files.vector # Absent
  <2>1. files' = files
    BY <1>1 DEF BuildInv
  <2>2. View' = View
    BY <2>1, SameFilesSeen
  <2> QED
    BY <2>2 DEF Protocol!indexFilesVars, View
<1>2. CASE files.vector = Absent
  <2> DEFINE c == <<build.n, "empty">>
  <2>1. c \in Contents /\ c[2] # "torn"
    BY NewestOfOthers, ContentMade
  <2>2. files' = [files EXCEPT !.vector = c]
    BY <1>2
  <2> HIDE DEF c
  <2>3. files'.vector = c /\ \A g \in {"manifest", "bm25", "vector"} \ {"vector"} : files'[g] = files[g]
    BY <2>2, NamesAre DEF BuildInv
  <2>4. Presence(files'["vector"]) = "whole"
    BY <2>1, <2>3, PresenceIs
  <2>5. View' = [View EXCEPT !["vector"] = "whole"]
    BY <2>3, <2>4, OneFileSeen
  <2>6. View["vector"] = "absent"
    BY <1>2, ViewIs DEF Presence
  <2> QED
    BY <2>5, <2>6 DEF Protocol!CreateVector, View
<1> QED
  BY <1>1, <1>2

LEMMA PutSeen ==
    ASSUME BuildInv, BuildInv', Puts
    PROVE  [Protocol!Next]_(Protocol!indexFilesVars)
<1> DEFINE n == build.n
<1>1. n \in Nat /\ n \in 0 .. MaxBuilds
  BY NewestOfOthers
<1>2. ASSUME NEW s \in {"torn", "empty", "part", "full"}
      PROVE  <<n, s>> \in Contents /\ Presence(<<n, s>>) = IF s = "torn" THEN "torn" ELSE "whole"
  <2>1. <<n, s>> \in Contents
    BY <1>1, ContentMade
  <2> QED
    BY <2>1, PresenceIs
<1>3. files \in [Range(Names) -> Contents \cup {Absent}]
  BY DEF BuildInv
<1>4. CASE Put("open", "vector", IF files.vector = Absent THEN <<n, "empty">> ELSE files.vector, "delete")
  <2>1. files' = [files EXCEPT !.vector = IF @ = Absent THEN <<build.n, "empty">> ELSE @]
    BY <1>3, <1>4, NamesAre DEF Put
  <2>2. Running /\ Running'
    BY <1>4 DEF Put, Running, BuildInv
  <2> QED
    BY <2>1, <2>2, CreateSeen DEF Protocol!Next
<1>5. ASSUME NEW pc \in {"delete", "add"}, build.pc = pc, build'.pc \in {"add", "bm25"},
             NEW c \in Contents, c[2] # "torn", files' = [files EXCEPT !["vector"] = c]
      PROVE  UNCHANGED Protocol!indexFilesVars
  <2>1. files'.vector = c /\ files'.bm25 = files.bm25 /\ files'.manifest = files.manifest
    BY <1>3, <1>5, NamesAre
  <2>2. files.vector \in Contents /\ files.vector[2] # "torn"
    BY <1>3, <1>5, NamesAre DEF BuildInv
  <2>3. Presence(files'.vector) = Presence(files.vector)
    BY <1>5, <2>1, <2>2, PresenceIs
  <2>4. View' = View
    BY <2>1, <2>3, SameFilesSeen
  <2>5. Running /\ Running'
    BY <1>5 DEF Running
  <2> QED
    BY <2>4, <2>5 DEF Protocol!indexFilesVars, View
<1>6. CASE Put("delete", "vector", <<n, "part">>, "add") \/ Put("add", "vector", <<n, "full">>, "bm25")
  <2> PICK s \in {"part", "full"} : files' = [files EXCEPT !["vector"] = <<n, s>>]
    BY <1>6 DEF Put
  <2>1. build.pc \in {"delete", "add"} /\ build'.pc \in {"add", "bm25"}
    BY <1>6 DEF Put, BuildInv
  <2> DEFINE c == <<n, s>>
  <2>2. c \in Contents /\ c[2] # "torn" /\ files' = [files EXCEPT !["vector"] = c]
    BY <1>2
  <2> HIDE DEF c
  <2> QED
    BY <1>5, <2>1, <2>2
<1>7. CASE Put("bm25", "bm25", <<n, "torn">>, "save")
  <2>1. files'.bm25 = <<n, "torn">> /\ files'.vector = files.vector /\ files'.manifest = files.manifest
    BY <1>3, <1>7, NamesAre DEF Put
  <2>2. Presence(files'["bm25"]) = "torn"
    BY <1>2, <2>1
  <2>3. View' = [View EXCEPT !["bm25"] = "torn"]
    BY <2>1, <2>2, OneFileSeen
  <2>4. build.pc = "bm25" /\ Running /\ Running'
    BY <1>7 DEF Put, Running, BuildInv
  <2>5. files.vector \in Contents /\ files.vector[2] # "torn"
    BY <1>3, <2>4, NamesAre DEF BuildInv
  <2>6. View["vector"] = "whole"
    BY <2>5, ViewIs, PresenceIs
  <2>7. Protocol!Tear("bm25")
    BY <2>3, <2>4, <2>6 DEF Protocol!Tear, View
  <2> QED
    BY <2>7 DEF Protocol!Next
<1>8. CASE Put("save", "bm25", <<n, "full">>, "manifest")
  <2>1. files'.bm25 = <<n, "full">> /\ files'.vector = files.vector /\ files'.manifest = files.manifest
    BY <1>3, <1>8, NamesAre DEF Put
  <2>2. Presence(files'["bm25"]) = "whole"
    BY <1>2, <2>1
  <2>3. View' = [View EXCEPT !["bm25"] = "whole"]
    BY <2>1, <2>2, OneFileSeen
  <2>4. build.pc = "save" /\ Running /\ Running'
    BY <1>8 DEF Put, Running, BuildInv
  <2>5. View["bm25"] = "torn"
    BY <2>4, ViewIs DEF BuildInv, Presence, Torn
  <2>6. Protocol!Write("bm25")
    BY <2>3, <2>4, <2>5 DEF Protocol!Write, View
  <2> QED
    BY <2>6 DEF Protocol!Next
<1>9. CASE Put("manifest", "manifest", <<n, "torn">>, "last")
  <2>1. files'.manifest = <<n, "torn">> /\ files'.vector = files.vector /\ files'.bm25 = files.bm25
    BY <1>3, <1>9, NamesAre DEF Put
  <2>2. Presence(files'["manifest"]) = "torn"
    BY <1>2, <2>1
  <2>3. View' = [View EXCEPT !["manifest"] = "torn"]
    BY <2>1, <2>2, OneFileSeen
  <2>4. build.pc = "manifest" /\ Running /\ Running'
    BY <1>9 DEF Put, Running, BuildInv
  <2>5. files.vector \in Contents /\ files.vector[2] # "torn" /\ files.bm25 # Absent /\ ~Torn(files.bm25)
    BY <1>3, <2>4, NamesAre DEF BuildInv
  <2>6. View["vector"] = "whole" /\ View["bm25"] = "whole"
    BY <2>5, ViewIs, PresenceIs DEF Presence
  <2>7. Protocol!Tear("manifest")
    BY <2>3, <2>4, <2>6 DEF Protocol!Tear, View
  <2> QED
    BY <2>7 DEF Protocol!Next
<1>10. CASE Put("last", "manifest", <<n, "full">>, "idle")
  <2>1. files'.manifest = <<n, "full">> /\ files'.vector = files.vector /\ files'.bm25 = files.bm25
    BY <1>3, <1>10, NamesAre DEF Put
  <2>2. Presence(files'["manifest"]) = "whole"
    BY <1>2, <2>1
  <2>3. View' = [View EXCEPT !["manifest"] = "whole"]
    BY <2>1, <2>2, OneFileSeen
  <2>4. build.pc = "last" /\ build'.pc = "idle"
    BY <1>10 DEF Put, BuildInv
  <2>5. View["manifest"] = "torn"
    BY <2>4, ViewIs DEF BuildInv, Presence, Torn
  <2>6. Running /\ Running' = ("manifest" = "bm25")
    BY <2>4 DEF Running
  <2>7. Protocol!Write("manifest")
    BY <2>3, <2>5, <2>6 DEF Protocol!Write, View
  <2> QED
    BY <2>7 DEF Protocol!Next
<1> QED
  BY <1>4, <1>6, <1>7, <1>8, <1>9, <1>10 DEF Puts

LEMMA StepSeen ==
    ASSUME BuildInv, BuildInv', [CacheNext]_cacheVars
    PROVE  [Protocol!Next]_(Protocol!indexFilesVars)
<1>1. ASSUME files' = files, build' = build
      PROVE  UNCHANGED Protocol!indexFilesVars
  <2>1. View' = View
    BY <1>1, SameFilesSeen
  <2> QED
    BY <1>1, <2>1 DEF Protocol!indexFilesVars, View, Running
<1>2. ASSUME NEW w \in Threads, SearchStep(w) \/ Begin(w)
      PROVE  [Protocol!Next]_(Protocol!indexFilesVars)
  <2>1. build' = build
    BY <1>2, SearchTouches
  <2>2. CASE files' = files
    BY <1>1, <2>1, <2>2
  <2>3. CASE files' = [files EXCEPT !.vector = IF @ = Absent THEN <<build.n, "empty">> ELSE @]
    BY <2>1, <2>3, CreateSeen DEF Running, Protocol!Next
  <2> QED
    BY <1>2, <2>2, <2>3, SearchTouches
<1>3. ASSUME NEW rebuilt \in BOOLEAN, StartBuild(rebuilt)
      PROVE  Protocol!Begin
  <2>1. View' = View
    BY <1>3, SameFilesSeen DEF StartBuild
  <2>2. ~Running /\ Running'
    BY <1>3 DEF StartBuild, Running, FirstStep
  <2>3. View["manifest"] # "torn"
    BY <1>3, ViewIs DEF StartBuild, Presence
  <2> QED
    BY <2>1, <2>2, <2>3 DEF Protocol!Begin, View
<1>4. CASE CutBuild
  <2>1. View' = View
    BY <1>4, SameFilesSeen DEF CutBuild
  <2>2. Running /\ ~Running'
    BY <1>4 DEF CutBuild, Running, BuildInv
  <2> QED
    BY <2>1, <2>2 DEF Protocol!Leave, Protocol!Next, View
<1>5. CASE BuildStep
  <2>1. CASE Puts
    BY <2>1, PutSeen
  <2>2. CASE Unlink("manifest-", "manifest", "bm25-")
    BY <2>2, UnlinkSeen DEF Protocol!Next
  <2>3. CASE Unlink("bm25-", "bm25", "vector-")
    BY <2>3, UnlinkSeen DEF Protocol!Next
  <2>4. CASE Unlink("vector-", "vector", "open")
    BY <2>4, UnlinkSeen DEF Protocol!Next
  <2> QED
    BY <1>5, <2>1, <2>2, <2>3, <2>4 DEF BuildStep, Puts
<1>6. CASE UNCHANGED cacheVars
  BY <1>1, <1>6 DEF cacheVars
<1> QED
  BY <1>2, <1>3, <1>4, <1>5, <1>6 DEF CacheNext, Indexing, Protocol!Next

\* The files that searches find come, are rewritten and go as IndexFiles says, also
\* where a search creates the vector index itself: with ReadersOrder of the builds'
\* own model, the two models agree on what a search can meet (Indexer.build).
THEOREM SearchersOrder == CacheSpec => FilesProtocol
BY BuildInductive, BeginMaps, StepSeen, PTL DEF CacheSpec, FilesProtocol, Protocol!Spec

FileStates == {"absent", "torn", "whole"}

Vouching == View \in [Protocol!IndexFile -> FileStates] /\ Protocol!ManifestVouches

\* By the order of the files, a manifest comes with the two others.
LEMMA OrderVouches ==
  ASSUME Vouching, [Protocol!Next]_(Protocol!indexFilesVars)
  PROVE  Vouching'
<1> USE DEF Vouching, Protocol!ManifestVouches, Protocol!IndexFile, FileStates, View
<1>1. CASE Protocol!Begin \/ Protocol!Leave \/ UNCHANGED Protocol!indexFilesVars
  BY <1>1, NamesAre DEF Protocol!Begin, Protocol!Leave, Protocol!indexFilesVars
<1>2. ASSUME NEW f \in Protocol!IndexFile, Protocol!Unlink(f)
      PROVE  Vouching'
  BY <1>2, NamesAre DEF Protocol!Unlink
<1>3. CASE Protocol!CreateVector
  BY <1>3, NamesAre DEF Protocol!CreateVector
<1>4. ASSUME NEW f \in {"bm25", "manifest"}, Protocol!Tear(f)
      PROVE  Vouching'
  BY <1>4, NamesAre DEF Protocol!Tear
<1>5. ASSUME NEW f \in {"bm25", "manifest"}, Protocol!Write(f)
      PROVE  Vouching'
  BY <1>5, NamesAre DEF Protocol!Write
<1> QED
  BY <1>1, <1>2, <1>3, <1>4, <1>5 DEF Protocol!Next

\* At every moment at which a manifest is there the other two files are there too, also
\* while searches open the vector file, which creates it, and builds unlink and write (a
\* search that stats them one after the other may still miss one: Stat and Load).
THEOREM SearchersVouched == CacheSpec => []Protocol!ManifestVouches
<1>1. Protocol!Init => Vouching
  BY NamesAre DEF Protocol!Init, Vouching, Protocol!ManifestVouches, Protocol!IndexFile, FileStates, View
<1>2. Vouching => Protocol!ManifestVouches
  BY DEF Vouching
<1> QED
  BY <1>1, <1>2, OrderVouches, SearchersOrder, PTL DEF FilesProtocol, Protocol!Spec

-----------------------------------------------------------------------------
(***************************************************************************)
(* What searches hold of the files.  A search begins with the contents of  *)
(* that moment; what it takes from the cache or loads is no older, since   *)
(* the fingerprint it looked up is no older and the retriever was loaded   *)
(* after the fingerprint it is filed under; a connection that reads an     *)
(* unlinked file was opened after that fingerprint, too.  And nothing a    *)
(* search holds is newer than the files.                                   *)
(***************************************************************************)
\* x was seen in a file that is at this age by now; c is no older than x, if x was there.
Seen(age, x)    == x # Absent => Age(x) <= age
NotBefore(c, x) == x # Absent => Age(x) <= Age(c)

\* A connection reads the file that is there, or one that was there.
ConnSane(conn, now, age) ==
    conn # NoConn => IF conn.sees = Live THEN now.vector # Absent ELSE Seen(age, conn.sees)

\* A connection that still reads an unlinked file reads one no older than x.
ConnFits(conn, x) == conn # NoConn /\ conn.sees # Live => NotBefore(conn.sees, x)

\* Where a search stands, and what it holds by then.
Stands(t) ==
    /\ t.pc = "stat" => Len(t.stats) < 3
    /\ t.pc \in {"look", "load", "store"} => Len(t.stats) = 3
    /\ t.pc \in {"store", "connect", "assign", "schema"} <=> t.id # 0
    /\ t.pc \in {"assign", "schema"} <=> t.conn # NoConn
    /\ t.pc \in {"stat", "look", "load", "store", "connect", "assign", "schema"} /\ t.round = 1
         => t.began # <<>>
    /\ t.found # <<>> => t.pc = "answer" /\ t.began # <<>>

\* What a search has observed is in the order of the files' ages.
Ordered(t, bm25, vector) ==
    /\ Len(t.stats) >= 2 => Seen(bm25, t.stats[2])
    /\ Len(t.stats) >= 3 => Seen(vector, t.stats[3])
    /\ t.found # <<>> => Seen(bm25, t.found[1]) /\ Seen(vector, t.found[2])
    /\ t.began # <<>> =>
         /\ Seen(bm25, t.began[1]) /\ Seen(vector, t.began[2])
         /\ Len(t.stats) >= 2 => NotBefore(t.stats[2], t.began[1])
         /\ Len(t.stats) >= 3 => NotBefore(t.stats[3], t.began[2])
         /\ t.found # <<>> => NotBefore(t.found[1], t.began[1]) /\ NotBefore(t.found[2], t.began[2])

\* What a search that saw no file change knows of the files.
Calm(t, now) ==
    t.calm =>
        /\ t.began # <<>> => t.began = <<now.bm25, now.vector>>
        /\ Len(t.stats) >= 2 => now.bm25 # Absent
        /\ Len(t.stats) >= 3 => now.vector # Absent
        /\ t.id # 0 \/ t.found # <<>> => now.bm25 # Absent /\ now.vector # Absent
        /\ t.pc = "missing" => \E f \in DOMAIN now : now[f] = Absent

\* A retriever serves whoever refers to it: a cache entry, a search.
Serves(h, e) == NotBefore(h.bm25, e.key[2]) /\ ConnFits(h.conn, e.key[3])
Suits(h, t)  == t.began # <<>> => NotBefore(h.bm25, t.began[1]) /\ ConnFits(h.conn, t.began[2])

\* So will the connection that a search is about to assign to retriever i.
Joins(conn, i) ==
    /\ \A e \in cache : e.id = i => ConnFits(conn, e.key[3])
    /\ \A w \in Threads : thread[w].id = i /\ thread[w].began # <<>> => ConnFits(conn, thread[w].began[2])

\* A retriever that is not in the cache yet is nobody else's.
Own(w) ==
    At(w, "store") =>
        /\ \A v \in Threads \ {w} : thread[v].id # thread[w].id
        /\ \A e \in cache : e.id # thread[w].id
        /\ heap[thread[w].id].conn = NoConn
        /\ NotBefore(heap[thread[w].id].bm25, thread[w].stats[2])

HeapInv ==
    \A i \in DOMAIN heap :
        Seen(Newest("bm25"), heap[i].bm25) /\ ConnSane(heap[i].conn, files, Newest("vector"))

EntriesInv ==
    \A e \in cache : Len(e.key) = 3 /\ Seen(Newest("vector"), e.key[3]) /\ Serves(heap[e.id], e)

LocalsInv ==
    \A w \in Threads :
        /\ Stands(thread[w])
        /\ Ordered(thread[w], Newest("bm25"), Newest("vector"))
        /\ Calm(thread[w], files)
        /\ ConnSane(thread[w].conn, files, Newest("vector"))

SharedInv ==
    \A w \in Threads :
        /\ Own(w)
        /\ thread[w].id # 0 => /\ Suits(heap[thread[w].id], thread[w])
                               /\ Joins(thread[w].conn, thread[w].id)

IInv == CacheTypeOK /\ BuildInv /\ HeapInv /\ EntriesInv /\ LocalsInv /\ SharedInv

-----------------------------------------------------------------------------
LEMMA SeenGrows ==
    ASSUME NEW x \in Contents \cup {Absent}, NEW a \in Nat, NEW b \in Nat, a <= b, Seen(a, x)
    PROVE  Seen(b, x)
BY ContentIs DEF Seen

LEMMA Later ==
    ASSUME NEW c \in Contents, NEW d \in Contents, NEW x \in Contents \cup {Absent},
           NotBefore(c, d), NotBefore(d, x)
    PROVE  NotBefore(c, x)
BY ContentIs DEF NotBefore

LEMMA SeenIsNotAfter ==
    ASSUME NEW c \in Contents, NEW x \in Contents \cup {Absent}, Seen(Age(c), x)
    PROVE  NotBefore(c, x)
BY DEF Seen, NotBefore

\* The parts of a search's locals.
LEMMA LocalsAre ==
    ASSUME NEW t \in SearchState
    PROVE  /\ Len(t.stats) \in Nat
           /\ \A k \in 1 .. 3 : Len(t.stats) >= k => t.stats[k] \in Contents
           /\ t.began # <<>> => /\ t.began[1] \in Contents \cup {Absent}
                               /\ t.began[2] \in Contents \cup {Absent}
           /\ t.found # <<>> => /\ t.found[1] \in Contents /\ t.found[2] \in Contents
                                /\ t.found = <<t.found[1], t.found[2]>>
<1>1. t.stats \in Seq(Contents) /\ Len(t.stats) \in Nat
  BY DEF SearchState
<1>2. \A k \in 1 .. 3 : Len(t.stats) >= k => t.stats[k] \in Contents
  BY <1>1
<1>3. t.began # <<>> => t.began \in (Contents \cup {Absent}) \X (Contents \cup {Absent})
  BY DEF SearchState
<1>4. t.found # <<>> => t.found \in Contents \X Contents
  BY DEF SearchState
<1> QED
  BY <1>1, <1>2, <1>3, <1>4

LEMMA OrderedGrows ==
    ASSUME NEW t \in SearchState, NEW a \in Nat, NEW b \in Nat, NEW c \in Nat, NEW d \in Nat,
           a <= c, b <= d, Ordered(t, a, b)
    PROVE  Ordered(t, c, d)
<1>1. Len(t.stats) \in Nat /\ (Len(t.stats) >= 3 => Len(t.stats) >= 2)
  BY LocalsAre
<1>2. Len(t.stats) >= 2 => Seen(c, t.stats[2])
  BY <1>1, LocalsAre, SeenGrows DEF Ordered
<1>3. Len(t.stats) >= 3 => Seen(d, t.stats[3])
  BY <1>1, LocalsAre, SeenGrows DEF Ordered
<1>4. t.found # <<>> => Seen(c, t.found[1]) /\ Seen(d, t.found[2])
  BY LocalsAre, SeenGrows DEF Ordered
<1>5. t.began # <<>> => Seen(c, t.began[1]) /\ Seen(d, t.began[2])
  BY LocalsAre, SeenGrows DEF Ordered
<1> QED
  BY <1>2, <1>3, <1>4, <1>5 DEF Ordered

LEMMA NobodyBegins ==
    /\ Fresh \in SearchState /\ Fresh.pc = "idle" /\ Fresh.stats = <<>> /\ Fresh.id = 0
    /\ Fresh.conn = NoConn /\ Fresh.began = <<>> /\ Fresh.found = <<>> /\ ~Fresh.calm
    /\ Fresh.round = 1
<1>1. <<>> \in Seq(Contents)
  OBVIOUS
<1> QED
  BY <1>1 DEF Fresh, SearchState, SearchPoints

LEMMA InitIsGood == CacheInit => IInv
<1> SUFFICES ASSUME CacheInit PROVE IInv
  OBVIOUS
<1>1. BuildInv
  BY BuildBegins
<1>2. cache = {} /\ heap = <<>> /\ thread = [w \in Threads |-> Fresh]
  BY DEF CacheInit
<1>3. DOMAIN heap = {}
  BY <1>2
<1>4. IsFiniteSet(DOMAIN heap)
  BY <1>3, FS_EmptySet
<1>5. heap \in [DOMAIN heap -> Retriever]
  BY <1>2, <1>3
<1>6. CacheTypeOK
  BY <1>1, <1>2, <1>3, <1>4, <1>5, NobodyBegins DEF CacheTypeOK, BuildInv
<1>7. \A w \in Threads : thread[w] = Fresh
  BY <1>2
<1>8. Stands(Fresh) /\ Ordered(Fresh, Newest("bm25"), Newest("vector")) /\ Calm(Fresh, files)
  BY NobodyBegins DEF Stands, Ordered, Calm
<1>9. LocalsInv
  BY <1>7, <1>8, NobodyBegins DEF LocalsInv, ConnSane
<1>10. SharedInv
  BY <1>7, NobodyBegins DEF SharedInv, Own, At
<1> QED
  BY <1>1, <1>2, <1>3, <1>6, <1>9, <1>10 DEF IInv, HeapInv, EntriesInv

\* The retrievers that someone refers to stay, as they are.
Retained ==
    /\ DOMAIN heap' \subseteq DOMAIN heap
    /\ \A i \in DOMAIN heap' : heap'[i] = heap[i]
    /\ heap' \in [DOMAIN heap' -> Retriever]
    /\ \A e \in cache' : e.id \in DOMAIN heap'
    /\ \A w \in Threads : thread'[w].id \in DOMAIN heap' \cup {0}

LEMMA KeepRetains ==
    ASSUME CacheTypeOK, heap' = heap \/ heap' = Keep(heap, cache', thread'),
           \A e \in cache' : e.id \in DOMAIN heap,
           \A w \in Threads : thread'[w].id \in DOMAIN heap \cup {0}
    PROVE  Retained
<1>1. heap \in [DOMAIN heap -> Retriever]
  BY DEF CacheTypeOK
<1>2. CASE heap' = heap
  BY <1>1, <1>2 DEF Retained
<1>3. CASE heap' = Keep(heap, cache', thread')
  <2> DEFINE K == {i \in DOMAIN heap : (\E e \in cache' : e.id = i)
                                      \/ \E w \in Threads : thread'[w].id = i}
  <2>1. heap' = [i \in K |-> heap[i]]
    BY <1>3 DEF Keep, Restrict
  <2>2. /\ \A e \in cache' : e.id \in K
        /\ \A w \in Threads : thread'[w].id \in K \cup {0}
        /\ K \subseteq DOMAIN heap
    OBVIOUS
  <2> HIDE DEF K
  <2>3. DOMAIN heap' = K /\ \A i \in K : heap'[i] = heap[i]
    BY <2>1
  <2>4. \A i \in DOMAIN heap' : heap'[i] \in Retriever
    BY <1>1, <2>3, <2>2
  <2>5. heap' \in [DOMAIN heap' -> Retriever]
    BY <2>1, <2>3, <2>4, <2>2
  <2> QED
    BY <2>3, <2>5, <2>2 DEF Retained
<1> QED
  BY <1>2, <1>3

\* What a step of one search leaves as it is.
LEMMA OneMoves ==
    ASSUME IInv, NEW w \in Threads, NEW u \in SearchState, thread' = [thread EXCEPT ![w] = u],
           UNCHANGED <<files, build>>,
           cache' \subseteq [key : Seq(Contents), id : DOMAIN heap'],
           heap' \in [DOMAIN heap' -> Retriever],
           IsFiniteSet(DOMAIN heap') /\ DOMAIN heap' \subseteq Nat \ {0},
           \A v \in Threads : thread'[v].id \in DOMAIN heap' \cup {0},
           Stands(u), Ordered(u, Newest("bm25"), Newest("vector")), Calm(u, files),
           ConnSane(u.conn, files, Newest("vector"))
    PROVE  /\ CacheTypeOK' /\ BuildInv' /\ LocalsInv'
           /\ thread'[w] = u /\ \A v \in Threads \ {w} : thread'[v] = thread[v]
           /\ Newest("bm25")' = Newest("bm25") /\ Newest("vector")' = Newest("vector")
<1>1. CacheTypeOK /\ BuildInv /\ LocalsInv
  BY DEF IInv
<1>2. /\ thread'[w] = u /\ \A v \in Threads \ {w} : thread'[v] = thread[v]
      /\ thread' \in [Threads -> SearchState]
  BY <1>1 DEF CacheTypeOK
<1>3. Newest("bm25")' = Newest("bm25") /\ Newest("vector")' = Newest("vector")
  BY DEF Newest
<1>4. CacheTypeOK'
  BY <1>1, <1>2 DEF CacheTypeOK
<1>5. BuildInv'
  BY <1>1, SameFilesGrow
<1>6. ASSUME NEW v \in Threads
      PROVE  /\ Stands(thread'[v])
             /\ Ordered(thread'[v], Newest("bm25"), Newest("vector"))
             /\ Calm(thread'[v], files)
             /\ ConnSane(thread'[v].conn, files, Newest("vector"))
  <2>1. CASE v = w
    BY <1>2, <2>1
  <2>2. CASE v # w
    BY <1>1, <1>2, <2>2 DEF LocalsInv
  <2> QED
    BY <2>1, <2>2
<1>7. LocalsInv'
  BY <1>3, <1>6 DEF LocalsInv
<1> QED
  BY <1>2, <1>3, <1>4, <1>5, <1>7

\* A step after which the search refers to no retriever; entries may go, none comes.
LEMMA LetsGo ==
    ASSUME IInv, NEW w \in Threads, NEW u \in SearchState, thread' = [thread EXCEPT ![w] = u],
           UNCHANGED <<files, build>>, cache' \subseteq cache,
           heap' = heap \/ heap' = Keep(heap, cache', thread'),
           u.id = 0, u.conn = NoConn,
           Stands(u), Ordered(u, Newest("bm25"), Newest("vector")), Calm(u, files)
    PROVE  IInv'
<1>1. CacheTypeOK /\ BuildInv /\ HeapInv /\ EntriesInv /\ LocalsInv /\ SharedInv
  BY DEF IInv
<1>2. thread'[w] = u /\ \A v \in Threads \ {w} : thread'[v] = thread[v]
  BY <1>1 DEF CacheTypeOK
<1>3. Retained
  <2>1. \A e \in cache' : e.id \in DOMAIN heap
    BY <1>1 DEF CacheTypeOK
  <2>2. \A v \in Threads : thread'[v].id \in DOMAIN heap \cup {0}
    BY <1>1, <1>2 DEF CacheTypeOK
  <2> QED
    BY <1>1, <2>1, <2>2, KeepRetains
<1>4. cache' \subseteq [key : Seq(Contents), id : DOMAIN heap']
  <2> SUFFICES ASSUME NEW e \in cache' PROVE e \in [key : Seq(Contents), id : DOMAIN heap']
    OBVIOUS
  <2>1. e \in [key : Seq(Contents), id : DOMAIN heap] /\ e.id \in DOMAIN heap'
    BY <1>1, <1>3 DEF CacheTypeOK, Retained
  <2> QED
    BY <2>1
<1>5. IsFiniteSet(DOMAIN heap') /\ DOMAIN heap' \subseteq Nat \ {0}
  BY <1>1, <1>3, FS_Subset DEF CacheTypeOK, Retained
<1>6. ConnSane(u.conn, files, Newest("vector"))
  BY DEF ConnSane
<1>7. /\ CacheTypeOK' /\ BuildInv' /\ LocalsInv'
      /\ Newest("bm25")' = Newest("bm25") /\ Newest("vector")' = Newest("vector")
  BY <1>3, <1>4, <1>5, <1>6, OneMoves DEF Retained
<1>8. HeapInv'
  BY <1>1, <1>3, <1>7 DEF HeapInv, Retained
<1>9. EntriesInv'
  BY <1>1, <1>3, <1>7 DEF EntriesInv, Retained
<1>10. \A v \in Threads \ {w} : thread[v].pc = "store" => thread[v].id # 0
  BY <1>1 DEF LocalsInv, Stands
<1>11. ASSUME NEW v \in Threads
       PROVE  Own(v)'
  <2>1. CASE v = w
    BY <1>2, <2>1 DEF Own, At, Stands
  <2>2. CASE v # w
    <3> SUFFICES ASSUME At(v, "store")' PROVE Own(v)'
      BY DEF Own
    <3>1. thread'[v] = thread[v] /\ At(v, "store") /\ Own(v) /\ thread[v].id # 0
      BY <1>1, <1>2, <1>10, <2>2 DEF At, SharedInv
    <3>2. thread[v].id \in DOMAIN heap' /\ heap'[thread[v].id] = heap[thread[v].id]
      BY <1>3, <3>1 DEF Retained
    <3>3. \A x \in Threads \ {v} : thread'[x].id # thread[v].id
      BY <1>2, <3>1 DEF Own
    <3> QED
      BY <3>1, <3>2, <3>3 DEF Own
  <2> QED
    BY <2>1, <2>2
<1>12. ASSUME NEW v \in Threads, thread'[v].id # 0
       PROVE  /\ Suits(heap'[thread'[v].id], thread'[v])
              /\ Joins(thread[v].conn, thread[v].id)'
  <2>1. v # w /\ thread'[v] = thread[v]
    BY <1>2, <1>12
  <2>2. Suits(heap[thread[v].id], thread[v]) /\ Joins(thread[v].conn, thread[v].id)
    BY <1>1, <1>12, <2>1 DEF SharedInv
  <2>3. heap'[thread[v].id] = heap[thread[v].id]
    BY <1>3, <1>12, <2>1 DEF Retained
  <2>4. \A x \in Threads : thread'[x].id = thread[v].id => thread'[x] = thread[x]
    BY <1>2, <1>12, <2>1
  <2>5. Joins(thread[v].conn, thread[v].id)'
    BY <2>1, <2>2, <2>4 DEF Joins
  <2> QED
    BY <2>1, <2>2, <2>3, <2>5
<1>13. SharedInv'
  BY <1>11, <1>12 DEF SharedInv
<1> QED
  BY <1>7, <1>8, <1>9, <1>13 DEF IInv

\* A search ends.
LEMMA EndKeeps ==
    ASSUME IInv, NEW w \in Threads, NEW outcome \in Outcomes, End(w, outcome),
           outcome = "missing" => \E f \in DOMAIN files : files[f] = Absent
    PROVE  IInv'
<1> DEFINE u == [Fresh EXCEPT !.pc = outcome, !.calm = outcome = "missing" /\ thread[w].calm]
<1>1. CacheTypeOK
  BY DEF IInv
<1>2. thread[w].calm \in BOOLEAN
  BY <1>1 DEF CacheTypeOK, SearchState
<1>3. /\ u.pc = outcome /\ u.round = 1 /\ u.stats = <<>> /\ u.id = 0 /\ u.conn = NoConn
      /\ u.began = <<>> /\ u.found = <<>>
  BY DEF Fresh
<1>4. u \in SearchState
  BY <1>2, NobodyBegins DEF SearchState, SearchPoints
<1>5. /\ thread' = [thread EXCEPT ![w] = u] /\ heap' = Keep(heap, cache, thread')
      /\ UNCHANGED <<files, build, cache>>
  BY DEF End
<1>6. heap' = heap \/ heap' = Keep(heap, cache', thread')
  BY <1>5
<1> HIDE DEF u
<1>7. Stands(u)
  BY <1>3 DEF Stands, Outcomes
<1>8. Ordered(u, Newest("bm25"), Newest("vector"))
  BY <1>3 DEF Ordered
<1>9. Calm(u, files)
  BY <1>3 DEF Calm
<1> QED
  BY <1>3, <1>4, <1>5, <1>6, <1>7, <1>8, <1>9, LetsGo

\* A step that only changes the locals, of a search that refers to no retriever.
LEMMA MoveKeeps ==
    ASSUME IInv, NEW w \in Threads, NEW u \in SearchState, Move(w, u), u.id = 0, u.conn = NoConn,
           Stands(u), Ordered(u, Newest("bm25"), Newest("vector")), Calm(u, files)
    PROVE  IInv'
BY LetsGo DEF Move

LEMMA BeginKeeps ==
    ASSUME IInv, NEW w \in Threads, Begin(w)
    PROVE  IInv'
<1> DEFINE u == [Fresh EXCEPT !.pc = "stat", !.calm = TRUE, !.began = <<files.bm25, files.vector>>]
<1>1. BuildInv
  BY DEF IInv
<1>2. files.bm25 \in Contents \cup {Absent} /\ files.vector \in Contents \cup {Absent}
  BY <1>1, NamesAre DEF BuildInv
<1>3. /\ u.pc = "stat" /\ u.round = 1 /\ u.stats = <<>> /\ u.id = 0 /\ u.conn = NoConn
      /\ u.began = <<files.bm25, files.vector>> /\ u.found = <<>>
  BY DEF Fresh
<1>4. u \in SearchState
  BY <1>2, NobodyBegins DEF SearchState, SearchPoints
<1>5. Move(w, u)
  BY DEF Begin
<1> HIDE DEF u
<1>6. u.began # <<>> /\ u.began[1] = files.bm25 /\ u.began[2] = files.vector
  BY <1>3
<1>7. Stands(u)
  BY <1>3, <1>6 DEF Stands
<1>8. Seen(Newest("bm25"), files.bm25) /\ Seen(Newest("vector"), files.vector)
  BY <1>1, NewestIsNat DEF Seen
<1>9. Ordered(u, Newest("bm25"), Newest("vector"))
  BY <1>3, <1>6, <1>8 DEF Ordered
<1>10. Calm(u, files)
  BY <1>3 DEF Calm
<1> QED
  BY <1>3, <1>4, <1>5, <1>7, <1>9, <1>10, MoveKeeps

LEMMA TallyKeeps ==
    ASSUME IInv, NEW w \in Threads, Tally(w)
    PROVE  IInv'
<1> DEFINE u == [Fresh EXCEPT !.pc = "stat", !.round = 2]
<1>1. /\ u.pc = "stat" /\ u.round = 2 /\ u.stats = <<>> /\ u.id = 0 /\ u.conn = NoConn
      /\ u.began = <<>> /\ u.found = <<>> /\ ~u.calm
  BY DEF Fresh
<1>2. u \in SearchState
  BY NobodyBegins DEF SearchState, SearchPoints
<1>3. Move(w, u)
  BY DEF Tally
<1> HIDE DEF u
<1>4. Stands(u) /\ Ordered(u, Newest("bm25"), Newest("vector")) /\ Calm(u, files)
  BY <1>1 DEF Stands, Ordered, Calm
<1> QED
  BY <1>1, <1>2, <1>3, <1>4, MoveKeeps

\* What the invariant says of one search.
LEMMA SearchIs ==
    ASSUME IInv, NEW w \in Threads
    PROVE  /\ thread[w] \in SearchState /\ Stands(thread[w])
           /\ Ordered(thread[w], Newest("bm25"), Newest("vector")) /\ Calm(thread[w], files)
           /\ ConnSane(thread[w].conn, files, Newest("vector")) /\ Own(w)
           /\ thread[w].id # 0 => /\ thread[w].id \in DOMAIN heap /\ heap[thread[w].id] \in Retriever
                                  /\ Suits(heap[thread[w].id], thread[w])
                                  /\ Joins(thread[w].conn, thread[w].id)
           /\ files.bm25 \in Contents \cup {Absent} /\ files.vector \in Contents \cup {Absent}
           /\ Newest("bm25") \in Nat /\ Newest("vector") \in Nat
           /\ files.bm25 # Absent => Newest("bm25") = Age(files.bm25)
           /\ files.vector # Absent => Newest("vector") = Age(files.vector)
<1>1. CacheTypeOK /\ BuildInv /\ LocalsInv /\ SharedInv
  BY DEF IInv
<1>2. thread[w] \in SearchState
  BY <1>1 DEF CacheTypeOK
<1>3. thread[w].id # 0 => thread[w].id \in DOMAIN heap /\ heap[thread[w].id] \in Retriever
  BY <1>1 DEF CacheTypeOK
<1>4. files.bm25 \in Contents \cup {Absent} /\ files.vector \in Contents \cup {Absent}
  BY <1>1, NamesAre DEF BuildInv
<1> QED
  BY <1>1, <1>2, <1>3, <1>4, NewestIsNat DEF LocalsInv, SharedInv

LEMMA StatKeeps ==
    ASSUME IInv, NEW w \in Threads, Stat(w)
    PROVE  IInv'
<1> DEFINE t == thread[w]
           k == Len(t.stats) + 1
           f == Names[k]
           u == [t EXCEPT !.stats = Append(@, files[f]),
                          !.pc = IF Len(t.stats) + 1 = Fingerprinted THEN "look" ELSE "stat"]
<1>1. BuildInv
  BY DEF IInv
<1>2. /\ t \in SearchState /\ Stands(t) /\ Ordered(t, Newest("bm25"), Newest("vector"))
      /\ Calm(t, files)
      /\ Newest("bm25") \in Nat /\ Newest("vector") \in Nat
      /\ files.bm25 # Absent => Newest("bm25") = Age(files.bm25)
      /\ files.vector # Absent => Newest("vector") = Age(files.vector)
  BY SearchIs
<1>3. /\ t.pc = "stat" /\ Len(t.stats) < 3 /\ t.id = 0 /\ t.conn = NoConn /\ t.found = <<>>
      /\ t.round = 1 => t.began # <<>>
  BY <1>2 DEF Stat, At, Stands
<1>4. k \in 1 .. 3 /\ Len(t.stats) \in 0 .. 2 /\ Len(t.stats) \in Nat
  <2>1. Len(t.stats) \in Nat
    BY <1>2, LocalsAre
  <2> DEFINE n == Len(t.stats)
  <2>2. n \in Nat /\ n < 3
    BY <1>3, <2>1
  <2>3. k = n + 1
    OBVIOUS
  <2> HIDE DEF n, k
  <2>4. k \in 1 .. 3 /\ n \in 0 .. 2 /\ n \in Nat
    BY <2>2, <2>3
  <2> QED
    BY <2>4 DEF n
<1>5. f \in {"manifest", "bm25", "vector"} /\ f \in DOMAIN files /\ files[f] \in Contents \cup {Absent}
  <2>1. k = 1 \/ k = 2 \/ k = 3
    BY <1>4
  <2> QED
    BY <1>1, <2>1, NamesAre DEF BuildInv
<1>6. CASE files[f] = Absent
  <2>1. PICK outcome \in {"missing", "unexpected"} : End(w, outcome)
    BY <1>6 DEF Stat
  <2> QED
    BY <1>5, <1>6, <2>1, EndKeeps DEF Outcomes
<1>7. CASE files[f] # Absent
  <2>1. Move(w, u)
    BY <1>7 DEF Stat
  <2>2. t.stats \in Seq(Contents) /\ files[f] \in Contents
    BY <1>2, <1>5, <1>7 DEF SearchState
  <2> DEFINE s == Append(t.stats, files[f])
  <2>3. /\ s \in Seq(Contents) /\ Len(s) = k /\ s[k] = files[f]
        /\ \A i \in 1 .. Len(t.stats) : s[i] = t.stats[i]
    BY <2>2
  <2>4. /\ u.stats = s /\ u.pc = (IF k = 3 THEN "look" ELSE "stat") /\ u.id = 0 /\ u.conn = NoConn
        /\ u.found = <<>> /\ u.began = t.began /\ u.round = t.round /\ u.calm = t.calm
    BY <1>2, <1>3, NamesAre DEF SearchState
  <2>5. u \in SearchState
    BY <1>2, <2>3 DEF SearchState, SearchPoints
  <2> HIDE DEF u, s, k, f
  <2>6. Stands(u)
    BY <1>3, <1>4, <2>3, <2>4 DEF Stands
  <2>7. k >= 2 => /\ s[2] \in Contents /\ Seen(Newest("bm25"), s[2])
                  /\ t.began # <<>> => NotBefore(s[2], t.began[1])
    <3>1. CASE k = 1
      BY <3>1
    <3>2. CASE k = 2
      <4>1. s[2] = files.bm25 /\ files.bm25 # Absent
        BY <1>7, <2>3, <3>2, NamesAre DEF f
      <4>2. Newest("bm25") = Age(files.bm25)
        BY <1>2, <4>1
      <4>3. t.began # <<>> => Seen(Age(files.bm25), t.began[1])
        BY <1>2, <4>2 DEF Ordered
      <4>4. s[2] \in Contents
        BY <2>2, <2>3, <3>2
      <4> QED
        BY <1>2, <4>1, <4>2, <4>3, <4>4 DEF Seen, NotBefore
    <3>3. CASE k = 3
      <4>1. Len(t.stats) >= 2 /\ s[2] = t.stats[2]
        BY <1>4, <2>3, <3>3 DEF k
      <4> QED
        BY <1>2, <4>1, LocalsAre DEF Ordered
    <3> QED
      BY <1>4, <3>1, <3>2, <3>3
  <2>8. k >= 3 => /\ files.vector # Absent /\ Seen(Newest("vector"), s[3])
                  /\ t.began # <<>> => NotBefore(s[3], t.began[2])
    <3> SUFFICES ASSUME k = 3
                 PROVE  /\ files.vector # Absent /\ Seen(Newest("vector"), s[3])
                        /\ t.began # <<>> => NotBefore(s[3], t.began[2])
      BY <1>4
    <3>1. s[3] = files.vector /\ files.vector # Absent
      BY <1>7, <2>3, NamesAre DEF f
    <3>2. Newest("vector") = Age(files.vector)
      BY <1>2, <3>1
    <3>3. t.began # <<>> => Seen(Age(files.vector), t.began[2])
      BY <1>2, <3>2 DEF Ordered
    <3> QED
      BY <1>2, <3>1, <3>2, <3>3 DEF Seen, NotBefore
  <2>9. t.began # <<>> => Seen(Newest("bm25"), t.began[1]) /\ Seen(Newest("vector"), t.began[2])
    BY <1>2 DEF Ordered
  <2>10. Ordered(u, Newest("bm25"), Newest("vector"))
    BY <2>3, <2>4, <2>7, <2>8, <2>9 DEF Ordered
  <2>11. t.calm /\ k >= 2 => files.bm25 # Absent
    <3>1. CASE k = 2
      BY <1>7, <3>1, NamesAre DEF f
    <3>2. CASE k = 3
      BY <1>2, <1>4, <3>2 DEF Calm, k
    <3> QED
      BY <1>4, <3>1, <3>2
  <2>12. Calm(u, files)
    BY <1>2, <2>3, <2>4, <2>8, <2>11 DEF Calm
  <2> QED
    BY <2>1, <2>4, <2>5, <2>6, <2>10, <2>12, MoveKeeps
<1> QED
  BY <1>6, <1>7

\* A query over a connection that is no older than the search gives an answer that
\* is none either.
LEMMA AnswerKeeps ==
    ASSUME IInv, NEW w \in Threads, NEW conn \in Connection, Answered(w, conn),
           thread[w].pc \in {"connect", "schema"},
           ConnSane(conn, files, Newest("vector")),
           thread[w].began # <<>> => ConnFits(conn, thread[w].began[2])
    PROVE  IInv'
<1> DEFINE t == thread[w]
           rows == IF conn.sees = Live THEN files.vector ELSE conn.sees
           h == heap[t.id]
           u == [t EXCEPT !.pc = "answer", !.id = 0, !.conn = NoConn, !.found = <<h.bm25, rows>>]
<1>1. CASE t.round = 2
  BY <1>1, EndKeeps DEF Answered, Outcomes
<1>2. CASE t.round # 2
  <2>1. /\ t \in SearchState /\ Stands(t) /\ Ordered(t, Newest("bm25"), Newest("vector"))
        /\ Calm(t, files) /\ t.round \in {1, 2}
        /\ t.id # 0 => t.id \in DOMAIN heap /\ h \in Retriever /\ Suits(h, t)
        /\ files.vector \in Contents \cup {Absent}
        /\ files.vector # Absent => Newest("vector") = Age(files.vector)
    BY SearchIs DEF SearchState
  <2>2. t.round = 1 /\ t.id # 0 /\ t.began # <<>>
    BY <1>2, <2>1 DEF Stands
  <2>3. NoConn \notin Connection /\ conn # NoConn
    BY ValuesAssumption
  <2>4. rows \in Contents /\ Seen(Newest("vector"), rows) /\ NotBefore(rows, t.began[2])
    <3>1. CASE conn.sees = Live
      <4>1. rows = files.vector /\ files.vector # Absent
        BY <2>3, <3>1 DEF ConnSane
      <4>2. Seen(Age(files.vector), t.began[2]) /\ Newest("vector") = Age(files.vector)
        BY <2>1, <2>2, <4>1 DEF Ordered
      <4>3. rows \in Contents /\ Age(rows) \in Nat
        BY <2>1, <4>1, ContentIs
      <4> QED
        BY <4>1, <4>2, <4>3 DEF Seen, NotBefore
    <3>2. CASE conn.sees # Live
      <4>1. rows = conn.sees /\ rows \in Contents
        BY <3>2 DEF Connection
      <4>2. Seen(Newest("vector"), rows)
        BY <2>3, <3>2, <4>1 DEF ConnSane
      <4>3. NotBefore(rows, t.began[2])
        BY <2>2, <2>3, <3>2, <4>1 DEF ConnFits
      <4> QED
        BY <4>1, <4>2, <4>3
    <3> QED
      BY <3>1, <3>2
  <2>5. h.bm25 \in Contents /\ Seen(Newest("bm25"), h.bm25) /\ NotBefore(h.bm25, t.began[1])
    <3>1. h.bm25 \in Contents /\ NotBefore(h.bm25, t.began[1])
      BY <2>1, <2>2 DEF Retriever, Suits
    <3>2. Seen(Newest("bm25"), h.bm25)
      BY <2>1, <2>2 DEF IInv, HeapInv
    <3> QED
      BY <3>1, <3>2
  <2>6. /\ thread' = [thread EXCEPT ![w] = u] /\ heap' = Keep(heap, cache, thread')
        /\ UNCHANGED <<files, build, cache>>
    BY <1>2 DEF Answered
  <2>7. heap' = heap \/ heap' = Keep(heap, cache', thread')
    BY <2>6
  <2> HIDE DEF rows
  <2>8. /\ u.pc = "answer" /\ u.id = 0 /\ u.conn = NoConn /\ u.found = <<h.bm25, rows>>
        /\ u.stats = t.stats /\ u.began = t.began /\ u.round = t.round /\ u.calm = t.calm
    BY <2>1 DEF SearchState
  <2>9. u \in SearchState
    BY <2>1, <2>4, <2>5 DEF SearchState, SearchPoints
  <2> HIDE DEF u, h
  <2>10. u.found # <<>> /\ u.found[1] = h.bm25 /\ u.found[2] = rows
    BY <2>8
  <2>11. Stands(u)
    BY <2>2, <2>8 DEF Stands
  <2>12. Ordered(u, Newest("bm25"), Newest("vector"))
    BY <2>1, <2>2, <2>4, <2>5, <2>8, <2>10 DEF Ordered
  <2>13. Calm(u, files)
    BY <2>1, <2>2, <2>8 DEF Calm
  <2> QED
    BY <2>6, <2>7, <2>8, <2>9, <2>11, <2>12, <2>13, LetsGo
<1> QED
  BY <1>1, <1>2

LEMMA QueryKeeps ==
    ASSUME IInv, NEW w \in Threads, EmbedFails(w) \/ Reuse(w) \/ Opened(w)
    PROVE  IInv'
<1> DEFINE t == thread[w]
           h == heap[t.id]
<1>1. /\ t \in SearchState /\ Stands(t) /\ ConnSane(t.conn, files, Newest("vector"))
      /\ t.id # 0 => /\ t.id \in DOMAIN heap /\ h \in Retriever /\ Suits(h, t)
                     /\ Joins(t.conn, t.id)
  BY SearchIs
<1>2. CASE End(w, "unexpected")
  BY <1>2, EndKeeps DEF Outcomes
<1>3. CASE Reuse(w) /\ Answered(w, h.conn)
  <2>1. t.pc = "connect" /\ h.conn # NoConn
    BY <1>3 DEF Reuse, At
  <2>2. t.id # 0
    BY <1>1, <2>1 DEF Stands
  <2>3. h.conn \in Connection
    BY <1>1, <2>1, <2>2 DEF Retriever
  <2>4. ConnSane(h.conn, files, Newest("vector"))
    BY <1>1, <2>2 DEF IInv, HeapInv
  <2>5. t.began # <<>> => ConnFits(h.conn, t.began[2])
    BY <1>1, <2>2 DEF Suits
  <2> HIDE DEF h
  <2> QED
    BY <1>3, <2>1, <2>3, <2>4, <2>5, AnswerKeeps
<1>4. CASE Opened(w) /\ Answered(w, t.conn)
  <2>1. t.pc = "schema"
    BY <1>4 DEF Opened, At
  <2>2. t.id # 0 /\ t.conn # NoConn
    BY <1>1, <2>1 DEF Stands
  <2>3. t.conn \in Connection
    BY <1>1, <2>2 DEF SearchState
  <2>4. t.began # <<>> => ConnFits(t.conn, t.began[2])
    BY <1>1, <2>2 DEF Joins
  <2> QED
    BY <1>1, <1>4, <2>1, <2>3, <2>4, AnswerKeeps
<1> QED
  BY <1>2, <1>3, <1>4 DEF EmbedFails, Reuse, Opened

LEMMA EntryIs ==
    ASSUME IInv, NEW e \in cache
    PROVE  /\ e.key \in Seq(Contents) /\ Len(e.key) = 3
           /\ e.key[2] \in Contents /\ e.key[3] \in Contents
           /\ e.id \in DOMAIN heap /\ e.id # 0 /\ e.id \in Nat /\ heap[e.id] \in Retriever
           /\ Serves(heap[e.id], e) /\ Seen(Newest("vector"), e.key[3])
<1>1. CacheTypeOK /\ EntriesInv
  BY DEF IInv
<1>2. e.key \in Seq(Contents) /\ e.id \in DOMAIN heap
  BY <1>1 DEF CacheTypeOK
<1>3. e.id # 0 /\ e.id \in Nat /\ heap[e.id] \in Retriever
  BY <1>1, <1>2 DEF CacheTypeOK
<1>4. Len(e.key) = 3
  BY <1>1 DEF EntriesInv
<1>5. e.key[2] \in Contents /\ e.key[3] \in Contents
  BY <1>2, <1>4
<1> QED
  BY <1>1, <1>2, <1>3, <1>4, <1>5 DEF EntriesInv

\* A search that is filed under the fingerprint of a cache entry may use its retriever.
LEMMA HitSuits ==
    ASSUME IInv, NEW w \in Threads, NEW e \in cache, e.key = thread[w].stats, thread[w].began # <<>>
    PROVE  /\ NotBefore(heap[e.id].bm25, thread[w].began[1])
           /\ NotBefore(e.key[3], thread[w].began[2])
<1> DEFINE t == thread[w]
<1>1. /\ t \in SearchState /\ Ordered(t, Newest("bm25"), Newest("vector"))
  BY SearchIs
<1>2. t.began[1] \in Contents \cup {Absent}
  BY <1>1, LocalsAre
<1>3. /\ Len(e.key) = 3 /\ e.key[2] \in Contents /\ heap[e.id].bm25 \in Contents
      /\ NotBefore(heap[e.id].bm25, e.key[2])
  BY EntryIs DEF Serves, Retriever
<1>4. NotBefore(e.key[2], t.began[1]) /\ NotBefore(e.key[3], t.began[2])
  BY <1>1, <1>3 DEF Ordered
<1> QED
  BY <1>2, <1>3, <1>4, Later

LEMMA ConnLater ==
    ASSUME NEW conn \in Connection \cup {NoConn}, NEW d \in Contents,
           NEW x \in Contents \cup {Absent}, ConnFits(conn, d), NotBefore(d, x)
    PROVE  ConnFits(conn, x)
<1>1. CASE conn # NoConn /\ conn.sees # Live
  <2>1. conn.sees \in Contents
    BY <1>1 DEF Connection
  <2>2. NotBefore(conn.sees, d)
    BY <1>1 DEF ConnFits
  <2> QED
    BY <2>1, <2>2, Later DEF ConnFits
<1> QED
  BY <1>1 DEF ConnFits

LEMMA LookUpKeeps ==
    ASSUME IInv, NEW w \in Threads, LookUp(w)
    PROVE  IInv'
<1> DEFINE t == thread[w]
<1>1. CacheTypeOK /\ BuildInv /\ HeapInv /\ EntriesInv /\ LocalsInv /\ SharedInv
  BY DEF IInv
<1>2. /\ t \in SearchState /\ Stands(t) /\ Ordered(t, Newest("bm25"), Newest("vector"))
      /\ Calm(t, files)
  BY SearchIs
<1>3. /\ t.pc = "look" /\ Len(t.stats) = 3 /\ t.id = 0 /\ t.conn = NoConn /\ t.found = <<>>
      /\ t.round = 1 => t.began # <<>>
  BY <1>2 DEF LookUp, At, Stands
<1>4. CASE Move(w, [t EXCEPT !.pc = "load"])
  <2> DEFINE u == [t EXCEPT !.pc = "load"]
  <2>1. /\ u.pc = "load" /\ u.stats = t.stats /\ u.id = 0 /\ u.conn = NoConn /\ u.found = <<>>
        /\ u.began = t.began /\ u.round = t.round /\ u.calm = t.calm
    BY <1>2, <1>3 DEF SearchState
  <2>2. u \in SearchState
    BY <1>2 DEF SearchState, SearchPoints
  <2>3. Move(w, u)
    BY <1>4
  <2> HIDE DEF u
  <2>4. Stands(u)
    BY <1>3, <2>1 DEF Stands
  <2>5. Ordered(u, Newest("bm25"), Newest("vector"))
    BY <1>2, <2>1 DEF Ordered
  <2>6. Calm(u, files)
    BY <1>2, <1>3, <2>1 DEF Calm
  <2> QED
    BY <2>1, <2>2, <2>3, <2>4, <2>5, <2>6, MoveKeeps
<1>5. ASSUME NEW e \in cache, e.key = t.stats, Move(w, Search(t, e.id))
      PROVE  IInv'
  <2> DEFINE u == Search(t, e.id)
  <2>1. /\ e.key \in Seq(Contents) /\ e.key[3] \in Contents /\ e.id \in DOMAIN heap /\ e.id # 0
        /\ e.id \in Nat /\ heap[e.id] \in Retriever /\ Serves(heap[e.id], e)
    BY EntryIs
  <2>2. /\ u.pc = "connect" /\ u.stats = <<>> /\ u.id = e.id /\ u.conn = NoConn /\ u.found = <<>>
        /\ u.began = t.began /\ u.round = t.round /\ u.calm = t.calm
    BY <1>2, <1>3 DEF Search, SearchState
  <2>3. u \in SearchState
    <3>1. <<>> \in Seq(Contents)
      OBVIOUS
    <3> QED
      BY <1>2, <2>1, <3>1 DEF Search, SearchState, SearchPoints
  <2>4. thread' = [thread EXCEPT ![w] = u] /\ UNCHANGED <<files, build, cache, heap>>
    BY <1>5 DEF Move
  <2> HIDE DEF u
  <2>5. Stands(u)
    BY <1>3, <2>1, <2>2 DEF Stands
  <2>6. Ordered(u, Newest("bm25"), Newest("vector"))
    BY <1>2, <2>2 DEF Ordered
  <2>7. Calm(u, files)
    BY <1>2, <1>3, <2>2 DEF Calm
  <2>8. ConnSane(u.conn, files, Newest("vector"))
    BY <2>2 DEF ConnSane
  <2>9. /\ cache' \subseteq [key : Seq(Contents), id : DOMAIN heap']
        /\ heap' \in [DOMAIN heap' -> Retriever]
        /\ IsFiniteSet(DOMAIN heap') /\ DOMAIN heap' \subseteq Nat \ {0}
    BY <1>1, <2>4 DEF CacheTypeOK
  <2>10. \A v \in Threads : thread'[v].id \in DOMAIN heap' \cup {0}
    BY <1>1, <2>1, <2>2, <2>4 DEF CacheTypeOK
  <2>11. /\ CacheTypeOK' /\ BuildInv' /\ LocalsInv'
         /\ thread'[w] = u /\ \A v \in Threads \ {w} : thread'[v] = thread[v]
         /\ Newest("bm25")' = Newest("bm25") /\ Newest("vector")' = Newest("vector")
    BY <2>3, <2>4, <2>5, <2>6, <2>7, <2>8, <2>9, <2>10, OneMoves
  <2>12. HeapInv' /\ EntriesInv'
    BY <1>1, <2>4, <2>11 DEF HeapInv, EntriesInv
  <2>13. t.began # <<>> => /\ t.began[2] \in Contents \cup {Absent}
                           /\ NotBefore(heap[e.id].bm25, t.began[1])
                           /\ NotBefore(e.key[3], t.began[2])
    BY <1>2, <1>5, HitSuits, LocalsAre
  <2>14. ASSUME NEW conn \in Connection \cup {NoConn}, ConnFits(conn, e.key[3]), t.began # <<>>
         PROVE  ConnFits(conn, t.began[2])
    BY <2>1, <2>13, <2>14, ConnLater
  <2>15. Suits(heap[e.id], u)
    BY <2>1, <2>2, <2>13, <2>14 DEF Serves, Suits, Retriever
  <2>16. ASSUME NEW v \in Threads
         PROVE  Own(v)'
    <3>1. CASE v = w
      BY <2>2, <2>11, <3>1 DEF Own, At
    <3>2. CASE v # w
      <4> SUFFICES ASSUME At(v, "store")' PROVE Own(v)'
        BY DEF Own
      <4>1. thread'[v] = thread[v] /\ At(v, "store") /\ Own(v)
        BY <1>1, <2>11, <3>2 DEF At, SharedInv
      <4>2. u.id # thread[v].id
        BY <2>2, <4>1 DEF Own
      <4> QED
        BY <2>4, <2>11, <4>1, <4>2 DEF Own
    <3> QED
      BY <3>1, <3>2
  <2>17. ASSUME NEW v \in Threads \ {w}, thread[v].id # 0
         PROVE  Suits(heap[thread[v].id], thread[v]) /\ Joins(thread[v].conn, thread[v].id)'
    <3>1. /\ Suits(heap[thread[v].id], thread[v]) /\ Joins(thread[v].conn, thread[v].id)
          /\ thread[v].conn \in Connection \cup {NoConn}
      BY <1>1, <2>17 DEF SharedInv, CacheTypeOK, SearchState
    <3>2. thread[v].id = e.id => ConnFits(thread[v].conn, e.key[3])
      BY <3>1 DEF Joins
    <3>3. thread[v].id = u.id /\ u.began # <<>> => ConnFits(thread[v].conn, u.began[2])
      BY <2>2, <2>14, <3>1, <3>2
    <3> QED
      BY <2>4, <2>11, <3>1, <3>3 DEF Joins
  <2>18. ASSUME NEW v \in Threads, thread'[v].id # 0
         PROVE  Suits(heap'[thread'[v].id], thread'[v])
    BY <2>2, <2>4, <2>11, <2>15, <2>17, <2>18
  <2>19. Joins(NoConn, e.id)'
    BY DEF Joins, ConnFits
  <2>20. SharedInv'
    BY <2>2, <2>11, <2>16, <2>17, <2>18, <2>19 DEF SharedInv
  <2> QED
    BY <2>11, <2>12, <2>20 DEF IInv
<1> QED
  BY <1>4, <1>5 DEF LookUp, Hits

\* There is always an id that no retriever has.
LEMMA NewIdIsNew ==
    ASSUME IsFiniteSet(DOMAIN heap), DOMAIN heap \subseteq Nat \ {0}
    PROVE  NewId \in Nat \ {0} /\ NewId \notin DOMAIN heap
<1> DEFINE n == Cardinality(DOMAIN heap)
<1>1. n \in Nat
  BY FS_CardinalityType
<1>2. Cardinality(1 .. n + 1) = n + 1
  <2>1. n + 1 \in Nat /\ 1 \in Nat /\ 1 \in Int /\ n + 1 \in Int
    BY <1>1
  <2>2. Cardinality(1 .. n + 1) = IF 1 > n + 1 THEN 0 ELSE (n + 1) - 1 + 1
    BY <2>1, FS_Interval
  <2> QED
    BY <1>1, <2>2
<1>3. \E i \in 1 .. n + 1 : i \notin DOMAIN heap
  <2> SUFFICES ASSUME 1 .. n + 1 \subseteq DOMAIN heap PROVE FALSE
    OBVIOUS
  <2>1. Cardinality(1 .. n + 1) <= Cardinality(DOMAIN heap)
    BY FS_Subset
  <2> HIDE DEF n
  <2>2. n + 1 <= n
    BY <1>2, <2>1 DEF n
  <2> QED
    BY <1>1, <2>2
<1> HIDE DEF n
<1>4. NewId \in 1 .. n + 1 /\ NewId \notin DOMAIN heap
  BY <1>3 DEF NewId, n
<1> QED
  BY <1>1, <1>4

LEMMA LoadKeeps ==
    ASSUME IInv, NEW w \in Threads, Load(w)
    PROVE  IInv'
<1> DEFINE t == thread[w]
           made == [bm25 |-> files.bm25, conn |-> NoConn]
           u == [t EXCEPT !.id = NewId, !.pc = "store"]
<1>1. CacheTypeOK /\ BuildInv /\ HeapInv /\ EntriesInv /\ LocalsInv /\ SharedInv
  BY DEF IInv
<1>2. /\ t \in SearchState /\ Stands(t) /\ Ordered(t, Newest("bm25"), Newest("vector"))
      /\ Calm(t, files)
      /\ files.bm25 \in Contents \cup {Absent}
      /\ files.bm25 # Absent => Newest("bm25") = Age(files.bm25)
  BY SearchIs
<1>3. /\ t.pc = "load" /\ Len(t.stats) = 3 /\ t.id = 0 /\ t.conn = NoConn /\ t.found = <<>>
      /\ t.round = 1 => t.began # <<>>
  BY <1>2 DEF Load, At, Stands
<1>4. CASE files.bm25 = Absent \/ Torn(files.bm25)
  <2>1. PICK outcome \in {"missing", "unexpected"} :
           End(w, outcome) /\ (outcome = "missing" => files.bm25 = Absent)
    BY <1>4 DEF Load
  <2>2. "bm25" \in DOMAIN files
    BY <1>1, NamesAre DEF BuildInv
  <2> QED
    BY <2>1, <2>2, EndKeeps DEF Outcomes
<1>5. CASE ~(files.bm25 = Absent \/ Torn(files.bm25))
  <2>1. files.bm25 \in Contents /\ Newest("bm25") = Age(files.bm25) /\ files.bm25 # Absent
    BY <1>2, <1>5
  <2>2. NewId \in Nat /\ NewId # 0 /\ NewId \notin DOMAIN heap
    BY <1>1, NewIdIsNew DEF CacheTypeOK
  <2>3. /\ thread' = [thread EXCEPT ![w] = u]
        /\ heap' = [i \in DOMAIN heap \cup {NewId} |-> IF i = NewId THEN made ELSE heap[i]]
        /\ UNCHANGED <<files, build, cache>>
    BY <1>5 DEF Load
  <2>4. made \in Retriever /\ made.bm25 = files.bm25 /\ made.conn = NoConn
    BY <2>1 DEF Retriever
  <2>5. /\ u.pc = "store" /\ u.stats = t.stats /\ u.id = NewId /\ u.conn = NoConn /\ u.found = <<>>
        /\ u.began = t.began /\ u.round = t.round /\ u.calm = t.calm
    BY <1>2, <1>3 DEF SearchState
  <2>6. u \in SearchState
    BY <1>2, <2>2 DEF SearchState, SearchPoints
  <2> HIDE DEF u, made
  <2>7. /\ DOMAIN heap' = DOMAIN heap \cup {NewId} /\ heap'[NewId] = made
        /\ \A i \in DOMAIN heap : heap'[i] = heap[i]
    BY <2>2, <2>3
  <2>8. heap' \in [DOMAIN heap' -> Retriever]
    <3>1. \A i \in DOMAIN heap : heap[i] \in Retriever
      BY <1>1 DEF CacheTypeOK
    <3>2. heap' = [i \in DOMAIN heap' |-> heap'[i]]
      BY <2>3
    <3>3. \A i \in DOMAIN heap' : heap'[i] \in Retriever
      BY <2>4, <2>7, <3>1
    <3> QED
      BY <3>2, <3>3
  <2>9. IsFiniteSet(DOMAIN heap') /\ DOMAIN heap' \subseteq Nat \ {0}
    BY <1>1, <2>2, <2>7, FS_AddElement DEF CacheTypeOK
  <2>10. cache' \subseteq [key : Seq(Contents), id : DOMAIN heap']
    BY <1>1, <2>3, <2>7 DEF CacheTypeOK
  <2>11. \A v \in Threads : thread'[v].id \in DOMAIN heap' \cup {0}
    BY <1>1, <2>3, <2>5, <2>7 DEF CacheTypeOK
  <2>12. Stands(u)
    BY <1>3, <2>2, <2>5 DEF Stands
  <2>13. Ordered(u, Newest("bm25"), Newest("vector"))
    BY <1>2, <2>5 DEF Ordered
  <2>14. Calm(u, files)
    BY <1>2, <1>3, <2>5 DEF Calm
  <2>15. ConnSane(u.conn, files, Newest("vector"))
    BY <2>5 DEF ConnSane
  <2>16. /\ CacheTypeOK' /\ BuildInv' /\ LocalsInv'
         /\ thread'[w] = u /\ \A v \in Threads \ {w} : thread'[v] = thread[v]
         /\ Newest("bm25")' = Newest("bm25") /\ Newest("vector")' = Newest("vector")
    BY <2>3, <2>6, <2>8, <2>9, <2>10, <2>11, <2>12, <2>13, <2>14, <2>15, OneMoves
  <2>17. HeapInv'
    <3> SUFFICES ASSUME NEW i \in DOMAIN heap'
                 PROVE  /\ Seen(Newest("bm25"), heap'[i].bm25)
                        /\ ConnSane(heap'[i].conn, files, Newest("vector"))
      BY <2>3, <2>16 DEF HeapInv
    <3>1. CASE i = NewId
      <4>1. Age(files.bm25) \in Nat
        BY <2>1, ContentIs
      <4> QED
        BY <2>1, <2>4, <2>7, <3>1, <4>1 DEF Seen, ConnSane
    <3>2. CASE i # NewId
      BY <1>1, <2>7, <3>2 DEF HeapInv
    <3> QED
      BY <3>1, <3>2
  <2>18. EntriesInv'
    BY <1>1, <2>3, <2>7, <2>16 DEF EntriesInv, CacheTypeOK
  <2>19. \A e \in cache : e.id # NewId
    BY <1>1, <2>2 DEF CacheTypeOK
  <2>20. \A v \in Threads : thread[v].id # NewId
    BY <1>1, <2>2 DEF CacheTypeOK
  <2>21. NotBefore(files.bm25, t.stats[2])
    BY <1>2, <1>3, <2>1 DEF Ordered, Seen, NotBefore
  <2>22. t.began # <<>> => NotBefore(files.bm25, t.began[1])
    BY <1>2, <2>1 DEF Ordered, Seen, NotBefore
  <2>23. ASSUME NEW v \in Threads
         PROVE  Own(v)'
    <3>1. CASE v = w
      BY <2>3, <2>4, <2>5, <2>7, <2>16, <2>19, <2>20, <2>21, <3>1 DEF Own
    <3>2. CASE v # w
      <4> SUFFICES ASSUME At(v, "store")' PROVE Own(v)'
        BY DEF Own
      <4>1. thread'[v] = thread[v] /\ At(v, "store") /\ Own(v)
        BY <1>1, <2>16, <3>2 DEF At, SharedInv
      <4>2. thread[v].id \in DOMAIN heap
        BY <1>1, <4>1 DEF CacheTypeOK, LocalsInv, Stands, At
      <4>3. u.id # thread[v].id
        BY <2>5, <2>20
      <4> QED
        BY <2>3, <2>7, <2>16, <4>1, <4>2, <4>3 DEF Own
    <3> QED
      BY <3>1, <3>2
  <2>24. ASSUME NEW v \in Threads \ {w}, thread[v].id # 0
         PROVE  Suits(heap'[thread[v].id], thread[v]) /\ Joins(thread[v].conn, thread[v].id)'
    <3>1. /\ Suits(heap[thread[v].id], thread[v]) /\ Joins(thread[v].conn, thread[v].id)
          /\ thread[v].id \in DOMAIN heap
      BY <1>1, <2>24 DEF SharedInv, CacheTypeOK
    <3>2. thread'[w].id # thread[v].id
      BY <2>5, <2>16, <2>20
    <3> QED
      BY <2>3, <2>7, <2>16, <3>1, <3>2 DEF Joins
  <2>25. Suits(heap'[u.id], u)
    BY <2>4, <2>5, <2>7, <2>22 DEF Suits, ConnFits
  <2>26. \A i : Joins(NoConn, i)'
    BY DEF Joins, ConnFits
  <2>27. SharedInv'
    BY <2>5, <2>16, <2>23, <2>24, <2>25, <2>26 DEF SharedInv
  <2> QED
    BY <2>16, <2>17, <2>18, <2>27 DEF IInv
<1> QED
  BY <1>4, <1>5

\* The connection a search has opened is as good for all that share its retriever.
LEMMA AssignKeeps ==
    ASSUME IInv, NEW w \in Threads, Assign(w)
    PROVE  IInv'
<1> DEFINE t == thread[w]
           u == [t EXCEPT !.pc = "schema"]
<1>1. CacheTypeOK /\ BuildInv /\ HeapInv /\ EntriesInv /\ LocalsInv /\ SharedInv
  BY DEF IInv
<1>2. /\ t \in SearchState /\ Stands(t) /\ Ordered(t, Newest("bm25"), Newest("vector"))
      /\ Calm(t, files) /\ ConnSane(t.conn, files, Newest("vector"))
  BY SearchIs
<1>3. t.pc = "assign" /\ t.id # 0 /\ t.conn # NoConn
  BY <1>2 DEF Assign, At, Stands
<1>4. t.conn \in Connection /\ t.id \in DOMAIN heap /\ Joins(t.conn, t.id)
  BY <1>2, <1>3, SearchIs DEF SearchState
<1>5. /\ heap' = [heap EXCEPT ![t.id].conn = t.conn]
      /\ thread' = [thread EXCEPT ![w] = u]
      /\ UNCHANGED <<files, build, cache>>
  BY DEF Assign
<1>6. /\ u.pc = "schema" /\ u.stats = t.stats /\ u.id = t.id /\ u.conn = t.conn /\ u.found = t.found
      /\ u.began = t.began /\ u.round = t.round /\ u.calm = t.calm
  BY <1>2 DEF SearchState
<1>7. u \in SearchState
  BY <1>2 DEF SearchState, SearchPoints
<1> HIDE DEF u
<1>8. /\ DOMAIN heap' = DOMAIN heap /\ heap' \in [DOMAIN heap' -> Retriever]
      /\ \A i \in DOMAIN heap : /\ heap[i] \in Retriever /\ heap'[i].bm25 = heap[i].bm25
                                /\ heap'[i].conn = IF i = t.id THEN t.conn ELSE heap[i].conn
                                /\ i # t.id => heap'[i] = heap[i]
  BY <1>1, <1>4, <1>5 DEF CacheTypeOK, Retriever
<1>9. /\ cache' \subseteq [key : Seq(Contents), id : DOMAIN heap']
      /\ IsFiniteSet(DOMAIN heap') /\ DOMAIN heap' \subseteq Nat \ {0}
      /\ \A v \in Threads : thread'[v].id \in DOMAIN heap' \cup {0}
  BY <1>1, <1>5, <1>6, <1>8 DEF CacheTypeOK
<1>10. Stands(u)
  BY <1>2, <1>3, <1>6 DEF Stands
<1>11. Ordered(u, Newest("bm25"), Newest("vector")) /\ Calm(u, files)
  BY <1>2, <1>3, <1>6 DEF Ordered, Calm
<1>12. ConnSane(u.conn, files, Newest("vector"))
  BY <1>2, <1>6
<1>13. /\ CacheTypeOK' /\ BuildInv' /\ LocalsInv'
       /\ thread'[w] = u /\ \A v \in Threads \ {w} : thread'[v] = thread[v]
       /\ Newest("bm25")' = Newest("bm25") /\ Newest("vector")' = Newest("vector")
  BY <1>5, <1>7, <1>8, <1>9, <1>10, <1>11, <1>12, OneMoves
<1>14. HeapInv'
  BY <1>1, <1>2, <1>5, <1>8, <1>13 DEF HeapInv
<1>15. EntriesInv'
  <2> SUFFICES ASSUME NEW e \in cache
               PROVE  Serves(heap'[e.id], e)
    BY <1>1, <1>5, <1>13 DEF EntriesInv
  <2>1. e.id \in DOMAIN heap /\ Serves(heap[e.id], e)
    BY EntryIs
  <2>2. e.id = t.id => ConnFits(t.conn, e.key[3])
    BY <1>4 DEF Joins
  <2> QED
    BY <1>8, <2>1, <2>2 DEF Serves
<1>16. \A v \in Threads : /\ thread'[v].id = thread[v].id /\ thread'[v].conn = thread[v].conn
                          /\ thread'[v].began = thread[v].began /\ thread'[v].stats = thread[v].stats
                          /\ v # w => thread'[v].pc = thread[v].pc
  BY <1>6, <1>13
<1>17. ASSUME NEW v \in Threads
       PROVE  Own(v)'
  <2>1. CASE v = w
    BY <1>6, <1>13, <2>1 DEF Own, At
  <2>2. CASE v # w
    <3> SUFFICES ASSUME At(v, "store")' PROVE Own(v)'
      BY DEF Own
    <3>1. At(v, "store") /\ Own(v)
      BY <1>1, <1>16, <2>2 DEF At, SharedInv
    <3>2. thread[v].id \in DOMAIN heap /\ thread[v].id # t.id
      BY <1>1, <2>2, <3>1 DEF CacheTypeOK, LocalsInv, Stands, At, Own
    <3> QED
      BY <1>5, <1>8, <1>16, <3>1, <3>2 DEF Own
  <2> QED
    BY <2>1, <2>2
<1>18. ASSUME NEW v \in Threads, thread[v].id # 0
       PROVE  Suits(heap'[thread[v].id], thread[v]) /\ Joins(thread[v].conn, thread[v].id)'
  <2>1. /\ Suits(heap[thread[v].id], thread[v]) /\ Joins(thread[v].conn, thread[v].id)
        /\ thread[v].id \in DOMAIN heap
    BY <1>1, <1>18 DEF SharedInv, CacheTypeOK
  <2>2. thread[v].id = t.id /\ thread[v].began # <<>> => ConnFits(t.conn, thread[v].began[2])
    BY <1>4 DEF Joins
  <2>3. Suits(heap'[thread[v].id], thread[v])
    BY <1>8, <2>1, <2>2 DEF Suits
  <2> QED
    BY <1>5, <1>16, <2>1, <2>3 DEF Joins
<1>19. \A v \in Threads : thread[v].id # 0 => Suits(heap'[thread'[v].id], thread'[v])
  BY <1>16, <1>18 DEF Suits
<1>20. SharedInv'
  BY <1>16, <1>17, <1>18, <1>19 DEF SharedInv
<1> QED
  BY <1>13, <1>14, <1>15, <1>20 DEF IInv

\* Under the lock a search files the retriever it has loaded, and closes those it evicts.
LEMMA FilingKeeps ==
    ASSUME IInv, NEW w \in Threads, Store(w)
    PROVE  IInv'
<1> DEFINE t == thread[w]
           lapsed == Lapsed(t.stats)
           new == [key |-> t.stats, id |-> t.id]
           closed == [i \in DOMAIN heap |->
                        IF \E e \in lapsed : e.id = i THEN [heap[i] EXCEPT !.conn = NoConn] ELSE heap[i]]
           u == Search(t, t.id)
<1>1. CacheTypeOK /\ BuildInv /\ HeapInv /\ EntriesInv /\ LocalsInv /\ SharedInv
  BY DEF IInv
<1>2. /\ t \in SearchState /\ Stands(t) /\ Ordered(t, Newest("bm25"), Newest("vector"))
      /\ Calm(t, files) /\ Own(w)
      /\ t.id # 0 => t.id \in DOMAIN heap /\ Suits(heap[t.id], t)
  BY SearchIs
<1>3. /\ t.pc = "store" /\ Len(t.stats) = 3 /\ t.id # 0 /\ t.conn = NoConn /\ t.found = <<>>
      /\ t.round = 1 => t.began # <<>>
  BY <1>2 DEF Store, At, Stands
<1>4. CASE \E e \in lapsed : /\ cache' = cache \ {e}
                             /\ thread' = [thread EXCEPT ![w] = [Fresh EXCEPT !.pc = "unexpected"]]
                             /\ heap' = Keep(heap, cache', thread')
  <2> DEFINE v == [Fresh EXCEPT !.pc = "unexpected"]
  <2>1. /\ v.pc = "unexpected" /\ v.round = 1 /\ v.stats = <<>> /\ v.id = 0 /\ v.conn = NoConn
        /\ v.began = <<>> /\ v.found = <<>> /\ ~v.calm
    BY DEF Fresh
  <2>2. v \in SearchState
    BY NobodyBegins DEF SearchState, SearchPoints, Outcomes
  <2>3. cache' \subseteq cache /\ thread' = [thread EXCEPT ![w] = v] /\ UNCHANGED <<files, build>>
    BY <1>4 DEF Store
  <2>4. heap' = heap \/ heap' = Keep(heap, cache', thread')
    BY <1>4
  <2> HIDE DEF v
  <2>5. Stands(v) /\ Ordered(v, Newest("bm25"), Newest("vector")) /\ Calm(v, files)
    BY <2>1 DEF Stands, Ordered, Calm
  <2> QED
    BY <2>1, <2>2, <2>3, <2>4, <2>5, LetsGo
<1>5. CASE /\ cache' = {e \in cache \ lapsed : e.key # t.stats} \cup {new}
           /\ thread' = [thread EXCEPT ![w] = u]
           /\ heap' = Keep(closed, cache', thread')
  <2>1. cache' = {new} /\ new.key = t.stats /\ new.id = t.id
    <3>1. {e \in cache \ lapsed : e.key # t.stats} = {}
      BY DEF Lapsed
    <3> QED
      BY <1>5, <3>1
  <2>2. UNCHANGED <<files, build>>
    BY DEF Store
  <2>3. t.id \in DOMAIN heap /\ t.id \in Nat
    BY <1>1, <1>2, <1>3 DEF CacheTypeOK
  <2>4. /\ u.pc = "connect" /\ u.stats = <<>> /\ u.id = t.id /\ u.conn = NoConn /\ u.found = <<>>
        /\ u.began = t.began /\ u.round = t.round /\ u.calm = t.calm
    BY <1>2, <1>3 DEF Search, SearchState
  <2>5. u \in SearchState
    <3>1. <<>> \in Seq(Contents)
      OBVIOUS
    <3> QED
      BY <1>2, <2>3, <3>1 DEF Search, SearchState, SearchPoints
  <2> HIDE DEF u
  <2>6. thread'[w] = u /\ \A v \in Threads \ {w} : thread'[v] = thread[v]
    BY <1>1, <1>5 DEF CacheTypeOK
  <2>7. ASSUME NEW i \in DOMAIN heap
        PROVE  /\ closed[i].bm25 = heap[i].bm25 /\ closed[i] \in Retriever
               /\ closed[i].conn = heap[i].conn \/ closed[i].conn = NoConn
    <3>1. heap[i] \in Retriever
      BY <1>1 DEF CacheTypeOK
    <3> QED
      BY <3>1 DEF Retriever
  <2>8. DOMAIN closed = DOMAIN heap
    OBVIOUS
  <2> HIDE DEF closed
  <2> DEFINE K == {i \in DOMAIN closed : (\E e \in cache' : e.id = i)
                                         \/ \E v \in Threads : thread'[v].id = i}
  <2>9. heap' = [i \in K |-> closed[i]]
    BY <1>5 DEF Keep, Restrict
  <2>10. /\ K \subseteq DOMAIN heap /\ t.id \in K
         /\ \A v \in Threads : thread'[v].id \in K \cup {0}
    <3>1. \A v \in Threads : thread'[v].id \in DOMAIN heap \cup {0}
      BY <1>1, <2>3, <2>4, <2>6 DEF CacheTypeOK
    <3> QED
      BY <2>1, <2>3, <2>8, <3>1
  <2> HIDE DEF K
  <2>11. /\ DOMAIN heap' = K
         /\ \A i \in K : /\ heap'[i].bm25 = heap[i].bm25 /\ heap'[i] \in Retriever
                         /\ heap'[i].conn = heap[i].conn \/ heap'[i].conn = NoConn
    BY <2>7, <2>9, <2>10
  <2>12. heap' \in [DOMAIN heap' -> Retriever]
    BY <2>9, <2>11
  <2>13. /\ IsFiniteSet(DOMAIN heap') /\ DOMAIN heap' \subseteq Nat \ {0}
         /\ \A v \in Threads : thread'[v].id \in DOMAIN heap' \cup {0}
    BY <1>1, <2>10, <2>11, FS_Subset DEF CacheTypeOK
  <2>14. cache' \subseteq [key : Seq(Contents), id : DOMAIN heap']
    BY <1>2, <2>1, <2>10, <2>11 DEF SearchState
  <2>15. Stands(u)
    BY <1>3, <2>4 DEF Stands
  <2>16. Ordered(u, Newest("bm25"), Newest("vector"))
    BY <1>2, <2>4 DEF Ordered
  <2>17. Calm(u, files)
    BY <1>2, <1>3, <2>4 DEF Calm
  <2>18. ConnSane(u.conn, files, Newest("vector"))
    BY <2>4 DEF ConnSane
  <2>19. thread' = [thread EXCEPT ![w] = u]
    BY <1>5
  <2>20. /\ CacheTypeOK' /\ BuildInv' /\ LocalsInv'
         /\ Newest("bm25")' = Newest("bm25") /\ Newest("vector")' = Newest("vector")
    BY <2>2, <2>5, <2>12, <2>13, <2>14, <2>15, <2>16, <2>17, <2>18, <2>19, OneMoves
  <2>21. HeapInv'
    <3> SUFFICES ASSUME NEW i \in DOMAIN heap'
                 PROVE  /\ Seen(Newest("bm25"), heap'[i].bm25)
                        /\ ConnSane(heap'[i].conn, files, Newest("vector"))
      BY <2>2, <2>20 DEF HeapInv
    <3>1. /\ i \in DOMAIN heap /\ heap'[i].bm25 = heap[i].bm25
          /\ heap'[i].conn = heap[i].conn \/ heap'[i].conn = NoConn
      BY <2>10, <2>11
    <3> QED
      BY <1>1, <3>1 DEF HeapInv, ConnSane
  <2>22. /\ heap[t.id].conn = NoConn /\ NotBefore(heap[t.id].bm25, t.stats[2])
         /\ \A v \in Threads \ {w} : thread[v].id # t.id
    BY <1>2, <1>3 DEF Own, At
  <2>23. heap'[t.id].conn = NoConn /\ heap'[t.id].bm25 = heap[t.id].bm25
    BY <2>10, <2>11, <2>22
  <2>24. EntriesInv'
    <3>1. Seen(Newest("vector"), t.stats[3])
      BY <1>2, <1>3 DEF Ordered
    <3>2. Serves(heap'[new.id], new)
      BY <2>1, <2>22, <2>23 DEF Serves, ConnFits
    <3> HIDE DEF new
    <3> QED
      BY <1>3, <2>1, <2>20, <3>1, <3>2 DEF EntriesInv
  <2>25. ASSUME NEW v \in Threads
         PROVE  Own(v)'
    <3>1. CASE v = w
      BY <2>4, <2>6, <3>1 DEF Own, At
    <3>2. CASE v # w
      <4> SUFFICES ASSUME At(v, "store")' PROVE Own(v)'
        BY DEF Own
      <4>1. thread'[v] = thread[v] /\ At(v, "store") /\ Own(v) /\ thread[v].id # 0
        BY <1>1, <2>6, <3>2 DEF At, SharedInv, LocalsInv, Stands
      <4>2. thread[v].id \in K /\ heap[thread[v].id].conn = NoConn
        BY <2>10, <4>1 DEF Own
      <4>3. /\ heap'[thread[v].id].conn = NoConn
            /\ heap'[thread[v].id].bm25 = heap[thread[v].id].bm25
        BY <2>11, <4>2
      <4>4. \A e \in cache' : e.id # thread[v].id
        BY <2>1, <2>22, <3>2
      <4>5. \A x \in Threads \ {v} : thread'[x].id # thread[v].id
        BY <2>4, <2>6, <2>22, <3>2, <4>1 DEF Own
      <4> QED
        BY <4>1, <4>3, <4>4, <4>5 DEF Own
    <3> QED
      BY <3>1, <3>2
  <2>26. ASSUME NEW v \in Threads \ {w}, thread[v].id # 0
         PROVE  Suits(heap'[thread[v].id], thread[v]) /\ Joins(thread[v].conn, thread[v].id)'
    <3>1. /\ Suits(heap[thread[v].id], thread[v]) /\ Joins(thread[v].conn, thread[v].id)
          /\ thread[v].id \in K
      BY <1>1, <2>6, <2>10, <2>26 DEF SharedInv
    <3>2. /\ heap'[thread[v].id].bm25 = heap[thread[v].id].bm25
          /\ \/ heap'[thread[v].id].conn = heap[thread[v].id].conn
             \/ heap'[thread[v].id].conn = NoConn
      BY <2>11, <3>1
    <3>3. thread[v].id # t.id
      BY <2>22
    <3>4. Suits(heap'[thread[v].id], thread[v])
      BY <3>1, <3>2 DEF Suits, ConnFits
    <3> QED
      BY <2>1, <2>4, <2>6, <3>1, <3>3, <3>4 DEF Joins
  <2>27. Suits(heap'[u.id], u)
    BY <1>2, <1>3, <2>4, <2>23 DEF Suits, ConnFits
  <2>28. \A i : Joins(NoConn, i)'
    BY DEF Joins, ConnFits
  <2>29. SharedInv'
    BY <2>4, <2>6, <2>25, <2>26, <2>27, <2>28 DEF SharedInv
  <2> QED
    BY <2>20, <2>21, <2>24, <2>29 DEF IInv
<1> QED
  BY <1>4, <1>5 DEF Store

-----------------------------------------------------------------------------
(* The files move on under the searches.                                   *)

\* A connection goes on reading what it has opened; or it is opened just now.
GoesOn(c, d) ==
    \/ d = c
    \/ c = NoConn /\ d # NoConn /\ d.sees = Live
    \/ c # NoConn /\ c.sees = Live /\ d = [c EXCEPT !.sees = files.vector]

LEMMA NewestWillBeNat ==
    ASSUME BuildInv'
    PROVE  Newest("bm25")' \in Nat /\ Newest("vector")' \in Nat
<1>1. /\ files'.bm25 \in Contents \cup {Absent} /\ files'.vector \in Contents \cup {Absent}
      /\ build'.n \in 0 .. MaxBuilds
  BY NamesAre DEF BuildInv
<1>2. <<build'.n, "torn">> \in Contents /\ <<build'.n, "empty">> \in Contents
  BY <1>1, ContentMade
<1> QED
  BY <1>1, <1>2, ContentIs DEF Newest, Comes

LEMMA ConnGoesOn ==
    ASSUME NEW c \in Connection \cup {NoConn}, NEW d \in Connection \cup {NoConn}, BuildInv, BuildInv',
           Grows, GoesOn(c, d), ConnSane(c, files, Newest("vector")),
           d # NoConn /\ d.sees = Live => files'.vector # Absent
    PROVE  /\ ConnSane(d, files', Newest("vector")')
           /\ \A x \in Contents \cup {Absent} :
                ConnFits(c, x) /\ Seen(Newest("vector"), x) => ConnFits(d, x)
<1>1. /\ Newest("vector") \in Nat /\ Newest("vector")' \in Nat /\ Newest("vector") <= Newest("vector")'
      /\ files.vector # Absent => files.vector \in Contents /\ Newest("vector") = Age(files.vector)
  BY NewestIsNat, NewestWillBeNat DEF Grows
<1>2. CASE d = NoConn \/ (d # NoConn /\ d.sees = Live)
  BY <1>2 DEF ConnSane, ConnFits
<1>3. CASE d # NoConn /\ d.sees # Live /\ d = c
  <2>1. d.sees \in Contents /\ Seen(Newest("vector"), d.sees)
    BY <1>3 DEF Connection, ConnSane
  <2>2. Seen(Newest("vector")', d.sees)
    BY <1>1, <2>1, SeenGrows
  <2> QED
    BY <1>3, <2>2 DEF ConnSane
<1>4. CASE d # NoConn /\ c # NoConn /\ c.sees = Live /\ d = [c EXCEPT !.sees = files.vector]
  <2>1. d.sees = files.vector /\ files.vector # Absent
    BY <1>4 DEF ConnSane, Connection
  <2>2. files.vector \in Contents /\ Newest("vector") = Age(files.vector) /\ files.vector # Live
    BY <1>1, <2>1, ContentIs
  <2>3. Seen(Newest("vector")', files.vector)
    BY <1>1, <2>2 DEF Seen
  <2>4. \A x \in Contents \cup {Absent} : Seen(Newest("vector"), x) => NotBefore(files.vector, x)
    BY <2>2, SeenIsNotAfter
  <2> QED
    BY <1>4, <2>1, <2>2, <2>3, <2>4 DEF ConnSane, ConnFits
<1> QED
  BY <1>2, <1>3, <1>4 DEF GoesOn

\* A search that goes on with what it has observed; it is calm only if the files stay.
Onward(t, u) ==
    /\ u \in SearchState
    /\ u.stats = t.stats /\ u.id = t.id /\ u.began = t.began /\ u.found = t.found
    /\ u.pc = "store" <=> t.pc = "store"
    /\ u.pc = "missing" => t.pc = "missing"
    /\ GoesOn(t.conn, u.conn)
    /\ u.conn # NoConn /\ u.conn.sees = Live => files'.vector # Absent
    /\ u.calm => t.calm /\ files' = files
    /\ Stands(u)

LEMMA FilesMove ==
    ASSUME IInv, BuildInv', Grows, cache' = cache,
           thread' = [w \in Threads |-> thread'[w]],
           \A w \in Threads : Onward(thread[w], thread'[w]),
           heap' \in [DOMAIN heap -> Retriever],
           \A i \in DOMAIN heap : /\ heap'[i].bm25 = heap[i].bm25
                                  /\ GoesOn(heap[i].conn, heap'[i].conn)
                                  /\ heap[i].conn = NoConn => heap'[i].conn = NoConn
                                  /\ heap'[i].conn # NoConn /\ heap'[i].conn.sees = Live
                                       => files'.vector # Absent
    PROVE  IInv'
<1>1. CacheTypeOK /\ BuildInv /\ HeapInv /\ EntriesInv /\ LocalsInv /\ SharedInv
  BY DEF IInv
<1>2. /\ Newest("bm25") \in Nat /\ Newest("vector") \in Nat
      /\ Newest("bm25")' \in Nat /\ Newest("vector")' \in Nat
      /\ Newest("bm25") <= Newest("bm25")' /\ Newest("vector") <= Newest("vector")'
  BY <1>1, NewestIsNat, NewestWillBeNat DEF Grows
<1>3. DOMAIN heap' = DOMAIN heap
  OBVIOUS
<1>4. CacheTypeOK'
  <2>1. thread' \in [Threads -> SearchState]
    BY DEF Onward
  <2>2. \A w \in Threads : thread'[w].id \in DOMAIN heap' \cup {0}
    BY <1>1, <1>3 DEF CacheTypeOK, Onward
  <2> QED
    BY <1>1, <1>3, <2>1, <2>2 DEF CacheTypeOK, BuildInv
<1>5. ASSUME NEW i \in DOMAIN heap
      PROVE  /\ ConnSane(heap'[i].conn, files', Newest("vector")')
             /\ \A x \in Contents \cup {Absent} :
                  ConnFits(heap[i].conn, x) /\ Seen(Newest("vector"), x) => ConnFits(heap'[i].conn, x)
  <2> DEFINE c == heap[i].conn
             d == heap'[i].conn
  <2>1. c \in Connection \cup {NoConn} /\ d \in Connection \cup {NoConn}
    BY <1>1 DEF CacheTypeOK, Retriever
  <2>2. ConnSane(c, files, Newest("vector")) /\ GoesOn(c, d)
    BY <1>1 DEF HeapInv
  <2>3. d # NoConn /\ d.sees = Live => files'.vector # Absent
    OBVIOUS
  <2> HIDE DEF c, d
  <2>4. /\ ConnSane(d, files', Newest("vector")')
        /\ \A x \in Contents \cup {Absent} :
             ConnFits(c, x) /\ Seen(Newest("vector"), x) => ConnFits(d, x)
    BY <1>1, <2>1, <2>2, <2>3, ConnGoesOn
  <2> QED
    BY <2>4 DEF c, d
<1>6. ASSUME NEW w \in Threads
      PROVE  /\ ConnSane(thread'[w].conn, files', Newest("vector")')
             /\ \A x \in Contents \cup {Absent} :
                  ConnFits(thread[w].conn, x) /\ Seen(Newest("vector"), x) => ConnFits(thread'[w].conn, x)
  <2> DEFINE c == thread[w].conn
             d == thread'[w].conn
  <2>1. c \in Connection \cup {NoConn} /\ d \in Connection \cup {NoConn}
    BY <1>1 DEF CacheTypeOK, SearchState, Onward
  <2>2. ConnSane(c, files, Newest("vector")) /\ GoesOn(c, d)
    BY <1>1 DEF LocalsInv, Onward
  <2>3. d # NoConn /\ d.sees = Live => files'.vector # Absent
    BY DEF Onward
  <2> HIDE DEF c, d
  <2>4. /\ ConnSane(d, files', Newest("vector")')
        /\ \A x \in Contents \cup {Absent} :
             ConnFits(c, x) /\ Seen(Newest("vector"), x) => ConnFits(d, x)
    BY <1>1, <2>1, <2>2, <2>3, ConnGoesOn
  <2> QED
    BY <2>4 DEF c, d
<1>7. HeapInv'
  <2> SUFFICES ASSUME NEW i \in DOMAIN heap
               PROVE  /\ Seen(Newest("bm25")', heap'[i].bm25)
                      /\ ConnSane(heap'[i].conn, files', Newest("vector")')
    BY <1>3 DEF HeapInv
  <2>1. heap[i].bm25 \in Contents /\ Seen(Newest("bm25"), heap[i].bm25)
    BY <1>1 DEF CacheTypeOK, Retriever, HeapInv
  <2>2. Seen(Newest("bm25")', heap[i].bm25)
    BY <1>2, <2>1, SeenGrows
  <2> QED
    BY <1>5, <2>2
<1>8. EntriesInv'
  <2> SUFFICES ASSUME NEW e \in cache
               PROVE  /\ Len(e.key) = 3 /\ Seen(Newest("vector")', e.key[3])
                      /\ Serves(heap'[e.id], e)
    BY DEF EntriesInv
  <2>1. /\ Len(e.key) = 3 /\ e.key[3] \in Contents /\ e.id \in DOMAIN heap
        /\ Serves(heap[e.id], e) /\ Seen(Newest("vector"), e.key[3])
    BY EntryIs
  <2>2. Seen(Newest("vector")', e.key[3])
    BY <1>2, <2>1, SeenGrows
  <2>3. Serves(heap'[e.id], e)
    BY <1>5, <2>1 DEF Serves
  <2> QED
    BY <2>1, <2>2, <2>3
<1>9. LocalsInv'
  <2> SUFFICES ASSUME NEW w \in Threads
               PROVE  /\ Stands(thread'[w])
                      /\ Ordered(thread'[w], Newest("bm25")', Newest("vector")')
                      /\ Calm(thread'[w], files')
                      /\ ConnSane(thread'[w].conn, files', Newest("vector")')
    BY DEF LocalsInv
  <2> DEFINE t == thread[w]
             u == thread'[w]
  <2>1. t \in SearchState /\ Ordered(t, Newest("bm25"), Newest("vector")) /\ Calm(t, files)
    BY SearchIs
  <2>2. Onward(t, u)
    OBVIOUS
  <2> HIDE DEF t, u
  <2>3. Stands(u)
    BY <2>2 DEF Onward
  <2>4. Ordered(t, Newest("bm25")', Newest("vector")')
    BY <1>2, <2>1, OrderedGrows
  <2>5. Ordered(u, Newest("bm25")', Newest("vector")')
    BY <2>2, <2>4 DEF Ordered, Onward
  <2>6. Calm(u, files')
    BY <2>1, <2>2 DEF Calm, Onward
  <2> QED
    BY <1>6, <2>3, <2>5, <2>6 DEF t, u
<1>10. \A w \in Threads : /\ thread'[w].id = thread[w].id /\ thread'[w].began = thread[w].began
                          /\ thread'[w].stats = thread[w].stats
                          /\ thread'[w].pc = "store" => thread[w].pc = "store"
  BY DEF Onward
<1>11. ASSUME NEW w \in Threads
       PROVE  Own(w)'
  <2> SUFFICES ASSUME At(w, "store")' PROVE Own(w)'
    BY DEF Own
  <2>1. At(w, "store") /\ Own(w) /\ thread[w].id \in DOMAIN heap
    BY <1>1, <1>10 DEF At, SharedInv, CacheTypeOK, LocalsInv, Stands
  <2> QED
    BY <1>10, <2>1 DEF Own
<1>12. ASSUME NEW w \in Threads, thread[w].id # 0
       PROVE  Suits(heap'[thread'[w].id], thread'[w])
  <2>1. /\ thread[w].id \in DOMAIN heap /\ Suits(heap[thread[w].id], thread[w])
        /\ Ordered(thread[w], Newest("bm25"), Newest("vector")) /\ thread[w] \in SearchState
    BY <1>12, SearchIs
  <2>2. thread[w].began # <<>> => /\ thread[w].began[2] \in Contents \cup {Absent}
                                  /\ Seen(Newest("vector"), thread[w].began[2])
    BY <2>1, LocalsAre DEF Ordered
  <2> QED
    BY <1>5, <1>10, <2>1, <2>2 DEF Suits
<1>13. ASSUME NEW w \in Threads, thread[w].id # 0
       PROVE  /\ \A e \in cache : e.id = thread[w].id => ConnFits(thread'[w].conn, e.key[3])
              /\ \A v \in Threads : thread[v].id = thread[w].id /\ thread[v].began # <<>>
                                      => ConnFits(thread'[w].conn, thread[v].began[2])
  <2>1. Joins(thread[w].conn, thread[w].id)
    BY <1>13, SearchIs
  <2>2. \A e \in cache : e.key[3] \in Contents /\ Seen(Newest("vector"), e.key[3])
    BY EntryIs
  <2>3. \A v \in Threads : thread[v].began # <<>> => /\ thread[v].began[2] \in Contents \cup {Absent}
                                                     /\ Seen(Newest("vector"), thread[v].began[2])
    BY SearchIs, LocalsAre DEF Ordered
  <2> QED
    BY <1>6, <2>1, <2>2, <2>3 DEF Joins
<1>14. SharedInv'
  <2> SUFFICES ASSUME NEW w \in Threads, thread'[w].id # 0
               PROVE  /\ Suits(heap'[thread'[w].id], thread'[w])
                      /\ \A e \in cache' : e.id = thread'[w].id => ConnFits(thread'[w].conn, e.key[3])
                      /\ \A v \in Threads : thread'[v].id = thread'[w].id /\ thread'[v].began # <<>>
                                              => ConnFits(thread'[w].conn, thread'[v].began[2])
    BY <1>11 DEF SharedInv, Joins
  <2> QED
    BY <1>10, <1>12, <1>13
<1> QED
  BY <1>4, <1>7, <1>8, <1>9, <1>14 DEF IInv

\* The connections stay: no file that one reads goes.
LEMMA NoneLost ==
    ASSUME IInv, BuildInv', Grows, cache' = cache, heap' = heap,
           files.vector # Absent => files'.vector # Absent,
           (thread' = thread /\ files' = files) \/ thread' = Stir(thread)
    PROVE  IInv'
<1>1. CacheTypeOK
  BY DEF IInv
<1>2. thread \in [Threads -> SearchState] /\ heap \in [DOMAIN heap -> Retriever]
  BY <1>1 DEF CacheTypeOK
<1>3. thread' = [w \in Threads |-> thread'[w]]
  BY <1>2 DEF Stir
<1>4. ASSUME NEW w \in Threads
      PROVE  Onward(thread[w], thread'[w])
  <2>1. /\ thread[w] \in SearchState /\ Stands(thread[w])
        /\ ConnSane(thread[w].conn, files, Newest("vector"))
    BY SearchIs
  <2>2. thread[w].conn # NoConn /\ thread[w].conn.sees = Live => files'.vector # Absent
    BY <2>1 DEF ConnSane
  <2>3. CASE thread' = thread /\ files' = files
    BY <2>1, <2>2, <2>3 DEF Onward, GoesOn
  <2>4. CASE thread' = Stir(thread)
    <3>1. thread'[w] = [thread[w] EXCEPT !.calm = FALSE]
      BY <2>4 DEF Stir
    <3> DEFINE t == thread[w]
               u == thread'[w]
    <3>2. /\ u \in SearchState /\ u.pc = t.pc /\ u.round = t.round /\ u.stats = t.stats /\ u.id = t.id
          /\ u.conn = t.conn /\ u.began = t.began /\ u.found = t.found /\ ~u.calm
      BY <2>1, <3>1 DEF SearchState
    <3> HIDE DEF t, u
    <3>3. Stands(u)
      BY <2>1, <3>2 DEF Stands, t
    <3>4. Onward(t, u)
      BY <2>2, <3>2, <3>3 DEF Onward, GoesOn, t
    <3> QED
      BY <3>4 DEF t, u
  <2> QED
    BY <2>3, <2>4
<1>5. \A i \in DOMAIN heap : heap[i].conn # NoConn /\ heap[i].conn.sees = Live => files'.vector # Absent
  BY DEF IInv, HeapInv, ConnSane
<1>6. \A i \in DOMAIN heap : GoesOn(heap[i].conn, heap'[i].conn)
  BY DEF GoesOn
<1> QED
  BY <1>2, <1>3, <1>4, <1>5, <1>6, FilesMove

LEMMA DetachIs ==
    ASSUME NEW c \in Connection \cup {NoConn}, BuildInv,
           c # NoConn /\ c.sees = Live => files.vector # Absent
    PROVE  /\ Detach(c) \in Connection \cup {NoConn} /\ GoesOn(c, Detach(c))
           /\ Detach(c) # NoConn => Detach(c).sees # Live
           /\ c = NoConn <=> Detach(c) = NoConn
<1>1. files.vector \in Contents \cup {Absent}
  BY NamesAre DEF BuildInv
<1>2. CASE c # NoConn /\ c.sees = Live
  <2>1. Detach(c) = [c EXCEPT !.sees = files.vector] /\ files.vector \in Contents
    BY <1>1, <1>2 DEF Detach
  <2>2. c \in Connection /\ files.vector # Live
    BY <1>2, <2>1, ContentIs
  <2>3. Detach(c) \in Connection /\ Detach(c).sees = files.vector
    BY <2>1, <2>2 DEF Connection
  <2> QED
    BY <1>2, <2>1, <2>2, <2>3, ValuesAssumption DEF GoesOn
<1>3. CASE ~(c # NoConn /\ c.sees = Live)
  <2>1. Detach(c) = c
    BY <1>3 DEF Detach
  <2> QED
    BY <1>3, <2>1 DEF GoesOn
<1> QED
  BY <1>2, <1>3

LEMMA UnlinkVectorKeeps ==
    ASSUME IInv, BuildInv', Grows, Unlink("vector-", "vector", "open")
    PROVE  IInv'
<1>1. CacheTypeOK /\ BuildInv /\ HeapInv
  BY DEF IInv
<1>2. /\ thread' = [w \in Threads |-> [Stir(thread)[w] EXCEPT !.conn = Detach(@)]]
      /\ heap' = [i \in DOMAIN heap |-> [heap[i] EXCEPT !.conn = Detach(@)]]
      /\ cache' = cache
  BY DEF Unlink
<1>3. ASSUME NEW w \in Threads
      PROVE  Onward(thread[w], thread'[w])
  <2> DEFINE t == thread[w]
             u == thread'[w]
  <2>1. t \in SearchState /\ Stands(t) /\ ConnSane(t.conn, files, Newest("vector"))
    BY SearchIs
  <2>2. /\ t.conn \in Connection \cup {NoConn}
        /\ t.conn # NoConn /\ t.conn.sees = Live => files.vector # Absent
    BY <2>1 DEF ConnSane, SearchState
  <2>3. /\ Detach(t.conn) \in Connection \cup {NoConn} /\ GoesOn(t.conn, Detach(t.conn))
        /\ Detach(t.conn) # NoConn => Detach(t.conn).sees # Live
        /\ t.conn = NoConn <=> Detach(t.conn) = NoConn
    BY <1>1, <2>2, DetachIs
  <2>4. u = [t EXCEPT !.calm = FALSE, !.conn = Detach(t.conn)]
    <3>1. Stir(thread)[w] = [t EXCEPT !.calm = FALSE]
      BY DEF Stir
    <3>2. Stir(thread)[w].conn = t.conn
      BY <2>1, <3>1 DEF SearchState
    <3>3. u = [Stir(thread)[w] EXCEPT !.conn = Detach(t.conn)]
      BY <1>2, <3>2
    <3> QED
      BY <3>1, <3>3
  <2> HIDE DEF u, t
  <2>5. /\ u \in SearchState /\ u.pc = t.pc /\ u.round = t.round /\ u.stats = t.stats /\ u.id = t.id
        /\ u.conn = Detach(t.conn) /\ u.began = t.began /\ u.found = t.found /\ ~u.calm
    BY <2>1, <2>3, <2>4 DEF SearchState
  <2>6. Stands(u)
    BY <2>1, <2>3, <2>5 DEF Stands
  <2>7. Onward(t, u)
    BY <2>3, <2>5, <2>6 DEF Onward
  <2> QED
    BY <2>7 DEF t, u
<1>4. ASSUME NEW i \in DOMAIN heap
      PROVE  /\ heap'[i] \in Retriever /\ heap'[i].bm25 = heap[i].bm25
             /\ GoesOn(heap[i].conn, heap'[i].conn)
             /\ heap[i].conn = NoConn => heap'[i].conn = NoConn
             /\ heap'[i].conn # NoConn => heap'[i].conn.sees # Live
  <2> DEFINE c == heap[i].conn
  <2>1. heap[i] \in Retriever /\ ConnSane(c, files, Newest("vector"))
    BY <1>1 DEF CacheTypeOK, HeapInv
  <2>2. c \in Connection \cup {NoConn} /\ (c # NoConn /\ c.sees = Live => files.vector # Absent)
    BY <2>1 DEF ConnSane, Retriever
  <2>3. heap'[i] = [heap[i] EXCEPT !.conn = Detach(c)]
    BY <1>2
  <2> HIDE DEF c
  <2>4. /\ Detach(c) \in Connection \cup {NoConn} /\ GoesOn(c, Detach(c))
        /\ Detach(c) # NoConn => Detach(c).sees # Live
        /\ c = NoConn <=> Detach(c) = NoConn
    BY <1>1, <2>2, DetachIs
  <2>5. heap'[i].bm25 = heap[i].bm25 /\ heap'[i].conn = Detach(c) /\ heap'[i] \in Retriever
    BY <2>1, <2>3, <2>4 DEF Retriever
  <2> QED
    BY <2>4, <2>5 DEF c
<1>5. heap' \in [DOMAIN heap -> Retriever]
  BY <1>2, <1>4
<1>6. thread' = [w \in Threads |-> thread'[w]]
  BY <1>2
<1>7. /\ \A w \in Threads : Onward(thread[w], thread'[w])
      /\ \A i \in DOMAIN heap : /\ heap'[i].bm25 = heap[i].bm25
                                /\ GoesOn(heap[i].conn, heap'[i].conn)
                                /\ heap[i].conn = NoConn => heap'[i].conn = NoConn
                                /\ heap'[i].conn # NoConn /\ heap'[i].conn.sees = Live
                                     => files'.vector # Absent
  BY <1>3, <1>4
<1> QED
  BY <1>2, <1>5, <1>6, <1>7, FilesMove

LEMMA IndexingKeeps ==
    ASSUME IInv, Indexing
    PROVE  IInv'
<1>1. CacheTypeOK /\ BuildInv
  BY DEF IInv
<1>2. BuildInv' /\ Grows
  BY <1>1, IndexingGrows
<1>3. CASE CutBuild \/ \E rebuilt \in BOOLEAN : StartBuild(rebuilt)
  BY <1>2, <1>3, NoneLost DEF CutBuild, StartBuild
<1>4. files \in [Range(Names) -> Contents \cup {Absent}] /\ thread \in [Threads -> SearchState]
      /\ build.n \in 0 .. MaxBuilds
  BY <1>1 DEF CacheTypeOK
<1>5. ASSUME NEW pc, NEW f \in {"manifest", "bm25", "vector"}, NEW c, NEW next, Put(pc, f, c, next),
             f = "vector" /\ files.vector # Absent => c # Absent
      PROVE  IInv'
  <2>1. files' = [files EXCEPT ![f] = c] /\ cache' = cache /\ heap' = heap
    BY <1>5 DEF Put
  <2>2. CASE c = files[f]
    <3>1. files' = files
      BY <1>4, <2>1, <2>2
    <3>2. thread' = thread
      BY <1>5, <2>2 DEF Put
    <3> QED
      BY <1>2, <2>1, <3>1, <3>2, NoneLost
  <2>3. CASE c # files[f]
    <3>1. thread' = Stir(thread)
      BY <1>5, <2>3 DEF Put
    <3>2. files.vector # Absent => files'.vector # Absent
      BY <1>4, <1>5, <2>1, NamesAre
    <3> QED
      BY <1>2, <2>1, <3>1, <3>2, NoneLost
  <2> QED
    BY <2>2, <2>3
<1>6. ASSUME NEW pc, NEW f \in {"manifest", "bm25"}, NEW next, Unlink(pc, f, next)
      PROVE  IInv'
  <2>1. files' = [files EXCEPT ![f] = Absent] /\ cache' = cache /\ heap' = heap
    BY <1>6 DEF Unlink
  <2>2. thread' = Stir(thread)
    <3>1. thread' = [w \in Threads |-> [Stir(thread)[w] EXCEPT !.conn = @]]
      BY <1>6 DEF Unlink
    <3>2. \A w \in Threads : [Stir(thread)[w] EXCEPT !.conn = @] = Stir(thread)[w]
      <4> SUFFICES ASSUME NEW w \in Threads
                   PROVE  [Stir(thread)[w] EXCEPT !.conn = @] = Stir(thread)[w]
        OBVIOUS
      <4>1. Stir(thread)[w] \in SearchState
        <5>1. thread[w] \in SearchState /\ Stir(thread)[w] = [thread[w] EXCEPT !.calm = FALSE]
          BY <1>4 DEF Stir
        <5> QED
          BY <5>1 DEF SearchState
      <4> QED
        BY <4>1 DEF SearchState
    <3> QED
      BY <3>1, <3>2 DEF Stir
  <2>3. files'.vector = files.vector
    BY <1>4, <2>1, NamesAre
  <2> QED
    BY <1>2, <2>1, <2>2, <2>3, NoneLost
<1>7. \A s \in {"torn", "empty", "part", "full"} : <<build.n, s>> # Absent
  BY <1>4, ContentMade
<1>8. CASE Puts
  <2> DEFINE n == build.n
  <2>1. CASE Put("open", "vector", IF files.vector = Absent THEN <<n, "empty">> ELSE files.vector, "delete")
    BY <1>5, <2>1
  <2>2. CASE Put("delete", "vector", <<n, "part">>, "add")
    BY <1>5, <1>7, <2>2
  <2>3. CASE Put("add", "vector", <<n, "full">>, "bm25")
    BY <1>5, <1>7, <2>3
  <2>4. CASE Put("bm25", "bm25", <<n, "torn">>, "save") \/ Put("save", "bm25", <<n, "full">>, "manifest")
    BY <1>5, <2>4
  <2>5. CASE \/ Put("manifest", "manifest", <<n, "torn">>, "last")
             \/ Put("last", "manifest", <<n, "full">>, "idle")
    BY <1>5, <2>5
  <2> QED
    BY <1>8, <2>1, <2>2, <2>3, <2>4, <2>5 DEF Puts
<1>9. CASE BuildStep
  <2>1. CASE Unlink("manifest-", "manifest", "bm25-") \/ Unlink("bm25-", "bm25", "vector-")
    BY <1>6, <2>1
  <2>2. CASE Unlink("vector-", "vector", "open")
    BY <1>2, <2>2, UnlinkVectorKeeps
  <2> QED
    BY <1>8, <1>9, <2>1, <2>2 DEF BuildStep, Puts
<1> QED
  BY <1>3, <1>9 DEF Indexing

\* A search connects to the vectors that are there; if none are, it creates the file.
LEMMA ConnectKeeps ==
    ASSUME IInv, NEW w \in Threads, Connect(w)
    PROVE  IInv'
<1> DEFINE t == thread[w]
           opened == [owner |-> w, sees |-> Live]
           mid == IF files.vector = Absent THEN Stir(thread) ELSE thread
<1>1. CacheTypeOK /\ BuildInv
  BY DEF IInv
<1>2. /\ thread' = [mid EXCEPT ![w].pc = "assign", ![w].conn = opened]
      /\ files' = [files EXCEPT !.vector = IF @ = Absent THEN <<build.n, "empty">> ELSE @]
      /\ UNCHANGED <<build, cache, heap>>
  BY DEF Connect
<1>3. BuildInv' /\ Grows /\ files'.vector # Absent /\ files'.bm25 = files.bm25
  BY <1>1, <1>2, ConnectGrows
<1>4. files.vector # Absent => files' = files
  BY <1>1, <1>2 DEF CacheTypeOK
<1>5. t \in SearchState /\ t.pc = "connect" /\ t.conn = NoConn /\ t.id # 0 /\ t.found = <<>> /\ Stands(t)
  BY SearchIs DEF Connect, At, Stands
<1>6. opened \in Connection /\ opened # NoConn /\ opened.sees = Live
  BY ValuesAssumption DEF Connection
<1>7. ASSUME NEW v \in Threads
      PROVE  /\ mid[v] \in SearchState /\ mid[v] = [thread[v] EXCEPT !.calm = mid[v].calm]
             /\ mid[v].calm => thread[v].calm /\ files' = files
  <2>1. thread[v] \in SearchState
    BY SearchIs
  <2>2. CASE files.vector = Absent
    <3>1. mid[v] = [thread[v] EXCEPT !.calm = FALSE]
      BY <2>2 DEF Stir
    <3> QED
      BY <2>1, <3>1 DEF SearchState
  <2>3. CASE files.vector # Absent
    BY <1>4, <2>1, <2>3 DEF SearchState
  <2> QED
    BY <2>2, <2>3
<1>8. DOMAIN mid = Threads
  BY <1>1 DEF CacheTypeOK, Stir
<1> HIDE DEF mid, opened
<1>9. ASSUME NEW v \in Threads
      PROVE  Onward(thread[v], thread'[v])
  <2> DEFINE s == thread[v]
             u == thread'[v]
  <2>1. s \in SearchState /\ Stands(s)
    BY SearchIs
  <2>2. /\ mid[v] \in SearchState /\ mid[v].pc = s.pc /\ mid[v].round = s.round /\ mid[v].stats = s.stats
        /\ mid[v].id = s.id /\ mid[v].conn = s.conn /\ mid[v].began = s.began /\ mid[v].found = s.found
        /\ mid[v].calm => s.calm /\ files' = files
    BY <1>7, <2>1 DEF SearchState
  <2>3. CASE v = w
    <3>1. u = [mid[w] EXCEPT !.pc = "assign", !.conn = opened]
      BY <1>2, <1>8, <2>3
    <3>2. s = t
      BY <2>3
    <3> HIDE DEF u, s, t
    <3>3. /\ u \in SearchState /\ u.pc = "assign" /\ u.round = t.round /\ u.stats = t.stats /\ u.id = t.id
          /\ u.conn = opened /\ u.began = t.began /\ u.found = t.found
          /\ u.calm => t.calm /\ files' = files
      BY <1>6, <2>2, <2>3, <3>1, <3>2 DEF SearchState, SearchPoints
    <3>4. Stands(u)
      BY <1>5, <1>6, <3>3 DEF Stands
    <3>5. Onward(t, u)
      BY <1>3, <1>5, <1>6, <3>3, <3>4 DEF Onward, GoesOn
    <3> QED
      BY <3>2, <3>5 DEF s, u
  <2>4. CASE v # w
    <3>1. u = mid[v]
      BY <1>2, <1>8, <2>4
    <3> HIDE DEF u, s
    <3>2. Stands(u)
      BY <2>1, <2>2, <3>1 DEF Stands
    <3>3. Onward(s, u)
      BY <1>3, <2>2, <3>1, <3>2 DEF Onward, GoesOn
    <3> QED
      BY <3>3 DEF s, u
  <2> QED
    BY <2>3, <2>4
<1>10. thread' = [v \in Threads |-> thread'[v]]
  BY <1>2, <1>8
<1>11. heap' \in [DOMAIN heap -> Retriever] /\ cache' = cache
  BY <1>1, <1>2 DEF CacheTypeOK
<1>12. \A i \in DOMAIN heap : /\ heap'[i].bm25 = heap[i].bm25
                              /\ GoesOn(heap[i].conn, heap'[i].conn)
                              /\ heap[i].conn = NoConn => heap'[i].conn = NoConn
                              /\ heap'[i].conn # NoConn /\ heap'[i].conn.sees = Live
                                   => files'.vector # Absent
  BY <1>2, <1>3 DEF GoesOn
<1> QED
  BY <1>3, <1>9, <1>10, <1>11, <1>12, FilesMove

LEMMA NextIsGood ==
    ASSUME IInv, [CacheNext]_cacheVars
    PROVE  IInv'
<1>1. ASSUME NEW w \in Threads, SearchStep(w)
      PROVE  IInv'
  BY <1>1, StatKeeps, LookUpKeeps, LoadKeeps, FilingKeeps, QueryKeeps, ConnectKeeps, AssignKeeps,
     TallyKeeps DEF SearchStep
<1>2. CASE UNCHANGED cacheVars
  BY <1>2 DEF cacheVars, IInv, CacheTypeOK, BuildInv, HeapInv, EntriesInv, LocalsInv, SharedInv, Newest,
              Own, Joins, At, Torn
<1> QED
  BY <1>1, <1>2, BeginKeeps, IndexingKeeps DEF CacheNext

LEMMA Inductive == CacheSpec => []IInv
BY InitIsGood, NextIsGood, PTL DEF CacheSpec

LEMMA GoodIsNeverOlder == IInv => NeverOlder
<1> SUFFICES ASSUME IInv, NEW w \in Threads, thread[w].found # <<>>, NEW i \in {1, 2},
                    thread[w].began[i] # Absent
             PROVE  Age(thread[w].found[i]) >= Age(thread[w].began[i])
  BY DEF NeverOlder
<1> DEFINE t == thread[w]
<1>1. t \in SearchState /\ Ordered(t, Newest("bm25"), Newest("vector")) /\ t.began # <<>>
  BY SearchIs DEF Stands
<1>2. NotBefore(t.found[i], t.began[i])
  BY <1>1 DEF Ordered
<1>3. t.found[i] \in Contents /\ t.began[i] \in Contents
  BY <1>1, LocalsAre
<1>4. Age(t.began[i]) <= Age(t.found[i]) /\ Age(t.began[i]) \in Nat /\ Age(t.found[i]) \in Nat
  BY <1>2, <1>3, ContentIs DEF NotBefore
<1> QED
  BY <1>4

LEMMA GoodIsExact == IInv => CalmSearchIsExact
<1> SUFFICES ASSUME IInv, NEW w \in Threads, thread[w].calm
             PROVE  /\ thread[w].found # <<>> => thread[w].found = <<files.bm25, files.vector>>
                    /\ thread[w].pc = "missing" => \E f \in DOMAIN files : files[f] = Absent
  BY DEF CalmSearchIsExact
<1> DEFINE t == thread[w]
<1>1. /\ t \in SearchState /\ Stands(t) /\ Ordered(t, Newest("bm25"), Newest("vector"))
      /\ Calm(t, files)
      /\ files.bm25 \in Contents \cup {Absent} /\ files.vector \in Contents \cup {Absent}
      /\ files.bm25 # Absent => Newest("bm25") = Age(files.bm25)
      /\ files.vector # Absent => Newest("vector") = Age(files.vector)
  BY SearchIs
<1>2. ASSUME t.found # <<>>
      PROVE  t.found = <<files.bm25, files.vector>>
  <2>1. /\ t.began = <<files.bm25, files.vector>> /\ t.began # <<>>
        /\ files.bm25 # Absent /\ files.vector # Absent
    BY <1>1, <1>2 DEF Calm, Stands
  <2>2. t.found[1] \in Contents /\ t.found[2] \in Contents /\ t.found = <<t.found[1], t.found[2]>>
    BY <1>1, <1>2, LocalsAre
  <2>3. /\ Age(t.found[1]) <= Age(files.bm25) /\ Age(files.bm25) <= Age(t.found[1])
        /\ Age(t.found[2]) <= Age(files.vector) /\ Age(files.vector) <= Age(t.found[2])
    <3>1. /\ Seen(Age(files.bm25), t.found[1]) /\ Seen(Age(files.vector), t.found[2])
          /\ NotBefore(t.found[1], files.bm25) /\ NotBefore(t.found[2], files.vector)
      BY <1>1, <1>2, <2>1 DEF Ordered
    <3>2. t.found[1] # Absent /\ t.found[2] # Absent
      BY <2>2, ContentIs
    <3> QED
      BY <2>1, <3>1, <3>2 DEF Seen, NotBefore
  <2>4. /\ Age(t.found[1]) \in Nat /\ Age(t.found[2]) \in Nat
        /\ Age(files.bm25) \in Nat /\ Age(files.vector) \in Nat
        /\ files.bm25 \in Contents /\ files.vector \in Contents
    BY <1>1, <2>1, <2>2, ContentIs
  <2>5. Age(t.found[1]) = Age(files.bm25) /\ Age(t.found[2]) = Age(files.vector)
    BY <2>3, <2>4
  <2>6. t.found[1] = files.bm25 /\ t.found[2] = files.vector
    BY <2>2, <2>4, <2>5, AgeTells
  <2> QED
    BY <2>2, <2>6
<1>3. t.pc = "missing" => \E f \in DOMAIN files : files[f] = Absent
  BY <1>1 DEF Calm
<1> QED
  BY <1>2, <1>3

-----------------------------------------------------------------------------
\* Nobody refers to a retriever that was freed, and a search is where its locals say
\* (_load_retriever, VectorIndex, semantic_search_kb).
THEOREM CacheTypeCorrect == CacheSpec => []CacheTypeOK
<1>1. IInv => CacheTypeOK
  BY DEF IInv
<1> QED
  BY <1>1, Inductive, PTL

\* For any threads, builds and interruptions, a search answers from no older content
\* than each half of the index had when it began: the fingerprint under the lock, the
\* load outside it and the connections that outlive their file never bring one back
\* (_load_retriever, VectorIndex._connect).
THEOREM NeverOlderHolds == CacheSpec => []NeverOlder
BY GoodIsNeverOlder, Inductive, PTL

\* The cache is invisible: a search under which no index file changes finds its files
\* and answers from exactly what they hold, whatever searches and builds came before.
\* What it found is neither older than the files, nor newer (_load_retriever).
THEOREM CalmSearchHolds == CacheSpec => []CalmSearchIsExact
BY GoodIsExact, Inductive, PTL
=============================================================================
