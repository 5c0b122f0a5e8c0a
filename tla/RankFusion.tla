----------------------------- MODULE RankFusion -----------------------------
(***************************************************************************)
(* The ranking half of runnrr/rag: how bm25_index.search orders its hits,  *)
(* how retriever.reciprocal_rank_fusion merges them with the vector hits,  *)
(* how LLMReranker reorders the pool, and what semantic_search_kb cuts     *)
(* from it.  A chunk is a number, in the order of (path, start_line); a    *)
(* result list is a sequence of chunks without repetition.                 *)
(***************************************************************************)
EXTENDS Integers, Sequences, FiniteSets, SequencesExt, Sorting

CONSTANTS
    Chunk,          \* the chunks of the index: 1 .. n
    CorpusOrder,    \* the order the BM25 index has them in
    RrfK,           \* DEFAULT_RRF_K
    Widen,          \* candidates per result wanted (4 in the code)
    RerankPool,     \* RERANK_CANDIDATES
    MaxK,           \* the tool's hard cap on k (20 in the code)
    Limits,         \* what may be asked for as k
    Scores,         \* the BM25 scores of a query
    Grades          \* the model's judgements

FusionAssumption ==
    /\ IsFiniteSet(Chunk) /\ Chunk = 1 .. Cardinality(Chunk)
    /\ CorpusOrder \in Seq(Chunk) /\ IsInjective(CorpusOrder) /\ Range(CorpusOrder) = Chunk
    /\ RrfK \in Nat /\ Widen \in Nat \ {0} /\ RerankPool \in Nat \ {0} /\ MaxK \in Nat \ {0}
    /\ Limits \subseteq Nat /\ Scores \subseteq Int /\ Grades \subseteq Int

VARIABLES
    query,     \* k, and what the two indexes find: BM25 scores, and the vector hits
    judged     \* what the model has said of the chunks so far

Larger(a, b)  == IF a > b THEN a ELSE b
Smaller(a, b) == IF a < b THEN a ELSE b

First(s, n) == SubSeq(s, 1, Smaller(n, Len(s)))
Rank(s, c)  == CHOOSE i \in DOMAIN s : s[i] = c

\* Both sorts of the code are stable sorts by a descending key; key[i] is that of s[i].
Ahead(key, i, j) == key[i] > key[j] \/ (key[i] = key[j] /\ i < j)

Descending(s, key) ==
    LET places == DOMAIN s
        order == SortedBy(places, {p \in places \X places : Ahead(key, p[1], p[2])})
    IN  [i \in places |-> s[order[i]]]

\* BM25Index.search: chunks that share no term with the query are no hits.
Bm25Hits(score, k) ==
    LET hits == Pick(CorpusOrder, {i \in DOMAIN CorpusOrder : score[CorpusOrder[i]] > 0})
    IN  First(Descending(hits, [i \in DOMAIN hits |-> score[hits[i]]]), k)

-----------------------------------------------------------------------------
\* A score is a fraction, of numerator and denominator.
Sum(x, y)  == <<x[1] * y[2] + y[1] * x[2], x[2] * y[2]>>
Over(x, y) == x[1] * y[2] > y[1] * x[2]

Share(s, c) == IF Contains(s, c) THEN <<1, RrfK + Rank(s, c)>> ELSE <<0, 1>>

Score(bm25, vector, c) == Sum(Share(bm25, c), Share(vector, c))

\* Fault variant: the sort is not reversed.
MutBefore(bm25, vector, c, d) == Over(Score(bm25, vector, d), Score(bm25, vector, c))

\* row.score descending, then path and start_line
Before(bm25, vector, c, d) ==
    \/ Over(Score(bm25, vector, c), Score(bm25, vector, d))
    \/ ~Over(Score(bm25, vector, d), Score(bm25, vector, c)) /\ c < d

Fuse(bm25, vector, k) ==
    LET hits == Range(bm25) \cup Range(vector)
    IN  First(SortedBy(hits, {p \in hits \X hits : Before(bm25, vector, p[1], p[2])}), Larger(1, k))

-----------------------------------------------------------------------------
Unjudged == -1     \* _MISSING_RELEVANCE

\* relevance is what the model's JSON says of the chunks it judged; any failure of the
\* model is a relevance that judges none.
Relevance(relevance, c) == IF c \in DOMAIN relevance THEN relevance[c] ELSE Unjudged

\* Fault variant: the score is not negated in the sort key.
MutRerank(results, relevance, top) ==
    LET candidates == First(results, top)
    IN  Descending(candidates, [i \in DOMAIN candidates |-> -Relevance(relevance, candidates[i])])

Rerank(results, relevance, top) ==
    LET candidates == First(results, top)
    IN  IF Len(candidates) < 2 THEN candidates
        ELSE Descending(candidates, [i \in DOMAIN candidates |-> Relevance(relevance, candidates[i])])

\* hybrid_candidate_pool
Pool(k, rerank) ==
    IF rerank THEN Larger(Larger(1, k), RerankPool) ELSE Larger(1, k) * Widen

\* Retriever.search with the pool as its k, and its own default of candidates.
Retrieve(score, vector, pool) ==
    Fuse(Bm25Hits(score, pool * Widen), First(vector, pool * Widen), pool)

\* run_hybrid_query
Hybrid(score, vector, k, rerank, relevance) ==
    LET pool == Pool(k, rerank)
        results == Retrieve(score, vector, pool)
    IN  IF rerank THEN Rerank(results, relevance, pool) ELSE results

WantedK(k) == Larger(1, Smaller(k, MaxK))

Answer(score, vector, k, rerank, relevance) ==
    First(Hybrid(score, vector, WantedK(k), rerank, relevance), WantedK(k))

-----------------------------------------------------------------------------
Lists == {s \in UNION {[1 .. n -> Chunk] : n \in 0 .. Cardinality(Chunk)} : IsInjective(s)}

\* c is at least as good as d in a list, and better.
NoWorse(s, c, d) == Contains(s, d) => Contains(s, c) /\ Rank(s, c) <= Rank(s, d)
Better(s, c, d)  == NoWorse(s, c, d) /\ Contains(s, c)

FairFor(bm25, vector, k) ==
    LET fused == Fuse(bm25, vector, k)
        hits  == Range(bm25) \cup Range(vector)
    IN  /\ IsInjective(fused) /\ Range(fused) \subseteq hits
        /\ Len(fused) = Smaller(Larger(1, k), Cardinality(hits))
        /\ fused = Fuse(vector, bm25, k)
        /\ \A c, d \in hits :
             c # d /\ Better(bm25, c, d) /\ NoWorse(vector, c, d) /\ Contains(fused, d) =>
                 Contains(fused, c) /\ Rank(fused, c) < Rank(fused, d)

BestFor(score, vector, k, relevance) ==
    LET answer == Answer(score, vector, k, TRUE, relevance)
        pool   == Retrieve(score, vector, Pool(WantedK(k), TRUE))
    IN  /\ IsInjective(answer) /\ Range(answer) \subseteq Range(pool)
        /\ Len(answer) = Smaller(WantedK(k), Len(pool))
        /\ \A c \in Range(answer), d \in Range(pool) \ Range(answer) :
             Relevance(relevance, c) >= Relevance(relevance, d)
        /\ DOMAIN relevance = {} => answer = First(pool, WantedK(k))

-----------------------------------------------------------------------------
(* A query, and what its reranker makes of it, judgement by judgement.     *)

QueryInit ==
    /\ query \in [score : [Chunk -> Scores], vector : Lists, k : Limits]
    /\ judged = [c \in {} |-> Unjudged]

Judge(c, grade) ==
    /\ c \notin DOMAIN judged
    /\ judged' = [d \in DOMAIN judged \cup {c} |-> IF d = c THEN grade ELSE judged[d]]
    /\ UNCHANGED query

QuerySpec == QueryInit /\ [][\E c \in Chunk, grade \in Grades : Judge(c, grade)]_<<query, judged>>

\* Fusion drops and repeats nothing it has room for, respects what both lists agree
\* on, and gives neither list precedence (reciprocal_rank_fusion).  What the tool
\* returns is a choice of k from the candidates of which none that was left out is
\* judged better than one that is in; a reranker that fails changes nothing but the
\* size of the pool (run_hybrid_query, LLMReranker.rerank "never raises").
RankingLaw ==
    /\ FairFor(Bm25Hits(query.score, query.k), query.vector, query.k)
    /\ BestFor(query.score, query.vector, query.k, judged)
=============================================================================
