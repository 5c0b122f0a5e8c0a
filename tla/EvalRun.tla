------------------------------ MODULE EvalRun ------------------------------
(***************************************************************************)
(* runnrr/evals: how a retrieval-only run scores what was retrieved for a  *)
(* case (graders.py, retrieval.py), and how the records of a variant are   *)
(* summed up (records.py).  A search gives the paths of its hits, best     *)
(* first, a path once for each of its chunks or lines (the keyword search  *)
(* needs no index, and is never Missing); a score is a pair of numerator   *)
(* and denominator.                                                        *)
(***************************************************************************)
EXTENDS Naturals, Sequences, FiniteSets, FiniteSetsExt, SequencesExt, Sorting

CONSTANTS
    Paths,
    Missing,           \* there is no index: EvalCaseSkipped
    NoScore,           \* None
    RerankCandidates,
    Cases,             \* those that may be run
    JointCases,        \* bound: those that are run one after the other,
    MaxCases           \* and at most how many

EvalAssumption ==
    /\ Missing \notin Seq(Paths) /\ NoScore \notin Nat \X Nat
    /\ RerankCandidates \in Nat

Variants == {"keyword", "hybrid", "hybrid_rerank"}

\* A case as it is run: under a variant, with what the search gives it.
Case == [variant : Variants, ranking : Seq(Paths) \cup {Missing}, expected : Seq(Paths), k : Nat \ {0}]

CasesAssumption == Cases \subseteq Case /\ JointCases \subseteq Case /\ MaxCases \in Nat

VARIABLES
    graded,   \* the case that was run last
    scored    \* the records of the run so far

Start(s, n) == SubSeq(s, 1, Min({n, Len(s)}))

\* How many hits retrieve asks for, at most.
Candidates(variant, k) ==
    CASE variant = "keyword"       -> Max({k * 4, 20})
      [] variant = "hybrid"        -> Max({1, k}) * 4
      [] variant = "hybrid_rerank" -> Max({1, k, RerankCandidates})

dedupe_paths(paths) ==
    Pick(paths, {i \in DOMAIN paths : \A j \in 1 .. i - 1 : paths[j] # paths[i]})

Top(paths, k) == Start(dedupe_paths(paths), k)

\* Fault variant: what is expected twice counts twice.
MutRecall(paths, expected, k) ==
    IF expected = <<>> THEN <<1, 1>>
    ELSE <<Cardinality(Range(expected) \cap Range(Top(paths, k))), Len(expected)>>

recall_at_k(paths, expected, k) ==
    IF expected = <<>> THEN <<1, 1>>
    ELSE <<Cardinality(Range(expected) \cap Range(Top(paths, k))), Cardinality(Range(expected))>>

context_precision(paths, expected, k) ==
    LET top == Top(paths, k)
    IN  IF top = <<>> THEN <<0, 1>>
        ELSE <<Cardinality({i \in DOMAIN top : top[i] \in Range(expected)}), Len(top)>>

reciprocal_rank(paths, expected) ==
    LET ranks == {i \in DOMAIN dedupe_paths(paths) : dedupe_paths(paths)[i] \in Range(expected)}
    IN  IF expected = <<>> THEN <<1, 1>> ELSE IF ranks = {} THEN <<0, 1>> ELSE <<1, Min(ranks)>>

failure_label(status, recall, expected) ==
    IF status = "skipped" THEN "no index"
    ELSE IF recall[1] = 0 /\ expected # <<>> THEN "missed_expected_chunk" ELSE "none"

Retrieved(variant, ranking, k) == dedupe_paths(Start(ranking, Candidates(variant, k)))

\* retrieval_record: ranking is what the search has for this very case, best first, or
\* Missing.  Another k may make it rank otherwise (a hybrid search widens its lists).
Scored(variant, ranking, expected, k) ==
    LET paths  == Retrieved(variant, ranking, k)
        recall == recall_at_k(paths, expected, k)
    IN  [variant |-> variant, status |-> "ok", recall |-> recall,
         precision |-> context_precision(paths, expected, k),
         rank |-> reciprocal_rank(paths, expected),
         label |-> failure_label("ok", recall, expected)]

Skipped(variant) ==
    [variant |-> variant, status |-> "skipped", recall |-> NoScore, precision |-> NoScore,
     rank |-> NoScore, label |-> failure_label("skipped", NoScore, <<>>)]

retrieval_record(variant, ranking, expected, k) ==
    IF ranking = Missing THEN Skipped(variant) ELSE Scored(variant, ranking, expected, k)

-----------------------------------------------------------------------------
Plus(x, y) == <<x[1] * y[2] + y[1] * x[2], x[2] * y[2]>>

Total(scores) ==
    LET upto[n \in 0 .. Len(scores)] ==
          IF n = 0 THEN <<0, 1>> ELSE Plus(upto[n - 1], scores[n])
    IN  upto[Len(scores)]

avg_optional(scores) ==
    IF scores = <<>> THEN NoScore
    ELSE <<Total(scores)[1], Total(scores)[2] * Len(scores)>>

\* build_summary, for one variant.
build_summary(records, variant) ==
    LET mine == {i \in DOMAIN records : records[i].variant = variant}
        ok   == Pick(records, {i \in mine : records[i].status = "ok"})
    IN  [recall    |-> avg_optional([n \in DOMAIN ok |-> ok[n].recall]),
         precision |-> avg_optional([n \in DOMAIN ok |-> ok[n].precision]),
         mrr       |-> avg_optional([n \in DOMAIN ok |-> ok[n].rank]),
         n_ok |-> Len(ok), n_skipped |-> Cardinality(mine) - Len(ok)]

-----------------------------------------------------------------------------
AtMost(x, y) == x[1] * y[2] <= y[1] * x[2]
Same(x, y)   == AtMost(x, y) /\ AtMost(y, x)

\* The three metrics of a case speak of the same hits: recall and precision count the
\* same paths, a path is found within k if and only if the first found one ranks within
\* k, a case is labelled as missed exactly then; what is expected twice counts once, and
\* grading one hit more of what was retrieved never lowers the recall (grade_recall_at_k,
\* grade_context_precision, reciprocal_rank, _failure_label).
MetricsAgree(variant, ranking, expected, k) ==
    LET r == retrieval_record(variant, ranking, expected, k)
    IN  /\ AtMost(r.recall, <<1, 1>>) /\ AtMost(r.precision, <<1, 1>>)
        /\ expected # <<>> => r.recall[1] = r.precision[1]
        /\ expected # <<>> => (r.recall[1] > 0 <=> AtMost(<<1, k>>, r.rank))
        /\ r.label = "missed_expected_chunk" <=> ~AtMost(<<1, k>>, r.rank)
        /\ Same(r.recall, retrieval_record(variant, ranking, dedupe_paths(expected), k).recall)
        /\ AtMost(r.recall, recall_at_k(Retrieved(variant, ranking, k), expected, k + 1))

\* An average lies between the scores it is of.
Averages(average, scores) ==
    /\ average = NoScore <=> DOMAIN scores = {}
    /\ DOMAIN scores # {} =>
         /\ \E i \in DOMAIN scores : AtMost(scores[i], average)
         /\ \E i \in DOMAIN scores : AtMost(average, scores[i])
         /\ (\A i, j \in DOMAIN scores : Same(scores[i], scores[j])) =>
              \A i \in DOMAIN scores : Same(average, scores[i])

\* A variant's averages are those of the cases it could run: one that was skipped, or
\* another variant's, does not move them, and every record is counted once.
SummaryIsFair(records) ==
    \A variant \in Variants :
        LET s    == build_summary(records, variant)
            mine == {i \in DOMAIN records : records[i].variant = variant}
            ran  == {i \in mine : records[i].status = "ok"}
        IN  /\ s.n_ok + s.n_skipped = Cardinality(mine)
            /\ Averages(s.recall, [i \in ran |-> records[i].recall])
            /\ Averages(s.precision, [i \in ran |-> records[i].precision])
            /\ Averages(s.mrr, [i \in ran |-> records[i].rank])

-----------------------------------------------------------------------------
(* A run, case by case.                                                    *)

EvalInit == graded = {} /\ scored = <<>>

RunCase(c) ==
    /\ Len(scored) < MaxCases
    /\ graded' = {c}
    /\ scored' = Append(scored, retrieval_record(c.variant, c.ranking, c.expected, c.k))

EvalNext ==
    \/ scored = <<>> /\ \E c \in Cases : RunCase(c)
    \/ graded \subseteq JointCases /\ \E c \in JointCases : RunCase(c)

EvalSpec == EvalInit /\ [][EvalNext]_<<graded, scored>>

\* The metrics of a case agree, and the averages of a run are fair to its cases
\* (retrieval_record, build_summary).
EvalLaw ==
    /\ \A c \in graded : c.ranking # Missing => MetricsAgree(c.variant, c.ranking, c.expected, c.k)
    /\ SummaryIsFair(scored)
=============================================================================
