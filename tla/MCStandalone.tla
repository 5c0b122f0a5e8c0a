---------------------------- MODULE MCStandalone ----------------------------
(* The parts that need no other part, for TLC: the budget, whose callers    *)
(* interleave, and the pure modules, whose inputs grow.  A behaviour is one *)
(* of one part, the rest stay as they begin.                                *)
EXTENDS TokenBudget, StreamAssembly, Usage, Chunker, RankFusion, KbReader, EvalRun

ASSUME AssemblyAssumption /\ UsageAssumption /\ ChunkerAssumption /\ FusionAssumption
ASSUME ReaderAssumption /\ EvalAssumption /\ CasesAssumption

VARIABLE part

\* The fragments of calls with an index and without, under the ids "call_0" and
\* "call_1" or none, with any of their parts missing.
MCFragments ==
    {f \in [index : {None, 0, 1}, id : {None, 0, 1}, name : BOOLEAN, args : BOOLEAN] :
        f.id # None \/ f.name \/ f.args}

\* Lines that are shorter than the overlap, between it and the target, and longer
\* than the target.
MCLines == {[kind |-> "h1", tokens |-> 1], [kind |-> "h2", tokens |-> 1],
            [kind |-> "text", tokens |-> 1], [kind |-> "text", tokens |-> 3],
            [kind |-> "text", tokens |-> 5], [kind |-> "blank", tokens |-> 1]}

\* Files up to three directories deep, any of whose names may be a dotted one.
MCKbPaths == UNION {[1 .. n -> Names] : n \in 1 .. 3}

\* The index has the chunks in another order than their paths.
MCCorpusOrder == <<2, 3, 1>>

\* A case alone may have many hits, those of one run have few, or no index.
PathLists(n) == UNION {[1 .. m -> Paths] : m \in 0 .. n}

MCCases == [variant : Variants, ranking : PathLists(4), expected : PathLists(3), k : {1, 2}]

MCJointCases ==
    [variant : Variants, ranking : PathLists(2), expected : PathLists(1), k : {1}]
        \cup [variant : {"hybrid", "hybrid_rerank"}, ranking : {Missing},
              expected : PathLists(1), k : {1}]

NoQuery == [score |-> [c \in Chunk |-> 0], vector |-> <<>>, k |-> 0]

streamVars == arrived
usageVars  == <<replies, unreported>>
queryVars  == <<query, judged>>
kbVars     == <<kbFiles, lineEnds>>
evalVars   == <<graded, scored>>

PartsInit ==
    /\ part \in {"budget", "stream", "usage", "document", "query", "kb", "file", "eval"}
    /\ Init /\ StreamInit /\ UsageInit /\ DocumentInit /\ QueryInit /\ KbInit /\ EvalInit
    /\ part # "query" => query = NoQuery

PartsNext ==
    \/ /\ part = "budget" /\ Next
       /\ UNCHANGED <<part, streamVars, usageVars, document, queryVars, kbVars, evalVars>>
    \/ /\ part = "stream" /\ Arrive
       /\ UNCHANGED <<part, budgetVars, usageVars, document, queryVars, kbVars, evalVars>>
    \/ /\ part = "usage" /\ (Reported \/ Unheard)
       /\ UNCHANGED <<part, budgetVars, streamVars, document, queryVars, kbVars, evalVars>>
    \/ /\ part = "document" /\ WriteLine
       /\ UNCHANGED <<part, budgetVars, streamVars, usageVars, queryVars, kbVars, evalVars>>
    \/ /\ part = "query" /\ \E c \in Chunk, grade \in Grades : Judge(c, grade)
       /\ UNCHANGED <<part, budgetVars, streamVars, usageVars, document, kbVars, evalVars>>
    \/ /\ part = "kb" /\ \E p \in KbPaths : AddFile(p)
       /\ UNCHANGED <<part, budgetVars, streamVars, usageVars, document, queryVars, evalVars>>
    \/ /\ part = "file" /\ \E width \in Widths : AddLine(width)
       /\ UNCHANGED <<part, budgetVars, streamVars, usageVars, document, queryVars, evalVars>>
    \/ /\ part = "eval" /\ EvalNext
       /\ UNCHANGED <<part, budgetVars, streamVars, usageVars, document, queryVars, kbVars>>

PartsSpec ==
    PartsInit /\ [][PartsNext]_<<part, budgetVars, streamVars, usageVars, document, queryVars,
                                 kbVars, evalVars>>
=============================================================================
