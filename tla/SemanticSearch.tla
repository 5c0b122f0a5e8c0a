--------------------------- MODULE SemanticSearch ---------------------------
(***************************************************************************)
(* runnrr/tools/dispatch.py and runnrr/rag/tools.py: the threads of        *)
(* ToolFanout run the searches of RetrieverCache, each inside run_tool,    *)
(* which makes a result of whatever becomes of the handler.                *)
(***************************************************************************)
EXTENDS ToolFanout, RetrieverCache

CONSTANT Searches     \* the calls of semantic_search_kb

searchState == <<files, build, cache, heap, thread>>
searchVars  == <<fanoutVars, searchState>>

Init == FanoutInit /\ CacheInit

\* _run_tool_inner: a tool the profile does not enable or nobody knows, or arguments
\* that did not parse, are refused; otherwise the handler runs.
Dispatch(w) ==
    /\ Take(w)
    /\ \/ worker'[w] \in Searches /\ Begin(w)
       \/ worker'[w] \notin Searches /\ \E o \in {"ok", "unexpected"} : Move(w, [Fresh EXCEPT !.pc = o])
       \/ Move(w, [Fresh EXCEPT !.pc = "unexpected"])

Work(w) == SearchStep(w) /\ UNCHANGED fanoutVars

\* The envelope: every outcome but "ok" is a result with is_error.
Deliver(w) ==
    /\ Ended(w)
    /\ Return(w, thread[w].pc # "ok")
    /\ Move(w, Fresh)

PassOver(w) == Skip(w) /\ UNCHANGED searchState

WorkerStep(w) == Dispatch(w) \/ PassOver(w) \/ Work(w) \/ Deliver(w)

Submit(c) == Acquire(c) /\ UNCHANGED searchState

Leave(t) == Cancel(t) /\ UNCHANGED searchState

Next ==
    \/ \E c \in Calls : Submit(c)
    \/ \E w \in Threads : WorkerStep(w)
    \/ \E t \in Turns : Leave(t)
    \/ Indexing /\ UNCHANGED fanoutVars

\* The event loop wakes its waiters, and a handler comes to an end: the HTTP clients
\* and sqlite have timeouts.  Nothing makes anyone build an index or leave.
Spec ==
    /\ Init /\ [][Next]_searchVars
    /\ \A c \in Calls : WF_searchVars(Submit(c))
    /\ \A w \in Threads : WF_searchVars(WorkerStep(w))

-----------------------------------------------------------------------------
\* A thread that runs a call is in it, one that runs none is idle.
TypeOK ==
    /\ FanoutTypeOK
    /\ CacheTypeOK
    /\ \A w \in Threads : worker[w] = Nobody <=> At(w, "idle")
=============================================================================
