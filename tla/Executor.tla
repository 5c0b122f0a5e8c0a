------------------------------ MODULE Executor ------------------------------
(***************************************************************************)
(* The default executor of the event loop.  asyncio.to_thread (agent.py,   *)
(* 154-163) puts the tool calls of all turns on these threads, and on each *)
(* of them runs, among others, the search of runnrr/rag/retriever.py.      *)
(***************************************************************************)
CONSTANT Threads
=============================================================================
