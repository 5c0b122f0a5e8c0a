----------------------------- MODULE ToolFanout -----------------------------
(***************************************************************************)
(* runnrr/agent.py (139-164): how the tool calls of a hop reach threads.   *)
(* A turn has a semaphore of its own; asyncio.to_thread puts a call into   *)
(* the queue of the default executor, whose threads all turns share.       *)
(* When a turn is cancelled, a thread that runs a call goes on to the end  *)
(* of it; a call still in the queue is cancelled there, and the thread     *)
(* that comes upon it passes it over.                                      *)
(***************************************************************************)
EXTENDS Executor, Naturals, Sequences, FiniteSets, Functions

CONSTANTS
    Turns,      \* turns that run tools
    Calls,      \* tool calls
    CallsOf,    \* per turn the calls of its hop, in the reply's order
    Slots,      \* MAX_PARALLEL_TOOLS
    Nobody      \* a thread without a call

ASSUME FanoutAssumption ==
    /\ CallsOf \in [Turns -> Seq(Calls)]
    /\ \A c \in Calls : \E t \in Turns : c \in Range(CallsOf[t])
    /\ \A t, u \in Turns : t # u => Range(CallsOf[t]) \cap Range(CallsOf[u]) = {}
    /\ Slots \in Nat \ {0}
    /\ Nobody \notin Calls

VARIABLES
    turn,     \* per turn "open" or "cancelled"
    call,     \* per call how far it is
    queue,    \* the executor's queue
    worker    \* per thread the call it runs

fanoutVars == <<turn, call, queue, worker>>

TurnOf(c) == CHOOSE t \in Turns : c \in Range(CallsOf[t])

FanoutInit ==
    /\ turn = [t \in Turns |-> "open"]
    /\ call = [c \in Calls |-> "waiting"]
    /\ queue = <<>>
    /\ worker = [w \in Threads |-> Nobody]

\* What a turn holds of its semaphore.
Held(t) == {c \in Range(CallsOf[t]) : call[c] \in {"queued", "running"}}

\* The semaphore wakes its waiters in order, and gather has started the calls in order.
Foremost(t, c) ==
    \E i \in DOMAIN CallsOf[t] :
        CallsOf[t][i] = c /\ \A j \in 1 .. i - 1 : call[CallsOf[t][j]] # "waiting"

\* Fault variant: the semaphore is not taken.
MutAcquire(c) ==
    /\ call[c] = "waiting"
    /\ call' = [call EXCEPT ![c] = "queued"]
    /\ queue' = Append(queue, c)
    /\ UNCHANGED <<turn, worker>>

\* async with tool_slots: await asyncio.to_thread(...)
Acquire(c) ==
    /\ call[c] = "waiting" /\ Foremost(TurnOf(c), c)
    /\ Cardinality(Held(TurnOf(c))) < Slots
    /\ call' = [call EXCEPT ![c] = "queued"]
    /\ queue' = Append(queue, c)
    /\ UNCHANGED <<turn, worker>>

Take(w) ==
    /\ worker[w] = Nobody /\ queue # <<>>
    /\ call[Head(queue)] = "queued"
    /\ worker' = [worker EXCEPT ![w] = Head(queue)]
    /\ call' = [call EXCEPT ![Head(queue)] = "running"]
    /\ queue' = Tail(queue)
    /\ UNCHANGED turn

\* A call that was cancelled in the queue is not run (concurrent.futures).
Skip(w) ==
    /\ worker[w] = Nobody /\ queue # <<>>
    /\ call[Head(queue)] # "queued"
    /\ queue' = Tail(queue)
    /\ UNCHANGED <<turn, call, worker>>

\* Fault variant: a call that failed does not give its slot back.
MutAfter(c, failed) ==
    IF call[c] = "orphan" THEN "dropped" ELSE IF failed THEN "running" ELSE "answered"

\* run_tool returns a result for every failure; nobody awaits a cancelled turn's.
After(c, failed) == IF call[c] = "orphan" THEN "dropped" ELSE "answered"

Return(w, failed) ==
    /\ worker[w] # Nobody
    /\ call' = [call EXCEPT ![worker[w]] = After(worker[w], failed)]
    /\ worker' = [worker EXCEPT ![w] = Nobody]
    /\ UNCHANGED <<turn, queue>>

\* Fault variant: the thread is taken to be free.
MutCancel(t) ==
    /\ turn[t] = "open"
    /\ turn' = [turn EXCEPT ![t] = "cancelled"]
    /\ call' = [c \in Calls |-> IF c \in Range(CallsOf[t]) THEN "dropped" ELSE call[c]]
    /\ UNCHANGED queue
    /\ worker' = [w \in Threads |-> IF worker[w] \in Range(CallsOf[t]) THEN Nobody ELSE worker[w]]

\* The client went away while the turn was awaiting its tools.
Cancel(t) ==
    /\ turn[t] = "open"
    /\ \E c \in Range(CallsOf[t]) : call[c] # "answered"
    /\ turn' = [turn EXCEPT ![t] = "cancelled"]
    /\ call' = [c \in Calls |->
                  IF c \notin Range(CallsOf[t]) \/ call[c] = "answered" THEN call[c]
                  ELSE IF call[c] = "running" THEN "orphan" ELSE "dropped"]
    /\ UNCHANGED <<queue, worker>>

FanoutTypeOK ==
    /\ turn \in [Turns -> {"open", "cancelled"}]
    /\ call \in [Calls -> {"waiting", "queued", "running", "answered", "orphan", "dropped"}]
    /\ queue \in Seq(Calls)
    /\ worker \in [Threads -> Calls \cup {Nobody}]

-----------------------------------------------------------------------------
\* However many calls a reply makes, its turn occupies at most MAX_PARALLEL_TOOLS
\* threads, also behind its cancellation ("cannot exhaust the default thread pool",
\* agent.py:36).
TurnBounded ==
    \A t \in Turns :
        Cardinality({w \in Threads : worker[w] \in Range(CallsOf[t])}) <= Slots

\* Every call of a turn gets its result, whatever the tool does and however long the
\* threads were busy with calls of turns that are gone, unless its turn is cancelled.
CallsAnswered ==
    \A c \in Calls : <>(call[c] = "answered" \/ turn[TurnOf(c)] = "cancelled")
=============================================================================
