----------------------------- MODULE TokenBudget -----------------------------
(***************************************************************************)
(* runnrr/budget.py: the process-wide TokenBudget and its callers.  Nobody *)
(* resets the counter at midnight: every call that takes the lock first    *)
(* compares the stored date with today's (_maybe_reset_locked).  A turn    *)
(* asks has_capacity when it is admitted, tallies what its provider        *)
(* reports (_instrument in runnrr/app.py) and records the total when it is *)
(* over, so the check is old by the time the charge is made.               *)
(*                                                                         *)
(* Each method holds the lock for its whole body: one step each.           *)
(***************************************************************************)
EXTENDS Naturals, FiniteSets

CONSTANTS
    Callers,        \* turns that can be under way at once
    DAILY_LIMIT,    \* daily_limit
    MaxTurnTokens,  \* most tokens one turn records
    MaxDay          \* bound: days the calendar advances

ASSUME BudgetAssumption ==
    /\ IsFiniteSet(Callers)
    /\ DAILY_LIMIT \in Nat \ {0}
    /\ MaxTurnTokens \in Nat
    /\ MaxDay \in Nat

VARIABLES
    today,    \* date.today()
    date,     \* _date
    used,     \* _used
    running,  \* turns past has_capacity that have not recorded
    tally     \* per turn, tokens its provider has reported so far

budgetVars == <<today, date, used, running, tally>>

Init ==
    /\ today = 0 /\ date = 0 /\ used = 0
    /\ running = {}
    /\ tally = [c \in Callers |-> 0]

\* The counter once _maybe_reset_locked has run.
Current == IF today # date THEN 0 ELSE used

\* A locked method that only reads: has_capacity, stats.
Touch == date' = today /\ used' = Current

\* Fault variant: the last token before the limit does not count.
MutHasCapacity == Current <= DAILY_LIMIT

HasCapacity == Current < DAILY_LIMIT

\* Fault variant: record skips the rollover; the next call throws the charge away.
MutRecord(n) == IF n = 0 THEN UNCHANGED <<date, used>> ELSE date' = date /\ used' = used + n

\* Nothing to record leaves even the date alone.
Record(n) == IF n = 0 THEN UNCHANGED <<date, used>> ELSE date' = today /\ used' = Current + n

-----------------------------------------------------------------------------
Admit(c) ==
    /\ c \notin running
    /\ HasCapacity
    /\ Touch
    /\ running' = running \cup {c}
    /\ UNCHANGED <<today, tally>>

\* A usage event passes: tally() adds it to the turn's own count.
Report(c, n) ==
    /\ c \in running
    /\ tally[c] + n <= MaxTurnTokens
    /\ tally' = [tally EXCEPT ![c] = @ + n]
    /\ UNCHANGED <<today, date, used, running>>

\* has_capacity answered no, the request went no further, or /api/budget was read.
Stats == Touch /\ UNCHANGED <<today, running, tally>>

\* The turn is over: _instrument's finally block.
Settle(c) ==
    /\ c \in running
    /\ Record(tally[c])
    /\ running' = running \ {c}
    /\ tally' = [tally EXCEPT ![c] = 0]
    /\ UNCHANGED today

\* Fault variant: the date is taken in UTC, where it may be tomorrow already.
MutReset == date' = today + 1 /\ used' = 0 /\ UNCHANGED <<today, running, tally>>

\* reset(); only the test suite calls it.
Reset == date' = today /\ used' = 0 /\ UNCHANGED <<today, running, tally>>

Midnight ==
    /\ today < MaxDay
    /\ today' = today + 1
    /\ UNCHANGED <<date, used, running, tally>>

Next ==
    \/ \E c \in Callers : Admit(c)
    \/ \E c \in Callers, n \in 1..MaxTurnTokens : Report(c, n)
    \/ \E c \in Callers : Settle(c)
    \/ Stats
    \/ Reset
    \/ Midnight

Spec == Init /\ [][Next]_budgetVars

-----------------------------------------------------------------------------
\* The budget's state is well typed, and its date is never ahead of the calendar.
TypeOK ==
    /\ today \in 0..MaxDay
    /\ date \in 0..today
    /\ used \in Nat
    /\ running \subseteq Callers
    /\ tally \in [Callers -> 0..MaxTurnTokens]

\* The limit can be overshot, since has_capacity is asked when a turn starts and
\* record is called when it is over, but by no more than the turns that can be
\* under way at once spend: the count stays below that at every moment, the turns
\* still running included at their worst.
OvershootBounded ==
    used + MaxTurnTokens * Cardinality(running)
        <= DAILY_LIMIT - 1 + MaxTurnTokens * Cardinality(Callers)

\* The lazily reset counter behaves as a meter that starts every day at zero and is
\* charged, when a turn is over, exactly what was reported to it.
Meter == INSTANCE DailyMeter WITH spent <- Current
ImplementsMeter == Meter!Spec
=============================================================================
