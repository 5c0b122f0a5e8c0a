----------------------------- MODULE DailyMeter -----------------------------
(***************************************************************************)
(* What the token budget promises: tokens are charged to the calendar day  *)
(* on which a turn ends, a new day starts at zero by itself, and no turn   *)
(* is admitted on a day that has spent its limit.                          *)
(***************************************************************************)
EXTENDS Naturals

CONSTANTS Callers, DAILY_LIMIT, MaxTurnTokens

VARIABLES
    today,    \* the calendar day
    spent,    \* tokens charged to it so far
    running,  \* turns admitted and not yet over
    tally     \* per turn, tokens reported to it so far

meterVars == <<today, spent, running, tally>>

Init == today = 0 /\ spent = 0 /\ running = {} /\ tally = [c \in Callers |-> 0]

Admit(c) ==
    /\ spent < DAILY_LIMIT
    /\ running' = running \cup {c}
    /\ UNCHANGED <<today, spent, tally>>

Report(c, n) ==
    /\ c \in running
    /\ tally[c] + n <= MaxTurnTokens
    /\ tally' = [tally EXCEPT ![c] = @ + n]
    /\ UNCHANGED <<today, spent, running>>

Charge(c) ==
    /\ c \in running
    /\ running' = running \ {c}
    /\ spent' = spent + tally[c]
    /\ tally' = [tally EXCEPT ![c] = 0]
    /\ UNCHANGED today

NewDay == today' = today + 1 /\ spent' = 0 /\ UNCHANGED <<running, tally>>

Clear == spent' = 0 /\ UNCHANGED <<today, running, tally>>

Next ==
    \/ \E c \in Callers : Admit(c)
    \/ \E c \in Callers, n \in 1..MaxTurnTokens : Report(c, n)
    \/ \E c \in Callers : Charge(c)
    \/ NewDay
    \/ Clear

Spec == Init /\ [][Next]_meterVars
=============================================================================
