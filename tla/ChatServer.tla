------------------------------ MODULE ChatServer ------------------------------
(***************************************************************************)
(* runnrr/app.py: POST /api/chat in front of the agent loop.  The handler  *)
(* has no await, so admission (daily budget, expiry sweep, session limit,  *)
(* profile, message cap) is one step; the turn it admits runs later as     *)
(* AgentLoop's steps, holding the session dict it was given even if the    *)
(* registry SESSIONS has let it go meanwhile.  When a turn is over its     *)
(* tokens are recorded on the budget of the day.                           *)
(*                                                                         *)
(* Conversations are the dicts the process can tell apart: one that is     *)
(* neither registered nor held by a turn is garbage and is used again for  *)
(* the next new session.                                                   *)
(***************************************************************************)
EXTENDS AgentLoop, FiniteSets

CONSTANTS
    Sids,                   \* session ids clients send
    NoSid,
    SESSION_TTL,            \* ticks a session may go unseen
    MAX_ACTIVE_SESSIONS,
    MAX_TURNS_PER_SESSION,
    DAILY_LIMIT,            \* DAILY_TOKEN_BUDGET
    MaxDay                  \* bound: days the calendar advances

\* A message cap of zero turns every request away.
ASSUME ServerAssumption ==
    /\ IsFiniteSet(Turns) /\ IsFiniteSet(Sids) /\ IsFiniteSet(Conversations)
    /\ Cardinality(Conversations) >= Cardinality(Sids) + Cardinality(Turns)
    /\ NoSid \notin Sids
    /\ SESSION_TTL \in Nat /\ DAILY_LIMIT \in Nat \ {0} /\ MaxDay \in Nat
    /\ MAX_ACTIVE_SESSIONS \in Nat /\ MAX_TURNS_PER_SESSION \in Nat \ {0}

VARIABLES
    sessions,  \* SESSIONS: per session id its conversation, NoConv when absent
    unseen,    \* per conversation, ticks since last_seen (counted to SESSION_TTL + 1)
    asked,     \* history: the session id each request named
    today, date, used   \* the budget of runnrr/budget.py

budgetVars == <<today, date, used>>
serverVars == <<agentVars, sessions, unseen, asked, budgetVars>>

Budget == INSTANCE TokenBudget
            WITH Callers <- Turns, MaxTurnTokens <- MAX_TOOL_HOPS,
                 running <- {t \in Turns : turn[t].pc \in InFlight},
                 tally <- [t \in Turns |-> turn[t].tally]

Registered == {sessions[s] : s \in Sids} \ {NoConv}

ServerInit ==
    /\ log  = [c \in Conversations |-> <<>>]
    /\ mode = [c \in Conversations |-> CHOOSE m \in Modes : TRUE]
    /\ turn = [t \in Turns |-> IdleTurn]
    /\ sessions = [s \in Sids |-> NoConv]
    /\ unseen = [c \in Conversations |-> 0]
    /\ asked = [t \in Turns |-> NoSid]
    /\ today = 0 /\ date = 0 /\ used = 0

-----------------------------------------------------------------------------
\* _cleanup_stale_sessions
Swept == [s \in Sids |->
            IF sessions[s] # NoConv /\ unseen[sessions[s]] > SESSION_TTL
            THEN NoConv ELSE sessions[s]]

\* Fault variant: a dict a running turn still holds is taken for a new session.
MutNewConv(reg) ==
    CHOOSE c \in Conversations : \A s \in Sids : reg[s] # c

\* A new session dict.
NewConv(reg) ==
    CHOOSE c \in Conversations : LiveOn(c) = {} /\ \A s \in Sids : reg[s] # c

\* Fault variant: the last message before the cap is not counted.
MutAtCap(c) == Len(log[c]) > MAX_TURNS_PER_SESSION * 2 + 1

AtCap(c) == Len(log[c]) >= MAX_TURNS_PER_SESSION * 2

Full(reg, sid) ==
    reg[sid] = NoConv /\ Cardinality({s \in Sids : reg[s] # NoConv}) >= MAX_ACTIVE_SESSIONS

\* /api/budget, or a chat request that finds the budget spent.
ReadBudget ==
    /\ UNCHANGED <<agentVars, sessions, unseen, asked>>
    /\ Budget!Stats

\* /api/status, or a chat request turned away behind the sweep: sessions are
\* full, or the provider or profile it names cannot be built.
SweepOnly ==
    /\ sessions' = Swept
    /\ UNCHANGED <<agentVars, unseen, asked>>
    /\ Budget!Stats

\* 429: the message cap.  The refused request still counts as a sign of life.
ChatCapped(sid) ==
    LET c == Swept[sid]
    IN  /\ Budget!HasCapacity
        /\ c # NoConv /\ AtCap(c)
        /\ sessions' = Swept
        /\ unseen' = [unseen EXCEPT ![c] = 0]
        /\ UNCHANGED <<agentVars, asked>>
        /\ Budget!Stats

\* Fault variant: a change of profile or provider goes unnoticed.
MutSwitches(c, isNew, m) == isNew

\* setdefault made the dict just now, or it belongs to another profile or provider.
Switches(c, isNew, m) == isNew \/ mode[c] # m

Chat(t, sid, m) ==
    LET isNew == Swept[sid] = NoConv
        c     == IF isNew THEN NewConv(Swept) ELSE Swept[sid]
    IN  /\ turn[t].pc = "idle"
        /\ ~Full(Swept, sid)
        /\ ~(~Switches(c, isNew, m) /\ AtCap(c))
        /\ Attach(t, c, m, Switches(c, isNew, m))
        /\ sessions' = [Swept EXCEPT ![sid] = c]
        /\ unseen' = [unseen EXCEPT ![c] = 0]
        /\ asked' = [asked EXCEPT ![t] = sid]
        /\ Budget!Admit(t)

\* A step of a turn that is not over with it.
RunTurn(t) ==
    /\ Start(t) \/ EndStream(t) \/ UsageSent(t) \/ ToolsDone(t) \/ ResultsSent(t)
    /\ UNCHANGED <<sessions, unseen, asked, budgetVars>>

\* Fault variant: recorded at the last event and again in the finally block.
MutEndTurn(t) ==
    /\ Finish(t) \/ Close(t)
    /\ Budget!Record(2 * turn[t].tally)
    /\ UNCHANGED <<sessions, unseen, asked, today>>

EndTurn(t) ==
    /\ Finish(t) \/ Close(t)
    /\ Budget!Record(turn[t].tally)
    /\ UNCHANGED <<sessions, unseen, asked, today>>

LoseClient(t) ==
    /\ Disconnect(t)
    /\ UNCHANGED <<sessions, unseen, asked, budgetVars>>

Tick ==
    /\ unseen' = [c \in Conversations |->
                    IF c \in Registered /\ unseen[c] <= SESSION_TTL
                    THEN unseen[c] + 1 ELSE unseen[c]]
    /\ UNCHANGED <<agentVars, sessions, asked, budgetVars>>

Midnight ==
    /\ UNCHANGED <<agentVars, sessions, unseen, asked>>
    /\ Budget!Midnight

ServerNext ==
    \/ ReadBudget
    \/ SweepOnly
    \/ \E sid \in Sids : ChatCapped(sid)
    \/ \E t \in Turns, sid \in Sids, m \in Modes : Chat(t, sid, m)
    \/ \E t \in Turns : RunTurn(t) \/ EndTurn(t) \/ LoseClient(t)
    \/ Tick
    \/ Midnight

\* As in AgentLoop: a turn that can take a step eventually takes one.
ServerFairness == \A t \in Turns : WF_serverVars(RunTurn(t) \/ EndTurn(t))

ServerSpec == ServerInit /\ [][ServerNext]_serverVars /\ ServerFairness

-----------------------------------------------------------------------------
\* The server's state is well typed.
ServerTypeOK ==
    /\ TypeOK
    /\ sessions \in [Sids -> Conversations \cup {NoConv}]
    /\ unseen \in [Conversations -> 0..(SESSION_TTL + 1)]
    /\ asked \in [Turns -> Sids \cup {NoSid}]
    /\ today \in 0..MaxDay /\ date \in 0..today /\ used \in Nat

\* The server uses the budget as TokenBudget says: one admission check per turn,
\* one record of at most a turn's tokens when it is over, whatever becomes of the
\* session, the client or the day in between.
ImplementsBudget == Budget!Spec

\* Two session ids never share a conversation, and nothing a request of one id
\* writes shows up under another, even when its session expired under it.
SessionsIsolated ==
    \A s \in Sids : sessions[s] # NoConv =>
        /\ \A r \in Sids \ {s} : sessions[r] # sessions[s]
        /\ \A i \in DOMAIN log[sessions[s]] : asked[log[sessions[s]][i].by] = s

\* The message cap is compared when a turn is admitted; a turn may run past it by
\* what its hops append, and no further while nobody else holds the conversation.
CapOvershootBounded ==
    \A c \in Conversations :
        (\A i \in DOMAIN log[c] : ~turn[log[c][i].by].shared) =>
            Len(log[c]) <= MAX_TURNS_PER_SESSION * 2 + MAX_TOOL_HOPS * (1 + MaxCalls)

\* A switch of profile or provider leaves nothing behind: a conversation holds
\* only messages of its present mode, unless a request overtook a running turn.
SwitchStartsClean ==
    \A c \in Conversations : \A i \in DOMAIN log[c] :
        LET s == turn[log[c][i].by] IN s.mode = mode[c] \/ s.shared
=============================================================================
