------------------------------ MODULE AgentLoop ------------------------------
(***************************************************************************)
(* The agent loop of runnrr/agent.py: run_conversation_stream, the stream  *)
(* of the three providers it drives, and the accounting generator          *)
(* (_instrument in runnrr/app.py) that wraps it.                           *)
(*                                                                         *)
(* A turn is one POST /api/chat.  Turns run on one event loop, so what     *)
(* lies between two awaits is one step; a turn can be overtaken by other   *)
(* requests, or lose its client, exactly where the code awaits or yields:  *)
(*                                                                         *)
(*   ready    the StreamingResponse exists, its generator has not started  *)
(*   stream   inside provider.stream of a hop                              *)
(*   usage    suspended at the yield of the hop's usage event              *)
(*   tools    inside asyncio.gather over the hop's tool calls              *)
(*   results  suspended at the yields of the tool_result events            *)
(*   ending   suspended at the yield of the terminal event                 *)
(*   closing  the client is gone, the generators are not yet finalised     *)
(*                                                                         *)
(* A conversation is a session dict; conversations outlive turns, several  *)
(* turns can hold the same one, and its list of messages is replaced when  *)
(* a request arrives for another profile or provider.                      *)
(***************************************************************************)
EXTENDS MessageLog

CONSTANTS
    Turns,          \* chat requests; bounds the run
    Conversations,  \* session dicts
    Modes,          \* (provider, profile) pairs a request can name
    ProviderOf,     \* the provider family of a mode
    NoConv,         \* what an idle turn holds
    MAX_TOOL_HOPS,  \* hops a turn may take
    MaxCalls        \* bound: tool calls in one assistant message

ASSUME AgentAssumption ==
    /\ Conversations # {} /\ Modes # {}
    /\ NoConv \notin Conversations
    /\ ProviderOf \in [Modes -> Families]
    /\ MAX_TOOL_HOPS \in Nat \ {0}
    /\ MaxCalls \in Nat \ {0}

VARIABLES
    log,   \* per conversation, session["messages"]
    mode,  \* per conversation, its (session["provider"], session["profile"])
    turn   \* per request, the locals of its generators

agentVars == <<log, mode, turn>>

Yields    == {"stream", "usage", "tools", "results", "ending"}
InFlight  == Yields \cup {"ready", "closing"}
Phases    == InFlight \cup {"idle", "closed"}
StopReasons == {"end_turn", "tool_use", "max_tokens", "error"}

\* A turn before it is submitted.  `reported`, `billed`, `cutAt` and `shared`
\* are history: tokens the provider reported, tokens put on the budget, where
\* the client vanished, and whether another turn held the conversation meanwhile.
IdleTurn == [pc |-> "idle", conv |-> NoConv, mode |-> CHOOSE m \in Modes : TRUE,
             hop |-> 0, calls |-> 0, stop |-> "end_turn", stray |-> FALSE,
             accepted |-> TRUE, tally |-> 0, told |-> "none",
             reported |-> 0, billed |-> 0, cutAt |-> "none", shared |-> FALSE]

TurnState ==
    [pc : Phases, conv : Conversations \cup {NoConv}, mode : Modes,
     hop : 0..(MAX_TOOL_HOPS - 1), calls : 0..MaxCalls, stop : StopReasons,
     stray : BOOLEAN, accepted : BOOLEAN, tally : 0..MAX_TOOL_HOPS,
     told : {"none", "done", "error"}, reported : 0..MAX_TOOL_HOPS,
     billed : 0..MAX_TOOL_HOPS, cutAt : {"none", "ready"} \cup Yields,
     shared : BOOLEAN]

Message == [kind : Kinds, by : Turns, hop : 0..(MAX_TOOL_HOPS - 1),
            ids : Seq(1..MaxCalls)]

(***************************************************************************)
(* What one provider.stream call can come to.  `lands`: the assistant turn *)
(* was appended to the list it was given; `usage`: tokens reported, one    *)
(* standing for any positive number; `stop`: the stop_reason, or "error"   *)
(* for an error event or an exception.                                     *)
(***************************************************************************)
Reply(n, u, stop) == [lands |-> TRUE, calls |-> n, usage |-> u, stop |-> stop]

\* Timeout, refused request, dropped connection: nothing was appended.
Failure == [lands |-> FALSE, calls |-> 0, usage |-> 0, stop |-> "error"]

\* Anything but stop_reason "tool_use" is passed on as "end_turn", so a message
\* that max_tokens truncated behind a tool_use block ends the turn with calls.
AnthropicReplies ==
    {Reply(n, 1, "tool_use") : n \in 1..MaxCalls}
      \cup {Reply(n, 1, "end_turn") : n \in 0..MaxCalls}

\* Assembled tool calls force "tool_use", and a finish_reason "tool_calls" says so
\* without any: the loop then runs no tool and takes the next hop all the same.
\* Missing usage is estimated.
OpenAIReplies ==
    {Reply(n, 1, "tool_use") : n \in 0..MaxCalls} \cup {Reply(0, 1, "end_turn")}

\* Usage only when a chunk carried it.  A blocked finish is an error event,
\* yielded behind the usage and behind the append.
GeminiReplies ==
    {Reply(n, u, "tool_use") : n \in 1..MaxCalls, u \in 0..1}
      \cup {Reply(0, u, stop) : u \in 0..1, stop \in {"end_turn", "max_tokens", "error"}}

Replies(family) ==
    {Failure} \cup
    (CASE family = "anthropic"     -> AnthropicReplies
       [] family = "openai_compat" -> OpenAIReplies
       [] family = "gemini"        -> GeminiReplies)

\* The vendor's own check of the prompt: Anthropic and OpenAI refuse a log with
\* an unanswered call or a result nobody asked for.
VendorAccepts(family, l) == family = "gemini" \/ WellFormed(l)

-----------------------------------------------------------------------------
Family(t)  == ProviderOf[turn[t].mode]
Messages(t) == log[turn[t].conv]
LiveOn(c)  == {t \in Turns : turn[t].pc \in InFlight /\ turn[t].conv = c}

\* provider.stream(messages=session["messages"]): the list is read anew each hop.
OpenStream(s, h, l) ==
    [s EXCEPT !.pc = "stream", !.hop = h, !.calls = 0, !.stray = FALSE,
              !.accepted = VendorAccepts(ProviderOf[s.mode], l)]

Tell(s, event) == [s EXCEPT !.pc = "ending", !.told = event]

\* Past the usage event: any stop reason but tool_use ends the turn.
AfterUsage(s) == IF s.stop # "tool_use" THEN Tell(s, "done") ELSE [s EXCEPT !.pc = "tools"]

\* The request is over; what it left is kept until the next one.
Heard(s, r) ==
    [s EXCEPT !.stray = FALSE, !.accepted = TRUE,
              !.calls = r.calls, !.stop = r.stop, !.reported = @ + r.usage]

\* Fault variant: an error event is taken for a message_done.
MutAfterReply(s, r) ==
    LET heard == Heard(s, r)
    IN  IF r.usage > 0 THEN [heard EXCEPT !.pc = "usage", !.tally = @ + r.usage]
        ELSE AfterUsage(heard)

\* Fault variant: a failed request is sent again until it succeeds.
MutRetry(s, r) ==
    IF ~r.lands THEN s
    ELSE IF r.usage > 0 THEN [Heard(s, r) EXCEPT !.pc = "usage", !.tally = @ + r.usage]
    ELSE AfterUsage(Heard(s, r))

\* What the loop does with the reply: an error event ends the turn at once and
\* the buffered usage goes with it; otherwise the hop's usage is yielded (and
\* tallied by _instrument on its way out), if there is any.
AfterReply(s, r) ==
    LET heard == Heard(s, r)
    IN  IF r.stop = "error" THEN Tell(heard, "error")
        ELSE IF r.usage > 0 THEN [heard EXCEPT !.pc = "usage", !.tally = @ + r.usage]
        ELSE AfterUsage(heard)

-----------------------------------------------------------------------------
(***************************************************************************)
(* Actions                                                                 *)
(***************************************************************************)
Init ==
    /\ log  = [c \in Conversations |-> <<>>]
    /\ mode \in [Conversations -> Modes]
    /\ turn = [t \in Turns |-> IdleTurn]

\* The other turns on c when a request joins them.  A turn inside
\* provider.stream keeps appending to the list it was given, which a switch of
\* mode has just replaced.
Overtaken(s, switched) ==
    [s EXCEPT !.shared = TRUE, !.stray = @ \/ (switched /\ s.pc = "stream")]

\* Fault variant: a request that finds the conversation busy starts it over.
MutAttach(t, c, m, switched) ==
    /\ log'  = IF LiveOn(c) # {} THEN [log EXCEPT ![c] = <<>>] ELSE log
    /\ mode' = [mode EXCEPT ![c] = m]
    /\ turn' = [turn EXCEPT ![t] = [IdleTurn EXCEPT !.pc = "ready", !.conv = c, !.mode = m,
                                                   !.shared = LiveOn(c) # {}]]

\* The end of the chat handler: the request joins conversation c, which starts
\* over when the request names another profile or provider.
Attach(t, c, m, switched) ==
    /\ log'  = IF switched THEN [log EXCEPT ![c] = <<>>] ELSE log
    /\ mode' = [mode EXCEPT ![c] = m]
    /\ turn' = [u \in Turns |->
                  IF u = t
                  THEN [IdleTurn EXCEPT !.pc = "ready", !.conv = c, !.mode = m,
                                        !.shared = LiveOn(c) # {}]
                  ELSE IF u \in LiveOn(c) THEN Overtaken(turn[u], switched)
                  ELSE turn[u]]

Submit(t, c, m) == turn[t].pc = "idle" /\ Attach(t, c, m, mode[c] # m)

\* First step of the generator: the user message, then the first request.
Start(t) ==
    LET l == Append(Messages(t), UserMsg(t))
    IN  /\ turn[t].pc = "ready"
        /\ log'  = [log EXCEPT ![turn[t].conv] = l]
        /\ turn' = [turn EXCEPT ![t] = OpenStream(@, 0, l)]
        /\ UNCHANGED mode

\* The stream of a hop ends.  The provider appends the assistant turn to the
\* list it holds, then yields calls, usage and stop reason without awaiting.
EndStream(t) ==
    /\ turn[t].pc = "stream"
    /\ \E r \in Replies(Family(t)) :
         /\ ~turn[t].accepted => r = Failure
         /\ log' = IF r.lands /\ ~turn[t].stray
                   THEN [log EXCEPT ![turn[t].conv] =
                          Append(@, AssistantMsg(t, turn[t].hop, r.calls))]
                   ELSE log
         /\ turn' = [turn EXCEPT ![t] = AfterReply(@, r)]
    /\ UNCHANGED mode

UsageSent(t) ==
    /\ turn[t].pc = "usage"
    /\ turn' = [turn EXCEPT ![t] = AfterUsage(@)]
    /\ UNCHANGED <<log, mode>>

\* Fault variant: results are yielded first, and a client that vanishes between
\* the yields takes the append with it.
MutToolsDone(t) ==
    /\ turn[t].pc = "tools"
    /\ turn' = [turn EXCEPT ![t].pc = "closing", ![t].cutAt = "results"]
    /\ UNCHANGED <<log, mode>>

\* Fault variant: results are appended as the tools finish, here the last one first.
MutUnordered(t) ==
    /\ turn[t].pc = "tools"
    /\ log' = [log EXCEPT ![turn[t].conv] =
                 @ \o [k \in 1..turn[t].calls |->
                         ResultsMsg(t, turn[t].hop, <<turn[t].calls + 1 - k>>)]]
    /\ turn' = [turn EXCEPT ![t].pc = "results"]
    /\ UNCHANGED mode

\* gather returns: the results go to the conversation's present list first,
\* then the tool_result events are yielded.
ToolsDone(t) ==
    /\ turn[t].pc = "tools"
    /\ log' = [log EXCEPT ![turn[t].conv] =
                 @ \o ResultMsgs(Family(t), t, turn[t].hop, turn[t].calls)]
    /\ turn' = [turn EXCEPT ![t].pc = "results"]
    /\ UNCHANGED mode

\* Fault variants: the hop counter wraps around; one hop too many.
MutNextHop(s, l) == OpenStream(s, (s.hop + 1) % MAX_TOOL_HOPS, l)

MutExtraHop(s, l) ==
    IF s.hop < MAX_TOOL_HOPS THEN OpenStream(s, s.hop + 1, l) ELSE Tell(s, "error")

\* for hop in range(MAX_TOOL_HOPS)
NextHop(s, l) ==
    IF s.hop + 1 < MAX_TOOL_HOPS THEN OpenStream(s, s.hop + 1, l) ELSE Tell(s, "error")

ResultsSent(t) ==
    /\ turn[t].pc = "results"
    /\ turn' = [turn EXCEPT ![t] = NextHop(@, Messages(t))]
    /\ UNCHANGED <<log, mode>>

\* Fault variant: the budget is charged behind the loop, not in a finally block.
MutOver(s) ==
    [IdleTurn EXCEPT !.pc = "closed", !.mode = s.mode, !.hop = s.hop, !.stop = s.stop,
                     !.reported = s.reported, !.cutAt = s.cutAt, !.shared = s.shared,
                     !.billed = IF s.cutAt = "none" THEN s.tally ELSE 0]

\* The finally block of _instrument: what was tallied goes on the budget.  The
\* generators' locals are gone; the history of the turn remains.
Over(s) ==
    [IdleTurn EXCEPT !.pc = "closed", !.mode = s.mode, !.hop = s.hop, !.stop = s.stop,
                     !.reported = s.reported, !.cutAt = s.cutAt, !.shared = s.shared,
                     !.billed = s.tally]

\* The terminal event was read and the generators run to their end.
Finish(t) ==
    /\ turn[t].pc = "ending"
    /\ turn' = [turn EXCEPT ![t] = Over(@)]
    /\ UNCHANGED <<log, mode>>

\* The client is gone: the turn is cancelled at the await, or abandoned at the
\* yield, it stands at.  A generator that never started is dropped unrun.
Disconnect(t) ==
    /\ turn[t].pc \in Yields \cup {"ready"}
    /\ turn' = [turn EXCEPT ![t].cutAt = turn[t].pc,
                            ![t].pc = IF @ = "ready" THEN "closed" ELSE "closing"]
    /\ UNCHANGED <<log, mode>>

\* GeneratorExit or CancelledError reaches the finally block.
Close(t) ==
    /\ turn[t].pc = "closing"
    /\ turn' = [turn EXCEPT ![t] = Over(@)]
    /\ UNCHANGED <<log, mode>>

\* Every step of a running turn.
Step(t) ==
    \/ Start(t)
    \/ EndStream(t)
    \/ UsageSent(t)
    \/ ToolsDone(t)
    \/ ResultsSent(t)
    \/ Finish(t)
    \/ Close(t)

Next ==
    \E t \in Turns :
        \/ \E c \in Conversations, m \in Modes : Submit(t, c, m)
        \/ Step(t)
        \/ Disconnect(t)

\* Provider calls and tools run under timeouts, a slow reader is either served
\* or found gone, and the loop runs the callbacks that are ready.
Fairness == \A t \in Turns : WF_agentVars(Step(t))

Spec == Init /\ [][Next]_agentVars /\ Fairness

-----------------------------------------------------------------------------
(***************************************************************************)
(* Properties                                                              *)
(***************************************************************************)

\* The state of the agent loop is well typed.
TypeOK ==
    /\ log \in [Conversations -> Seq(Message)]
    /\ mode \in [Conversations -> Modes]
    /\ turn \in [Turns -> TurnState]

\* A tool call without its results has one of four causes: the results are still
\* to come, the client vanished between the provider's append and
\* append_tool_results (agent.py:119-172), Anthropic's truncated message ended
\* the turn (agent.py:135), or another request held the conversation.
CallsAnsweredOrExplained ==
    \A c \in Conversations : \A i \in Unanswered(log[c]) :
        LET s == turn[log[c][i].by]
        IN  \/ s.shared
            \/ i = Len(log[c]) /\ s.pc \in {"usage", "tools"}
            \/ s.cutAt \in {"usage", "tools"}
            \/ s.stop = "end_turn" /\ Family(log[c][i].by) = "anthropic"

\* Results without their call, right before them and in call order, appear only
\* in a conversation two requests held at once: append_tool_results otherwise
\* writes behind the assistant turn of its own hop.
OrphansOnlyWhenShared ==
    \A c \in Conversations : \A j \in Orphans(log[c]) : turn[log[c][j].by].shared

\* Whatever overtakes a turn, no hop of it is answered twice, and no reply is
\* written for a hop the turn has not reached or, at MAX_TOOL_HOPS, may not reach.
OneReplyPerHop ==
    \A c \in Conversations : \A i, j \in DOMAIN log[c] :
        LET m == log[c][i]
        IN  m.kind = "assistant" =>
              /\ m.hop <= turn[m.by].hop
              /\ log[c][j].kind = "assistant" /\ log[c][j].by = m.by
                   /\ log[c][j].hop = m.hop => i = j

\* A turn that is over has put on the daily budget every token the provider
\* reported to it, whether it ended, failed or lost its client on the way; the
\* one hop that may go missing is that of Gemini's blocked finish (agent.py:85).
BilledAsReported ==
    \A t \in Turns : turn[t].pc = "closed" =>
        \/ turn[t].billed = turn[t].reported
        \/ /\ turn[t].stop = "error" /\ Family(t) = "gemini"
           /\ turn[t].billed + 1 = turn[t].reported

\* What the client is told last agrees with how the conversation ends.  "done"
\* stands behind a final reply of that hop.  "error" stands behind a prompt left as
\* it was sent, behind results (those of the last hop, when no request failed), or
\* behind a reply without a call: Gemini's blocked one, or one of an OpenAI-compatible
\* endpoint that asked for tools and named none, in the hop before the one that
\* failed or in the last hop there is (openai_compat_provider.py:125, agent.py:135).
LastWordMatchesLog ==
    \A t \in Turns : turn[t].pc = "ending" /\ ~turn[t].shared =>
        LET last == log[turn[t].conv][Len(log[turn[t].conv])]
            failed == turn[t].stop = "error"
        IN  /\ last.by = t
            /\ turn[t].told = "done" => last.kind = "assistant" /\ last.hop = turn[t].hop
            /\ turn[t].told = "error" /\ last.kind = "results" /\ ~failed
                 => last.hop = MAX_TOOL_HOPS - 1
            /\ turn[t].told = "error" /\ last.kind = "assistant" =>
                 /\ last.ids = <<>>
                 /\ \/ Family(t) = "gemini" /\ failed /\ last.hop = turn[t].hop
                    \/ Family(t) = "openai_compat" /\ failed /\ last.hop + 1 = turn[t].hop
                    \/ Family(t) = "openai_compat" /\ ~failed /\ last.hop = MAX_TOOL_HOPS - 1

\* No turn ever changes or drops what a conversation already holds: the list only
\* grows at its end, until a request for another profile or provider empties it.
HistoryOnlyGrows ==
    [][\A c \in Conversations :
          \/ /\ Len(log[c]) <= Len(log'[c])
             /\ SubSeq(log'[c], 1, Len(log[c])) = log[c]
          \/ log'[c] = <<>> /\ mode'[c] # mode[c]]_agentVars

\* Every turn that was accepted ends and is settled, even when its client is gone.
TurnsSettle ==
    \A t \in Turns : (turn[t].pc \in InFlight) ~> (turn[t].pc = "closed")

-----------------------------------------------------------------------------
(***************************************************************************)
(* Claims of the source that do not hold; each is refuted by a run.        *)
(***************************************************************************)

\* "A client vanishing mid-stream must not brick the session"
\* (tests/test_caching_and_concurrency.py:309; agent.py:166 calls the early append
\* "the whole fix"): once a turn whose client vanished is over, none of the calls
\* it made is left without results.
VanishedClientLeavesCallsAnswered ==
    \A c \in Conversations : \A i \in Unanswered(log[c]) :
        LET s == turn[log[c][i].by]
        IN  ~(s.pc = "closed" /\ s.cutAt # "none" /\ ~s.shared)

\* "Tokens already consumed still count against the daily budget" (agent.py:107):
\* a turn that is over was charged what its provider reported.
ReportedTokensAreCharged ==
    \A t \in Turns : turn[t].pc = "closed" => turn[t].billed = turn[t].reported

\* "Switching provider families or profiles resets the session history because
\* message formats and tool surfaces may differ" (docs/agent_best_practices.md:34):
\* a conversation holds only messages of the mode it is in.  A turn that had not
\* started when the switch came writes its own prompt behind it (agent.py:39) and
\* is left aside: the claim is tested on turns that were under way.
OneModePerConversation ==
    \A c \in Conversations : \A i \in DOMAIN log[c] :
        LET m == log[c][i]
        IN  turn[m.by].mode = mode[c] \/ \E j \in 1..i : log[c][j] = UserMsg(m.by)
=============================================================================
