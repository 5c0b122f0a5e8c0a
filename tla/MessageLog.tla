----------------------------- MODULE MessageLog -----------------------------
(***************************************************************************)
(* The message log of one conversation: session["messages"], the list a    *)
(* turn appends to and a provider sends to its vendor.  Text and payloads  *)
(* are left out.  What is kept is who wrote an entry (`by`, a turn), at    *)
(* which hop of that turn, and the tool calls it makes or answers (`ids`,  *)
(* the calls of a hop numbered in the order the model made them).          *)
(***************************************************************************)
EXTENDS Naturals, Sequences

Families == {"anthropic", "openai_compat", "gemini"}
Kinds    == {"user", "assistant", "results"}

\* The calls 1..n of a hop, in call order.
CallIds(n) == [k \in 1..n |-> k]

UserMsg(t) == [kind |-> "user", by |-> t, hop |-> 0, ids |-> <<>>]

AssistantMsg(t, h, n) ==
    [kind |-> "assistant", by |-> t, hop |-> h, ids |-> CallIds(n)]

ResultsMsg(t, h, ids) == [kind |-> "results", by |-> t, hop |-> h, ids |-> ids]

\* What append_tool_results adds for the n calls of a hop: one "tool" message
\* per call for OpenAI-compatible endpoints, one message holding every result
\* for Anthropic and Gemini.  The results come out of asyncio.gather, hence in
\* call order whatever the order in which the tools finished.
ResultMsgs(family, t, h, n) ==
    IF family = "openai_compat"
    THEN [k \in 1..n |-> ResultsMsg(t, h, <<k>>)]
    ELSE << ResultsMsg(t, h, CallIds(n)) >>

\* The answers to the calls of entry i, when they stand right behind it in
\* either form; the interval of their positions.
AnswerSpan(log, i, family) ==
    LET w == Len(ResultMsgs(family, log[i].by, log[i].hop, Len(log[i].ids)))
    IN  (i + 1) .. (i + w)

AnsweredAs(log, i, family) ==
    LET span == AnswerSpan(log, i, family)
        msgs == ResultMsgs(family, log[i].by, log[i].hop, Len(log[i].ids))
    IN  /\ span \subseteq DOMAIN log
        /\ \A j \in span : log[j] = msgs[j - i]

MakesCalls(log, i) == log[i].kind = "assistant" /\ log[i].ids # <<>>

Answered(log, i) == \E f \in Families : AnsweredAs(log, i, f)

\* Assistant entries whose tool calls are not answered right behind them.
Unanswered(log) == {i \in DOMAIN log : MakesCalls(log, i) /\ ~Answered(log, i)}

\* Results that do not stand right behind the calls they answer.
Orphans(log) ==
    {j \in DOMAIN log :
        /\ log[j].kind = "results"
        /\ ~ \E i \in 1..(j - 1), f \in Families :
               /\ MakesCalls(log, i)
               /\ AnsweredAs(log, i, f)
               /\ j \in AnswerSpan(log, i, f)}

\* A log the vendors accept: every call answered, every result asked for.
WellFormed(log) == Unanswered(log) = {} /\ Orphans(log) = {}
=============================================================================
