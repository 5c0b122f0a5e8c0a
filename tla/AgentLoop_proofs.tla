--------------------------- MODULE AgentLoop_proofs ---------------------------
(***************************************************************************)
(* Proofs about the agent loop, for any number of requests, conversations, *)
(* modes, hops and calls per hop: what a turn owes the budget, and what    *)
(* the message lists of conversations hold whatever overtakes a turn.      *)
(***************************************************************************)
EXTENDS AgentLoop, TLAPS

(***************************************************************************)
(* The inductive invariant.  BilledAsReported speaks of turns that are     *)
(* over; it holds because until then the tally keeps up with what the      *)
(* provider reported, and only an error event that follows the usage can   *)
(* leave it one hop behind.  A hop reports once, which also bounds both.   *)
(***************************************************************************)
KeepsUp(s) == s.tally = s.reported

OneBehind(s) ==
    /\ s.stop = "error" /\ ProviderOf[s.mode] = "gemini"
    /\ s.tally + 1 = s.reported

HopsHeard(s) == IF s.pc \in {"idle", "ready", "stream"} THEN s.hop ELSE s.hop + 1

MeterInv(s) ==
    /\ s.reported <= HopsHeard(s)
    /\ s.pc \in {"idle", "ready"} => s.reported = 0 /\ s.billed = 0
    /\ s.pc \in {"idle", "ready", "stream", "usage", "tools", "results"} => KeepsUp(s)
    /\ s.pc \in {"ending", "closing"} => KeepsUp(s) \/ OneBehind(s)
    /\ s.pc = "closed" =>
         \/ s.billed = s.reported
         \/ /\ s.stop = "error" /\ ProviderOf[s.mode] = "gemini"
            /\ s.billed + 1 = s.reported

Metered == \A t \in Turns : MeterInv(turn[t])

GoodTurn(s) == s \in TurnState /\ MeterInv(s)

ReplyType == [lands : BOOLEAN, calls : 0..MaxCalls, usage : 0..1, stop : StopReasons]

\* What a provider can answer; only Gemini reports tokens and then an error.
LEMMA ReplyFacts ==
    ASSUME NEW f \in Families, NEW r \in Replies(f)
    PROVE  /\ r \in ReplyType
           /\ r.stop = "error" => r.usage = 0 \/ f = "gemini"
<1> USE AgentAssumption DEF ReplyType, StopReasons, Reply, Failure
<1>1. CASE r = Failure
  BY <1>1
<1>2. CASE f = "anthropic" /\ r \in AnthropicReplies
  <2>1. PICK n \in 0..MaxCalls, stop \in StopReasons \ {"error"} : r = Reply(n, 1, stop)
    BY <1>2 DEF AnthropicReplies
  <2> QED
    BY <2>1
<1>3. CASE f = "openai_compat" /\ r \in OpenAIReplies
  <2>1. PICK n \in 0..MaxCalls, stop \in StopReasons \ {"error"} : r = Reply(n, 1, stop)
    BY <1>3 DEF OpenAIReplies
  <2> QED
    BY <2>1
<1>4. CASE f = "gemini" /\ r \in GeminiReplies
  <2>1. PICK n \in 0..MaxCalls, u \in 0..1, stop \in StopReasons : r = Reply(n, u, stop)
    BY <1>4 DEF GeminiReplies
  <2> QED
    BY <1>4, <2>1
<1> QED
  BY <1>1, <1>2, <1>3, <1>4 DEF Replies, Families

\* A turn that has not been submitted is well typed and owes nothing.
LEMMA IdleIsGood == GoodTurn(IdleTurn)
<1>1. IdleTurn.mode \in Modes
  BY AgentAssumption DEF IdleTurn
<1>2. IdleTurn \in TurnState
  BY <1>1, AgentAssumption DEF IdleTurn, TurnState, Phases, InFlight, Yields, StopReasons
<1> QED
  BY <1>2, AgentAssumption DEF GoodTurn, IdleTurn, MeterInv, KeepsUp, OneBehind, HopsHeard

\* Going to the next hop, with every earlier hop heard out.
LEMMA OpenStreamIsGood ==
    ASSUME NEW s, GoodTurn(s), NEW l, NEW h \in 0..(MAX_TOOL_HOPS - 1),
           KeepsUp(s), s.reported <= h
    PROVE  GoodTurn(OpenStream(s, h, l))
<1> DEFINE o == OpenStream(s, h, l)
<1>1. VendorAccepts(ProviderOf[s.mode], l) \in BOOLEAN
  BY DEF VendorAccepts, WellFormed
<1>2. o \in TurnState
  <2>1. s \in TurnState /\ 0 \in 0..MaxCalls
    BY AgentAssumption DEF GoodTurn
  <2>2. \A a \in BOOLEAN :
          [s EXCEPT !.pc = "stream", !.hop = h, !.calls = 0, !.stray = FALSE,
                    !.accepted = a] \in TurnState
    BY <2>1 DEF TurnState, Phases, InFlight, Yields
  <2> QED
    BY <1>1, <2>2 DEF OpenStream
<1>3. /\ o.pc = "stream" /\ o.hop = h
      /\ o.reported = s.reported /\ o.tally = s.tally
  BY DEF GoodTurn, OpenStream, TurnState
<1> QED
  BY <1>2, <1>3 DEF GoodTurn, MeterInv, KeepsUp, HopsHeard

\* The terminal event, and the step past the usage event.
LEMMA TellIsGood ==
    ASSUME NEW s \in TurnState, NEW e \in {"done", "error"},
           s.reported <= s.hop + 1, KeepsUp(s) \/ OneBehind(s)
    PROVE  GoodTurn(Tell(s, e))
<1>1. Tell(s, e) \in TurnState
  BY DEF Tell, TurnState, Phases, InFlight, Yields
<1>2. /\ Tell(s, e).pc = "ending"
      /\ Tell(s, e).hop = s.hop /\ Tell(s, e).stop = s.stop /\ Tell(s, e).mode = s.mode
      /\ Tell(s, e).reported = s.reported /\ Tell(s, e).tally = s.tally
  BY DEF Tell, TurnState
<1> QED
  BY <1>1, <1>2 DEF GoodTurn, MeterInv, KeepsUp, OneBehind, HopsHeard

LEMMA AfterUsageIsGood ==
    ASSUME NEW s \in TurnState, s.reported <= s.hop + 1, KeepsUp(s)
    PROVE  GoodTurn(AfterUsage(s))
<1>1. CASE s.stop # "tool_use"
  BY <1>1, TellIsGood DEF AfterUsage
<1>2. CASE s.stop = "tool_use"
  <2>1. AfterUsage(s) = [s EXCEPT !.pc = "tools"]
    BY <1>2 DEF AfterUsage
  <2>2. [s EXCEPT !.pc = "tools"] \in TurnState
    BY DEF TurnState, Phases, InFlight, Yields
  <2> QED
    BY <2>1, <2>2 DEF GoodTurn, MeterInv, KeepsUp, HopsHeard, TurnState
<1> QED
  BY <1>1, <1>2

\* What a turn makes of any reply its provider can give.
LEMMA AfterReplyIsGood ==
    ASSUME NEW s, GoodTurn(s), s.pc = "stream", NEW r \in Replies(ProviderOf[s.mode])
    PROVE  GoodTurn(AfterReply(s, r))
<1> DEFINE heard == Heard(s, r)
<1>1. s \in TurnState /\ s.tally = s.reported /\ s.reported <= s.hop
  BY DEF GoodTurn, MeterInv, KeepsUp, HopsHeard
<1>2. ProviderOf[s.mode] \in Families
  BY <1>1, AgentAssumption DEF TurnState
<1>3. r \in ReplyType /\ (r.stop = "error" => r.usage = 0 \/ ProviderOf[s.mode] = "gemini")
  BY <1>2, ReplyFacts
<1>4. s.hop \in 0..(MAX_TOOL_HOPS - 1) /\ s.reported \in 0..MAX_TOOL_HOPS /\ r.usage \in 0..1
  BY <1>1, <1>3 DEF TurnState, ReplyType
<1>5. s.reported + r.usage \in 0..MAX_TOOL_HOPS /\ s.reported + r.usage <= s.hop + 1
  BY <1>1, <1>4, AgentAssumption
<1>6. heard \in TurnState
  BY <1>1, <1>3, <1>5 DEF Heard, TurnState, ReplyType
<1>7. /\ heard.reported = s.reported + r.usage /\ heard.tally = s.tally
      /\ heard.hop = s.hop /\ heard.stop = r.stop /\ heard.mode = s.mode /\ heard.pc = s.pc
  BY <1>1 DEF Heard, TurnState
<1>8. CASE r.stop = "error"
  <2>1. KeepsUp(heard) \/ OneBehind(heard)
    BY <1>1, <1>3, <1>4, <1>7, <1>8 DEF KeepsUp, OneBehind
  <2>2. AfterReply(s, r) = Tell(heard, "error")
    BY <1>8 DEF AfterReply
  <2> QED
    BY <1>5, <1>6, <1>7, <2>1, <2>2, TellIsGood
<1>9. CASE r.stop # "error" /\ r.usage > 0
  <2> DEFINE u == [heard EXCEPT !.pc = "usage", !.tally = @ + r.usage]
  <2>1. AfterReply(s, r) = u
    BY <1>9 DEF AfterReply
  <2>2. u \in TurnState
    BY <1>1, <1>5, <1>6, <1>7 DEF TurnState, Phases, InFlight, Yields
  <2>3. u.pc = "usage" /\ u.hop = s.hop /\ u.reported = u.tally /\ u.reported <= u.hop + 1
    BY <1>1, <1>5, <1>6, <1>7 DEF TurnState
  <2> QED
    BY <2>1, <2>2, <2>3 DEF GoodTurn, MeterInv, KeepsUp, HopsHeard
<1>10. CASE r.stop # "error" /\ ~(r.usage > 0)
  <2>1. AfterReply(s, r) = AfterUsage(heard)
    BY <1>10 DEF AfterReply
  <2>2. KeepsUp(heard)
    BY <1>1, <1>4, <1>7, <1>10 DEF KeepsUp
  <2> QED
    BY <1>5, <1>6, <1>7, <2>1, <2>2, AfterUsageIsGood
<1> QED
  BY <1>8, <1>9, <1>10

\* A turn whose client is gone and whose generators are not finalised yet.
LEMMA ClosingIsGood ==
    ASSUME NEW d \in TurnState, d.pc = "closing", d.reported <= d.hop + 1,
           KeepsUp(d) \/ OneBehind(d)
    PROVE  GoodTurn(d)
<1>1. HopsHeard(d) = d.hop + 1
  BY DEF HopsHeard
<1>2. MeterInv(d)
  BY <1>1 DEF MeterInv
<1> QED
  BY <1>2 DEF GoodTurn

\* A turn that loses its client, that is over, and that another request overtakes.
LEMMA DisconnectIsGood ==
    ASSUME NEW s, GoodTurn(s), s.pc \in Yields \cup {"ready"}
    PROVE  GoodTurn([s EXCEPT !.cutAt = s.pc,
                              !.pc = IF @ = "ready" THEN "closed" ELSE "closing"])
<1> DEFINE d == [s EXCEPT !.cutAt = s.pc,
                          !.pc = IF @ = "ready" THEN "closed" ELSE "closing"]
<1>1. s \in TurnState /\ MeterInv(s)
  BY DEF GoodTurn
<1>2. d \in TurnState
  BY <1>1 DEF TurnState, Phases, InFlight, Yields
<1>3. /\ d.pc = IF s.pc = "ready" THEN "closed" ELSE "closing"
      /\ d.hop = s.hop /\ d.stop = s.stop /\ d.mode = s.mode
      /\ d.reported = s.reported /\ d.tally = s.tally /\ d.billed = s.billed
  BY <1>1 DEF TurnState
<1>4. s.hop \in Nat
  BY <1>1 DEF TurnState
<1>5. s.pc = "ready" => s.billed = s.reported
  BY <1>1 DEF MeterInv
<1>6. s.reported \in Nat /\ s.reported <= s.hop + 1
  BY <1>1, <1>4 DEF TurnState, MeterInv, HopsHeard
<1>7. CASE s.pc = "ready"
  <2>1. d.pc = "closed" /\ d.billed = d.reported /\ d.reported <= d.hop + 1
    BY <1>3, <1>5, <1>6, <1>7
  <2> QED
    BY <1>2, <2>1 DEF GoodTurn, MeterInv, HopsHeard
<1>8. CASE s.pc # "ready"
  <2>1. d.pc = "closing" /\ d.reported <= d.hop + 1
    BY <1>3, <1>6, <1>8
  <2>2. KeepsUp(s) \/ OneBehind(s)
    BY <1>1, <1>8 DEF MeterInv, Yields
  <2>3. KeepsUp(d) \/ OneBehind(d)
    BY <1>3, <2>2 DEF KeepsUp, OneBehind
  <2> QED
    BY <1>2, <2>1, <2>3, ClosingIsGood
<1> QED
  BY <1>7, <1>8

LEMMA OverIsGood ==
    ASSUME NEW s, GoodTurn(s), s.pc \in {"ending", "closing"}
    PROVE  GoodTurn(Over(s))
<1> DEFINE o == Over(s)
<1>1. s \in TurnState /\ MeterInv(s)
  BY DEF GoodTurn
<1>2. IdleTurn \in TurnState
  BY IdleIsGood DEF GoodTurn
<1>3. o \in TurnState
  BY <1>1, <1>2 DEF Over, TurnState, Phases
<1>4. /\ o.pc = "closed" /\ o.hop = s.hop /\ o.stop = s.stop /\ o.mode = s.mode
      /\ o.reported = s.reported /\ o.billed = s.tally
  BY <1>2 DEF Over, TurnState
<1> QED
  BY <1>1, <1>3, <1>4 DEF GoodTurn, MeterInv, KeepsUp, OneBehind, HopsHeard

LEMMA OvertakenIsGood ==
    ASSUME NEW s, GoodTurn(s), NEW switched \in BOOLEAN
    PROVE  GoodTurn(Overtaken(s, switched))
<1> DEFINE o == Overtaken(s, switched)
<1>1. s \in TurnState /\ MeterInv(s)
  BY DEF GoodTurn
<1>2. o \in TurnState
  BY <1>1 DEF Overtaken, TurnState
<1>3. /\ o.pc = s.pc /\ o.hop = s.hop /\ o.stop = s.stop /\ o.mode = s.mode
      /\ o.reported = s.reported /\ o.tally = s.tally /\ o.billed = s.billed
  BY <1>1 DEF Overtaken, TurnState
<1> QED
  BY <1>1, <1>2, <1>3 DEF GoodTurn, MeterInv, KeepsUp, OneBehind, HopsHeard

-----------------------------------------------------------------------------
(***************************************************************************)
(* The message logs stay sequences of messages.                            *)
(***************************************************************************)
LogType == [Conversations -> Seq(Message)]

LEMMA LogUpdate ==
    ASSUME log \in LogType, NEW c, NEW v, c \in Conversations => v \in Seq(Message)
    PROVE  [log EXCEPT ![c] = v] \in LogType
BY DEF LogType

LEMMA CallIdsType ==
    ASSUME NEW n \in 0..MaxCalls
    PROVE  CallIds(n) \in Seq(1..MaxCalls)
BY AgentAssumption DEF CallIds

LEMMA ResultMsgsType ==
    ASSUME NEW f \in Families, NEW t \in Turns, NEW h \in 0..(MAX_TOOL_HOPS - 1),
           NEW n \in 0..MaxCalls
    PROVE  ResultMsgs(f, t, h, n) \in Seq(Message)
<1>1. ASSUME NEW ids \in Seq(1..MaxCalls) PROVE ResultsMsg(t, h, ids) \in Message
  BY DEF ResultsMsg, Message, Kinds
<1>2. \A k \in 1..n : <<k>> \in Seq(1..MaxCalls)
  BY AgentAssumption
<1>3. [k \in 1..n |-> ResultsMsg(t, h, <<k>>)] \in Seq(Message)
  <2>1. \A k \in 1..n : ResultsMsg(t, h, <<k>>) \in Message
    BY <1>1, <1>2
  <2>2. n \in Nat
    BY AgentAssumption
  <2> QED
    BY <2>1, <2>2
<1>4. << ResultsMsg(t, h, CallIds(n)) >> \in Seq(Message)
  BY <1>1, CallIdsType
<1> QED
  BY <1>3, <1>4 DEF ResultMsgs

-----------------------------------------------------------------------------
(***************************************************************************)
(* Every action preserves the invariant.                                   *)
(***************************************************************************)
IInv == log \in LogType /\ mode \in [Conversations -> Modes] /\ turn \in [Turns -> TurnState]
          /\ Metered

\* Replacing one turn's state by a good one.
LEMMA TurnUpdate ==
    ASSUME IInv, NEW t \in Turns, NEW s, GoodTurn(s), turn' = [turn EXCEPT ![t] = s]
    PROVE  turn' \in [Turns -> TurnState] /\ Metered'
BY DEF IInv, Metered, GoodTurn

LEMMA InitEstablishes == Init => IInv
<1> SUFFICES ASSUME Init PROVE IInv
  OBVIOUS
<1>1. log \in LogType
  BY DEF Init, LogType
<1>2. GoodTurn(IdleTurn)
  BY IdleIsGood
<1> QED
  BY <1>1, <1>2 DEF Init, IInv, Metered, GoodTurn

LEMMA SubmitPreserves ==
    ASSUME IInv, NEW t \in Turns, NEW c \in Conversations, NEW m \in Modes,
           NEW switched \in BOOLEAN, Attach(t, c, m, switched)
    PROVE  IInv'
<1> DEFINE new == [IdleTurn EXCEPT !.pc = "ready", !.conv = c, !.mode = m,
                                   !.shared = LiveOn(c) # {}]
<1>1. GoodTurn(new)
  <2>1. IdleTurn \in TurnState
    BY IdleIsGood DEF GoodTurn
  <2>2. new \in TurnState
    BY <2>1 DEF TurnState, Phases, InFlight
  <2>3. new.pc = "ready" /\ new.hop = 0 /\ new.reported = 0
      /\ new.tally = 0 /\ new.billed = 0
    BY DEF IdleTurn
  <2> QED
    BY <2>2, <2>3 DEF GoodTurn, MeterInv, KeepsUp, HopsHeard
<1>2. \A u \in Turns : GoodTurn(turn[u])
  BY DEF IInv, Metered, GoodTurn
<1>3. \A u \in Turns : GoodTurn(turn'[u])
  <2> TAKE u \in Turns
  <2>1. CASE u = t
    BY <2>1, <1>1 DEF Attach
  <2>2. CASE u # t /\ u \in LiveOn(c)
    BY <2>2, <1>2, OvertakenIsGood DEF Attach
  <2>3. CASE u # t /\ u \notin LiveOn(c)
    BY <2>3, <1>2 DEF Attach
  <2> QED
    BY <2>1, <2>2, <2>3
<1>4. turn' \in [Turns -> TurnState] /\ Metered'
  <2>1. turn' = [u \in Turns |-> turn'[u]]
    BY DEF Attach
  <2> QED
    BY <1>3, <2>1 DEF Metered, GoodTurn
<1>5. log' \in LogType
  <2>1. <<>> \in Seq(Message)
    OBVIOUS
  <2>2. [log EXCEPT ![c] = <<>>] \in LogType
    BY <2>1, LogUpdate DEF IInv
  <2> QED
    BY <2>2 DEF Attach, IInv
<1>6. mode' \in [Conversations -> Modes]
  BY DEF Attach, IInv
<1> QED
  BY <1>4, <1>5, <1>6 DEF IInv

LEMMA StartPreserves ==
    ASSUME IInv, NEW t \in Turns, Start(t) PROVE IInv'
<1> DEFINE s == turn[t]
           l == Append(Messages(t), UserMsg(t))
<1>1. GoodTurn(s) /\ s.pc = "ready"
  BY DEF IInv, Metered, GoodTurn, Start
<1>2. KeepsUp(s) /\ s.reported = 0
  BY <1>1 DEF GoodTurn, MeterInv
<1>3. GoodTurn(OpenStream(s, 0, l))
  BY <1>1, <1>2, AgentAssumption, OpenStreamIsGood
<1>4. s.conv \in Conversations => l \in Seq(Message)
  <2>1. UserMsg(t) \in Message
    BY AgentAssumption DEF UserMsg, Message, Kinds
  <2> QED
    BY <2>1 DEF IInv, LogType, Messages
<1>5. log' \in LogType
  BY <1>4, LogUpdate DEF Start, IInv
<1>6. turn' = [turn EXCEPT ![t] = OpenStream(s, 0, l)]
  BY DEF Start
<1> QED
  BY <1>3, <1>5, <1>6, TurnUpdate DEF IInv, Start

LEMMA EndStreamPreserves ==
    ASSUME IInv, NEW t \in Turns, EndStream(t) PROVE IInv'
<1> DEFINE s == turn[t]
<1>1. GoodTurn(s) /\ s.pc = "stream"
  BY DEF IInv, Metered, GoodTurn, EndStream
<1>2. PICK r \in Replies(ProviderOf[s.mode]) :
        /\ log' = IF r.lands /\ ~s.stray
                  THEN [log EXCEPT ![s.conv] = Append(@, AssistantMsg(t, s.hop, r.calls))]
                  ELSE log
        /\ turn' = [turn EXCEPT ![t] = AfterReply(s, r)]
  BY DEF EndStream, Family, IInv
<1>3. r \in ReplyType
  BY <1>1, ReplyFacts, AgentAssumption DEF GoodTurn, TurnState
<1>4. AssistantMsg(t, s.hop, r.calls) \in Message
  <2>1. s.hop \in 0..(MAX_TOOL_HOPS - 1) /\ r.calls \in 0..MaxCalls
    BY <1>1, <1>3 DEF GoodTurn, TurnState, ReplyType
  <2>2. CallIds(r.calls) \in Seq(1..MaxCalls)
    BY <2>1, CallIdsType
  <2> QED
    BY <2>1, <2>2 DEF AssistantMsg, Message, Kinds
<1>5. log' \in LogType
  <2>1. s.conv \in Conversations =>
          Append(log[s.conv], AssistantMsg(t, s.hop, r.calls)) \in Seq(Message)
    BY <1>4 DEF IInv, LogType
  <2>2. [log EXCEPT ![s.conv] = Append(log[s.conv], AssistantMsg(t, s.hop, r.calls))]
          \in LogType
    BY <2>1, LogUpdate DEF IInv
  <2> QED
    BY <1>2, <2>2 DEF IInv
<1> QED
  BY <1>1, <1>2, <1>5, AfterReplyIsGood, TurnUpdate DEF IInv, EndStream

LEMMA UsageSentPreserves ==
    ASSUME IInv, NEW t \in Turns, UsageSent(t) PROVE IInv'
<1>1. GoodTurn(turn[t]) /\ turn[t].pc = "usage"
  BY DEF IInv, Metered, GoodTurn, UsageSent
<1>2. turn[t].reported <= turn[t].hop + 1 /\ KeepsUp(turn[t])
  BY <1>1 DEF GoodTurn, MeterInv, HopsHeard
<1>3. GoodTurn(AfterUsage(turn[t]))
  BY <1>1, <1>2, AfterUsageIsGood DEF GoodTurn
<1> QED
  BY <1>3, TurnUpdate DEF IInv, UsageSent

LEMMA ToolsDonePreserves ==
    ASSUME IInv, NEW t \in Turns, ToolsDone(t) PROVE IInv'
<1> DEFINE s == turn[t]
           d == [s EXCEPT !.pc = "results"]
           res == ResultMsgs(Family(t), t, s.hop, s.calls)
<1>1. s \in TurnState /\ MeterInv(s) /\ s.pc = "tools"
  BY DEF IInv, Metered, ToolsDone
<1>2. GoodTurn(d)
  <2>1. d \in TurnState
    BY <1>1 DEF TurnState, Phases, InFlight, Yields
  <2>2. d.pc = "results" /\ d.hop = s.hop /\ d.reported = s.reported /\ d.tally = s.tally
    BY <1>1 DEF TurnState
  <2> QED
    BY <1>1, <2>1, <2>2 DEF GoodTurn, MeterInv, KeepsUp, HopsHeard
<1>3. res \in Seq(Message)
  BY <1>1, AgentAssumption, ResultMsgsType DEF Family, TurnState
<1>4. log' \in LogType
  <2>1. s.conv \in Conversations => log[s.conv] \o res \in Seq(Message)
    BY <1>3 DEF IInv, LogType
  <2>2. [log EXCEPT ![s.conv] = log[s.conv] \o res] \in LogType
    BY <2>1, LogUpdate DEF IInv
  <2> QED
    BY <2>2 DEF ToolsDone
<1>5. turn' = [turn EXCEPT ![t] = d]
  BY DEF ToolsDone, IInv
<1> QED
  BY <1>2, <1>4, <1>5, TurnUpdate DEF IInv, ToolsDone

LEMMA ResultsSentPreserves ==
    ASSUME IInv, NEW t \in Turns, ResultsSent(t) PROVE IInv'
<1> DEFINE s == turn[t]
<1>1. s \in TurnState /\ MeterInv(s) /\ s.pc = "results"
  BY DEF IInv, Metered, ResultsSent
<1>2. s.hop \in 0..(MAX_TOOL_HOPS - 1) /\ s.reported <= s.hop + 1 /\ KeepsUp(s)
  BY <1>1 DEF TurnState, MeterInv, HopsHeard
<1>3. GoodTurn(NextHop(s, Messages(t)))
  <2>1. CASE s.hop + 1 < MAX_TOOL_HOPS
    <3>1. s.hop + 1 \in 0..(MAX_TOOL_HOPS - 1)
      BY <1>2, <2>1, AgentAssumption
    <3> QED
      BY <1>1, <1>2, <2>1, <3>1, OpenStreamIsGood DEF NextHop, GoodTurn
  <2>2. CASE ~(s.hop + 1 < MAX_TOOL_HOPS)
    BY <1>1, <1>2, <2>2, TellIsGood DEF NextHop
  <2> QED
    BY <2>1, <2>2
<1> QED
  BY <1>3, TurnUpdate DEF IInv, ResultsSent

LEMMA EndingPreserves ==
    ASSUME IInv, NEW t \in Turns, Finish(t) \/ Close(t) \/ Disconnect(t) PROVE IInv'
<1>1. GoodTurn(turn[t])
  BY DEF IInv, Metered, GoodTurn
<1>2. CASE Finish(t) \/ Close(t)
  <2>1. GoodTurn(Over(turn[t]))
    BY <1>1, <1>2, OverIsGood DEF Finish, Close
  <2> QED
    BY <1>2, <2>1, TurnUpdate DEF IInv, Finish, Close
<1>3. CASE Disconnect(t)
  <2> DEFINE d == [turn[t] EXCEPT !.cutAt = turn[t].pc,
                                  !.pc = IF @ = "ready" THEN "closed" ELSE "closing"]
  <2>1. GoodTurn(d)
    BY <1>1, <1>3, DisconnectIsGood DEF Disconnect
  <2>2. turn' = [turn EXCEPT ![t] = d]
    BY <1>3 DEF Disconnect, IInv, TurnState
  <2> QED
    BY <1>3, <2>1, <2>2, TurnUpdate DEF IInv, Disconnect
<1> QED
  BY <1>2, <1>3

LEMMA NextPreserves == IInv /\ [Next]_agentVars => IInv'
<1> SUFFICES ASSUME IInv, [Next]_agentVars PROVE IInv'
  OBVIOUS
<1>1. ASSUME NEW t \in Turns, NEW c \in Conversations, NEW m \in Modes, Submit(t, c, m)
      PROVE  IInv'
  BY <1>1, SubmitPreserves DEF Submit
<1>2. ASSUME NEW t \in Turns, Step(t) PROVE IInv'
  BY <1>2, StartPreserves, EndStreamPreserves, UsageSentPreserves, ToolsDonePreserves,
     ResultsSentPreserves, EndingPreserves DEF Step
<1>3. ASSUME NEW t \in Turns, Disconnect(t) PROVE IInv'
  BY <1>3, EndingPreserves
<1>4. CASE UNCHANGED agentVars
  BY <1>4 DEF agentVars, IInv, Metered
<1> QED
  BY <1>1, <1>2, <1>3, <1>4 DEF Next

-----------------------------------------------------------------------------
\* The state of the agent loop stays well typed: hops stay below MAX_TOOL_HOPS, and
\* a turn never tallies more than one report per hop.
THEOREM TypeCorrect == Spec => []TypeOK
<1>1. IInv => TypeOK
  BY DEF IInv, TypeOK, LogType
<1> QED
  BY <1>1, InitEstablishes, NextPreserves, PTL DEF Spec

\* Every turn that is over was charged what its provider reported, wherever its
\* client vanished and whoever overtook it, except for Gemini's blocked reply.
THEOREM BilledCorrect == Spec => []BilledAsReported
<1>1. IInv => BilledAsReported
  BY DEF IInv, Metered, MeterInv, BilledAsReported, Family
<1> QED
  BY <1>1, InitEstablishes, NextPreserves, PTL DEF Spec
-----------------------------------------------------------------------------
(***************************************************************************)
(* The invariant of the message logs, of logs lg and turns tn.  Two live   *)
(* turns on one conversation have both noticed it, so the list of a turn   *)
(* that has not is the turn's alone, and ends as its phase says (LastOk).  *)
(* Every entry belongs to a turn that has started, and while that turn     *)
(* lives, to its conversation; a reply is of a hop the turn has left       *)
(* behind, or of the present one once it is out of the stream.             *)
(***************************************************************************)
Live(s) == s.pc \in InFlight

Placed(s) ==
    /\ Live(s) => s.conv \in Conversations
    /\ s.cutAt # "none" => s.pc \in {"closing", "closed"}

\* A reply that makes calls says "tool_use", but for Anthropic's truncated one; one
\* that says so makes calls, but for an OpenAI-compatible endpoint's.
CallsFit(s) ==
    /\ s.stop # "error"
    /\ s.stop = "tool_use" => s.calls > 0 \/ ProviderOf[s.mode] = "openai_compat"
    /\ s.calls > 0 => s.stop = "tool_use" \/ (s.stop = "end_turn" /\ ProviderOf[s.mode] = "anthropic")

\* A reply without a call that asked for tools, and what may stand before an error.
NoCalls(s, last) ==
    last.kind = "assistant" /\ last.ids = <<>> /\ ProviderOf[s.mode] = "openai_compat"

Hopeless(s, last) ==
    /\ last.ids = <<>>
    /\ \/ ProviderOf[s.mode] = "gemini" /\ s.stop = "error" /\ last.hop = s.hop
       \/ ProviderOf[s.mode] = "openai_compat" /\ s.stop = "error" /\ last.hop + 1 = s.hop
       \/ ProviderOf[s.mode] = "openai_compat" /\ s.stop # "error" /\ last.hop = MAX_TOOL_HOPS - 1

LastOk(s, t, l) ==
    LET last == l[Len(l)]
    IN  /\ s.pc \in Yields => l # <<>> /\ last.by = t
        /\ s.pc = "stream" /\ last.kind = "assistant" => NoCalls(s, last) /\ last.hop + 1 = s.hop
        /\ s.pc \in {"usage", "tools"} => last = AssistantMsg(t, s.hop, s.calls) /\ CallsFit(s)
        /\ s.pc \in {"tools", "results"} => s.stop = "tool_use"
        /\ s.pc = "results" => last.hop = s.hop /\ (last.kind = "results" \/ NoCalls(s, last))
        /\ s.pc = "ending" =>
             /\ s.told = "done" => last.kind = "assistant" /\ last.hop = s.hop
             /\ s.told = "error" /\ last.kind = "results" /\ s.stop # "error"
                  => last.hop = MAX_TOOL_HOPS - 1
             /\ s.told = "error" /\ last.kind = "assistant" => Hopeless(s, last)

EntryOk(c, m, s) ==
    /\ s.pc \notin {"idle", "ready"}
    /\ Live(s) => s.conv = c
    /\ m.kind = "assistant" => m.hop <= s.hop /\ (s.pc = "stream" => m.hop < s.hop)

SameReply(m, n) ==
    m.kind = "assistant" /\ n.kind = "assistant" /\ m.by = n.by /\ m.hop = n.hop

Explained(s, i, l) ==
    \/ s.shared
    \/ i = Len(l) /\ s.pc \in {"usage", "tools"}
    \/ s.cutAt \in {"usage", "tools"}
    \/ /\ s.pc \in {"ending", "closing", "closed"}
       /\ s.stop = "end_turn" /\ ProviderOf[s.mode] = "anthropic"

ConvInv(c, l, tn) ==
    /\ \A i \in DOMAIN l : EntryOk(c, l[i], tn[l[i].by])
    /\ \A i, j \in DOMAIN l : SameReply(l[i], l[j]) => i = j
    /\ \A j \in Orphans(l) : tn[l[j].by].shared
    /\ \A i \in Unanswered(l) : Explained(tn[l[i].by], i, l)

Together(s, u) == Live(s) /\ Live(u) /\ s.conv = u.conv

LogInv(lg, tn) ==
    /\ \A t \in Turns : Placed(tn[t])
    /\ \A t, u \in Turns : t # u /\ Together(tn[t], tn[u]) => tn[t].shared
    /\ \A t \in Turns : Live(tn[t]) /\ ~tn[t].shared =>
         ~tn[t].stray /\ LastOk(tn[t], t, lg[tn[t].conv])
    /\ \A c \in Conversations : ConvInv(c, lg[c], tn)

-----------------------------------------------------------------------------
(* Logs that grow.                                                         *)

StartsWith(L, l) ==
    /\ Len(l) <= Len(L)
    /\ \A i \in 1..Len(l) : L[i] = l[i]

LEMMA ConcatFacts ==
    ASSUME NEW S, NEW l \in Seq(S), NEW u \in Seq(S)
    PROVE  /\ l \o u \in Seq(S) /\ Len(l \o u) = Len(l) + Len(u)
           /\ StartsWith(l \o u, l)
           /\ \A j \in 1..Len(l \o u) : j > Len(l) => /\ (l \o u)[j] = u[j - Len(l)]
                                                       /\ j - Len(l) \in 1..Len(u)
           /\ SubSeq(l \o u, 1, Len(l)) = l
<1>1. /\ l \o u \in Seq(S) /\ Len(l \o u) = Len(l) + Len(u)
      /\ StartsWith(l \o u, l)
  BY DEF StartsWith
<1>2. \A j \in 1..Len(l \o u) : j > Len(l) => (l \o u)[j] = u[j - Len(l)] /\ j - Len(l) \in 1..Len(u)
  OBVIOUS
<1>3. SubSeq(l \o u, 1, Len(l)) = l
  OBVIOUS
<1> QED
  BY <1>1, <1>2, <1>3

LEMMA OneAppended ==
    ASSUME NEW l \in Seq(Message), NEW m \in Message, NEW L, L = l \o <<m>>
    PROVE  /\ L \in Seq(Message) /\ Len(L) = Len(l) + 1 /\ L[Len(L)] = m /\ L # <<>>
           /\ StartsWith(L, l) /\ Len(l) \in Nat /\ DOMAIN L = 1..Len(L) /\ DOMAIN l = 1..Len(l)
<1> DEFINE new == <<m>>
<1>1. new \in Seq(Message) /\ Len(new) = 1 /\ new[1] = m /\ L = l \o new
  OBVIOUS
<1> HIDE DEF new
<1>2. /\ L \in Seq(Message) /\ Len(L) = Len(l) + Len(new) /\ StartsWith(L, l)
      /\ \A j \in 1..Len(L) : j > Len(l) => L[j] = new[j - Len(l)]
  BY <1>1, ConcatFacts
<1>3. Len(l) \in Nat /\ Len(L) = Len(l) + 1
  BY <1>1, <1>2
<1>4. L[Len(L)] = new[1]
  BY <1>2, <1>3
<1> QED
  BY <1>1, <1>2, <1>3, <1>4

\* Calls stay answered, and results asked for, whatever is appended.
LEMMA AnsweredStays ==
    ASSUME NEW l \in Seq(Message), NEW L \in Seq(Message), StartsWith(L, l),
           NEW i \in 1..Len(l), NEW f \in Families, AnsweredAs(l, i, f)
    PROVE  AnsweredAs(L, i, f) /\ AnswerSpan(L, i, f) = AnswerSpan(l, i, f)
<1>1. L[i] = l[i]
  BY DEF StartsWith
<1>2. AnswerSpan(L, i, f) = AnswerSpan(l, i, f)
  BY <1>1 DEF AnswerSpan
<1> DEFINE span == AnswerSpan(l, i, f)
           msgs == ResultMsgs(f, l[i].by, l[i].hop, Len(l[i].ids))
<1>3. span \subseteq 1..Len(l) /\ \A j \in span : l[j] = msgs[j - i]
  BY DEF AnsweredAs
<1> HIDE DEF span, msgs
<1>4. span \subseteq 1..Len(L) /\ \A j \in span : L[j] = msgs[j - i]
  BY <1>3 DEF StartsWith
<1> QED
  BY <1>1, <1>2, <1>4 DEF AnsweredAs, span, msgs

LEMMA GrowthKeepsOrder ==
    ASSUME NEW l \in Seq(Message), NEW L \in Seq(Message), StartsWith(L, l), NEW i \in 1..Len(l)
    PROVE  /\ i \in Unanswered(L) => i \in Unanswered(l)
           /\ i \in Orphans(L) => i \in Orphans(l)
<1>1. L[i] = l[i] /\ DOMAIN l = 1..Len(l) /\ DOMAIN L = 1..Len(L) /\ i \in 1..Len(L)
  BY DEF StartsWith
<1>2. i \in Unanswered(L) => i \in Unanswered(l)
  BY <1>1, AnsweredStays DEF Unanswered, MakesCalls, Answered
<1>3. ASSUME i \in Orphans(L)
      PROVE  i \in Orphans(l)
  <2>1. SUFFICES ASSUME NEW k \in 1..(i - 1), NEW f \in Families, MakesCalls(l, k),
                        AnsweredAs(l, k, f), i \in AnswerSpan(l, k, f)
                 PROVE  FALSE
    BY <1>1, <1>3 DEF Orphans
  <2>2. k \in 1..Len(l) /\ L[k] = l[k]
    BY DEF StartsWith
  <2>3. AnsweredAs(L, k, f) /\ i \in AnswerSpan(L, k, f) /\ MakesCalls(L, k)
    BY <2>1, <2>2, AnsweredStays DEF MakesCalls
  <2> QED
    BY <1>3, <2>3 DEF Orphans
<1> QED
  BY <1>2, <1>3

\* What append_tool_results writes behind the calls of its hop answers them.
LEMMA ResultsAnswer ==
    ASSUME NEW l \in Seq(Message), l # <<>>, NEW t \in Turns, NEW h \in 0..(MAX_TOOL_HOPS - 1),
           NEW n \in 1..MaxCalls, NEW f \in Families, l[Len(l)] = AssistantMsg(t, h, n),
           NEW L, L = l \o ResultMsgs(f, t, h, n)
    PROVE  /\ Len(l) \notin Unanswered(L)
           /\ \A j \in 1..Len(L) : j > Len(l) => j \notin Orphans(L)
<1> DEFINE u == ResultMsgs(f, t, h, n)
           k == Len(l)
<1>1. u \in Seq(Message)
  <2>1. n \in 0..MaxCalls
    BY AgentAssumption
  <2> QED
    BY <2>1, ResultMsgsType
<1>2. k \in 1..Len(l) /\ k \in Nat
  OBVIOUS
<1>3. l[k].by = t /\ l[k].hop = h /\ l[k].ids = CallIds(n) /\ l[k].kind = "assistant"
  BY DEF AssistantMsg
<1>4. Len(CallIds(n)) = n /\ CallIds(n) # <<>>
  BY AgentAssumption DEF CallIds
<1> HIDE DEF u
<1>5. /\ L \in Seq(Message) /\ Len(L) = k + Len(u) /\ StartsWith(L, l)
      /\ \A j \in 1..Len(L) : j > k => L[j] = u[j - k]
  BY <1>1, ConcatFacts DEF u
<1>6. L[k] = l[k]
  BY <1>2, <1>5 DEF StartsWith
<1>7. AnswerSpan(L, k, f) = (k + 1)..(k + Len(u))
  BY <1>3, <1>4, <1>6 DEF AnswerSpan, u
<1>8. AnsweredAs(L, k, f)
  <2>0. Len(u) \in Nat /\ DOMAIN L = 1..(k + Len(u))
    BY <1>1, <1>5
  <2>1. (k + 1)..(k + Len(u)) \subseteq DOMAIN L
    BY <1>2, <2>0
  <2>2. \A j \in (k + 1)..(k + Len(u)) : L[j] = u[j - k]
    <3> TAKE j \in (k + 1)..(k + Len(u))
    <3>1. j \in 1..Len(L) /\ j > k
      BY <1>2, <1>5, <2>0
    <3> QED
      BY <1>5, <3>1
  <2>3. ResultMsgs(f, L[k].by, L[k].hop, Len(L[k].ids)) = u
    BY <1>3, <1>4, <1>6 DEF u
  <2> QED
    BY <1>7, <2>1, <2>2, <2>3 DEF AnsweredAs
<1>9. MakesCalls(L, k)
  BY <1>3, <1>4, <1>6 DEF MakesCalls
<1>10. \A j \in 1..Len(L) : j > k => j \in AnswerSpan(L, k, f) /\ k \in 1..(j - 1)
  BY <1>1, <1>2, <1>5, <1>7
<1>11. k \notin Unanswered(L)
  BY <1>8 DEF Unanswered, Answered
<1>12. \A j \in 1..Len(L) : j > k => j \notin Orphans(L)
  BY <1>8, <1>9, <1>10 DEF Orphans
<1> QED
  BY <1>11, <1>12

-----------------------------------------------------------------------------
(* A step of turn t, which appends `new` to its conversation and goes on   *)
(* as s2.                                                                  *)

MayAppend(s, t, new, s2) ==
    /\ new = <<>> \/ s.pc \in {"ready", "stream", "tools"}
    /\ \A k \in 1..Len(new) : new[k].by = t
    /\ \A k \in 1..Len(new) : new[k].kind = "assistant" =>
         s.pc = "stream" /\ s2.pc # "stream" /\ new[k].hop = s.hop /\ Len(new) = 1

GoesOn(s, s2) ==
    /\ s2.pc \notin {"idle", "ready"} /\ s2.shared = s.shared
    /\ Live(s2) => s2.conv = s.conv
    /\ s.pc = "ready" \/ (s.hop <= s2.hop /\ (s2.pc = "stream" => s.hop < s2.hop))

LEMMA OwnConversation ==
    ASSUME NEW tn \in [Turns -> TurnState], NEW t \in Turns, NEW s2 \in TurnState,
           NEW c \in Conversations, NEW l \in Seq(Message), NEW new \in Seq(Message),
           NEW L, L = l \o new, NEW tn2, tn2 = [tn EXCEPT ![t] = s2],
           Live(tn[t]), tn[t].conv = c, ConvInv(c, l, tn),
           \A u \in Turns : t # u /\ Together(tn[u], tn[t]) => tn[u].shared,
           MayAppend(tn[t], t, new, s2), GoesOn(tn[t], s2),
           \A j \in Orphans(L) : j > Len(l) => tn[t].shared,
           \A i \in Unanswered(L) : L[i].by = t => Explained(s2, i, L)
    PROVE  ConvInv(c, L, tn2)
<1> DEFINE s == tn[t]
<1>1. /\ L \in Seq(Message) /\ Len(L) = Len(l) + Len(new) /\ StartsWith(L, l)
      /\ \A j \in 1..Len(L) : j > Len(l) => L[j] = new[j - Len(l)] /\ j - Len(l) \in 1..Len(new)
  BY ConcatFacts
<1>2. /\ Len(l) \in Nat /\ Len(L) \in Nat /\ Len(new) \in Nat
      /\ \A i \in 1..Len(l) : L[i] = l[i]
      /\ \A i \in 1..Len(L) : L[i] \in Message /\ L[i].by \in Turns /\ L[i].hop \in Nat
      /\ DOMAIN L = 1..Len(L) /\ DOMAIN l = 1..Len(l)
  <2>1. \A i \in 1..Len(L) : L[i] \in Message
    BY <1>1
  <2>2. \A m \in Message : m.by \in Turns /\ m.hop \in Nat
    BY DEF Message
  <2> QED
    BY <1>1, <2>1, <2>2 DEF StartsWith
<1>3. tn2[t] = s2 /\ \A u \in Turns : u # t => tn2[u] = tn[u]
  OBVIOUS
<1>4. s.hop \in Nat /\ s2.hop \in Nat
  BY DEF TurnState
<1> HIDE DEF s
<1>5. \A j \in 1..Len(L) : j > Len(l) =>
        /\ L[j].by = t
        /\ L[j].kind = "assistant" =>
             s.pc = "stream" /\ s2.pc # "stream" /\ L[j].hop = s.hop /\ Len(L) = Len(l) + 1
  BY <1>1 DEF MayAppend, s
<1>6. ASSUME NEW i \in 1..Len(L)
      PROVE  EntryOk(c, L[i], tn2[L[i].by])
  <2>1. CASE i \in 1..Len(l) /\ L[i].by # t
    BY <1>2, <1>3, <2>1 DEF ConvInv
  <2>2. CASE i \in 1..Len(l) /\ L[i].by = t
    <3>1. EntryOk(c, L[i], s)
      BY <1>2, <2>2 DEF ConvInv, s
    <3> QED
      BY <1>2, <1>3, <1>4, <2>2, <3>1 DEF EntryOk, GoesOn, s
  <2>3. CASE i > Len(l)
    BY <1>2, <1>3, <1>4, <1>5, <2>3 DEF EntryOk, GoesOn, s
  <2> QED
    BY <1>2, <2>1, <2>2, <2>3
<1>7. ASSUME NEW i \in 1..Len(L), NEW j \in 1..Len(L), SameReply(L[i], L[j])
      PROVE  i = j
  <2>1. ASSUME NEW a \in 1..Len(l), NEW b \in 1..Len(L), b > Len(l),
               SameReply(L[a], L[b]) \/ SameReply(L[b], L[a])
        PROVE  FALSE
    <3>1. L[b].by = t /\ L[b].hop = s.hop /\ s.pc = "stream"
      BY <1>5, <2>1 DEF SameReply
    <3>2. L[a].by = t /\ L[a].kind = "assistant" /\ L[a].hop = s.hop
      BY <2>1, <3>1 DEF SameReply
    <3>3. EntryOk(c, L[a], s)
      BY <1>2, <3>2 DEF ConvInv, s
    <3> QED
      BY <1>4, <3>1, <3>2, <3>3 DEF EntryOk
  <2>2. CASE i \in 1..Len(l) /\ j \in 1..Len(l)
    BY <1>2, <1>7, <2>2 DEF ConvInv
  <2>3. CASE i > Len(l) /\ j > Len(l)
    <3>1. Len(L) = Len(l) + 1
      BY <1>5, <1>7, <2>3 DEF SameReply
    <3>2. Len(l) \in Nat
      BY <1>2
    <3> QED
      BY <2>3, <3>1, <3>2
  <2> QED
    BY <1>2, <1>7, <2>1, <2>2, <2>3
<1>8. ASSUME NEW j \in Orphans(L)
      PROVE  tn2[L[j].by].shared
  <2>1. j \in 1..Len(L)
    BY <1>2 DEF Orphans
  <2>2. CASE j \in 1..Len(l)
    <3>1. j \in Orphans(l) /\ L[j] = l[j]
      BY <1>1, <1>2, <2>2, GrowthKeepsOrder
    <3>2. tn[L[j].by].shared
      BY <3>1 DEF ConvInv
    <3> QED
      BY <1>2, <1>3, <2>1, <3>2 DEF GoesOn
  <2>3. CASE j > Len(l)
    <3>1. tn[t].shared /\ L[j].by = t
      BY <1>5, <2>1, <2>3
    <3> QED
      BY <1>3, <3>1 DEF GoesOn
  <2> QED
    BY <1>2, <2>1, <2>2, <2>3
<1>9. ASSUME NEW i \in Unanswered(L)
      PROVE  Explained(tn2[L[i].by], i, L)
  <2>1. i \in 1..Len(L)
    BY <1>2 DEF Unanswered
  <2>2. CASE L[i].by = t
    BY <1>3, <2>2
  <2>3. CASE L[i].by # t
    <3> DEFINE u == L[i].by
    <3>1. i \in 1..Len(l) /\ u \in Turns /\ tn2[u] = tn[u]
      BY <1>2, <1>3, <1>5, <2>1, <2>3
    <3>2. i \in Unanswered(l) /\ L[i] = l[i]
      BY <1>1, <1>2, <3>1, GrowthKeepsOrder
    <3>3. Explained(tn[u], i, l) /\ EntryOk(c, l[i], tn[u])
      BY <1>2, <3>1, <3>2 DEF ConvInv
    <3>4. CASE tn[u].pc \in {"usage", "tools"} /\ ~tn[u].shared
      <4>1. Together(tn[u], tn[t])
        BY <3>3, <3>4 DEF EntryOk, Together, Live, InFlight, Yields
      <4> QED
        BY <2>3, <3>1, <3>4, <4>1
    <3>5. CASE tn[u].pc \notin {"usage", "tools"} \/ tn[u].shared
      BY <3>1, <3>3, <3>5 DEF Explained
    <3> QED
      BY <3>4, <3>5
  <2> QED
    BY <2>2, <2>3
<1> QED
  BY <1>2, <1>6, <1>7, <1>8, <1>9 DEF ConvInv

\* A conversation that is not the turn's own holds nothing of it.
LEMMA OtherConversation ==
    ASSUME NEW tn \in [Turns -> TurnState], NEW t \in Turns, NEW s2 \in TurnState,
           NEW c \in Conversations, NEW l \in Seq(Message), NEW tn2, tn2 = [tn EXCEPT ![t] = s2],
           Live(tn[t]), tn[t].conv # c, ConvInv(c, l, tn)
    PROVE  ConvInv(c, l, tn2)
<1>1. ASSUME NEW i \in DOMAIN l
      PROVE  l[i].by \in Turns /\ l[i].by # t
  <2>1. l[i] \in Message
    OBVIOUS
  <2>2. EntryOk(c, l[i], tn[l[i].by])
    BY DEF ConvInv
  <2> QED
    BY <2>1, <2>2 DEF EntryOk, Message
<1>2. \A i \in DOMAIN l : tn2[l[i].by] = tn[l[i].by]
  BY <1>1
<1>3. Orphans(l) \subseteq DOMAIN l /\ Unanswered(l) \subseteq DOMAIN l
  BY DEF Orphans, Unanswered
<1> QED
  BY <1>2, <1>3 DEF ConvInv

LEMMA AdvanceKeeps ==
    ASSUME NEW t \in Turns, NEW s2 \in TurnState, NEW new \in Seq(Message), NEW l, NEW L,
           IInv, LogInv(log, turn),
           log' = [log EXCEPT ![turn[t].conv] = @ \o new], turn' = [turn EXCEPT ![t] = s2],
           Live(turn[t]), Placed(s2), MayAppend(turn[t], t, new, s2), GoesOn(turn[t], s2),
           l = log[turn[t].conv], L = l \o new,
           Live(s2) /\ ~s2.shared => ~s2.stray /\ LastOk(s2, t, L),
           \A j \in Orphans(L) : j > Len(l) => turn[t].shared,
           \A i \in Unanswered(L) : L[i].by = t => Explained(s2, i, L)
    PROVE  LogInv(log', turn')
<1> DEFINE c == turn[t].conv
<1>0. log \in LogType /\ turn \in [Turns -> TurnState]
  BY DEF IInv
<1>1. c \in Conversations
  BY DEF LogInv, Placed
<1>2. l \in Seq(Message) /\ log'[c] = L /\ \A d \in Conversations : d # c => log'[d] = log[d]
  BY <1>0, <1>1 DEF LogType
<1>3. turn'[t] = s2 /\ \A u \in Turns : u # t => turn'[u] = turn[u]
  BY <1>0
<1> HIDE DEF c
<1>4. \A u \in Turns : Placed(turn'[u])
  BY <1>3 DEF LogInv
<1>5. ASSUME NEW u \in Turns, NEW v \in Turns, u # v, Together(turn'[u], turn'[v])
      PROVE  turn'[u].shared
  <2>1. Together(turn[u], turn[v])
    BY <1>3, <1>5 DEF Together, GoesOn
  <2>2. turn[u].shared
    BY <1>5, <2>1 DEF LogInv
  <2> QED
    BY <1>3, <2>2 DEF GoesOn
<1>6. ASSUME NEW u \in Turns, Live(turn'[u]), ~turn'[u].shared
      PROVE  ~turn'[u].stray /\ LastOk(turn'[u], u, log'[turn'[u].conv])
  <2>1. CASE u = t
    BY <1>2, <1>3, <1>6, <2>1 DEF GoesOn, c
  <2>2. CASE u # t
    <3>1. turn'[u] = turn[u] /\ ~turn[u].stray /\ LastOk(turn[u], u, log[turn[u].conv])
      BY <1>3, <1>6, <2>2 DEF LogInv
    <3>2. turn[u].conv \in Conversations /\ turn[u].conv # c
      BY <1>3, <1>6, <2>2 DEF LogInv, Placed, Together, c
    <3> QED
      BY <1>2, <3>1, <3>2
  <2> QED
    BY <2>1, <2>2
<1>7. ASSUME NEW d \in Conversations
      PROVE  ConvInv(d, log'[d], turn')
  <2>1. ConvInv(d, log[d], turn) /\ log[d] \in Seq(Message)
    BY <1>0 DEF LogInv, LogType
  <2>2. CASE d = c
    <3>1. \A u \in Turns : t # u /\ Together(turn[u], turn[t]) => turn[u].shared
      BY DEF LogInv
    <3>2. ConvInv(c, L, turn')
      BY <1>0, <1>1, <1>2, <2>1, <2>2, <3>1, OwnConversation DEF c
    <3> QED
      BY <1>2, <2>2, <3>2
  <2>3. CASE d # c
    <3>1. ConvInv(d, log[d], turn')
      BY <1>0, <2>1, <2>3, OtherConversation DEF c
    <3> QED
      BY <1>2, <2>3, <3>1
  <2> QED
    BY <2>2, <2>3
<1> QED
  BY <1>4, <1>5, <1>6, <1>7 DEF LogInv

\* A step that appends nothing.
LEMMA StayKeeps ==
    ASSUME NEW t \in Turns, NEW s2 \in TurnState, NEW l, IInv, LogInv(log, turn),
           log' = log, turn' = [turn EXCEPT ![t] = s2], Live(turn[t]), Placed(s2),
           GoesOn(turn[t], s2), l = log[turn[t].conv],
           Live(s2) /\ ~s2.shared => ~s2.stray /\ LastOk(s2, t, l),
           \A i \in Unanswered(l) : Explained(turn[t], i, l) => Explained(s2, i, l)
    PROVE  LogInv(log', turn')
<1> DEFINE c == turn[t].conv
           new == <<>>
<1>1. c \in Conversations /\ log \in LogType /\ turn \in [Turns -> TurnState]
  BY DEF IInv, LogInv, Placed, LogType
<1>2. l \in Seq(Message) /\ l = l \o new /\ new \in Seq(Message)
  BY <1>1 DEF LogType
<1>3. log' = [log EXCEPT ![c] = @ \o new]
  BY <1>1, <1>2 DEF LogType
<1>4. MayAppend(turn[t], t, new, s2)
  BY DEF MayAppend
<1>5. \A j \in Orphans(l) : ~(j > Len(l))
  BY <1>2 DEF Orphans
<1>6. ConvInv(c, l, turn)
  BY <1>1 DEF LogInv
<1>7. ASSUME NEW i \in Unanswered(l), l[i].by = t
      PROVE  Explained(s2, i, l)
  <2>1. Explained(turn[l[i].by], i, l)
    BY <1>6 DEF ConvInv
  <2>2. Explained(turn[t], i, l)
    BY <1>7, <2>1
  <2> QED
    BY <2>2
<1> HIDE DEF new
<1>8. \A j \in Orphans(l) : j > Len(l) => turn[t].shared
  BY <1>5
<1> QED
  BY <1>1, <1>2, <1>3, <1>4, <1>7, <1>8, AdvanceKeeps

\* What a turn that another has joined, or that no one has, may hold.
LEMMA TurnFacts ==
    ASSUME IInv, LogInv(log, turn), NEW t \in Turns, Live(turn[t])
    PROVE  /\ turn[t] \in TurnState /\ Placed(turn[t]) /\ turn[t].conv \in Conversations
           /\ log[turn[t].conv] \in Seq(Message)
           /\ ConvInv(turn[t].conv, log[turn[t].conv], turn)
           /\ ~turn[t].shared => ~turn[t].stray /\ LastOk(turn[t], t, log[turn[t].conv])
<1>1. turn[t] \in TurnState /\ Placed(turn[t]) /\ turn[t].conv \in Conversations
  BY DEF IInv, LogInv, Placed
<1> QED
  BY <1>1 DEF IInv, LogInv, LogType

LEMMA UsageSentLog ==
    ASSUME IInv, LogInv(log, turn), NEW t \in Turns, UsageSent(t), IInv'
    PROVE  LogInv(log', turn')
<1> DEFINE s == turn[t]
           s2 == AfterUsage(s)
           l == log[s.conv]
<1>1. s.pc = "usage" /\ Live(s) /\ log' = log /\ turn' = [turn EXCEPT ![t] = s2]
  BY DEF UsageSent, Live, InFlight, Yields
<1>2. /\ s \in TurnState /\ Placed(s) /\ l \in Seq(Message) /\ s.conv \in Conversations
      /\ ~s.shared => ~s.stray /\ LastOk(s, t, l)
  BY <1>1, TurnFacts
<1>3. s2 \in TurnState
  <2>1. s2 = turn'[t] /\ turn' \in [Turns -> TurnState]
    BY <1>1 DEF IInv
  <2> QED
    BY <2>1
<1>4. /\ s2.conv = s.conv /\ s2.hop = s.hop /\ s2.shared = s.shared /\ s2.stray = s.stray
      /\ s2.cutAt = s.cutAt /\ s2.stop = s.stop /\ s2.mode = s.mode /\ s2.calls = s.calls
      /\ s2.pc = IF s.stop = "tool_use" THEN "tools" ELSE "ending"
      /\ s2.pc = "ending" => s2.told = "done"
  BY <1>2 DEF AfterUsage, Tell, TurnState
<1>5. s.cutAt = "none"
  BY <1>1, <1>2 DEF Placed
<1> HIDE DEF s, s2
<1>6. Placed(s2)
  BY <1>2, <1>4, <1>5 DEF Placed
<1>7. GoesOn(s, s2)
  BY <1>2, <1>4 DEF GoesOn, TurnState
<1>8. ASSUME Live(s2), ~s2.shared
      PROVE  ~s2.stray /\ LastOk(s2, t, l)
  <2>1. ~s.shared /\ ~s.stray /\ LastOk(s, t, l)
    BY <1>2, <1>4, <1>8
  <2>2. l # <<>> /\ l[Len(l)] = AssistantMsg(t, s.hop, s.calls) /\ CallsFit(s)
    BY <1>1, <2>1 DEF LastOk, Yields
  <2>3. CallsFit(s2)
    BY <1>4, <2>2 DEF CallsFit
  <2>4. l[Len(l)].by = t /\ l[Len(l)].kind = "assistant" /\ l[Len(l)].hop = s.hop
    BY <2>2 DEF AssistantMsg
  <2>5. LastOk(s2, t, l)
    BY <1>4, <2>2, <2>3, <2>4 DEF LastOk
  <2> QED
    BY <1>4, <2>1, <2>5
<1>9. ASSUME NEW i \in Unanswered(l), Explained(s, i, l)
      PROVE  Explained(s2, i, l)
  <2>1. CASE s.shared
    BY <1>4, <2>1 DEF Explained
  <2>2. CASE ~s.shared
    <3>1. i = Len(l)
      BY <1>1, <1>5, <1>9, <2>2 DEF Explained
    <3>2. l[i] = AssistantMsg(t, s.hop, s.calls) /\ CallsFit(s)
      BY <1>1, <1>2, <2>2, <3>1 DEF LastOk
    <3>3. CallIds(s.calls) # <<>>
      BY <3>2 DEF Unanswered, MakesCalls, AssistantMsg
    <3>4. s.calls > 0
      BY <1>2, <3>3 DEF CallIds, TurnState
    <3>5. s.stop = "tool_use" \/ (s.stop = "end_turn" /\ ProviderOf[s.mode] = "anthropic")
      BY <3>2, <3>4 DEF CallsFit
    <3> QED
      BY <1>4, <3>1, <3>5 DEF Explained
  <2> QED
    BY <2>1, <2>2
<1> QED
  BY <1>1, <1>3, <1>6, <1>7, <1>8, <1>9, StayKeeps DEF s

LEMMA ResultsSentLog ==
    ASSUME IInv, LogInv(log, turn), NEW t \in Turns, ResultsSent(t), IInv'
    PROVE  LogInv(log', turn')
<1> DEFINE s == turn[t]
           l == log[s.conv]
           s2 == NextHop(s, l)
<1>1. s.pc = "results" /\ Live(s) /\ log' = log /\ turn' = [turn EXCEPT ![t] = s2]
  BY DEF ResultsSent, Live, InFlight, Yields, Messages
<1>2. /\ s \in TurnState /\ Placed(s) /\ l \in Seq(Message) /\ s.conv \in Conversations
      /\ ~s.shared => ~s.stray /\ LastOk(s, t, l)
  BY <1>1, TurnFacts
<1>3. s2 \in TurnState
  <2>1. s2 = turn'[t] /\ turn' \in [Turns -> TurnState]
    BY <1>1 DEF IInv
  <2> QED
    BY <2>1
<1>4. /\ s2.conv = s.conv /\ s2.shared = s.shared /\ s2.cutAt = s.cutAt
      /\ s2.stop = s.stop /\ s2.mode = s.mode
      /\ s2.stray => s.stray
      /\ \/ s2.pc = "stream" /\ s2.hop = s.hop + 1
         \/ s2.pc = "ending" /\ s2.hop = s.hop /\ s2.told = "error" /\ ~(s.hop + 1 < MAX_TOOL_HOPS)
  BY <1>2 DEF NextHop, OpenStream, Tell, TurnState
<1>5. s.cutAt = "none"
  BY <1>1, <1>2 DEF Placed
<1>6. s.hop \in 0..(MAX_TOOL_HOPS - 1)
  BY <1>2 DEF TurnState
<1> HIDE DEF s, s2
<1>7. Placed(s2)
  BY <1>2, <1>4, <1>5 DEF Placed
<1>8. GoesOn(s, s2)
  BY <1>4, <1>6, AgentAssumption DEF GoesOn
<1>9. ASSUME Live(s2), ~s2.shared
      PROVE  ~s2.stray /\ LastOk(s2, t, l)
  <2>1. ~s.shared /\ ~s.stray /\ LastOk(s, t, l)
    BY <1>2, <1>4, <1>9
  <2>2. /\ l # <<>> /\ l[Len(l)].by = t /\ s.stop = "tool_use" /\ l[Len(l)].hop = s.hop
        /\ l[Len(l)].kind = "results" \/ NoCalls(s, l[Len(l)])
    BY <1>1, <2>1 DEF LastOk, Yields
  <2>3. s2.pc = "ending" => s.hop = MAX_TOOL_HOPS - 1
    BY <1>4, <1>6, AgentAssumption
  <2>4. NoCalls(s, l[Len(l)]) => NoCalls(s2, l[Len(l)])
    BY <1>4 DEF NoCalls
  <2>5. ASSUME s2.pc = "stream" PROVE LastOk(s2, t, l)
    <3>1. l[Len(l)].kind = "assistant" => NoCalls(s2, l[Len(l)]) /\ l[Len(l)].hop + 1 = s2.hop
      BY <1>4, <2>2, <2>4, <2>5
    <3> QED
      BY <2>2, <2>5, <3>1 DEF LastOk
  <2>6. ASSUME s2.pc = "ending" PROVE LastOk(s2, t, l)
    <3>1. s2.told = "error" /\ l[Len(l)].hop = MAX_TOOL_HOPS - 1 /\ s2.stop # "error"
      BY <1>4, <2>2, <2>3, <2>6
    <3>2. l[Len(l)].kind = "assistant" => Hopeless(s2, l[Len(l)])
      BY <2>2, <2>4, <3>1 DEF Hopeless, NoCalls
    <3> QED
      BY <2>2, <2>6, <3>1, <3>2 DEF LastOk
  <2>7. LastOk(s2, t, l)
    BY <1>4, <2>5, <2>6
  <2> QED
    BY <1>4, <2>1, <2>7
<1>10. ASSUME NEW i \in Unanswered(l), Explained(s, i, l)
       PROVE  Explained(s2, i, l)
  BY <1>1, <1>4, <1>5, <1>10 DEF Explained
<1> QED
  BY <1>1, <1>3, <1>7, <1>8, <1>9, <1>10, StayKeeps DEF s

LEMMA EndingLog ==
    ASSUME IInv, LogInv(log, turn), NEW t \in Turns, Finish(t) \/ Close(t) \/ Disconnect(t), IInv'
    PROVE  LogInv(log', turn')
<1> DEFINE s == turn[t]
           l == log[s.conv]
           s2 == turn'[t]
<1>1. turn \in [Turns -> TurnState] /\ turn' \in [Turns -> TurnState] /\ s2 \in TurnState
  BY DEF IInv
<1>2. Live(s) /\ log' = log /\ turn' = [turn EXCEPT ![t] = s2]
  BY <1>1 DEF Finish, Close, Disconnect, Live, InFlight, Yields
<1>3. s \in TurnState /\ Placed(s) /\ (~s.shared => ~s.stray)
  BY <1>2, TurnFacts
<1>4. IdleTurn \in TurnState
  BY IdleIsGood DEF GoodTurn
<1>5. /\ s2.hop = s.hop /\ s2.shared = s.shared /\ s2.stop = s.stop /\ s2.mode = s.mode
      /\ \/ s.pc \in {"ending", "closing"} /\ s2.pc = "closed" /\ s2.cutAt = s.cutAt
         \/ s.pc = "ready" /\ s2.pc = "closed" /\ s2.conv = s.conv
         \/ /\ s.pc \in Yields /\ s2.pc = "closing" /\ s2.cutAt = s.pc
            /\ s2.conv = s.conv /\ s2.stray = s.stray
  <2>1. CASE Finish(t) \/ Close(t)
    <3>1. s2 = Over(s) /\ s.pc \in {"ending", "closing"}
      BY <1>1, <2>1 DEF Finish, Close
    <3> QED
      BY <1>3, <1>4, <3>1 DEF Over, TurnState
  <2>2. CASE Disconnect(t)
    <3>1. /\ s2 = [s EXCEPT !.cutAt = s.pc, !.pc = IF @ = "ready" THEN "closed" ELSE "closing"]
          /\ s.pc \in Yields \cup {"ready"}
      BY <1>1, <2>2 DEF Disconnect
    <3> QED
      BY <1>3, <3>1 DEF TurnState, Yields
  <2> QED
    BY <2>1, <2>2
<1>6. s.cutAt # "none" => s.pc = "closing"
  BY <1>2, <1>3 DEF Placed, Live, InFlight, Yields
<1> HIDE DEF s, s2
<1>7. Placed(s2)
  BY <1>2, <1>3, <1>5 DEF Placed, Live, InFlight, Yields
<1>8. GoesOn(s, s2)
  BY <1>3, <1>5 DEF GoesOn, Live, InFlight, Yields, TurnState
<1>9. LastOk(s2, t, l) /\ (Live(s2) => s2.pc = "closing")
  BY <1>5 DEF LastOk, Live, InFlight, Yields
<1>10. ASSUME NEW i \in Unanswered(l), Explained(s, i, l)
       PROVE  Explained(s2, i, l)
  BY <1>5, <1>6, <1>10 DEF Explained, Yields
<1>11. Live(s2) /\ ~s2.shared => ~s2.stray
  BY <1>3, <1>5, <1>9
<1> QED
  BY <1>1, <1>2, <1>7, <1>8, <1>9, <1>10, <1>11, StayKeeps DEF s

LEMMA StartLog ==
    ASSUME NEW t \in Turns, IInv, LogInv(log, turn), Start(t), IInv'
    PROVE  LogInv(log', turn')
<1> DEFINE s == turn[t]
           l == log[s.conv]
           L == l \o <<UserMsg(t)>>
           s2 == OpenStream(s, 0, L)
<1>1. s.pc = "ready" /\ Live(s)
  BY DEF Start, Live, InFlight
<1>2. /\ s \in TurnState /\ Placed(s) /\ l \in Seq(Message) /\ s.conv \in Conversations
      /\ ConvInv(s.conv, l, turn)
  BY <1>1, TurnFacts
<1>3. L = Append(l, UserMsg(t))
  BY <1>2
<1>4. log' = [log EXCEPT ![s.conv] = @ \o <<UserMsg(t)>>] /\ turn' = [turn EXCEPT ![t] = s2]
  BY <1>3 DEF Start, Messages
<1>5. s2 \in TurnState
  <2>1. s2 = turn'[t] /\ turn' \in [Turns -> TurnState]
    BY <1>4 DEF IInv
  <2> QED
    BY <2>1
<1>6. /\ UserMsg(t) \in Message /\ UserMsg(t).by = t
      /\ UserMsg(t).kind = "user" /\ UserMsg(t).ids = <<>>
  BY AgentAssumption DEF UserMsg, Message, Kinds
<1>7. /\ s2.conv = s.conv /\ s2.shared = s.shared /\ s2.cutAt = s.cutAt
      /\ s2.stray = FALSE /\ s2.pc = "stream" /\ s2.hop = 0
  BY <1>2 DEF OpenStream, TurnState
<1>8. s.cutAt = "none"
  BY <1>1, <1>2 DEF Placed
<1> DEFINE new == <<UserMsg(t)>>
<1>9. new \in Seq(Message) /\ Len(new) = 1 /\ new[1] = UserMsg(t)
  BY <1>6
<1>10. L = l \o new /\ log' = [log EXCEPT ![s.conv] = @ \o new]
  BY <1>4
<1> HIDE DEF s, s2, L, new, l
<1>11. Placed(s2)
  BY <1>2, <1>7, <1>8 DEF Placed
<1>12. GoesOn(s, s2)
  BY <1>1, <1>7 DEF GoesOn
<1>13. MayAppend(s, t, new, s2)
  BY <1>1, <1>6, <1>9 DEF MayAppend
<1>14. /\ L \in Seq(Message) /\ Len(L) = Len(l) + 1 /\ L[Len(L)] = UserMsg(t) /\ L # <<>>
       /\ StartsWith(L, l) /\ Len(l) \in Nat /\ DOMAIN L = 1..Len(L) /\ DOMAIN l = 1..Len(l)
  BY <1>2, <1>6, OneAppended DEF L
<1>15. Live(s2) /\ ~s2.shared => ~s2.stray /\ LastOk(s2, t, L)
  BY <1>6, <1>7, <1>14 DEF LastOk, Yields
<1>16. ASSUME NEW j \in Orphans(L), j > Len(l)
       PROVE  FALSE
  <2>1. j = Len(L) /\ L[j].kind = "results"
    BY <1>14, <1>16 DEF Orphans
  <2> QED
    BY <1>6, <1>14, <2>1
<1>17. ASSUME NEW i \in Unanswered(L), L[i].by = t
       PROVE  FALSE
  <2>1. i \in 1..Len(L) /\ MakesCalls(L, i)
    BY <1>14, <1>17 DEF Unanswered
  <2>2. CASE i \in 1..Len(l)
    <3>1. L[i] = l[i] /\ EntryOk(s.conv, l[i], turn[l[i].by])
      BY <1>2, <1>14, <2>2 DEF ConvInv, StartsWith
    <3> QED
      BY <1>1, <1>17, <3>1 DEF EntryOk, s
  <2>3. CASE i = Len(L)
    BY <1>6, <1>14, <2>1, <2>3 DEF MakesCalls
  <2> QED
    BY <1>14, <2>1, <2>2, <2>3
<1> QED
  BY <1>1, <1>4, <1>5, <1>9, <1>10, <1>11, <1>12, <1>13, <1>15, <1>16, <1>17, AdvanceKeeps DEF s, l

\* What the loop makes of the replies, and which replies there are.
LEMMA ReplyShape ==
    ASSUME NEW f \in Families, NEW r \in Replies(f)
    PROVE  /\ ~r.lands => r.stop = "error" /\ r.calls = 0
           /\ r.lands /\ r.stop = "error" => f = "gemini" /\ r.calls = 0
           /\ r.stop = "tool_use" => r.calls > 0 \/ f = "openai_compat"
           /\ r.calls > 0 => r.stop = "tool_use" \/ (r.stop = "end_turn" /\ f = "anthropic" /\ r.usage > 0)
<1> USE AgentAssumption DEF Reply, Failure
<1>1. CASE r = Failure
  BY <1>1
<1>2. CASE f = "anthropic" /\ r \in AnthropicReplies
  <2>1. CASE r \in {Reply(n, 1, "tool_use") : n \in 1..MaxCalls}
    BY <2>1
  <2>2. CASE r \in {Reply(n, 1, "end_turn") : n \in 0..MaxCalls}
    BY <1>2, <2>2
  <2> QED
    BY <1>2, <2>1, <2>2 DEF AnthropicReplies
<1>3. CASE f = "openai_compat" /\ r \in OpenAIReplies
  BY <1>3 DEF OpenAIReplies
<1>4. CASE f = "gemini" /\ r \in GeminiReplies
  <2>1. CASE \E n \in 1..MaxCalls, u \in 0..1 : r = Reply(n, u, "tool_use")
    BY <2>1
  <2>2. CASE \E u \in 0..1, stop \in {"end_turn", "max_tokens", "error"} : r = Reply(0, u, stop)
    BY <1>4, <2>2
  <2> QED
    BY <1>4, <2>1, <2>2 DEF GeminiReplies
<1> QED
  BY <1>1, <1>2, <1>3, <1>4 DEF Replies, Families

LEMMA AfterReplyShape ==
    ASSUME NEW s \in TurnState, NEW r \in ReplyType, NEW s2, s2 = AfterReply(s, r)
    PROVE  /\ s2.conv = s.conv /\ s2.shared = s.shared /\ s2.cutAt = s.cutAt
           /\ s2.stray = FALSE /\ s2.mode = s.mode /\ s2.hop = s.hop
           /\ s2.calls = r.calls /\ s2.stop = r.stop
           /\ s2.pc = IF r.stop = "error" THEN "ending"
                      ELSE IF r.usage > 0 THEN "usage"
                      ELSE IF r.stop = "tool_use" THEN "tools" ELSE "ending"
           /\ s2.pc = "ending" => s2.told = IF r.stop = "error" THEN "error" ELSE "done"
           /\ s2.tally = IF s2.pc = "usage" THEN s.tally + r.usage ELSE s.tally
<1> DEFINE heard == Heard(s, r)
<1>1. /\ heard.conv = s.conv /\ heard.shared = s.shared /\ heard.cutAt = s.cutAt
      /\ heard.stray = FALSE /\ heard.mode = s.mode /\ heard.hop = s.hop
      /\ heard.calls = r.calls /\ heard.stop = r.stop /\ heard.tally = s.tally
      /\ DOMAIN heard = DOMAIN s
  BY DEF Heard, TurnState
<1>2. DOMAIN s = {"pc", "conv", "mode", "hop", "calls", "stop", "stray", "accepted", "tally", "told",
                  "reported", "billed", "cutAt", "shared"}
  BY DEF TurnState
<1> HIDE DEF heard
<1>3. CASE r.stop = "error"
  <2>1. s2 = [heard EXCEPT !.pc = "ending", !.told = "error"]
    BY <1>3 DEF AfterReply, Tell, heard
  <2> QED
    BY <1>1, <1>2, <1>3, <2>1
<1>4. CASE r.stop # "error" /\ r.usage > 0
  <2>1. s2 = [heard EXCEPT !.pc = "usage", !.tally = @ + r.usage]
    BY <1>4 DEF AfterReply, heard
  <2> QED
    BY <1>1, <1>2, <1>4, <2>1
<1>5. CASE r.stop # "error" /\ ~(r.usage > 0) /\ r.stop = "tool_use"
  <2>1. s2 = [heard EXCEPT !.pc = "tools"]
    BY <1>1, <1>5 DEF AfterReply, AfterUsage, heard
  <2> QED
    BY <1>1, <1>2, <1>5, <2>1
<1>6. CASE r.stop # "error" /\ ~(r.usage > 0) /\ r.stop # "tool_use"
  <2>1. s2 = [heard EXCEPT !.pc = "ending", !.told = "done"]
    BY <1>1, <1>6 DEF AfterReply, AfterUsage, Tell, heard
  <2> QED
    BY <1>1, <1>2, <1>6, <2>1
<1> QED
  BY <1>3, <1>4, <1>5, <1>6

\* The end of a stream: the turn of a stray list, or of a failed request, appends nothing.
LEMMA EndStreamLog ==
    ASSUME NEW t \in Turns, IInv, LogInv(log, turn), EndStream(t), IInv'
    PROVE  LogInv(log', turn')
<1> DEFINE s == turn[t]
           l == log[s.conv]
<1>1. s.pc = "stream" /\ Live(s)
  BY DEF EndStream, Live, InFlight, Yields
<1>2. /\ s \in TurnState /\ Placed(s) /\ l \in Seq(Message) /\ s.conv \in Conversations
      /\ ConvInv(s.conv, l, turn)
      /\ ~s.shared => ~s.stray /\ LastOk(s, t, l)
  BY <1>1, TurnFacts
<1>3. PICK r \in Replies(ProviderOf[s.mode]) :
        /\ log' = IF r.lands /\ ~s.stray
                  THEN [log EXCEPT ![s.conv] = Append(@, AssistantMsg(t, s.hop, r.calls))]
                  ELSE log
        /\ turn' = [turn EXCEPT ![t] = AfterReply(s, r)]
  BY DEF EndStream, Family, IInv
<1> DEFINE s2 == AfterReply(s, r)
           m == AssistantMsg(t, s.hop, r.calls)
<1>4. ProviderOf[s.mode] \in Families
  BY <1>2, AgentAssumption DEF TurnState
<1>5. r \in ReplyType
  BY <1>4, ReplyFacts
<1>6. /\ ~r.lands => r.stop = "error" /\ r.calls = 0
      /\ r.lands /\ r.stop = "error" => ProviderOf[s.mode] = "gemini" /\ r.calls = 0
      /\ r.stop = "tool_use" => r.calls > 0 \/ ProviderOf[s.mode] = "openai_compat"
      /\ r.calls > 0 =>
           \/ r.stop = "tool_use"
           \/ r.stop = "end_turn" /\ ProviderOf[s.mode] = "anthropic" /\ r.usage > 0
  BY <1>4, ReplyShape
<1>7. /\ s2.conv = s.conv /\ s2.shared = s.shared /\ s2.cutAt = s.cutAt
      /\ s2.stray = FALSE /\ s2.mode = s.mode /\ s2.hop = s.hop
      /\ s2.calls = r.calls /\ s2.stop = r.stop
      /\ s2.pc = IF r.stop = "error" THEN "ending"
                 ELSE IF r.usage > 0 THEN "usage"
                 ELSE IF r.stop = "tool_use" THEN "tools" ELSE "ending"
      /\ s2.pc = "ending" => s2.told = IF r.stop = "error" THEN "error" ELSE "done"
      /\ s2.tally = IF s2.pc = "usage" THEN s.tally + r.usage ELSE s.tally
  BY <1>2, <1>5, AfterReplyShape
<1>8. s2 \in TurnState
  <2>1. s2 = turn'[t] /\ turn' \in [Turns -> TurnState]
    BY <1>3 DEF IInv
  <2> QED
    BY <2>1
<1>9. s.hop \in 0..(MAX_TOOL_HOPS - 1) /\ r.calls \in 0..MaxCalls
  BY <1>2, <1>5 DEF TurnState, ReplyType
<1>10. /\ m \in Message /\ m.by = t /\ m.kind = "assistant" /\ m.hop = s.hop
       /\ m.ids = CallIds(r.calls)
  <2>1. CallIds(r.calls) \in Seq(1..MaxCalls)
    BY <1>9, CallIdsType
  <2> QED
    BY <1>9, <2>1 DEF AssistantMsg, Message, Kinds
<1>11. s.cutAt = "none"
  BY <1>1, <1>2 DEF Placed
<1> HIDE DEF s, s2, m, l
<1>12. Placed(s2)
  BY <1>2, <1>7, <1>11 DEF Placed
<1>13. GoesOn(s, s2)
  BY <1>7, <1>9 DEF GoesOn
<1>14. \A i : Explained(s, i, l) => s.shared
  BY <1>1, <1>11 DEF Explained
<1>15. CASE r.lands /\ ~s.stray
  <2> DEFINE new == <<m>>
             L == l \o new
  <2>1. /\ L \in Seq(Message) /\ Len(L) = Len(l) + 1 /\ L[Len(L)] = m /\ L # <<>>
        /\ StartsWith(L, l) /\ Len(l) \in Nat /\ DOMAIN L = 1..Len(L) /\ DOMAIN l = 1..Len(l)
    BY <1>2, <1>10, OneAppended
  <2>2. new \in Seq(Message) /\ Len(new) = 1 /\ new[1] = m
    BY <1>10
  <2>3. log' = [log EXCEPT ![s.conv] = @ \o new]
    <3>1. log[s.conv] \o new = Append(log[s.conv], m)
      BY <1>2, <1>10 DEF l
    <3> QED
      BY <1>3, <1>15, <3>1 DEF m
  <2> HIDE DEF new, L
  <2>4. MayAppend(s, t, new, s2)
    BY <1>1, <1>7, <1>10, <2>2 DEF MayAppend
  <2>5. LastOk(s2, t, L)
    <3>1. s2.pc \in {"usage", "tools"} => CallsFit(s2)
      BY <1>6, <1>7 DEF CallsFit
    <3>2. s2.pc \in {"usage", "tools", "ending"}
      BY <1>7
    <3>3. ASSUME s2.pc = "ending", s2.told = "error"
          PROVE  Hopeless(s2, m)
      <4>1. r.stop = "error" /\ ProviderOf[s.mode] = "gemini" /\ r.calls = 0
        BY <1>6, <1>7, <1>15, <3>3
      <4>2. m.ids = <<>> /\ m.hop = s2.hop
        BY <1>7, <1>10, <4>1 DEF CallIds
      <4> QED
        BY <1>7, <4>1, <4>2 DEF Hopeless
    <3>4. CASE s2.pc \in {"usage", "tools"}
      <4>1. m = AssistantMsg(t, s2.hop, s2.calls) /\ (s2.pc = "tools" => s2.stop = "tool_use")
        BY <1>7 DEF m
      <4> QED
        BY <1>10, <2>1, <3>1, <3>4, <4>1 DEF LastOk
    <3>5. CASE s2.pc = "ending"
      BY <1>7, <1>10, <2>1, <3>3, <3>5 DEF LastOk
    <3> QED
      BY <3>2, <3>4, <3>5
  <2>6. ASSUME NEW j \in Orphans(L), j > Len(l)
        PROVE  FALSE
    <3>1. j = Len(L) /\ L[j].kind = "results"
      BY <2>1, <2>6 DEF Orphans
    <3> QED
      BY <1>10, <2>1, <3>1
  <2>7. ASSUME NEW i \in Unanswered(L), L[i].by = t
        PROVE  Explained(s2, i, L)
    <3>1. i \in 1..Len(L) /\ MakesCalls(L, i)
      BY <2>1, <2>7 DEF Unanswered
    <3>2. CASE i \in 1..Len(l)
      <4>1. i \in Unanswered(l) /\ L[i] = l[i]
        BY <1>2, <2>1, <2>7, <3>2, GrowthKeepsOrder DEF StartsWith
      <4>2. Explained(turn[l[i].by], i, l)
        BY <1>2, <4>1 DEF ConvInv
      <4>3. s.shared
        BY <1>14, <2>7, <4>1, <4>2 DEF s
      <4> QED
        BY <1>7, <4>3 DEF Explained
    <3>3. CASE i = Len(L)
      <4>1. CallIds(r.calls) # <<>>
        BY <1>10, <2>1, <3>1, <3>3 DEF MakesCalls
      <4>2. r.calls > 0
        BY <1>9, <4>1 DEF CallIds
      <4>3. s2.pc \in {"usage", "tools"}
        BY <1>6, <1>7, <4>2
      <4> QED
        BY <3>3, <4>3 DEF Explained
    <3> QED
      BY <2>1, <3>1, <3>2, <3>3
  <2>8. L = l \o new
    BY DEF L
  <2>9. ~s2.stray
    BY <1>7
  <2>10. turn' = [turn EXCEPT ![t] = s2]
    BY <1>3 DEF s2
  <2> QED
    BY <1>1, <1>8, <1>12, <1>13, <2>2, <2>3, <2>4, <2>5, <2>6, <2>7, <2>8, <2>9, <2>10,
       AdvanceKeeps DEF s, l
<1>16. CASE ~(r.lands /\ ~s.stray)
  <2>1. log' = log /\ turn' = [turn EXCEPT ![t] = s2]
    BY <1>3, <1>16 DEF s2
  <2>2. Live(s2) /\ ~s2.shared => ~s2.stray /\ LastOk(s2, t, l)
    <3> SUFFICES ASSUME ~s2.shared PROVE ~s2.stray /\ LastOk(s2, t, l)
      OBVIOUS
    <3>1. ~s.shared /\ ~s.stray /\ LastOk(s, t, l)
      BY <1>2, <1>7
    <3>2. r.stop = "error" /\ ~r.lands
      BY <1>6, <1>16, <3>1
    <3>3. s2.pc = "ending" /\ s2.told = "error" /\ s2.stop = "error"
      BY <1>7, <3>2
    <3>4. /\ l # <<>> /\ l[Len(l)].by = t
          /\ l[Len(l)].kind = "assistant" => NoCalls(s, l[Len(l)]) /\ l[Len(l)].hop + 1 = s.hop
      BY <1>1, <3>1 DEF LastOk, Yields
    <3>5. l[Len(l)].kind = "assistant" => Hopeless(s2, l[Len(l)])
      BY <1>7, <3>3, <3>4 DEF Hopeless, NoCalls
    <3> QED
      BY <1>7, <3>3, <3>4, <3>5 DEF LastOk
  <2>3. \A i \in Unanswered(l) : Explained(s, i, l) => Explained(s2, i, l)
    BY <1>7, <1>14 DEF Explained
  <2> QED
    BY <1>1, <1>8, <1>12, <1>13, <2>1, <2>2, <2>3, StayKeeps DEF s, l
<1> QED
  BY <1>15, <1>16

LEMMA ResultMsgsShape ==
    ASSUME NEW f \in Families, NEW t \in Turns, NEW h \in 0..(MAX_TOOL_HOPS - 1), NEW n \in 1..MaxCalls,
           NEW new, new = ResultMsgs(f, t, h, n)
    PROVE  Len(new) \in Nat \ {0}
<1>1. n \in Nat \ {0}
  BY AgentAssumption
<1>2. CASE f = "openai_compat"
  <2>1. new = [k \in 1..n |-> ResultsMsg(t, h, <<k>>)]
    BY <1>2 DEF ResultMsgs
  <2> QED
    BY <1>1, <2>1
<1>3. CASE f # "openai_compat"
  BY <1>3 DEF ResultMsgs
<1> QED
  BY <1>2, <1>3

LEMMA ResultMsgsEntries ==
    ASSUME NEW f \in Families, NEW t \in Turns, NEW h \in 0..(MAX_TOOL_HOPS - 1), NEW n \in 0..MaxCalls,
           NEW new, new = ResultMsgs(f, t, h, n), NEW k \in 1..Len(new)
    PROVE  new[k].by = t /\ new[k].kind = "results" /\ new[k].hop = h
<1>1. \A ids : LET m == ResultsMsg(t, h, ids) IN m.by = t /\ m.kind = "results" /\ m.hop = h
  BY DEF ResultsMsg
<1>2. n \in Nat
  BY AgentAssumption
<1>3. CASE f = "openai_compat"
  <2>1. new = [j \in 1..n |-> ResultsMsg(t, h, <<j>>)]
    BY <1>3 DEF ResultMsgs
  <2>2. k \in 1..n
    BY <1>2, <2>1
  <2> QED
    BY <1>1, <2>1, <2>2
<1>4. CASE f # "openai_compat"
  <2>1. new = << ResultsMsg(t, h, CallIds(n)) >>
    BY <1>4 DEF ResultMsgs
  <2>2. k = 1
    BY <2>1
  <2> QED
    BY <1>1, <2>1, <2>2
<1> QED
  BY <1>3, <1>4

LEMMA ToolsDoneLog ==
    ASSUME NEW t \in Turns, IInv, LogInv(log, turn), ToolsDone(t), IInv'
    PROVE  LogInv(log', turn')
<1> DEFINE s == turn[t]
           l == log[s.conv]
           f == ProviderOf[s.mode]
           new == ResultMsgs(f, t, s.hop, s.calls)
           L == l \o new
           s2 == [s EXCEPT !.pc = "results"]
<1>1. s.pc = "tools" /\ Live(s)
  BY DEF ToolsDone, Live, InFlight, Yields
<1>2. /\ s \in TurnState /\ Placed(s) /\ l \in Seq(Message) /\ s.conv \in Conversations
      /\ ConvInv(s.conv, l, turn)
      /\ ~s.shared => ~s.stray /\ LastOk(s, t, l)
  BY <1>1, TurnFacts
<1>3. turn' = [turn EXCEPT ![t] = s2] /\ log' = [log EXCEPT ![s.conv] = @ \o new]
  BY DEF ToolsDone, IInv, Family
<1>4. s2 \in TurnState
  BY <1>2 DEF TurnState, Phases, InFlight, Yields
<1>5. /\ s2.conv = s.conv /\ s2.shared = s.shared /\ s2.cutAt = s.cutAt
      /\ s2.stray = s.stray /\ s2.hop = s.hop /\ s2.pc = "results"
      /\ s2.stop = s.stop /\ s2.mode = s.mode
  BY <1>2 DEF TurnState
<1>6. f \in Families /\ s.hop \in 0..(MAX_TOOL_HOPS - 1) /\ s.calls \in 0..MaxCalls
  BY <1>2, AgentAssumption DEF TurnState
<1>7. new \in Seq(Message)
  BY <1>6, ResultMsgsType
<1>8. \A k \in 1..Len(new) : new[k].by = t /\ new[k].kind = "results" /\ new[k].hop = s.hop
  BY <1>6, ResultMsgsEntries
<1>9. s.cutAt = "none"
  BY <1>1, <1>2 DEF Placed
<1> HIDE DEF s, s2, l, new, L, f
<1>10. /\ L \in Seq(Message) /\ Len(L) = Len(l) + Len(new) /\ StartsWith(L, l)
       /\ \A j \in 1..Len(L) : j > Len(l) => L[j] = new[j - Len(l)] /\ j - Len(l) \in 1..Len(new)
       /\ Len(l) \in Nat /\ Len(new) \in Nat /\ DOMAIN L = 1..Len(L) /\ DOMAIN l = 1..Len(l)
  BY <1>2, <1>7, ConcatFacts DEF L
<1>11. Placed(s2)
  BY <1>2, <1>5, <1>9 DEF Placed
<1>12. GoesOn(s, s2)
  BY <1>5, <1>6 DEF GoesOn
<1>13. MayAppend(s, t, new, s2)
  BY <1>1, <1>8 DEF MayAppend
<1>14. ASSUME ~s.shared
       PROVE  /\ l # <<>> /\ l[Len(l)] = AssistantMsg(t, s.hop, s.calls) /\ s.stop = "tool_use"
              /\ s.calls \in 1..MaxCalls \/ (s.calls = 0 /\ f = "openai_compat")
  <2>1. l # <<>> /\ l[Len(l)] = AssistantMsg(t, s.hop, s.calls) /\ CallsFit(s) /\ s.stop = "tool_use"
    BY <1>1, <1>2, <1>14 DEF LastOk, Yields
  <2>2. s.calls > 0 \/ f = "openai_compat"
    BY <2>1 DEF CallsFit, f
  <2> QED
    BY <1>6, <2>1, <2>2
<1>15. ASSUME s.calls = 0, f = "openai_compat"
       PROVE  new = <<>>
  BY <1>15 DEF new, ResultMsgs
<1>16. ASSUME ~s.shared
       PROVE  /\ Len(l) \notin Unanswered(L)
              /\ \A j \in 1..Len(L) : j > Len(l) => j \notin Orphans(L)
  <2>1. CASE s.calls \in 1..MaxCalls
    BY <1>2, <1>6, <1>14, <1>16, <2>1, ResultsAnswer DEF L, new
  <2>2. CASE s.calls = 0 /\ f = "openai_compat"
    <3>1. Len(L) = Len(l) /\ L[Len(l)] = l[Len(l)]
      <4>1. Len(new) = 0
        BY <1>15, <2>2
      <4>2. Len(l) \in 1..Len(l)
        BY <1>2, <1>14, <1>16
      <4> QED
        BY <1>10, <4>1, <4>2 DEF StartsWith
    <3>2. l[Len(l)].ids = <<>>
      BY <1>14, <1>16, <2>2 DEF AssistantMsg, CallIds
    <3> QED
      BY <1>10, <3>1, <3>2 DEF Unanswered, MakesCalls
  <2> QED
    BY <1>14, <1>16, <2>1, <2>2
<1>17. ASSUME ~s.shared
       PROVE  LastOk(s2, t, L)
  <2>0. s2.stop = "tool_use" /\ s2.mode = s.mode
    BY <1>5, <1>14, <1>17
  <2>1. CASE s.calls \in 1..MaxCalls
    <3>1. Len(new) \in Nat \ {0}
      BY <1>6, <2>1, ResultMsgsShape DEF new
    <3>2. Len(L) \in 1..Len(L) /\ Len(L) > Len(l)
      BY <1>10, <3>1
    <3>3. /\ L[Len(L)].by = t /\ L[Len(L)].kind = "results" /\ L[Len(L)].hop = s.hop
          /\ L # <<>>
      BY <1>8, <1>10, <3>2
    <3> QED
      BY <1>5, <2>0, <3>3 DEF LastOk
  <2>2. CASE s.calls = 0 /\ f = "openai_compat"
    <3>1. L = l
      BY <1>2, <1>15, <2>2 DEF L
    <3>2. l[Len(l)] = AssistantMsg(t, s.hop, 0) /\ l # <<>>
      BY <1>14, <1>17, <2>2
    <3>3. l[Len(l)].by = t /\ l[Len(l)].hop = s.hop /\ NoCalls(s2, l[Len(l)])
      BY <2>0, <2>2, <3>2 DEF NoCalls, AssistantMsg, CallIds, f
    <3> QED
      BY <1>5, <2>0, <3>1, <3>2, <3>3 DEF LastOk
  <2> QED
    BY <1>14, <1>17, <2>1, <2>2
<1>18. ASSUME NEW j \in Orphans(L), j > Len(l)
       PROVE  s.shared
  <2>1. j \in 1..Len(L)
    BY <1>10 DEF Orphans
  <2> QED
    BY <1>16, <1>18, <2>1
<1>19. ASSUME NEW i \in Unanswered(L), L[i].by = t
       PROVE  Explained(s2, i, L)
  <2>1. i \in 1..Len(L) /\ L[i].kind = "assistant"
    BY <1>10 DEF Unanswered, MakesCalls
  <2>2. i \in 1..Len(l)
    BY <1>8, <1>10, <2>1
  <2>3. i \in Unanswered(l) /\ L[i] = l[i]
    BY <1>2, <1>10, <2>2, GrowthKeepsOrder DEF StartsWith
  <2>4. Explained(turn[l[i].by], i, l)
    BY <1>2, <2>3 DEF ConvInv
  <2>5. Explained(s, i, l)
    BY <1>19, <2>3, <2>4 DEF s
  <2>6. s.shared
    BY <1>1, <1>9, <1>16, <2>5 DEF Explained
  <2> QED
    BY <1>5, <2>6 DEF Explained
<1>20. Live(s2) /\ ~s2.shared => ~s2.stray /\ LastOk(s2, t, L)
  BY <1>2, <1>5, <1>17
<1>21. L = l \o new
  BY DEF L
<1> QED
  BY <1>1, <1>3, <1>4, <1>7, <1>11, <1>12, <1>13, <1>18, <1>19, <1>20, <1>21, AdvanceKeeps DEF s, l

-----------------------------------------------------------------------------
\* A request joins a conversation: of the others it changes what they share.
SameBut(s, s2) ==
    /\ s2.pc = s.pc /\ s2.conv = s.conv /\ s2.cutAt = s.cutAt /\ s2.hop = s.hop
    /\ s2.stop = s.stop /\ s2.mode = s.mode
    /\ s.shared => s2.shared

LEMMA AttachLog ==
    ASSUME NEW t \in Turns, NEW c \in Conversations, NEW m \in Modes, NEW switched \in BOOLEAN,
           IInv, LogInv(log, turn), turn[t].pc = "idle", Attach(t, c, m, switched)
    PROVE  LogInv(log', turn')
<1> DEFINE new == [IdleTurn EXCEPT !.pc = "ready", !.conv = c, !.mode = m, !.shared = LiveOn(c) # {}]
<1>1. /\ turn[t].pc = "idle" /\ log' = IF switched THEN [log EXCEPT ![c] = <<>>] ELSE log
      /\ turn' = [u \in Turns |-> IF u = t THEN new
                                 ELSE IF u \in LiveOn(c) THEN Overtaken(turn[u], switched)
                                 ELSE turn[u]]
  BY DEF Attach
<1>2. /\ turn'[t] = new
      /\ \A u \in Turns : u # t /\ u \in LiveOn(c) => turn'[u] = Overtaken(turn[u], switched)
      /\ \A u \in Turns : u # t /\ u \notin LiveOn(c) => turn'[u] = turn[u]
  BY <1>1
<1>3. /\ new.pc = "ready" /\ new.conv = c /\ new.cutAt = "none" /\ new.stray = FALSE
      /\ new.shared = (LiveOn(c) # {})
  BY DEF IdleTurn
<1>4. /\ turn \in [Turns -> TurnState] /\ log \in LogType
      /\ \A u \in Turns : u \in LiveOn(c) <=> Live(turn[u]) /\ turn[u].conv = c
  BY DEF IInv, LiveOn, Live
<1> HIDE DEF new
<1>5. \A u \in Turns : u # t => SameBut(turn[u], turn'[u])
  <2> SUFFICES ASSUME NEW u \in Turns, u # t PROVE SameBut(turn[u], turn'[u])
    OBVIOUS
  <2>1. CASE u \in LiveOn(c)
    <3>1. turn[u] \in TurnState /\ turn'[u] = Overtaken(turn[u], switched)
      BY <1>2, <1>4, <2>1
    <3>2. /\ turn'[u].pc = turn[u].pc /\ turn'[u].conv = turn[u].conv
          /\ turn'[u].cutAt = turn[u].cutAt /\ turn'[u].hop = turn[u].hop
          /\ turn'[u].stop = turn[u].stop /\ turn'[u].mode = turn[u].mode
          /\ turn'[u].shared = TRUE
      BY <3>1 DEF Overtaken, TurnState
    <3> QED
      BY <3>2 DEF SameBut
  <2>2. CASE u \notin LiveOn(c)
    BY <1>2, <2>2 DEF SameBut
  <2> QED
    BY <2>1, <2>2
<1>6. \A u \in Turns : u # t /\ u \in LiveOn(c) => turn'[u].shared
  <2> SUFFICES ASSUME NEW u \in Turns, u # t, u \in LiveOn(c) PROVE turn'[u].shared
    OBVIOUS
  <2>1. turn[u] \in TurnState /\ turn'[u] = Overtaken(turn[u], switched)
    BY <1>2, <1>4
  <2> QED
    BY <2>1 DEF Overtaken, TurnState
<1>7. \A u \in Turns : Placed(turn'[u])
  <2> TAKE u \in Turns
  <2>1. CASE u = t
    BY <1>2, <1>3, <2>1 DEF Placed
  <2>2. CASE u # t
    BY <1>5, <2>2 DEF LogInv, Placed, SameBut, Live
  <2> QED
    BY <2>1, <2>2
<1>8. ASSUME NEW u \in Turns, NEW v \in Turns, u # v, Together(turn'[u], turn'[v])
      PROVE  turn'[u].shared
  <2>1. CASE u = t
    <3>1. v \in LiveOn(c)
      BY <1>2, <1>3, <1>4, <1>5, <1>8, <2>1 DEF Together, SameBut, Live
    <3>2. new.shared
      BY <1>3, <3>1
    <3> QED
      BY <1>2, <2>1, <3>2
  <2>2. CASE v = t
    <3>1. u \in LiveOn(c)
      BY <1>2, <1>3, <1>4, <1>5, <1>8, <2>2 DEF Together, SameBut, Live
    <3> QED
      BY <1>6, <1>8, <2>2, <3>1
  <2>3. CASE u # t /\ v # t
    <3>1. SameBut(turn[u], turn'[u]) /\ SameBut(turn[v], turn'[v])
      BY <1>5, <2>3
    <3>2. Together(turn[u], turn[v])
      BY <1>8, <3>1 DEF Together, SameBut, Live
    <3>3. turn[u].shared
      BY <1>8, <3>2 DEF LogInv
    <3> QED
      BY <3>1, <3>3 DEF SameBut
  <2> QED
    BY <2>1, <2>2, <2>3
<1>9. \A d \in Conversations : log'[d] = log[d] \/ (d = c /\ log'[d] = <<>>)
  BY <1>1, <1>4 DEF LogType
<1>10. ASSUME NEW u \in Turns, Live(turn'[u]), ~turn'[u].shared
       PROVE  ~turn'[u].stray /\ LastOk(turn'[u], u, log'[turn'[u].conv])
  <2>1. CASE u = t
    BY <1>2, <1>3, <2>1 DEF LastOk, Yields
  <2>2. CASE u # t
    <3>1. u \notin LiveOn(c) /\ turn'[u] = turn[u]
      BY <1>2, <1>6, <1>10, <2>2
    <3>2. turn[u].conv # c /\ turn[u].conv \in Conversations
      BY <1>4, <1>10, <3>1 DEF LogInv, Placed
    <3>3. log'[turn[u].conv] = log[turn[u].conv]
      BY <1>9, <3>2
    <3> QED
      BY <1>10, <3>1, <3>3 DEF LogInv
  <2> QED
    BY <2>1, <2>2
<1>11. ASSUME NEW d \in Conversations
       PROVE  ConvInv(d, log'[d], turn')
  <2>1. CASE log'[d] = <<>>
    BY <2>1 DEF ConvInv, Orphans, Unanswered
  <2>2. CASE log'[d] = log[d]
    <3> DEFINE l == log[d]
    <3>1. ConvInv(d, l, turn) /\ l \in Seq(Message)
      BY <1>4 DEF LogInv, LogType
    <3>2. ASSUME NEW i \in DOMAIN l
          PROVE  SameBut(turn[l[i].by], turn'[l[i].by])
      <4>1. l[i].by \in Turns
        <5>1. l[i] \in Message
          BY <3>1
        <5> QED
          BY <5>1 DEF Message
      <4>2. l[i].by # t
        BY <1>1, <3>1 DEF ConvInv, EntryOk
      <4> QED
        BY <1>5, <4>1, <4>2
    <3> HIDE DEF l
    <3>3. \A i \in DOMAIN l : EntryOk(d, l[i], turn'[l[i].by])
      BY <3>1, <3>2 DEF ConvInv, EntryOk, SameBut, Live
    <3>4. Orphans(l) \subseteq DOMAIN l /\ Unanswered(l) \subseteq DOMAIN l
      BY DEF Orphans, Unanswered
    <3>5. \A j \in Orphans(l) : turn'[l[j].by].shared
      BY <3>1, <3>2, <3>4 DEF ConvInv, SameBut
    <3>6. \A i \in Unanswered(l) : Explained(turn'[l[i].by], i, l)
      BY <3>1, <3>2, <3>4 DEF ConvInv, SameBut, Explained
    <3>7. ConvInv(d, l, turn')
      BY <3>1, <3>3, <3>5, <3>6 DEF ConvInv
    <3> QED
      BY <2>2, <3>7 DEF l
  <2> QED
    BY <1>9, <2>1, <2>2
<1> QED
  BY <1>7, <1>8, <1>10, <1>11 DEF LogInv

LEMMA LogStarts == Init => LogInv(log, turn)
<1> SUFFICES ASSUME Init PROVE LogInv(log, turn)
  OBVIOUS
<1>1. /\ \A t \in Turns : turn[t].pc = "idle" /\ turn[t].cutAt = "none"
      /\ \A c \in Conversations : log[c] = <<>>
  BY DEF Init, IdleTurn
<1>2. \A t \in Turns : ~Live(turn[t])
  BY <1>1 DEF Live, InFlight, Yields
<1>3. \A c \in Conversations : ConvInv(c, log[c], turn)
  BY <1>1 DEF ConvInv, Orphans, Unanswered
<1> QED
  BY <1>1, <1>2, <1>3 DEF LogInv, Placed, Together

LEMMA LogKeeps ==
    ASSUME IInv, LogInv(log, turn), [Next]_agentVars
    PROVE  LogInv(log', turn')
<1>1. IInv'
  BY NextPreserves
<1>2. ASSUME NEW t \in Turns, NEW c \in Conversations, NEW m \in Modes, Submit(t, c, m)
      PROVE  LogInv(log', turn')
  BY <1>2, AttachLog DEF Submit
<1>3. ASSUME NEW t \in Turns, Step(t)
      PROVE  LogInv(log', turn')
  BY <1>1, <1>3, StartLog, EndStreamLog, UsageSentLog, ToolsDoneLog, ResultsSentLog, EndingLog DEF Step
<1>4. ASSUME NEW t \in Turns, Disconnect(t)
      PROVE  LogInv(log', turn')
  BY <1>1, <1>4, EndingLog
<1>5. CASE UNCHANGED agentVars
  <2>1. log' = log /\ turn' = turn
    BY <1>5 DEF agentVars
  <2> QED
    BY <2>1
<1> QED
  BY <1>2, <1>3, <1>4, <1>5 DEF Next

LogIInv == IInv /\ LogInv(log, turn)

LEMMA LogInvHolds == Spec => []LogIInv
<1>1. Init => LogIInv
  BY InitEstablishes, LogStarts DEF LogIInv
<1>2. ASSUME LogIInv, [Next]_agentVars
      PROVE  LogIInv'
  <2>1. IInv /\ LogInv(log, turn)
    BY <1>2 DEF LogIInv
  <2>2. IInv'
    BY <1>2, <2>1, NextPreserves
  <2>3. LogInv(log', turn')
    BY <1>2, <2>1, LogKeeps
  <2> QED
    BY <2>2, <2>3 DEF LogIInv
<1> QED
  BY <1>1, <1>2, PTL DEF Spec

\* Whoever overtakes a turn, a hop has one reply at most, of a hop the turn has reached.
THEOREM OneReplyHolds == Spec => []OneReplyPerHop
<1>1. LogIInv => OneReplyPerHop
  BY DEF LogIInv, LogInv, ConvInv, EntryOk, SameReply, OneReplyPerHop
<1> QED
  BY <1>1, LogInvHolds, PTL

\* append_tool_results writes behind the calls of its own hop, in either form of the
\* results, unless another request held the conversation.
THEOREM OrphansHold == Spec => []OrphansOnlyWhenShared
<1>1. LogIInv => OrphansOnlyWhenShared
  BY DEF LogIInv, LogInv, ConvInv, OrphansOnlyWhenShared
<1> QED
  BY <1>1, LogInvHolds, PTL

\* A tool call stays without results only for one of the four causes the code has.
THEOREM CallsExplained == Spec => []CallsAnsweredOrExplained
<1>1. LogIInv => CallsAnsweredOrExplained
  BY DEF LogIInv, LogInv, ConvInv, Explained, CallsAnsweredOrExplained, Family
<1> QED
  BY <1>1, LogInvHolds, PTL

\* The terminal event agrees with the last entry of the conversation.
THEOREM LastWordHolds == Spec => []LastWordMatchesLog
<1>1. LogIInv => LastWordMatchesLog
  BY DEF LogIInv, LogInv, LastOk, Hopeless, LastWordMatchesLog, Live, InFlight, Yields, Family
<1> QED
  BY <1>1, LogInvHolds, PTL

-----------------------------------------------------------------------------
(* What a step does to the lists: an action property.                      *)

ListStep ==
    \A c \in Conversations :
        \/ /\ Len(log[c]) <= Len(log'[c])
           /\ SubSeq(log'[c], 1, Len(log[c])) = log[c]
        \/ log'[c] = <<>> /\ mode'[c] # mode[c]

LEMMA ListsStay == ASSUME IInv, log' = log PROVE ListStep
<1> SUFFICES ASSUME NEW c \in Conversations
             PROVE  Len(log[c]) <= Len(log[c]) /\ SubSeq(log[c], 1, Len(log[c])) = log[c]
  BY DEF ListStep
<1>1. log[c] \in Seq(Message)
  BY DEF IInv, LogType
<1> QED
  BY <1>1

LEMMA ListGrows ==
    ASSUME NEW d \in Conversations, NEW new \in Seq(Message), IInv,
           log' = [log EXCEPT ![d] = @ \o new]
    PROVE  ListStep
<1> SUFFICES ASSUME NEW c \in Conversations
             PROVE  Len(log[c]) <= Len(log'[c]) /\ SubSeq(log'[c], 1, Len(log[c])) = log[c]
  BY DEF ListStep
<1>1. log[c] \in Seq(Message) /\ log'[c] = IF c = d THEN log[c] \o new ELSE log[c]
  BY DEF IInv, LogType
<1>2. CASE c = d
  BY <1>1, <1>2, ConcatFacts DEF StartsWith
<1>3. CASE c # d
  BY <1>1, <1>3
<1> QED
  BY <1>2, <1>3

LEMMA ListSteps ==
    ASSUME IInv, LogInv(log, turn), [Next]_agentVars
    PROVE  ListStep
<1>1. ASSUME NEW t \in Turns, NEW c \in Conversations, NEW m \in Modes, Submit(t, c, m)
      PROVE  ListStep
  <2>1. CASE mode[c] # m
    <3>1. log' = [log EXCEPT ![c] = <<>>] /\ mode' = [mode EXCEPT ![c] = m]
      BY <1>1, <2>1 DEF Submit, Attach
    <3> SUFFICES ASSUME NEW d \in Conversations
                 PROVE  \/ Len(log[d]) <= Len(log'[d]) /\ SubSeq(log'[d], 1, Len(log[d])) = log[d]
                        \/ log'[d] = <<>> /\ mode'[d] # mode[d]
      BY DEF ListStep
    <3>2. CASE d = c
      BY <2>1, <3>1, <3>2 DEF IInv, LogType
    <3>3. CASE d # c
      <4>1. log'[d] = log[d] /\ log[d] \in Seq(Message)
        BY <3>1, <3>3 DEF IInv, LogType
      <4> QED
        BY <4>1
    <3> QED
      BY <3>2, <3>3
  <2>2. CASE mode[c] = m
    <3>1. log' = log
      BY <1>1, <2>2 DEF Submit, Attach
    <3> QED
      BY <3>1, ListsStay
  <2> QED
    BY <2>1, <2>2
<1>2. ASSUME NEW t \in Turns, Start(t) \/ EndStream(t) \/ ToolsDone(t)
      PROVE  ListStep
  <2> DEFINE s == turn[t]
             l == log[s.conv]
  <2>1. Live(s)
    BY <1>2 DEF Start, EndStream, ToolsDone, Live, InFlight, Yields
  <2>2. s \in TurnState /\ l \in Seq(Message) /\ s.conv \in Conversations
    BY <2>1, TurnFacts
  <2>3. CASE Start(t)
    <3> DEFINE m == UserMsg(t)
               new == <<m>>
    <3>1. m \in Message
      BY AgentAssumption DEF UserMsg, Message, Kinds
    <3>2. log' = [log EXCEPT ![s.conv] = Append(l, m)]
      BY <2>3 DEF Start, Messages
    <3> HIDE DEF m
    <3> HIDE DEF l, s
    <3>3. new \in Seq(Message)
      BY <3>1
    <3>4. Append(l, m) = l \o new
      BY <2>2, <3>1
    <3> HIDE DEF new
    <3>5. log' = [log EXCEPT ![s.conv] = log[s.conv] \o new]
      BY <3>2, <3>4 DEF l
    <3> QED
      BY <2>2, <3>3, <3>5, ListGrows
  <2>4. CASE EndStream(t)
    <3>1. PICK r \in Replies(ProviderOf[s.mode]) :
            log' = IF r.lands /\ ~s.stray
                   THEN [log EXCEPT ![s.conv] = Append(@, AssistantMsg(t, s.hop, r.calls))]
                   ELSE log
      BY <2>4 DEF EndStream, Family
    <3> DEFINE m == AssistantMsg(t, s.hop, r.calls)
    <3>2. m \in Message
      <4>1. ProviderOf[s.mode] \in Families /\ s.hop \in 0..(MAX_TOOL_HOPS - 1)
        BY <2>2, AgentAssumption DEF TurnState
      <4>2. r.calls \in 0..MaxCalls
        BY <4>1, ReplyFacts DEF ReplyType
      <4>3. CallIds(r.calls) \in Seq(1..MaxCalls)
        BY <4>2, CallIdsType
      <4> QED
        BY <4>1, <4>3 DEF AssistantMsg, Message, Kinds
    <3> HIDE DEF m
    <3>3. CASE r.lands /\ ~s.stray
      <4>1. log' = [log EXCEPT ![s.conv] = Append(l, m)]
        BY <3>1, <3>3 DEF m
      <4> DEFINE new == <<m>>
      <4> HIDE DEF l, s
      <4>2. new \in Seq(Message)
        BY <3>2
      <4>3. Append(l, m) = l \o new
        BY <2>2, <3>2
      <4> HIDE DEF new
      <4>4. log' = [log EXCEPT ![s.conv] = log[s.conv] \o new]
        BY <4>1, <4>3 DEF l
      <4> QED
        BY <2>2, <4>2, <4>4, ListGrows
    <3>4. CASE ~(r.lands /\ ~s.stray)
      BY <3>1, <3>4, ListsStay
    <3> QED
      BY <3>3, <3>4
  <2>5. CASE ToolsDone(t)
    <3> DEFINE new == ResultMsgs(Family(t), t, s.hop, s.calls)
    <3>1. new \in Seq(Message)
      BY <2>2, AgentAssumption, ResultMsgsType DEF TurnState, Family
    <3>2. log' = [log EXCEPT ![s.conv] = l \o new]
      BY <2>5 DEF ToolsDone
    <3> HIDE DEF new
    <3> QED
      BY <2>2, <3>1, <3>2, ListGrows
  <2> QED
    BY <1>2, <2>3, <2>4, <2>5
<1>3. ASSUME NEW t \in Turns,
             UsageSent(t) \/ ResultsSent(t) \/ Finish(t) \/ Close(t) \/ Disconnect(t)
      PROVE  ListStep
  BY <1>3, ListsStay DEF UsageSent, ResultsSent, Finish, Close, Disconnect
<1>4. CASE UNCHANGED agentVars
  BY <1>4, ListsStay DEF agentVars
<1> QED
  BY <1>1, <1>2, <1>3, <1>4 DEF Next, Step

\* No step changes or drops an entry of a conversation but the switch of its mode.
THEOREM HistoryHolds == Spec => HistoryOnlyGrows
<1>1. LogIInv /\ [Next]_agentVars => [ListStep]_agentVars
  BY ListSteps DEF LogIInv
<1> QED
  BY <1>1, LogInvHolds, PTL DEF Spec, HistoryOnlyGrows, ListStep
==============================================================================
