--------------------------- MODULE ChatServer_proofs ---------------------------
(***************************************************************************)
(* Proofs about the chat API in front of the agent loop, for any number of *)
(* requests, session ids, modes, hops, days and any setting of the limits. *)
(***************************************************************************)
EXTENDS ChatServer, AgentLoop_proofs, FiniteSetTheorems

(***************************************************************************)
(* What a step of an admitted turn does to the turn and to its list, seen  *)
(* from the server.  Steps(s) counts what a turn may have appended behind  *)
(* its prompt by the time it is where it is; the prompt itself is what a   *)
(* turn that is not running yet lacks.                                     *)
(***************************************************************************)
PerHop == 1 + MaxCalls

Steps(s) ==
    IF s.pc = "ready" THEN 0 - 1
    ELSE IF s.pc = "stream" THEN s.hop * PerHop
    ELSE IF s.pc \in {"usage", "tools"} THEN s.hop * PerHop + 1
    ELSE IF s.pc = "results" THEN s.hop * PerHop + PerHop
    ELSE MAX_TOOL_HOPS * PerHop

Extends(L, l, t) ==
    /\ Len(l) <= Len(L)
    /\ \A i \in 1..Len(L) : IF i <= Len(l) THEN L[i] = l[i] ELSE L[i].by = t

Effect(t, s, s2, l, L) ==
    /\ s2.mode = s.mode /\ s2.shared = s.shared
    /\ Live(s2) => s2.conv = s.conv
    /\ Extends(L, l, t)
    /\ Live(s2) => Len(L) + Steps(s) <= Len(l) + Steps(s2)
    /\ ~Live(s2) => L = l /\ s2.tally = 0

\* The steps one hop takes fit into the hops a turn has.
LEMMA HopArithmetic ==
    ASSUME NEW h \in 0..(MAX_TOOL_HOPS - 1)
    PROVE  /\ PerHop \in Nat /\ PerHop = 1 + MaxCalls /\ PerHop >= 2
           /\ h * PerHop \in Nat /\ MAX_TOOL_HOPS * PerHop \in Nat
           /\ (h + 1) * PerHop = h * PerHop + PerHop
           /\ h * PerHop + PerHop <= MAX_TOOL_HOPS * PerHop
<1>1. PerHop \in Nat /\ PerHop = 1 + MaxCalls /\ PerHop >= 2
  BY AgentAssumption DEF PerHop
<1> HIDE DEF PerHop
<1>2. PICK d \in Nat : MAX_TOOL_HOPS = h + 1 + d
  <2>1. MAX_TOOL_HOPS - h - 1 \in Nat /\ MAX_TOOL_HOPS = h + 1 + (MAX_TOOL_HOPS - h - 1)
    BY AgentAssumption
  <2> QED
    BY <2>1
<1>3. h \in Nat /\ h * PerHop \in Nat /\ d * PerHop \in Nat
  BY <1>1
<1>4. (h + 1) * PerHop = h * PerHop + PerHop
  BY <1>1, <1>3
<1>5. MAX_TOOL_HOPS * PerHop = h * PerHop + PerHop + d * PerHop
  BY <1>1, <1>2, <1>3
<1> QED
  BY <1>1, <1>3, <1>4, <1>5

LEMMA StepsBounded ==
    ASSUME NEW s \in TurnState
    PROVE  Steps(s) \in Int /\ Steps(s) <= MAX_TOOL_HOPS * PerHop
<1>1. s.hop \in 0..(MAX_TOOL_HOPS - 1)
  BY DEF TurnState
<1> DEFINE w == s.hop * PerHop
           W == MAX_TOOL_HOPS * PerHop
<1>2. PerHop \in Nat /\ PerHop >= 2 /\ w \in Nat /\ W \in Nat /\ w + PerHop <= W
  BY <1>1, HopArithmetic
<1>3. Steps(s) \in {0 - 1, w, w + 1, w + PerHop, W}
  BY DEF Steps
<1> HIDE DEF PerHop, w, W
<1>4. Steps(s) \in Int /\ Steps(s) <= W
  BY <1>2, <1>3
<1> QED
  BY <1>4 DEF W

LEMMA ExtendsFacts ==
    ASSUME NEW t \in Turns, NEW l \in Seq(Message), NEW new \in Seq(Message),
           \A k \in 1..Len(new) : new[k].by = t
    PROVE  Extends(l \o new, l, t) /\ Len(l \o new) = Len(l) + Len(new)
<1> DEFINE L == l \o new
<1>1. /\ Len(L) = Len(l) + Len(new) /\ StartsWith(L, l)
      /\ \A j \in 1..Len(L) : j > Len(l) => L[j] = new[j - Len(l)] /\ j - Len(l) \in 1..Len(new)
  BY ConcatFacts
<1>2. Len(l) \in Nat /\ Len(new) \in Nat
  OBVIOUS
<1> HIDE DEF L
<1>3. Extends(L, l, t) /\ Len(L) = Len(l) + Len(new)
  BY <1>1, <1>2 DEF Extends, StartsWith
<1> QED
  BY <1>3 DEF L

LEMMA ExtendsSelf ==
    ASSUME NEW t \in Turns, NEW l \in Seq(Message)
    PROVE  Extends(l, l, t)
BY DEF Extends

\* A step of turn t alone.
Alone(t) ==
    /\ mode' = mode
    /\ \A u \in Turns : u # t => turn'[u] = turn[u]
    /\ \A c \in Conversations : c # turn[t].conv => log'[c] = log[c]
    /\ Live(turn[t])
    /\ Effect(t, turn[t], turn'[t], log[turn[t].conv], log'[turn[t].conv])

\* A step that goes on as s2 and appends `new`.
LEMMA AppendEffect ==
    ASSUME IInv, NEW t \in Turns, NEW s2, NEW new \in Seq(Message),
           turn[t].conv \in Conversations, Live(turn[t]), Live(s2), mode' = mode,
           turn' = [turn EXCEPT ![t] = s2], log' = [log EXCEPT ![turn[t].conv] = @ \o new],
           \A k \in 1..Len(new) : new[k].by = t,
           s2.mode = turn[t].mode, s2.shared = turn[t].shared, s2.conv = turn[t].conv,
           Steps(turn[t]) \in Int, Steps(s2) \in Int, Len(new) + Steps(turn[t]) <= Steps(s2)
    PROVE  Alone(t) /\ turn'[t] = s2
<1> DEFINE s == turn[t]
           l == log[s.conv]
           L == l \o new
<1>1. /\ l \in Seq(Message) /\ turn'[t] = s2 /\ log'[s.conv] = L
      /\ \A u \in Turns : u # t => turn'[u] = turn[u]
      /\ \A c \in Conversations : c # s.conv => log'[c] = log[c]
  BY DEF IInv, LogType
<1>2. L = l \o new
  OBVIOUS
<1>3. Len(l) \in Nat /\ Len(new) \in Nat
  BY <1>1
<1> HIDE DEF s, l, L
<1>4. Extends(L, l, t) /\ Len(L) = Len(l) + Len(new)
  <2>1. l \in Seq(Message)
    BY <1>1
  <2>2. Extends(l \o new, l, t) /\ Len(l \o new) = Len(l) + Len(new)
    BY <2>1, ExtendsFacts
  <2> QED
    BY <1>2, <2>2
<1>5. Len(L) + Steps(s) <= Len(l) + Steps(s2)
  BY <1>3, <1>4 DEF s
<1>6. Effect(t, s, s2, l, L)
  BY <1>4, <1>5 DEF Effect, s
<1> QED
  BY <1>1, <1>6 DEF Alone, s, l

\* A step that goes on as s2, or is over with it, and leaves the list as it is.
LEMMA StayEffect ==
    ASSUME IInv, NEW t \in Turns, NEW s2, turn[t].conv \in Conversations,
           Live(turn[t]), mode' = mode, turn' = [turn EXCEPT ![t] = s2], log' = log,
           s2.mode = turn[t].mode, s2.shared = turn[t].shared,
           Live(s2) => s2.conv = turn[t].conv /\ Steps(turn[t]) <= Steps(s2),
           ~Live(s2) => s2.tally = 0, Steps(turn[t]) \in Int, Steps(s2) \in Int
    PROVE  Alone(t) /\ turn'[t] = s2
<1> DEFINE s == turn[t]
           l == log[s.conv]
<1>1. /\ l \in Seq(Message) /\ turn'[t] = s2 /\ log'[s.conv] = l
      /\ \A u \in Turns : u # t => turn'[u] = turn[u]
      /\ \A c \in Conversations : c # s.conv => log'[c] = log[c]
  BY DEF IInv, LogType
<1>2. Extends(l, l, t) /\ Len(l) \in Nat
  BY <1>1, ExtendsSelf
<1> HIDE DEF s, l
<1>3. Live(s2) => Len(l) + Steps(s) <= Len(l) + Steps(s2)
  BY <1>2 DEF s
<1>4. Effect(t, s, s2, l, l)
  BY <1>2, <1>3 DEF Effect, s
<1> QED
  BY <1>1, <1>4 DEF Alone, s, l

LEMMA StartEffect ==
    ASSUME IInv, LogInv(log, turn), NEW t \in Turns, Start(t)
    PROVE  Alone(t) /\ Live(turn'[t]) /\ turn'[t].tally = turn[t].tally
<1> DEFINE s == turn[t]
           l == log[s.conv]
           m == UserMsg(t)
           s2 == OpenStream(s, 0, Append(l, m))
           new == <<m>>
<1>1. s.pc = "ready" /\ Live(s) /\ mode' = mode
  BY DEF Start, Live, InFlight
<1>2. s \in TurnState /\ l \in Seq(Message) /\ s.conv \in Conversations
  BY <1>1, TurnFacts
<1>3. turn' = [turn EXCEPT ![t] = s2] /\ log' = [log EXCEPT ![s.conv] = Append(l, m)]
  BY DEF Start, Messages
<1>4. m \in Message /\ m.by = t
  BY AgentAssumption DEF UserMsg, Message, Kinds
<1>5. /\ s2.conv = s.conv /\ s2.shared = s.shared /\ s2.mode = s.mode
      /\ s2.pc = "stream" /\ s2.hop = 0 /\ s2.tally = s.tally
  BY <1>2 DEF OpenStream, TurnState
<1> HIDE DEF s2, m, l, s
<1>6. new \in Seq(Message) /\ Len(new) = 1 /\ \A k \in 1..Len(new) : new[k].by = t
  BY <1>4
<1>7. Append(l, m) = l \o new
  BY <1>2, <1>4
<1> HIDE DEF new
<1>8. log' = [log EXCEPT ![s.conv] = log[s.conv] \o new]
  BY <1>3, <1>7 DEF l
<1>9. Live(s2)
  BY <1>5 DEF Live, InFlight, Yields
<1>10. 0 \in 0..(MAX_TOOL_HOPS - 1)
  BY AgentAssumption
<1>11. Steps(s) = 0 - 1 /\ Steps(s2) = 0 * PerHop
  BY <1>1, <1>5 DEF Steps
<1>12. Steps(s2) = 0
  BY <1>10, <1>11, HopArithmetic
<1>13. Steps(s) \in Int /\ Steps(s2) \in Int /\ Len(new) + Steps(s) <= Steps(s2)
  BY <1>6, <1>11, <1>12
<1>14. Alone(t) /\ turn'[t] = s2
  BY <1>1, <1>2, <1>3, <1>5, <1>6, <1>8, <1>9, <1>13, AppendEffect DEF s
<1> QED
  BY <1>5, <1>9, <1>14 DEF s

LEMMA EndStreamEffect ==
    ASSUME IInv, LogInv(log, turn), NEW t \in Turns, EndStream(t)
    PROVE  Alone(t) /\ Live(turn'[t]) /\ turn'[t].tally - turn[t].tally \in 0..1
<1> DEFINE s == turn[t]
           l == log[s.conv]
<1>1. s.pc = "stream" /\ Live(s) /\ mode' = mode
  BY DEF EndStream, Live, InFlight, Yields
<1>2. s \in TurnState /\ l \in Seq(Message) /\ s.conv \in Conversations
  BY <1>1, TurnFacts
<1>3. PICK r \in Replies(ProviderOf[s.mode]) :
        /\ log' = IF r.lands /\ ~s.stray
                  THEN [log EXCEPT ![s.conv] = Append(@, AssistantMsg(t, s.hop, r.calls))]
                  ELSE log
        /\ turn' = [turn EXCEPT ![t] = AfterReply(s, r)]
  BY DEF EndStream, Family, IInv
<1> DEFINE s2 == AfterReply(s, r)
           m == AssistantMsg(t, s.hop, r.calls)
           new == <<m>>
<1>4. ProviderOf[s.mode] \in Families
  BY <1>2, AgentAssumption DEF TurnState
<1>5. r \in ReplyType
  BY <1>4, ReplyFacts
<1>6. /\ s2.conv = s.conv /\ s2.shared = s.shared /\ s2.mode = s.mode /\ s2.hop = s.hop
      /\ s2.pc \in {"ending", "usage", "tools"}
      /\ s2.tally = IF s2.pc = "usage" THEN s.tally + r.usage ELSE s.tally
  <2>1. /\ s2.conv = s.conv /\ s2.shared = s.shared /\ s2.cutAt = s.cutAt
        /\ s2.stray = FALSE /\ s2.mode = s.mode /\ s2.hop = s.hop
        /\ s2.calls = r.calls /\ s2.stop = r.stop
        /\ s2.pc = IF r.stop = "error" THEN "ending"
                   ELSE IF r.usage > 0 THEN "usage"
                   ELSE IF r.stop = "tool_use" THEN "tools" ELSE "ending"
        /\ s2.pc = "ending" => s2.told = IF r.stop = "error" THEN "error" ELSE "done"
        /\ s2.tally = IF s2.pc = "usage" THEN s.tally + r.usage ELSE s.tally
    BY <1>2, <1>5, AfterReplyShape
  <2> HIDE DEF s2, s
  <2> QED
    BY <2>1
<1>7. s.hop \in 0..(MAX_TOOL_HOPS - 1) /\ r.calls \in 0..MaxCalls /\ r.usage \in 0..1
      /\ s.tally \in Nat
  BY <1>2, <1>5, AgentAssumption DEF TurnState, ReplyType
<1>8. m \in Message /\ m.by = t
  <2>1. CallIds(r.calls) \in Seq(1..MaxCalls)
    BY <1>7, CallIdsType
  <2> QED
    BY <1>7, <2>1 DEF AssistantMsg, Message, Kinds
<1>9. turn' = [turn EXCEPT ![t] = s2]
  BY <1>3
<1> HIDE DEF s2, m, l, s
<1>10. s2.tally - s.tally \in 0..1
  BY <1>6, <1>7
<1>11. Live(s2)
  BY <1>6 DEF Live, InFlight, Yields
<1>12. /\ PerHop \in Nat /\ PerHop >= 2 /\ s.hop * PerHop \in Nat
       /\ MAX_TOOL_HOPS * PerHop \in Nat
       /\ s.hop * PerHop + PerHop <= MAX_TOOL_HOPS * PerHop
  BY <1>7, HopArithmetic
<1>13. Steps(s) = s.hop * PerHop
  BY <1>1 DEF Steps
<1>14. Steps(s2) \in {s.hop * PerHop + 1, MAX_TOOL_HOPS * PerHop}
  BY <1>6 DEF Steps
<1>15. Steps(s) \in Int /\ Steps(s2) \in Int /\ 1 + Steps(s) <= Steps(s2)
  <2> DEFINE w == s.hop * PerHop
             W == MAX_TOOL_HOPS * PerHop
  <2>1. w \in Nat /\ W \in Nat /\ PerHop \in Nat /\ PerHop >= 2 /\ w + PerHop <= W
    BY <1>12
  <2>2. Steps(s) = w /\ Steps(s2) \in {w + 1, W}
    BY <1>13, <1>14
  <2> HIDE DEF w, W, PerHop
  <2> QED
    BY <2>1, <2>2
<1>16. CASE r.lands /\ ~s.stray
  <2>1. new \in Seq(Message) /\ Len(new) = 1 /\ \A k \in 1..Len(new) : new[k].by = t
    BY <1>8
  <2>2. Append(l, m) = l \o new
    BY <1>2, <1>8
  <2> HIDE DEF new
  <2>3. log' = [log EXCEPT ![s.conv] = log[s.conv] \o new]
    BY <1>3, <1>16, <2>2 DEF l, m
  <2>4. Len(new) + Steps(s) <= Steps(s2)
    BY <1>15, <2>1
  <2>5. Alone(t) /\ turn'[t] = s2
    BY <1>1, <1>2, <1>6, <1>9, <1>11, <1>15, <2>1, <2>3, <2>4, AppendEffect DEF s
  <2> QED
    BY <1>10, <1>11, <2>5 DEF s
<1>17. CASE ~(r.lands /\ ~s.stray)
  <2>1. log' = log
    BY <1>3, <1>17
  <2>2. Steps(s) <= Steps(s2)
    BY <1>15
  <2>3. Alone(t) /\ turn'[t] = s2
    BY <1>1, <1>2, <1>6, <1>9, <1>11, <1>15, <2>1, <2>2, StayEffect DEF s
  <2> QED
    BY <1>10, <1>11, <2>3 DEF s
<1> QED
  BY <1>16, <1>17

LEMMA UsageSentEffect ==
    ASSUME IInv, LogInv(log, turn), NEW t \in Turns, UsageSent(t)
    PROVE  Alone(t) /\ Live(turn'[t]) /\ turn'[t].tally = turn[t].tally
<1> DEFINE s == turn[t]
           s2 == AfterUsage(s)
<1>1. s.pc = "usage" /\ Live(s) /\ mode' = mode /\ log' = log
      /\ turn' = [turn EXCEPT ![t] = s2]
  BY DEF UsageSent, Live, InFlight, Yields
<1>2. s \in TurnState /\ s.conv \in Conversations
  BY <1>1, TurnFacts
<1>3. /\ s2.conv = s.conv /\ s2.shared = s.shared /\ s2.mode = s.mode /\ s2.hop = s.hop
      /\ s2.tally = s.tally /\ s2.pc \in {"ending", "tools"}
  BY <1>2 DEF AfterUsage, Tell, TurnState
<1> HIDE DEF s2, s
<1>4. Live(s2)
  BY <1>3 DEF Live, InFlight, Yields
<1>5. s.hop \in 0..(MAX_TOOL_HOPS - 1)
  BY <1>2 DEF TurnState
<1> DEFINE w == s.hop * PerHop
           W == MAX_TOOL_HOPS * PerHop
<1>6. w \in Nat /\ W \in Nat /\ PerHop \in Nat /\ PerHop >= 2 /\ w + PerHop <= W
  BY <1>5, HopArithmetic
<1>7. Steps(s) = w + 1 /\ Steps(s2) \in {w + 1, W}
  BY <1>1, <1>3 DEF Steps
<1> HIDE DEF w, W, PerHop
<1>8. Steps(s) \in Int /\ Steps(s2) \in Int /\ Steps(s) <= Steps(s2)
  BY <1>6, <1>7
<1>9. Alone(t) /\ turn'[t] = s2
  BY <1>1, <1>2, <1>3, <1>4, <1>8, StayEffect DEF s
<1> QED
  BY <1>3, <1>4, <1>9 DEF s

LEMMA ToolsDoneEffect ==
    ASSUME IInv, LogInv(log, turn), NEW t \in Turns, ToolsDone(t)
    PROVE  Alone(t) /\ Live(turn'[t]) /\ turn'[t].tally = turn[t].tally
<1> DEFINE s == turn[t]
           f == Family(t)
           s2 == [s EXCEPT !.pc = "results"]
           new == ResultMsgs(f, t, s.hop, s.calls)
<1>1. s.pc = "tools" /\ Live(s) /\ mode' = mode
  BY DEF ToolsDone, Live, InFlight, Yields
<1>2. s \in TurnState /\ s.conv \in Conversations
  BY <1>1, TurnFacts
<1>3. log' = [log EXCEPT ![s.conv] = log[s.conv] \o new] /\ turn' = [turn EXCEPT ![t] = s2]
  BY DEF ToolsDone, IInv
<1>4. /\ s2.conv = s.conv /\ s2.shared = s.shared /\ s2.mode = s.mode /\ s2.hop = s.hop
      /\ s2.tally = s.tally /\ s2.pc = "results"
  BY <1>2 DEF TurnState
<1>5. f \in Families /\ s.hop \in 0..(MAX_TOOL_HOPS - 1) /\ s.calls \in 0..MaxCalls
  BY <1>2, AgentAssumption DEF TurnState, Family
<1> HIDE DEF s2, s, f
<1>6. new \in Seq(Message)
  BY <1>5, ResultMsgsType
<1>7. Len(new) <= MaxCalls /\ Len(new) \in Nat /\ \A k \in 1..Len(new) : new[k].by = t
  <2>1. CASE f = "openai_compat"
    <3>1. new = [k \in 1..s.calls |-> ResultsMsg(t, s.hop, <<k>>)]
      BY <2>1 DEF ResultMsgs
    <3>2. s.calls \in Nat /\ s.calls <= MaxCalls
      BY <1>5, AgentAssumption
    <3>3. Len(new) = s.calls
      BY <3>1, <3>2
    <3> QED
      BY <3>1, <3>2, <3>3 DEF ResultsMsg
  <2>2. CASE f # "openai_compat"
    <3>1. new = << ResultsMsg(t, s.hop, CallIds(s.calls)) >>
      BY <2>2 DEF ResultMsgs
    <3>2. ResultsMsg(t, s.hop, CallIds(s.calls)).by = t
      BY DEF ResultsMsg
    <3> QED
      BY <3>1, <3>2, AgentAssumption
  <2> QED
    BY <2>1, <2>2
<1> HIDE DEF new
<1>8. Live(s2)
  BY <1>4 DEF Live, InFlight, Yields
<1> DEFINE w == s.hop * PerHop
<1>9. w \in Nat /\ PerHop \in Nat /\ PerHop = 1 + MaxCalls
  BY <1>5, HopArithmetic
<1>10. Steps(s) = w + 1 /\ Steps(s2) = w + PerHop
  BY <1>1, <1>4 DEF Steps
<1> HIDE DEF w, PerHop
<1>11. Steps(s) \in Int /\ Steps(s2) \in Int /\ Len(new) + Steps(s) <= Steps(s2)
  BY <1>7, <1>9, <1>10, AgentAssumption
<1>12. Alone(t) /\ turn'[t] = s2
  BY <1>1, <1>2, <1>3, <1>4, <1>6, <1>7, <1>8, <1>11, AppendEffect DEF s
<1> QED
  BY <1>4, <1>8, <1>12 DEF s

LEMMA ResultsSentEffect ==
    ASSUME IInv, LogInv(log, turn), NEW t \in Turns, ResultsSent(t)
    PROVE  Alone(t) /\ Live(turn'[t]) /\ turn'[t].tally = turn[t].tally
<1> DEFINE s == turn[t]
           s2 == NextHop(s, Messages(t))
<1>1. s.pc = "results" /\ Live(s) /\ mode' = mode /\ log' = log
      /\ turn' = [turn EXCEPT ![t] = s2]
  BY DEF ResultsSent, Live, InFlight, Yields
<1>2. s \in TurnState /\ s.conv \in Conversations
  BY <1>1, TurnFacts
<1>3. /\ s2.conv = s.conv /\ s2.shared = s.shared /\ s2.mode = s.mode /\ s2.tally = s.tally
      /\ (s2.pc = "stream" /\ s2.hop = s.hop + 1) \/ s2.pc = "ending"
  BY <1>2 DEF NextHop, OpenStream, Tell, TurnState
<1> HIDE DEF s2, s
<1>4. Live(s2)
  BY <1>3 DEF Live, InFlight, Yields
<1>5. s.hop \in 0..(MAX_TOOL_HOPS - 1)
  BY <1>2 DEF TurnState
<1> DEFINE w == s.hop * PerHop
           W == MAX_TOOL_HOPS * PerHop
<1>6. /\ w \in Nat /\ W \in Nat /\ PerHop \in Nat /\ w + PerHop <= W
      /\ (s.hop + 1) * PerHop = w + PerHop
  BY <1>5, HopArithmetic
<1>7. Steps(s) = w + PerHop /\ Steps(s2) \in {w + PerHop, W}
  <2>1. Steps(s2) \in {(s.hop + 1) * PerHop, W}
    BY <1>3 DEF Steps
  <2> QED
    BY <1>1, <1>6, <2>1 DEF Steps
<1> HIDE DEF w, W, PerHop
<1>8. Steps(s) \in Int /\ Steps(s2) \in Int /\ Steps(s) <= Steps(s2)
  BY <1>6, <1>7
<1>9. Alone(t) /\ turn'[t] = s2
  BY <1>1, <1>2, <1>3, <1>4, <1>8, StayEffect DEF s
<1> QED
  BY <1>3, <1>4, <1>9 DEF s

LEMMA OverEffect ==
    ASSUME IInv, LogInv(log, turn), NEW t \in Turns, Finish(t) \/ Close(t)
    PROVE  Alone(t) /\ ~Live(turn'[t]) /\ turn'[t].tally = 0
<1> DEFINE s == turn[t]
           s2 == Over(s)
<1>1. Live(s) /\ mode' = mode /\ log' = log /\ turn' = [turn EXCEPT ![t] = s2]
  BY DEF Finish, Close, Live, InFlight, Yields
<1>2. s \in TurnState /\ s.conv \in Conversations
  BY <1>1, TurnFacts
<1>3. s2.shared = s.shared /\ s2.mode = s.mode /\ s2.tally = 0 /\ s2.pc = "closed"
  BY <1>2 DEF Over, IdleTurn
<1>4. s2 \in TurnState
  <2>1. GoodTurn(s)
    BY DEF IInv, Metered, GoodTurn
  <2>2. s.pc \in {"ending", "closing"}
    BY DEF Finish, Close
  <2> QED
    BY <2>1, <2>2, OverIsGood DEF GoodTurn
<1> HIDE DEF s2, s
<1>5. ~Live(s2)
  BY <1>3 DEF Live, InFlight, Yields
<1>6. Steps(s) \in Int /\ Steps(s2) \in Int
  BY <1>2, <1>4, StepsBounded
<1>7. Alone(t) /\ turn'[t] = s2
  BY <1>1, <1>2, <1>3, <1>5, <1>6, StayEffect DEF s
<1> QED
  BY <1>3, <1>5, <1>7 DEF s

LEMMA DisconnectEffect ==
    ASSUME IInv, LogInv(log, turn), NEW t \in Turns, Disconnect(t)
    PROVE  Alone(t) /\ turn'[t].tally = turn[t].tally
<1> DEFINE s == turn[t]
           s2 == [s EXCEPT !.cutAt = s.pc, !.pc = IF @ = "ready" THEN "closed" ELSE "closing"]
<1>1. /\ Live(s) /\ mode' = mode /\ log' = log /\ s.pc \in Yields \cup {"ready"}
      /\ turn' = [turn EXCEPT ![t] = s2]
  BY DEF Disconnect, Live, InFlight, Yields, IInv, TurnState
<1>2. s \in TurnState /\ s.conv \in Conversations
  BY <1>1, TurnFacts
<1>3. /\ s2.shared = s.shared /\ s2.mode = s.mode /\ s2.tally = s.tally /\ s2.conv = s.conv
      /\ s2.pc = IF s.pc = "ready" THEN "closed" ELSE "closing"
  BY <1>2 DEF TurnState
<1>4. s2 \in TurnState /\ (s.pc = "ready" => s.tally = 0)
  <2>1. GoodTurn(s)
    BY DEF IInv, Metered, GoodTurn
  <2>2. GoodTurn(s2)
    BY <1>1, <2>1, DisconnectIsGood
  <2> QED
    BY <2>1, <2>2 DEF GoodTurn, MeterInv, KeepsUp
<1> HIDE DEF s2, s
<1>5. ~Live(s2) => s2.tally = 0
  BY <1>3, <1>4 DEF Live, InFlight, Yields
<1>6. Steps(s) \in Int /\ Steps(s2) \in Int /\ Steps(s) <= MAX_TOOL_HOPS * PerHop
  BY <1>2, <1>4, StepsBounded
<1>7. Live(s2) => Steps(s) <= Steps(s2)
  BY <1>3, <1>6 DEF Steps, Live, InFlight, Yields
<1>8. Alone(t) /\ turn'[t] = s2
  BY <1>1, <1>2, <1>3, <1>5, <1>6, <1>7, StayEffect DEF s
<1> QED
  BY <1>3, <1>8 DEF s
-----------------------------------------------------------------------------
(***************************************************************************)
(* The inductive invariant.  The invariant of the agent loop (LogIInv) is  *)
(* kept by every step of the server.  What is registered is one's own: the *)
(* turns that still run on a registered conversation, and not only those   *)
(* that wrote to it, were asked for under its id.  The turns under way     *)
(* must count for modes and lengths too: a switch that replaces the list   *)
(* leaves them behind, and what they may still append is reserved.         *)
(***************************************************************************)
ServerTypes ==
    /\ sessions \in [Sids -> Conversations \cup {NoConv}]
    /\ unseen \in [Conversations -> 0..(SESSION_TTL + 1)]
    /\ asked \in [Turns -> Sids \cup {NoSid}]
    /\ today \in 0..MaxDay /\ date \in 0..today /\ used \in Nat

RunsOn(tn, t, c) == Live(tn[t]) /\ tn[t].conv = c

OwnSessions(reg, lg, tn, ask) ==
    \A s \in Sids : reg[s] # NoConv =>
        /\ \A r \in Sids \ {s} : reg[r] # reg[s]
        /\ \A i \in DOMAIN lg[reg[s]] : ask[lg[reg[s]][i].by] = s
        /\ \A t \in Turns : RunsOn(tn, t, reg[s]) => ask[t] = s

OfMode(s, m) == s.mode = m \/ s.shared

ModesFit(md, lg, tn) ==
    \A c \in Conversations :
        /\ \A i \in DOMAIN lg[c] : OfMode(tn[lg[c][i].by], md[c])
        /\ \A t \in Turns : RunsOn(tn, t, c) => OfMode(tn[t], md[c])

Prompts == MAX_TURNS_PER_SESSION * 2

Unshared(l, tn) == \A i \in DOMAIN l : ~tn[l[i].by].shared

Fits(c, l, tn) ==
    Unshared(l, tn) =>
        /\ Len(l) <= Prompts + MAX_TOOL_HOPS * PerHop
        /\ \A t \in Turns : RunsOn(tn, t, c) /\ ~tn[t].shared => Len(l) <= Prompts + Steps(tn[t])

ServerInv ==
    /\ LogIInv
    /\ ServerTypes
    /\ OwnSessions(sessions, log, turn, asked)
    /\ ModesFit(mode, log, turn)
    /\ \A c \in Conversations : Fits(c, log[c], turn)

\* A session that has expired takes nothing from the others.
LEMMA SweptFacts ==
    ASSUME ServerTypes
    PROVE  /\ Swept \in [Sids -> Conversations \cup {NoConv}]
           /\ \A s \in Sids : Swept[s] \in {sessions[s], NoConv}
BY DEF ServerTypes, Swept

LEMMA FewerSessions ==
    ASSUME NEW reg, NEW reg2, OwnSessions(reg, log, turn, asked),
           \A s \in Sids : reg2[s] \in {reg[s], NoConv}
    PROVE  OwnSessions(reg2, log, turn, asked)
<1> SUFFICES ASSUME NEW s \in Sids, reg2[s] # NoConv
             PROVE  /\ \A r \in Sids \ {s} : reg2[r] # reg2[s]
                    /\ \A i \in DOMAIN log[reg2[s]] : asked[log[reg2[s]][i].by] = s
                    /\ \A t \in Turns : RunsOn(turn, t, reg2[s]) => asked[t] = s
  BY DEF OwnSessions
<1>1. reg2[s] = reg[s] /\ reg[s] # NoConv
  OBVIOUS
<1>2. /\ \A r \in Sids \ {s} : reg[r] # reg[s]
      /\ \A i \in DOMAIN log[reg[s]] : asked[log[reg[s]][i].by] = s
      /\ \A t \in Turns : RunsOn(turn, t, reg[s]) => asked[t] = s
  BY <1>1 DEF OwnSessions
<1>3. \A r \in Sids \ {s} : reg2[r] # reg2[s]
  BY <1>1, <1>2
<1> QED
  BY <1>1, <1>2, <1>3

\* A step that leaves the turns alone, and drops sessions at most.
LEMMA QuietKeeps ==
    ASSUME ServerInv, UNCHANGED <<agentVars, asked>>, ServerTypes',
           \A s \in Sids : sessions'[s] \in {sessions[s], NoConv}
    PROVE  ServerInv'
<1>1. log' = log /\ mode' = mode /\ turn' = turn /\ asked' = asked
  BY DEF agentVars
<1>2. LogIInv'
  <2>1. IInv /\ LogInv(log, turn)
    BY DEF ServerInv, LogIInv
  <2>2. IInv'
    BY <2>1, NextPreserves
  <2>3. LogInv(log', turn')
    BY <1>1, <2>1
  <2> QED
    BY <2>2, <2>3 DEF LogIInv
<1>3. OwnSessions(sessions', log, turn, asked)
  <2>1. OwnSessions(sessions, log, turn, asked)
    BY DEF ServerInv
  <2> QED
    BY <2>1, FewerSessions
<1>4. OwnSessions(sessions', log', turn', asked') /\ ModesFit(mode', log', turn')
  BY <1>1, <1>3 DEF ServerInv
<1>5. \A c \in Conversations : Fits(c, log'[c], turn')
  BY <1>1 DEF ServerInv
<1> QED
  BY <1>2, <1>4, <1>5 DEF ServerInv

-----------------------------------------------------------------------------
(* A step of one turn.                                                     *)

LEMMA AloneFacts ==
    ASSUME IInv, LogInv(log, turn), IInv', NEW t \in Turns, Alone(t)
    PROVE  /\ \A u \in Turns : /\ turn'[u].mode = turn[u].mode /\ turn'[u].shared = turn[u].shared
                               /\ Live(turn'[u]) => Live(turn[u]) /\ turn'[u].conv = turn[u].conv
           /\ \A c \in Conversations : \A i \in DOMAIN log'[c] :
                /\ log'[c][i].by \in Turns
                /\ \/ i \in DOMAIN log[c] /\ log'[c][i] = log[c][i]
                   \/ c = turn[t].conv /\ log'[c][i].by = t
           /\ \A c \in Conversations : Len(log[c]) <= Len(log'[c])
                /\ \A i \in DOMAIN log[c] : i \in DOMAIN log'[c] /\ log'[c][i] = log[c][i]
<1>1. \A u \in Turns : /\ turn'[u].mode = turn[u].mode /\ turn'[u].shared = turn[u].shared
                       /\ Live(turn'[u]) => Live(turn[u]) /\ turn'[u].conv = turn[u].conv
  BY DEF Alone, Effect
<1>2. ASSUME NEW c \in Conversations
      PROVE  /\ log[c] \in Seq(Message) /\ log'[c] \in Seq(Message)
             /\ \A i \in DOMAIN log'[c] : log'[c][i].by \in Turns
             /\ log'[c] = log[c] \/ (c = turn[t].conv /\ Extends(log'[c], log[c], t))
  <2>1. log[c] \in Seq(Message) /\ log'[c] \in Seq(Message)
    BY DEF IInv, LogType
  <2>2. \A i \in DOMAIN log'[c] : log'[c][i] \in Message
    BY <2>1
  <2>3. \A i \in DOMAIN log'[c] : log'[c][i].by \in Turns
    BY <2>2 DEF Message
  <2> QED
    BY <2>1, <2>3 DEF Alone, Effect
<1>3. ASSUME NEW c \in Conversations, NEW i \in DOMAIN log'[c]
      PROVE  \/ i \in DOMAIN log[c] /\ log'[c][i] = log[c][i]
             \/ c = turn[t].conv /\ log'[c][i].by = t
  <2>1. CASE log'[c] = log[c]
    BY <1>3, <2>1
  <2>2. CASE c = turn[t].conv /\ Extends(log'[c], log[c], t)
    <3> DEFINE L == log'[c]
               l == log[c]
    <3>1. DOMAIN L = 1..Len(L) /\ DOMAIN l = 1..Len(l) /\ Len(l) \in Nat /\ Len(L) \in Nat
      BY <1>2
    <3>2. Extends(L, l, t) /\ i \in DOMAIN L
      BY <1>3, <2>2
    <3> HIDE DEF L, l
    <3>3. (i \in DOMAIN l /\ L[i] = l[i]) \/ L[i].by = t
      BY <3>1, <3>2 DEF Extends
    <3> QED
      BY <2>2, <3>3 DEF L, l
  <2> QED
    BY <1>2, <2>1, <2>2
<1>4. ASSUME NEW c \in Conversations
      PROVE  Len(log[c]) <= Len(log'[c])
               /\ \A i \in DOMAIN log[c] : i \in DOMAIN log'[c] /\ log'[c][i] = log[c][i]
  <2> DEFINE L == log'[c]
             l == log[c]
  <2>1. DOMAIN L = 1..Len(L) /\ DOMAIN l = 1..Len(l) /\ Len(l) \in Nat /\ Len(L) \in Nat
    BY <1>2
  <2>2. L = l \/ Extends(L, l, t)
    BY <1>2
  <2> HIDE DEF L, l
  <2>3. Len(l) <= Len(L) /\ \A i \in DOMAIN l : i \in DOMAIN L /\ L[i] = l[i]
    BY <2>1, <2>2 DEF Extends
  <2> QED
    BY <2>3 DEF L, l
<1> QED
  BY <1>1, <1>2, <1>3, <1>4

LEMMA AloneOwnSessions ==
    ASSUME IInv, LogInv(log, turn), IInv', NEW t \in Turns, Alone(t), ServerTypes,
           OwnSessions(sessions, log, turn, asked)
    PROVE  OwnSessions(sessions, log', turn', asked)
<1> SUFFICES ASSUME NEW s \in Sids, sessions[s] # NoConv
             PROVE  /\ \A r \in Sids \ {s} : sessions[r] # sessions[s]
                    /\ \A i \in DOMAIN log'[sessions[s]] : asked[log'[sessions[s]][i].by] = s
                    /\ \A u \in Turns : RunsOn(turn', u, sessions[s]) => asked[u] = s
  BY DEF OwnSessions
<1> DEFINE c == sessions[s]
<1>1. c \in Conversations
  BY DEF ServerTypes
<1>2. /\ \A r \in Sids \ {s} : sessions[r] # c
      /\ \A i \in DOMAIN log[c] : asked[log[c][i].by] = s
      /\ \A u \in Turns : RunsOn(turn, u, c) => asked[u] = s
  BY DEF OwnSessions
<1> HIDE DEF c
<1>3. \A u \in Turns : RunsOn(turn', u, c) => asked[u] = s
  BY <1>2, AloneFacts DEF RunsOn
<1>4. ASSUME NEW i \in DOMAIN log'[c] PROVE asked[log'[c][i].by] = s
  <2>1. \/ i \in DOMAIN log[c] /\ log'[c][i] = log[c][i]
        \/ c = turn[t].conv /\ log'[c][i].by = t
    BY <1>1, AloneFacts
  <2>2. Live(turn[t])
    BY DEF Alone
  <2> QED
    BY <1>2, <2>1, <2>2 DEF RunsOn
<1> QED
  BY <1>2, <1>3, <1>4 DEF c

LEMMA AloneModesFit ==
    ASSUME IInv, LogInv(log, turn), IInv', NEW t \in Turns, Alone(t), ModesFit(mode, log, turn)
    PROVE  ModesFit(mode', log', turn')
<1>1. mode' = mode /\ Live(turn[t])
  BY DEF Alone
<1>2. ASSUME NEW c \in Conversations, NEW u \in Turns, RunsOn(turn', u, c)
      PROVE  OfMode(turn'[u], mode[c])
  <2>1. RunsOn(turn, u, c) /\ turn'[u].mode = turn[u].mode /\ turn'[u].shared = turn[u].shared
    BY <1>2, AloneFacts DEF RunsOn
  <2> QED
    BY <2>1 DEF ModesFit, OfMode
<1>3. ASSUME NEW c \in Conversations, NEW i \in DOMAIN log'[c]
      PROVE  OfMode(turn'[log'[c][i].by], mode[c])
  <2> DEFINE u == log'[c][i].by
  <2>1. /\ u \in Turns
        /\ \/ i \in DOMAIN log[c] /\ log'[c][i] = log[c][i]
           \/ c = turn[t].conv /\ u = t
    BY <1>3, AloneFacts
  <2>2. turn'[u].mode = turn[u].mode /\ turn'[u].shared = turn[u].shared
    BY <2>1, AloneFacts
  <2>3. OfMode(turn[u], mode[c])
    BY <1>1, <1>3, <2>1 DEF ModesFit, RunsOn
  <2> QED
    BY <2>2, <2>3 DEF OfMode
<1> QED
  BY <1>1, <1>2, <1>3 DEF ModesFit

\* What a turn may still append was reserved when it was admitted.
LEMMA AloneFits ==
    ASSUME IInv, LogInv(log, turn), IInv', NEW t \in Turns, Alone(t),
           NEW c \in Conversations, Fits(c, log[c], turn)
    PROVE  Fits(c, log'[c], turn')
<1> DEFINE l == log[c]
           L == log'[c]
           W == MAX_TOOL_HOPS * PerHop
<1> SUFFICES ASSUME Unshared(L, turn')
             PROVE  /\ Len(L) <= Prompts + W
                    /\ \A u \in Turns : RunsOn(turn', u, c) /\ ~turn'[u].shared
                         => Len(L) <= Prompts + Steps(turn'[u])
  BY DEF Fits
<1>1. /\ \A u \in Turns : turn'[u].shared = turn[u].shared
      /\ \A u \in Turns : RunsOn(turn', u, c) => RunsOn(turn, u, c)
      /\ \A i \in DOMAIN L : L[i].by \in Turns
      /\ Len(l) <= Len(L) /\ \A i \in DOMAIN l : i \in DOMAIN L /\ L[i] = l[i]
  BY AloneFacts DEF RunsOn
<1>2. \A u \in Turns : u # t => turn'[u] = turn[u]
  BY DEF Alone
<1>3. \A u \in Turns : turn[u] \in TurnState /\ turn'[u] \in TurnState
  BY DEF IInv
<1>4. \A u \in Turns : Steps(turn[u]) \in Int /\ Steps(turn'[u]) \in Int /\ Steps(turn'[u]) <= W
  BY <1>3, StepsBounded
<1>5. Len(l) \in Nat /\ Len(L) \in Nat /\ DOMAIN L = 1..Len(L) /\ W \in Int /\ Prompts \in Int
  <2>1. l \in Seq(Message) /\ L \in Seq(Message)
    BY DEF IInv, LogType
  <2>2. 0 \in 0..(MAX_TOOL_HOPS - 1)
    BY AgentAssumption
  <2>3. W \in Nat
    BY <2>2, HopArithmetic
  <2> QED
    BY <2>1, <2>3, ServerAssumption DEF Prompts
<1>6. /\ Len(l) <= Prompts + W
      /\ \A u \in Turns : RunsOn(turn, u, c) /\ ~turn[u].shared => Len(l) <= Prompts + Steps(turn[u])
  <2>1. Unshared(l, turn)
    BY <1>1 DEF Unshared
  <2> QED
    BY <2>1 DEF Fits
<1>7. \A u \in Turns : u # t /\ RunsOn(turn, u, c) /\ RunsOn(turn, t, c) => turn[u].shared /\ turn[t].shared
  BY DEF LogInv, Together, RunsOn
<1>8. Live(turn[t])
  BY DEF Alone
<1> HIDE DEF l, L, W
<1>9. CASE Len(L) = Len(l)
  <2>1. Len(L) <= Prompts + W
    BY <1>6, <1>9
  <2>2. ASSUME NEW u \in Turns, RunsOn(turn', u, c), ~turn'[u].shared
        PROVE  Len(L) <= Prompts + Steps(turn'[u])
    <3>1. RunsOn(turn, u, c) /\ ~turn[u].shared
      BY <1>1, <2>2
    <3>2. Len(l) <= Prompts + Steps(turn[u])
      BY <1>6, <3>1
    <3>3. CASE u # t
      BY <1>2, <1>9, <3>2, <3>3
    <3>4. CASE u = t
      <4>1. Effect(t, turn[t], turn'[t], l, L)
        BY <3>1, <3>4 DEF Alone, RunsOn, l, L
      <4>2. Len(L) + Steps(turn[t]) <= Len(l) + Steps(turn'[t])
        BY <2>2, <3>4, <4>1 DEF Effect, RunsOn
      <4> QED
        BY <1>4, <1>5, <1>9, <3>2, <3>4, <4>2
    <3> QED
      BY <3>3, <3>4
  <2> QED
    BY <2>1, <2>2
<1>10. CASE Len(L) # Len(l)
  <2>1. c = turn[t].conv
    BY <1>10 DEF Alone, l, L
  <2>2. Effect(t, turn[t], turn'[t], l, L)
    BY <2>1 DEF Alone, l, L
  <2>3. Live(turn'[t])
    BY <1>10, <2>2 DEF Effect
  <2>4. ~turn[t].shared /\ ~turn'[t].shared
    <3>1. Len(L) \in DOMAIN L /\ ~(Len(L) <= Len(l))
      BY <1>1, <1>5, <1>10
    <3>2. L[Len(L)].by = t
      BY <1>5, <2>2, <3>1 DEF Effect, Extends
    <3> QED
      BY <1>1, <3>1, <3>2 DEF Unshared
  <2>5. RunsOn(turn, t, c)
    BY <1>8, <2>1 DEF RunsOn
  <2>6. Len(l) <= Prompts + Steps(turn[t])
    BY <1>6, <2>4, <2>5
  <2>7. Len(L) + Steps(turn[t]) <= Len(l) + Steps(turn'[t])
    BY <2>2, <2>3 DEF Effect
  <2>8. Len(L) <= Prompts + Steps(turn'[t])
    BY <1>4, <1>5, <2>6, <2>7
  <2>9. Len(L) <= Prompts + W
    BY <1>4, <1>5, <2>8
  <2>10. \A u \in Turns : RunsOn(turn', u, c) /\ ~turn'[u].shared => u = t
    BY <1>1, <1>7, <2>5
  <2> QED
    BY <2>8, <2>9, <2>10 DEF W
<1> QED
  BY <1>9, <1>10 DEF W

LEMMA AloneKeeps ==
    ASSUME ServerInv, IInv', LogInv(log', turn'), NEW t \in Turns, Alone(t), ServerTypes',
           UNCHANGED <<sessions, asked>>
    PROVE  ServerInv'
<1>1. IInv /\ LogInv(log, turn) /\ ServerTypes /\ OwnSessions(sessions, log, turn, asked)
      /\ ModesFit(mode, log, turn)
  BY DEF ServerInv, LogIInv
<1>2. OwnSessions(sessions, log', turn', asked)
  BY <1>1, AloneOwnSessions
<1>3. ModesFit(mode', log', turn')
  BY <1>1, AloneModesFit
<1>4. ASSUME NEW c \in Conversations PROVE Fits(c, log'[c], turn')
  <2>1. Fits(c, log[c], turn)
    BY DEF ServerInv
  <2> QED
    BY <1>1, <2>1, AloneFits
<1>5. OwnSessions(sessions', log', turn', asked')
  BY <1>2
<1>6. LogIInv'
  BY DEF LogIInv
<1> QED
  BY <1>3, <1>4, <1>5, <1>6 DEF ServerInv

-----------------------------------------------------------------------------
(* A request is admitted.                                                  *)

\* There is a conversation nobody holds: fewer are registered than there are session
\* ids, and fewer are run on than there are requests, the new one being idle.
LEMMA FreshConversation ==
    ASSUME IInv, NEW reg \in [Sids -> Conversations \cup {NoConv}], NEW t \in Turns,
           turn[t].pc = "idle"
    PROVE  \E c \in Conversations : LiveOn(c) = {} /\ \A s \in Sids : reg[s] # c
<1> SUFFICES ASSUME \A c \in Conversations : LiveOn(c) # {} \/ \E s \in Sids : reg[s] = c
             PROVE  FALSE
  OBVIOUS
<1> DEFINE Others == Turns \ {t}
           held == [u \in Others |-> turn[u].conv]
           R == {reg[s] : s \in Sids}
           H == {held[u] : u \in Others}
<1>1. /\ IsFiniteSet(Turns) /\ IsFiniteSet(Sids) /\ IsFiniteSet(Conversations)
      /\ Cardinality(Conversations) >= Cardinality(Sids) + Cardinality(Turns)
  BY ServerAssumption
<1>2. IsFiniteSet(R) /\ Cardinality(R) <= Cardinality(Sids)
  <2>1. reg \in Surjection(Sids, R)
    BY DEF Surjection
  <2> QED
    BY <1>1, <2>1, FS_Surjection
<1>3. IsFiniteSet(Others) /\ Cardinality(Others) = Cardinality(Turns) - 1
  BY <1>1, FS_RemoveElement
<1>4. IsFiniteSet(H) /\ Cardinality(H) <= Cardinality(Others)
  <2>1. held \in Surjection(Others, H)
    BY DEF Surjection
  <2> HIDE DEF held, H, Others
  <2> QED
    BY <1>3, <2>1, FS_Surjection
<1>5. Conversations \subseteq R \cup H
  <2> SUFFICES ASSUME NEW c \in Conversations, c \notin R PROVE c \in H
    OBVIOUS
  <2>1. PICK u \in Turns : turn[u].pc \in InFlight /\ turn[u].conv = c
    BY DEF LiveOn
  <2>2. u # t
    BY <2>1 DEF InFlight, Yields
  <2> QED
    BY <2>1, <2>2
<1> HIDE DEF R, H, Others
<1>6. /\ IsFiniteSet(R \cup H)
      /\ Cardinality(R \cup H) = Cardinality(R) + Cardinality(H) - Cardinality(R \cap H)
  BY <1>2, <1>4, FS_Union
<1>7. IsFiniteSet(R \cap H)
  BY <1>2, FS_Intersection
<1>8. Cardinality(Conversations) <= Cardinality(R \cup H)
  BY <1>5, <1>6, FS_Subset
<1>9. /\ Cardinality(R) \in Nat /\ Cardinality(H) \in Nat /\ Cardinality(R \cap H) \in Nat
      /\ Cardinality(Conversations) \in Nat /\ Cardinality(Sids) \in Nat
      /\ Cardinality(Turns) \in Nat /\ Cardinality(R \cup H) \in Nat
  BY <1>1, <1>2, <1>4, <1>6, <1>7, FS_CardinalityType
<1> QED
  BY <1>1, <1>2, <1>3, <1>4, <1>6, <1>8, <1>9

LEMMA AttachFacts ==
    ASSUME NEW t \in Turns, NEW c \in Conversations, NEW m \in Modes, NEW switched \in BOOLEAN,
           IInv, LogInv(log, turn), turn[t].pc = "idle", Attach(t, c, m, switched)
    PROVE  /\ log' = IF switched THEN [log EXCEPT ![c] = <<>>] ELSE log
           /\ mode' = [mode EXCEPT ![c] = m]
           /\ turn'[t].pc = "ready" /\ turn'[t].conv = c /\ turn'[t].mode = m
           /\ turn'[t].tally = 0
           /\ \A u \in Turns : u # t =>
                /\ turn'[u].mode = turn[u].mode /\ turn'[u].tally = turn[u].tally
                /\ turn'[u].pc = turn[u].pc /\ turn'[u].conv = turn[u].conv
                /\ turn[u].shared => turn'[u].shared
                /\ RunsOn(turn, u, c) => turn'[u].shared
                /\ ~RunsOn(turn, u, c) => turn'[u] = turn[u]
           /\ \A d \in Conversations : \A i \in DOMAIN log[d] :
                log[d][i].by \in Turns /\ log[d][i].by # t
<1> DEFINE new == [IdleTurn EXCEPT !.pc = "ready", !.conv = c, !.mode = m, !.shared = LiveOn(c) # {}]
<1>1. /\ log' = IF switched THEN [log EXCEPT ![c] = <<>>] ELSE log
      /\ mode' = [mode EXCEPT ![c] = m]
      /\ turn' = [u \in Turns |-> IF u = t THEN new
                                 ELSE IF u \in LiveOn(c) THEN Overtaken(turn[u], switched)
                                 ELSE turn[u]]
  BY DEF Attach
<1>2. new.pc = "ready" /\ new.conv = c /\ new.mode = m /\ new.tally = 0
  BY DEF IdleTurn
<1>3. \A u \in Turns : u \in LiveOn(c) <=> RunsOn(turn, u, c)
  BY DEF LiveOn, RunsOn, Live
<1>4. turn'[t] = new
  BY <1>1
<1> HIDE DEF new
<1>5. ASSUME NEW u \in Turns, u # t
      PROVE  /\ turn'[u].mode = turn[u].mode /\ turn'[u].tally = turn[u].tally
             /\ turn'[u].pc = turn[u].pc /\ turn'[u].conv = turn[u].conv
             /\ turn[u].shared => turn'[u].shared
             /\ RunsOn(turn, u, c) => turn'[u].shared
             /\ ~RunsOn(turn, u, c) => turn'[u] = turn[u]
  <2>1. CASE u \in LiveOn(c)
    <3>1. turn'[u] = Overtaken(turn[u], switched) /\ turn[u] \in TurnState
      BY <1>1, <1>5, <2>1 DEF IInv
    <3>2. /\ turn'[u].mode = turn[u].mode /\ turn'[u].tally = turn[u].tally
          /\ turn'[u].pc = turn[u].pc /\ turn'[u].conv = turn[u].conv
          /\ turn'[u].shared = TRUE
      BY <3>1 DEF Overtaken, TurnState
    <3> QED
      BY <1>3, <2>1, <3>2
  <2>2. CASE u \notin LiveOn(c)
    <3>1. turn'[u] = turn[u]
      BY <1>1, <1>5, <2>2
    <3> QED
      BY <1>3, <2>2, <3>1
  <2> QED
    BY <2>1, <2>2
<1>6. ASSUME NEW d \in Conversations, NEW i \in DOMAIN log[d]
      PROVE  log[d][i].by \in Turns /\ log[d][i].by # t
  <2>1. log[d] \in Seq(Message)
    BY DEF IInv, LogType
  <2>2. log[d][i] \in Message
    BY <1>6, <2>1
  <2>3. EntryOk(d, log[d][i], turn[log[d][i].by])
    BY <1>6 DEF LogInv, ConvInv
  <2> QED
    BY <2>2, <2>3 DEF Message, EntryOk
<1> QED
  BY <1>1, <1>2, <1>4, <1>5, <1>6

\* What an admitted request joins: a conversation nobody holds, which starts over,
\* or the one of its session, which starts over or has room and fits its mode.
Joins(sid, c, m) ==
    /\ sessions' = [Swept EXCEPT ![sid] = c]
    /\ \/ /\ Swept[sid] = NoConv
          /\ \A u \in Turns : ~RunsOn(turn, u, c)
          /\ \A s \in Sids : Swept[s] # c
       \/ Swept[sid] = c
    /\ \/ log' = [log EXCEPT ![c] = <<>>]
       \/ /\ log' = log /\ mode[c] = m /\ Swept[sid] = c
          /\ Len(log[c]) < MAX_TURNS_PER_SESSION * 2

LEMMA ChatFacts ==
    ASSUME ServerInv, NEW t \in Turns, NEW sid \in Sids, NEW m \in Modes, Chat(t, sid, m)
    PROVE  \E c \in Conversations, sw \in BOOLEAN :
             /\ turn[t].pc = "idle" /\ Attach(t, c, m, sw) /\ Joins(sid, c, m)
             /\ unseen' = [unseen EXCEPT ![c] = 0] /\ asked' = [asked EXCEPT ![t] = sid]
<1> DEFINE isNew == Swept[sid] = NoConv
           c == IF isNew THEN NewConv(Swept) ELSE Swept[sid]
           sw == Switches(c, isNew, m)
<1>1. /\ turn[t].pc = "idle" /\ Attach(t, c, m, sw) /\ sessions' = [Swept EXCEPT ![sid] = c]
      /\ unseen' = [unseen EXCEPT ![c] = 0] /\ asked' = [asked EXCEPT ![t] = sid]
      /\ ~(~sw /\ AtCap(c))
  BY DEF Chat
<1>2. ServerTypes /\ IInv
  BY DEF ServerInv, LogIInv
<1>3. Swept \in [Sids -> Conversations \cup {NoConv}]
  BY <1>2, SweptFacts
<1>4. isNew => /\ c \in Conversations /\ LiveOn(c) = {}
               /\ \A s \in Sids : Swept[s] # c
  <2> SUFFICES ASSUME isNew
               PROVE  c \in Conversations /\ LiveOn(c) = {} /\ \A s \in Sids : Swept[s] # c
    OBVIOUS
  <2>1. c = CHOOSE d \in Conversations : LiveOn(d) = {} /\ \A s \in Sids : Swept[s] # d
    BY DEF NewConv
  <2>2. \E d \in Conversations : LiveOn(d) = {} /\ \A s \in Sids : Swept[s] # d
    BY <1>1, <1>2, <1>3, FreshConversation
  <2> HIDE DEF c
  <2> QED
    BY <2>1, <2>2
<1>5. ~isNew => c = Swept[sid]
  OBVIOUS
<1>6. c \in Conversations
  BY <1>3, <1>4, <1>5
<1>7. sw \in BOOLEAN /\ (~sw => ~isNew /\ mode[c] = m)
  BY DEF Switches
<1>8. log' = IF sw THEN [log EXCEPT ![c] = <<>>] ELSE log
  BY <1>1 DEF Attach
<1>9. log[c] \in Seq(Message)
  BY <1>2, <1>6 DEF IInv, LogType
<1> HIDE DEF c, sw
<1>10. ~sw => Len(log[c]) < MAX_TURNS_PER_SESSION * 2
  BY <1>1, <1>9, ServerAssumption DEF AtCap
<1>11. LiveOn(c) = {} => \A u \in Turns : ~RunsOn(turn, u, c)
  BY DEF LiveOn, RunsOn, Live
<1>12. Joins(sid, c, m)
  <2>1. \/ /\ Swept[sid] = NoConv
           /\ \A u \in Turns : ~RunsOn(turn, u, c)
           /\ \A s \in Sids : Swept[s] # c
        \/ Swept[sid] = c
    BY <1>4, <1>5, <1>11
  <2>2. \/ log' = [log EXCEPT ![c] = <<>>]
        \/ /\ log' = log /\ mode[c] = m /\ Swept[sid] = c
           /\ Len(log[c]) < MAX_TURNS_PER_SESSION * 2
    BY <1>5, <1>7, <1>8, <1>10
  <2> QED
    BY <1>1, <2>1, <2>2 DEF Joins
<1> QED
  BY <1>1, <1>6, <1>7, <1>12

LEMMA ChatOwnSessions ==
    ASSUME ServerInv, NEW t \in Turns, NEW sid \in Sids, NEW m \in Modes,
           NEW c \in Conversations, NEW sw \in BOOLEAN, turn[t].pc = "idle",
           Attach(t, c, m, sw), Joins(sid, c, m), asked' = [asked EXCEPT ![t] = sid]
    PROVE  OwnSessions(sessions', log', turn', asked')
<1>1. IInv /\ LogInv(log, turn) /\ ServerTypes
  BY DEF ServerInv, LogIInv
<1>2. Swept \in [Sids -> Conversations \cup {NoConv}] /\ OwnSessions(Swept, log, turn, asked)
  BY <1>1, SweptFacts, FewerSessions DEF ServerInv
<1>3. /\ turn'[t].conv = c
      /\ \A u \in Turns : u # t => turn'[u].pc = turn[u].pc /\ turn'[u].conv = turn[u].conv
      /\ \A d \in Conversations : \A i \in DOMAIN log[d] :
           log[d][i].by \in Turns /\ log[d][i].by # t
  BY <1>1, AttachFacts
<1>4. /\ asked'[t] = sid /\ \A u \in Turns : u # t => asked'[u] = asked[u]
  BY <1>1 DEF ServerTypes
<1>5. \A u \in Turns : \A d : u # t /\ RunsOn(turn', u, d) => RunsOn(turn, u, d)
  BY <1>3 DEF RunsOn, Live
<1>6. /\ sessions'[sid] = c /\ c # NoConv
      /\ \A s \in Sids : s # sid => sessions'[s] = Swept[s] /\ Swept[s] # c
  <2>1. sessions'[sid] = c /\ \A s \in Sids : s # sid => sessions'[s] = Swept[s]
    BY <1>2 DEF Joins
  <2>2. c # NoConv
    BY AgentAssumption
  <2>3. \A s \in Sids : s # sid => Swept[s] # c
    BY <1>2, <2>2 DEF Joins, OwnSessions
  <2> QED
    BY <2>1, <2>2, <2>3
<1>7. \A d \in Conversations : log'[d] = log[d] \/ (d = c /\ log'[d] = <<>>)
  BY <1>1 DEF Joins, IInv, LogType
<1>8. log'[c] = <<>> \/ (log'[c] = log[c] /\ Swept[sid] = c)
  BY <1>1 DEF Joins, IInv, LogType
<1> SUFFICES ASSUME NEW s \in Sids, sessions'[s] # NoConv
             PROVE  /\ \A r \in Sids \ {s} : sessions'[r] # sessions'[s]
                    /\ \A i \in DOMAIN log'[sessions'[s]] : asked'[log'[sessions'[s]][i].by] = s
                    /\ \A u \in Turns : RunsOn(turn', u, sessions'[s]) => asked'[u] = s
  BY DEF OwnSessions
<1>9. CASE s = sid
  <2>1. \A r \in Sids \ {s} : sessions'[r] # c
    BY <1>6, <1>9
  <2>2. ASSUME NEW i \in DOMAIN log'[c] PROVE asked'[log'[c][i].by] = s
    <3>1. log'[c] = log[c] /\ Swept[sid] = c
      BY <1>8, <2>2
    <3>2. asked[log[c][i].by] = s
      BY <1>2, <1>6, <1>9, <2>2, <3>1 DEF OwnSessions
    <3> QED
      BY <1>3, <1>4, <2>2, <3>1, <3>2
  <2>3. ASSUME NEW u \in Turns, RunsOn(turn', u, c) PROVE asked'[u] = s
    <3>1. CASE u = t
      BY <1>4, <1>9, <3>1
    <3>2. CASE u # t
      <4>1. RunsOn(turn, u, c)
        BY <1>5, <2>3, <3>2
      <4>2. Swept[sid] = c
        BY <4>1 DEF Joins
      <4>3. asked[u] = s
        BY <1>2, <1>6, <1>9, <4>1, <4>2 DEF OwnSessions
      <4> QED
        BY <1>4, <3>2, <4>3
    <3> QED
      BY <3>1, <3>2
  <2> QED
    BY <1>6, <1>9, <2>1, <2>2, <2>3
<1>10. CASE s # sid
  <2> DEFINE d == Swept[s]
  <2>1. sessions'[s] = d /\ d # c /\ d # NoConv /\ d \in Conversations
    BY <1>2, <1>6, <1>10
  <2>2. /\ \A r \in Sids \ {s} : Swept[r] # d
        /\ \A i \in DOMAIN log[d] : asked[log[d][i].by] = s
        /\ \A u \in Turns : RunsOn(turn, u, d) => asked[u] = s
    BY <1>2, <2>1 DEF OwnSessions
  <2> HIDE DEF d
  <2>3. \A r \in Sids \ {s} : sessions'[r] # d
    BY <1>6, <2>1, <2>2
  <2>4. log'[d] = log[d]
    BY <1>7, <2>1
  <2>5. \A i \in DOMAIN log'[d] : asked'[log'[d][i].by] = s
    BY <1>3, <1>4, <2>1, <2>2, <2>4
  <2>6. ASSUME NEW u \in Turns, RunsOn(turn', u, d) PROVE asked'[u] = s
    <3>1. u # t
      BY <1>3, <2>1, <2>6 DEF RunsOn
    <3> QED
      BY <1>4, <1>5, <2>2, <2>6, <3>1
  <2> QED
    BY <2>1, <2>3, <2>5, <2>6
<1> QED
  BY <1>9, <1>10

LEMMA ChatModesFit ==
    ASSUME ServerInv, NEW t \in Turns, NEW sid \in Sids, NEW m \in Modes,
           NEW c \in Conversations, NEW sw \in BOOLEAN, turn[t].pc = "idle",
           Attach(t, c, m, sw), Joins(sid, c, m)
    PROVE  ModesFit(mode', log', turn')
<1>1. IInv /\ LogInv(log, turn) /\ ModesFit(mode, log, turn)
  BY DEF ServerInv, LogIInv
<1>2. /\ mode' = [mode EXCEPT ![c] = m]
      /\ turn'[t].conv = c /\ turn'[t].mode = m
      /\ \A u \in Turns : u # t =>
           /\ turn'[u].mode = turn[u].mode
           /\ turn'[u].pc = turn[u].pc /\ turn'[u].conv = turn[u].conv
           /\ turn[u].shared => turn'[u].shared
           /\ RunsOn(turn, u, c) => turn'[u].shared
      /\ \A d \in Conversations : \A i \in DOMAIN log[d] :
           log[d][i].by \in Turns /\ log[d][i].by # t
  BY <1>1, AttachFacts
<1>3. mode'[c] = m /\ \A d \in Conversations : d # c => mode'[d] = mode[d]
  BY <1>1, <1>2 DEF IInv
<1>4. \A u \in Turns : \A d : u # t /\ RunsOn(turn', u, d) => RunsOn(turn, u, d)
  BY <1>2 DEF RunsOn, Live
<1>5. \A u \in Turns : \A n : u # t /\ OfMode(turn[u], n) => OfMode(turn'[u], n)
  BY <1>2 DEF OfMode
<1>6. ASSUME NEW d \in Conversations, NEW u \in Turns, RunsOn(turn', u, d)
      PROVE  OfMode(turn'[u], mode'[d])
  <2>1. CASE u = t
    BY <1>2, <1>3, <1>6, <2>1 DEF RunsOn, OfMode
  <2>2. CASE u # t /\ d = c
    BY <1>2, <1>4, <1>6, <2>2 DEF OfMode
  <2>3. CASE u # t /\ d # c
    BY <1>1, <1>3, <1>4, <1>5, <1>6, <2>3 DEF ModesFit
  <2> QED
    BY <2>1, <2>2, <2>3
<1>7. ASSUME NEW d \in Conversations, NEW i \in DOMAIN log'[d]
      PROVE  OfMode(turn'[log'[d][i].by], mode'[d])
  <2>1. log'[d] = log[d] /\ mode'[d] = mode[d]
    <3>1. CASE d = c
      <4>1. log'[c] = <<>> \/ (log'[c] = log[c] /\ mode[c] = m)
        BY <1>1 DEF Joins, IInv, LogType
      <4> QED
        BY <1>3, <1>7, <3>1, <4>1
    <3>2. CASE d # c
      BY <1>1, <1>3, <3>2 DEF Joins, IInv, LogType
    <3> QED
      BY <3>1, <3>2
  <2> DEFINE u == log[d][i].by
  <2>2. u \in Turns /\ u # t
    BY <1>2, <1>7, <2>1
  <2>3. OfMode(turn[u], mode[d])
    BY <1>1, <1>7, <2>1 DEF ModesFit
  <2> HIDE DEF u
  <2>4. OfMode(turn'[u], mode[d])
    BY <1>5, <2>2, <2>3
  <2> QED
    BY <2>1, <2>4 DEF u
<1> QED
  BY <1>6, <1>7 DEF ModesFit

LEMMA ChatFits ==
    ASSUME ServerInv, NEW t \in Turns, NEW sid \in Sids, NEW m \in Modes,
           NEW c \in Conversations, NEW sw \in BOOLEAN, turn[t].pc = "idle",
           Attach(t, c, m, sw), Joins(sid, c, m), NEW d \in Conversations
    PROVE  Fits(d, log'[d], turn')
<1> DEFINE W == MAX_TOOL_HOPS * PerHop
<1>1. IInv /\ LogInv(log, turn) /\ Fits(d, log[d], turn)
  BY DEF ServerInv, LogIInv
<1>2. /\ turn'[t].pc = "ready" /\ turn'[t].conv = c
      /\ \A u \in Turns : u # t =>
           /\ turn'[u].pc = turn[u].pc /\ turn'[u].conv = turn[u].conv
           /\ turn[u].shared => turn'[u].shared
           /\ RunsOn(turn, u, c) => turn'[u].shared
           /\ ~RunsOn(turn, u, c) => turn'[u] = turn[u]
      /\ \A e \in Conversations : \A i \in DOMAIN log[e] :
           log[e][i].by \in Turns /\ log[e][i].by # t
  BY <1>1, AttachFacts
<1>3. \A u \in Turns : \A e : u # t /\ RunsOn(turn', u, e) => RunsOn(turn, u, e)
  BY <1>2 DEF RunsOn, Live
<1>4. W \in Nat
  <2>1. 0 \in 0..(MAX_TOOL_HOPS - 1)
    BY AgentAssumption
  <2> QED
    BY <2>1, HopArithmetic
<1>5. Prompts \in Nat /\ Prompts >= 1
  BY ServerAssumption DEF Prompts
<1>6. Steps(turn'[t]) = 0 - 1
  BY <1>2 DEF Steps
<1> HIDE DEF W
<1>7. CASE d = c
  <2>1. Len(log'[c]) \in Nat /\ Len(log'[c]) <= Prompts - 1
    <3>1. log'[c] = <<>> \/ (log'[c] = log[c] /\ Len(log[c]) < MAX_TURNS_PER_SESSION * 2)
      BY <1>1 DEF Joins, IInv, LogType
    <3>2. log[c] \in Seq(Message)
      BY <1>1 DEF IInv, LogType
    <3>3. CASE log'[c] = <<>>
      BY <1>5, <3>3
    <3>4. CASE log'[c] = log[c] /\ Len(log[c]) < MAX_TURNS_PER_SESSION * 2
      <4>1. Len(log[c]) \in Nat
        BY <3>2
      <4> QED
        BY <1>5, <3>4, <4>1 DEF Prompts
    <3> QED
      BY <3>1, <3>3, <3>4
  <2>2. Len(log'[c]) <= Prompts + W
    BY <1>4, <1>5, <2>1
  <2>3. ASSUME NEW u \in Turns, RunsOn(turn', u, c), ~turn'[u].shared
        PROVE  Len(log'[c]) <= Prompts + Steps(turn'[u])
    <3>1. u = t
      BY <1>2, <1>3, <2>3
    <3>2. Len(log'[c]) <= Prompts + (0 - 1)
      BY <1>5, <2>1
    <3> QED
      BY <1>6, <3>1, <3>2
  <2> QED
    BY <1>7, <2>2, <2>3 DEF Fits, W
<1>8. CASE d # c
  <2>1. log'[d] = log[d]
    BY <1>1, <1>8 DEF Joins, IInv, LogType
  <2> SUFFICES ASSUME Unshared(log[d], turn')
               PROVE  /\ Len(log[d]) <= Prompts + W
                      /\ \A u \in Turns : RunsOn(turn', u, d) /\ ~turn'[u].shared
                           => Len(log[d]) <= Prompts + Steps(turn'[u])
    BY <2>1 DEF Fits, W
  <2>2. Unshared(log[d], turn)
    BY <1>2 DEF Unshared
  <2>3. /\ Len(log[d]) <= Prompts + W
        /\ \A u \in Turns : RunsOn(turn, u, d) /\ ~turn[u].shared
             => Len(log[d]) <= Prompts + Steps(turn[u])
    BY <1>1, <2>2 DEF Fits, W
  <2>4. ASSUME NEW u \in Turns, RunsOn(turn', u, d), ~turn'[u].shared
        PROVE  Len(log[d]) <= Prompts + Steps(turn'[u])
    <3>1. u # t
      BY <1>2, <1>8, <2>4 DEF RunsOn
    <3>2. RunsOn(turn, u, d) /\ ~RunsOn(turn, u, c)
      BY <1>3, <1>8, <2>4, <3>1 DEF RunsOn
    <3>3. turn'[u] = turn[u]
      BY <1>2, <3>1, <3>2
    <3> QED
      BY <2>3, <2>4, <3>2, <3>3
  <2> QED
    BY <2>3, <2>4
<1> QED
  BY <1>7, <1>8

LEMMA ChatKeeps ==
    ASSUME ServerInv, ServerTypes', NEW t \in Turns, NEW sid \in Sids, NEW m \in Modes,
           Chat(t, sid, m)
    PROVE  ServerInv'
<1>1. PICK c \in Conversations, sw \in BOOLEAN :
        /\ turn[t].pc = "idle" /\ Attach(t, c, m, sw) /\ Joins(sid, c, m)
        /\ asked' = [asked EXCEPT ![t] = sid]
  BY ChatFacts
<1>2. IInv /\ LogInv(log, turn)
  BY DEF ServerInv, LogIInv
<1>3. IInv'
  BY <1>1, <1>2, SubmitPreserves
<1>4. LogInv(log', turn')
  BY <1>1, <1>2, AttachLog
<1>5. OwnSessions(sessions', log', turn', asked')
  BY <1>1, ChatOwnSessions
<1>6. ModesFit(mode', log', turn')
  BY <1>1, ChatModesFit
<1>7. \A d \in Conversations : Fits(d, log'[d], turn')
  BY <1>1, ChatFits
<1>8. LogIInv'
  BY <1>3, <1>4 DEF LogIInv
<1> QED
  BY <1>5, <1>6, <1>7, <1>8 DEF ServerInv

-----------------------------------------------------------------------------
(* Every step of the server keeps the invariant.                           *)

\* A call that only reads the budget, and one that records.
LEMMA TouchTypes ==
    ASSUME ServerTypes, Budget!Touch, today' = today
    PROVE  today' \in 0..MaxDay /\ date' \in 0..today' /\ used' \in Nat
BY DEF ServerTypes, Budget!Touch, Budget!Current

LEMMA RecordTypes ==
    ASSUME ServerTypes, NEW n \in Nat, Budget!Record(n), today' = today
    PROVE  today' \in 0..MaxDay /\ date' \in 0..today' /\ used' \in Nat
<1>1. CASE n = 0
  BY <1>1 DEF ServerTypes, Budget!Record
<1>2. CASE n # 0
  <2>1. date' = today /\ used' = Budget!Current + n
    BY <1>2 DEF Budget!Record
  <2>2. Budget!Current \in Nat
    BY DEF ServerTypes, Budget!Current
  <2> QED
    BY <2>1, <2>2 DEF ServerTypes
<1> QED
  BY <1>1, <1>2

LEMMA ReadsKeep ==
    ASSUME ServerInv, ReadBudget \/ SweepOnly \/ Tick \/ Midnight
    PROVE  ServerInv'
<1>1. ServerTypes
  BY DEF ServerInv
<1>2. CASE ReadBudget \/ SweepOnly
  <2>1. Budget!Touch /\ today' = today
    BY <1>2 DEF ReadBudget, SweepOnly, Budget!Stats
  <2>2. today' \in 0..MaxDay /\ date' \in 0..today' /\ used' \in Nat
    BY <1>1, <2>1, TouchTypes
  <2>3. /\ UNCHANGED <<agentVars, unseen, asked>>
        /\ sessions' = sessions \/ sessions' = Swept
    BY <1>2 DEF ReadBudget, SweepOnly
  <2>4. /\ sessions' \in [Sids -> Conversations \cup {NoConv}]
        /\ \A s \in Sids : sessions'[s] \in {sessions[s], NoConv}
    BY <1>1, <2>3, SweptFacts DEF ServerTypes
  <2>5. ServerTypes'
    BY <1>1, <2>2, <2>3, <2>4 DEF ServerTypes
  <2> QED
    BY <2>3, <2>4, <2>5, QuietKeeps
<1>3. CASE Tick
  <2>1. UNCHANGED <<agentVars, sessions, asked>> /\ today' = today /\ date' = date /\ used' = used
    BY <1>3 DEF Tick, budgetVars
  <2>2. unseen' \in [Conversations -> 0..(SESSION_TTL + 1)]
    <3>1. \A c \in Conversations : unseen[c] \in 0..(SESSION_TTL + 1)
      BY <1>1 DEF ServerTypes
    <3>2. \A c \in Conversations : unseen[c] <= SESSION_TTL => unseen[c] + 1 \in 0..(SESSION_TTL + 1)
      BY <3>1, ServerAssumption
    <3> QED
      BY <1>3, <3>1, <3>2 DEF Tick
  <2>3. ServerTypes'
    BY <1>1, <2>1, <2>2 DEF ServerTypes
  <2> QED
    BY <2>1, <2>3, QuietKeeps
<1>4. CASE Midnight
  <2>1. /\ UNCHANGED <<agentVars, sessions, unseen, asked>>
        /\ today < MaxDay /\ today' = today + 1 /\ date' = date /\ used' = used
    BY <1>4 DEF Midnight, Budget!Midnight
  <2>2. today' \in 0..MaxDay /\ date' \in 0..today' /\ used' \in Nat
    BY <1>1, <2>1, ServerAssumption DEF ServerTypes
  <2>3. ServerTypes'
    BY <1>1, <2>1, <2>2 DEF ServerTypes
  <2> QED
    BY <2>1, <2>3, QuietKeeps
<1> QED
  BY <1>2, <1>3, <1>4

LEMMA ChatCappedKeeps ==
    ASSUME ServerInv, NEW sid \in Sids, ChatCapped(sid)
    PROVE  ServerInv'
<1>1. ServerTypes
  BY DEF ServerInv
<1>2. /\ UNCHANGED <<agentVars, asked>> /\ sessions' = Swept
      /\ Budget!Touch /\ today' = today
      /\ unseen' = [unseen EXCEPT ![Swept[sid]] = 0]
  BY DEF ChatCapped, Budget!Stats
<1>3. today' \in 0..MaxDay /\ date' \in 0..today' /\ used' \in Nat
  BY <1>1, <1>2, TouchTypes
<1>4. /\ sessions' \in [Sids -> Conversations \cup {NoConv}]
      /\ \A s \in Sids : sessions'[s] \in {sessions[s], NoConv}
  BY <1>1, <1>2, SweptFacts
<1>5. unseen' \in [Conversations -> 0..(SESSION_TTL + 1)]
  <2>1. 0 \in 0..(SESSION_TTL + 1)
    BY ServerAssumption
  <2>2. unseen \in [Conversations -> 0..(SESSION_TTL + 1)]
    BY <1>1 DEF ServerTypes
  <2> QED
    BY <1>2, <2>1, <2>2
<1>6. ServerTypes'
  BY <1>1, <1>2, <1>3, <1>4, <1>5 DEF ServerTypes
<1> QED
  BY <1>2, <1>4, <1>6, QuietKeeps

LEMMA ChatTypes ==
    ASSUME ServerInv, NEW t \in Turns, NEW sid \in Sids, NEW m \in Modes, Chat(t, sid, m)
    PROVE  ServerTypes'
<1>1. ServerTypes
  BY DEF ServerInv
<1>2. PICK c \in Conversations, sw \in BOOLEAN :
        /\ Joins(sid, c, m)
        /\ unseen' = [unseen EXCEPT ![c] = 0] /\ asked' = [asked EXCEPT ![t] = sid]
  BY ChatFacts
<1>3. Budget!Touch /\ today' = today
  BY DEF Chat, Budget!Admit
<1>4. today' \in 0..MaxDay /\ date' \in 0..today' /\ used' \in Nat
  BY <1>1, <1>3, TouchTypes
<1>5. sessions' \in [Sids -> Conversations \cup {NoConv}]
  BY <1>1, <1>2, SweptFacts DEF Joins
<1>6. unseen' \in [Conversations -> 0..(SESSION_TTL + 1)]
  <2>1. 0 \in 0..(SESSION_TTL + 1)
    BY ServerAssumption
  <2>2. unseen \in [Conversations -> 0..(SESSION_TTL + 1)]
    BY <1>1 DEF ServerTypes
  <2> QED
    BY <1>2, <2>1, <2>2
<1>7. asked' \in [Turns -> Sids \cup {NoSid}]
  BY <1>1, <1>2 DEF ServerTypes
<1> QED
  BY <1>4, <1>5, <1>6, <1>7 DEF ServerTypes

LEMMA TurnAlone ==
    ASSUME IInv, LogInv(log, turn), NEW t \in Turns,
           RunTurn(t) \/ EndTurn(t) \/ LoseClient(t)
    PROVE  Alone(t) /\ IInv' /\ LogInv(log', turn')
<1>1. Step(t) \/ Disconnect(t)
  BY DEF RunTurn, EndTurn, LoseClient, Step
<1>2. Next
  BY <1>1 DEF Next
<1>3. IInv' /\ LogInv(log', turn')
  BY <1>2, NextPreserves, LogKeeps
<1>4. Alone(t)
  BY <1>1, StartEffect, EndStreamEffect, UsageSentEffect, ToolsDoneEffect, ResultsSentEffect,
     OverEffect, DisconnectEffect DEF Step
<1> QED
  BY <1>3, <1>4

LEMMA TurnKeeps ==
    ASSUME ServerInv, NEW t \in Turns, RunTurn(t) \/ EndTurn(t) \/ LoseClient(t)
    PROVE  ServerInv'
<1>1. ServerTypes /\ IInv /\ LogInv(log, turn)
  BY DEF ServerInv, LogIInv
<1>2. Alone(t) /\ IInv' /\ LogInv(log', turn')
  BY <1>1, TurnAlone
<1>3. UNCHANGED <<sessions, unseen, asked, today>>
  BY DEF RunTurn, EndTurn, LoseClient, budgetVars
<1>4. date' \in 0..today' /\ used' \in Nat
  <2>1. CASE EndTurn(t)
    <3>1. turn[t].tally \in Nat
      BY <1>1, AgentAssumption DEF IInv, TurnState
    <3>2. Budget!Record(turn[t].tally)
      BY <2>1 DEF EndTurn
    <3> QED
      BY <1>1, <1>3, <3>1, <3>2, RecordTypes
  <2>2. CASE RunTurn(t) \/ LoseClient(t)
    BY <1>1, <1>3, <2>2 DEF RunTurn, LoseClient, budgetVars, ServerTypes
  <2> QED
    BY <2>1, <2>2
<1>5. ServerTypes'
  BY <1>1, <1>3, <1>4 DEF ServerTypes
<1> QED
  BY <1>2, <1>3, <1>5, AloneKeeps

LEMMA ServerStarts == ServerInit => ServerInv
<1> SUFFICES ASSUME ServerInit PROVE ServerInv
  OBVIOUS
<1>1. /\ \A t \in Turns : turn[t].pc = "idle"
      /\ \A c \in Conversations : log[c] = <<>>
      /\ \A s \in Sids : sessions[s] = NoConv
  BY DEF ServerInit, IdleTurn
<1>2. Init
  <2>1. (CHOOSE m \in Modes : TRUE) \in Modes
    BY AgentAssumption
  <2> QED
    BY <2>1 DEF ServerInit, Init
<1>3. LogIInv
  BY <1>2, InitEstablishes, LogStarts DEF LogIInv
<1>4. ServerTypes
  BY ServerAssumption DEF ServerInit, ServerTypes
<1>5. \A t \in Turns : ~Live(turn[t])
  BY <1>1 DEF Live, InFlight, Yields
<1>6. OwnSessions(sessions, log, turn, asked)
  BY <1>1 DEF OwnSessions
<1>7. ModesFit(mode, log, turn)
  BY <1>1, <1>5 DEF ModesFit, RunsOn
<1>8. ASSUME NEW c \in Conversations PROVE Fits(c, log[c], turn)
  <2>1. 0 \in 0..(MAX_TOOL_HOPS - 1)
    BY AgentAssumption
  <2>2. MAX_TOOL_HOPS * PerHop \in Nat /\ Prompts \in Nat
    BY <2>1, HopArithmetic, ServerAssumption DEF Prompts
  <2>3. Len(log[c]) = 0
    BY <1>1
  <2>4. Len(log[c]) <= Prompts + MAX_TOOL_HOPS * PerHop
    BY <2>2, <2>3
  <2> QED
    BY <1>5, <2>4 DEF Fits, RunsOn
<1> QED
  BY <1>3, <1>4, <1>6, <1>7, <1>8 DEF ServerInv

LEMMA ServerKeeps == ServerInv /\ [ServerNext]_serverVars => ServerInv'
<1> SUFFICES ASSUME ServerInv, [ServerNext]_serverVars PROVE ServerInv'
  OBVIOUS
<1>1. ASSUME NEW t \in Turns, NEW sid \in Sids, NEW m \in Modes, Chat(t, sid, m)
      PROVE  ServerInv'
  BY <1>1, ChatTypes, ChatKeeps
<1>2. ASSUME NEW t \in Turns, RunTurn(t) \/ EndTurn(t) \/ LoseClient(t)
      PROVE  ServerInv'
  BY <1>2, TurnKeeps
<1>3. CASE UNCHANGED serverVars
  <2>1. UNCHANGED <<agentVars, asked>> /\ sessions' = sessions /\ unseen' = unseen
        /\ today' = today /\ date' = date /\ used' = used
    BY <1>3 DEF serverVars, budgetVars
  <2>2. ServerTypes'
    BY <2>1 DEF ServerInv, ServerTypes
  <2> QED
    BY <2>1, <2>2, QuietKeeps
<1> QED
  BY <1>1, <1>2, <1>3, ReadsKeep, ChatCappedKeeps DEF ServerNext

LEMMA ServerInvHolds == ServerSpec => []ServerInv
BY ServerStarts, ServerKeeps, PTL DEF ServerSpec

-----------------------------------------------------------------------------
\* The state of the server stays well typed, its calendar and its meter included.
THEOREM ServerTypeCorrect == ServerSpec => []ServerTypeOK
<1>1. ServerInv => ServerTypeOK
  BY DEF ServerInv, LogIInv, IInv, ServerTypes, ServerTypeOK, TypeOK, LogType
<1> QED
  BY <1>1, ServerInvHolds, PTL

\* Behind the server too, every turn that is over was charged what was reported.
THEOREM ServerBills == ServerSpec => []BilledAsReported
<1>1. ServerInv => BilledAsReported
  BY DEF ServerInv, LogIInv, IInv, Metered, MeterInv, BilledAsReported, Family
<1> QED
  BY <1>1, ServerInvHolds, PTL

\* What a request of one session id writes never shows up under another, even when
\* its session expired under it and the dict is taken for a new one.
THEOREM Isolated == ServerSpec => []SessionsIsolated
<1>1. ServerInv => SessionsIsolated
  BY DEF ServerInv, OwnSessions, SessionsIsolated
<1> QED
  BY <1>1, ServerInvHolds, PTL

\* A conversation runs past the message cap by one turn's hops at most, unless two
\* requests held it at once.
THEOREM CapHolds == ServerSpec => []CapOvershootBounded
<1>1. ServerInv => CapOvershootBounded
  BY DEF ServerInv, Fits, Unshared, CapOvershootBounded, Prompts, PerHop
<1> QED
  BY <1>1, ServerInvHolds, PTL

\* A switch of profile or provider leaves nothing behind, unless it overtook a turn.
THEOREM SwitchIsClean == ServerSpec => []SwitchStartsClean
<1>1. ServerInv => SwitchStartsClean
  BY DEF ServerInv, ModesFit, OfMode, SwitchStartsClean
<1> QED
  BY <1>1, ServerInvHolds, PTL

\* Expiry, new dicts for old ids and switches break no promise of the agent loop: one
\* reply per hop, results behind their calls, no call left without a cause, and a
\* terminal event that agrees with the list.
THEOREM ServerKeepsLogs ==
    ServerSpec => [](/\ OneReplyPerHop /\ OrphansOnlyWhenShared
                     /\ CallsAnsweredOrExplained /\ LastWordMatchesLog)
<1>1. LogIInv => OneReplyPerHop
  BY DEF LogIInv, LogInv, ConvInv, EntryOk, SameReply, OneReplyPerHop
<1>2. LogIInv => OrphansOnlyWhenShared
  BY DEF LogIInv, LogInv, ConvInv, OrphansOnlyWhenShared
<1>3. LogIInv => CallsAnsweredOrExplained
  BY DEF LogIInv, LogInv, ConvInv, Explained, CallsAnsweredOrExplained, Family
<1>4. LogIInv => LastWordMatchesLog
  BY DEF LogIInv, LogInv, LastOk, Hopeless, LastWordMatchesLog, Live, InFlight, Yields, Family
<1>5. ServerInv => LogIInv
  BY DEF ServerInv
<1> QED
  BY <1>1, <1>2, <1>3, <1>4, <1>5, ServerInvHolds, PTL

-----------------------------------------------------------------------------
(* The server implements the token budget.                                 *)

Running(tn) == {t \in Turns : tn[t].pc \in InFlight}
Tallies(tn) == [t \in Turns |-> tn[t].tally]

\* What the budget sees of a step of turn t.
LEMMA SeenByBudget ==
    ASSUME NEW t \in Turns, Alone(t)
    PROVE  /\ t \in Running(turn)
           /\ Live(turn'[t]) => Running(turn') = Running(turn)
           /\ ~Live(turn'[t]) => Running(turn') = Running(turn) \ {t}
           /\ Tallies(turn') = [Tallies(turn) EXCEPT ![t] = turn'[t].tally]
<1>1. Live(turn[t]) /\ \A u \in Turns : u # t => turn'[u] = turn[u]
  BY DEF Alone
<1>2. \A u \in Turns : u # t => (turn'[u].pc \in InFlight <=> turn[u].pc \in InFlight)
  BY <1>1
<1>3. Tallies(turn') = [Tallies(turn) EXCEPT ![t] = turn'[t].tally]
  BY <1>1 DEF Tallies
<1> QED
  BY <1>1, <1>2, <1>3 DEF Running, Live

LEMMA StepOfBudget ==
    ASSUME ServerInv, [ServerNext]_serverVars
    PROVE  [Budget!Next]_(Budget!budgetVars)
<1> USE DEF Budget!budgetVars
<1>1. IInv /\ LogInv(log, turn) /\ ServerTypes
  BY DEF ServerInv, LogIInv
<1>2. CASE ReadBudget \/ SweepOnly \/ \E sid \in Sids : ChatCapped(sid)
  BY <1>2 DEF ReadBudget, SweepOnly, ChatCapped, Budget!Next
<1>3. ASSUME NEW t \in Turns, NEW sid \in Sids, NEW m \in Modes, Chat(t, sid, m)
      PROVE  Budget!Next
  BY <1>3 DEF Chat, Budget!Next
<1>4. ASSUME NEW t \in Turns, RunTurn(t)
      PROVE  [Budget!Next]_(Budget!budgetVars)
  <2>1. Alone(t) /\ IInv'
    BY <1>1, <1>4, TurnAlone
  <2>2. Live(turn'[t]) /\ turn'[t].tally - turn[t].tally \in 0..1
    <3>1. turn[t].tally \in Int
      BY <1>1, AgentAssumption DEF IInv, TurnState
    <3>2. CASE EndStream(t)
      BY <1>1, <3>2, EndStreamEffect
    <3>3. CASE Start(t) \/ UsageSent(t) \/ ToolsDone(t) \/ ResultsSent(t)
      BY <1>1, <3>1, <3>3, StartEffect, UsageSentEffect, ToolsDoneEffect, ResultsSentEffect
    <3> QED
      BY <1>4, <3>2, <3>3 DEF RunTurn
  <2>3. /\ t \in Running(turn) /\ Running(turn') = Running(turn)
        /\ Tallies(turn') = [Tallies(turn) EXCEPT ![t] = turn'[t].tally]
    BY <2>1, <2>2, SeenByBudget
  <2>4. today' = today /\ date' = date /\ used' = used
    BY <1>4 DEF RunTurn, budgetVars
  <2>5. turn[t].tally \in Nat /\ turn'[t].tally \in 0..MAX_TOOL_HOPS
    BY <1>1, <2>1, AgentAssumption DEF IInv, TurnState
  <2>6. Tallies(turn)[t] = turn[t].tally
    BY DEF Tallies
  <2>7. CASE turn'[t].tally = turn[t].tally
    <3>1. Tallies(turn') = Tallies(turn)
      BY <2>3, <2>6, <2>7 DEF Tallies
    <3> QED
      BY <2>3, <2>4, <3>1 DEF Running, Tallies
  <2>8. CASE turn'[t].tally = turn[t].tally + 1
    <3>1. Budget!Report(t, 1)
      BY <2>3, <2>4, <2>5, <2>6, <2>8, AgentAssumption DEF Budget!Report, Running, Tallies
    <3>2. 1 \in 1..MAX_TOOL_HOPS
      BY AgentAssumption
    <3> QED
      BY <3>1, <3>2 DEF Budget!Next
  <2> QED
    BY <2>2, <2>5, <2>7, <2>8
<1>5. ASSUME NEW t \in Turns, EndTurn(t)
      PROVE  Budget!Settle(t)
  <2>1. Alone(t) /\ ~Live(turn'[t]) /\ turn'[t].tally = 0
    BY <1>1, <1>5, OverEffect DEF EndTurn
  <2>2. /\ t \in Running(turn) /\ Running(turn') = Running(turn) \ {t}
        /\ Tallies(turn') = [Tallies(turn) EXCEPT ![t] = 0]
    BY <2>1, SeenByBudget
  <2>3. Budget!Record(turn[t].tally) /\ today' = today
    BY <1>5 DEF EndTurn
  <2> QED
    BY <2>2, <2>3 DEF Budget!Settle, Running, Tallies
<1>6. ASSUME NEW t \in Turns, LoseClient(t)
      PROVE  [Budget!Next]_(Budget!budgetVars)
  <2>1. Alone(t) /\ turn'[t].tally = turn[t].tally
    BY <1>1, <1>6, DisconnectEffect DEF LoseClient
  <2>2. today' = today /\ date' = date /\ used' = used
    BY <1>6 DEF LoseClient, budgetVars
  <2>3. Tallies(turn)[t] = turn[t].tally
    BY DEF Tallies
  <2>4. CASE Live(turn'[t])
    <3>1. Running(turn') = Running(turn) /\ Tallies(turn') = Tallies(turn)
      BY <2>1, <2>3, <2>4, SeenByBudget DEF Tallies
    <3> QED
      BY <2>2, <3>1 DEF Running, Tallies
  <2>5. CASE ~Live(turn'[t])
    <3>1. turn'[t].tally = 0
      BY <2>1, <2>5 DEF Alone, Effect
    <3>2. /\ t \in Running(turn) /\ Running(turn') = Running(turn) \ {t}
          /\ Tallies(turn') = [Tallies(turn) EXCEPT ![t] = 0]
      BY <2>1, <2>5, <3>1, SeenByBudget
    <3>3. Budget!Record(turn[t].tally)
      BY <2>1, <2>2, <3>1 DEF Budget!Record
    <3>4. Budget!Settle(t)
      BY <2>2, <3>2, <3>3 DEF Budget!Settle, Running, Tallies
    <3> QED
      BY <3>4 DEF Budget!Next
  <2> QED
    BY <2>4, <2>5
<1>7. CASE Tick \/ UNCHANGED serverVars
  BY <1>7 DEF Tick, serverVars, agentVars, budgetVars
<1>8. CASE Midnight
  BY <1>8 DEF Midnight, Budget!Next
<1> QED
  BY <1>2, <1>3, <1>4, <1>5, <1>6, <1>7, <1>8 DEF ServerNext, Budget!Next

\* Seen from the budget, the server admits, reports and settles every turn once, in
\* that order, whatever becomes of the session, the client and the day.
THEOREM ServerRefinesBudget == ServerSpec => ImplementsBudget
<1>1. ServerInit => Budget!Init
  BY DEF ServerInit, Budget!Init, IdleTurn, InFlight, Yields
<1>2. ServerInv /\ [ServerNext]_serverVars => [Budget!Next]_(Budget!budgetVars)
  BY StepOfBudget
<1> QED
  BY <1>1, <1>2, ServerInvHolds, PTL DEF ServerSpec, ImplementsBudget, Budget!Spec

-----------------------------------------------------------------------------

\* What TokenBudget proves of its callers holds of the server's turns.
LEMMA BudgetTypes == ServerInv => Budget!TypeOK
<1> SUFFICES ASSUME ServerInv PROVE Budget!TypeOK
  OBVIOUS
<1>1. today \in 0..MaxDay /\ date \in 0..today /\ used \in Nat
  BY DEF ServerInv, ServerTypes
<1>2. ASSUME NEW t \in Turns
      PROVE  turn[t].tally \in 0..MAX_TOOL_HOPS
  BY DEF ServerInv, LogIInv, IInv, TurnState
<1> QED
  BY <1>1, <1>2 DEF Budget!TypeOK

LEMMA BudgetAsDays ==
  ASSUME Budget!TypeOK, [Budget!Next]_(Budget!budgetVars)
  PROVE  [Budget!Meter!Next]_(Budget!Meter!meterVars)
<1> USE DEF Budget!Current, Budget!Meter!meterVars
<1>1. ASSUME NEW t \in Turns, Budget!Admit(t)
      PROVE  Budget!Meter!Admit(t)
  BY <1>1 DEF Budget!Admit, Budget!Touch, Budget!HasCapacity, Budget!Meter!Admit
<1>2. ASSUME NEW t \in Turns, Budget!Settle(t)
      PROVE  Budget!Meter!Charge(t)
  <2> DEFINE n == Tallies(turn)[t]
  <2>1. n \in Nat /\ Budget!Current \in Nat
    BY ServerAssumption, AgentAssumption DEF Budget!TypeOK, Tallies
  <2>2. Budget!Record(n) /\ today' = today
    BY <1>2 DEF Budget!Settle, Tallies
  <2> HIDE DEF n
  <2>3. Budget!Current' = Budget!Current + n
    <3>1. CASE n = 0
      BY <2>1, <2>2, <3>1 DEF Budget!Record
    <3>2. CASE n # 0
      BY <2>2, <3>2 DEF Budget!Record
    <3> QED
      BY <3>1, <3>2
  <2> QED
    BY <1>2, <2>2, <2>3 DEF Budget!Settle, Budget!Meter!Charge, n, Tallies
<1>3. CASE Budget!Stats
  BY <1>3 DEF Budget!Stats, Budget!Touch
<1>4. CASE Budget!Reset
  BY <1>4 DEF Budget!Reset, Budget!Meter!Next, Budget!Meter!Clear
<1>5. CASE Budget!Midnight
  BY <1>5, ServerAssumption DEF Budget!Midnight, Budget!TypeOK, Budget!Meter!Next, Budget!Meter!NewDay
<1>6. ASSUME NEW t \in Turns, NEW n \in 1..MAX_TOOL_HOPS, Budget!Report(t, n)
      PROVE  Budget!Meter!Report(t, n)
  BY <1>6 DEF Budget!Report, Budget!Meter!Report
<1>7. CASE UNCHANGED Budget!budgetVars
  BY <1>7 DEF Budget!budgetVars
<1> QED
  BY <1>1, <1>2, <1>3, <1>4, <1>5, <1>6, <1>7 DEF Budget!Next, Budget!Meter!Next

\* End to end: the server charges every turn, once, to the day on which it ends, and
\* a day starts at zero, although nothing happens at midnight (app.py, budget.py).
THEOREM ServerMetersDays == ServerSpec => Budget!ImplementsMeter
<1>1. ServerInit => Budget!Meter!Init
  BY DEF ServerInit, Budget!Meter!Init, Budget!Current, IdleTurn, InFlight, Yields
<1>2. ServerInv /\ [ServerNext]_serverVars => [Budget!Meter!Next]_(Budget!Meter!meterVars)
  BY BudgetTypes, StepOfBudget, BudgetAsDays
<1> QED
  BY <1>1, <1>2, ServerInvHolds, PTL
     DEF ServerSpec, Budget!ImplementsMeter, Budget!Meter!Spec
=============================================================================
