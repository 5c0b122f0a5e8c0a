-------------------------- MODULE TokenBudget_proofs --------------------------
(***************************************************************************)
(* Proofs about the daily token budget, for any number of concurrent       *)
(* turns, any limit and any number of days.                                *)
(***************************************************************************)
EXTENDS TokenBudget, FiniteSetTheorems, TLAPS

\* The state of the budget stays well typed: used is a natural number, so nothing
\* is ever credited, and the stored date never runs ahead of the calendar.
THEOREM TypeCorrect == Spec => []TypeOK
<1> USE BudgetAssumption
<1>1. Init => TypeOK
  BY DEF Init, TypeOK
<1>2. TypeOK /\ [Next]_budgetVars => TypeOK'
  <2> SUFFICES ASSUME TypeOK, [Next]_budgetVars PROVE TypeOK'
    OBVIOUS
  <2> USE DEF TypeOK, Current, Touch, Record
  <2>1. CASE \E c \in Callers : Admit(c)
    BY <2>1 DEF Admit, HasCapacity
  <2>2. ASSUME NEW c \in Callers, Settle(c) PROVE TypeOK'
    <3>1. tally[c] \in 0..MaxTurnTokens /\ tally[c] \in Nat
      BY <2>2
    <3>2. 0 \in 0..MaxTurnTokens
      OBVIOUS
    <3>3. CASE tally[c] = 0
      BY <2>2, <3>2, <3>3 DEF Settle
    <3>4. CASE tally[c] # 0
      BY <2>2, <3>1, <3>2, <3>4 DEF Settle
    <3> QED
      BY <3>3, <3>4
  <2>3. CASE Stats
    BY <2>3 DEF Stats
  <2>4. CASE Reset
    BY <2>4 DEF Reset
  <2>5. CASE Midnight
    BY <2>5 DEF Midnight
  <2>6. ASSUME NEW c \in Callers, NEW n \in 1..MaxTurnTokens, Report(c, n) PROVE TypeOK'
    <3>1. tally[c] + n \in 0..MaxTurnTokens
      BY <2>6 DEF Report
    <3> QED
      BY <2>6, <3>1 DEF Report
  <2>7. CASE UNCHANGED budgetVars
    BY <2>7 DEF budgetVars
  <2> QED
    BY <2>1, <2>2, <2>3, <2>4, <2>5, <2>6, <2>7 DEF Next
<1> QED
  BY <1>1, <1>2, PTL DEF Spec

\* The set of running turns is finite, and one turn more or less changes its size
\* by one.
LEMMA RunningSize ==
    ASSUME TypeOK
    PROVE  /\ IsFiniteSet(running)
           /\ Cardinality(running) \in Nat
           /\ Cardinality(running) <= Cardinality(Callers)
           /\ Cardinality(Callers) \in Nat
           /\ \A c \in running : Cardinality(running \ {c}) = Cardinality(running) - 1
           /\ \A c \in Callers : Cardinality(running \cup {c}) <= Cardinality(Callers)
<1>1. IsFiniteSet(running) /\ Cardinality(running) <= Cardinality(Callers)
  BY BudgetAssumption, FS_Subset DEF TypeOK
<1>2. Cardinality(running) \in Nat /\ Cardinality(Callers) \in Nat
  BY <1>1, BudgetAssumption, FS_CardinalityType
<1>3. \A c \in running : Cardinality(running \ {c}) = Cardinality(running) - 1
  BY <1>1, FS_RemoveElement
<1>4. \A c \in Callers : Cardinality(running \cup {c}) <= Cardinality(Callers)
  <2> TAKE c \in Callers
  <2>1. running \cup {c} \subseteq Callers
    BY DEF TypeOK
  <2> QED
    BY <2>1, BudgetAssumption, FS_Subset
<1> QED
  BY <1>1, <1>2, <1>3, <1>4

\* Arithmetic of one step: n tokens recorded by a turn that could record up to m,
\* with k turns running before it left.
LEMMA SettleArithmetic ==
    ASSUME NEW u \in Nat, NEW m \in Nat, NEW n \in 0..m, NEW k \in Nat, k # 0,
           NEW b \in Int, u + m * k <= b
    PROVE  u + n + m * (k - 1) <= b
<1>1. m * (k - 1) = m * k - m
  OBVIOUS
<1>2. m * k \in Nat /\ n <= m
  OBVIOUS
<1> QED
  BY <1>1, <1>2

\* Fewer running turns reserve less.
LEMMA LessReserved ==
    ASSUME NEW m \in Nat, NEW j \in Nat, NEW k \in Nat, j <= k
    PROVE  m * j \in Nat /\ m * k \in Nat /\ m * j <= m * k
<1>1. PICK d \in Nat : k = j + d
  BY k - j \in Nat, k = j + (k - j)
<1>2. m * k = m * j + m * d
  BY <1>1
<1>3. m * d \in Nat /\ m * j \in Nat
  OBVIOUS
<1> QED
  BY <1>2, <1>3

\* However turns are admitted, overtake each other and straddle midnight, a day
\* is overshot by no more than the turns under way can spend between them.
THEOREM Overshoot == Spec => []OvershootBounded
<1> DEFINE Bound == DAILY_LIMIT - 1 + MaxTurnTokens * Cardinality(Callers)
<1> USE BudgetAssumption
<1>1. Init => OvershootBounded
  <2> SUFFICES ASSUME Init PROVE OvershootBounded
    OBVIOUS
  <2>1. Cardinality(running) = 0
    BY FS_EmptySet DEF Init
  <2>2. Cardinality(Callers) \in Nat
    BY FS_CardinalityType
  <2>3. MaxTurnTokens * Cardinality(Callers) \in Nat
    BY <2>2
  <2> QED
    BY <2>1, <2>3 DEF Init, OvershootBounded
<1>2. TypeOK /\ OvershootBounded /\ [Next]_budgetVars => OvershootBounded'
  <2> SUFFICES ASSUME TypeOK, OvershootBounded, [Next]_budgetVars
               PROVE  OvershootBounded'
    OBVIOUS
  <2> DEFINE k == Cardinality(running)
             K == Cardinality(Callers)
  <2>1. k \in Nat /\ K \in Nat /\ k <= K
    BY RunningSize
  <2>2. /\ MaxTurnTokens * k \in Nat
        /\ MaxTurnTokens * K \in Nat
        /\ MaxTurnTokens * k <= MaxTurnTokens * K
    BY <2>1, LessReserved
  <2>3. used \in Nat /\ used + MaxTurnTokens * k <= Bound
    BY DEF TypeOK, OvershootBounded
  <2>4. Current \in Nat /\ Current + MaxTurnTokens * k <= Bound
    BY <2>2, <2>3 DEF Current
  <2>5. ASSUME NEW c \in Callers, Admit(c) PROVE OvershootBounded'
    <3>1. used' = Current /\ Current <= DAILY_LIMIT - 1
      BY <2>5, <2>4 DEF Admit, Touch, HasCapacity
    <3>2. Cardinality(running') \in Nat /\ Cardinality(running') <= K
      <4>1. running' \subseteq Callers
        BY <2>5 DEF Admit, TypeOK
      <4> QED
        BY <4>1, FS_Subset, FS_CardinalityType
    <3>3. /\ MaxTurnTokens * Cardinality(running') \in Nat
          /\ MaxTurnTokens * Cardinality(running') <= MaxTurnTokens * K
      BY <2>1, <3>2, LessReserved
    <3> QED
      BY <2>2, <2>4, <3>1, <3>3 DEF OvershootBounded
  <2>6. ASSUME NEW c \in Callers, Settle(c) PROVE OvershootBounded'
    <3> DEFINE n == tally[c]
    <3>0. n \in 0..MaxTurnTokens
      BY DEF TypeOK
    <3>1. Cardinality(running') = k - 1 /\ k # 0
      <4>1. c \in running /\ running' = running \ {c}
        BY <2>6 DEF Settle
      <4>2. Cardinality(running \ {c}) = k - 1
        BY <4>1, RunningSize
      <4>3. Cardinality(running \ {c}) \in Nat
        BY RunningSize, FS_Subset, FS_CardinalityType
      <4> QED
        BY <4>1, <4>2, <4>3, <2>1
    <3>2. used' = Current + n \/ (used' = used /\ n = 0)
      BY <2>6 DEF Settle, Record
    <3> HIDE DEF n
    <3>3. Current + n + MaxTurnTokens * (k - 1) <= Bound
      BY <2>1, <2>2, <2>4, <3>0, <3>1, SettleArithmetic
    <3>4. used + n + MaxTurnTokens * (k - 1) <= Bound
      BY <2>1, <2>2, <2>3, <3>0, <3>1, SettleArithmetic
    <3>5. used + n = used \/ n # 0
      BY <2>3, <3>0
    <3> QED
      BY <3>1, <3>2, <3>3, <3>4, <3>5 DEF OvershootBounded
  <2>7. CASE Stats
    BY <2>4, <2>7 DEF Stats, Touch, OvershootBounded
  <2>8. CASE Reset
    BY <2>2, <2>3, <2>8 DEF Reset, OvershootBounded
  <2>9. CASE Midnight \/ UNCHANGED budgetVars \/ \E c \in Callers, n \in 1..MaxTurnTokens : Report(c, n)
    BY <2>3, <2>9 DEF Midnight, Report, budgetVars, OvershootBounded
  <2> QED
    BY <2>5, <2>6, <2>7, <2>8, <2>9 DEF Next
<1> QED
  BY <1>1, <1>2, TypeCorrect, PTL DEF Spec

\* The counter that is reset late behaves as one that is reset at midnight: every
\* step of the code is a step of DailyMeter, or changes nothing a caller can see.
THEOREM Refinement == Spec => ImplementsMeter
<1> USE BudgetAssumption
<1>1. Init => Meter!Init
  BY DEF Init, Meter!Init, Current
<1>2. TypeOK /\ [Next]_budgetVars => [Meter!Next]_(Meter!meterVars)
  <2> SUFFICES ASSUME TypeOK, [Next]_budgetVars
               PROVE  [Meter!Next]_(Meter!meterVars)
    OBVIOUS
  <2> USE DEF Current, Meter!meterVars
  <2>1. ASSUME NEW c \in Callers, Admit(c) PROVE Meter!Admit(c)
    BY <2>1 DEF Admit, Touch, HasCapacity, Meter!Admit
  <2>2. ASSUME NEW c \in Callers, Settle(c) PROVE Meter!Charge(c)
    <3>1. Current \in Nat /\ tally[c] \in Nat
      BY DEF TypeOK
    <3>2. today' = today /\ Current' = Current + tally[c]
      <4>1. CASE tally[c] = 0
        BY <2>2, <3>1, <4>1 DEF Settle, Record
      <4>2. CASE tally[c] # 0
        BY <2>2, <4>2 DEF Settle, Record
      <4> QED
        BY <4>1, <4>2
    <3> QED
      BY <2>2, <3>2 DEF Settle, Meter!Charge
  <2>3. CASE Stats
    BY <2>3 DEF Stats, Touch
  <2>4. CASE Reset
    BY <2>4 DEF Reset, Meter!Next, Meter!Clear
  <2>5. CASE Midnight
    BY <2>5 DEF Midnight, TypeOK, Meter!Next, Meter!NewDay
  <2>6. ASSUME NEW c \in Callers, NEW n \in 1..MaxTurnTokens, Report(c, n)
        PROVE  Meter!Report(c, n)
    BY <2>6 DEF Report, Meter!Report
  <2>7. CASE UNCHANGED budgetVars
    BY <2>7 DEF budgetVars
  <2> QED
    BY <2>1, <2>2, <2>3, <2>4, <2>5, <2>6, <2>7 DEF Next, Meter!Next
<1> QED
  BY <1>1, <1>2, TypeCorrect, PTL DEF Spec, ImplementsMeter, Meter!Spec
=============================================================================
