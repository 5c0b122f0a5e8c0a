------------------------ MODULE SemanticSearch_proofs ------------------------
(***************************************************************************)
(* Proofs about the tool calls of turns on the executor's threads, for any *)
(* turns, calls, threads and slots: a turn never occupies more threads     *)
(* than its semaphore has slots, and what RetrieverCache_proofs says of    *)
(* searches holds of those that turns make, and abandon.                   *)
(***************************************************************************)
EXTENDS SemanticSearch, RetrieverCache_proofs

-----------------------------------------------------------------------------
(***************************************************************************)
(* The fan-out.  A slot is held by a call that is queued or running; the   *)
(* semaphore of a cancelled turn is gone, but the threads are not, so the  *)
(* bound on threads needs the orphans counted along with the holders: a    *)
(* turn has orphans only when it hands out no slots any more.              *)
(***************************************************************************)
Busy(t) == {c \in Range(CallsOf[t]) : call[c] \in {"queued", "running", "orphan"}}

QueueInv ==
    /\ \A i, j \in 1 .. Len(queue) : i # j => queue[i] # queue[j]
    /\ \A i \in 1 .. Len(queue) : call[queue[i]] \in {"queued", "dropped"}

WorkerInv ==
    /\ \A w \in Threads : worker[w] # Nobody => call[worker[w]] \in {"running", "orphan"}
    /\ \A v, w \in Threads : v # w /\ worker[v] # Nobody => worker[v] # worker[w]

TurnInv ==
    \A t \in Turns : \A c \in Range(CallsOf[t]) :
        IF turn[t] = "open" THEN call[c] \notin {"orphan", "dropped"}
                            ELSE call[c] \in {"answered", "orphan", "dropped"}

SlotInv == \A t \in Turns : Cardinality(Busy(t)) <= Slots

FanoutInv == FanoutTypeOK /\ QueueInv /\ WorkerInv /\ TurnInv /\ SlotInv

LEMMA CallsAre ==
    ASSUME NEW t \in Turns
    PROVE  /\ Range(CallsOf[t]) \subseteq Calls
           /\ IsFiniteSet(Range(CallsOf[t]))
<1>1. CallsOf[t] \in Seq(Calls)
  BY FanoutAssumption
<1> DEFINE s == CallsOf[t]
           n == Len(s)
<1>2. n \in Nat /\ DOMAIN s = 1 .. n /\ \A i \in 1 .. n : s[i] \in Calls
  BY <1>1
<1> HIDE DEF s
<1>3. IsFiniteSet(1 .. n)
  BY <1>2, FS_Interval
<1>4. Range(s) \subseteq Calls
  BY <1>2 DEF Range
<1> DEFINE f == [i \in 1 .. n |-> s[i]]
<1>5. f \in Surjection(1 .. n, Range(s))
  <2>1. f \in [1 .. n -> Range(s)]
    BY <1>2 DEF Range
  <2>2. \A c \in Range(s) : \E i \in 1 .. n : f[i] = c
    BY <1>2 DEF Range
  <2> QED
    BY <2>1, <2>2 DEF Surjection
<1> HIDE DEF f, n
<1>6. IsFiniteSet(Range(s))
  BY <1>3, <1>5, FS_Surjection
<1> QED
  BY <1>4, <1>6 DEF s

LEMMA TurnOfIs ==
    ASSUME NEW c \in Calls
    PROVE  /\ TurnOf(c) \in Turns /\ c \in Range(CallsOf[TurnOf(c)])
           /\ \A t \in Turns : c \in Range(CallsOf[t]) => t = TurnOf(c)
<1>1. \E t \in Turns : c \in Range(CallsOf[t])
  BY FanoutAssumption
<1>2. TurnOf(c) \in Turns /\ c \in Range(CallsOf[TurnOf(c)])
  BY <1>1 DEF TurnOf
<1>3. ASSUME NEW t \in Turns, c \in Range(CallsOf[t])
      PROVE  t = TurnOf(c)
  BY <1>2, <1>3, FanoutAssumption
<1> QED
  BY <1>2, <1>3

LEMMA BusyIsFinite ==
    ASSUME NEW t \in Turns
    PROVE  /\ IsFiniteSet(Busy(t)) /\ Cardinality(Busy(t)) \in Nat
           /\ IsFiniteSet(Busy(t)') /\ Cardinality(Busy(t)') \in Nat
<1>1. Busy(t) \subseteq Range(CallsOf[t]) /\ Busy(t)' \subseteq Range(CallsOf[t])
  BY DEF Busy
<1> QED
  BY <1>1, CallsAre, FS_Subset, FS_CardinalityType

LEMMA FewerAreBusy ==
    ASSUME SlotInv, NEW t \in Turns, Busy(t)' \subseteq Busy(t)
    PROVE  Cardinality(Busy(t)') <= Slots
<1>1. Cardinality(Busy(t)') <= Cardinality(Busy(t))
  BY BusyIsFinite, FS_Subset
<1> QED
  BY <1>1, BusyIsFinite, FanoutAssumption DEF SlotInv

LEMMA FanoutBegins == FanoutInit => FanoutInv
<1> SUFFICES ASSUME FanoutInit PROVE FanoutInv
  OBVIOUS
<1>1. /\ turn = [t \in Turns |-> "open"] /\ call = [c \in Calls |-> "waiting"]
      /\ queue = <<>> /\ worker = [w \in Threads |-> Nobody]
  BY DEF FanoutInit
<1>2. FanoutTypeOK
  BY <1>1 DEF FanoutTypeOK
<1>3. QueueInv /\ WorkerInv
  BY <1>1 DEF QueueInv, WorkerInv
<1>4. TurnInv
  BY <1>1, CallsAre DEF TurnInv
<1>5. SlotInv
  <2> SUFFICES ASSUME NEW t \in Turns PROVE Cardinality(Busy(t)) <= Slots
    BY DEF SlotInv
  <2>1. Busy(t) = {}
    BY <1>1, CallsAre DEF Busy
  <2> QED
    BY <2>1, FS_EmptySet, FanoutAssumption
<1> QED
  BY <1>2, <1>3, <1>4, <1>5 DEF FanoutInv

\* The semaphore counts what the turn has in the queue and on threads: an open turn
\* has no orphans.
LEMMA AcquireKeeps ==
    ASSUME FanoutInv, NEW c \in Calls, Acquire(c)
    PROVE  FanoutInv'
<1>1. FanoutTypeOK /\ QueueInv /\ WorkerInv /\ TurnInv /\ SlotInv
  BY DEF FanoutInv
<1>2. /\ call[c] = "waiting" /\ Cardinality(Held(TurnOf(c))) < Slots
      /\ call' = [call EXCEPT ![c] = "queued"] /\ queue' = Append(queue, c)
      /\ turn' = turn /\ worker' = worker
  BY DEF Acquire
<1>3. \A d \in Calls : call'[d] = IF d = c THEN "queued" ELSE call[d]
  BY <1>1, <1>2 DEF FanoutTypeOK
<1>4. FanoutTypeOK'
  BY <1>1, <1>2 DEF FanoutTypeOK
<1> DEFINE n == Len(queue)
<1>5. /\ queue \in Seq(Calls) /\ n \in Nat /\ \A i \in 1 .. n : queue[i] \in Calls
      /\ Len(queue') = n + 1 /\ queue'[n + 1] = c /\ \A i \in 1 .. n : queue'[i] = queue[i]
  BY <1>1, <1>2 DEF FanoutTypeOK
<1> HIDE DEF n
<1>6. \A i \in 1 .. n : queue[i] # c
  BY <1>1, <1>2 DEF QueueInv, n
<1>7. \A i \in 1 .. n + 1 : i \in 1 .. n \/ i = n + 1
  BY <1>5
<1>8. QueueInv'
  <2>1. \A i, j \in 1 .. n : i # j => queue[i] # queue[j]
    BY <1>1 DEF QueueInv, n
  <2>2. \A i \in 1 .. n : call[queue[i]] \in {"queued", "dropped"}
    BY <1>1 DEF QueueInv, n
  <2>3. \A i, j \in 1 .. n + 1 : i # j => queue'[i] # queue'[j]
    BY <1>5, <1>6, <1>7, <2>1
  <2>4. \A i \in 1 .. n + 1 : call'[queue'[i]] \in {"queued", "dropped"}
    BY <1>3, <1>5, <1>7, <2>2
  <2> QED
    BY <1>5, <2>3, <2>4 DEF QueueInv
<1>9. WorkerInv'
  <2>1. \A w \in Threads : worker[w] # Nobody => worker[w] \in Calls /\ worker[w] # c
    BY <1>1, <1>2 DEF WorkerInv, FanoutTypeOK
  <2> QED
    BY <1>1, <1>2, <1>3, <2>1 DEF WorkerInv
<1> DEFINE s == TurnOf(c)
<1>10. s \in Turns /\ c \in Range(CallsOf[s]) /\ \A t \in Turns : c \in Range(CallsOf[t]) => t = s
  BY TurnOfIs
<1> HIDE DEF s
<1>11. turn[s] = "open"
  BY <1>1, <1>2, <1>10 DEF TurnInv
<1>12. TurnInv'
  BY <1>1, <1>2, <1>3, <1>10, <1>11, CallsAre DEF TurnInv
<1>13. SlotInv'
  <2> SUFFICES ASSUME NEW t \in Turns PROVE Cardinality(Busy(t)') <= Slots
    BY DEF SlotInv
  <2>1. CASE t # s
    <3>1. Busy(t)' = Busy(t)
      BY <1>3, <1>10, <2>1, CallsAre DEF Busy
    <3> QED
      BY <1>1, <3>1 DEF SlotInv
  <2>2. CASE t = s
    <3>1. Busy(s) = Held(s)
      BY <1>1, <1>10, <1>11 DEF Busy, Held, TurnInv
    <3>2. Busy(s)' = Busy(s) \cup {c} /\ c \notin Busy(s)
      BY <1>2, <1>3, <1>10, CallsAre DEF Busy
    <3>3. Cardinality(Busy(s)') = Cardinality(Busy(s)) + 1
      BY <1>10, <3>2, BusyIsFinite, FS_AddElement
    <3>4. Cardinality(Busy(s)) < Slots
      BY <1>2, <3>1 DEF s
    <3> QED
      BY <1>10, <2>2, <3>3, <3>4, BusyIsFinite, FanoutAssumption
  <2> QED
    BY <2>1, <2>2
<1> QED
  BY <1>4, <1>8, <1>9, <1>12, <1>13 DEF FanoutInv

\* The head of the queue and what is left of it.
LEMMA QueueIs ==
    ASSUME FanoutInv, queue # <<>>
    PROVE  /\ Head(queue) = queue[1] /\ Head(queue) \in Calls /\ Tail(queue) \in Seq(Calls)
           /\ Len(queue) \in Nat /\ Len(queue) >= 1 /\ Len(Tail(queue)) = Len(queue) - 1
           /\ \A i \in 1 .. Len(Tail(queue)) : /\ i + 1 \in 1 .. Len(queue) /\ i + 1 # 1
                                               /\ Tail(queue)[i] = queue[i + 1]
           /\ 1 \in 1 .. Len(queue)
<1> DEFINE q == queue
<1>1. q \in Seq(Calls) /\ q # <<>>
  BY DEF FanoutInv, FanoutTypeOK
<1> HIDE DEF q
<1>2. Len(q) \in Nat /\ Len(q) >= 1
  BY <1>1
<1>3. Head(q) = q[1] /\ Head(q) \in Calls /\ Tail(q) \in Seq(Calls) /\ Len(Tail(q)) = Len(q) - 1
  BY <1>1, <1>2
<1>4. \A i \in 1 .. Len(Tail(q)) : Tail(q)[i] = q[i + 1]
  BY <1>1, <1>2
<1> DEFINE n == Len(q)
<1>5. \A i \in 1 .. n - 1 : i + 1 \in 1 .. n /\ i + 1 # 1
  BY <1>2
<1>6. 1 \in 1 .. n
  BY <1>2
<1> QED
  BY <1>2, <1>3, <1>4, <1>5, <1>6 DEF q

LEMMA TailKeeps ==
    ASSUME FanoutInv, queue # <<>>, queue' = Tail(queue),
           \A c \in Calls : c # Head(queue) => call'[c] = call[c]
    PROVE  QueueInv'
<1>1. QueueInv /\ queue \in Seq(Calls)
  BY DEF FanoutInv, FanoutTypeOK
<1> DEFINE m == Len(Tail(queue))
<1>2. /\ Head(queue) = queue[1] /\ 1 \in 1 .. Len(queue)
      /\ \A i \in 1 .. m : i + 1 \in 1 .. Len(queue) /\ i + 1 # 1 /\ queue'[i] = queue[i + 1]
  BY QueueIs
<1>3. \A i \in 1 .. m : /\ queue'[i] \in Calls /\ queue'[i] # Head(queue)
                        /\ call[queue'[i]] \in {"queued", "dropped"}
  BY <1>1, <1>2 DEF QueueInv
<1>4. ASSUME NEW i \in 1 .. m, NEW j \in 1 .. m, i # j
      PROVE  queue'[i] # queue'[j]
  <2>1. i + 1 # j + 1
    BY <1>4
  <2> QED
    BY <1>1, <1>2, <2>1 DEF QueueInv
<1>5. Len(queue') = m
  OBVIOUS
<1> HIDE DEF m
<1> QED
  BY <1>3, <1>4, <1>5 DEF QueueInv

LEMMA TakeKeeps ==
    ASSUME FanoutInv, NEW w \in Threads, Take(w)
    PROVE  FanoutInv' /\ worker'[w] \in Calls /\ \A v \in Threads \ {w} : worker'[v] = worker[v]
<1> DEFINE c == Head(queue)
<1>1. FanoutTypeOK /\ QueueInv /\ WorkerInv /\ TurnInv /\ SlotInv
  BY DEF FanoutInv
<1>2. /\ worker[w] = Nobody /\ queue # <<>> /\ call[c] = "queued"
      /\ worker' = [worker EXCEPT ![w] = c] /\ call' = [call EXCEPT ![c] = "running"]
      /\ queue' = Tail(queue) /\ turn' = turn
  BY DEF Take
<1>3. c \in Calls /\ Tail(queue) \in Seq(Calls)
  BY <1>2, QueueIs
<1> HIDE DEF c
<1>4. \A d \in Calls : call'[d] = IF d = c THEN "running" ELSE call[d]
  BY <1>1, <1>2 DEF FanoutTypeOK
<1>5. worker'[w] = c /\ \A v \in Threads \ {w} : worker'[v] = worker[v]
  BY <1>1, <1>2 DEF FanoutTypeOK
<1>6. FanoutTypeOK'
  BY <1>1, <1>2, <1>3 DEF FanoutTypeOK
<1>7. QueueInv'
  BY <1>2, <1>4, TailKeeps DEF c
<1>8. \A v \in Threads : worker[v] # Nobody => worker[v] \in Calls /\ worker[v] # c
  BY <1>1, <1>2 DEF WorkerInv, FanoutTypeOK
<1>9. WorkerInv'
  BY <1>1, <1>2, <1>3, <1>4, <1>5, <1>8 DEF WorkerInv
<1>10. TurnInv'
  BY <1>1, <1>2, <1>4, CallsAre DEF TurnInv
<1>11. SlotInv'
  <2> SUFFICES ASSUME NEW t \in Turns PROVE Cardinality(Busy(t)') <= Slots
    BY DEF SlotInv
  <2>1. Busy(t)' \subseteq Busy(t)
    BY <1>2, <1>4, CallsAre DEF Busy
  <2> QED
    BY <1>1, <2>1, FewerAreBusy
<1> QED
  BY <1>3, <1>5, <1>6, <1>7, <1>9, <1>10, <1>11 DEF FanoutInv

LEMMA SkipKeeps ==
    ASSUME FanoutInv, NEW w \in Threads, Skip(w)
    PROVE  FanoutInv' /\ worker' = worker
<1>1. FanoutTypeOK /\ QueueInv /\ WorkerInv /\ TurnInv /\ SlotInv
  BY DEF FanoutInv
<1>2. queue # <<>> /\ queue' = Tail(queue) /\ turn' = turn /\ call' = call /\ worker' = worker
  BY DEF Skip
<1>3. QueueInv'
  BY <1>2, TailKeeps
<1>4. FanoutTypeOK'
  BY <1>1, <1>2, QueueIs DEF FanoutTypeOK
<1>5. WorkerInv' /\ TurnInv'
  BY <1>1, <1>2 DEF WorkerInv, TurnInv
<1>6. SlotInv'
  BY <1>1, <1>2 DEF SlotInv, Busy
<1> QED
  BY <1>2, <1>3, <1>4, <1>5, <1>6 DEF FanoutInv

LEMMA ReturnKeeps ==
    ASSUME FanoutInv, NEW w \in Threads, NEW failed, Return(w, failed)
    PROVE  FanoutInv' /\ worker'[w] = Nobody /\ \A v \in Threads \ {w} : worker'[v] = worker[v]
<1> DEFINE c == worker[w]
           a == After(c, failed)
<1>1. FanoutTypeOK /\ QueueInv /\ WorkerInv /\ TurnInv /\ SlotInv
  BY DEF FanoutInv
<1>2. /\ c # Nobody /\ call' = [call EXCEPT ![c] = a] /\ worker' = [worker EXCEPT ![w] = Nobody]
      /\ turn' = turn /\ queue' = queue
  BY DEF Return
<1>3. c \in Calls /\ call[c] \in {"running", "orphan"}
  BY <1>1, <1>2 DEF FanoutTypeOK, WorkerInv
<1>4. a = IF call[c] = "orphan" THEN "dropped" ELSE "answered"
  BY DEF After
<1>5. \A v \in Threads : v # w => worker[v] # c
  BY <1>1, <1>2 DEF WorkerInv
<1> HIDE DEF c, a
<1>6. \A d \in Calls : call'[d] = IF d = c THEN a ELSE call[d]
  BY <1>1, <1>2 DEF FanoutTypeOK
<1>7. worker'[w] = Nobody /\ \A v \in Threads \ {w} : worker'[v] = worker[v]
  BY <1>1, <1>2 DEF FanoutTypeOK
<1>8. FanoutTypeOK'
  BY <1>1, <1>2, <1>4 DEF FanoutTypeOK
<1>9. QueueInv'
  <2>1. \A i \in 1 .. Len(queue) : queue[i] \in Calls /\ queue[i] # c
    BY <1>1, <1>3 DEF QueueInv, FanoutTypeOK
  <2> QED
    BY <1>1, <1>2, <1>6, <2>1 DEF QueueInv
<1>10. WorkerInv'
  <2>1. \A v \in Threads : worker[v] # Nobody => worker[v] \in Calls
    BY <1>1 DEF FanoutTypeOK
  <2> QED
    BY <1>1, <1>5, <1>6, <1>7, <2>1 DEF WorkerInv
<1>11. TurnInv'
  BY <1>1, <1>2, <1>3, <1>4, <1>6, CallsAre DEF TurnInv
<1>12. SlotInv'
  <2> SUFFICES ASSUME NEW t \in Turns PROVE Cardinality(Busy(t)') <= Slots
    BY DEF SlotInv
  <2>1. Busy(t)' \subseteq Busy(t)
    BY <1>4, <1>6, CallsAre DEF Busy
  <2> QED
    BY <1>1, <2>1, FewerAreBusy
<1> QED
  BY <1>7, <1>8, <1>9, <1>10, <1>11, <1>12 DEF FanoutInv

LEMMA CancelKeeps ==
    ASSUME FanoutInv, NEW t \in Turns, Cancel(t)
    PROVE  FanoutInv' /\ worker' = worker
<1>1. FanoutTypeOK /\ QueueInv /\ WorkerInv /\ TurnInv /\ SlotInv
  BY DEF FanoutInv
<1>2. /\ turn[t] = "open" /\ turn' = [turn EXCEPT ![t] = "cancelled"]
      /\ queue' = queue /\ worker' = worker
      /\ call' = [c \in Calls |->
                    IF c \notin Range(CallsOf[t]) \/ call[c] = "answered" THEN call[c]
                    ELSE IF call[c] = "running" THEN "orphan" ELSE "dropped"]
  BY DEF Cancel
<1>3. ASSUME NEW c \in Calls
      PROVE  /\ call[c] \in {"waiting", "queued", "running", "answered", "orphan", "dropped"}
             /\ c \notin Range(CallsOf[t]) => call'[c] = call[c]
             /\ c \in Range(CallsOf[t]) => /\ call[c] # "orphan"
                                           /\ call[c] = "answered" => call'[c] = "answered"
                                           /\ call[c] = "running" => call'[c] = "orphan"
                                           /\ call[c] \in {"waiting", "queued", "dropped"}
                                                => call'[c] = "dropped"
  BY <1>1, <1>2 DEF FanoutTypeOK, TurnInv
<1>4. FanoutTypeOK'
  BY <1>1, <1>2 DEF FanoutTypeOK
<1>5. QueueInv'
  <2>1. \A i \in 1 .. Len(queue) : queue[i] \in Calls
    BY <1>1 DEF FanoutTypeOK
  <2> QED
    BY <1>1, <1>2, <1>3, <2>1 DEF QueueInv
<1>6. WorkerInv'
  <2>1. \A v \in Threads : worker[v] # Nobody => worker[v] \in Calls
    BY <1>1 DEF FanoutTypeOK
  <2> QED
    BY <1>1, <1>2, <1>3, <2>1 DEF WorkerInv
<1>7. TurnInv'
  <2> SUFFICES ASSUME NEW s \in Turns, NEW c \in Range(CallsOf[s])
               PROVE  IF turn'[s] = "open" THEN call'[c] \notin {"orphan", "dropped"}
                                           ELSE call'[c] \in {"answered", "orphan", "dropped"}
    BY DEF TurnInv
  <2>1. c \in Calls
    BY CallsAre
  <2>2. CASE s = t
    <3>1. turn'[s] = "cancelled"
      BY <1>1, <1>2, <2>2 DEF FanoutTypeOK
    <3> QED
      BY <1>3, <2>1, <2>2, <3>1
  <2>3. CASE s # t
    <3>1. turn'[s] = turn[s]
      BY <1>1, <1>2, <2>3 DEF FanoutTypeOK
    <3>2. call'[c] = call[c]
      BY <1>3, <2>1, <2>3, TurnOfIs
    <3> QED
      BY <1>1, <3>1, <3>2 DEF TurnInv
  <2> QED
    BY <2>2, <2>3
<1>8. SlotInv'
  <2> SUFFICES ASSUME NEW s \in Turns PROVE Cardinality(Busy(s)') <= Slots
    BY DEF SlotInv
  <2>1. Busy(s)' \subseteq Busy(s)
    BY <1>3, CallsAre DEF Busy
  <2> QED
    BY <1>1, <2>1, FewerAreBusy
<1> QED
  BY <1>2, <1>4, <1>5, <1>6, <1>7, <1>8 DEF FanoutInv

\* A thread runs one call, and a call is on one thread: what is on threads is busy.
LEMMA BoundedByBusy == FanoutInv => TurnBounded
<1> SUFFICES ASSUME FanoutInv, NEW t \in Turns
             PROVE  Cardinality({w \in Threads : worker[w] \in Range(CallsOf[t])}) <= Slots
  BY DEF TurnBounded
<1> DEFINE W == {w \in Threads : worker[w] \in Range(CallsOf[t])}
           f == [w \in W |-> worker[w]]
<1>1. \A w \in W : worker[w] # Nobody /\ worker[w] \in Busy(t)
  BY CallsAre, FanoutAssumption DEF FanoutInv, WorkerInv, Busy
<1>2. \A v, w \in W : v # w => worker[v] # worker[w]
  BY <1>1 DEF FanoutInv, WorkerInv
<1>3. f \in Injection(W, Busy(t))
  BY <1>1, <1>2 DEF Injection, IsInjective
<1> HIDE DEF f, W
<1>4. IsFiniteSet(W) /\ Cardinality(W) <= Cardinality(Busy(t))
  BY <1>3, BusyIsFinite, FS_Injection
<1>5. Cardinality(W) \in Nat /\ Cardinality(Busy(t)) \in Nat
  BY <1>4, BusyIsFinite, FS_CardinalityType
<1>6. Cardinality(W) <= Slots
  BY <1>4, <1>5, FanoutAssumption DEF FanoutInv, SlotInv
<1> QED
  BY <1>6 DEF W

-----------------------------------------------------------------------------
(***************************************************************************)
(* The searches that the calls make.                                       *)
(***************************************************************************)
\* A thread that runs a call is in it, one that runs none is idle.
Paired == \A w \in Threads : worker[w] = Nobody <=> At(w, "idle")

SearchInv == FanoutInv /\ IInv /\ AtMostOne /\ Paired

\* A step of a search does not end in idleness, and is nobody else's.
LEMMA SearchStays ==
    ASSUME CacheTypeOK, NEW w \in Threads, SearchStep(w)
    PROVE  /\ thread[w].pc # "idle" /\ thread'[w].pc # "idle"
           /\ \A v \in Threads \ {w} : thread'[v].pc = thread[v].pc
<1> DEFINE t == thread[w]
<1>1. thread \in [Threads -> SearchState] /\ t \in SearchState
  BY DEF CacheTypeOK
<1>2. ASSUME NEW u, thread' = [thread EXCEPT ![w] = u]
      PROVE  thread'[w] = u /\ \A v \in Threads \ {w} : thread'[v] = thread[v]
  BY <1>1, <1>2
<1>3. ASSUME NEW outcome \in Outcomes, End(w, outcome)
      PROVE  thread'[w].pc # "idle" /\ \A v \in Threads \ {w} : thread'[v].pc = thread[v].pc
  <2> DEFINE u == [Fresh EXCEPT !.pc = outcome, !.calm = outcome = "missing" /\ thread[w].calm]
  <2>1. u.pc = outcome
    BY DEF Fresh
  <2>2. thread' = [thread EXCEPT ![w] = u]
    BY <1>3 DEF End
  <2> HIDE DEF u
  <2> QED
    BY <1>2, <2>1, <2>2 DEF Outcomes
<1>4. ASSUME NEW u, Move(w, u), u.pc # "idle"
      PROVE  thread'[w].pc # "idle" /\ \A v \in Threads \ {w} : thread'[v].pc = thread[v].pc
  BY <1>2, <1>4 DEF Move
<1>5. ASSUME NEW conn, Answered(w, conn)
      PROVE  thread'[w].pc # "idle" /\ \A v \in Threads \ {w} : thread'[v].pc = thread[v].pc
  <2>1. CASE End(w, "ok")
    BY <1>3, <2>1 DEF Outcomes
  <2>2. CASE ~End(w, "ok")
    <3> PICK x : thread' = [thread EXCEPT ![w] = [t EXCEPT !.pc = "answer", !.id = 0, !.conn = NoConn,
                                                          !.found = x]]
      BY <1>5, <2>2 DEF Answered
    <3> QED
      BY <1>1 DEF SearchState
  <2> QED
    BY <2>1, <2>2
<1>6. CASE Stat(w)
  <2> DEFINE f == Names[Len(t.stats) + 1]
             p == IF Len(t.stats) + 1 = Fingerprinted THEN "look" ELSE "stat"
             u == [t EXCEPT !.stats = Append(@, files[f]), !.pc = p]
  <2>1. CASE \E outcome \in {"missing", "unexpected"} : End(w, outcome)
    BY <1>3, <1>6, <2>1 DEF Stat, At, Outcomes
  <2>2. CASE Move(w, u)
    <3>1. u.pc = p /\ p # "idle"
      BY <1>1 DEF SearchState
    <3> HIDE DEF u, p
    <3> QED
      BY <1>4, <1>6, <2>2, <3>1 DEF Stat, At
  <2> QED
    BY <1>6, <2>1, <2>2 DEF Stat
<1>7. CASE LookUp(w)
  <2>1. /\ [t EXCEPT !.pc = "load"].pc = "load"
        /\ \A i : Search(t, i).pc = "connect"
    BY <1>1 DEF SearchState, Search
  <2> QED
    BY <1>4, <1>7, <2>1 DEF LookUp, At
<1>8. CASE Load(w)
  <2>1. CASE \E outcome \in {"missing", "unexpected"} : End(w, outcome)
    BY <1>3, <1>8, <2>1 DEF Load, At, Outcomes
  <2>2. CASE thread' = [thread EXCEPT ![w] = [@ EXCEPT !.id = NewId, !.pc = "store"]]
    BY <1>1, <1>8, <2>2 DEF SearchState, Load, At
  <2> QED
    BY <1>8, <2>1, <2>2 DEF Load
<1>9. CASE Store(w)
  <2>1. [Fresh EXCEPT !.pc = "unexpected"].pc = "unexpected" /\ Search(t, t.id).pc = "connect"
    BY <1>1 DEF Fresh, SearchState, Search
  <2>2. \/ thread' = [thread EXCEPT ![w] = [Fresh EXCEPT !.pc = "unexpected"]]
        \/ thread' = [thread EXCEPT ![w] = Search(t, t.id)]
    BY <1>9 DEF Store
  <2> QED
    BY <1>2, <1>9, <2>1, <2>2 DEF Store, At
<1>10. CASE EmbedFails(w) \/ Reuse(w) \/ Opened(w)
  <2>1. End(w, "unexpected") \/ \E conn : Answered(w, conn)
    BY <1>10 DEF EmbedFails, Reuse, Opened
  <2>2. t.pc # "idle"
    BY <1>10 DEF EmbedFails, Reuse, Opened, At
  <2> QED
    BY <1>3, <1>5, <2>1, <2>2 DEF Outcomes
<1>11. CASE Connect(w)
  <2> DEFINE mid == IF files.vector = Absent THEN Stir(thread) ELSE thread
  <2>1. DOMAIN mid = Threads /\ \A v \in Threads : mid[v].pc = thread[v].pc /\ mid[v] \in SearchState
    <3> SUFFICES ASSUME NEW v \in Threads
                 PROVE  DOMAIN mid = Threads /\ mid[v].pc = thread[v].pc /\ mid[v] \in SearchState
      OBVIOUS
    <3>1. thread[v] \in SearchState /\ (mid[v] = thread[v] \/ mid[v] = [thread[v] EXCEPT !.calm = FALSE])
      BY <1>1 DEF Stir
    <3>2. DOMAIN mid = Threads
      BY <1>1 DEF Stir
    <3> HIDE DEF mid
    <3> QED
      BY <3>1, <3>2 DEF SearchState
  <2>2. thread' = [mid EXCEPT ![w].pc = "assign", ![w].conn = [owner |-> w, sees |-> Live]]
    BY <1>11 DEF Connect
  <2> HIDE DEF mid
  <2>3. thread'[w].pc = "assign" /\ \A v \in Threads \ {w} : thread'[v] = mid[v]
    BY <2>1, <2>2 DEF SearchState
  <2> QED
    BY <1>11, <2>1, <2>3 DEF Connect, At
<1>12. CASE Assign(w)
  BY <1>1, <1>12 DEF Assign, At, SearchState
<1>13. CASE Tally(w)
  <2>1. [Fresh EXCEPT !.pc = "stat", !.round = 2].pc = "stat"
    BY DEF Fresh
  <2> QED
    BY <1>4, <1>13, <2>1 DEF Tally, At
<1> QED
  BY <1>6, <1>7, <1>8, <1>9, <1>10, <1>11, <1>12, <1>13 DEF SearchStep

LEMMA IndexingStays ==
    ASSUME CacheTypeOK, Indexing
    PROVE  \A w \in Threads : thread'[w].pc = thread[w].pc
<1>1. thread \in [Threads -> SearchState]
  BY DEF CacheTypeOK
<1>2. \A w \in Threads : Stir(thread)[w] \in SearchState /\ Stir(thread)[w].pc = thread[w].pc
  <2> SUFFICES ASSUME NEW w \in Threads
               PROVE  Stir(thread)[w] \in SearchState /\ Stir(thread)[w].pc = thread[w].pc
    OBVIOUS
  <2>1. thread[w] \in SearchState /\ Stir(thread)[w] = [thread[w] EXCEPT !.calm = FALSE]
    BY <1>1 DEF Stir
  <2> QED
    BY <2>1 DEF SearchState
<1>3. ASSUME NEW pc, NEW f, NEW next, Unlink(pc, f, next)
      PROVE  \A w \in Threads : thread'[w].pc = thread[w].pc
  <2> SUFFICES ASSUME NEW w \in Threads PROVE thread'[w].pc = thread[w].pc
    OBVIOUS
  <2> DEFINE s == Stir(thread)[w]
  <2>1. PICK x : thread'[w] = [s EXCEPT !.conn = x]
    BY <1>3 DEF Unlink
  <2>2. s \in SearchState /\ s.pc = thread[w].pc
    BY <1>2
  <2> HIDE DEF s
  <2> QED
    BY <2>1, <2>2 DEF SearchState
<1>4. ASSUME NEW pc, NEW f, NEW c, NEW next, Put(pc, f, c, next)
      PROVE  \A w \in Threads : thread'[w].pc = thread[w].pc
  BY <1>2, <1>4 DEF Put
<1>5. CASE BuildStep
  BY <1>3, <1>4, <1>5 DEF BuildStep
<1>6. CASE CutBuild \/ \E rebuilt \in BOOLEAN : StartBuild(rebuilt)
  BY <1>6 DEF CutBuild, StartBuild
<1> QED
  BY <1>5, <1>6 DEF Indexing

\* A thread that takes a call up or hands its result over refers to no retriever.
LEMMA RestKeeps ==
    ASSUME IInv, NEW w \in Threads, NEW u, Move(w, u),
           u = Fresh \/ \E o \in {"ok", "unexpected"} : u = [Fresh EXCEPT !.pc = o]
    PROVE  IInv'
<1>1. /\ u.pc \in {"idle", "ok", "unexpected"} /\ u.round = 1 /\ u.stats = <<>>
      /\ u.id = 0 /\ u.conn = NoConn
      /\ u.began = <<>> /\ u.found = <<>> /\ ~u.calm
  BY DEF Fresh
<1>2. u \in SearchState
  BY NobodyBegins DEF Fresh, SearchState, SearchPoints, Outcomes
<1>3. Stands(u) /\ Ordered(u, Newest("bm25"), Newest("vector")) /\ Calm(u, files)
  BY <1>1 DEF Stands, Ordered, Calm
<1> QED
  BY <1>1, <1>2, <1>3, MoveKeeps

LEMMA SearchBegins == Init => SearchInv
<1> SUFFICES ASSUME Init PROVE SearchInv
  OBVIOUS
<1>1. FanoutInv /\ IInv
  BY FanoutBegins, InitIsGood DEF Init
<1>2. cache = {} /\ worker = [w \in Threads |-> Nobody] /\ thread = [w \in Threads |-> Fresh]
  BY DEF Init, FanoutInit, CacheInit
<1>3. AtMostOne
  BY <1>2 DEF AtMostOne
<1>4. Paired
  BY <1>2, NobodyBegins DEF Paired, At
<1> QED
  BY <1>1, <1>3, <1>4 DEF SearchInv

LEMMA WorkerStepKeeps ==
    ASSUME SearchInv, NEW w \in Threads, WorkerStep(w)
    PROVE  SearchInv'
<1>1. FanoutInv /\ IInv /\ AtMostOne /\ Paired /\ CacheTypeOK /\ FanoutTypeOK
  BY DEF SearchInv, IInv, FanoutInv
<1>2. thread \in [Threads -> SearchState]
  BY <1>1 DEF CacheTypeOK
<1>3. ASSUME NEW u, Move(w, u)
      PROVE  AtMostOne' /\ thread'[w] = u /\ \A v \in Threads \ {w} : thread'[v] = thread[v]
  BY <1>1, <1>2, <1>3 DEF Move, AtMostOne
<1>4. CASE Dispatch(w)
  <2>1. FanoutInv' /\ worker'[w] \in Calls /\ \A v \in Threads \ {w} : worker'[v] = worker[v]
    BY <1>1, <1>4, TakeKeeps DEF Dispatch
  <2>2. \/ Begin(w)
        \/ \E o \in {"ok", "unexpected"} : Move(w, [Fresh EXCEPT !.pc = o])
    BY <1>4 DEF Dispatch
  <2>3. IInv'
    BY <1>1, <2>2, BeginKeeps, RestKeeps
  <2>4. PICK u : Move(w, u) /\ u.pc # "idle"
    <3>1. /\ [Fresh EXCEPT !.pc = "stat", !.calm = TRUE, !.began = <<files.bm25, files.vector>>].pc = "stat"
          /\ \A o : [Fresh EXCEPT !.pc = o].pc = o
      BY DEF Fresh
    <3> QED
      BY <2>2, <3>1 DEF Begin
  <2>5. Paired'
    BY <1>1, <1>3, <2>1, <2>4, FanoutAssumption DEF Paired, At
  <2> QED
    BY <1>3, <2>1, <2>3, <2>4, <2>5 DEF SearchInv
<1>5. CASE PassOver(w)
  <2>1. FanoutInv' /\ worker' = worker /\ UNCHANGED cacheVars
    BY <1>1, <1>5, SkipKeeps DEF PassOver, searchState, cacheVars
  <2>2. IInv' /\ AtMostOne'
    BY <1>1, <2>1, NextIsGood, NextKeeps
  <2>3. Paired'
    BY <1>1, <2>1 DEF Paired, At, cacheVars
  <2> QED
    BY <2>1, <2>2, <2>3 DEF SearchInv
<1>6. CASE Work(w)
  <2>1. SearchStep(w) /\ worker' = worker /\ UNCHANGED fanoutVars
    BY <1>6 DEF Work, fanoutVars
  <2>2. FanoutInv'
    BY <1>1, <2>1 DEF fanoutVars, FanoutInv, FanoutTypeOK, QueueInv, WorkerInv, TurnInv, SlotInv, Busy
  <2>3. CacheNext
    BY <2>1 DEF CacheNext
  <2>4. IInv' /\ AtMostOne'
    BY <1>1, <2>3, NextIsGood, NextKeeps
  <2>5. Paired'
    BY <1>1, <2>1, SearchStays DEF Paired, At
  <2> QED
    BY <2>2, <2>4, <2>5 DEF SearchInv
<1>7. CASE Deliver(w)
  <2>1. FanoutInv' /\ worker'[w] = Nobody /\ \A v \in Threads \ {w} : worker'[v] = worker[v]
    BY <1>1, <1>7, ReturnKeeps DEF Deliver
  <2>2. Move(w, Fresh) /\ Fresh.pc = "idle"
    <3>1. Fresh.pc = "idle"
      BY DEF Fresh
    <3>2. Move(w, Fresh)
      BY <1>7 DEF Deliver
    <3> QED
      BY <3>1, <3>2
  <2>3. IInv'
    BY <1>1, <2>2, RestKeeps
  <2>4. Paired'
    BY <1>1, <1>3, <2>1, <2>2 DEF Paired, At
  <2> QED
    BY <1>3, <2>1, <2>2, <2>3, <2>4 DEF SearchInv
<1> QED
  BY <1>4, <1>5, <1>6, <1>7 DEF WorkerStep

LEMMA SearchInvHolds ==
    ASSUME SearchInv, [Next]_searchVars
    PROVE  SearchInv'
<1>1. FanoutInv /\ IInv /\ AtMostOne /\ Paired /\ CacheTypeOK
  BY DEF SearchInv, IInv
<1>2. ASSUME UNCHANGED searchState
      PROVE  IInv' /\ AtMostOne' /\ thread' = thread
  <2>1. UNCHANGED cacheVars
    BY <1>2 DEF searchState, cacheVars
  <2>2. IInv' /\ AtMostOne'
    BY <1>1, <2>1, NextIsGood, NextKeeps
  <2> QED
    BY <2>1, <2>2 DEF cacheVars
<1>3. ASSUME UNCHANGED fanoutVars
      PROVE  FanoutInv' /\ worker' = worker
  BY <1>1, <1>3 DEF fanoutVars, FanoutInv, FanoutTypeOK, QueueInv, WorkerInv, TurnInv, SlotInv, Busy
<1>4. CASE \E c \in Calls : Submit(c)
  <2> PICK c \in Calls : Acquire(c) /\ UNCHANGED searchState
    BY <1>4 DEF Submit
  <2>1. FanoutInv' /\ worker' = worker
    BY <1>1, AcquireKeeps DEF Acquire
  <2> QED
    BY <1>1, <1>2, <2>1 DEF SearchInv, Paired, At
<1>5. CASE \E w \in Threads : WorkerStep(w)
  BY <1>5, WorkerStepKeeps
<1>6. CASE \E t \in Turns : Leave(t)
  <2> PICK t \in Turns : Cancel(t) /\ UNCHANGED searchState
    BY <1>6 DEF Leave
  <2>1. FanoutInv' /\ worker' = worker
    BY <1>1, CancelKeeps
  <2> QED
    BY <1>1, <1>2, <2>1 DEF SearchInv, Paired, At
<1>7. CASE Indexing /\ UNCHANGED fanoutVars
  <2>1. IInv' /\ AtMostOne'
    BY <1>1, <1>7, IndexingKeeps, NextKeeps DEF CacheNext
  <2>2. Paired'
    BY <1>1, <1>3, <1>7, IndexingStays DEF Paired, At
  <2> QED
    BY <1>3, <1>7, <2>1, <2>2 DEF SearchInv
<1>8. CASE UNCHANGED searchVars
  BY <1>1, <1>2, <1>3, <1>8 DEF searchVars, SearchInv, Paired, At
<1> QED
  BY <1>4, <1>5, <1>6, <1>7, <1>8 DEF Next

LEMMA SearchInductive == Spec => []SearchInv
BY SearchBegins, SearchInvHolds, PTL DEF Spec

-----------------------------------------------------------------------------
\* A thread is in the handler exactly while it runs a call, also a call whose turn is
\* gone, and the searches' locals and retrievers are sound (run_tool, _run_one).
THEOREM SearchTypeCorrect == Spec => []TypeOK
<1>1. SearchInv => TypeOK
  BY DEF SearchInv, FanoutInv, IInv, TypeOK, Paired
<1> QED
  BY <1>1, SearchInductive, PTL

\* A turn occupies at most MAX_PARALLEL_TOOLS threads of the executor, however many calls
\* the model asks for, whichever turns are cancelled, and however long their threads go
\* on (agent.py, tool_slots).
THEOREM TurnsAreBounded == Spec => []TurnBounded
<1>1. SearchInv => TurnBounded
  BY BoundedByBusy DEF SearchInv
<1> QED
  BY <1>1, SearchInductive, PTL

\* The promises of the retriever cache hold of the searches that tool calls make, with
\* turns cancelled under them, handlers refused and threads used again and again: one
\* entry, no answer older than the search, an exact one while no file changes.
THEOREM ToolsKeepTheCache == Spec => [](OneCached /\ NeverOlder /\ CalmSearchIsExact)
<1>1. AtMostOne => OneCached
  BY AtMostOneIsOneCached
<1>2. IInv => NeverOlder /\ CalmSearchIsExact
  BY GoodIsNeverOlder, GoodIsExact
<1>3. SearchInv => OneCached /\ NeverOlder /\ CalmSearchIsExact
  BY <1>1, <1>2 DEF SearchInv
<1> QED
  BY <1>3, SearchInductive, PTL
=============================================================================
