-------------------------- MODULE Algorithms_proofs --------------------------
(***************************************************************************)
(* The laws of the pure modules, for inputs of any size.  The first part   *)
(* is what all of them rest on: that a set of numbers has a least element, *)
(* that a function defined by recursion over 0 .. n exists, and what       *)
(* sorting gives.                                                          *)
(***************************************************************************)
EXTENDS Usage, KbReader, StreamAssembly, RankFusion, EvalRun, Chunker, Sorting, FiniteSetTheorems,
        SequenceTheorems, WellFoundedInduction, TLAPS

-----------------------------------------------------------------------------
(* Induction, recursion and sorting.                                       *)

\* Induction is by least counterexample: WFMin can be cited for a set, where the
\* induction theorems of the library would need a predicate.
LEMMA LeastNat ==
  ASSUME NEW T, T \subseteq Nat, T # {}
  PROVE  \E n \in T : \A m \in T : n <= m
<1> DEFINE R == {ss \in Nat \X Nat : ss[1] < ss[2]}
<1>1. IsWellFoundedOn(R, Nat)
  BY NatLessThanWellFounded DEF OpToRel
<1> HIDE DEF R
<1>2. PICK n \in T : \A m \in T : ~(<<m, n>> \in R)
  BY <1>1, WFMin
<1>3. ASSUME NEW m \in T PROVE n <= m
  <2>1. m \in Nat /\ n \in Nat
    OBVIOUS
  <2>2. m < n => <<m, n>> \in R
    BY <2>1 DEF R
  <2> QED
    BY <2>1, <2>2, <1>2
<1> QED
  BY <1>3


\* Induction over 0 .. n.
LEMMA Upwards ==
  ASSUME NEW n \in Nat, NEW T, 0 \in T, \A i \in 1 .. n : i - 1 \in T => i \in T
  PROVE  \A i \in 0 .. n : i \in T
<1> SUFFICES ASSUME NEW j \in 0 .. n, j \notin T
             PROVE  FALSE
  OBVIOUS
<1> DEFINE U == {i \in 0 .. n : i \notin T}
<1>1. U \subseteq Nat /\ U # {}
  BY DEF U
<1>2. PICK i \in U : \A k \in U : i <= k
  BY <1>1, LeastNat
<1>3. i \in 1 .. n /\ i - 1 \in 0 .. n
  BY <1>2
<1>4. i - 1 \in T
  BY <1>2, <1>3
<1> QED
  BY <1>2, <1>3, <1>4

\* A step of a recursion over 0 .. n takes the value before and the index.
Steps(S, n) == [S \X (1 .. n) -> S]

Follows(g, n, S, x0, F) ==
    g[0] = x0 /\ \A i \in 1 .. n : g[i - 1] \in S => g[i] = F[<<g[i - 1], i>>]

Recursive(n, S, x0, F) == \E g \in [0 .. n -> S] : Follows(g, n, S, x0, F)

\* A function may be defined by recursion over 0 .. n.
LEMMA Recursion ==
  ASSUME NEW n \in Nat, NEW S, NEW x0 \in S, NEW F \in Steps(S, n)
  PROVE  Recursive(n, S, x0, F)
<1> USE DEF Steps
<1> DEFINE Fits(g, m) == g[0] = x0 /\ \A i \in 1 .. m : g[i] = F[<<g[i - 1], i>>]
           T == {m \in 0 .. n : ~ \E g \in [0 .. m -> S] : Fits(g, m)}
<1>1. ASSUME T # {}
      PROVE  FALSE
  <2>1. T \subseteq Nat
    OBVIOUS
  <2>2. PICK m \in T : \A k \in T : m <= k
    BY <1>1, <2>1, LeastNat
  <2>3. m # 0
    <3>1. [i \in 0 .. 0 |-> x0] \in [0 .. 0 -> S] /\ Fits([i \in 0 .. 0 |-> x0], 0)
      OBVIOUS
    <3> QED
      BY <3>1
  <2>4. m \in 1 .. n /\ m - 1 \in 0 .. n /\ m - 1 \notin T
    BY <2>2, <2>3
  <2>5. PICK g \in [0 .. m - 1 -> S] : Fits(g, m - 1)
    BY <2>4
  <2> DEFINE h == [i \in 0 .. m |-> IF i = m THEN F[<<g[m - 1], m>>] ELSE g[i]]
  <2>6. h \in [0 .. m -> S]
    BY <2>4
  <2>7. h[0] = x0
    BY <2>4, <2>5
  <2>8. ASSUME NEW i \in 1 .. m
        PROVE  h[i] = F[<<h[i - 1], i>>]
    <3>1. CASE i = m
      <4>1. h[m] = F[<<g[m - 1], m>>] /\ h[m - 1] = g[m - 1]
        BY <2>4
      <4> HIDE DEF h
      <4> QED
        BY <3>1, <4>1
    <3>2. CASE i # m
      <4>1. i \in 1 .. m - 1 /\ i - 1 \in 0 .. m - 1 /\ i - 1 # m
        BY <2>4, <3>2
      <4>2. h[i] = g[i] /\ h[i - 1] = g[i - 1]
        BY <2>4, <3>2, <4>1
      <4> QED
        BY <2>5, <4>1, <4>2
    <3> QED
      BY <3>1, <3>2
  <2>9. Fits(h, m)
    BY <2>7, <2>8
  <2> QED
    BY <2>2, <2>6, <2>9
<1>2. n \in 0 .. n
  OBVIOUS
<1>3. n \notin T
  <2> HIDE DEF T
  <2> QED
    BY <1>1
<1> QED
  BY <1>2, <1>3 DEF Recursive, Follows

\* What is defined so stays within S.
LEMMA RecursionStays ==
  ASSUME NEW n \in Nat, NEW S, NEW x0 \in S, NEW F \in Steps(S, n), NEW h, Follows(h, n, S, x0, F)
  PROVE  \A i \in 0 .. n : h[i] \in S
<1> USE DEF Steps, Follows
<1> DEFINE T == {i \in 0 .. n : h[i] \in S}
<1>1. 0 \in T
  OBVIOUS
<1>2. ASSUME NEW i \in 1 .. n, i - 1 \in T
      PROVE  i \in T
  <2>1. <<h[i - 1], i>> \in S \X (1 .. n)
    BY <1>2
  <2>2. h[i] \in S
    BY <1>2, <2>1
  <2> QED
    BY <2>2
<1>3. \A i \in 0 .. n : i \in T
  <2> HIDE DEF T
  <2> QED
    BY <1>1, <1>2, Upwards
<1> QED
  BY <1>3

\* a strict total order on S
Orders(R, S) ==
    /\ \A x \in S : <<x, x>> \notin R
    /\ \A x, y \in S : x = y \/ <<x, y>> \in R \/ <<y, x>> \in R
    /\ \A x, y, z \in S : <<x, y>> \in R /\ <<y, z>> \in R => <<x, z>> \in R

LEMMA Sorting ==
  ASSUME NEW S, IsFiniteSet(S), NEW R, Orders(R, S)
  PROVE  LET s == SortedBy(S, R)
         IN  /\ s \in [1 .. Cardinality(S) -> S]
             /\ \A i, j \in 1 .. Cardinality(S) : i < j <=> <<s[i], s[j]>> \in R
             /\ \A x \in S : \E i \in 1 .. Cardinality(S) : s[i] = x
<1> DEFINE Behind(x) == {y \in S : <<y, x>> \in R}
           rank == [x \in S |-> Cardinality(Behind(x)) + 1]
           n == Cardinality(S)
<1>1. n \in Nat
  BY FS_CardinalityType
<1>2. ASSUME NEW x \in S
      PROVE  /\ IsFiniteSet(Behind(x)) /\ Cardinality(Behind(x)) \in Nat
             /\ Cardinality(Behind(x)) < n
  <2>1. Behind(x) \in SUBSET S /\ x \notin Behind(x)
    BY DEF Orders
  <2>2. IsFiniteSet(Behind(x)) /\ Cardinality(Behind(x)) <= n /\ Cardinality(Behind(x)) # n
    BY <2>1, FS_Subset
  <2> QED
    BY <1>1, <2>2, FS_CardinalityType
<1>3. rank \in [S -> 1 .. n]
  <2>1. ASSUME NEW x \in S PROVE Cardinality(Behind(x)) + 1 \in 1 .. n
    BY <1>1, <1>2
  <2> HIDE DEF Behind, n
  <2> QED
    BY <2>1
<1>4. ASSUME NEW x \in S, NEW y \in S, <<x, y>> \in R
      PROVE  rank[x] < rank[y]
  <2>1. Behind(x) \in SUBSET Behind(y) /\ x \in Behind(y) /\ x \notin Behind(x)
    BY <1>4 DEF Orders
  <2>2. Cardinality(Behind(x)) <= Cardinality(Behind(y)) /\ Cardinality(Behind(x)) # Cardinality(Behind(y))
    BY <2>1, <1>2, FS_Subset
  <2> QED
    BY <2>2, <1>2
<1>5. rank \in Injection(S, 1 .. n)
  <2> SUFFICES ASSUME NEW x \in S, NEW y \in S, rank[x] = rank[y], x # y
               PROVE  FALSE
    BY <1>3 DEF Injection, IsInjective
  <2>1. <<x, y>> \in R \/ <<y, x>> \in R
    BY DEF Orders
  <2>2. rank[x] \in Int /\ rank[y] \in Int
    BY <1>3, <1>1
  <2> HIDE DEF rank
  <2> QED
    BY <2>1, <2>2, <1>4
<1>6. \A i \in 1 .. n : \E x \in S : rank[x] = i
  <2>1. IsFiniteSet(1 .. n) /\ Cardinality(1 .. n) = n
    BY <1>1, FS_Interval
  <2>2. rank \in Surjection(S, 1 .. n)
    BY <1>5, <2>1, FS_Injection
  <2> QED
    BY <2>2 DEF Surjection
<1> DEFINE s == SortedBy(S, R)
<1>7. ASSUME NEW i \in 1 .. n
      PROVE  s[i] \in S /\ rank[s[i]] = i
  <2>1. \E x \in S : Cardinality(Behind(x)) = i - 1
    <3> HIDE DEF Behind, n
    <3>1. PICK x \in S : rank[x] = i
      BY <1>6
    <3> QED
      BY <3>1, <1>1, <1>2
  <2>2. s[i] = CHOOSE x \in S : Cardinality(Behind(x)) = i - 1
    BY DEF SortedBy
  <2>3. s[i] \in S /\ Cardinality(Behind(s[i])) = i - 1
    BY <2>1, <2>2
  <2> QED
    BY <2>3, <1>1
<1>8. s \in [1 .. n -> S]
  BY <1>7 DEF SortedBy
<1>9. ASSUME NEW i \in 1 .. n, NEW j \in 1 .. n
      PROVE  i < j <=> <<s[i], s[j]>> \in R
  <2>1. s[i] = s[j] \/ <<s[i], s[j]>> \in R \/ <<s[j], s[i]>> \in R
    BY <1>7 DEF Orders
  <2>2. <<s[i], s[i]>> \notin R
    BY <1>7 DEF Orders
  <2> HIDE DEF s, rank
  <2>3. i \in Int /\ j \in Int
    OBVIOUS
  <2> QED
    BY <2>1, <2>2, <2>3, <1>4, <1>7
<1>10. ASSUME NEW x \in S
       PROVE  \E i \in 1 .. n : s[i] = x
  <2>1. rank[x] \in 1 .. n
    BY <1>3
  <2> HIDE DEF s, rank
  <2>2. s[rank[x]] \in S /\ rank[s[rank[x]]] = rank[x]
    BY <2>1, <1>7
  <2>3. s[rank[x]] = x
    BY <2>2, <1>5 DEF Injection, IsInjective
  <2> QED
    BY <2>1, <2>3
<1> QED
  BY <1>8, <1>9, <1>10


\* s lists S in the order R.
ListsBy(s, S, R) ==
    /\ s \in [1 .. Cardinality(S) -> S]
    /\ \A i, j \in 1 .. Cardinality(S) : i < j <=> <<s[i], s[j]>> \in R
    /\ \A x \in S : \E i \in 1 .. Cardinality(S) : s[i] = x

LEMMA SortedLists ==
  ASSUME NEW S, IsFiniteSet(S), NEW R, Orders(R, S)
  PROVE  ListsBy(SortedBy(S, R), S, R)
BY Sorting DEF ListsBy

\* Two such lists agree at a place if they do before it.
LEMMA FirstDifference ==
  ASSUME NEW S, NEW R, Orders(R, S), Cardinality(S) \in Nat,
         NEW s, NEW t, ListsBy(s, S, R), ListsBy(t, S, R),
         NEW i \in 1 .. Cardinality(S), \A j \in 1 .. i - 1 : s[j] = t[j]
  PROVE  <<s[i], t[i]>> \notin R
<1> DEFINE n == Cardinality(S)
<1> SUFFICES ASSUME <<s[i], t[i]>> \in R
             PROVE  FALSE
  OBVIOUS
<1>1. s[i] \in S /\ t[i] \in S
  BY DEF ListsBy
<1>2. PICK j \in 1 .. n : t[j] = s[i]
  BY <1>1 DEF ListsBy
<1>3. <<t[j], t[i]>> \in R
  BY <1>2
<1>4. j < i
  BY <1>2, <1>3 DEF ListsBy
<1>5. j \in 1 .. i - 1
  BY <1>4
<1>6. s[j] = s[i]
  BY <1>2, <1>5
<1>7. <<s[j], s[i]>> \in R
  BY <1>2, <1>4 DEF ListsBy
<1> QED
  BY <1>1, <1>6, <1>7 DEF Orders

\* There is one way to sort.
LEMMA OneOrder ==
  ASSUME NEW S, IsFiniteSet(S), NEW R, Orders(R, S),
         NEW s, NEW t, ListsBy(s, S, R), ListsBy(t, S, R)
  PROVE  s = t
<1> DEFINE n == Cardinality(S)
<1>1. n \in Nat
  BY FS_CardinalityType
<1> DEFINE D == {i \in 1 .. n : s[i] # t[i]}
<1>3. ASSUME D # {}
      PROVE  FALSE
  <2>1. D \subseteq Nat
    OBVIOUS
  <2>2. PICK i \in D : \A j \in D : i <= j
    BY <1>3, <2>1, LeastNat
  <2>3. i \in 1 .. n /\ s[i] # t[i]
    BY <2>2
  <2>4. \A j \in 1 .. i - 1 : s[j] = t[j] /\ t[j] = s[j]
    <3> SUFFICES ASSUME NEW j \in 1 .. i - 1, s[j] # t[j]
                 PROVE  FALSE
      OBVIOUS
    <3>1. j \in D
      BY <1>1, <2>3
    <3> QED
      BY <2>2, <2>3, <3>1
  <2> HIDE DEF D
  <2>5. <<s[i], t[i]>> \notin R
    BY <1>1, <2>3, <2>4, FirstDifference
  <2>6. <<t[i], s[i]>> \notin R
    BY <1>1, <2>3, <2>4, FirstDifference
  <2>7. s[i] \in S /\ t[i] \in S
    BY <2>3 DEF ListsBy
  <2> QED
    BY <2>3, <2>5, <2>6, <2>7 DEF Orders
<1>4. \A i \in 1 .. n : s[i] = t[i]
  BY <1>3
<1>5. s \in [1 .. n -> S] /\ t \in [1 .. n -> S]
  BY DEF ListsBy
<1> HIDE DEF n, D
<1>6. s = [i \in 1 .. n |-> s[i]] /\ t = [i \in 1 .. n |-> t[i]]
  BY <1>5, Zenon
<1> QED
  BY <1>4, <1>6

LessThan(S) == {p \in S \X S : p[1] < p[2]}

LEMMA LessThanOrders ==
  ASSUME NEW S \in SUBSET Nat
  PROVE  /\ Orders(LessThan(S), S)
         /\ \A a, b \in S : <<a, b>> \in LessThan(S) <=> a < b
<1>1. \A a, b \in S : <<a, b>> \in LessThan(S) <=> a < b
  BY DEF LessThan
<1> QED
  BY <1>1 DEF Orders

\* s lists the numbers in S from the least to the greatest.
Climbs(s, S) ==
    /\ s \in [1 .. Cardinality(S) -> S]
    /\ \A i, j \in 1 .. Cardinality(S) : i < j <=> s[i] < s[j]
    /\ \A x \in S : \E i \in 1 .. Cardinality(S) : s[i] = x

LEMMA Climbing ==
  ASSUME NEW S \in SUBSET Nat, IsFiniteSet(S)
  PROVE  /\ Climbs(Ascending(S), S)
         /\ \A s : Climbs(s, S) => s = Ascending(S)
<1>1. \A s : Climbs(s, S) <=> ListsBy(s, S, LessThan(S))
  <2> TAKE s
  <2>1. s \in [1 .. Cardinality(S) -> S] =>
          \A i, j \in 1 .. Cardinality(S) : <<s[i], s[j]>> \in LessThan(S) <=> s[i] < s[j]
    BY LessThanOrders
  <2> QED
    BY <2>1 DEF Climbs, ListsBy
<1>2. Ascending(S) = SortedBy(S, LessThan(S))
  BY DEF Ascending, LessThan
<1> QED
  BY <1>1, <1>2, LessThanOrders, SortedLists, OneOrder

LEMMA AscendingNone == Ascending({}) = <<>>
<1>1. Cardinality({}) = 0 /\ IsFiniteSet({})
  BY FS_EmptySet
<1>2. Climbs(<<>>, {})
  BY <1>1 DEF Climbs
<1> QED
  BY <1>1, <1>2, Climbing

LEMMA AscendingSeq ==
  ASSUME NEW S \in SUBSET Nat, IsFiniteSet(S)
  PROVE  Ascending(S) \in Seq(Nat) /\ Len(Ascending(S)) = Cardinality(S)
<1>1. Cardinality(S) \in Nat
  BY FS_CardinalityType
<1>2. Ascending(S) \in [1 .. Cardinality(S) -> S]
  BY Climbing DEF Climbs
<1> DEFINE k == Cardinality(S)
           s == Ascending(S)
<1>3. k \in Nat /\ s \in [1 .. k -> Nat]
  BY <1>1, <1>2
<1> HIDE DEF k, s
<1>4. s \in Seq(Nat) /\ Len(s) = k
  BY <1>3
<1> QED
  BY <1>4 DEF k, s

\* A number beyond all others is listed last.
LEMMA AscendingAdd ==
  ASSUME NEW n \in Nat, NEW S \in SUBSET (1 .. n - 1), n # 0
  PROVE  Ascending(S \cup {n}) = Append(Ascending(S), n)
<1> DEFINE s == Ascending(S)
           t == Append(s, n)
           k == Cardinality(S)
<1>1. IsFiniteSet(S) /\ S \in SUBSET Nat
  <2>1. IsFiniteSet(1 .. n - 1)
    BY FS_Interval
  <2>2. IsFiniteSet(S)
    BY <2>1, FS_Subset
  <2>3. S \in SUBSET Nat
    OBVIOUS
  <2> QED
    BY <2>2, <2>3
<1>2. IsFiniteSet(S \cup {n}) /\ Cardinality(S \cup {n}) = k + 1 /\ k \in Nat
  BY <1>1, FS_AddElement, FS_CardinalityType
<1>3. Climbs(s, S)
  BY <1>1, Climbing
<1>4. s \in Seq(Nat) /\ Len(s) = k
  BY <1>1, AscendingSeq
<1> HIDE DEF s
<1>5. t \in Seq(Nat) /\ Len(t) = k + 1 /\ (\A i \in 1 .. k : t[i] = s[i]) /\ t[k + 1] = n
  BY <1>4, AppendProperties
<1>6. t \in [1 .. k + 1 -> Nat]
  BY <1>5, LenProperties
<1> HIDE DEF t, k
<1>7. \A i \in 1 .. k : s[i] \in S
  BY <1>3 DEF Climbs, k
<1>8. t \in [1 .. k + 1 -> S \cup {n}]
  <2>1. \A i \in 1 .. k + 1 : t[i] \in S \cup {n}
    BY <1>2, <1>5, <1>7
  <2> QED
    BY <1>6, <2>1
<1>9. ASSUME NEW i \in 1 .. k + 1, NEW j \in 1 .. k + 1
      PROVE  i < j <=> t[i] < t[j]
  <2>1. \A l \in 1 .. k : s[l] \in 1 .. n - 1
    BY <1>7
  <2>2. CASE i \in 1 .. k /\ j \in 1 .. k
    BY <1>3, <1>5, <2>2 DEF Climbs, k
  <2>3. CASE i \in 1 .. k /\ j = k + 1
    BY <1>2, <1>5, <2>1, <2>3
  <2>4. CASE i = k + 1 /\ j \in 1 .. k
    BY <1>2, <1>5, <2>1, <2>4
  <2>5. CASE i = k + 1 /\ j = k + 1
    BY <1>2, <1>5, <2>5
  <2> QED
    BY <1>2, <2>2, <2>3, <2>4, <2>5
<1>10. ASSUME NEW x \in S \cup {n}
       PROVE  \E i \in 1 .. k + 1 : t[i] = x
  <2>1. CASE x = n
    BY <1>2, <1>5, <2>1
  <2>2. CASE x \in S
    <3>1. PICK i \in 1 .. k : s[i] = x
      BY <1>3, <2>2 DEF Climbs, k
    <3> QED
      BY <1>2, <1>5, <3>1
  <2> QED
    BY <2>1, <2>2
<1>11. Climbs(t, S \cup {n})
  BY <1>2, <1>8, <1>9, <1>10 DEF Climbs
<1>12. S \cup {n} \in SUBSET Nat
  BY <1>1
<1> QED
  BY <1>2, <1>11, <1>12, Climbing DEF t, s

LEMMA PickIs ==
  ASSUME NEW S, NEW s \in Seq(S), NEW places \in SUBSET (1 .. Len(s))
  PROVE  /\ IsFiniteSet(places) /\ places \in SUBSET Nat /\ Climbs(Ascending(places), places)
         /\ Pick(s, places) \in Seq(S) /\ Len(Pick(s, places)) = Cardinality(places)
         /\ Cardinality(places) \in Nat
         /\ \A n \in 1 .. Cardinality(places) : /\ Ascending(places)[n] \in places
                                                /\ Pick(s, places)[n] = s[Ascending(places)[n]]
<1> DEFINE a == Ascending(places)
           n == Cardinality(places)
<1>1. Len(s) \in Nat /\ \A i \in 1 .. Len(s) : s[i] \in S
  OBVIOUS
<1>2. IsFiniteSet(places) /\ places \in SUBSET Nat
  <2>1. IsFiniteSet(1 .. Len(s))
    BY <1>1, FS_Interval
  <2>2. places \in SUBSET (1 .. Len(s)) /\ places \in SUBSET Nat
    OBVIOUS
  <2> QED
    BY <2>1, <2>2, FS_Subset
<1>3. n \in Nat /\ Climbs(a, places)
  BY <1>2, FS_CardinalityType, Climbing
<1>4. a \in [1 .. n -> places]
  BY <1>3 DEF Climbs
<1>5. Pick(s, places) = [i \in 1 .. n |-> s[a[i]]]
  BY <1>4 DEF Pick
<1> HIDE DEF a, n
<1>6. \A i \in 1 .. n : a[i] \in places /\ s[a[i]] \in S
  BY <1>1, <1>4
<1>7. Pick(s, places) \in [1 .. n -> S]
  BY <1>5, <1>6
<1>8. Pick(s, places) \in Seq(S) /\ Len(Pick(s, places)) = n
  BY <1>3, <1>7
<1> QED
  BY <1>2, <1>3, <1>5, <1>6, <1>8 DEF a, n

-----------------------------------------------------------------------------
(* Usage                                                                   *)

Payloads == [input : Nat, output : Nat, reasoning : Nat, cache_read : Nat, cache_write : Nat]

\* A reply says how it is charged.
Sound(reply) ==
    /\ reply.usage \in Payloads /\ reply.prompt \in Nat /\ reply.generated \in Nat
    /\ reply.usage.input = reply.prompt
    /\ reply.usage.output + reply.usage.reasoning = reply.generated
    /\ reply.usage.cache_read + reply.usage.cache_write <= reply.usage.input

LEMMA AnthropicSound ==
  ASSUME NEW u \in AnthropicReports(Nat)
  PROVE  Sound([usage |-> AnthropicUsage(u), prompt |-> u.input + u.read + u.write, generated |-> u.output])
<1>1. /\ u.input \in Nat /\ u.output \in Nat /\ u.read \in Nat /\ u.write \in Nat
      /\ u.thinking \in Nat /\ u.other \in Nat
  BY DEF AnthropicReports
<1>2. ThinkingTokens(u) \in Nat
  <2>1. ASSUME NEW a \in Nat, NEW c \in Nat \ {0}
        PROVE  a \div c \in Nat
    BY <2>1
  <2>2. u.output * u.thinking \in Nat
    BY <1>1
  <2>3. u.thinking # 0 => u.thinking + u.other \in Nat \ {0}
    BY <1>1
  <2> QED
    BY <2>1, <2>2, <2>3 DEF ThinkingTokens
<1>3. Less(ThinkingTokens(u), u.output) \in 0 .. u.output
  BY <1>1, <1>2 DEF Less
<1> QED
  BY <1>1, <1>3 DEF Sound, Payloads, AnthropicUsage, Payload

LEMMA OpenAISound ==
  ASSUME NEW u \in OpenAIReports(Nat)
  PROVE  Sound([usage |-> OpenAIUsage(u), prompt |-> u.prompt, generated |-> u.completion])
BY DEF OpenAIReports, Sound, Payloads, OpenAIUsage, Payload, Less

LEMMA GeminiSound ==
  ASSUME NEW u \in GeminiReports(Nat)
  PROVE  Sound([usage |-> GeminiUsage(u), prompt |-> u.prompt, generated |-> u.candidates + u.thoughts])
BY DEF GeminiReports, Sound, Payloads, GeminiUsage, Payload

LEMMA RepliesAreSound ==
  ASSUME NEW reply \in Replies(Nat)
  PROVE  Sound(reply)
BY AnthropicSound, OpenAISound, GeminiSound DEF Replies

LEMMA TallyCounts ==
  ASSUME NEW acc \in Payloads, NEW usage \in Payloads
  PROVE  /\ Tally(acc, usage) \in Payloads
         /\ Tally(acc, usage).input = acc.input + usage.input
         /\ Tally(acc, usage).output = acc.output + usage.output
         /\ Tally(acc, usage).reasoning = acc.reasoning + usage.reasoning
         /\ Tally(acc, usage).cache_read = acc.cache_read + usage.cache_read
         /\ Tally(acc, usage).cache_write = acc.cache_write + usage.cache_write
BY DEF Tally, Payloads

LEMMA ZeroCounts == zero_tokens \in Payloads
BY DEF zero_tokens, Payloads, Payload

\* The tally after n replies.
LEMMA TalliedReplies ==
  ASSUME NEW turn \in Seq(Replies(Nat))
  PROVE  \E acc \in [0 .. Len(turn) -> Payloads] :
           /\ acc[0] = zero_tokens
           /\ \A n \in 1 .. Len(turn) : acc[n] = Tally(acc[n - 1], turn[n].usage)
           /\ Tallied(turn) = acc[Len(turn)]
<1> DEFINE L == Len(turn)
           F == [p \in Payloads \X (1 .. L) |-> Tally(p[1], turn[p[2]].usage)]
           A(h) == [n \in 0 .. L |-> IF n = 0 THEN zero_tokens ELSE Tally(h[n - 1], turn[n].usage)]
           acc == CHOOSE h : h = A(h)
<1>1. L \in Nat
  OBVIOUS
<1>2. Tallied(turn) = acc[L]
  BY DEF Tallied
<1>3. ASSUME NEW n \in 1 .. L
      PROVE  turn[n].usage \in Payloads
  BY <1>1, RepliesAreSound DEF Sound
<1> HIDE DEF L
<1>4. F \in Steps(Payloads, L)
  BY <1>3, TallyCounts DEF Steps
<1>5. Recursive(L, Payloads, zero_tokens, F)
  <2> HIDE DEF F
  <2> QED
    BY <1>1, <1>4, ZeroCounts, Recursion
<1>6. PICK g : g = A(g)
  <2>1. PICK g \in [0 .. L -> Payloads] : Follows(g, L, Payloads, zero_tokens, F)
    BY <1>5 DEF Recursive
  <2>2. ASSUME NEW i \in 1 .. L
        PROVE  g[i] = Tally(g[i - 1], turn[i].usage)
    <3>1. g[i - 1] \in Payloads
      BY <1>1
    <3> QED
      BY <2>1, <3>1 DEF Follows
  <2> QED
    BY <1>1, <2>1, <2>2 DEF Follows
<1>7. acc = A(acc)
  <2> HIDE DEF A
  <2> QED
    BY <1>6
<1> HIDE DEF acc
<1>8. acc[0] = zero_tokens /\ \A n \in 1 .. L : acc[n] = Tally(acc[n - 1], turn[n].usage)
  BY <1>1, <1>7
<1>9. \A i \in 0 .. L : acc[i] \in Payloads
  <2>1. Follows(acc, L, Payloads, zero_tokens, F)
    BY <1>8 DEF Follows
  <2> HIDE DEF F
  <2> QED
    BY <1>1, <1>4, <2>1, ZeroCounts, RecursionStays
<1>10. acc \in [0 .. L -> Payloads]
  <2>1. DOMAIN acc = 0 .. L /\ acc = [i \in 0 .. L |-> acc[i]]
    BY <1>7
  <2> QED
    BY <1>9, <2>1
<1> QED
  BY <1>2, <1>8, <1>10 DEF L

Charged == [prompt : Nat, generated : Nat]

\* What is charged for the first n replies.
LEMMA ChargesOfReplies ==
  ASSUME NEW turn \in Seq(Replies(Nat))
  PROVE  \E sum \in [0 .. Len(turn) -> Charged] :
           /\ sum[0] = [prompt |-> 0, generated |-> 0]
           /\ \A n \in 1 .. Len(turn) :
                sum[n] = [prompt    |-> sum[n - 1].prompt + turn[n].prompt,
                          generated |-> sum[n - 1].generated + turn[n].generated]
           /\ Charges(turn) = sum[Len(turn)]
<1> DEFINE L == Len(turn)
           zero == [prompt |-> 0, generated |-> 0]
           More(c, n) == [prompt    |-> c.prompt + turn[n].prompt,
                          generated |-> c.generated + turn[n].generated]
           F == [p \in Charged \X (1 .. L) |-> More(p[1], p[2])]
           A(h) == [n \in 0 .. L |-> IF n = 0 THEN zero ELSE More(h[n - 1], n)]
           sum == CHOOSE h : h = A(h)
<1>1. L \in Nat
  OBVIOUS
<1>2. Charges(turn) = sum[L]
  BY DEF Charges
<1>3. ASSUME NEW c \in Charged, NEW n \in 1 .. L
      PROVE  More(c, n) \in Charged
  <2>1. turn[n].prompt \in Nat /\ turn[n].generated \in Nat
    BY <1>1, RepliesAreSound DEF Sound
  <2> QED
    BY <2>1 DEF Charged
<1> HIDE DEF L
<1>4. F \in Steps(Charged, L)
  <2> HIDE DEF More
  <2> QED
    BY <1>3 DEF Steps
<1>5. zero \in Charged
  BY DEF Charged
<1> HIDE DEF zero, More
<1>6. Recursive(L, Charged, zero, F)
  <2> HIDE DEF F
  <2> QED
    BY <1>1, <1>4, <1>5, Recursion
<1>7. PICK g : g = A(g)
  <2>1. PICK g \in [0 .. L -> Charged] : Follows(g, L, Charged, zero, F)
    BY <1>6 DEF Recursive
  <2>2. ASSUME NEW i \in 1 .. L
        PROVE  g[i] = More(g[i - 1], i)
    <3>1. g[i - 1] \in Charged
      BY <1>1
    <3> QED
      BY <2>1, <3>1 DEF Follows
  <2> QED
    BY <1>1, <2>1, <2>2 DEF Follows
<1>8. sum = A(sum)
  <2> HIDE DEF A
  <2> QED
    BY <1>7
<1> HIDE DEF sum
<1>9. sum[0] = zero /\ \A n \in 1 .. L : sum[n] = More(sum[n - 1], n)
  BY <1>1, <1>8
<1>10. \A i \in 0 .. L : sum[i] \in Charged
  <2>1. Follows(sum, L, Charged, zero, F)
    BY <1>9 DEF Follows
  <2> HIDE DEF F
  <2> QED
    BY <1>1, <1>4, <1>5, <2>1, RecursionStays
<1>11. sum \in [0 .. L -> Charged]
  <2>1. sum = [i \in 0 .. L |-> sum[i]]
    BY <1>8
  <2> QED
    BY <1>10, <2>1
<1> QED
  BY <1>2, <1>9, <1>11 DEF L, More, zero

LEMMA TurnChargedOnce ==
  ASSUME UsageAssumption, NEW turn \in Seq(Replies(Nat))
  PROVE  ChargedOnce(turn)
<1> DEFINE L == Len(turn)
<1>1. PICK acc \in [0 .. L -> Payloads] :
        /\ acc[0] = zero_tokens
        /\ \A n \in 1 .. L : acc[n] = Tally(acc[n - 1], turn[n].usage)
        /\ Tallied(turn) = acc[L]
  BY TalliedReplies
<1>2. PICK sum \in [0 .. L -> Charged] :
        /\ sum[0] = [prompt |-> 0, generated |-> 0]
        /\ \A n \in 1 .. L :
             sum[n] = [prompt    |-> sum[n - 1].prompt + turn[n].prompt,
                       generated |-> sum[n - 1].generated + turn[n].generated]
        /\ Charges(turn) = sum[L]
  BY ChargesOfReplies
<1> DEFINE Even(a, c) == /\ a.input = c.prompt /\ a.output + a.reasoning = c.generated
                         /\ a.cache_read + a.cache_write <= a.input
           T == {n \in 0 .. L : Even(acc[n], sum[n])}
<1>3. L \in Nat
  OBVIOUS
<1>4. 0 \in T
  BY <1>1, <1>2, <1>3 DEF zero_tokens, Payload
<1>5. ASSUME NEW n \in 1 .. L, n - 1 \in T
      PROVE  n \in T
  <2> DEFINE u == turn[n].usage
  <2>1. Sound(turn[n])
    BY RepliesAreSound
  <2>2. acc[n - 1] \in Payloads /\ sum[n - 1] \in Charged
    BY <1>3
  <2>3. Even(acc[n - 1], sum[n - 1])
    BY <1>5
  <2> DEFINE a == acc[n - 1]
             c == sum[n - 1]
  <2>4. /\ acc[n].input = a.input + u.input
        /\ acc[n].output = a.output + u.output
        /\ acc[n].reasoning = a.reasoning + u.reasoning
        /\ acc[n].cache_read = a.cache_read + u.cache_read
        /\ acc[n].cache_write = a.cache_write + u.cache_write
    BY <1>1, <2>1, <2>2, TallyCounts DEF Sound
  <2>5. sum[n].prompt = c.prompt + turn[n].prompt /\ sum[n].generated = c.generated + turn[n].generated
    <3>1. sum[n] = [prompt    |-> sum[n - 1].prompt + turn[n].prompt,
                    generated |-> sum[n - 1].generated + turn[n].generated]
      BY <1>2
    <3> QED
      BY <3>1
  <2>6. /\ a.input \in Nat /\ a.output \in Nat /\ a.reasoning \in Nat
        /\ a.cache_read \in Nat /\ a.cache_write \in Nat
        /\ c.prompt \in Nat /\ c.generated \in Nat
    BY <2>2 DEF Payloads, Charged
  <2>7. /\ u.input \in Nat /\ u.output \in Nat /\ u.reasoning \in Nat
        /\ u.cache_read \in Nat /\ u.cache_write \in Nat
        /\ u.input = turn[n].prompt /\ u.output + u.reasoning = turn[n].generated
        /\ u.cache_read + u.cache_write <= u.input
    BY <2>1 DEF Sound, Payloads
  <2> HIDE DEF u, a, c
  <2>8. Even(a, c)
    BY <2>3 DEF a, c
  <2>9. Even(acc[n], sum[n])
    <3>1. acc[n].input = sum[n].prompt
      BY <2>4, <2>5, <2>7, <2>8
    <3>2. acc[n].output + acc[n].reasoning = sum[n].generated
      <4>1. (a.output + u.output) + (a.reasoning + u.reasoning)
              = (a.output + a.reasoning) + (u.output + u.reasoning)
        <5>1. a.output \in Nat /\ a.reasoning \in Nat /\ u.output \in Nat /\ u.reasoning \in Nat
          BY <2>6, <2>7
        <5> QED
          BY <5>1
      <4> QED
        BY <2>4, <2>5, <2>7, <2>8, <4>1
    <3>3. acc[n].cache_read + acc[n].cache_write <= acc[n].input
      <4>1. \A r, w, i, q, v, j \in Nat : r + w <= i /\ q + v <= j => (r + q) + (w + v) <= i + j
        OBVIOUS
      <4>2. (a.cache_read + u.cache_read) + (a.cache_write + u.cache_write) <= a.input + u.input
        BY <2>6, <2>7, <2>8, <4>1
      <4> QED
        BY <2>4, <4>2
    <3> QED
      BY <3>1, <3>2, <3>3
  <2> QED
    BY <2>9
<1>6. L \in T
  <2>1. \A i \in 0 .. L : i \in T
    <3> HIDE DEF T
    <3> QED
      BY <1>3, <1>4, <1>5, Upwards
  <2>2. L \in 0 .. L
    BY <1>3
  <2> QED
    BY <2>1, <2>2
<1> DEFINE a == acc[L]
           c == sum[L]
<1>7. /\ a.input \in Nat /\ a.output \in Nat /\ a.reasoning \in Nat
      /\ a.cache_read \in Nat /\ a.cache_write \in Nat
      /\ c.prompt \in Nat /\ c.generated \in Nat
  <2>1. acc[L] \in Payloads /\ sum[L] \in Charged
    BY <1>3
  <2> QED
    BY <2>1 DEF Payloads, Charged
<1>8. Even(a, c) /\ Tallied(turn) = a /\ Charges(turn) = c
  BY <1>1, <1>2, <1>6
<1> HIDE DEF a, c
<1>9. billable_total(a) = c.prompt + c.generated
  BY <1>7, <1>8 DEF billable_total
<1>10. cost_usd(a, UnitPrice) = c.prompt + c.generated
  <2>1. UnitPrice # Unpriced
    <3>1. UnitPrice \in Prices
      BY DEF UnitPrice, Prices
    <3> QED
      BY <3>1 DEF UsageAssumption
  <2>2. cost_usd(a, UnitPrice) =
          Minus(a.input, a.cache_read + a.cache_write) * 1 + a.cache_read * 1
            + a.cache_write * 1 + (a.output + a.reasoning) * 1
    BY <2>1 DEF cost_usd, UnitPrice
  <2>3. Minus(a.input, a.cache_read + a.cache_write) + a.cache_read + a.cache_write = a.input
    <3>1. a.cache_read + a.cache_write <= a.input
      BY <1>8
    <3>2. \A i, q, v \in Nat : q + v <= i => Minus(i, q + v) + q + v = i
      BY DEF Minus
    <3> QED
      BY <1>7, <3>1, <3>2
  <2>4. Minus(a.input, a.cache_read + a.cache_write) \in Nat
    BY <1>7 DEF Minus
  <2>5. \A m, i, v, g \in Nat : m * 1 + i * 1 + v * 1 + g * 1 = m + i + v + g
    OBVIOUS
  <2>6. cost_usd(a, UnitPrice) = a.input + (a.output + a.reasoning)
    BY <1>7, <2>2, <2>3, <2>4, <2>5
  <2> QED
    BY <1>7, <1>8, <2>6
<1> QED
  BY <1>8, <1>9, <1>10 DEF ChargedOnce

\* Whatever the vendors report in a turn of any length, every token is charged to the
\* budget once and priced once, and a reply whose endpoint reports nothing is neither
\* free nor charged for more than a token per four characters (_norm_usage, tally,
\* billable_total, cost_usd, _estimate_usage).
THEOREM UsageLawHolds == ASSUME UsageAssumption PROVE UsageSpec => []UsageLaw
<1> DEFINE Inv == replies \in Seq(Replies(Nat)) /\ unreported \in Unreported(Nat)
           uVars == <<replies, unreported>>
<1>1. ASSUME UsageInit
      PROVE  Inv
  BY <1>1 DEF UsageInit, Silence, Unreported
<1>2. Replies(Counts) \subseteq Replies(Nat)
  <2>1. Counts \subseteq Nat
    BY DEF UsageAssumption
  <2>2. /\ AnthropicReports(Counts) \subseteq AnthropicReports(Nat)
        /\ OpenAIReports(Counts) \subseteq OpenAIReports(Nat)
        /\ GeminiReports(Counts) \subseteq GeminiReports(Nat)
    BY <2>1 DEF AnthropicReports, OpenAIReports, GeminiReports
  <2> QED
    BY <2>2 DEF Replies
<1>3. ASSUME Inv, [Reported \/ Unheard]_uVars
      PROVE  Inv'
  <2>1. CASE Reported
    <3>1. PICK reply \in Replies(Counts) : replies' = Append(replies, reply)
      BY <2>1 DEF Reported
    <3>2. replies' \in Seq(Replies(Nat))
      <4>1. reply \in Replies(Nat)
        BY <1>2
      <4> QED
        BY <1>3, <3>1, <4>1, AppendProperties
    <3> QED
      BY <1>3, <2>1, <3>2 DEF Reported
  <2>2. CASE Unheard
    <3>1. PICK part \in DOMAIN unreported : unreported' = [unreported EXCEPT ![part] = @ + 1]
      BY <2>2 DEF Unheard
    <3>2. unreported' \in Unreported(Nat)
      BY <1>3, <3>1 DEF Unreported
    <3> QED
      BY <1>3, <2>2, <3>2 DEF Unheard
  <2>3. CASE UNCHANGED uVars
    BY <1>3, <2>3
  <2> QED
    BY <1>3, <2>1, <2>2, <2>3
<1>4. ASSUME Inv
      PROVE  UsageLaw
  <2>1. NeverFree(unreported)
    <3> DEFINE p == unreported.prompt
               c == unreported.completion
               r == unreported.reasoning
               input == IF p < 8 THEN 1 ELSE p \div 4
    <3>1. p \in Nat /\ c \in Nat /\ r \in Nat
      BY <1>4 DEF Unreported
    <3>2. billable_total(Tally(zero_tokens, EstimatedUsage(unreported))) =
            (0 + input) + (0 + c \div 4) + (0 + r \div 4)
      BY DEF EstimatedUsage, Tally, zero_tokens, billable_total, Payload
    <3>3. NeverFree(unreported) <=>
            LET charged == (0 + input) + (0 + c \div 4) + (0 + r \div 4)
            IN  charged >= 1 /\ 4 * (charged - 1) <= p + c + r
      BY <3>2 DEF NeverFree
    <3> HIDE DEF p, c, r
    <3> QED
      BY <3>1, <3>3
  <2> QED
    BY <1>4, <2>1, TurnChargedOnce DEF UsageLaw
<1> QED
  BY <1>1, <1>3, <1>4, PTL DEF UsageSpec

-----------------------------------------------------------------------------
(* KbReader                                                                *)

LEMMA Page ==
  ASSUME ReaderAssumption, NEW total \in Nat, NEW s \in Nat \ {0}
  PROVE  /\ To(total, s, ToTheEnd) \in Nat \ {0} /\ s <= To(total, s, ToTheEnd)
         /\ s <= total => /\ To(total, s, ToTheEnd) <= total
                          /\ LinesRead(total, s, ToTheEnd) = s .. To(total, s, ToTheEnd)
BY DEF ReaderAssumption, To, From, Wanted, Capped, Least, Greatest, LinesRead

\* The starts of the pages, the n-th page at index n.
LEMMA Pages ==
  ASSUME ReaderAssumption, NEW total \in Nat
  PROVE  \E start \in [0 .. total -> Nat \ {0}] :
           /\ start[0] = 1
           /\ \A n \in 1 .. total : start[n] = To(total, start[n - 1], ToTheEnd) + 1
           /\ PageStarts(total) = {start[n] : n \in 0 .. total} \cap 1 .. total
<1> DEFINE Next(s) == To(total, s, ToTheEnd) + 1
           S == Nat \ {0}
           F == [p \in S \X (1 .. total) |-> Next(p[1])]
           A(h) == [n \in 0 .. total |-> IF n = 0 THEN 1 ELSE Next(h[n - 1])]
           start == CHOOSE h : h = A(h)
<1>1. PageStarts(total) = {start[n] : n \in 0 .. total} \cap 1 .. total
  BY DEF PageStarts
<1>2. ASSUME NEW s \in S
      PROVE  Next(s) \in S
  <2>1. To(total, s, ToTheEnd) \in Nat \ {0}
    BY Page
  <2> QED
    BY <2>1
<1> HIDE DEF Next
<1>3. 1 \in S /\ F \in Steps(S, total)
  BY <1>2 DEF Steps
<1> HIDE DEF S
<1>4. Recursive(total, S, 1, F)
  <2> HIDE DEF F
  <2> QED
    BY <1>3, Recursion
<1>5. PICK g : g = A(g)
  <2>1. PICK g \in [0 .. total -> S] : Follows(g, total, S, 1, F)
    BY <1>4 DEF Recursive
  <2>2. ASSUME NEW i \in 1 .. total
        PROVE  g[i] = Next(g[i - 1])
    <3>1. g[i - 1] \in S
      OBVIOUS
    <3> QED
      BY <2>1, <3>1 DEF Follows
  <2> QED
    BY <2>1, <2>2 DEF Follows
<1>6. start = A(start)
  <2> HIDE DEF A
  <2> QED
    BY <1>5
<1> HIDE DEF start
<1>7. start[0] = 1 /\ \A n \in 1 .. total : start[n] = Next(start[n - 1])
  BY <1>6
<1>8. \A i \in 0 .. total : start[i] \in S
  <2>1. Follows(start, total, S, 1, F)
    BY <1>7 DEF Follows
  <2> HIDE DEF F
  <2> QED
    BY <1>3, <2>1, RecursionStays
<1>9. start \in [0 .. total -> S]
  <2>1. start = [i \in 0 .. total |-> start[i]]
    BY <1>6
  <2> QED
    BY <1>8, <2>1
<1> QED
  BY <1>1, <1>7, <1>9 DEF S, Next

LEMMA PagesAreWhole ==
  ASSUME ReaderAssumption, NEW total \in Nat
  PROVE  /\ UNION {LinesRead(total, s, ToTheEnd) : s \in PageStarts(total)} = 1 .. total
         /\ \A s, r \in PageStarts(total) : s # r =>
              LinesRead(total, s, ToTheEnd) \cap LinesRead(total, r, ToTheEnd) = {}
<1> DEFINE End(s) == To(total, s, ToTheEnd)
<1>1. PICK start \in [0 .. total -> Nat \ {0}] :
           /\ start[0] = 1
           /\ \A n \in 1 .. total : start[n] = End(start[n - 1]) + 1
           /\ PageStarts(total) = {start[n] : n \in 0 .. total} \cap 1 .. total
  BY Pages
<1>2. ASSUME NEW s \in Nat \ {0}
      PROVE  /\ End(s) \in Nat \ {0} /\ s <= End(s)
             /\ s <= total => End(s) <= total /\ LinesRead(total, s, ToTheEnd) = s .. End(s)
  BY Page
<1> HIDE DEF End
<1> DEFINE G == {n \in 0 .. total : start[n] >= n + 1}
<1>3. \A n \in 0 .. total : n \in G
  <2>1. 0 \in G
    BY <1>1
  <2>2. ASSUME NEW n \in 1 .. total, n - 1 \in G
        PROVE  n \in G
    <3>1. start[n - 1] \in Nat \ {0} /\ start[n - 1] >= n /\ start[n] = End(start[n - 1]) + 1
      BY <1>1, <2>2
    <3>2. End(start[n - 1]) >= n /\ End(start[n - 1]) \in Nat
      BY <1>2, <3>1
    <3> QED
      BY <3>1, <3>2
  <2> HIDE DEF G
  <2> QED
    BY <2>1, <2>2, Upwards
<1> DEFINE D == {n \in 0 .. total : \A m \in 0 .. n - 1 : End(start[m]) < start[n]}
<1>4. \A n \in 0 .. total : n \in D
  <2>1. 0 \in D
    OBVIOUS
  <2>2. ASSUME NEW n \in 1 .. total, n - 1 \in D
        PROVE  n \in D
    <3>1. start[n - 1] \in Nat \ {0} /\ start[n] = End(start[n - 1]) + 1
      BY <1>1
    <3>2. ASSUME NEW m \in 0 .. n - 1
          PROVE  End(start[m]) < start[n]
      <4>1. CASE m = n - 1
        <5>1. End(start[m]) \in Nat
          BY <1>2, <3>1, <4>1
        <5> QED
          BY <3>1, <4>1, <5>1
      <4>2. CASE m # n - 1
        <5>1. End(start[m]) < start[n - 1]
          BY <2>2, <4>2
        <5>2. start[n - 1] <= End(start[n - 1]) /\ End(start[n - 1]) \in Nat
          BY <1>2, <3>1
        <5>3. start[m] \in Nat \ {0} /\ End(start[m]) \in Nat
          BY <1>2
        <5> QED
          BY <3>1, <5>1, <5>2, <5>3
      <4> QED
        BY <4>1, <4>2
    <3> QED
      BY <3>2
  <2> HIDE DEF D
  <2> QED
    BY <2>1, <2>2, Upwards
<1>5. ASSUME NEW s \in PageStarts(total)
      PROVE  \E n \in 0 .. total :
               s = start[n] /\ s \in 1 .. total /\ LinesRead(total, s, ToTheEnd) = s .. End(s)
  BY <1>1, <1>2
<1>6. ASSUME NEW l \in 1 .. total
      PROVE  \E s \in PageStarts(total) : l \in LinesRead(total, s, ToTheEnd)
  <2> DEFINE B == {n \in 0 .. total : start[n] > l}
  <2>1. B \subseteq Nat /\ total \in B
    <3>1. total \in 0 .. total /\ start[total] \in Nat
      OBVIOUS
    <3>2. start[total] >= total + 1
      BY <1>3, <3>1
    <3> QED
      BY <3>1, <3>2
  <2>2. PICK n \in B : \A m \in B : n <= m
    <3> HIDE DEF B
    <3> QED
      BY <2>1, LeastNat
  <2>3. n \in 1 .. total /\ n - 1 \in 0 .. total /\ n - 1 \notin B
    BY <1>1, <2>2
  <2> DEFINE s == start[n - 1]
  <2>4. s \in Nat \ {0} /\ s <= l /\ start[n] = End(s) + 1 /\ start[n] > l
    BY <1>1, <2>2, <2>3
  <2>5. s \in PageStarts(total)
    BY <1>1, <2>3, <2>4
  <2> HIDE DEF s
  <2>6. LinesRead(total, s, ToTheEnd) = s .. End(s) /\ End(s) \in Nat
    BY <1>2, <2>4
  <2>7. l \in LinesRead(total, s, ToTheEnd)
    BY <2>4, <2>6
  <2> QED
    BY <2>5, <2>7
<1>7. ASSUME NEW s \in PageStarts(total)
      PROVE  LinesRead(total, s, ToTheEnd) \subseteq 1 .. total
  <2>1. s \in 1 .. total /\ LinesRead(total, s, ToTheEnd) = s .. End(s)
    BY <1>5
  <2>2. End(s) \in Nat /\ End(s) <= total
    BY <1>2, <2>1
  <2> QED
    BY <2>1, <2>2
<1>8. ASSUME NEW s \in PageStarts(total), NEW r \in PageStarts(total), s # r
      PROVE  LinesRead(total, s, ToTheEnd) \cap LinesRead(total, r, ToTheEnd) = {}
  <2>1. PICK m \in 0 .. total :
           s = start[m] /\ s \in 1 .. total /\ LinesRead(total, s, ToTheEnd) = s .. End(s)
    BY <1>5
  <2>2. PICK n \in 0 .. total :
           r = start[n] /\ r \in 1 .. total /\ LinesRead(total, r, ToTheEnd) = r .. End(r)
    BY <1>5
  <2>3. m < n => End(s) < r
    <3>1. m < n => m \in 0 .. n - 1
      OBVIOUS
    <3> QED
      BY <1>4, <2>1, <2>2, <3>1
  <2>4. n < m => End(r) < s
    <3>1. n < m => n \in 0 .. m - 1
      OBVIOUS
    <3> QED
      BY <1>4, <2>1, <2>2, <3>1
  <2>5. End(s) \in Nat /\ End(r) \in Nat
    BY <1>2, <2>1, <2>2
  <2>6. m # n
    BY <1>8, <2>1, <2>2
  <2> QED
    BY <2>1, <2>2, <2>3, <2>4, <2>5, <2>6
<1> QED
  BY <1>6, <1>7, <1>8

\* Where a window that begins with line a and should end with line w ends.
Clamped(a, w, M, total) == Least(Greatest(a, Least(w, Least(a + M - 1, total))), total)

LEMMA WindowArithmetic ==
  ASSUME NEW M \in Nat \ {0}, NEW total \in Nat, NEW a \in Int, NEW w \in Int
  PROVE  /\ Clamped(a, w, M, total) \in Int
         /\ a <= total => a <= Clamped(a, w, M, total)
         /\ total < a => Clamped(a, w, M, total) = total
         /\ Clamped(a, w, M, total) - a + 1 <= M
         /\ a <= w /\ w - a < M /\ a <= total => Clamped(a, w, M, total) = Least(w, total)
BY DEF Clamped, Least, Greatest

LEMMA Windows ==
  ASSUME ReaderAssumption, NEW total \in Nat, NEW s \in -1 .. total,
         NEW e \in {ToTheEnd} \cup (s .. total + 1)
  PROVE  /\ Cardinality(LinesRead(total, s, e)) \in (IF total = 0 THEN 0 ELSE 1) .. MaxLines
         /\ e # ToTheEnd /\ s >= 1 /\ e - s < MaxLines => LinesRead(total, s, e) = s .. Least(e, total)
<1> DEFINE a == From(s)
           w == Wanted(s, e)
           b == Clamped(a, w, MaxLines, total)
<1>1. MaxLines \in Nat \ {0} /\ DefaultLines \in Nat \ {0} /\ ToTheEnd \notin Int
  BY DEF ReaderAssumption
<1>2. /\ s \in Int /\ s <= total /\ a \in Int /\ a >= 1
      /\ total = 0 => a = 1
      /\ total # 0 => a <= total
      /\ s >= 1 => a = s
  BY DEF From, Greatest
<1>3. w \in Int /\ (e # ToTheEnd => w = e /\ w >= s /\ e \in Int)
  BY <1>1, <1>2 DEF Wanted
<1>4. LinesRead(total, s, e) = a .. b
  BY DEF LinesRead, To, Capped, Clamped
<1> HIDE DEF a, w
<1>5. /\ b \in Int
      /\ a <= total => a <= b
      /\ total < a => b = total
      /\ b - a + 1 <= MaxLines
      /\ a <= w /\ w - a < MaxLines /\ a <= total => b = Least(w, total)
  BY <1>1, <1>2, <1>3, WindowArithmetic
<1> HIDE DEF b
<1>6. Cardinality(a .. b) = IF a > b THEN 0 ELSE b - a + 1
  BY <1>2, <1>5, FS_Interval
<1>7. Cardinality(a .. b) \in (IF total = 0 THEN 0 ELSE 1) .. MaxLines
  BY <1>1, <1>2, <1>5, <1>6
<1>8. e # ToTheEnd /\ s >= 1 /\ e - s < MaxLines => a = s /\ b = Least(e, total)
  BY <1>2, <1>3, <1>5
<1> QED
  BY <1>4, <1>7, <1>8

\* Lines end behind one another.
Files ==
    {f \in Seq(Nat) : /\ \A i \in 1 .. Len(f) : f[i] >= 1
                      /\ \A i, j \in 1 .. Len(f) : i < j => f[i] < f[j]}

\* What a window of lines a .. b shows whole, and whether it is marked.
LEMMA TailIsCut ==
  ASSUME ReaderAssumption, NEW file \in Files, NEW s \in -1 .. Len(file),
         NEW e \in {ToTheEnd} \cup (s .. Len(file) + 1)
  PROVE  /\ Marked(file, s, e) <=> LinesShown(file, s, e) # LinesRead(Len(file), s, e)
         /\ s >= 1 => (s \in LinesShown(file, s, e) <=> Bytes(file, s, s) <= MaxBytes)
<1> DEFINE total == Len(file)
           a == From(s)
           b == Least(To(total, s, e), total)
           Whole(i) == Bytes(file, a, i) <= MaxBytes
<1>1. /\ MaxBytes \in Nat /\ total \in Nat /\ s \in Int /\ s <= total
      /\ \A i \in 1 .. total : file[i] \in Nat
      /\ \A i, j \in 1 .. total : i < j => file[i] < file[j]
  BY DEF ReaderAssumption, Files
<1>2. /\ a \in Int /\ a >= 1 /\ b \in Int /\ b <= total
      /\ s >= 1 => a = s /\ a <= b
  <2>1. MaxLines \in Nat \ {0} /\ DefaultLines \in Nat \ {0} /\ ToTheEnd \notin Int
    BY DEF ReaderAssumption
  <2>2. a \in Int /\ a >= 1 /\ (s >= 1 => a = s)
    BY <1>1 DEF From, Greatest
  <2>3. Wanted(s, e) \in Int
    BY <1>1, <2>1, <2>2 DEF Wanted
  <2> QED
    BY <1>1, <2>1, <2>2, <2>3 DEF To, Capped, Least, Greatest
<1>3. /\ LinesRead(Len(file), s, e) = a .. b
      /\ LinesShown(file, s, e) = {i \in a .. b : Whole(i)}
      /\ Marked(file, s, e) <=> b >= a /\ ~Whole(b)
  <2>1. LinesRead(Len(file), s, e) = a .. b
    BY DEF LinesRead
  <2>2. b >= a => Bytes(file, a, b) \in Int
    <3>1. b >= a => b \in 1 .. total /\ (a # 1 => a - 1 \in 1 .. total)
      BY <1>1, <1>2
    <3>2. b >= a => file[b] \in Nat /\ (a # 1 => file[a - 1] \in Nat)
      BY <1>1, <3>1
    <3> HIDE DEF a, b, total
    <3> QED
      BY <3>2 DEF Bytes
  <2>3. Marked(file, s, e) <=> b >= a /\ Bytes(file, a, b) > MaxBytes
    BY DEF Marked
  <2>4. LinesShown(file, s, e) = {i \in a .. b : Whole(i)}
    BY <2>1 DEF LinesShown
  <2> HIDE DEF a, b
  <2> QED
    BY <1>1, <2>1, <2>2, <2>3, <2>4
<1> HIDE DEF a, b
<1>4. ASSUME NEW i \in a .. b, Whole(b)
      PROVE  Whole(i)
  <2>1. i \in 1 .. total /\ b \in 1 .. total /\ i <= b /\ (a # 1 => a - 1 \in 1 .. total)
    BY <1>1, <1>2
  <2>2. /\ file[i] \in Nat /\ file[b] \in Nat /\ file[i] <= file[b]
        /\ a # 1 => file[a - 1] \in Nat
    <3> HIDE DEF total
    <3> QED
      BY <1>1, <2>1
  <2> DEFINE before == IF a = 1 THEN 0 ELSE file[a - 1]
  <2>3. before \in Nat
    BY <2>2
  <2>4. Bytes(file, a, i) = file[i] - before - 1 /\ Bytes(file, a, b) = file[b] - before - 1
    BY DEF Bytes
  <2> HIDE DEF before
  <2>5. MaxBytes \in Nat /\ file[b] - before - 1 <= MaxBytes
    BY <1>1, <1>4, <2>4
  <2>6. file[i] - before - 1 <= MaxBytes
    <3> DEFINE x == file[i]
               y == file[b]
    <3>1. x \in Nat /\ y \in Nat /\ x <= y /\ before \in Nat /\ y - before - 1 <= MaxBytes
      BY <2>2, <2>3, <2>5
    <3> HIDE DEF x, y
    <3>2. x - before - 1 <= MaxBytes
      BY <2>5, <3>1
    <3> QED
      BY <3>2 DEF x
  <2> QED
    BY <2>4, <2>6
<1> HIDE DEF Whole
<1>5. Marked(file, s, e) <=> LinesShown(file, s, e) # LinesRead(Len(file), s, e)
  BY <1>2, <1>3, <1>4
<1>6. s >= 1 => (s \in LinesShown(file, s, e) <=> Whole(s)) /\ a = s
  BY <1>1, <1>2, <1>3
<1> QED
  BY <1>5, <1>6 DEF Whole

LEMMA FilesCovered ==
  ASSUME ReaderAssumption, NEW file \in Files
  PROVE  PagesCover(file)
<1>1. Len(file) \in Nat
  BY DEF Files
<1> QED
  BY <1>1, PagesAreWhole, Windows, TailIsCut DEF PagesCover

\* A line more.
LEMMA FileGrows ==
  ASSUME NEW f \in Files, NEW w \in Nat
  PROVE  Append(f, (IF f = <<>> THEN 0 ELSE f[Len(f)]) + w + 1) \in Files
<1> DEFINE x == (IF f = <<>> THEN 0 ELSE f[Len(f)]) + w + 1
           g == Append(f, x)
           n == Len(f)
<1>1. /\ f \in Seq(Nat) /\ n \in Nat
      /\ \A i \in 1 .. n : f[i] \in Nat /\ f[i] >= 1
      /\ \A i, j \in 1 .. n : i < j => f[i] < f[j]
      /\ f # <<>> => n \in 1 .. n
  BY DEF Files
<1>2. x \in Nat /\ x >= 1 /\ \A i \in 1 .. n : f[i] < x
  <2>1. f = <<>> => x = w + 1 /\ n = 0
    OBVIOUS
  <2>2. f # <<>> => x = f[n] + w + 1 /\ f[n] \in Nat
    BY <1>1
  <2>3. ASSUME NEW i \in 1 .. n
        PROVE  f # <<>> /\ f[i] <= f[n]
    <3>1. f # <<>> /\ n \in 1 .. n
      BY <1>1, <2>3
    <3>2. f[i] \in Nat /\ f[n] \in Nat /\ (i < n => f[i] < f[n])
      <4> HIDE DEF n
      <4> QED
        BY <1>1, <3>1
    <3>3. i = n \/ i < n
      BY <1>1
    <3> QED
      BY <3>1, <3>2, <3>3
  <2> HIDE DEF x
  <2>4. x \in Nat /\ x >= 1
    BY <2>1, <2>2
  <2>5. ASSUME NEW i \in 1 .. n
        PROVE  f[i] < x
    <3>1. f[i] \in Nat /\ f[n] \in Nat /\ f[i] <= f[n] /\ x = f[n] + w + 1
      BY <1>1, <2>2, <2>3
    <3> QED
      BY <3>1
  <2> QED
    BY <2>4, <2>5
<1> HIDE DEF x
<1>3. /\ g \in Seq(Nat) /\ Len(g) = n + 1 /\ g[n + 1] = x
      /\ \A i \in 1 .. n : g[i] = f[i]
  <2>1. /\ Append(f, x) \in Seq(Nat) /\ Len(Append(f, x)) = Len(f) + 1
        /\ Append(f, x)[Len(f) + 1] = x
        /\ \A i \in 1 .. Len(f) : Append(f, x)[i] = f[i]
    BY <1>1, <1>2, AppendProperties
  <2> QED
    BY <2>1
<1> HIDE DEF g, n
<1>4. ASSUME NEW i \in 1 .. n + 1
      PROVE  g[i] >= 1
  <2>1. CASE i = n + 1
    BY <1>2, <1>3, <2>1
  <2>2. CASE i \in 1 .. n
    <3>1. g[i] = f[i] /\ f[i] >= 1
      BY <1>1, <1>3, <2>2
    <3> QED
      BY <3>1
  <2> QED
    BY <1>1, <2>1, <2>2
<1>5. ASSUME NEW i \in 1 .. n + 1, NEW j \in 1 .. n + 1, i < j
      PROVE  g[i] < g[j]
  <2>1. i \in 1 .. n /\ g[i] = f[i]
    BY <1>1, <1>3, <1>5
  <2>2. CASE j = n + 1
    BY <1>2, <1>3, <2>1, <2>2
  <2>3. CASE j \in 1 .. n
    BY <1>1, <1>3, <1>5, <2>1, <2>3
  <2> QED
    BY <1>1, <2>2, <2>3
<1>6. g \in Files
  BY <1>3, <1>4, <1>5 DEF Files
<1> QED
  BY <1>6 DEF g, x

LEMMA PrefixOf ==
  ASSUME NEW p \in Seq(Names), NEW i \in 0 .. Len(p)
  PROVE  /\ SubSeq(p, 1, i) \in Seq(Names) /\ Len(SubSeq(p, 1, i)) = i
         /\ \A j \in 1 .. i : SubSeq(p, 1, i)[j] = p[j]
BY SubSeqProperties

\* The directories that have been listed and what they showed, after n listings.
LEMMA SeenListings ==
  ASSUME NEW files, NEW n \in Nat
  PROVE  \E seen :
           /\ seen[0] = {<<>>}
           /\ \A i \in 1 .. n :
                seen[i] = seen[i - 1] \cup UNION {Listed(files, d) : d \in seen[i - 1] \cap Dirs(files)}
           /\ Seen(files, n) = seen[n]
<1> DEFINE More(s) == s \cup UNION {Listed(files, d) : d \in s \cap Dirs(files)}
           S == SUBSET (files \cup Dirs(files))
           F == [p \in S \X (1 .. n) |-> More(p[1])]
           A(h) == [i \in 0 .. n |-> IF i = 0 THEN {<<>>} ELSE More(h[i - 1])]
           seen == CHOOSE h : h = A(h)
<1>1. Seen(files, n) = seen[n]
  BY DEF Seen
<1>2. \A s \in S : More(s) \in S
  BY DEF Listed
<1>3. {<<>>} \in S
  BY DEF Dirs
<1> HIDE DEF More, S
<1>4. F \in Steps(S, n)
  BY <1>2 DEF Steps
<1>5. Recursive(n, S, {<<>>}, F)
  <2> HIDE DEF F
  <2> QED
    BY <1>3, <1>4, Recursion
<1>6. PICK g : g = A(g)
  <2>1. PICK g \in [0 .. n -> S] : Follows(g, n, S, {<<>>}, F)
    BY <1>5 DEF Recursive
  <2>2. ASSUME NEW i \in 1 .. n
        PROVE  g[i] = More(g[i - 1])
    <3>1. g[i - 1] \in S
      OBVIOUS
    <3> QED
      BY <2>1, <3>1 DEF Follows
  <2> QED
    BY <2>1, <2>2 DEF Follows
<1>7. seen = A(seen)
  <2> HIDE DEF A
  <2> QED
    BY <1>6
<1> HIDE DEF seen
<1>8. seen[0] = {<<>>} /\ \A i \in 1 .. n : seen[i] = More(seen[i - 1])
  <2>1. 0 \in 0 .. n /\ \A i \in 1 .. n : i \in 0 .. n /\ i # 0
    OBVIOUS
  <2> QED
    BY <1>7, <2>1
<1> QED
  BY <1>1, <1>8 DEF More

LEMMA ListingGoesDown ==
  ASSUME NEW files \in Trees, NEW p \in files, NEW i \in 1 .. Len(p), p[i] \notin Dotted
  PROVE  /\ SubSeq(p, 1, i - 1) \in Dirs(files)
         /\ SubSeq(p, 1, i) \in Listed(files, SubSeq(p, 1, i - 1))
<1> DEFINE d == SubSeq(p, 1, i - 1)
           q == SubSeq(p, 1, i)
<1>1. p \in Seq(Names) /\ p # <<>>
  BY DEF Trees
<1>2. Len(p) \in Nat /\ i \in Nat /\ i - 1 \in 0 .. Len(p) /\ i \in 0 .. Len(p)
  BY <1>1
<1>3. d \in Seq(Names) /\ Len(d) = i - 1 /\ \A j \in 1 .. i - 1 : d[j] = p[j]
  BY <1>1, <1>2, PrefixOf
<1>4. q \in Seq(Names) /\ Len(q) = i /\ \A j \in 1 .. i : q[j] = p[j]
  BY <1>1, <1>2, PrefixOf
<1>5. d \in Dirs(files)
  <2>1. CASE i = 1
    <3>1. d = <<>>
      BY <2>1, SubSeqEmpty
    <3> QED
      BY <3>1 DEF Dirs
  <2>2. CASE i # 1
    <3>1. i - 1 \in 1 .. Len(p) - 1
      BY <1>2, <2>2
    <3> QED
      BY <3>1 DEF Dirs
  <2> QED
    BY <2>1, <2>2
<1>6. q \in files \cup Dirs(files)
  <2>1. CASE i = Len(p)
    <3>1. q = p
      BY <1>1, <2>1, SubSeqFull
    <3> QED
      BY <3>1
  <2>2. CASE i # Len(p)
    <3>1. i \in 1 .. Len(p) - 1
      BY <1>2, <2>2
    <3> QED
      BY <3>1 DEF Dirs
  <2> QED
    BY <2>1, <2>2
<1> HIDE DEF d, q
<1>7. Below(d, q)
  BY <1>2, <1>3, <1>4 DEF Below
<1>8. Len(q) - Len(d) <= Depth(d)
  BY <1>2, <1>3, <1>4 DEF Depth
<1>9. ~Ignored(q)
  BY <1>2, <1>4 DEF Ignored
<1> QED
  BY <1>5, <1>6, <1>7, <1>8, <1>9 DEF Listed, d, q

LEMMA TreesCovered ==
  ASSUME NEW files \in Trees
  PROVE  ListingLeadsEverywhere(files)
<1> SUFFICES ASSUME NEW p \in IterFiles(files, <<>>), \A i \in 1 .. Len(p) - 1 : p[i] \notin Dotted
             PROVE  p \in Seen(files, Len(p))
  BY DEF ListingLeadsEverywhere
<1>1. p \in files /\ ~Ignored(p) /\ p \in Seq(Names) /\ p # <<>>
  BY DEF IterFiles, Trees
<1> DEFINE n == Len(p)
<1>2. n \in Nat /\ n # 0
  BY <1>1, EmptySeq
<1>3. \A i \in 1 .. n : p[i] \notin Dotted
  BY <1>1, <1>2 DEF Ignored
<1> HIDE DEF n
<1>4. PICK seen :
           /\ seen[0] = {<<>>}
           /\ \A i \in 1 .. n :
                seen[i] = seen[i - 1] \cup UNION {Listed(files, d) : d \in seen[i - 1] \cap Dirs(files)}
           /\ Seen(files, n) = seen[n]
  BY <1>2, SeenListings
<1> DEFINE T == {i \in 0 .. n : SubSeq(p, 1, i) \in seen[i]}
<1>5. 0 \in T
  <2>1. SubSeq(p, 1, 0) = <<>>
    BY SubSeqEmpty
  <2>2. SubSeq(p, 1, 0) \in seen[0]
    BY <1>4, <2>1, Zenon
  <2>3. 0 \in 0 .. n
    BY <1>2
  <2> QED
    BY <2>2, <2>3, Zenon
<1>6. ASSUME NEW i \in 1 .. n, i - 1 \in T
      PROVE  i \in T
  <2>1. SubSeq(p, 1, i - 1) \in seen[i - 1] \cap Dirs(files)
    BY <1>1, <1>3, <1>6, ListingGoesDown DEF n
  <2>2. SubSeq(p, 1, i) \in Listed(files, SubSeq(p, 1, i - 1))
    BY <1>1, <1>3, ListingGoesDown DEF n
  <2>3. SubSeq(p, 1, i) \in seen[i]
    BY <1>4, <2>1, <2>2
  <2> QED
    BY <1>2, <2>3
<1>7. n \in T
  <2>1. \A i \in 0 .. n : i \in T
    <3> HIDE DEF T
    <3> QED
      BY <1>2, <1>5, <1>6, Upwards
  <2> QED
    BY <1>2, <2>1
<1>8. SubSeq(p, 1, n) = p
  BY <1>1, SubSeqFull DEF n
<1> QED
  BY <1>4, <1>7, <1>8 DEF n

\* Reading a file of any length page by page reports every line once, in pieces within the
\* limit of lines, a line that the byte limit kept back is in a piece marked as cut and can
\* be had by reading from it, unless it alone is over the limit; and listing leads to every
\* file that the search can find, except below dotted directories, in a knowledge base of
\* any shape (read_file, list_kb, iter_kb_files).
THEOREM ReadingLawHolds == ASSUME ReaderAssumption PROVE KbSpec => []ReadingLaw
<1> DEFINE Inv == kbFiles \in Trees /\ lineEnds \in Files
           kbVars == <<kbFiles, lineEnds>>
<1>1. ASSUME KbInit
      PROVE  Inv
  BY <1>1 DEF KbInit, Trees, Files
<1>2. ASSUME Inv, [KbNext]_kbVars
      PROVE  Inv'
  <2>1. ASSUME NEW p \in KbPaths, AddFile(p)
        PROVE  Inv'
    BY <1>2, <2>1 DEF AddFile
  <2>2. ASSUME NEW width \in Widths, AddLine(width)
        PROVE  Inv'
    <3>1. width \in Nat
      BY DEF ReaderAssumption
    <3>2. lineEnds' \in Files
      BY <1>2, <2>2, <3>1, FileGrows DEF AddLine
    <3> QED
      BY <1>2, <2>2, <3>2 DEF AddLine
  <2>3. CASE UNCHANGED kbVars
    BY <1>2, <2>3
  <2> QED
    BY <1>2, <2>1, <2>2, <2>3 DEF KbNext
<1>3. ASSUME Inv
      PROVE  ReadingLaw
  BY <1>3, FilesCovered, TreesCovered DEF ReadingLaw
<1> QED
  BY <1>1, <1>2, <1>3, PTL DEF KbSpec


-----------------------------------------------------------------------------
(* StreamAssembly: the calls of a message do not mix.                      *)

Call == [id : {None} \cup Nat, name : Nat, args : Seq(Nat)]

FiniteDomains == {D \in SUBSET Nat : IsFiniteSet(D)}

Collected ==
    [calls : UNION {[D -> Call] : D \in FiniteDomains}, starts : Seq(Nat), at : Seq(Nat)]

Fresh == [calls |-> <<>>, starts |-> <<>>, at |-> <<>>]

\* The call at k as it is before a fragment, and with it.
Old(calls, k) == IF k \in DOMAIN calls THEN calls[k] ELSE NewCall

Added(acc, f, n) ==
    [id   |-> IF f.id # None THEN f.id ELSE acc.id,
     name |-> IF f.name THEN n ELSE acc.name,
     args |-> IF f.args THEN Append(acc.args, n) ELSE acc.args]

With(calls, k, new) == [i \in DOMAIN calls \cup {k} |-> IF i = k THEN new ELSE calls[i]]

LEMMA MergeOf ==
  ASSUME NEW state, NEW f, NEW n
  PROVE  /\ Merge(state, f, n).calls =
              With(state.calls, IndexOf(state.calls, f),
                   Added(Old(state.calls, IndexOf(state.calls, f)), f, n))
         /\ Merge(state, f, n).starts =
              IF f.name /\ Old(state.calls, IndexOf(state.calls, f)).name = 0
              THEN Append(state.starts, IndexOf(state.calls, f)) ELSE state.starts
         /\ Merge(state, f, n).at = Append(state.at, IndexOf(state.calls, f))
BY DEF Merge, With, Added, Old

LEMMA CollectedIs ==
  ASSUME NEW state \in Collected
  PROVE  /\ DOMAIN state.calls \in SUBSET Nat /\ IsFiniteSet(DOMAIN state.calls)
         /\ state.calls \in [DOMAIN state.calls -> Call]
         /\ state.starts \in Seq(Nat) /\ state.at \in Seq(Nat)
<1>1. PICK D \in FiniteDomains : state.calls \in [D -> Call]
  BY DEF Collected
<1>2. DOMAIN state.calls = D
  BY <1>1
<1> QED
  BY <1>1, <1>2 DEF Collected, FiniteDomains

LEMMA OldIs ==
  ASSUME NEW state \in Collected, NEW k \in Nat
  PROVE  Old(state.calls, k) \in Call
<1>1. NewCall \in Call
  BY DEF NewCall, Call, None
<1> QED
  BY <1>1, CollectedIs DEF Old

LEMMA IndexIs ==
  ASSUME NEW state \in Collected, NEW f \in Fragment
  PROVE  IndexOf(state.calls, f) \in Nat
BY CollectedIs, FS_CardinalityType DEF IndexOf, Fragment, None

LEMMA AddedIs ==
  ASSUME NEW acc \in Call, NEW f \in Fragment, NEW n \in Nat
  PROVE  Added(acc, f, n) \in Call
<1>1. Append(acc.args, n) \in Seq(Nat)
  BY DEF Call
<1> QED
  BY <1>1 DEF Call, Added, Fragment

LEMMA MergeStays ==
  ASSUME NEW state \in Collected, NEW f \in Fragment, NEW n \in Nat
  PROVE  Merge(state, f, n) \in Collected
<1> DEFINE k == IndexOf(state.calls, f)
           new == Added(Old(state.calls, k), f, n)
           D == DOMAIN state.calls
<1>1. k \in Nat
  BY IndexIs
<1>2. new \in Call
  BY <1>1, OldIs, AddedIs
<1>3. D \in SUBSET Nat /\ IsFiniteSet(D) /\ state.calls \in [D -> Call] /\ state.starts \in Seq(Nat)
  BY CollectedIs
<1>4. /\ Merge(state, f, n).calls = With(state.calls, k, new)
      /\ Merge(state, f, n).starts =
              IF f.name /\ Old(state.calls, k).name = 0 THEN Append(state.starts, k) ELSE state.starts
  BY MergeOf
<1>5. Merge(state, f, n) =
        [calls |-> Merge(state, f, n).calls, starts |-> Merge(state, f, n).starts,
         at |-> Merge(state, f, n).at]
  BY DEF Merge
<1>6. Merge(state, f, n).at = Append(state.at, k) /\ state.at \in Seq(Nat)
  BY MergeOf, CollectedIs
<1> HIDE DEF k, new
<1>7. With(state.calls, k, new) \in [D \cup {k} -> Call]
  BY <1>2, <1>3 DEF With
<1>8. D \cup {k} \in FiniteDomains
  BY <1>1, <1>3, FS_AddElement DEF FiniteDomains
<1>9. Append(state.starts, k) \in Seq(Nat) /\ Append(state.at, k) \in Seq(Nat)
  BY <1>1, <1>3, <1>6
<1>10. Merge(state, f, n).calls \in UNION {[E -> Call] : E \in FiniteDomains}
  BY <1>4, <1>7, <1>8
<1>11. Merge(state, f, n).starts \in Seq(Nat) /\ Merge(state, f, n).at \in Seq(Nat)
  BY <1>3, <1>4, <1>6, <1>9
<1> HIDE DEF D
<1> QED
  BY <1>5, <1>10, <1>11 DEF Collected

\* after[n] is what there is after n fragments.
Collects(after, stream) ==
    /\ after[0] = Fresh
    /\ \A n \in 1 .. Len(stream) : after[n] = Merge(after[n - 1], stream[n], n)
    /\ \A n \in 0 .. Len(stream) : after[n] \in Collected
    /\ Assembled(stream) = after[Len(stream)]

LEMMA FreshIs == Fresh \in Collected
<1>1. <<>> \in [{} -> Call] /\ {} \in FiniteDomains
  BY FS_EmptySet DEF FiniteDomains
<1>2. <<>> \in UNION {[E -> Call] : E \in FiniteDomains}
  BY <1>1
<1>3. <<>> \in Seq(Nat)
  OBVIOUS
<1> QED
  BY <1>2, <1>3 DEF Fresh, Collected

LEMMA Collecting ==
  ASSUME NEW stream \in Seq(Fragment)
  PROVE  \E after : Collects(after, stream)
<1> DEFINE n == Len(stream)
           F == [p \in Collected \X (1 .. n) |-> Merge(p[1], stream[p[2]], p[2])]
           A(h) == [i \in 0 .. n |-> IF i = 0 THEN Fresh ELSE Merge(h[i - 1], stream[i], i)]
           after == CHOOSE h : h = A(h)
<1>1. n \in Nat /\ \A i \in 1 .. n : stream[i] \in Fragment
  BY LenProperties, ElementOfSeq
<1>2. F \in Steps(Collected, n)
  <2>1. ASSUME NEW s \in Collected, NEW i \in 1 .. n PROVE Merge(s, stream[i], i) \in Collected
    BY <1>1, MergeStays
  <2> QED
    BY <2>1 DEF Steps
<1>3. \A s \in Collected : \A i \in 1 .. n : F[<<s, i>>] = Merge(s, stream[i], i)
  OBVIOUS
<1>4. Recursive(n, Collected, Fresh, F)
  <2> HIDE DEF F, n
  <2> QED
    BY <1>1, <1>2, FreshIs, Recursion
<1>5. PICK g \in [0 .. n -> Collected] : Follows(g, n, Collected, Fresh, F)
  <2> HIDE DEF F, n
  <2> QED
    BY <1>4 DEF Recursive
<1>6. g = A(g)
  <2> HIDE DEF F
  <2>1. ASSUME NEW i \in 0 .. n
        PROVE  g[i] = IF i = 0 THEN Fresh ELSE Merge(g[i - 1], stream[i], i)
    <3>1. CASE i = 0
      BY <1>5, <3>1 DEF Follows
    <3>2. CASE i # 0
      <4>1. i \in 1 .. n /\ i - 1 \in 0 .. n
        BY <1>1, <3>2
      <4>2. g[i - 1] \in Collected
        BY <1>5, <4>1
      <4>3. g[i] = F[<<g[i - 1], i>>]
        BY <1>5, <4>1, <4>2 DEF Follows
      <4> QED
        BY <1>3, <3>2, <4>1, <4>2, <4>3
    <3> QED
      BY <3>1, <3>2
  <2> HIDE DEF n
  <2> QED
    BY <1>5, <2>1
<1>7. after = A(after)
  <2> HIDE DEF A
  <2> QED
    BY <1>6
<1>8. \A i \in 0 .. n : after[i] = IF i = 0 THEN Fresh ELSE Merge(after[i - 1], stream[i], i)
  <2> HIDE DEF after, n
  <2> QED
    BY <1>7
<1>9. after[0] = Fresh /\ \A i \in 1 .. n : after[i] = Merge(after[i - 1], stream[i], i)
  <2> HIDE DEF after, A
  <2> QED
    BY <1>1, <1>8
<1>10. Follows(after, n, Collected, Fresh, F)
  <2> HIDE DEF after, A, F
  <2> QED
    BY <1>3, <1>9 DEF Follows
<1>11. \A i \in 0 .. n : after[i] \in Collected
  <2> HIDE DEF after, A, F, n
  <2> QED
    BY <1>1, <1>2, <1>10, FreshIs, RecursionStays
<1>12. Assembled(stream) = after[n]
  BY DEF Assembled, Fresh
<1> HIDE DEF after, A, F
<1> QED
  BY <1>9, <1>11, <1>12 DEF Collects

LEMMA NoneLatest == Latest({}) = 0
BY DEF Latest

LEMMA LatestAdd ==
  ASSUME NEW n \in Nat \ {0}, NEW S \in SUBSET (1 .. n - 1)
  PROVE  Latest(S \cup {n}) = n
<1>1. \A m \in S : m \in Nat /\ m < n
  OBVIOUS
<1>2. \A m \in S \cup {n} : m <= n /\ m \in Nat
  BY <1>1
<1>3. \A x \in S \cup {n} : (\A m \in S \cup {n} : m <= x) => x = n
  BY <1>1, <1>2
<1>4. Latest(S \cup {n}) = CHOOSE x \in S \cup {n} : \A m \in S \cup {n} : m <= x
  BY DEF Latest
<1> QED
  BY <1>2, <1>3, <1>4

LEMMA LatestIn ==
  ASSUME NEW n \in Nat, NEW S \in SUBSET (1 .. n), S # {}
  PROVE  Latest(S) \in S
<1> DEFINE T == {n - m : m \in S}
<1>1. T \subseteq Nat /\ T # {}
  <2>1. \A m \in S : n - m \in Nat
    OBVIOUS
  <2>2. PICK m \in S : TRUE
    OBVIOUS
  <2>3. n - m \in T
    BY <2>2
  <2> QED
    BY <2>1, <2>3
<1>2. PICK t \in T : \A u \in T : t <= u
  <2> HIDE DEF T
  <2> QED
    BY <1>1, LeastNat
<1>3. PICK x \in S : t = n - x
  OBVIOUS
<1>4. ASSUME NEW m \in S
      PROVE  m <= x
  <2>1. n - m \in T
    OBVIOUS
  <2>2. n - x <= n - m /\ m \in Nat /\ x \in Nat
    <3> HIDE DEF T
    <3> QED
      BY <1>2, <1>3, <2>1
  <2> HIDE DEF T
  <2> QED
    BY <2>2
<1> HIDE DEF T
<1> QED
  BY <1>4 DEF Latest

LEMMA NewMadeOf ==
  ASSUME NEW stream
  PROVE  MadeOf(NewCall, stream, {})
<1>1. Identified(stream, {}) = {} /\ {n \in {} : stream[n].name} = {} /\ {n \in {} : stream[n].args} = {}
  BY DEF Identified
<1> QED
  BY <1>1, NoneLatest, AscendingNone DEF MadeOf, NewCall

\* A fragment adds what it brings.
LEMMA MadeOfMore ==
  ASSUME NEW stream \in Seq(Fragment), NEW n \in 1 .. Len(stream), NEW P \in SUBSET (1 .. n - 1),
         NEW acc, MadeOf(acc, stream, P)
  PROVE  MadeOf(Added(acc, stream[n], n), stream, P \cup {n})
<1> DEFINE Given(Q) == Identified(stream, Q)
           NameAt(Q) == {m \in Q : stream[m].name}
           Args(Q) == {m \in Q : stream[m].args}
           Q == P \cup {n}
           new == Added(acc, stream[n], n)
<1>1. n \in Nat \ {0}
  OBVIOUS
<1>2. /\ acc.id = IF Given(P) = {} THEN None ELSE stream[Latest(Given(P))].id
      /\ acc.name = Latest(NameAt(P)) /\ acc.args = Ascending(Args(P))
  BY DEF MadeOf
<1>3. /\ Given(P) \in SUBSET (1 .. n - 1) /\ NameAt(P) \in SUBSET (1 .. n - 1)
      /\ Args(P) \in SUBSET (1 .. n - 1)
  BY DEF Identified
<1>4. /\ Given(Q) = IF stream[n].id # None THEN Given(P) \cup {n} ELSE Given(P)
      /\ NameAt(Q) = IF stream[n].name THEN NameAt(P) \cup {n} ELSE NameAt(P)
      /\ Args(Q) = IF stream[n].args THEN Args(P) \cup {n} ELSE Args(P)
  BY DEF Identified
<1>5. /\ new.id = IF stream[n].id # None THEN stream[n].id ELSE acc.id
      /\ new.name = IF stream[n].name THEN n ELSE acc.name
      /\ new.args = IF stream[n].args THEN Append(acc.args, n) ELSE acc.args
  BY DEF Added
<1> HIDE DEF Given, NameAt, Args, Q, new
<1>6. /\ Latest(Given(P) \cup {n}) = n /\ Latest(NameAt(P) \cup {n}) = n
      /\ Ascending(Args(P) \cup {n}) = Append(Ascending(Args(P)), n)
  BY <1>1, <1>3, LatestAdd, AscendingAdd
<1>7. new.name = Latest(NameAt(Q)) /\ new.args = Ascending(Args(Q))
  BY <1>2, <1>4, <1>5, <1>6
<1>8. new.id = IF Given(Q) = {} THEN None ELSE stream[Latest(Given(Q))].id
  <2>1. Given(P) \cup {n} # {}
    OBVIOUS
  <2> QED
    BY <1>2, <1>4, <1>5, <1>6, <2>1
<1> QED
  BY <1>7, <1>8 DEF MadeOf, Given, NameAt, Args, Q, new

\* The indexes in use after n fragments, and the calls there are under them.
Used(at, n) == {at[m] : m \in 1 .. n}

Slotted(state, stream, n) ==
    /\ state.at \in Seq(Nat) /\ Len(state.at) = n
    /\ DOMAIN state.calls = Used(state.at, n)
    /\ \A k \in DOMAIN state.calls :
         MadeOf(state.calls[k], stream, {m \in 1 .. n : state.at[m] = k})
    /\ \A m \in 1 .. n : stream[m].index \in {None, state.at[m]}
    /\ \A m \in 1 .. n :
         stream[m].index = None => state.at[m] = Cardinality(Used(state.at, m - 1))

LEMMA SlottedOn ==
  ASSUME NEW stream \in Seq(Fragment), NEW n \in 1 .. Len(stream), NEW state \in Collected,
         Slotted(state, stream, n - 1)
  PROVE  Slotted(Merge(state, stream[n], n), stream, n)
<1> DEFINE f == stream[n]
           k == IndexOf(state.calls, f)
           acc == Old(state.calls, k)
           next == Merge(state, f, n)
           at == state.at
           to == next.at
           Places(a, i, l) == {m \in 1 .. l : a[m] = i}
<1>1. f \in Fragment /\ k \in Nat
  <2>1. f \in Fragment
    BY ElementOfSeq
  <2> QED
    BY <2>1, IndexIs
<1>2. next.calls = With(state.calls, k, Added(acc, f, n)) /\ to = Append(at, k)
  BY MergeOf
<1>3. /\ at \in Seq(Nat) /\ Len(at) = n - 1 /\ DOMAIN state.calls = Used(at, n - 1)
      /\ \A i \in DOMAIN state.calls : MadeOf(state.calls[i], stream, Places(at, i, n - 1))
      /\ \A m \in 1 .. n - 1 : stream[m].index \in {None, at[m]}
      /\ \A m \in 1 .. n - 1 : stream[m].index = None => at[m] = Cardinality(Used(at, m - 1))
  BY DEF Slotted
<1>4. k = IF f.index = None THEN Cardinality(Used(at, n - 1)) ELSE f.index
  BY <1>3 DEF IndexOf
<1>5. 1 .. n = 1 .. n - 1 \cup {n} /\ n \notin 1 .. n - 1 /\ n \in Nat
  OBVIOUS
<1> HIDE DEF f, k, acc, next, at, to
<1>6. /\ to \in Seq(Nat) /\ Len(to) = n
      /\ \A m \in 1 .. n - 1 : to[m] = at[m]
      /\ to[n] = k
  BY <1>1, <1>2, <1>3, <1>5, AppendProperties
<1>7. ASSUME NEW m \in 1 .. n
      PROVE  Used(to, m - 1) = Used(at, m - 1)
  <2>1. \A i \in 1 .. m - 1 : to[i] = at[i]
    BY <1>5, <1>6
  <2> QED
    BY <2>1 DEF Used
<1>8. Used(to, n) = Used(at, n - 1) \cup {k}
  <2>1. \A i \in 1 .. n : to[i] = IF i = n THEN k ELSE at[i]
    BY <1>5, <1>6
  <2>2. \A i \in 1 .. n - 1 : i \in 1 .. n /\ to[i] = at[i]
    BY <1>5, <1>6
  <2>3. n \in 1 .. n /\ to[n] = k
    BY <1>5, <1>6
  <2> QED
    BY <1>5, <2>1, <2>2, <2>3 DEF Used
<1>9. /\ \A i : Places(to, i, n) = IF i = k THEN Places(at, i, n - 1) \cup {n} ELSE Places(at, i, n - 1)
      /\ \A i : Places(at, i, n - 1) \in SUBSET (1 .. n - 1)
  BY <1>5, <1>6
<1>10. MadeOf(acc, stream, Places(at, k, n - 1))
  <2>1. CASE k \in DOMAIN state.calls
    BY <1>3, <2>1 DEF Old, acc
  <2>2. CASE k \notin DOMAIN state.calls
    <3>1. Places(at, k, n - 1) = {}
      BY <1>3, <2>2 DEF Used
    <3>2. acc = NewCall
      BY <2>2 DEF Old, acc
    <3> HIDE DEF Places
    <3> QED
      BY <3>1, <3>2, NewMadeOf
  <2> QED
    BY <2>1, <2>2
<1>11. MadeOf(Added(acc, f, n), stream, Places(to, k, n))
  <2>1. MadeOf(Added(acc, stream[n], n), stream, Places(at, k, n - 1) \cup {n})
    <3> HIDE DEF Places
    <3> QED
      BY <1>9, <1>10, MadeOfMore
  <2> HIDE DEF Places
  <2> QED
    BY <1>9, <2>1 DEF f
<1>12. /\ DOMAIN next.calls = DOMAIN state.calls \cup {k}
       /\ \A i \in DOMAIN next.calls : next.calls[i] = IF i = k THEN Added(acc, f, n) ELSE state.calls[i]
  BY <1>2 DEF With
<1>13. ASSUME NEW i \in DOMAIN next.calls
       PROVE  MadeOf(next.calls[i], stream, Places(to, i, n))
  <2> HIDE DEF Places
  <2>1. CASE i = k
    BY <1>11, <1>12, <2>1
  <2>2. CASE i # k
    BY <1>3, <1>9, <1>12, <2>2
  <2> QED
    BY <2>1, <2>2
<1>14. ASSUME NEW m \in 1 .. n
       PROVE  /\ stream[m].index \in {None, to[m]}
              /\ stream[m].index = None => to[m] = Cardinality(Used(to, m - 1))
  <2>1. CASE m = n
    BY <1>4, <1>6, <1>7, <2>1 DEF f
  <2>2. CASE m # n
    BY <1>3, <1>5, <1>6, <1>7, <2>2
  <2> QED
    BY <2>1, <2>2
<1>15. Slotted(next, stream, n)
  BY <1>3, <1>6, <1>8, <1>12, <1>13, <1>14 DEF Slotted, to
<1> QED
  BY <1>15 DEF next, f

LEMMA UsedIs ==
  ASSUME NEW at \in Seq(Nat), NEW n \in 0 .. Len(at)
  PROVE  /\ Used(at, n) \in SUBSET Nat /\ IsFiniteSet(Used(at, n)) /\ Cardinality(Used(at, n)) \in Nat
<1> DEFINE f == [m \in 1 .. n |-> at[m]]
<1>1. n \in Nat /\ Len(at) \in Nat /\ \A m \in 1 .. n : at[m] \in Nat
  BY LenProperties, ElementOfSeq
<1>2. IsFiniteSet(1 .. n)
  BY <1>1, FS_Interval
<1>3. f \in Surjection(1 .. n, Used(at, n))
  <2>1. f \in [1 .. n -> Used(at, n)]
    BY DEF Used
  <2>2. \A x \in Used(at, n) : \E m \in 1 .. n : f[m] = x
    BY DEF Used
  <2> HIDE DEF f
  <2> QED
    BY <2>1, <2>2 DEF Surjection
<1> HIDE DEF f
<1>4. IsFiniteSet(Used(at, n))
  BY <1>2, <1>3, FS_Surjection
<1> QED
  BY <1>1, <1>4, FS_CardinalityType DEF Used

\* A fragment without an index is given a number that is in use only if it was skipped.
LEMMA OnlySkipped ==
  ASSUME NEW state, NEW stream, NEW N \in Nat, Slotted(state, stream, N), NEW n \in 1 .. N,
         NEW j \in 1 .. n - 1, stream[n].index = None, state.at[j] = state.at[n]
  PROVE  \E l \in 1 .. j : state.at[l] = state.at[n] /\ Skips(stream, state.at, l)
<1> DEFINE at == state.at
           k == at[n]
           T == {m \in 1 .. j : at[m] = k}
<1>1. /\ at \in Seq(Nat) /\ Len(at) = N
      /\ \A m \in 1 .. N : stream[m].index \in {None, at[m]}
      /\ \A m \in 1 .. N : stream[m].index = None => at[m] = Cardinality(Used(at, m - 1))
  BY DEF Slotted
<1>2. j \in T /\ T \subseteq Nat
  OBVIOUS
<1>3. PICK l \in T : \A m \in T : l <= m
  <2> HIDE DEF T
  <2> QED
    BY <1>2, LeastNat
<1>4. l \in 1 .. j /\ at[l] = k /\ \A m \in 1 .. l - 1 : at[m] # k
  <2>1. l \in 1 .. j /\ at[l] = k
    OBVIOUS
  <2>2. ASSUME NEW m \in 1 .. l - 1, at[m] = k
        PROVE  FALSE
    <3>1. m \in T
      BY <2>1, <2>2
    <3>2. l <= m
      BY <1>3, <3>1
    <3> QED
      BY <2>1, <3>2
  <2> QED
    BY <2>1, <2>2
<1> DEFINE A == Used(at, l - 1)
           B == Used(at, n - 1)
<1>5. /\ l - 1 \in 0 .. Len(at) /\ n - 1 \in 0 .. Len(at)
      /\ l \in 1 .. N /\ 1 .. l - 1 \subseteq 1 .. n - 1 /\ l \in 1 .. n - 1
  BY <1>1, <1>4
<1>6. IsFiniteSet(A) /\ Cardinality(A) \in Nat /\ IsFiniteSet(B) /\ Cardinality(B) \in Nat
  BY <1>1, <1>5, UsedIs
<1>7. k \notin A /\ A \cup {k} \subseteq B
  BY <1>4, <1>5 DEF Used
<1>8. Cardinality(A) + 1 <= Cardinality(B)
  <2> HIDE DEF A, B, k
  <2>1. IsFiniteSet(A \cup {k}) /\ Cardinality(A \cup {k}) = Cardinality(A) + 1
    BY <1>6, <1>7, FS_AddElement
  <2>2. Cardinality(A \cup {k}) <= Cardinality(B)
    BY <1>6, <1>7, FS_Subset
  <2> QED
    BY <2>1, <2>2
<1>9. k = Cardinality(B)
  BY <1>1
<1> HIDE DEF A, B, T
<1>10. stream[l].index # None
  <2>1. stream[l].index = None => k = Cardinality(A)
    BY <1>1, <1>4, <1>5 DEF A
  <2>2. Cardinality(A) # Cardinality(B)
    BY <1>6, <1>8
  <2> QED
    BY <1>9, <2>1, <2>2
<1>11. stream[l].index = k
  BY <1>1, <1>4, <1>5, <1>10
<1>12. Skips(stream, at, l)
  BY <1>6, <1>8, <1>9, <1>10, <1>11 DEF Skips, A, Used
<1> QED
  BY <1>4, <1>12

\* A call is announced once, from when it has a name.
Announced(state) ==
    /\ \A i \in DOMAIN state.starts :
         state.starts[i] \in DOMAIN state.calls /\ state.calls[state.starts[i]].name # 0
    /\ \A i, j \in DOMAIN state.starts : state.starts[i] = state.starts[j] => i = j
    /\ \A k \in DOMAIN state.calls :
         state.calls[k].name # 0 => \E i \in DOMAIN state.starts : state.starts[i] = k

LEMMA AnnouncedOn ==
  ASSUME NEW f \in Fragment, NEW n \in Nat \ {0}, NEW state \in Collected, Announced(state)
  PROVE  Announced(Merge(state, f, n))
<1> DEFINE k == IndexOf(state.calls, f)
           acc == Old(state.calls, k)
           next == Merge(state, f, n)
           new == Added(acc, f, n)
           s == state.starts
           t == next.starts
<1>1. /\ next.calls = With(state.calls, k, new)
      /\ t = IF f.name /\ acc.name = 0 THEN Append(s, k) ELSE s
  BY MergeOf
<1>2. /\ DOMAIN next.calls = DOMAIN state.calls \cup {k}
      /\ \A i \in DOMAIN next.calls : next.calls[i] = IF i = k THEN new ELSE state.calls[i]
  BY <1>1 DEF With
<1>3. s \in Seq(Nat) /\ k \in Nat
  BY CollectedIs, IndexIs
<1>4. new.name = IF f.name THEN n ELSE acc.name
  BY DEF Added
<1>5. acc.name = IF k \in DOMAIN state.calls THEN state.calls[k].name ELSE 0
  BY DEF Old, NewCall
<1>6. /\ \A i \in DOMAIN s : s[i] \in DOMAIN state.calls /\ state.calls[s[i]].name # 0
      /\ \A i, j \in DOMAIN s : s[i] = s[j] => i = j
      /\ \A i \in DOMAIN state.calls : state.calls[i].name # 0 => \E j \in DOMAIN s : s[j] = i
  BY DEF Announced
<1> HIDE DEF k, acc, next, new, s, t
<1>7. CASE f.name /\ acc.name = 0
  <2>1. DOMAIN s = 1 .. Len(s) /\ Len(s) \in Nat
    BY <1>3, LenProperties
  <2>2. DOMAIN t = 1 .. Len(s) + 1 /\ (\A i \in 1 .. Len(s) : t[i] = s[i]) /\ t[Len(s) + 1] = k
    BY <1>1, <1>3, <1>7, AppendProperties
  <2>3. \A i \in DOMAIN s : s[i] # k
    BY <1>5, <1>6, <1>7
  <2>4. \A i \in DOMAIN t : i \in DOMAIN s \/ i = Len(s) + 1
    BY <2>1, <2>2
  <2>5. ASSUME NEW i \in DOMAIN t
        PROVE  t[i] \in DOMAIN next.calls /\ next.calls[t[i]].name # 0
    <3>1. CASE i \in DOMAIN s
      BY <1>2, <1>6, <2>1, <2>2, <2>3, <3>1
    <3>2. CASE i = Len(s) + 1
      BY <1>2, <1>4, <1>7, <2>2, <3>2
    <3> QED
      BY <2>4, <3>1, <3>2
  <2>6. \A i, j \in DOMAIN t : t[i] = t[j] => i = j
    BY <1>6, <2>1, <2>2, <2>3, <2>4
  <2>7. ASSUME NEW i \in DOMAIN next.calls, next.calls[i].name # 0
        PROVE  \E j \in DOMAIN t : t[j] = i
    <3>1. CASE i = k
      BY <2>1, <2>2, <3>1
    <3>2. CASE i # k
      <4>1. PICK j \in DOMAIN s : s[j] = i
        BY <1>2, <1>6, <2>7, <3>2
      <4> QED
        BY <2>1, <2>2, <4>1
    <3> QED
      BY <3>1, <3>2
  <2> QED
    BY <2>5, <2>6, <2>7 DEF Announced, t, next
<1>8. CASE ~(f.name /\ acc.name = 0)
  <2>1. t = s
    BY <1>1, <1>8
  <2>2. acc.name = 0 => new.name = 0
    BY <1>4, <1>8
  <2>3. acc.name # 0 => new.name # 0 /\ k \in DOMAIN state.calls
    BY <1>4, <1>5
  <2>4. ASSUME NEW i \in DOMAIN s
        PROVE  s[i] \in DOMAIN next.calls /\ next.calls[s[i]].name # 0
    BY <1>2, <1>5, <1>6, <2>3
  <2>5. ASSUME NEW i \in DOMAIN next.calls, next.calls[i].name # 0
        PROVE  \E j \in DOMAIN s : s[j] = i
    <3>1. CASE i = k
      BY <1>2, <1>5, <1>6, <2>2, <2>3, <2>5, <3>1
    <3>2. CASE i # k
      BY <1>2, <1>6, <2>5, <3>2
    <3> QED
      BY <3>1, <3>2
  <2> QED
    BY <1>6, <2>1, <2>4, <2>5 DEF Announced, t, next
<1> QED
  BY <1>7, <1>8

\* What holds of each state of the stream holds of its end.
LEMMA CollectedSlotted ==
  ASSUME NEW stream \in Seq(Fragment), NEW after, Collects(after, stream)
  PROVE  LET end == after[Len(stream)]
         IN  Slotted(end, stream, Len(stream)) /\ Announced(end) /\ end \in Collected
<1> DEFINE L == Len(stream)
           T == {n \in 0 .. L : Slotted(after[n], stream, n) /\ Announced(after[n])}
<1>1. L \in Nat /\ \A n \in 1 .. L : stream[n] \in Fragment
  BY LenProperties, ElementOfSeq
<1>2. 0 \in T
  <2>1. after[0].calls = <<>> /\ after[0].starts = <<>> /\ after[0].at = <<>>
    BY DEF Collects, Fresh
  <2>2. Slotted(after[0], stream, 0)
    BY <2>1 DEF Slotted, Used
  <2> QED
    BY <1>1, <2>1, <2>2 DEF Announced
<1>3. ASSUME NEW n \in 1 .. L, n - 1 \in T
      PROVE  n \in T
  <2>1. after[n - 1] \in Collected /\ after[n] = Merge(after[n - 1], stream[n], n)
    BY <1>1 DEF Collects
  <2>2. Slotted(after[n - 1], stream, n - 1) /\ Announced(after[n - 1])
    BY <1>3
  <2>3. n \in Nat \ {0} /\ stream[n] \in Fragment
    BY <1>1
  <2>4. Slotted(Merge(after[n - 1], stream[n], n), stream, n)
    BY <2>1, <2>2, SlottedOn
  <2>5. Announced(Merge(after[n - 1], stream[n], n))
    BY <2>1, <2>2, <2>3, AnnouncedOn
  <2> QED
    BY <1>1, <2>1, <2>4, <2>5
<1> HIDE DEF L
<1>4. \A n \in 0 .. L : n \in T
  <2> HIDE DEF T
  <2> QED
    BY <1>1, <1>2, <1>3, Upwards
<1>5. after[L] \in Collected
  BY <1>1 DEF Collects, L
<1> QED
  BY <1>1, <1>4, <1>5 DEF L

\* The completed calls are those there are, in the order of their indexes.
LEMMA CompletedAre ==
  ASSUME NEW state \in Collected
  PROVE  /\ IsFiniteSet(DOMAIN state.calls) /\ DOMAIN state.calls \in SUBSET Nat
         /\ Climbs(Ascending(DOMAIN state.calls), DOMAIN state.calls)
         /\ Cardinality(DOMAIN state.calls) \in Nat
         /\ Len(Completed(state.calls)) = Cardinality(DOMAIN state.calls)
         /\ DOMAIN Completed(state.calls) = 1 .. Cardinality(DOMAIN state.calls)
         /\ \A r \in 1 .. Cardinality(DOMAIN state.calls) :
              Completed(state.calls)[r] = state.calls[Ascending(DOMAIN state.calls)[r]]
<1> DEFINE D == DOMAIN state.calls
           s == Ascending(D)
           k == Cardinality(D)
           c == Completed(state.calls)
<1>1. D \in SUBSET Nat /\ IsFiniteSet(D) /\ state.calls \in [D -> Call]
  BY CollectedIs
<1>2. Climbs(s, D) /\ k \in Nat
  BY <1>1, Climbing, FS_CardinalityType
<1>3. s \in [1 .. k -> D]
  BY <1>2 DEF Climbs
<1>4. c = [r \in 1 .. k |-> state.calls[s[r]]]
  BY <1>3 DEF Completed
<1> HIDE DEF D, s, k, c
<1>5. c \in [1 .. k -> Call]
  BY <1>1, <1>3, <1>4
<1>6. Len(c) = k
  BY <1>2, <1>5
<1> QED
  BY <1>1, <1>2, <1>4, <1>5, <1>6 DEF D, s, k, c

\* What the three parts of the law speak of.
EndFacts(stream, end, completed, indexes) ==
    /\ Slotted(end, stream, Len(stream)) /\ Announced(end)
    /\ Len(stream) \in Nat /\ DOMAIN stream = 1 .. Len(stream)
    /\ Len(indexes) = Len(completed)
    /\ DOMAIN indexes = DOMAIN completed /\ DOMAIN indexes \subseteq Nat
    /\ \A r \in DOMAIN indexes :
         MadeOf(completed[r], stream, {n \in DOMAIN stream : end.at[n] = indexes[r]})

LEMMA StreamEnds ==
  ASSUME NEW stream \in Seq(Fragment)
  PROVE  EndFacts(stream, Assembled(stream), Completed(Assembled(stream).calls),
                  Ascending({Assembled(stream).at[n] : n \in DOMAIN stream}))
<1> DEFINE L == Len(stream)
           end == Assembled(stream)
           completed == Completed(end.calls)
           indexes == Ascending({end.at[n] : n \in DOMAIN stream})
           D == DOMAIN end.calls
<1>1. PICK after : Collects(after, stream)
  BY Collecting
<1>2. end = after[L]
  BY <1>1 DEF Collects
<1>3. Slotted(end, stream, L) /\ Announced(end) /\ end \in Collected
  BY <1>1, <1>2, CollectedSlotted
<1>4. L \in Nat /\ DOMAIN stream = 1 .. L
  BY LenProperties
<1>5. D = {end.at[n] : n \in DOMAIN stream}
  BY <1>3, <1>4 DEF Slotted, Used
<1>6. indexes = Ascending(D)
  BY <1>5
<1>7. /\ Climbs(Ascending(D), D) /\ Cardinality(D) \in Nat /\ IsFiniteSet(D) /\ D \in SUBSET Nat
      /\ Len(completed) = Cardinality(D) /\ DOMAIN completed = 1 .. Cardinality(D)
      /\ \A r \in 1 .. Cardinality(D) : completed[r] = end.calls[Ascending(D)[r]]
  BY <1>3, CompletedAre
<1>8. \A k \in D : MadeOf(end.calls[k], stream, {n \in 1 .. L : end.at[n] = k})
  BY <1>3 DEF Slotted
<1> HIDE DEF completed, indexes, D, end, L
<1>9. Len(indexes) = Cardinality(D) /\ indexes \in [1 .. Cardinality(D) -> D]
  BY <1>6, <1>7, AscendingSeq DEF Climbs
<1>10. DOMAIN indexes = 1 .. Cardinality(D) /\ 1 .. Cardinality(D) \subseteq Nat
  BY <1>7, <1>9
<1>11. ASSUME NEW r \in DOMAIN indexes
       PROVE  MadeOf(completed[r], stream, {n \in DOMAIN stream : end.at[n] = indexes[r]})
  <2>1. indexes[r] \in D /\ completed[r] = end.calls[indexes[r]]
    BY <1>6, <1>7, <1>9, <1>10
  <2> QED
    BY <1>4, <1>8, <2>1
<1>12. EndFacts(stream, end, completed, indexes)
  BY <1>3, <1>4, <1>7, <1>9, <1>10, <1>11 DEF EndFacts, L
<1> QED
  BY <1>12 DEF end, completed, indexes

LEMMA StreamKeptApart ==
  ASSUME NEW stream \in Seq(Fragment)
  PROVE  FragmentsKeptApart(stream)
<1> DEFINE L == Len(stream)
           end == Assembled(stream)
           completed == Completed(end.calls)
           indexes == Ascending({end.at[n] : n \in DOMAIN stream})
<1>0. EndFacts(stream, end, completed, indexes)
  BY StreamEnds
<1> HIDE DEF end, completed, indexes
<1>1. /\ Slotted(end, stream, L) /\ L \in Nat /\ DOMAIN stream = 1 .. L
      /\ Len(completed) = Len(indexes)
      /\ \A r \in DOMAIN indexes :
           MadeOf(completed[r], stream, {n \in DOMAIN stream : end.at[n] = indexes[r]})
  BY <1>0 DEF EndFacts
<1> HIDE DEF L
<1>2. \A n \in DOMAIN stream : stream[n].index \in {None, end.at[n]}
  BY <1>1 DEF Slotted
<1>3. ASSUME NEW n \in DOMAIN stream, NEW m \in 1 .. n - 1,
             stream[n].index = None, end.at[m] = end.at[n]
      PROVE  \E l \in 1 .. m : end.at[l] = end.at[n] /\ Skips(stream, end.at, l)
  BY <1>1, <1>3, OnlySkipped
<1> QED
  BY <1>1, <1>2, <1>3 DEF FragmentsKeptApart, end, completed, indexes

LEMMA StreamAnnounced ==
  ASSUME NEW stream \in Seq(Fragment)
  PROVE  AnnouncedOnce(stream)
<1> DEFINE end == Assembled(stream)
<1>1. Announced(end)
  BY StreamEnds DEF EndFacts
<1> HIDE DEF end
<1>2. ASSUME NEW k \in DOMAIN end.calls
      PROVE  Cardinality({i \in DOMAIN end.starts : end.starts[i] = k})
               = IF end.calls[k].name = 0 THEN 0 ELSE 1
  <2> DEFINE S == {i \in DOMAIN end.starts : end.starts[i] = k}
  <2>1. CASE end.calls[k].name = 0
    <3>1. S = {}
      BY <1>1, <2>1 DEF Announced
    <3> QED
      BY <2>1, <3>1, FS_EmptySet
  <2>2. CASE end.calls[k].name # 0
    <3>1. PICK i \in DOMAIN end.starts : end.starts[i] = k
      BY <1>1, <2>2 DEF Announced
    <3>2. S = {i}
      BY <1>1, <3>1 DEF Announced
    <3> QED
      BY <2>2, <3>2, FS_Singleton
  <2> QED
    BY <2>1, <2>2
<1> QED
  BY <1>2 DEF AnnouncedOnce, end

LEMMA StreamIdsApart ==
  ASSUME NEW stream \in Seq(Fragment)
  PROVE  IdsKeptApart(stream)
<1> DEFINE L == Len(stream)
           end == Assembled(stream)
           completed == Completed(end.calls)
           indexes == Ascending({end.at[n] : n \in DOMAIN stream})
           Places(r) == {n \in DOMAIN stream : end.at[n] = indexes[r]}
           Given(r) == {stream[n].id : n \in Identified(stream, Places(r))}
<1>0. EndFacts(stream, end, completed, indexes)
  BY StreamEnds
<1> HIDE DEF end, completed, indexes
<1>1. /\ L \in Nat /\ DOMAIN stream = 1 .. L
      /\ DOMAIN indexes = DOMAIN completed /\ DOMAIN indexes \subseteq Nat
      /\ \A r \in DOMAIN indexes : MadeOf(completed[r], stream, Places(r))
  BY <1>0 DEF EndFacts
<1> HIDE DEF L
<1>2. ASSUME NEW r \in DOMAIN completed
      PROVE  /\ completed[r].id = None => Given(r) = {}
             /\ completed[r].id # None => completed[r].id \in Given(r)
             /\ AnsweredId(completed, r) =
                  IF completed[r].id # None THEN completed[r].id ELSE r - 1
             /\ r \in Nat
  <2> DEFINE G == Identified(stream, Places(r))
  <2>1. completed[r].id = IF G = {} THEN None ELSE stream[Latest(G)].id
    BY <1>1 DEF MadeOf
  <2>2. G \in SUBSET (1 .. L) /\ \A n \in G : stream[n].id # None
    BY <1>1 DEF Identified
  <2>3. Given(r) = {stream[n].id : n \in G}
    OBVIOUS
  <2> HIDE DEF G
  <2>4. G # {} => Latest(G) \in G
    BY <1>1, <2>2, LatestIn
  <2> HIDE DEF Given
  <2>5. completed[r].id = None => Given(r) = {}
    BY <2>1, <2>2, <2>3, <2>4
  <2>6. completed[r].id # None => completed[r].id \in Given(r)
    BY <2>1, <2>3, <2>4
  <2> QED
    BY <1>1, <2>5, <2>6 DEF AnsweredId
<1> HIDE DEF Given
<1>3. ASSUME NEW r \in DOMAIN completed, NEW q \in DOMAIN completed, r # q,
             AnsweredId(completed, r) = AnsweredId(completed, q)
      PROVE  \/ AnsweredId(completed, r) \in Given(r) \cap Given(q)
             \/ Given(r) = {} /\ r - 1 \in Given(q)
             \/ Given(q) = {} /\ q - 1 \in Given(r)
  <2>1. CASE completed[r].id = None /\ completed[q].id = None
    BY <1>2, <1>3, <2>1
  <2>2. CASE completed[r].id = None /\ completed[q].id # None
    BY <1>2, <1>3, <2>2
  <2>3. CASE completed[r].id # None /\ completed[q].id = None
    BY <1>2, <1>3, <2>3
  <2>4. CASE completed[r].id # None /\ completed[q].id # None
    BY <1>2, <1>3, <2>4
  <2> QED
    BY <2>1, <2>2, <2>3, <2>4
<1>4. \A r \in DOMAIN completed : AnsweredId(completed, r) # completed[r].id => Given(r) = {}
  BY <1>2
<1> QED
  BY <1>3, <1>4 DEF IdsKeptApart, end, completed, indexes, Given

\* However long the stream and however the fragments of its calls interleave, with an
\* index or without: a call is made of the fragments of its index, one without an index
\* meets an earlier one only behind a skipped index, a call that has a name is announced
\* once, and two are answered under one id only if the endpoint gave it to both or named
\* one "call_<i>" and left the i-th without (OpenAICompatProvider.stream).
THEOREM AssemblyLawHolds == ASSUME AssemblyAssumption PROVE StreamSpec => []AssemblyLaw
<1> DEFINE Inv == arrived \in Seq(Fragment)
<1>1. ASSUME StreamInit
      PROVE  Inv
  BY <1>1 DEF StreamInit
<1>2. ASSUME Inv, [Arrive]_arrived
      PROVE  Inv'
  <2>1. CASE Arrive
    <3>1. PICK f \in Fragments : arrived' = Append(arrived, f)
      BY <2>1 DEF Arrive
    <3>2. f \in Fragment
      BY DEF AssemblyAssumption
    <3> QED
      BY <1>2, <3>1, <3>2, AppendProperties
  <2>2. CASE arrived' = arrived
    BY <1>2, <2>2
  <2> QED
    BY <1>2, <2>1, <2>2
<1>3. ASSUME Inv
      PROVE  AssemblyLaw
  BY <1>3, StreamKeptApart, StreamAnnounced, StreamIdsApart DEF AssemblyLaw
<1> QED
  BY <1>1, <1>2, <1>3, PTL DEF StreamSpec

-----------------------------------------------------------------------------
(* RankFusion: what the order of the hits keeps.                           *)

\* A fraction of at least zero.
Fraction == Nat \X (Nat \ {0})

LEMMA NatTimes ==
  ASSUME NEW a \in Nat, NEW b \in Nat
  PROVE  a * b \in Nat /\ (a # 0 /\ b # 0 => a * b # 0)
OBVIOUS

LEMMA TimesMonotone ==
  ASSUME NEW a \in Nat, NEW b \in Nat, NEW c \in Nat \ {0}
  PROVE  a > b <=> a * c > b * c
<1>1. a > b => a * c > b * c
  <2> SUFFICES ASSUME a > b PROVE a * c > b * c
    OBVIOUS
  <2> DEFINE d == a - b
  <2>1. d \in Nat \ {0} /\ a = b + d
    OBVIOUS
  <2> HIDE DEF d
  <2>2. a * c = b * c + d * c
    BY <2>1
  <2>3. d * c \in Nat \ {0} /\ b * c \in Nat
    BY <2>1, NatTimes
  <2> QED
    BY <2>2, <2>3
<1>2. a <= b => a * c <= b * c
  <2> SUFFICES ASSUME a <= b PROVE a * c <= b * c
    OBVIOUS
  <2> DEFINE d == b - a
  <2>1. d \in Nat /\ b = a + d
    OBVIOUS
  <2> HIDE DEF d
  <2>2. b * c = a * c + d * c
    BY <2>1
  <2>3. d * c \in Nat /\ a * c \in Nat
    BY <2>1, NatTimes
  <2> QED
    BY <2>2, <2>3
<1>3. a * c \in Nat /\ b * c \in Nat
  BY NatTimes
<1> QED
  BY <1>1, <1>2, <1>3

\* x > y >= z and x >= y > z, by their numerators and denominators.
LEMMA CrossTransitive ==
  ASSUME NEW a \in Nat, NEW b \in Nat \ {0}, NEW c \in Nat, NEW d \in Nat \ {0},
         NEW e \in Nat, NEW f \in Nat \ {0}
  PROVE  /\ a * d > c * b /\ c * f >= e * d => a * f > e * b
         /\ a * d >= c * b /\ c * f > e * d => a * f > e * b
         /\ a * d >= c * b /\ c * f >= e * d => a * f >= e * b
<1>1. /\ (a * f) * d = (a * d) * f /\ (e * b) * d = (e * d) * b
      /\ (c * b) * f = (c * f) * b
  OBVIOUS
<1>2. /\ a * d \in Nat /\ c * b \in Nat /\ c * f \in Nat /\ e * d \in Nat /\ a * f \in Nat /\ e * b \in Nat
  BY NatTimes
<1>3. /\ (a * d) * f \in Nat /\ (c * b) * f \in Nat /\ (c * f) * b \in Nat /\ (e * d) * b \in Nat
  BY <1>2, NatTimes
<1>4. /\ a * d > c * b <=> (a * d) * f > (c * b) * f
      /\ c * f > e * d <=> (c * f) * b > (e * d) * b
      /\ a * f > e * b <=> (a * f) * d > (e * b) * d
      /\ c * b > a * d <=> (c * b) * f > (a * d) * f
      /\ e * d > c * f <=> (e * d) * b > (c * f) * b
      /\ e * b > a * f <=> (e * b) * d > (a * f) * d
  BY <1>2, TimesMonotone
<1> QED
  BY <1>1, <1>2, <1>3, <1>4

LEMMA OverIs ==
  ASSUME NEW x \in Fraction, NEW y \in Fraction, NEW z \in Fraction
  PROVE  /\ ~Over(x, x)
         /\ Over(x, y) => ~Over(y, x)
         /\ Over(x, y) /\ ~Over(z, y) => Over(x, z)
         /\ ~Over(y, x) /\ Over(y, z) => Over(x, z)
         /\ ~Over(y, x) /\ ~Over(z, y) => ~Over(z, x)
<1>1. /\ x[1] \in Nat /\ x[2] \in Nat \ {0} /\ y[1] \in Nat /\ y[2] \in Nat \ {0}
      /\ z[1] \in Nat /\ z[2] \in Nat \ {0}
  BY DEF Fraction
<1>2. /\ x[1] * y[2] \in Nat /\ y[1] * x[2] \in Nat /\ y[1] * z[2] \in Nat
      /\ z[1] * y[2] \in Nat /\ x[1] * z[2] \in Nat /\ z[1] * x[2] \in Nat /\ x[1] * x[2] \in Nat
  BY <1>1, NatTimes
<1>3. /\ x[1] * y[2] > y[1] * x[2] /\ y[1] * z[2] >= z[1] * y[2] => x[1] * z[2] > z[1] * x[2]
      /\ x[1] * y[2] >= y[1] * x[2] /\ y[1] * z[2] > z[1] * y[2] => x[1] * z[2] > z[1] * x[2]
      /\ x[1] * y[2] >= y[1] * x[2] /\ y[1] * z[2] >= z[1] * y[2] => x[1] * z[2] >= z[1] * x[2]
  <2> DEFINE a == x[1]  b == x[2]  c == y[1]  d == y[2]  e == z[1]  f == z[2]
  <2>1. /\ a \in Nat /\ b \in Nat \ {0} /\ c \in Nat /\ d \in Nat \ {0}
        /\ e \in Nat /\ f \in Nat \ {0}
    BY <1>1
  <2> HIDE DEF a, b, c, d, e, f
  <2>2. /\ a * d > c * b /\ c * f >= e * d => a * f > e * b
        /\ a * d >= c * b /\ c * f > e * d => a * f > e * b
        /\ a * d >= c * b /\ c * f >= e * d => a * f >= e * b
    BY <2>1, CrossTransitive
  <2> QED
    BY <2>2 DEF a, b, c, d, e, f
<1> QED
  BY <1>2, <1>3 DEF Over

LEMMA SumIs ==
  ASSUME NEW x \in Fraction, NEW y \in Fraction
  PROVE  Sum(x, y) \in Fraction /\ Sum(x, y) = Sum(y, x)
<1>1. x[1] \in Nat /\ x[2] \in Nat \ {0} /\ y[1] \in Nat /\ y[2] \in Nat \ {0}
  BY DEF Fraction
<1>2. /\ x[1] * y[2] \in Nat /\ y[1] * x[2] \in Nat /\ x[2] * y[2] \in Nat /\ x[2] * y[2] # 0
      /\ x[2] * y[2] = y[2] * x[2]
  BY <1>1, NatTimes
<1> QED
  BY <1>2 DEF Sum, Fraction

\* The larger summand and one no smaller make the larger sum.
LEMMA SumOver ==
  ASSUME NEW x \in Fraction, NEW y \in Fraction, NEW u \in Fraction, NEW v \in Fraction,
         Over(x, y), ~Over(v, u)
  PROVE  Over(Sum(x, u), Sum(y, v))
<1> DEFINE a == x[1]  b == x[2]  c == y[1]  d == y[2]  e == u[1]  f == u[2]  g == v[1]  h == v[2]
<1>1. /\ a \in Nat /\ b \in Nat \ {0} /\ c \in Nat /\ d \in Nat \ {0}
      /\ e \in Nat /\ f \in Nat \ {0} /\ g \in Nat /\ h \in Nat \ {0}
  BY DEF Fraction
<1>2. a * d > c * b /\ ~(g * f > e * h)
  BY DEF Over
<1> HIDE DEF a, b, c, d, e, f, g, h
<1>3. (a * f + e * b) * (d * h) > (c * h + g * d) * (b * f)
  <2>1. /\ (a * f + e * b) * (d * h) = (a * d) * (f * h) + (e * h) * (b * d)
        /\ (c * h + g * d) * (b * f) = (c * b) * (f * h) + (g * f) * (b * d)
    BY <1>1
  <2>2. f * h \in Nat \ {0} /\ b * d \in Nat \ {0}
    BY <1>1, NatTimes
  <2>3. a * d \in Nat /\ c * b \in Nat /\ e * h \in Nat /\ g * f \in Nat
    BY <1>1, NatTimes
  <2>4. (a * d) * (f * h) > (c * b) * (f * h)
    BY <1>2, <2>2, <2>3, TimesMonotone
  <2>5. ~((g * f) * (b * d) > (e * h) * (b * d))
    BY <1>2, <2>2, <2>3, TimesMonotone
  <2>6. /\ (a * d) * (f * h) \in Nat /\ (c * b) * (f * h) \in Nat
        /\ (e * h) * (b * d) \in Nat /\ (g * f) * (b * d) \in Nat
    BY <2>2, <2>3, NatTimes
  <2> HIDE DEF Fraction
  <2> QED
    BY <2>1, <2>4, <2>5, <2>6
<1> QED
  BY <1>3 DEF Over, Sum, a, b, c, d, e, f, g, h

-----------------------------------------------------------------------------
LEMMA RankIs ==
  ASSUME NEW s \in Seq(Chunk), NEW c, Contains(s, c)
  PROVE  Rank(s, c) \in 1 .. Len(s) /\ s[Rank(s, c)] = c
BY DEF Contains, Rank

LEMMA RangeIs ==
  ASSUME NEW s, s \in Seq(Chunk)
  PROVE  /\ \A c : Contains(s, c) <=> c \in Range(s)
         /\ Range(s) \in SUBSET Chunk
BY DEF Contains, Range

LEMMA ShareIs ==
  ASSUME RrfK \in Nat, NEW s \in Seq(Chunk), NEW c
  PROVE  Share(s, c) \in Fraction
<1>1. CASE Contains(s, c)
  <2>1. Rank(s, c) \in 1 .. Len(s)
    BY <1>1, RankIs
  <2>2. RrfK + Rank(s, c) \in Nat \ {0}
    BY <2>1
  <2> QED
    BY <1>1, <2>2 DEF Share, Fraction
<1>2. CASE ~Contains(s, c)
  BY <1>2 DEF Share, Fraction
<1> QED
  BY <1>1, <1>2

LEMMA ScoreIs ==
  ASSUME RrfK \in Nat, NEW s \in Seq(Chunk), NEW t \in Seq(Chunk), NEW c
  PROVE  Score(s, t, c) \in Fraction /\ Score(s, t, c) = Score(t, s, c)
BY ShareIs, SumIs DEF Score

\* What is no worse in a list has no smaller share, and what is better a larger one.
LEMMA ShareOver ==
  ASSUME RrfK \in Nat, NEW s \in Seq(Chunk), NEW c, NEW d
  PROVE  /\ NoWorse(s, c, d) => ~Over(Share(s, d), Share(s, c))
         /\ Better(s, c, d) /\ c # d => Over(Share(s, c), Share(s, d))
<1>1. /\ Contains(s, c) => Rank(s, c) \in 1 .. Len(s) /\ s[Rank(s, c)] = c
      /\ Contains(s, d) => Rank(s, d) \in 1 .. Len(s) /\ s[Rank(s, d)] = d
  BY RankIs
<1>2. Len(s) \in Nat
  OBVIOUS
<1>3. CASE Contains(s, c) /\ Contains(s, d)
  <2> DEFINE p == Rank(s, c)
             q == Rank(s, d)
  <2>1. p \in Nat /\ q \in Nat /\ (c # d => p # q)
    BY <1>1, <1>2, <1>3
  <2>2. Share(s, c) = <<1, RrfK + p>> /\ Share(s, d) = <<1, RrfK + q>>
    BY <1>3 DEF Share
  <2>3. NoWorse(s, c, d) <=> p <= q
    BY <1>3 DEF NoWorse
  <2> HIDE DEF p, q
  <2>4. /\ Over(Share(s, d), Share(s, c)) <=> 1 * (RrfK + p) > 1 * (RrfK + q)
        /\ Over(Share(s, c), Share(s, d)) <=> 1 * (RrfK + q) > 1 * (RrfK + p)
    BY <2>2 DEF Over
  <2>5. /\ 1 * (RrfK + p) = RrfK + p /\ 1 * (RrfK + q) = RrfK + q
    BY <2>1
  <2> QED
    BY <2>1, <2>3, <2>4, <2>5 DEF Better
<1>4. CASE Contains(s, c) /\ ~Contains(s, d)
  <2> DEFINE p == RrfK + Rank(s, c)
  <2>1. p \in Nat
    BY <1>1, <1>2, <1>4
  <2>2. Share(s, c) = <<1, p>> /\ Share(s, d) = <<0, 1>>
    BY <1>4 DEF Share
  <2> HIDE DEF p
  <2>3. /\ Over(Share(s, d), Share(s, c)) <=> 0 * p > 1 * 1
        /\ Over(Share(s, c), Share(s, d)) <=> 1 * 1 > 0 * p
    BY <2>2 DEF Over
  <2>4. 0 * p = 0
    BY <2>1
  <2> QED
    BY <2>3, <2>4
<1>5. CASE ~Contains(s, c)
  <2>1. ~Better(s, c, d) /\ (NoWorse(s, c, d) => ~Contains(s, d))
    BY <1>5 DEF Better, NoWorse
  <2>2. ~Contains(s, d) => ~Over(Share(s, d), Share(s, c))
    BY <1>5 DEF Share, Over
  <2> QED
    BY <2>1, <2>2
<1> QED
  BY <1>3, <1>4, <1>5

Hits(s, t)  == Range(s) \cup Range(t)
Order(s, t) == {p \in Hits(s, t) \X Hits(s, t) : Before(s, t, p[1], p[2])}

LEMMA BeforeOrders ==
  ASSUME RrfK \in Nat, Chunk \in SUBSET Nat, NEW s \in Seq(Chunk), NEW t \in Seq(Chunk)
  PROVE  /\ Orders(Order(s, t), Hits(s, t))
         /\ \A c, d \in Hits(s, t) : <<c, d>> \in Order(s, t) <=> Before(s, t, c, d)
<1>1. \A c, d \in Hits(s, t) : <<c, d>> \in Order(s, t) <=> Before(s, t, c, d)
  BY DEF Order
<1>2. Hits(s, t) \in SUBSET Nat
  BY RangeIs DEF Hits
<1>3. ASSUME NEW c \in Hits(s, t)
      PROVE  ~Before(s, t, c, c)
  <2>1. Score(s, t, c) \in Fraction /\ c \in Nat
    BY <1>2, ScoreIs
  <2>2. ~(c < c)
    BY <2>1
  <2> QED
    BY <2>1, <2>2, OverIs DEF Before
<1>4. ASSUME NEW c \in Hits(s, t), NEW d \in Hits(s, t)
      PROVE  c = d \/ Before(s, t, c, d) \/ Before(s, t, d, c)
  <2>1. c \in Nat /\ d \in Nat
    BY <1>2
  <2>2. c = d \/ c < d \/ d < c
    BY <2>1
  <2> QED
    BY <2>2 DEF Before
<1>5. ASSUME NEW c \in Hits(s, t), NEW d \in Hits(s, t), NEW e \in Hits(s, t),
             Before(s, t, c, d), Before(s, t, d, e)
      PROVE  Before(s, t, c, e)
  <2> DEFINE x == Score(s, t, c)
             y == Score(s, t, d)
             z == Score(s, t, e)
  <2>1. x \in Fraction /\ y \in Fraction /\ z \in Fraction
    BY ScoreIs
  <2>2. c < d /\ d < e => c < e
    <3>1. c \in Nat /\ d \in Nat /\ e \in Nat
      BY <1>2
    <3> QED
      BY <3>1
  <2>3. /\ Over(x, y) \/ (~Over(y, x) /\ c < d)
        /\ Over(y, z) \/ (~Over(z, y) /\ d < e)
    BY <1>5 DEF Before
  <2> HIDE DEF x, y, z
  <2>4. /\ Over(x, y) => ~Over(y, x)
        /\ Over(y, z) => ~Over(z, y)
        /\ Over(x, y) /\ ~Over(z, y) => Over(x, z)
        /\ ~Over(y, x) /\ Over(y, z) => Over(x, z)
        /\ ~Over(y, x) /\ ~Over(z, y) => ~Over(z, x)
    BY <2>1, OverIs
  <2>5. Over(x, z) \/ (~Over(z, x) /\ c < e)
    BY <2>2, <2>3, <2>4
  <2> QED
    BY <2>5 DEF Before, x, z
<1> QED
  BY <1>1, <1>3, <1>4, <1>5 DEF Orders

LEMMA BothWays ==
  ASSUME RrfK \in Nat, NEW s \in Seq(Chunk), NEW t \in Seq(Chunk)
  PROVE  Hits(s, t) = Hits(t, s) /\ Order(s, t) = Order(t, s)
<1>1. Hits(s, t) = Hits(t, s)
  BY DEF Hits
<1>2. \A c, d : Before(s, t, c, d) <=> Before(t, s, c, d)
  BY ScoreIs DEF Before
<1> QED
  BY <1>1, <1>2 DEF Order

\* Up to n of a sequence, from its start.
LEMMA FirstIs ==
  ASSUME NEW S, NEW s \in Seq(S), NEW n \in Nat
  PROVE  /\ First(s, n) \in Seq(S)
         /\ Smaller(n, Len(s)) \in 0 .. Len(s)
         /\ Len(First(s, n)) = Smaller(n, Len(s))
         /\ \A i \in 1 .. Smaller(n, Len(s)) : First(s, n)[i] = s[i]
<1> DEFINE m == Smaller(n, Len(s))
<1>1. Len(s) \in Nat /\ m \in 0 .. Len(s)
  BY DEF Smaller
<1>2. \A i \in 1 .. m : i \in 1 .. Len(s) /\ s[i] \in S
  BY <1>1
<1>3. SubSeq(s, 1, m) = [i \in 1 .. m |-> s[i]]
  <2> HIDE DEF m
  <2>1. SubSeq(s, 1, m) = [i \in 1 .. (1 + m - 1) |-> s[i + 1 - 1]]
    BY <1>1
  <2>2. 1 + m - 1 = m
    BY <1>1
  <2> QED
    BY <1>1, <2>1, <2>2
<1> HIDE DEF m
<1>4. SubSeq(s, 1, m) \in [1 .. m -> S]
  BY <1>2, <1>3
<1>5. SubSeq(s, 1, m) \in Seq(S) /\ Len(SubSeq(s, 1, m)) = m
  BY <1>1, <1>4
<1> QED
  BY <1>1, <1>3, <1>5 DEF First, m

\* The hits in their order, as far as there is room for them.
Fused(f, s, t, k) ==
    /\ f \in Seq(Hits(s, t)) /\ Len(f) = Smaller(Larger(1, k), Cardinality(Hits(s, t)))
    /\ \A i, j \in 1 .. Len(f) : i < j <=> Before(s, t, f[i], f[j])
    /\ \A c \in Hits(s, t) : \A j \in 1 .. Len(f) :
         Before(s, t, c, f[j]) => \E i \in 1 .. Len(f) : f[i] = c /\ i < j

LEMMA ChunksAre ==
  ASSUME FusionAssumption
  PROVE  Chunk \in SUBSET Nat /\ IsFiniteSet(Chunk) /\ Cardinality(Chunk) \in Nat /\ RrfK \in Nat
<1>1. IsFiniteSet(Chunk)
  BY DEF FusionAssumption
<1> DEFINE n == Cardinality(Chunk)
<1>2. n \in Nat /\ RrfK \in Nat /\ Chunk = 1 .. n
  BY <1>1, FS_CardinalityType DEF FusionAssumption
<1> HIDE DEF n
<1>3. Chunk \in SUBSET Nat
  BY <1>2
<1> QED
  BY <1>1, <1>2, <1>3 DEF n

LEMMA HitsAre ==
  ASSUME FusionAssumption, NEW s \in Seq(Chunk), NEW t \in Seq(Chunk)
  PROVE  /\ Chunk \in SUBSET Nat /\ RrfK \in Nat
         /\ Hits(s, t) \in SUBSET Chunk /\ IsFiniteSet(Hits(s, t))
         /\ Cardinality(Hits(s, t)) \in Nat /\ Cardinality(Hits(s, t)) <= Cardinality(Chunk)
         /\ Cardinality(Chunk) \in Nat
<1>1. Hits(s, t) \in SUBSET Chunk
  BY RangeIs DEF Hits
<1> QED
  BY <1>1, ChunksAre, FS_Subset, FS_CardinalityType

LEMMA FuseIs ==
  ASSUME FusionAssumption, NEW s \in Seq(Chunk), NEW t \in Seq(Chunk), NEW k \in Nat
  PROVE  Fused(Fuse(s, t, k), s, t, k)
<1> DEFINE H == Hits(s, t)
           n == Cardinality(H)
           ranked == SortedBy(H, Order(s, t))
           f == Fuse(s, t, k)
           l == Larger(1, k)
           m == Smaller(l, n)
<1>1. /\ Chunk \in SUBSET Nat /\ RrfK \in Nat /\ IsFiniteSet(H) /\ n \in Nat
  BY HitsAre
<1>2. /\ Orders(Order(s, t), H)
      /\ \A c, d \in H : <<c, d>> \in Order(s, t) <=> Before(s, t, c, d)
  BY <1>1, BeforeOrders
<1>3. ListsBy(ranked, H, Order(s, t))
  BY <1>1, <1>2, SortedLists
<1>4. /\ ranked \in [1 .. n -> H]
      /\ \A i, j \in 1 .. n : i < j <=> <<ranked[i], ranked[j]>> \in Order(s, t)
      /\ \A c \in H : \E i \in 1 .. n : ranked[i] = c
  BY <1>3 DEF ListsBy
<1>5. f = First(ranked, l)
  BY DEF Fuse, Hits, Order
<1>6. l \in Nat
  BY DEF Larger
<1> HIDE DEF H, n, ranked, f, l
<1>7. ranked \in Seq(H) /\ Len(ranked) = n
  BY <1>1, <1>4
<1>8. f \in Seq(H) /\ m \in 0 .. n /\ Len(f) = m /\ \A i \in 1 .. m : f[i] = ranked[i]
  BY <1>5, <1>6, <1>7, FirstIs
<1> HIDE DEF m
<1>9. \A i \in 1 .. m : i \in 1 .. n /\ f[i] \in H
  BY <1>1, <1>4, <1>8
<1>10. \A i, j \in 1 .. m : i < j <=> Before(s, t, f[i], f[j])
  BY <1>2, <1>4, <1>8, <1>9
<1>11. ASSUME NEW c \in H, NEW j \in 1 .. m, Before(s, t, c, f[j])
       PROVE  \E i \in 1 .. m : f[i] = c /\ i < j
  <2>1. PICK i \in 1 .. n : ranked[i] = c
    BY <1>4
  <2>2. <<ranked[i], ranked[j]>> \in Order(s, t)
    BY <1>2, <1>8, <1>9, <1>11, <2>1
  <2>3. i < j
    BY <1>4, <1>9, <2>1, <2>2
  <2>4. i \in 1 .. m
    BY <1>1, <1>8, <2>3
  <2> QED
    BY <1>8, <2>1, <2>3, <2>4
<1> QED
  BY <1>8, <1>10, <1>11 DEF Fused, H, n, f, l, m

\* A list that is in order repeats nothing.
LEMMA FusedOnce ==
  ASSUME FusionAssumption, NEW s \in Seq(Chunk), NEW t \in Seq(Chunk), NEW k, NEW f, Fused(f, s, t, k)
  PROVE  /\ IsInjective(f) /\ Range(f) \in SUBSET Hits(s, t)
         /\ DOMAIN f = 1 .. Len(f) /\ Len(f) \in Nat /\ f \in Seq(Chunk)
<1>1. f \in Seq(Hits(s, t)) /\ Hits(s, t) \in SUBSET Chunk /\ Chunk \in SUBSET Nat /\ RrfK \in Nat
  BY HitsAre DEF Fused
<1>2. DOMAIN f = 1 .. Len(f) /\ Len(f) \in Nat /\ \A i \in 1 .. Len(f) : f[i] \in Hits(s, t)
  BY <1>1
<1>3. ASSUME NEW i \in 1 .. Len(f), NEW j \in 1 .. Len(f), f[i] = f[j]
      PROVE  i = j
  <2>1. ~Before(s, t, f[i], f[i]) /\ ~Before(s, t, f[j], f[i])
    BY <1>1, <1>2, <1>3, BeforeOrders DEF Orders
  <2>2. ~(i < j) /\ ~(j < i)
    BY <1>3, <2>1 DEF Fused
  <2>3. i \in Nat /\ j \in Nat
    OBVIOUS
  <2> QED
    BY <2>2, <2>3
<1>4. f \in Seq(Chunk)
  BY <1>1, <1>2
<1> QED
  BY <1>2, <1>3, <1>4 DEF IsInjective, Range

LEMMA FusionFair ==
  ASSUME FusionAssumption, NEW s \in Seq(Chunk), NEW t \in Seq(Chunk), NEW k \in Nat
  PROVE  FairFor(s, t, k)
<1> DEFINE f == Fuse(s, t, k)
           H == Range(s) \cup Range(t)
<1>1. Fused(f, s, t, k) /\ H = Hits(s, t)
  BY FuseIs DEF Hits
<1>2. /\ IsInjective(f) /\ Range(f) \subseteq H /\ DOMAIN f = 1 .. Len(f) /\ f \in Seq(Chunk)
  BY <1>1, FusedOnce
<1>3. Len(f) = Smaller(Larger(1, k), Cardinality(H))
  BY <1>1 DEF Fused
<1>4. RrfK \in Nat
  BY HitsAre
<1>5. f = Fuse(t, s, k)
  <2>1. Hits(s, t) = Hits(t, s) /\ Order(s, t) = Order(t, s)
    BY <1>4, BothWays
  <2> QED
    BY <2>1 DEF Fuse, Hits, Order
<1>6. ASSUME NEW c \in H, NEW d \in H, c # d, Better(s, c, d), NoWorse(t, c, d), Contains(f, d)
      PROVE  Contains(f, c) /\ Rank(f, c) < Rank(f, d)
  <2>1. Over(Score(s, t, c), Score(s, t, d))
    BY <1>4, <1>6, ShareOver, ShareIs, SumOver DEF Score
  <2>2. Before(s, t, c, d)
    BY <2>1 DEF Before
  <2>3. Rank(f, d) \in 1 .. Len(f) /\ f[Rank(f, d)] = d
    BY <1>2, <1>6, RankIs
  <2>4. PICK i \in 1 .. Len(f) : f[i] = c /\ i < Rank(f, d)
    BY <1>1, <2>2, <2>3 DEF Fused
  <2>5. Contains(f, c)
    BY <2>4 DEF Contains
  <2>6. Rank(f, c) \in 1 .. Len(f) /\ f[Rank(f, c)] = c
    BY <1>2, <2>5, RankIs
  <2>7. Rank(f, c) = i
    BY <1>2, <2>4, <2>6 DEF IsInjective
  <2> QED
    BY <2>4, <2>5, <2>7
<1> HIDE DEF f, H
<1> QED
  BY <1>2, <1>3, <1>5, <1>6 DEF FairFor, f, H

\* d is s by descending key, what ties as it was.
Descends(d, s, key) ==
    \E order \in [1 .. Len(s) -> 1 .. Len(s)] :
        /\ d = [i \in 1 .. Len(s) |-> s[order[i]]]
        /\ \A i, j \in 1 .. Len(s) : i < j <=> Ahead(key, order[i], order[j])
        /\ \A p \in 1 .. Len(s) : \E i \in 1 .. Len(s) : order[i] = p

LEMMA DescendingIs ==
  ASSUME NEW S, NEW s \in Seq(S), NEW key, \A i \in 1 .. Len(s) : key[i] \in Int
  PROVE  Descends(Descending(s, key), s, key)
<1> DEFINE n == Len(s)
           P == 1 .. n
           R == {p \in P \X P : Ahead(key, p[1], p[2])}
           order == SortedBy(P, R)
<1>1. n \in Nat /\ DOMAIN s = P
  OBVIOUS
<1>2. IsFiniteSet(P) /\ Cardinality(P) = n
  <2>1. n \in Int /\ n >= 0 /\ 1 \in Int
    BY <1>1
  <2> HIDE DEF n
  <2>2. IsFiniteSet(1 .. n) /\ Cardinality(1 .. n) = (IF 1 > n THEN 0 ELSE n - 1 + 1)
    BY <2>1, FS_Interval
  <2> QED
    BY <2>1, <2>2
<1>3. \A i, j \in P : <<i, j>> \in R <=> Ahead(key, i, j)
  OBVIOUS
<1>4. Orders(R, P)
  <2>1. \A i \in P : key[i] \in Int /\ i \in Int
    OBVIOUS
  <2>2. \A i \in P : ~Ahead(key, i, i)
    BY <2>1 DEF Ahead
  <2>3. \A i, j \in P : i = j \/ Ahead(key, i, j) \/ Ahead(key, j, i)
    BY <2>1 DEF Ahead
  <2>4. \A i, j, k \in P : Ahead(key, i, j) /\ Ahead(key, j, k) => Ahead(key, i, k)
    BY <2>1 DEF Ahead
  <2> HIDE DEF R, P
  <2> QED
    BY <1>3, <2>2, <2>3, <2>4 DEF Orders
<1>5. Descending(s, key) = [i \in P |-> s[order[i]]]
  BY <1>1 DEF Descending
<1> HIDE DEF R, P
<1>6. ListsBy(order, P, R)
  BY <1>2, <1>4, SortedLists
<1> HIDE DEF order, n
<1>7. /\ order \in [1 .. n -> P]
      /\ \A i, j \in 1 .. n : i < j <=> <<order[i], order[j]>> \in R
      /\ \A p \in P : \E i \in 1 .. n : order[i] = p
  BY <1>2, <1>6 DEF ListsBy
<1>8. \A i, j \in 1 .. n : i < j <=> Ahead(key, order[i], order[j])
  BY <1>3, <1>7
<1> QED
  BY <1>5, <1>7, <1>8 DEF Descends, P, n

LEMMA DescendsKeeps ==
  ASSUME NEW S, NEW s \in Seq(S), NEW key, NEW d, Descends(d, s, key)
  PROVE  d \in Seq(S) /\ Len(d) = Len(s)
<1> DEFINE n == Len(s)
<1>1. PICK order \in [1 .. n -> 1 .. n] : d = [i \in 1 .. n |-> s[order[i]]]
  BY DEF Descends
<1>2. n \in Nat /\ \A i \in 1 .. n : s[i] \in S
  OBVIOUS
<1> HIDE DEF n
<1>3. d \in [1 .. n -> S]
  BY <1>1, <1>2
<1>4. d \in Seq(S) /\ Len(d) = n
  BY <1>2, <1>3
<1> QED
  BY <1>4 DEF n

LEMMA Bm25HitsAre ==
  ASSUME FusionAssumption, NEW score \in [Chunk -> Int], NEW k \in Nat
  PROVE  Bm25Hits(score, k) \in Seq(Chunk)
<1> DEFINE places == {i \in DOMAIN CorpusOrder : score[CorpusOrder[i]] > 0}
           hits == Pick(CorpusOrder, places)
           key == [i \in DOMAIN hits |-> score[hits[i]]]
<1>1. CorpusOrder \in Seq(Chunk) /\ places \in SUBSET (1 .. Len(CorpusOrder))
  BY DEF FusionAssumption
<1>2. Bm25Hits(score, k) = First(Descending(hits, key), k)
  BY DEF Bm25Hits
<1> HIDE DEF places
<1>3. hits \in Seq(Chunk)
  BY <1>1, PickIs
<1> HIDE DEF hits
<1>4. \A i \in 1 .. Len(hits) : key[i] \in Int
  BY <1>3
<1> HIDE DEF key
<1>5. Descending(hits, key) \in Seq(Chunk)
  BY <1>3, <1>4, DescendingIs, DescendsKeeps
<1> QED
  BY <1>2, <1>5, FirstIs

Keys(pool, relevance) == [i \in DOMAIN pool |-> Relevance(relevance, pool[i])]

LEMMA KeysAre ==
  ASSUME NEW pool \in Seq(Chunk), NEW relevance, \A c \in DOMAIN relevance : relevance[c] \in Int
  PROVE  \A i \in 1 .. Len(pool) : /\ Keys(pool, relevance)[i] \in Int
                                   /\ Keys(pool, relevance)[i] = Relevance(relevance, pool[i])
BY DEF Keys, Relevance, Unjudged

LEMMA RerankIs ==
  ASSUME NEW pool \in Seq(Chunk), NEW top \in Nat, Len(pool) <= top,
         NEW relevance, \A c \in DOMAIN relevance : relevance[c] \in Int
  PROVE  Descends(Rerank(pool, relevance, top), pool, Keys(pool, relevance))
<1> DEFINE n == Len(pool)
           key == Keys(pool, relevance)
<1>1. n \in Nat /\ pool = [i \in 1 .. n |-> pool[i]]
  OBVIOUS
<1>2. First(pool, top) = pool
  <2>1. /\ First(pool, top) \in Seq(Chunk) /\ Len(First(pool, top)) = Smaller(top, n)
        /\ \A i \in 1 .. Smaller(top, n) : First(pool, top)[i] = pool[i]
    BY FirstIs
  <2>2. Smaller(top, n) = n
    BY DEF Smaller
  <2> DEFINE f == First(pool, top)
  <2>3. f \in Seq(Chunk) /\ Len(f) = n /\ \A i \in 1 .. n : f[i] = pool[i]
    BY <2>1, <2>2
  <2> HIDE DEF f, n
  <2>4. f = [i \in 1 .. n |-> f[i]]
    BY <2>3
  <2>5. f = pool
    BY <1>1, <2>3, <2>4
  <2> QED
    BY <2>5 DEF f
<1>3. CASE n < 2
  <2>1. Rerank(pool, relevance, top) = pool
    BY <1>2, <1>3 DEF Rerank
  <2> DEFINE order == [i \in 1 .. n |-> i]
  <2>2. order \in [1 .. n -> 1 .. n] /\ \A i \in 1 .. n : order[i] = i
    OBVIOUS
  <2>6. \A p \in 1 .. n : \E i \in 1 .. n : order[i] = p
    BY <2>2
  <2>3. pool = [i \in 1 .. n |-> pool[order[i]]]
    <3> HIDE DEF n, order
    <3> QED
      BY <1>1, <2>2
  <2>4. \A i, j \in 1 .. n : i = j /\ ~(i < j) /\ ~Ahead(key, i, j)
    <3>1. \A i, j \in 1 .. n : i = j /\ ~(i < j) /\ i \in Int
      BY <1>1, <1>3
    <3>2. \A i \in 1 .. n : key[i] \in Int
      BY KeysAre
    <3> HIDE DEF key, n
    <3> QED
      BY <3>1, <3>2 DEF Ahead
  <2> HIDE DEF order, key
  <2>5. \A i, j \in 1 .. n : i < j <=> Ahead(key, order[i], order[j])
    BY <2>2, <2>4
  <2> QED
    BY <2>1, <2>2, <2>3, <2>5, <2>6 DEF Descends, key
<1>4. CASE ~(n < 2)
  <2>1. Rerank(pool, relevance, top) = Descending(pool, key)
    BY <1>2, <1>4 DEF Rerank, Keys
  <2>2. \A i \in 1 .. n : key[i] \in Int
    BY KeysAre
  <2> HIDE DEF key
  <2> QED
    BY <2>1, <2>2, DescendingIs DEF key
<1> QED
  BY <1>3, <1>4

LEMMA PoolIs ==
  ASSUME FusionAssumption, NEW score \in [Chunk -> Int], NEW vector \in Seq(Chunk), NEW size \in Nat \ {0}
  PROVE  /\ Retrieve(score, vector, size) \in Seq(Chunk)
         /\ IsInjective(Retrieve(score, vector, size))
         /\ Len(Retrieve(score, vector, size)) <= size
<1> DEFINE s == Bm25Hits(score, size * Widen)
           t == First(vector, size * Widen)
           f == Fuse(s, t, size)
           l == Cardinality(Hits(s, t))
<1>1. size * Widen \in Nat
  <2>1. size \in Nat /\ Widen \in Nat
    BY DEF FusionAssumption
  <2> QED
    BY <2>1, NatTimes
<1>2. s \in Seq(Chunk) /\ t \in Seq(Chunk)
  BY <1>1, Bm25HitsAre, FirstIs
<1>3. Retrieve(score, vector, size) = f
  BY DEF Retrieve
<1> HIDE DEF s, t
<1>4. Fused(f, s, t, size)
  BY <1>2, FuseIs
<1>5. l \in Nat
  BY <1>2, HitsAre
<1> HIDE DEF f
<1>6. IsInjective(f) /\ f \in Seq(Chunk)
  BY <1>2, <1>4, FusedOnce
<1>7. Len(f) = Smaller(Larger(1, size), l)
  BY <1>4 DEF Fused
<1> HIDE DEF l
<1>8. Len(f) <= size
  BY <1>5, <1>7 DEF Smaller, Larger
<1> QED
  BY <1>3, <1>6, <1>8

\* The first w of a list in descending order are the best w of it.
LEMMA BestFirst ==
  ASSUME NEW pool \in Seq(Chunk), IsInjective(pool), NEW w \in Nat, NEW d,
         NEW relevance, \A c \in DOMAIN relevance : relevance[c] \in Int,
         Descends(d, pool, Keys(pool, relevance))
  PROVE  /\ IsInjective(First(d, w)) /\ Range(First(d, w)) \subseteq Range(pool)
         /\ Len(First(d, w)) = Smaller(w, Len(pool))
         /\ \A c \in Range(First(d, w)), e \in Range(pool) \ Range(First(d, w)) :
              Relevance(relevance, c) >= Relevance(relevance, e)
<1> DEFINE n == Len(pool)
           a == First(d, w)
           m == Smaller(w, n)
           key == Keys(pool, relevance)
<1>1. n \in Nat /\ DOMAIN pool = 1 .. n
  OBVIOUS
<1>2. d \in Seq(Chunk) /\ Len(d) = n
  BY DescendsKeeps
<1>3. /\ a \in Seq(Chunk) /\ m \in 0 .. n /\ Len(a) = m
      /\ \A i \in 1 .. m : a[i] = d[i]
  BY <1>2, FirstIs
<1>4. PICK order \in [1 .. n -> 1 .. n] :
        /\ d = [i \in 1 .. n |-> pool[order[i]]]
        /\ \A i, j \in 1 .. n : i < j <=> Ahead(key, order[i], order[j])
        /\ \A p \in 1 .. n : \E i \in 1 .. n : order[i] = p
  BY DEF Descends
<1>5. \A i \in 1 .. n : key[i] \in Int /\ key[i] = Relevance(relevance, pool[i])
  BY KeysAre
<1> HIDE DEF n, a, m, key
<1>6. DOMAIN a = 1 .. m /\ \A i \in 1 .. m : i \in 1 .. n
  BY <1>1, <1>3
<1>7. \A i \in 1 .. m : order[i] \in 1 .. n /\ a[i] = pool[order[i]]
  BY <1>3, <1>4, <1>6
<1>8. ASSUME NEW i \in 1 .. n, NEW j \in 1 .. n, order[i] = order[j]
      PROVE  i = j
  <2>1. order[i] \in 1 .. n /\ order[j] \in 1 .. n
    BY <1>4
  <2>2. order[i] \in Int /\ key[order[i]] \in Int
    BY <1>5, <2>1
  <2>3. ~Ahead(key, order[i], order[i])
    BY <2>2 DEF Ahead
  <2>4. ~(i < j) /\ ~(j < i)
    BY <1>4, <1>8, <2>3
  <2> QED
    BY <1>1, <2>4
<1>9. \A p, q \in 1 .. n : pool[p] = pool[q] => p = q
  BY <1>1 DEF IsInjective
<1>10. IsInjective(a)
  BY <1>6, <1>7, <1>8, <1>9 DEF IsInjective
<1>11. Range(a) \subseteq Range(pool)
  BY <1>1, <1>6, <1>7 DEF Range
<1>12. ASSUME NEW c \in Range(a), NEW e \in Range(pool) \ Range(a)
       PROVE  Relevance(relevance, c) >= Relevance(relevance, e)
  <2>1. PICK i \in 1 .. m : c = a[i]
    BY <1>6 DEF Range
  <2>2. PICK p \in 1 .. n : e = pool[p]
    BY <1>1 DEF Range
  <2>3. PICK j \in 1 .. n : order[j] = p
    BY <1>4
  <2>4. ~(j \in 1 .. m)
    BY <1>6, <1>7, <2>2, <2>3 DEF Range
  <2>5. i < j /\ i \in 1 .. n
    BY <1>1, <1>3, <2>4
  <2>6. Ahead(key, order[i], order[j])
    BY <1>4, <2>5
  <2>7. /\ order[i] \in 1 .. n /\ order[j] \in 1 .. n
        /\ key[order[i]] = Relevance(relevance, c) /\ key[order[i]] \in Int
        /\ key[order[j]] = Relevance(relevance, e) /\ key[order[j]] \in Int
    BY <1>4, <1>5, <1>7, <2>1, <2>2, <2>3, <2>5
  <2>8. key[order[i]] >= key[order[j]]
    BY <2>6, <2>7 DEF Ahead
  <2> QED
    BY <2>7, <2>8
<1> QED
  BY <1>3, <1>10, <1>11, <1>12 DEF n, a, m

\* Without a judgement the order is the one there was.
LEMMA UnjudgedKeeps ==
  ASSUME NEW pool \in Seq(Chunk), NEW relevance, DOMAIN relevance = {}, NEW d,
         Descends(d, pool, Keys(pool, relevance))
  PROVE  d = pool
<1> DEFINE n == Len(pool)
           P == 1 .. n
           key == Keys(pool, relevance)
           same == [i \in P |-> i]
<1>1. n \in Nat /\ pool = [i \in P |-> pool[i]]
  OBVIOUS
<1>2. PICK order \in [P -> P] :
        /\ d = [i \in P |-> pool[order[i]]]
        /\ \A i, j \in P : i < j <=> Ahead(key, order[i], order[j])
        /\ \A p \in P : \E i \in P : order[i] = p
  BY DEF Descends
<1>3. \A i \in P : key[i] = -1
  BY DEF Keys, Relevance, Unjudged
<1>4. IsFiniteSet(P) /\ Cardinality(P) = n /\ P \in SUBSET Nat
  <2>1. n \in Nat
    BY <1>1
  <2> HIDE DEF n
  <2>2. IsFiniteSet(P) /\ Cardinality(P) = n
    BY <2>1, FS_Interval
  <2>3. P \in SUBSET Nat
    BY <2>1
  <2> QED
    BY <2>2, <2>3
<1> HIDE DEF key
<1>5. \A i, j \in P : Ahead(key, i, j) <=> i < j
  BY <1>3 DEF Ahead
<1>6. \A i, j \in P : i < j <=> order[i] < order[j]
  BY <1>2, <1>5
<1>7. Climbs(order, P)
  BY <1>2, <1>4, <1>6 DEF Climbs
<1>8. Climbs(same, P)
  BY <1>4 DEF Climbs
<1> HIDE DEF P, same
<1>9. order = same
  BY <1>4, <1>7, <1>8, Climbing
<1>10. \A i \in P : order[i] = i
  BY <1>9 DEF same
<1> QED
  BY <1>1, <1>2, <1>10

LEMMA ChoiceBest ==
  ASSUME FusionAssumption, NEW score \in [Chunk -> Int], NEW vector \in Seq(Chunk), NEW k \in Nat,
         NEW relevance, \A c \in DOMAIN relevance : relevance[c] \in Int
  PROVE  BestFor(score, vector, k, relevance)
<1> DEFINE w == WantedK(k)
           size == Pool(w, TRUE)
           pool == Retrieve(score, vector, size)
           d == Rerank(pool, relevance, size)
<1>1. w \in Nat /\ size \in Nat \ {0}
  BY DEF FusionAssumption, WantedK, Pool, Larger, Smaller
<1>2. Answer(score, vector, k, TRUE, relevance) = First(d, w)
  BY DEF Answer, Hybrid
<1> HIDE DEF w, size
<1>3. pool \in Seq(Chunk) /\ IsInjective(pool) /\ Len(pool) <= size
  BY <1>1, PoolIs
<1> HIDE DEF pool
<1>4. Descends(d, pool, Keys(pool, relevance))
  BY <1>1, <1>3, RerankIs
<1> HIDE DEF d
<1>5. /\ IsInjective(First(d, w)) /\ Range(First(d, w)) \subseteq Range(pool)
      /\ Len(First(d, w)) = Smaller(w, Len(pool))
      /\ \A c \in Range(First(d, w)), e \in Range(pool) \ Range(First(d, w)) :
           Relevance(relevance, c) >= Relevance(relevance, e)
  BY <1>1, <1>3, <1>4, BestFirst
<1>6. DOMAIN relevance = {} => d = pool
  BY <1>3, <1>4, UnjudgedKeeps
<1> QED
  BY <1>2, <1>5, <1>6 DEF BestFor, pool, size, w

\* What hybrid search promises of every pair of lists, every score and every judgement
\* of the model: fusion is fair to both lists, and the tool returns a best choice of k
\* (reciprocal_rank_fusion, LLMReranker.rerank, run_hybrid_query).
THEOREM RankingLawHolds == ASSUME FusionAssumption PROVE QuerySpec => []RankingLaw
<1> DEFINE Query == [score : [Chunk -> Int], vector : Seq(Chunk), k : Nat]
           Inv == query \in Query /\ \A c \in DOMAIN judged : judged[c] \in Int
           qVars == <<query, judged>>
           Step == \E c \in Chunk, grade \in Grades : Judge(c, grade)
<1>1. ASSUME QueryInit
      PROVE  Inv
  <2>1. Limits \subseteq Nat /\ Scores \subseteq Int
    BY DEF FusionAssumption
  <2>2. Lists \subseteq Seq(Chunk)
    <3>1. Cardinality(Chunk) \in Nat
      BY ChunksAre
    <3> QED
      BY <3>1 DEF Lists
  <2>3. query.score \in [Chunk -> Int]
    BY <1>1, <2>1 DEF QueryInit
  <2>4. query.vector \in Lists /\ query.k \in Nat
    BY <1>1, <2>1 DEF QueryInit
  <2>5. query = [score |-> query.score, vector |-> query.vector, k |-> query.k]
    BY <1>1 DEF QueryInit
  <2>6. query \in Query
    BY <2>2, <2>3, <2>4, <2>5
  <2> QED
    BY <1>1, <2>6 DEF QueryInit
<1>2. ASSUME Inv, [Step]_qVars
      PROVE  Inv'
  <2>1. ASSUME NEW c \in Chunk, NEW grade \in Grades, Judge(c, grade)
        PROVE  Inv'
    <3>1. grade \in Int
      BY DEF FusionAssumption
    <3>2. query' = query /\ judged' = [d \in DOMAIN judged \cup {c} |-> IF d = c THEN grade ELSE judged[d]]
      BY <2>1 DEF Judge
    <3>3. \A d \in DOMAIN judged' : judged'[d] \in Int
      BY <1>2, <3>1, <3>2
    <3> QED
      BY <1>2, <3>2, <3>3
  <2>2. CASE UNCHANGED qVars
    BY <1>2, <2>2
  <2> QED
    BY <1>2, <2>1, <2>2
<1>3. ASSUME Inv
      PROVE  RankingLaw
  <2>1. query.score \in [Chunk -> Int] /\ query.vector \in Seq(Chunk) /\ query.k \in Nat
    BY <1>3
  <2>2. Bm25Hits(query.score, query.k) \in Seq(Chunk)
    BY <2>1, Bm25HitsAre
  <2>3. FairFor(Bm25Hits(query.score, query.k), query.vector, query.k)
    BY <2>1, <2>2, FusionFair
  <2>4. BestFor(query.score, query.vector, query.k, judged)
    BY <1>3, <2>1, ChoiceBest
  <2> QED
    BY <2>3, <2>4 DEF RankingLaw
<1> QED
  BY <1>1, <1>2, <1>3, PTL DEF QuerySpec

-----------------------------------------------------------------------------
(* EvalRun: a path counts once, at its first hit.                          *)

LEMMA MinOfTwo ==
  ASSUME NEW a \in Nat, NEW b \in Nat
  PROVE  Min({a, b}) = Smaller(a, b)
<1>1. Smaller(a, b) \in {a, b} /\ Smaller(a, b) <= a /\ Smaller(a, b) <= b
  BY DEF Smaller
<1>2. \A x \in {a, b} : (\A y \in {a, b} : x <= y) => x = Smaller(a, b)
  BY <1>1
<1> QED
  BY <1>1, <1>2 DEF Min

LEMMA StartIs ==
  ASSUME NEW S, NEW s \in Seq(S), NEW n \in Nat
  PROVE  Start(s, n) = First(s, n)
<1>1. Len(s) \in Nat
  OBVIOUS
<1> QED
  BY <1>1, MinOfTwo DEF Start, First

LEMMA MaxIs ==
  ASSUME NEW a \in Nat, NEW b \in Nat, NEW c \in Nat
  PROVE  /\ Max({a, b}) \in {a, b} /\ Max({a, b}) >= a /\ Max({a, b}) >= b
         /\ Max({a, b, c}) \in {a, b, c}
         /\ Max({a, b, c}) >= a /\ Max({a, b, c}) >= b /\ Max({a, b, c}) >= c
<1>1. \E x \in {a, b} : \A y \in {a, b} : x >= y
  OBVIOUS
<1>2. \E x \in {a, b, c} : \A y \in {a, b, c} : x >= y
  OBVIOUS
<1>3. Max({a, b}) \in {a, b} /\ \A y \in {a, b} : Max({a, b}) >= y
  BY <1>1 DEF Max
<1>4. Max({a, b, c}) \in {a, b, c} /\ \A y \in {a, b, c} : Max({a, b, c}) >= y
  BY <1>2 DEF Max
<1> QED
  BY <1>3, <1>4

LEMMA CandidatesAre ==
  ASSUME EvalAssumption, NEW variant \in Variants, NEW k \in Nat
  PROVE  Candidates(variant, k) \in Nat
<1> DEFINE r == RerankCandidates
           k4 == k * 4
<1>1. r \in Nat /\ k4 \in Nat
  BY DEF EvalAssumption
<1>2. CASE variant = "keyword"
  <2>1. Candidates(variant, k) = Max({k4, 20})
    BY <1>2 DEF Candidates
  <2> HIDE DEF k4
  <2>2. Max({k4, 20}) \in Nat
    BY <1>1, MaxIs
  <2> QED
    BY <2>1, <2>2
<1>3. CASE variant = "hybrid"
  <2>1. Candidates(variant, k) = Max({1, k}) * 4
    BY <1>3 DEF Candidates
  <2>2. Max({1, k}) \in Nat
    BY MaxIs
  <2> QED
    BY <2>1, <2>2
<1>4. CASE variant = "hybrid_rerank"
  <2>1. Candidates(variant, k) = Max({1, k, r})
    BY <1>4 DEF Candidates, r
  <2> HIDE DEF r
  <2>2. Max({1, k, r}) \in {1, k, r}
    BY <1>1, MaxIs
  <2>3. Max({1, k, r}) \in Nat
    BY <1>1, <2>2
  <2> QED
    BY <2>1, <2>3
<1> QED
  BY <1>2, <1>3, <1>4 DEF Variants

Firsts(s) == {i \in DOMAIN s : \A j \in 1 .. i - 1 : s[j] # s[i]}

LEMMA DedupeIs ==
  ASSUME NEW S, NEW s \in Seq(S)
  PROVE  /\ dedupe_paths(s) \in Seq(S) /\ IsInjective(dedupe_paths(s))
         /\ Range(dedupe_paths(s)) = Range(s) /\ (dedupe_paths(s) = <<>> <=> s = <<>>)
<1> DEFINE F == Firsts(s)
           a == Ascending(F)
           d == dedupe_paths(s)
           n == Cardinality(F)
<1>1. F \in SUBSET (1 .. Len(s)) /\ DOMAIN s = 1 .. Len(s) /\ Len(s) \in Nat
  BY DEF Firsts
<1>2. d = Pick(s, F)
  BY DEF dedupe_paths, Firsts
<1> HIDE DEF F, d
<1>3. /\ IsFiniteSet(F) /\ F \in SUBSET Nat /\ n \in Nat /\ d \in Seq(S) /\ Len(d) = n
      /\ \A i \in 1 .. n : a[i] \in F /\ d[i] = s[a[i]]
      /\ Climbs(a, F)
  BY <1>1, <1>2, PickIs
<1> HIDE DEF a, n
<1>4. DOMAIN d = 1 .. n
  BY <1>3
<1>5. /\ \A i, j \in 1 .. n : i < j <=> a[i] < a[j]
      /\ \A x \in F : \E i \in 1 .. n : a[i] = x
  BY <1>3 DEF Climbs, n
<1>6. \A p \in F, q \in F : p < q => s[p] # s[q]
  <2> SUFFICES ASSUME NEW p \in F, NEW q \in F, p < q
               PROVE  s[p] # s[q]
    OBVIOUS
  <2>1. p \in 1 .. q - 1
    BY <1>1
  <2> QED
    BY <2>1 DEF F, Firsts
<1>7. IsInjective(d)
  <2> SUFFICES ASSUME NEW i \in 1 .. n, NEW j \in 1 .. n, d[i] = d[j]
               PROVE  i = j
    BY <1>4 DEF IsInjective
  <2>1. a[i] \in F /\ a[j] \in F /\ s[a[i]] = s[a[j]]
    BY <1>3
  <2>2. ~(a[i] < a[j]) /\ ~(a[j] < a[i])
    BY <1>6, <2>1
  <2>3. ~(i < j) /\ ~(j < i)
    BY <1>5, <2>2
  <2> QED
    BY <1>3, <2>3
<1>8. ASSUME NEW i \in 1 .. Len(s)
      PROVE  \E p \in F : s[p] = s[i]
  <2> DEFINE T == {p \in 1 .. Len(s) : s[p] = s[i]}
  <2>1. T \subseteq Nat /\ i \in T
    BY <1>1
  <2>2. PICK p \in T : \A q \in T : p <= q
    BY <2>1, LeastNat
  <2>3. \A j \in 1 .. p - 1 : s[j] # s[p]
    <3> SUFFICES ASSUME NEW j \in 1 .. p - 1, s[j] = s[p]
                 PROVE  FALSE
      OBVIOUS
    <3>1. j \in 1 .. Len(s) /\ j < p
      BY <1>1, <2>2
    <3>2. j \in T
      BY <2>2, <3>1
    <3> QED
      BY <2>1, <2>2, <3>1, <3>2
  <2>4. p \in F
    BY <1>1, <2>2, <2>3 DEF F, Firsts
  <2> QED
    BY <2>2, <2>4
<1>9. \A i \in 1 .. Len(s) : \E l \in 1 .. n : d[l] = s[i]
  BY <1>3, <1>5, <1>8
<1>10. \A l \in 1 .. n : \E i \in 1 .. Len(s) : d[l] = s[i]
  BY <1>1, <1>3
<1>11. Range(d) = Range(s)
  <2>1. Range(d) = {d[l] : l \in 1 .. n} /\ Range(s) = {s[i] : i \in 1 .. Len(s)}
    BY <1>1, <1>4 DEF Range
  <2> QED
    BY <1>9, <1>10, <2>1
<1>12. d = <<>> <=> s = <<>>
  <2>1. d = <<>> <=> n = 0
    BY <1>3
  <2>2. s = <<>> <=> Len(s) = 0
    OBVIOUS
  <2>3. n = 0 <=> Len(s) = 0
    BY <1>1, <1>3, <1>9, <1>10
  <2> QED
    BY <2>1, <2>2, <2>3
<1> QED
  BY <1>3, <1>7, <1>11, <1>12 DEF d

\* What repeats nothing is left as it is.
LEMMA DedupeAgain ==
  ASSUME NEW S, NEW s \in Seq(S), IsInjective(s)
  PROVE  dedupe_paths(s) = s
<1> DEFINE n == Len(s)
           P == 1 .. n
           same == [i \in P |-> i]
<1>1. n \in Nat /\ DOMAIN s = P /\ s = [i \in P |-> s[i]]
  OBVIOUS
<1>2. IsFiniteSet(P) /\ Cardinality(P) = n /\ P \in SUBSET Nat
  <2>1. n \in Nat
    BY <1>1
  <2> HIDE DEF n
  <2>2. IsFiniteSet(P) /\ Cardinality(P) = n
    BY <2>1, FS_Interval
  <2>3. P \in SUBSET Nat
    BY <2>1
  <2> QED
    BY <2>2, <2>3
<1>3. Firsts(s) = P
  <2>1. \A i \in P : \A j \in 1 .. i - 1 : j \in P /\ j # i
    BY <1>1
  <2>2. \A i \in P : \A j \in 1 .. i - 1 : s[j] # s[i]
    BY <1>1, <2>1 DEF IsInjective
  <2> QED
    BY <1>1, <2>2 DEF Firsts
<1>4. Climbs(same, P)
  BY <1>2 DEF Climbs
<1> HIDE DEF P, same, n
<1>5. same = Ascending(P)
  BY <1>2, <1>4, Climbing
<1>6. DOMAIN same = P /\ \A i \in P : same[i] = i
  BY DEF same
<1>7. dedupe_paths(s) = Pick(s, P)
  BY <1>3 DEF dedupe_paths, Firsts
<1>8. Pick(s, P) = [i \in P |-> s[same[i]]]
  BY <1>5, <1>6 DEF Pick
<1> QED
  BY <1>1, <1>6, <1>7, <1>8

-----------------------------------------------------------------------------
(* EvalRun: the metrics of a case count the same ranks.                    *)

Found(d, expected, m) == {i \in 1 .. Len(d) : i <= m /\ d[i] \in Range(expected)}

\* The metrics of a list of paths without repetition, by the ranks at which it has an
\* expected path.
Graded(d, e, k) ==
    LET hits == Cardinality(Found(d, e, k))
        all  == Cardinality(Range(e))
        len  == Smaller(k, Len(d))
    IN  /\ recall_at_k(d, e, k) = IF e = <<>> THEN <<1, 1>> ELSE <<hits, all>>
        /\ context_precision(d, e, k) = IF len = 0 THEN <<0, 1>> ELSE <<hits, len>>
        /\ hits \in Nat /\ all \in Nat /\ len \in Nat /\ hits <= all /\ hits <= len
        /\ hits = 0 <=> Found(d, e, k) = {}
        /\ e # <<>> => all # 0
        /\ IsFiniteSet(Found(d, e, k))

LEMMA RangeFinite ==
  ASSUME NEW S, NEW e \in Seq(S)
  PROVE  IsFiniteSet(Range(e)) /\ Cardinality(Range(e)) \in Nat /\ (e # <<>> => Cardinality(Range(e)) # 0)
<1> DEFINE n == Len(e)
           R == Range(e)
           f == [i \in 1 .. n |-> e[i]]
<1>1. n \in Nat /\ DOMAIN e = 1 .. n /\ (e # <<>> => n # 0)
  OBVIOUS
<1>2. R = {e[i] : i \in 1 .. n}
  BY <1>1 DEF Range
<1>3. IsFiniteSet(1 .. n)
  BY <1>1, FS_Interval
<1> HIDE DEF R, n
<1>4. f \in Surjection(1 .. n, R)
  BY <1>2 DEF Surjection
<1>5. IsFiniteSet(R)
  BY <1>3, <1>4, FS_Surjection
<1>6. e # <<>> => R # {}
  <2>1. n # 0 => 1 \in 1 .. n
    BY <1>1
  <2> QED
    BY <1>1, <1>2, <2>1
<1> QED
  BY <1>5, <1>6, FS_CardinalityType, FS_EmptySet DEF R

LEMMA GradesAre ==
  ASSUME NEW S, NEW d \in Seq(S), IsInjective(d), NEW e \in Seq(S), NEW k \in Nat
  PROVE  Graded(d, e, k)
<1> DEFINE t == First(d, k)
           n == Len(d)
           len == Smaller(k, n)
           E == Range(e)
           H == Found(d, e, k)
           V == E \cap Range(t)
<1>1. /\ t \in Seq(S) /\ len \in 0 .. n /\ Len(t) = len /\ n \in Nat
      /\ \A i \in 1 .. len : t[i] = d[i]
  <2>1. /\ t \in Seq(S) /\ len \in 0 .. n /\ Len(t) = len
        /\ \A i \in 1 .. len : t[i] = d[i]
    BY FirstIs
  <2>2. n \in Nat
    OBVIOUS
  <2> QED
    BY <2>1, <2>2
<1>2. Top(d, k) = t
  BY DedupeAgain, StartIs DEF Top
<1>3. IsFiniteSet(E) /\ Cardinality(E) \in Nat /\ (e # <<>> => Cardinality(E) # 0)
  BY RangeFinite
<1>4. \A i \in 1 .. n : i <= k <=> i \in 1 .. len
  BY <1>1 DEF Smaller
<1>5. DOMAIN t = 1 .. len /\ Range(t) = {t[i] : i \in 1 .. len}
  BY <1>1 DEF Range
<1>6. H = {i \in 1 .. len : t[i] \in E}
  <2>1. \A i \in 1 .. len : i \in 1 .. n
    BY <1>1
  <2>2. H = {i \in 1 .. n : i <= k /\ d[i] \in E}
    BY DEF Found
  <2> HIDE DEF t, n, len, E, H, V
  <2> QED
    BY <1>1, <1>4, <2>1, <2>2
<1>7. \A i, j \in 1 .. len : t[i] = t[j] => i = j
  <2>1. \A i \in 1 .. len : i \in DOMAIN d
    BY <1>1
  <2> QED
    BY <1>1, <2>1 DEF IsInjective
<1>8. IsFiniteSet(1 .. len) /\ Cardinality(1 .. len) = len
  <2>1. len \in Int /\ len >= 0
    BY <1>1
  <2> HIDE DEF len
  <2> QED
    BY <2>1, FS_Interval
<1> HIDE DEF t, n, len, E, H
<1>9. IsFiniteSet(H) /\ Cardinality(H) <= len /\ Cardinality(H) \in Nat
  BY <1>6, <1>8, FS_Subset, FS_CardinalityType
<1>10. V \in SUBSET E /\ V = {x \in E : \E i \in 1 .. len : x = t[i]}
  BY <1>5
<1>11. IsFiniteSet(V) /\ Cardinality(V) <= Cardinality(E)
  BY <1>3, <1>10, FS_Subset
<1>12. Cardinality(V) = Cardinality(H)
  <2> DEFINE f == [i \in H |-> t[i]]
  <2>1. f \in [H -> V]
    BY <1>6, <1>10
  <2>2. f \in Surjection(H, V)
    BY <1>6, <1>10, <2>1 DEF Surjection
  <2>3. f \in Injection(H, V)
    BY <1>6, <1>7, <2>1 DEF Injection, IsInjective
  <2> HIDE DEF f, V
  <2> QED
    BY <1>9, <2>2, <2>3, FS_Surjection
<1>13. recall_at_k(d, e, k) = IF e = <<>> THEN <<1, 1>> ELSE <<Cardinality(H), Cardinality(E)>>
  BY <1>2, <1>12 DEF recall_at_k, E
<1>14. context_precision(d, e, k) = IF len = 0 THEN <<0, 1>> ELSE <<Cardinality(H), len>>
  <2>1. t = <<>> <=> len = 0
    BY <1>1
  <2>2. {i \in DOMAIN t : t[i] \in E} = H
    BY <1>5, <1>6
  <2>3. context_precision(d, e, k) = IF t = <<>> THEN <<0, 1>>
                                     ELSE <<Cardinality({i \in DOMAIN t : t[i] \in E}), Len(t)>>
    BY <1>2 DEF context_precision, E
  <2> QED
    BY <1>1, <2>1, <2>2, <2>3
<1>15. Cardinality(H) = 0 <=> H = {}
  BY <1>9, FS_EmptySet
<1>16. len \in Nat
  BY <1>1
<1>17. Cardinality(H) <= Cardinality(E)
  BY <1>11, <1>12
<1> QED
  BY <1>3, <1>9, <1>13, <1>14, <1>15, <1>16, <1>17 DEF Graded, E, H, len, n

\* The rank of the first hit.
RankOf(d, e) ==
    IF e = <<>> THEN <<1, 1>>
    ELSE IF Found(d, e, Len(d)) = {} THEN <<0, 1>> ELSE <<1, Min(Found(d, e, Len(d)))>>

LEMMA ReciprocalRankIs ==
  ASSUME NEW S, NEW d \in Seq(S), IsInjective(d), NEW e \in Seq(S)
  PROVE  /\ reciprocal_rank(d, e) = RankOf(d, e)
         /\ Found(d, e, Len(d)) # {} =>
              /\ Min(Found(d, e, Len(d))) \in Found(d, e, Len(d)) /\ Min(Found(d, e, Len(d))) \in Nat \ {0}
              /\ \A i \in Found(d, e, Len(d)) : Min(Found(d, e, Len(d))) <= i
<1> DEFINE F == Found(d, e, Len(d))
<1>1. F = {i \in DOMAIN d : d[i] \in Range(e)}
  BY DEF Found
<1>2. dedupe_paths(d) = d
  BY DedupeAgain
<1>3. F \subseteq Nat \ {0}
  BY DEF Found
<1> HIDE DEF F
<1>4. reciprocal_rank(d, e) = IF e = <<>> THEN <<1, 1>> ELSE IF F = {} THEN <<0, 1>> ELSE <<1, Min(F)>>
  BY <1>1, <1>2 DEF reciprocal_rank
<1>5. F # {} => Min(F) \in F /\ \A i \in F : Min(F) <= i
  <2>1. F \subseteq Nat
    BY <1>3
  <2>2. F # {} => \E n \in F : \A m \in F : n <= m
    BY <2>1, LeastNat
  <2> QED
    BY <2>2 DEF Min
<1> QED
  BY <1>3, <1>4, <1>5 DEF RankOf, F

\* A greater k finds no less.
LEMMA RecallGrows ==
  ASSUME NEW S, NEW d \in Seq(S), IsInjective(d), NEW e \in Seq(S), NEW k \in Nat
  PROVE  AtMost(recall_at_k(d, e, k), recall_at_k(d, e, k + 1))
<1> DEFINE p == Cardinality(Found(d, e, k))
           q == Cardinality(Found(d, e, k + 1))
           a == Cardinality(Range(e))
<1>1. k + 1 \in Nat /\ Graded(d, e, k) /\ Graded(d, e, k + 1)
  BY GradesAre
<1>2. Found(d, e, k) \in SUBSET Found(d, e, k + 1) /\ IsFiniteSet(Found(d, e, k + 1))
  BY <1>1 DEF Graded, Found
<1>3. p <= q
  BY <1>2, FS_Subset
<1>4. /\ recall_at_k(d, e, k) = IF e = <<>> THEN <<1, 1>> ELSE <<p, a>>
      /\ recall_at_k(d, e, k + 1) = IF e = <<>> THEN <<1, 1>> ELSE <<q, a>>
      /\ p \in Nat /\ q \in Nat /\ a \in Nat
  BY <1>1 DEF Graded
<1> HIDE DEF p, q, a
<1>5. p * a <= q * a
  <2>1. CASE a = 0
    BY <1>4, <2>1
  <2>2. CASE a # 0
    <3>1. p * a \in Nat /\ q * a \in Nat /\ ~(p * a > q * a)
      BY <1>3, <1>4, <2>2, NatTimes, TimesMonotone
    <3> QED
      BY <3>1
  <2> QED
    BY <2>1, <2>2
<1>6. AtMost(<<p, a>>, <<q, a>>) /\ AtMost(<<1, 1>>, <<1, 1>>)
  <2>1. AtMost(<<p, a>>, <<q, a>>) <=> p * a <= q * a
    BY DEF AtMost
  <2>2. AtMost(<<1, 1>>, <<1, 1>>) <=> 1 * 1 <= 1 * 1
    BY DEF AtMost
  <2> QED
    BY <1>5, <2>1, <2>2
<1> QED
  BY <1>4, <1>6

LEMMA RankWithin ==
  ASSUME NEW S, NEW d \in Seq(S), IsInjective(d), NEW e \in Seq(S), e # <<>>, NEW k \in Nat \ {0}
  PROVE  recall_at_k(d, e, k)[1] > 0 <=> AtMost(<<1, k>>, reciprocal_rank(d, e))
<1> DEFINE F == Found(d, e, Len(d))
           G == Found(d, e, k)
           h == Cardinality(G)
<1>1. recall_at_k(d, e, k)[1] = h /\ h \in Nat /\ (h = 0 <=> G = {})
  <2>1. k \in Nat
    OBVIOUS
  <2>2. Graded(d, e, k)
    BY <2>1, GradesAre
  <2> QED
    BY <2>2 DEF Graded
<1>2. /\ reciprocal_rank(d, e) = IF F = {} THEN <<0, 1>> ELSE <<1, Min(F)>>
      /\ F # {} => Min(F) \in F /\ Min(F) \in Nat \ {0} /\ \A i \in F : Min(F) <= i
  BY ReciprocalRankIs DEF RankOf
<1>3. \A i : i \in G <=> i \in F /\ i <= k
  <2>1. Len(d) \in Nat /\ \A i \in 1 .. Len(d) : i <= Len(d)
    OBVIOUS
  <2> QED
    BY <2>1 DEF Found
<1>4. F \subseteq Nat
  BY DEF Found
<1> HIDE DEF F, G, h
<1>5. CASE F = {}
  <2>1. ~AtMost(<<1, k>>, <<0, 1>>)
    BY DEF AtMost
  <2> QED
    BY <1>1, <1>2, <1>3, <1>5, <2>1
<1>6. CASE F # {}
  <2> DEFINE m == Min(F)
  <2>1. reciprocal_rank(d, e) = <<1, m>> /\ m \in F /\ m \in Nat /\ \A i \in F : m <= i
    BY <1>2, <1>6
  <2> HIDE DEF m
  <2>2. AtMost(<<1, k>>, <<1, m>>) <=> m <= k
    BY <2>1 DEF AtMost
  <2>3. G # {} <=> m <= k
    <3>1. ASSUME NEW i \in F, i <= k
          PROVE  m <= k
      BY <1>4, <2>1, <3>1
    <3> QED
      BY <1>3, <2>1, <3>1
  <2> QED
    BY <1>1, <2>1, <2>2, <2>3
<1> QED
  BY <1>5, <1>6

LEMMA RecordIs ==
  ASSUME EvalAssumption, NEW variant \in Variants, NEW ranking \in Seq(Paths), NEW e, NEW k \in Nat
  PROVE  LET r == retrieval_record(variant, ranking, e, k)
             d == Retrieved(variant, ranking, k)
         IN  /\ r.recall = recall_at_k(d, e, k) /\ r.precision = context_precision(d, e, k)
             /\ r.rank = reciprocal_rank(d, e) /\ r.label = failure_label("ok", r.recall, e)
             /\ r.status = "ok" /\ r.variant = variant
<1> DEFINE d == Retrieved(variant, ranking, k)
<1>1. ranking # Missing
  BY DEF EvalAssumption
<1>2. retrieval_record(variant, ranking, e, k) =
        [variant |-> variant, status |-> "ok", recall |-> recall_at_k(d, e, k),
         precision |-> context_precision(d, e, k), rank |-> reciprocal_rank(d, e),
         label |-> failure_label("ok", recall_at_k(d, e, k), e)]
  BY <1>1 DEF retrieval_record, Scored
<1> QED
  BY <1>2

LEMMA RetrievedIs ==
  ASSUME EvalAssumption, NEW variant \in Variants, NEW ranking \in Seq(Paths), NEW k \in Nat
  PROVE  Retrieved(variant, ranking, k) \in Seq(Paths) /\ IsInjective(Retrieved(variant, ranking, k))
<1> DEFINE c == Candidates(variant, k)
           s == First(ranking, c)
<1>1. c \in Nat
  BY CandidatesAre
<1> HIDE DEF c
<1>2. s \in Seq(Paths) /\ Start(ranking, c) = s
  BY <1>1, FirstIs, StartIs
<1> HIDE DEF s
<1>3. dedupe_paths(s) \in Seq(Paths) /\ IsInjective(dedupe_paths(s))
  BY <1>2, DedupeIs
<1> QED
  BY <1>2, <1>3 DEF Retrieved, c

LEMMA MetricsHold ==
  ASSUME EvalAssumption, NEW variant \in Variants, NEW ranking \in Seq(Paths), NEW e \in Seq(Paths),
         NEW k \in Nat \ {0}
  PROVE  MetricsAgree(variant, ranking, e, k)
<1> DEFINE d == Retrieved(variant, ranking, k)
           e1 == dedupe_paths(e)
           r == retrieval_record(variant, ranking, e, k)
           r2 == retrieval_record(variant, ranking, e1, k)
           recall == recall_at_k(d, e, k)
           hits == Cardinality(Found(d, e, k))
           all == Cardinality(Range(e))
           len == Smaller(k, Len(d))
<1>1. d \in Seq(Paths) /\ IsInjective(d)
  <2>1. k \in Nat
    OBVIOUS
  <2> QED
    BY <2>1, RetrievedIs
<1>2. /\ r.recall = recall /\ r.precision = context_precision(d, e, k)
      /\ r.rank = reciprocal_rank(d, e) /\ r.label = failure_label("ok", recall, e)
      /\ r2.recall = recall_at_k(d, e1, k)
  BY RecordIs
<1>3. MetricsAgree(variant, ranking, e, k) <=>
        /\ AtMost(r.recall, <<1, 1>>) /\ AtMost(r.precision, <<1, 1>>)
        /\ e # <<>> => r.recall[1] = r.precision[1]
        /\ e # <<>> => (r.recall[1] > 0 <=> AtMost(<<1, k>>, r.rank))
        /\ r.label = "missed_expected_chunk" <=> ~AtMost(<<1, k>>, r.rank)
        /\ Same(r.recall, r2.recall)
        /\ AtMost(r.recall, recall_at_k(d, e, k + 1))
  BY DEF MetricsAgree
<1> HIDE DEF d, r, r2
<1>4. /\ recall = IF e = <<>> THEN <<1, 1>> ELSE <<hits, all>>
      /\ context_precision(d, e, k) = IF len = 0 THEN <<0, 1>> ELSE <<hits, len>>
      /\ hits \in Nat /\ all \in Nat /\ len \in Nat /\ hits <= all /\ hits <= len
  <2>1. k \in Nat
    OBVIOUS
  <2>2. Graded(d, e, k)
    BY <1>1, <2>1, GradesAre
  <2> QED
    BY <2>2 DEF Graded
<1>5. recall_at_k(d, e1, k) = recall
  BY DedupeIs DEF recall_at_k
<1>6. AtMost(recall, recall_at_k(d, e, k + 1))
  <2>1. k \in Nat
    OBVIOUS
  <2> QED
    BY <1>1, <2>1, RecallGrows
<1>8. e # <<>> => (recall[1] > 0 <=> AtMost(<<1, k>>, reciprocal_rank(d, e)))
  BY <1>1, RankWithin
<1>9. e = <<>> => AtMost(<<1, k>>, reciprocal_rank(d, e))
  BY DEF reciprocal_rank, AtMost
<1> HIDE DEF hits, all, len, recall, e1
<1>10. AtMost(recall, <<1, 1>>) /\ AtMost(context_precision(d, e, k), <<1, 1>>)
  BY <1>4 DEF AtMost
<1>11. e # <<>> => recall[1] = context_precision(d, e, k)[1]
  BY <1>4
<1>12. Same(recall, recall)
  BY <1>4 DEF Same, AtMost
<1>13. failure_label("ok", recall, e) = "missed_expected_chunk" <=> recall[1] = 0 /\ e # <<>>
  BY DEF failure_label
<1>14. recall[1] = 0 <=> ~(recall[1] > 0)
  BY <1>4
<1>15. failure_label("ok", recall, e) = "missed_expected_chunk"
         <=> ~AtMost(<<1, k>>, reciprocal_rank(d, e))
  BY <1>8, <1>9, <1>13, <1>14
<1> QED
  BY <1>2, <1>3, <1>5, <1>6, <1>8, <1>10, <1>11, <1>12, <1>15

-----------------------------------------------------------------------------
(* EvalRun: an average lies between the scores it is of.                   *)

Times(m, c) == <<m * c[1], c[2]>>

LEMMA PlusIs ==
  ASSUME NEW x \in Fraction, NEW y \in Fraction
  PROVE  Plus(x, y) \in Fraction
<1>1. x[1] \in Nat /\ x[2] \in Nat \ {0} /\ y[1] \in Nat /\ y[2] \in Nat \ {0}
  BY DEF Fraction
<1>2. /\ x[1] * y[2] \in Nat /\ y[1] * x[2] \in Nat /\ x[2] * y[2] \in Nat /\ x[2] * y[2] # 0
  BY <1>1, NatTimes
<1> QED
  BY <1>2 DEF Plus, Fraction

\* m * c <= y and c <= x make (m + 1) * c <= y + x, and so from above.
LEMMA PlusKeeps ==
  ASSUME NEW c \in Fraction, NEW y \in Fraction, NEW x \in Fraction, NEW m \in Nat
  PROVE  /\ AtMost(Times(m, c), y) /\ AtMost(c, x) => AtMost(Times(m + 1, c), Plus(y, x))
         /\ AtMost(y, Times(m, c)) /\ AtMost(x, c) => AtMost(Plus(y, x), Times(m + 1, c))
<1> DEFINE p == c[1]  q == c[2]  a == y[1]  b == y[2]  e == x[1]  f == x[2]
<1>1. /\ p \in Nat /\ q \in Nat \ {0} /\ a \in Nat /\ b \in Nat \ {0} /\ e \in Nat /\ f \in Nat \ {0}
  BY DEF Fraction
<1>2. /\ AtMost(Times(m, c), y) <=> (m * p) * b <= a * q
      /\ AtMost(y, Times(m, c)) <=> a * q <= (m * p) * b
      /\ AtMost(c, x) <=> p * f <= e * q
      /\ AtMost(x, c) <=> e * q <= p * f
      /\ AtMost(Times(m + 1, c), Plus(y, x)) <=> ((m + 1) * p) * (b * f) <= (a * f + e * b) * q
      /\ AtMost(Plus(y, x), Times(m + 1, c)) <=> (a * f + e * b) * q <= ((m + 1) * p) * (b * f)
  BY DEF AtMost, Times, Plus
<1> HIDE DEF p, q, a, b, e, f
<1>3. /\ ((m + 1) * p) * (b * f) = ((m * p) * b) * f + (p * f) * b
      /\ (a * f + e * b) * q = (a * q) * f + (e * q) * b
  BY <1>1
<1>4. m * p \in Nat /\ a * q \in Nat /\ p * f \in Nat /\ e * q \in Nat
  BY <1>1, NatTimes
<1>5. (m * p) * b \in Nat
  BY <1>1, <1>4, NatTimes
<1>6. /\ ((m * p) * b) * f \in Nat /\ (p * f) * b \in Nat /\ (a * q) * f \in Nat /\ (e * q) * b \in Nat
  BY <1>1, <1>4, <1>5, NatTimes
<1>7. /\ (m * p) * b > a * q <=> ((m * p) * b) * f > (a * q) * f
      /\ a * q > (m * p) * b <=> (a * q) * f > ((m * p) * b) * f
      /\ p * f > e * q <=> (p * f) * b > (e * q) * b
      /\ e * q > p * f <=> (e * q) * b > (p * f) * b
  BY <1>1, <1>4, <1>5, TimesMonotone
<1> HIDE DEF Fraction
<1> QED
  BY <1>2, <1>3, <1>4, <1>5, <1>6, <1>7

LEMMA AtMostOrders ==
  ASSUME NEW x \in Fraction, NEW y \in Fraction, NEW z \in Fraction
  PROVE  /\ AtMost(x, y) \/ AtMost(y, x)
         /\ AtMost(x, y) /\ AtMost(y, z) => AtMost(x, z)
<1>1. /\ x[1] \in Nat /\ x[2] \in Nat \ {0} /\ y[1] \in Nat /\ y[2] \in Nat \ {0}
      /\ z[1] \in Nat /\ z[2] \in Nat \ {0}
  BY DEF Fraction
<1>2. x[1] * y[2] \in Nat /\ y[1] * x[2] \in Nat
  BY <1>1, NatTimes
<1>3. x[1] * y[2] <= y[1] * x[2] \/ y[1] * x[2] <= x[1] * y[2]
  BY <1>2
<1> DEFINE a == x[1]  b == x[2]  c == y[1]  d == y[2]  e == z[1]  f == z[2]
<1>4. /\ a \in Nat /\ b \in Nat \ {0} /\ c \in Nat /\ d \in Nat \ {0} /\ e \in Nat /\ f \in Nat \ {0}
  BY <1>1
<1>5. /\ AtMost(x, y) <=> a * d <= c * b
      /\ AtMost(y, z) <=> c * f <= e * d
      /\ AtMost(x, z) <=> a * f <= e * b
  BY DEF AtMost
<1> HIDE DEF a, b, c, d, e, f
<1>6. e * d >= c * f /\ c * b >= a * d => e * b >= a * f
  BY <1>4, CrossTransitive
<1>7. /\ a * d \in Nat /\ c * b \in Nat /\ c * f \in Nat /\ e * d \in Nat /\ a * f \in Nat /\ e * b \in Nat
  BY <1>4, NatTimes
<1>8. AtMost(x, y) /\ AtMost(y, z) => AtMost(x, z)
  BY <1>5, <1>6, <1>7
<1> QED
  BY <1>3, <1>8 DEF AtMost

LEMMA TotalIs ==
  ASSUME NEW q \in Seq(Fraction)
  PROVE  \E acc \in [0 .. Len(q) -> Fraction] :
           /\ acc[0] = <<0, 1>>
           /\ \A n \in 1 .. Len(q) : acc[n] = Plus(acc[n - 1], q[n])
           /\ Total(q) = acc[Len(q)]
<1> DEFINE L == Len(q)
           zero == <<0, 1>>
           F == [p \in Fraction \X (1 .. L) |-> Plus(p[1], q[p[2]])]
           A(h) == [n \in 0 .. L |-> IF n = 0 THEN zero ELSE Plus(h[n - 1], q[n])]
           acc == CHOOSE h : h = A(h)
<1>1. L \in Nat
  OBVIOUS
<1>11. \A n \in 1 .. L : q[n] \in Fraction
  OBVIOUS
<1>2. Total(q) = acc[L]
  BY DEF Total
<1>3. zero \in Fraction
  BY DEF Fraction
<1> HIDE DEF L, zero
<1>4. F \in Steps(Fraction, L)
  <2> HIDE DEF Fraction
  <2> QED
    BY <1>1, <1>11, PlusIs DEF Steps
<1>5. Recursive(L, Fraction, zero, F)
  <2> HIDE DEF F
  <2> QED
    BY <1>1, <1>3, <1>4, Recursion
<1>6. PICK g : g = A(g)
  <2>1. PICK g \in [0 .. L -> Fraction] : Follows(g, L, Fraction, zero, F)
    BY <1>5 DEF Recursive
  <2>2. ASSUME NEW i \in 1 .. L
        PROVE  g[i] = Plus(g[i - 1], q[i])
    <3>1. g[i - 1] \in Fraction
      BY <1>1
    <3> HIDE DEF Fraction
    <3> QED
      BY <2>1, <3>1 DEF Follows
  <2>3. g[0] = zero
    BY <2>1 DEF Follows
  <2>4. g = [n \in 0 .. L |-> g[n]]
    OBVIOUS
  <2> HIDE DEF Fraction
  <2>5. \A n \in 0 .. L : n = 0 \/ n \in 1 .. L
    BY <1>1
  <2>6. \A n \in 0 .. L : g[n] = IF n = 0 THEN zero ELSE Plus(g[n - 1], q[n])
    BY <2>2, <2>3, <2>5
  <2> QED
    BY <2>4, <2>6
<1>7. acc = A(acc)
  <2> HIDE DEF A
  <2> QED
    BY <1>6
<1> HIDE DEF acc
<1>8. acc[0] = zero /\ \A n \in 1 .. L : acc[n] = Plus(acc[n - 1], q[n])
  BY <1>1, <1>7
<1>9. \A i \in 0 .. L : acc[i] \in Fraction
  <2>1. Follows(acc, L, Fraction, zero, F)
    <3> HIDE DEF Fraction
    <3> QED
      BY <1>8 DEF Follows
  <2> HIDE DEF F
  <2> QED
    BY <1>1, <1>3, <1>4, <2>1, RecursionStays
<1>10. acc \in [0 .. L -> Fraction]
  <2>1. acc = [n \in 0 .. L |-> acc[n]]
    BY <1>7
  <2> QED
    BY <1>9, <2>1
<1> QED
  BY <1>2, <1>8, <1>10 DEF L, zero

\* What bounds every score bounds their average.
LEMMA AverageBounded ==
  ASSUME NEW q \in Seq(Fraction), q # <<>>, NEW c \in Fraction
  PROVE  /\ avg_optional(q) \in Fraction
         /\ (\A i \in 1 .. Len(q) : AtMost(c, q[i])) => AtMost(c, avg_optional(q))
         /\ (\A i \in 1 .. Len(q) : AtMost(q[i], c)) => AtMost(avg_optional(q), c)
<1> DEFINE n == Len(q)
           t == Total(q)
<1>1. n \in Nat \ {0} /\ \A i \in 1 .. n : q[i] \in Fraction
  OBVIOUS
<1>2. PICK acc \in [0 .. n -> Fraction] :
        acc[0] = <<0, 1>> /\ (\A i \in 1 .. n : acc[i] = Plus(acc[i - 1], q[i])) /\ t = acc[n]
  BY TotalIs
<1>3. avg_optional(q) = <<t[1], t[2] * n>>
  BY DEF avg_optional
<1> HIDE DEF n, t
<1>4. AtMost(Times(0, c), <<0, 1>>) /\ AtMost(<<0, 1>>, Times(0, c))
  <2>1. c[1] \in Nat /\ c[2] \in Nat
    BY DEF Fraction
  <2>2. 0 * c[1] = 0 /\ 0 * c[2] = 0 /\ 0 * 1 = 0
    BY <2>1
  <2>3. Times(0, c)[1] = 0 /\ Times(0, c)[2] = c[2]
    BY <2>2 DEF Times
  <2> QED
    BY <2>2, <2>3 DEF AtMost
<1>5. t \in Fraction
  BY <1>1, <1>2
<1>6. ASSUME \A i \in 1 .. n : AtMost(c, q[i])
      PROVE  AtMost(Times(n, c), t)
  <2> DEFINE T == {m \in 0 .. n : AtMost(Times(m, c), acc[m])}
  <2>1. 0 \in T
    <3>1. 0 \in 0 .. n
      BY <1>1
    <3> HIDE DEF Fraction
    <3> QED
      BY <1>2, <1>4, <3>1
  <2>2. ASSUME NEW i \in 1 .. n, i - 1 \in T
        PROVE  i \in T
    <3> DEFINE m == i - 1
    <3>1. m \in Nat /\ i = m + 1 /\ m \in 0 .. n /\ i \in 0 .. n
      BY <1>1
    <3>2. AtMost(Times(m, c), acc[m]) /\ acc[m] \in Fraction /\ q[i] \in Fraction /\ AtMost(c, q[i])
      BY <1>1, <1>2, <1>6, <2>2, <3>1
    <3> HIDE DEF m
    <3>3. AtMost(Times(m + 1, c), Plus(acc[m], q[i]))
      BY <3>1, <3>2, PlusKeeps
    <3>4. acc[i] = Plus(acc[m], q[i])
      BY <1>2 DEF m
    <3> QED
      BY <3>1, <3>3, <3>4
  <2>3. \A i \in 0 .. n : i \in T
    <3> HIDE DEF T
    <3> QED
      BY <1>1, <2>1, <2>2, Upwards
  <2>4. n \in T
    BY <1>1, <2>3
  <2> QED
    BY <1>2, <2>4
<1>7. ASSUME \A i \in 1 .. n : AtMost(q[i], c)
      PROVE  AtMost(t, Times(n, c))
  <2> DEFINE T == {m \in 0 .. n : AtMost(acc[m], Times(m, c))}
  <2>1. 0 \in T
    <3>1. 0 \in 0 .. n
      BY <1>1
    <3> HIDE DEF Fraction
    <3> QED
      BY <1>2, <1>4, <3>1
  <2>2. ASSUME NEW i \in 1 .. n, i - 1 \in T
        PROVE  i \in T
    <3> DEFINE m == i - 1
    <3>1. m \in Nat /\ i = m + 1 /\ m \in 0 .. n /\ i \in 0 .. n
      BY <1>1
    <3>2. AtMost(acc[m], Times(m, c)) /\ acc[m] \in Fraction /\ q[i] \in Fraction /\ AtMost(q[i], c)
      BY <1>1, <1>2, <1>7, <2>2, <3>1
    <3> HIDE DEF m
    <3>3. AtMost(Plus(acc[m], q[i]), Times(m + 1, c))
      BY <3>1, <3>2, PlusKeeps
    <3>4. acc[i] = Plus(acc[m], q[i])
      BY <1>2 DEF m
    <3> QED
      BY <3>1, <3>3, <3>4
  <2>3. \A i \in 0 .. n : i \in T
    <3> HIDE DEF T
    <3> QED
      BY <1>1, <2>1, <2>2, Upwards
  <2>4. n \in T
    BY <1>1, <2>3
  <2> QED
    BY <1>2, <2>4
<1>8. avg_optional(q) \in Fraction
  <2>1. t[1] \in Nat /\ t[2] \in Nat \ {0}
    BY <1>5 DEF Fraction
  <2>2. t[2] * n \in Nat \ {0}
    BY <1>1, <2>1, NatTimes
  <2> QED
    BY <1>3, <2>1, <2>2 DEF Fraction
<1>9. /\ AtMost(Times(n, c), t) <=> AtMost(c, avg_optional(q))
      /\ AtMost(t, Times(n, c)) <=> AtMost(avg_optional(q), c)
  <2> DEFINE a == t[1]  b == t[2]  d == c[1]  e == c[2]
  <2>1. a \in Nat /\ b \in Nat /\ d \in Nat /\ e \in Nat /\ n \in Nat
    BY <1>1, <1>5 DEF Fraction
  <2>2. /\ AtMost(Times(n, c), t) <=> (n * d) * b <= a * e
        /\ AtMost(t, Times(n, c)) <=> a * e <= (n * d) * b
    BY DEF AtMost, Times
  <2>3. /\ AtMost(c, avg_optional(q)) <=> d * (b * n) <= a * e
        /\ AtMost(avg_optional(q), c) <=> a * e <= d * (b * n)
    BY <1>3 DEF AtMost
  <2> HIDE DEF a, b, d, e, Fraction
  <2>4. (n * d) * b = d * (b * n)
    BY <2>1
  <2> QED
    BY <2>2, <2>3, <2>4
<1> QED
  BY <1>6, <1>7, <1>8, <1>9 DEF n

LEMMA Extremes ==
  ASSUME NEW q \in Seq(Fraction), q # <<>>
  PROVE  /\ \E i \in 1 .. Len(q) : \A j \in 1 .. Len(q) : AtMost(q[i], q[j])
         /\ \E i \in 1 .. Len(q) : \A j \in 1 .. Len(q) : AtMost(q[j], q[i])
<1> DEFINE n == Len(q)
           T == {m \in 0 .. n : m # 0 => /\ \E i \in 1 .. m : \A j \in 1 .. m : AtMost(q[i], q[j])
                                         /\ \E i \in 1 .. m : \A j \in 1 .. m : AtMost(q[j], q[i])}
<1>1. n \in Nat \ {0} /\ \A i \in 1 .. n : q[i] \in Fraction
  OBVIOUS
<1> HIDE DEF n, Fraction
<1>2. 0 \in T
  BY <1>1
<1>3. ASSUME NEW m \in 1 .. n, m - 1 \in T
      PROVE  m \in T
  <2>1. m \in 0 .. n /\ m \in Nat \ {0} /\ m \in 1 .. m
    BY <1>1
  <2>2. \A i \in 1 .. m : i \in 1 .. n /\ q[i] \in Fraction
    BY <1>1, <2>1
  <2>3. \A i \in 1 .. m : i = m \/ i \in 1 .. m - 1
    BY <2>1
  <2>4. \A i \in 1 .. m - 1 : i \in 1 .. m
    BY <2>1
  <2>5. CASE m = 1
    <3>1. \A j \in 1 .. m : j = m
      BY <2>5
    <3>2. AtMost(q[m], q[m])
      BY <2>1, <2>2, AtMostOrders
    <3> QED
      BY <2>1, <3>1, <3>2
  <2>6. CASE m # 1
    <3>1. m - 1 # 0
      BY <2>1, <2>6
    <3>2. PICK i \in 1 .. m - 1 : \A j \in 1 .. m - 1 : AtMost(q[i], q[j])
      BY <1>3, <3>1
    <3>3. PICK k \in 1 .. m - 1 : \A j \in 1 .. m - 1 : AtMost(q[j], q[k])
      BY <1>3, <3>1
    <3>4. q[i] \in Fraction /\ q[k] \in Fraction /\ q[m] \in Fraction
      BY <2>1, <2>2, <2>4
    <3>5. \E l \in 1 .. m : \A j \in 1 .. m : AtMost(q[l], q[j])
      <4>1. AtMost(q[m], q[m]) /\ (AtMost(q[i], q[m]) \/ AtMost(q[m], q[i]))
        BY <3>4, AtMostOrders
      <4>2. CASE AtMost(q[i], q[m])
        BY <2>3, <2>4, <3>2, <4>2
      <4>3. CASE AtMost(q[m], q[i])
        <5>1. \A j \in 1 .. m - 1 : AtMost(q[m], q[j])
          BY <2>2, <2>4, <3>2, <3>4, <4>3, AtMostOrders
        <5> QED
          BY <2>1, <2>3, <4>1, <5>1
      <4> QED
        BY <4>1, <4>2, <4>3
    <3>6. \E l \in 1 .. m : \A j \in 1 .. m : AtMost(q[j], q[l])
      <4>1. AtMost(q[m], q[m]) /\ (AtMost(q[k], q[m]) \/ AtMost(q[m], q[k]))
        BY <3>4, AtMostOrders
      <4>2. CASE AtMost(q[m], q[k])
        BY <2>3, <2>4, <3>3, <4>2
      <4>3. CASE AtMost(q[k], q[m])
        <5>1. \A j \in 1 .. m - 1 : AtMost(q[j], q[m])
          BY <2>2, <2>4, <3>3, <3>4, <4>3, AtMostOrders
        <5> QED
          BY <2>1, <2>3, <4>1, <5>1
      <4> QED
        BY <4>1, <4>2, <4>3
    <3> QED
      BY <2>1, <3>5, <3>6
  <2> QED
    BY <2>5, <2>6
<1>4. \A m \in 0 .. n : m \in T
  <2> HIDE DEF T
  <2>1. n \in Nat
    BY <1>1
  <2> QED
    BY <1>2, <1>3, <2>1, Upwards
<1>5. n \in T
  <2>1. n \in 0 .. n
    BY <1>1
  <2> HIDE DEF T
  <2> QED
    BY <1>4, <2>1
<1> QED
  BY <1>1, <1>5 DEF n

\* q lists the scores f of the cases R.
Gives(q, f, R) ==
    /\ q \in Seq(Fraction) /\ DOMAIN f = R /\ \A i \in R : f[i] \in Fraction
    /\ \A n \in 1 .. Len(q) : \E i \in R : q[n] = f[i]
    /\ \A i \in R : \E n \in 1 .. Len(q) : q[n] = f[i]

LEMMA AverageIs ==
  ASSUME EvalAssumption, NEW q, NEW f, NEW R, Gives(q, f, R)
  PROVE  Averages(avg_optional(q), f)
<1> DEFINE n == Len(q)
           a == avg_optional(q)
<1>1. q \in Seq(Fraction) /\ n \in Nat /\ (q = <<>> <=> n = 0)
  BY DEF Gives
<1>2. CASE q = <<>>
  <2>1. R = {}
    BY <1>1, <1>2 DEF Gives
  <2>2. a = NoScore
    BY <1>2 DEF avg_optional
  <2>3. DOMAIN f = {}
    BY <2>1 DEF Gives
  <2> HIDE DEF a
  <2>4. Averages(a, f)
    BY <2>2, <2>3 DEF Averages
  <2> QED
    BY <2>4 DEF a
<1>3. CASE q # <<>>
  <2>1. a \in Fraction
    <3>1. <<0, 1>> \in Fraction
      BY DEF Fraction
    <3> QED
      BY <1>1, <1>3, <3>1, AverageBounded
  <2>2. a # NoScore
    <3>1. a \in Nat \X Nat
      BY <2>1 DEF Fraction
    <3> QED
      BY <3>1 DEF EvalAssumption
  <2>3. R # {}
    <3>1. 1 \in 1 .. n
      BY <1>1, <1>3
    <3> QED
      BY <3>1 DEF Gives
  <2> HIDE DEF a, n, Fraction
  <2>4. \E i \in R : AtMost(f[i], a)
    <3>1. PICK m \in 1 .. n : \A j \in 1 .. n : AtMost(q[m], q[j])
      BY <1>1, <1>3, Extremes DEF n
    <3>2. PICK i \in R : q[m] = f[i]
      BY DEF Gives, n
    <3>3. q[m] \in Fraction
      BY <3>2 DEF Gives
    <3>4. AtMost(q[m], a)
      BY <1>1, <1>3, <3>1, <3>3, AverageBounded DEF a, n
    <3> QED
      BY <3>2, <3>4
  <2>5. \E i \in R : AtMost(a, f[i])
    <3>1. PICK m \in 1 .. n : \A j \in 1 .. n : AtMost(q[j], q[m])
      BY <1>1, <1>3, Extremes DEF n
    <3>2. PICK i \in R : q[m] = f[i]
      BY DEF Gives, n
    <3>3. q[m] \in Fraction
      BY <3>2 DEF Gives
    <3>4. AtMost(a, q[m])
      BY <1>1, <1>3, <3>1, <3>3, AverageBounded DEF a, n
    <3> QED
      BY <3>2, <3>4
  <2>6. ASSUME \A i, j \in R : Same(f[i], f[j]), NEW i \in R
        PROVE  Same(a, f[i])
    <3>1. \A m \in 1 .. n : AtMost(f[i], q[m]) /\ AtMost(q[m], f[i])
      BY <2>6 DEF Gives, n, Same
    <3>2. f[i] \in Fraction
      BY DEF Gives
    <3>3. AtMost(f[i], a) /\ AtMost(a, f[i])
      BY <1>1, <1>3, <3>1, <3>2, AverageBounded DEF a, n
    <3> QED
      BY <3>3 DEF Same
  <2>7. DOMAIN f = R
    BY DEF Gives
  <2>8. Averages(a, f)
    <3>1. a = NoScore <=> DOMAIN f = {}
      BY <2>2, <2>3, <2>7
    <3>2. (\E i \in DOMAIN f : AtMost(f[i], a)) /\ (\E i \in DOMAIN f : AtMost(a, f[i]))
      BY <2>4, <2>5, <2>7
    <3>3. ASSUME \A i, j \in DOMAIN f : Same(f[i], f[j])
          PROVE  \A i \in DOMAIN f : Same(a, f[i])
      BY <2>6, <2>7, <3>3
    <3> QED
      BY <3>1, <3>2, <3>3 DEF Averages
  <2> QED
    BY <2>8 DEF a
<1> QED
  BY <1>2, <1>3

CaseRecords == {retrieval_record(c.variant, c.ranking, c.expected, c.k) : c \in Case}

LEMMA RecordScores ==
  ASSUME EvalAssumption, NEW r \in CaseRecords, r.status = "ok"
  PROVE  r.recall \in Fraction /\ r.precision \in Fraction /\ r.rank \in Fraction
<1>1. PICK c \in Case : r = retrieval_record(c.variant, c.ranking, c.expected, c.k)
  BY DEF CaseRecords
<1> DEFINE variant == c.variant
           ranking == c.ranking
           e == c.expected
           k == c.k
<1>9. /\ variant \in Variants /\ ranking \in Seq(Paths) \cup {Missing} /\ e \in Seq(Paths)
      /\ k \in Nat /\ r = retrieval_record(variant, ranking, e, k)
  BY <1>1 DEF Case
<1> HIDE DEF variant, ranking, e, k
<1>2. ranking # Missing
  <2> SUFFICES ASSUME ranking = Missing
               PROVE  FALSE
    OBVIOUS
  <2>1. r = Skipped(variant)
    BY <1>9 DEF retrieval_record
  <2> QED
    BY <2>1 DEF Skipped
<1>3. ranking \in Seq(Paths)
  BY <1>2, <1>9
<1> DEFINE d == Retrieved(variant, ranking, k)
<1>4. /\ r.recall = recall_at_k(d, e, k) /\ r.precision = context_precision(d, e, k)
      /\ r.rank = reciprocal_rank(d, e)
  BY <1>3, <1>9, RecordIs
<1>5. d \in Seq(Paths) /\ IsInjective(d)
  BY <1>3, <1>9, RetrievedIs
<1> HIDE DEF d
<1>6. Graded(d, e, k)
  BY <1>5, <1>9, GradesAre
<1>7. recall_at_k(d, e, k) \in Fraction /\ context_precision(d, e, k) \in Fraction
  BY <1>6 DEF Graded, Fraction
<1>8. reciprocal_rank(d, e) \in Fraction
  <2> DEFINE F == Found(d, e, Len(d))
  <2>1. /\ reciprocal_rank(d, e) = IF e = <<>> THEN <<1, 1>> ELSE IF F = {} THEN <<0, 1>> ELSE <<1, Min(F)>>
        /\ F # {} => Min(F) \in Nat \ {0}
    BY <1>5, <1>9, ReciprocalRankIs DEF RankOf
  <2> HIDE DEF F
  <2> QED
    BY <2>1 DEF Fraction
<1> QED
  BY <1>4, <1>7, <1>8

LEMMA SummaryFair ==
  ASSUME EvalAssumption, NEW records \in Seq(CaseRecords)
  PROVE  SummaryIsFair(records)
<1> SUFFICES ASSUME NEW variant \in Variants
             PROVE  LET s    == build_summary(records, variant)
                        mine == {i \in DOMAIN records : records[i].variant = variant}
                        ran  == {i \in mine : records[i].status = "ok"}
                    IN  /\ s.n_ok + s.n_skipped = Cardinality(mine)
                        /\ Averages(s.recall, [i \in ran |-> records[i].recall])
                        /\ Averages(s.precision, [i \in ran |-> records[i].precision])
                        /\ Averages(s.mrr, [i \in ran |-> records[i].rank])
  BY DEF SummaryIsFair
<1> DEFINE s == build_summary(records, variant)
           mine == {i \in DOMAIN records : records[i].variant = variant}
           ran == {i \in mine : records[i].status = "ok"}
           ok == Pick(records, ran)
           a == Ascending(ran)
           m == Cardinality(ran)
<1>1. /\ DOMAIN records = 1 .. Len(records) /\ Len(records) \in Nat
      /\ \A i \in 1 .. Len(records) : records[i] \in CaseRecords
  OBVIOUS
<1>2. /\ s.recall = avg_optional([n \in DOMAIN ok |-> ok[n].recall])
      /\ s.precision = avg_optional([n \in DOMAIN ok |-> ok[n].precision])
      /\ s.mrr = avg_optional([n \in DOMAIN ok |-> ok[n].rank])
      /\ s.n_ok = Len(ok) /\ s.n_skipped = Cardinality(mine) - Len(ok)
  BY DEF build_summary
<1> HIDE DEF s
<1>3. /\ mine \in SUBSET (1 .. Len(records)) /\ ran \in SUBSET (1 .. Len(records))
      /\ \A i \in ran : records[i] \in CaseRecords /\ records[i].status = "ok"
  BY <1>1
<1> HIDE DEF mine, ran
<1>4. /\ ok \in Seq(CaseRecords) /\ Len(ok) = m /\ m \in Nat /\ Climbs(a, ran)
      /\ \A n \in 1 .. m : a[n] \in ran /\ ok[n] = records[a[n]]
  BY <1>3, PickIs
<1>5. Cardinality(mine) \in Nat
  BY <1>3, PickIs
<1>6. \A i \in ran : \E n \in 1 .. m : a[n] = i
  BY <1>4 DEF Climbs
<1> HIDE DEF ok, a, m
<1>7. DOMAIN ok = 1 .. m
  BY <1>4
<1>8. \A i \in ran : /\ records[i].recall \in Fraction /\ records[i].precision \in Fraction
                     /\ records[i].rank \in Fraction
  BY <1>3, RecordScores
<1> HIDE DEF Fraction
<1>9. Averages(s.recall, [i \in ran |-> records[i].recall])
  <2> DEFINE q == [n \in 1 .. m |-> ok[n].recall]
             f == [i \in ran |-> records[i].recall]
  <2>1. q \in Seq(Fraction) /\ Len(q) = m
    BY <1>4, <1>8
  <2>2. \A n \in 1 .. m : q[n] = f[a[n]]
    BY <1>4
  <2>3. DOMAIN f = ran /\ \A i \in ran : f[i] \in Fraction
    BY <1>8
  <2> HIDE DEF q, f
  <2>4. Gives(q, f, ran)
    BY <1>4, <1>6, <2>1, <2>2, <2>3 DEF Gives
  <2>5. Averages(avg_optional(q), f)
    BY <2>4, AverageIs
  <2> QED
    BY <1>2, <1>7, <2>5 DEF q, f
<1>10. Averages(s.precision, [i \in ran |-> records[i].precision])
  <2> DEFINE q == [n \in 1 .. m |-> ok[n].precision]
             f == [i \in ran |-> records[i].precision]
  <2>1. q \in Seq(Fraction) /\ Len(q) = m
    BY <1>4, <1>8
  <2>2. \A n \in 1 .. m : q[n] = f[a[n]]
    BY <1>4
  <2>3. DOMAIN f = ran /\ \A i \in ran : f[i] \in Fraction
    BY <1>8
  <2> HIDE DEF q, f
  <2>4. Gives(q, f, ran)
    BY <1>4, <1>6, <2>1, <2>2, <2>3 DEF Gives
  <2>5. Averages(avg_optional(q), f)
    BY <2>4, AverageIs
  <2> QED
    BY <1>2, <1>7, <2>5 DEF q, f
<1>11. Averages(s.mrr, [i \in ran |-> records[i].rank])
  <2> DEFINE q == [n \in 1 .. m |-> ok[n].rank]
             f == [i \in ran |-> records[i].rank]
  <2>1. q \in Seq(Fraction) /\ Len(q) = m
    BY <1>4, <1>8
  <2>2. \A n \in 1 .. m : q[n] = f[a[n]]
    BY <1>4
  <2>3. DOMAIN f = ran /\ \A i \in ran : f[i] \in Fraction
    BY <1>8
  <2> HIDE DEF q, f
  <2>4. Gives(q, f, ran)
    BY <1>4, <1>6, <2>1, <2>2, <2>3 DEF Gives
  <2>5. Averages(avg_optional(q), f)
    BY <2>4, AverageIs
  <2> QED
    BY <1>2, <1>7, <2>5 DEF q, f
<1>12. s.n_ok + s.n_skipped = Cardinality(mine)
  BY <1>2, <1>4, <1>5
<1> QED
  BY <1>9, <1>10, <1>11, <1>12 DEF s, mine, ran

\* Whatever a search returns and a case expects, the three metrics of the case agree, and
\* whatever cases a run holds, a variant's averages lie between the scores of those it
\* could run (retrieval_record, build_summary).
THEOREM EvalLawHolds ==
  ASSUME EvalAssumption, CasesAssumption
  PROVE  EvalSpec => []EvalLaw
<1> DEFINE Inv == graded \subseteq Case /\ scored \in Seq(CaseRecords)
           eVars == <<graded, scored>>
<1>1. ASSUME EvalInit
      PROVE  Inv
  BY <1>1 DEF EvalInit
<1>2. ASSUME Inv, [EvalNext]_eVars
      PROVE  Inv'
  <2>1. ASSUME NEW c \in Case, RunCase(c)
        PROVE  Inv'
    <3> DEFINE r == retrieval_record(c.variant, c.ranking, c.expected, c.k)
    <3>1. r \in CaseRecords
      BY DEF CaseRecords
    <3>2. scored' = Append(scored, r) /\ graded' = {c}
      BY <2>1 DEF RunCase
    <3> HIDE DEF r
    <3>3. scored' \in Seq(CaseRecords)
      BY <1>2, <3>1, <3>2, AppendProperties
    <3> QED
      BY <3>2, <3>3
  <2>2. CASE EvalNext
    <3>1. Cases \subseteq Case /\ JointCases \subseteq Case
      BY DEF CasesAssumption
    <3>2. \E c \in Case : RunCase(c)
      BY <2>2, <3>1 DEF EvalNext
    <3> QED
      BY <2>1, <3>2
  <2>3. CASE UNCHANGED eVars
    BY <1>2, <2>3
  <2> QED
    BY <1>2, <2>2, <2>3
<1>3. ASSUME Inv
      PROVE  EvalLaw
  <2>1. ASSUME NEW c \in graded, c.ranking # Missing
        PROVE  MetricsAgree(c.variant, c.ranking, c.expected, c.k)
    <3>1. /\ c.variant \in Variants /\ c.ranking \in Seq(Paths) /\ c.expected \in Seq(Paths)
          /\ c.k \in Nat \ {0}
      BY <1>3, <2>1 DEF Case
    <3> QED
      BY <3>1, MetricsHold
  <2>2. SummaryIsFair(scored)
    BY <1>3, SummaryFair
  <2> QED
    BY <2>1, <2>2 DEF EvalLaw
<1> QED
  BY <1>1, <1>2, <1>3, PTL DEF EvalSpec

-----------------------------------------------------------------------------
(* Chunker: how a section is cut.                                          *)

Passage == [heading : Seq(Nat), first : Nat, last : Nat]

LEMMA LinesAre ==
  ASSUME NEW doc \in Seq(Line), NEW i \in 1 .. Len(doc)
  PROVE  doc[i] \in Line /\ doc[i].tokens \in Nat \ {0} /\ i \in Nat /\ Len(doc) \in Nat
<1>1. doc[i] \in Line /\ i \in Nat /\ Len(doc) \in Nat
  OBVIOUS
<1>2. doc[i].tokens \in Nat \ {0}
  BY <1>1 DEF Line
<1> QED
  BY <1>1, <1>2

\* The tokens from line i on grow with every line.
Grow(doc, i) ==
    \A j \in 0 .. Len(doc) :
        /\ Tokens(doc, i, j) \in Nat
        /\ j < i => Tokens(doc, i, j) = 0
        /\ j >= i /\ j # 0 => Tokens(doc, i, j) = Tokens(doc, i, j - 1) + doc[j].tokens

LEMMA TokensGrow ==
  ASSUME NEW doc \in Seq(Line), NEW i \in Nat \ {0}
  PROVE  Grow(doc, i)
<1> DEFINE L == Len(doc)
           F == [p \in Nat \X (1 .. L) |-> IF p[2] < i THEN 0 ELSE p[1] + doc[p[2]].tokens]
           A(h) == [k \in 0 .. L |-> IF k < i THEN 0 ELSE h[k - 1] + doc[k].tokens]
           upto == CHOOSE h : h = A(h)
<1>1. L \in Nat
  OBVIOUS
<1>2. \A j : Tokens(doc, i, j) = upto[j]
  BY DEF Tokens
<1>3. \A k \in 1 .. L : doc[k].tokens \in Nat
  BY LinesAre
<1> HIDE DEF L
<1>4. F \in Steps(Nat, L)
  BY <1>3 DEF Steps
<1>5. Recursive(L, Nat, 0, F)
  <2> HIDE DEF F
  <2> QED
    BY <1>1, <1>4, Recursion
<1>6. PICK g : g = A(g)
  <2>1. PICK g \in [0 .. L -> Nat] : Follows(g, L, Nat, 0, F)
    BY <1>5 DEF Recursive
  <2>2. ASSUME NEW k \in 1 .. L
        PROVE  g[k] = IF k < i THEN 0 ELSE g[k - 1] + doc[k].tokens
    <3>1. g[k - 1] \in Nat /\ <<g[k - 1], k>> \in Nat \X (1 .. L)
      BY <1>1
    <3> QED
      BY <2>1, <3>1 DEF Follows
  <2>3. g[0] = 0 /\ 0 < i
    BY <2>1 DEF Follows
  <2>4. g = [k \in 0 .. L |-> g[k]]
    OBVIOUS
  <2>5. \A k \in 0 .. L : k = 0 \/ k \in 1 .. L
    BY <1>1
  <2>6. \A k \in 0 .. L : g[k] = IF k < i THEN 0 ELSE g[k - 1] + doc[k].tokens
    BY <2>2, <2>3, <2>5
  <2> QED
    BY <2>4, <2>6
<1>7. upto = A(upto)
  <2> HIDE DEF A
  <2> QED
    BY <1>6
<1> HIDE DEF upto
<1>8. \A k \in 0 .. L : upto[k] = IF k < i THEN 0 ELSE upto[k - 1] + doc[k].tokens
  BY <1>7
<1>9. \A k \in 0 .. L : upto[k] \in Nat
  <2>1. Follows(upto, L, Nat, 0, F)
    <3>1. upto[0] = 0
      BY <1>1, <1>8
    <3>2. ASSUME NEW k \in 1 .. L, upto[k - 1] \in Nat
          PROVE  upto[k] = F[<<upto[k - 1], k>>]
      <4>1. k \in 0 .. L /\ <<upto[k - 1], k>> \in Nat \X (1 .. L)
        BY <1>1, <3>2
      <4> QED
        BY <1>8, <4>1
    <3> QED
      BY <3>1, <3>2 DEF Follows
  <2> HIDE DEF F
  <2> QED
    BY <1>1, <1>4, <2>1, RecursionStays
<1> QED
  BY <1>2, <1>8, <1>9 DEF Grow, L

\* Where a chunk ends: with the line that fills it, or with the section.
LEMMA EndIs ==
  ASSUME ChunkerAssumption, NEW doc \in Seq(Line), NEW s \in Passage, s.last \in 1 .. Len(doc),
         NEW i \in 1 .. s.last
  PROVE  EndOf(doc, s, i) \in i .. s.last /\ Tokens(doc, i, EndOf(doc, s, i) - 1) < Target
<1> DEFINE l == s.last
           Full(j) == /\ Tokens(doc, i, j) >= Target \/ j = l
                      /\ \A k \in i .. j - 1 : Tokens(doc, i, k) < Target
           T == {j \in i .. l : Tokens(doc, i, j) >= Target \/ j = l}
           e == EndOf(doc, s, i)
<1>1. i \in Nat \ {0} /\ l \in Nat /\ Len(doc) \in Nat /\ l <= Len(doc) /\ i <= l
  OBVIOUS
<1>2. Target \in Nat \ {0}
  BY DEF ChunkerAssumption
<1>3. Grow(doc, i)
  BY <1>1, TokensGrow
<1> HIDE DEF l
<1>4. \A k \in i - 1 .. l : Tokens(doc, i, k) \in Nat
  BY <1>1, <1>3 DEF Grow
<1>5. \E j \in i .. l : Full(j)
  <2>1. T \subseteq Nat /\ l \in T
    BY <1>1
  <2>2. PICK j \in T : \A k \in T : j <= k
    BY <2>1, LeastNat
  <2>3. \A k \in i .. j - 1 : k \in i .. l /\ k < j
    BY <1>1, <2>2
  <2>4. ASSUME NEW k \in i .. j - 1
        PROVE  Tokens(doc, i, k) < Target
    <3>1. k \in i .. l /\ k < j /\ k \in i - 1 .. l
      BY <1>1, <2>3
    <3>2. k \notin T
      BY <1>1, <2>2, <3>1
    <3>3. Tokens(doc, i, k) \in Nat
      BY <1>4, <3>1
    <3> QED
      BY <1>2, <3>1, <3>2, <3>3
  <2> QED
    BY <2>2, <2>4
<1>6. e = CHOOSE j \in i .. l : Full(j)
  BY DEF EndOf, l
<1>7. e \in i .. l /\ Full(e)
  <2> HIDE DEF Full, e
  <2> QED
    BY <1>5, <1>6
<1>8. Tokens(doc, i, e - 1) < Target
  <2>1. CASE e = i
    <3>1. i - 1 \in 0 .. Len(doc) /\ i - 1 < i
      BY <1>1
    <3>2. Tokens(doc, i, i - 1) = 0
      BY <1>3, <3>1 DEF Grow
    <3> QED
      BY <1>2, <2>1, <3>2
  <2>2. CASE e # i
    <3>1. e - 1 \in i .. e - 1
      BY <1>1, <1>7, <2>2
    <3> QED
      BY <1>7, <3>1
  <2> QED
    BY <2>1, <2>2
<1> QED
  BY <1>7, <1>8 DEF l

LEMMA HasGreatest ==
  ASSUME NEW n \in Nat, NEW T \in SUBSET (0 .. n), T # {}
  PROVE  \E m \in T : \A k \in T : k <= m
<1> DEFINE U == {u \in Nat : \A k \in T : k <= u}
<1>1. U \subseteq Nat /\ n \in U
  OBVIOUS
<1>2. PICK u \in U : \A v \in U : u <= v
  BY <1>1, LeastNat
<1>3. u \in T
  <2> SUFFICES ASSUME u \notin T
               PROVE  FALSE
    OBVIOUS
  <2>1. PICK t \in T : TRUE
    OBVIOUS
  <2>2. \A k \in T : k \in Nat /\ k < u
    BY <1>2
  <2>3. u - 1 \in Nat /\ \A k \in T : k <= u - 1
    BY <1>2, <2>1, <2>2
  <2>4. u - 1 \in U
    BY <2>3
  <2> QED
    BY <1>2, <2>4
<1> QED
  BY <1>2, <1>3

\* Where the next chunk starts: later, with nothing left out, and with the overlap.
Linked(doc, d, c) ==
    /\ d.first < c.first /\ c.first <= d.last + 1
    /\ Tokens(doc, c.first, d.last) >= Overlap \/ c.first = d.first + 1

LEMMA NextIs ==
  ASSUME NEW doc, NEW i \in Nat, NEW j \in Nat, i <= j
  PROVE  LET n == NextOf(doc, i, j)
         IN  n \in i + 1 .. j + 1 /\ (Tokens(doc, n, j) >= Overlap \/ n = i + 1)
<1> DEFINE far == {m \in i + 1 .. j + 1 : Tokens(doc, m, j) >= Overlap}
<1>1. NextOf(doc, i, j) = IF far = {} THEN i + 1 ELSE CHOOSE m \in far : \A n \in far : n <= m
  BY DEF NextOf
<1>2. far # {} => \E m \in far : \A n \in far : n <= m
  <2>1. j + 1 \in Nat /\ far \in SUBSET (0 .. j + 1)
    OBVIOUS
  <2> HIDE DEF far
  <2> QED
    BY <2>1, HasGreatest
<1>3. CASE far = {}
  BY <1>1, <1>3
<1>4. CASE far # {}
  <2>1. NextOf(doc, i, j) \in far
    <3> HIDE DEF far
    <3> QED
      BY <1>1, <1>2, <1>4
  <2> QED
    BY <2>1
<1> QED
  BY <1>3, <1>4

-----------------------------------------------------------------------------
\* c is a chunk of the section s.
Piece(doc, s, c) ==
    /\ c \in Passage /\ c.heading = s.heading
    /\ s.first <= c.first /\ c.first <= c.last /\ c.last <= s.last
    /\ Tokens(doc, c.first, c.last - 1) < Target

\* The chunks of s from its first line on.
Cut(doc, s, q) ==
    /\ q \in Seq(Passage) /\ Len(q) # 0 /\ q[1].first = s.first
    /\ \A n \in 1 .. Len(q) : Piece(doc, s, q[n])
    /\ \A n \in 2 .. Len(q) : Linked(doc, q[n - 1], q[n])

\* A section of the document.
IsSection(doc, s) == s \in Passage /\ 1 <= s.first /\ s.first <= s.last /\ s.last <= Len(doc)

LEMMA PieceAt ==
  ASSUME ChunkerAssumption, NEW doc \in Seq(Line), NEW s, IsSection(doc, s), NEW i \in s.first .. s.last
  PROVE  Piece(doc, s, ChunkAt(doc, s, i)) /\ ChunkAt(doc, s, i).first = i
<1> DEFINE e == EndOf(doc, s, i)
<1>1. /\ s \in Passage /\ s.first \in Nat /\ s.last \in Nat /\ s.heading \in Seq(Nat) /\ Len(doc) \in Nat
      /\ 1 <= s.first /\ s.first <= s.last /\ s.last <= Len(doc)
  BY DEF IsSection, Passage
<1>2. s.last \in 1 .. Len(doc) /\ i \in 1 .. s.last /\ i \in Nat /\ s.first <= i
  BY <1>1
<1>3. e \in i .. s.last /\ Tokens(doc, i, e - 1) < Target
  BY <1>1, <1>2, EndIs
<1>4. e \in Nat /\ i <= e /\ e <= s.last
  BY <1>1, <1>2, <1>3
<1>5. ChunkAt(doc, s, i) = [heading |-> s.heading, first |-> i, last |-> e]
  BY DEF ChunkAt
<1> HIDE DEF e
<1> QED
  BY <1>1, <1>2, <1>3, <1>4, <1>5 DEF Piece, Passage

LEMMA CutMore ==
  ASSUME ChunkerAssumption, NEW doc \in Seq(Line), NEW s, IsSection(doc, s), NEW q, Cut(doc, s, q),
         q[Len(q)].last < s.last
  PROVE  LET c == q[Len(q)]
             new == ChunkAt(doc, s, NextOf(doc, c.first, c.last))
         IN  Cut(doc, s, Append(q, new))
<1> DEFINE l == Len(q)
           c == q[l]
           i == NextOf(doc, c.first, c.last)
           new == ChunkAt(doc, s, i)
           r == Append(q, new)
<1>1. l \in Nat \ {0} /\ q \in Seq(Passage)
  BY DEF Cut
<1>2. Piece(doc, s, c) /\ c.first \in Nat /\ c.last \in Nat /\ c.first <= c.last /\ s.first <= c.first
  <2>1. l \in 1 .. l
    BY <1>1
  <2>2. Piece(doc, s, c)
    BY <2>1 DEF Cut
  <2> QED
    BY <2>2 DEF Piece, Passage
<1>3. s.first \in Nat /\ s.last \in Nat
  BY DEF IsSection, Passage
<1>4. i \in c.first + 1 .. c.last + 1 /\ (Tokens(doc, i, c.last) >= Overlap \/ i = c.first + 1)
  BY <1>2, NextIs
<1>5. c.last < s.last
  OBVIOUS
<1> HIDE DEF l, c, i
<1>6. i \in s.first .. s.last
  BY <1>2, <1>3, <1>4, <1>5
<1>7. Piece(doc, s, new) /\ new.first = i
  BY <1>6, PieceAt
<1> HIDE DEF new
<1>8. new \in Passage
  BY <1>7 DEF Piece
<1>9. r \in Seq(Passage) /\ Len(r) = l + 1 /\ r[l + 1] = new /\ \A n \in 1 .. l : r[n] = q[n]
  BY <1>1, <1>8 DEF l
<1> HIDE DEF r
<1>10. /\ q[1].first = s.first /\ (\A n \in 1 .. l : Piece(doc, s, q[n]))
       /\ \A n \in 2 .. l : Linked(doc, q[n - 1], q[n])
  BY DEF Cut, l
<1>11. r[1].first = s.first
  <2>1. 1 \in 1 .. l
    BY <1>1
  <2> QED
    BY <1>9, <1>10, <2>1
<1>12. \A n \in 1 .. l + 1 : Piece(doc, s, r[n])
  <2>1. \A n \in 1 .. l + 1 : n = l + 1 \/ n \in 1 .. l
    BY <1>1
  <2> QED
    BY <1>7, <1>9, <1>10, <2>1
<1>13. Linked(doc, c, new)
  BY <1>2, <1>4, <1>7 DEF Linked
<1>14. \A n \in 2 .. l + 1 : Linked(doc, r[n - 1], r[n])
  <2> SUFFICES ASSUME NEW n \in 2 .. l + 1
               PROVE  Linked(doc, r[n - 1], r[n])
    OBVIOUS
  <2>1. CASE n = l + 1
    <3>1. n - 1 = l /\ l \in 1 .. l
      BY <1>1, <2>1
    <3> QED
      BY <1>9, <1>13, <2>1, <3>1 DEF c
  <2>2. CASE n # l + 1
    <3>1. n \in 2 .. l /\ n \in 1 .. l /\ n - 1 \in 1 .. l
      BY <1>1, <2>2
    <3> QED
      BY <1>9, <1>10, <3>1
  <2> QED
    BY <2>1, <2>2
<1>15. Len(r) # 0
  BY <1>1, <1>9
<1>16. Cut(doc, s, r)
  BY <1>9, <1>11, <1>12, <1>14, <1>15 DEF Cut
<1> QED
  BY <1>16 DEF r, new, i, c, l

\* Every chunk starts a line on at least.
LEMMA CutAdvances ==
  ASSUME NEW doc, NEW s, s \in Passage, NEW q, Cut(doc, s, q)
  PROVE  \A n \in 1 .. Len(q) : q[n].first >= s.first + (n - 1)
<1> DEFINE l == Len(q)
           T == {m \in 0 .. l - 1 : q[m + 1].first >= s.first + m}
<1>1. l \in Nat \ {0} /\ l - 1 \in Nat /\ s.first \in Nat /\ q[1].first = s.first
  BY DEF Cut, Passage
<1>2. \A n \in 1 .. l : q[n].first \in Nat
  BY DEF Cut, Piece, Passage
<1>3. \A n \in 2 .. l : q[n - 1].first < q[n].first
  BY DEF Cut, Linked
<1> HIDE DEF l
<1>4. 0 \in T
  BY <1>1
<1>5. ASSUME NEW m \in 1 .. l - 1, m - 1 \in T
      PROVE  m \in T
  <2>1. m + 1 \in 2 .. l /\ m \in 1 .. l /\ m + 1 \in 1 .. l /\ (m + 1) - 1 = m /\ (m - 1) + 1 = m
    BY <1>1
  <2>2. q[m].first < q[m + 1].first /\ q[m].first \in Nat /\ q[m + 1].first \in Nat
    BY <1>2, <1>3, <2>1
  <2>3. q[m].first >= s.first + (m - 1)
    BY <1>5, <2>1
  <2>4. q[m + 1].first >= s.first + m
    <3> DEFINE x == q[m].first
               y == q[m + 1].first
               f == s.first
    <3>1. x \in Nat /\ y \in Nat /\ f \in Nat /\ m \in Nat /\ x < y /\ x >= f + (m - 1)
      BY <1>1, <2>2, <2>3
    <3> HIDE DEF x, y, f
    <3>2. y >= f + m
      BY <3>1
    <3> QED
      BY <3>2 DEF y, f
  <2>5. m \in 0 .. l - 1
    BY <1>1
  <2> QED
    BY <2>4, <2>5
<1>6. \A m \in 0 .. l - 1 : m \in T
  <2> HIDE DEF T
  <2> QED
    BY <1>1, <1>4, <1>5, Upwards
<1>7. \A n \in 1 .. l : n - 1 \in 0 .. l - 1 /\ (n - 1) + 1 = n
  BY <1>1
<1> QED
  BY <1>6, <1>7 DEF l

\* The chunks of a section reach its end.
Cuts(doc, s, q) == Cut(doc, s, q) /\ q[Len(q)].last = s.last

LEMMA CutEnds ==
  ASSUME NEW doc, NEW s, IsSection(doc, s), NEW q, Cut(doc, s, q)
  PROVE  /\ Len(q) \in Nat \ {0} /\ q[Len(q)].last \in Nat /\ q[Len(q)].last <= s.last
         /\ q[Len(q)].first \in Nat /\ q[Len(q)].first <= q[Len(q)].last
         /\ Len(q) <= s.last + 1 - s.first
         /\ Len(q) = s.last + 1 - s.first => q[Len(q)].last = s.last
<1> DEFINE l == Len(q)
           c == q[l]
           x == c.first
           y == c.last
           e == s.last
           b == s.first
<1>1. l \in Nat \ {0}
  BY DEF Cut
<1>2. l \in 1 .. l
  BY <1>1
<1>3. Piece(doc, s, c)
  BY <1>2 DEF Cut
<1>4. x \in Nat /\ y \in Nat /\ x <= y /\ y <= e
  BY <1>3 DEF Piece, Passage
<1>5. e \in Nat /\ b \in Nat /\ s \in Passage
  BY DEF IsSection, Passage
<1>6. x >= b + (l - 1)
  BY <1>2, <1>5, CutAdvances
<1> HIDE DEF l, x, y, e, b
<1>7. l <= e + 1 - b /\ (l = e + 1 - b => y = e)
  BY <1>1, <1>4, <1>5, <1>6
<1> QED
  BY <1>1, <1>4, <1>7 DEF l, x, y, e, b

LEMMA SectionIsCut ==
  ASSUME ChunkerAssumption, NEW doc \in Seq(Line), NEW s, IsSection(doc, s)
  PROVE  Cuts(doc, s, ChunkSection(doc, s))
<1> DEFINE b == s.first
           e == s.last
           N == s.last - s.first
           More(q) == IF q[Len(q)].last >= s.last THEN q
                      ELSE Append(q, ChunkAt(doc, s, NextOf(doc, q[Len(q)].first, q[Len(q)].last)))
           x0 == <<ChunkAt(doc, s, s.first)>>
           A(h) == [n \in 0 .. s.last - s.first |-> IF n = 0 THEN x0 ELSE More(h[n - 1])]
           after == CHOOSE h : h = A(h)
           S == {q \in Seq(Passage) : Cut(doc, s, q)}
           F == [p \in S \X (1 .. N) |-> More(p[1])]
           Short == Tokens(doc, s.first, s.last) <= Target
<1>1. /\ b \in Nat \ {0} /\ e \in Nat /\ b <= e /\ N \in Nat /\ s \in Passage /\ e <= Len(doc)
      /\ Len(doc) \in Nat /\ Target \in Nat \ {0} /\ N = e - b
  BY DEF IsSection, Passage, ChunkerAssumption
<1>2. ChunkSection(doc, s) = IF Short THEN <<s>> ELSE after[N]
  BY DEF ChunkSection
<1>3. CASE Short
  <2> DEFINE q == <<s>>
             t == Tokens(doc, s.first, s.last)
             u == Tokens(doc, s.first, s.last - 1)
  <2>1. q \in Seq(Passage) /\ Len(q) = 1 /\ q[1] = s /\ 1 .. Len(q) = {1} /\ 2 .. Len(q) = {}
    BY <1>1
  <2>2. Grow(doc, s.first)
    BY <1>1, TokensGrow
  <2>3. e \in 1 .. Len(doc) /\ e \in 0 .. Len(doc) /\ e - 1 \in 0 .. Len(doc)
    BY <1>1
  <2>4. t \in Nat /\ u \in Nat /\ t = u + doc[s.last].tokens
    BY <1>1, <2>2, <2>3 DEF Grow
  <2>5. doc[s.last].tokens \in Nat \ {0}
    BY <2>3, LinesAre
  <2>6. u < Target
    <3> DEFINE v == doc[s.last].tokens
    <3>1. v \in Nat \ {0} /\ t = u + v /\ t <= Target
      BY <1>3, <2>4, <2>5
    <3> HIDE DEF t, u, v
    <3> QED
      BY <1>1, <2>4, <3>1
  <2>7. Piece(doc, s, s)
    BY <1>1, <2>6 DEF Piece
  <2> HIDE DEF q
  <2>8. Cut(doc, s, q) /\ q[Len(q)].last = s.last
    BY <2>1, <2>7 DEF Cut
  <2> QED
    BY <1>2, <1>3, <2>8 DEF Cuts, q
<1>4. x0 \in S
  <2> DEFINE c == ChunkAt(doc, s, s.first)
  <2>1. s.first \in s.first .. s.last
    BY <1>1
  <2>2. Piece(doc, s, c) /\ c.first = s.first
    BY <2>1, PieceAt
  <2>3. c \in Passage
    BY <2>2 DEF Piece
  <2> HIDE DEF c
  <2>4. <<c>> \in Seq(Passage) /\ Len(<<c>>) = 1 /\ <<c>>[1] = c /\ 1 .. 1 = {1} /\ 2 .. 1 = {}
    BY <2>3
  <2>5. Cut(doc, s, <<c>>)
    BY <2>2, <2>4 DEF Cut
  <2> QED
    BY <2>4, <2>5 DEF c
<1>5. ASSUME NEW q \in S
      PROVE  /\ q[Len(q)].last \in Nat /\ q[Len(q)].last <= e /\ Len(q) \in Nat \ {0} /\ Len(q) <= N + 1
             /\ Len(q) = N + 1 => q[Len(q)].last = e
             /\ More(q) \in S
             /\ q[Len(q)].last = e => More(q) = q
             /\ q[Len(q)].last # e => Len(More(q)) = Len(q) + 1
  <2> DEFINE y == q[Len(q)].last
             l == Len(q)
             new == ChunkAt(doc, s, NextOf(doc, q[Len(q)].first, q[Len(q)].last))
  <2>1. Cut(doc, s, q) /\ q \in Seq(Passage)
    OBVIOUS
  <2>2. l \in Nat \ {0} /\ y \in Nat /\ y <= e /\ l <= e + 1 - b /\ (l = e + 1 - b => y = e)
    BY <2>1, CutEnds
  <2>3. l <= N + 1 /\ (l = N + 1 => y = e)
    <3> HIDE DEF l, y, b, e, N
    <3> QED
      BY <1>1, <2>2
  <2>4. CASE y = e
    <3>1. More(q) = q
      BY <1>1, <2>4
    <3> QED
      BY <2>2, <2>3, <2>4, <3>1
  <2>5. CASE y # e
    <3>1. y < s.last
      BY <1>1, <2>2, <2>5
    <3>2. More(q) = Append(q, new)
      <4> HIDE DEF new
      <4>1. ~ (y >= s.last)
        BY <1>1, <2>2, <3>1
      <4> QED
        BY <4>1 DEF new
    <3>3. Cut(doc, s, Append(q, new))
      BY <2>1, <3>1, CutMore
    <3>4. Append(q, new) \in Seq(Passage)
      BY <3>3 DEF Cut
    <3> HIDE DEF new, More
    <3>5. Len(Append(q, new)) = Len(q) + 1
      BY <2>1
    <3> QED
      BY <2>2, <2>3, <2>5, <3>2, <3>3, <3>4, <3>5
  <2> QED
    BY <2>4, <2>5
<1>6. F \in Steps(S, N)
  <2> HIDE DEF More, S, N
  <2> QED
    BY <1>5 DEF Steps
<1>7. Recursive(N, S, x0, F)
  <2> HIDE DEF F, x0, S, N
  <2> QED
    BY <1>1, <1>4, <1>6, Recursion
<1>8. PICK g : g = A(g)
  <2>1. PICK g \in [0 .. N -> S] : Follows(g, N, S, x0, F)
    BY <1>7 DEF Recursive
  <2>2. ASSUME NEW n \in 1 .. N
        PROVE  g[n] = More(g[n - 1])
    <3> HIDE DEF S, More, x0
    <3>1. n - 1 \in 0 .. N
      BY <1>1
    <3>2. g[n - 1] \in S /\ <<g[n - 1], n>> \in S \X (1 .. N)
      BY <3>1
    <3>3. g[n] = F[<<g[n - 1], n>>]
      BY <2>1, <3>2 DEF Follows
    <3> QED
      BY <3>2, <3>3
  <2> HIDE DEF S, More, x0, F
  <2>3. g[0] = x0
    BY <2>1 DEF Follows
  <2>4. g = [n \in 0 .. N |-> g[n]]
    OBVIOUS
  <2>5. \A n \in 0 .. N : n = 0 \/ n \in 1 .. N
    BY <1>1
  <2>6. \A n \in 0 .. N : g[n] = IF n = 0 THEN x0 ELSE More(g[n - 1])
    BY <2>2, <2>3, <2>5
  <2> QED
    BY <2>4, <2>6
<1>9. after = A(after)
  <2> HIDE DEF A
  <2> QED
    BY <1>8
<1> HIDE DEF after
<1>10. after[0] = x0 /\ \A n \in 1 .. N : after[n] = More(after[n - 1])
  <2> HIDE DEF More, x0
  <2>1. \A n \in 0 .. N : after[n] = IF n = 0 THEN x0 ELSE More(after[n - 1])
    BY <1>9
  <2>2. 0 \in 0 .. N /\ \A n \in 1 .. N : n \in 0 .. N /\ n # 0
    BY <1>1
  <2> QED
    BY <2>1, <2>2
<1>11. \A n \in 0 .. N : after[n] \in S
  <2> HIDE DEF S, More, x0, N
  <2>1. Follows(after, N, S, x0, F)
    BY <1>10 DEF Follows
  <2> HIDE DEF F
  <2> QED
    BY <1>1, <1>4, <1>6, <2>1, RecursionStays
<1> DEFINE Ended(q) == q[Len(q)].last = e
           T == {n \in 0 .. N : Ended(after[n]) \/ Len(after[n]) = n + 1}
<1>12. 0 \in T
  <2>1. Len(x0) = 1 /\ 0 \in 0 .. N
    BY <1>1
  <2> HIDE DEF x0, Ended
  <2> QED
    BY <1>10, <2>1
<1>13. ASSUME NEW n \in 1 .. N, n - 1 \in T
       PROVE  n \in T
  <2> DEFINE q == after[n - 1]
  <2>1. n - 1 \in 0 .. N /\ n \in 0 .. N
    BY <1>1
  <2> HIDE DEF S, More, N
  <2>2. q \in S /\ after[n] = More(q)
    BY <1>10, <1>11, <2>1
  <2>3. Ended(q) \/ Len(q) = (n - 1) + 1
    BY <1>13
  <2> HIDE DEF q
  <2>4. CASE Ended(q)
    BY <1>5, <2>1, <2>2, <2>4
  <2>5. CASE ~Ended(q)
    <3>1. Len(q) = n /\ Len(More(q)) = Len(q) + 1
      BY <1>1, <1>5, <2>1, <2>2, <2>3, <2>5
    <3> HIDE DEF Ended
    <3> QED
      BY <2>1, <2>2, <3>1
  <2> QED
    BY <2>4, <2>5
<1>14. N \in T
  <2> HIDE DEF T, N
  <2>1. \A n \in 0 .. N : n \in T
    BY <1>1, <1>12, <1>13, Upwards
  <2> QED
    BY <1>1, <2>1
<1>15. CASE ~Short
  <2> DEFINE q == after[N]
  <2>1. q \in S
    BY <1>1, <1>11
  <2> HIDE DEF More, N
  <2>2. Ended(q) \/ Len(q) = N + 1
    BY <1>14
  <2>3. Ended(q)
    BY <1>5, <2>1, <2>2
  <2> HIDE DEF q, Ended, Short
  <2>4. ChunkSection(doc, s) = q
    BY <1>2, <1>15 DEF q
  <2>5. Cut(doc, s, q)
    BY <2>1
  <2> QED
    BY <2>3, <2>4, <2>5 DEF Cuts, Ended
<1> QED
  BY <1>3, <1>15

\* Every line of the section is in one of its chunks.
LEMMA CutCovers ==
  ASSUME NEW doc, NEW s, IsSection(doc, s), NEW q, Cuts(doc, s, q), NEW x \in s.first .. s.last
  PROVE  \E n \in 1 .. Len(q) : q[n].first <= x /\ x <= q[n].last
<1> DEFINE l == Len(q)
           T == {n \in 1 .. l : x <= q[n].last}
<1>1. Cut(doc, s, q) /\ q[l].last = s.last
  BY DEF Cuts
<1>2. l \in Nat \ {0} /\ q[1].first = s.first /\ s.first \in Nat /\ s.last \in Nat /\ x \in Nat
      /\ s.first <= x /\ x <= s.last
  BY <1>1 DEF Cut, IsSection, Passage
<1>3. \A n \in 1 .. l : q[n].first \in Nat /\ q[n].last \in Nat
  BY <1>1 DEF Cut, Piece, Passage
<1>4. \A n \in 2 .. l : q[n].first <= q[n - 1].last + 1
  BY <1>1 DEF Cut, Linked
<1> HIDE DEF l
<1>5. T \subseteq Nat /\ l \in T
  BY <1>1, <1>2
<1>6. PICK n \in T : \A m \in T : n <= m
  BY <1>5, LeastNat
<1>7. CASE n = 1
  BY <1>2, <1>6, <1>7 DEF l
<1>8. CASE n # 1
  <2>1. n \in 2 .. l /\ n - 1 \in 1 .. l /\ n - 1 < n /\ n \in Nat
    BY <1>2, <1>6, <1>8
  <2>2. n - 1 \notin T
    BY <1>6, <2>1
  <2>3. q[n - 1].last < x
    BY <1>2, <1>3, <2>1, <2>2
  <2>4. q[n].first <= x
    BY <1>2, <1>3, <1>4, <2>1, <2>3
  <2> QED
    BY <1>6, <2>4 DEF l
<1> QED
  BY <1>7, <1>8

-----------------------------------------------------------------------------
(* Chunker: the sections of a document.                                    *)

Above(doc, i) == {h \in 1 .. i : IsHeading(doc[h])}
H1s(doc, i) == {h \in Above(doc, i) : doc[h].kind = "h1"}
LastOf(S) == CHOOSE h \in S : \A g \in S : g <= h

LEMMA LatestIs ==
  ASSUME NEW n \in Nat, NEW S \in SUBSET (0 .. n), S # {}
  PROVE  LastOf(S) \in S /\ \A g \in S : g <= LastOf(S)
BY HasGreatest DEF LastOf

LEMMA LatestWhere ==
  ASSUME NEW n \in Nat, NEW S \in SUBSET (0 .. n), NEW m \in S, \A g \in S : g <= m
  PROVE  LastOf(S) = m
<1>1. LastOf(S) \in S /\ \A g \in S : g <= LastOf(S)
  BY LatestIs
<1>2. LastOf(S) <= m /\ m <= LastOf(S)
  BY <1>1
<1>3. LastOf(S) \in 0 .. n /\ m \in 0 .. n
  BY <1>1
<1> QED
  BY <1>2, <1>3

LEMMA HeadingsOverIs ==
  ASSUME NEW doc, NEW i
  PROVE  HeadingsOver(doc, i) =
           IF Above(doc, i) = {} THEN <<>>
           ELSE IF doc[LastOf(Above(doc, i))].kind = "h1" \/ H1s(doc, i) = {} THEN <<LastOf(Above(doc, i))>>
           ELSE <<LastOf(H1s(doc, i)), LastOf(Above(doc, i))>>
BY DEF HeadingsOver, Above, H1s, LastOf

\* The latest h1, or 0.
LastH1(doc, i) == IF H1s(doc, i) = {} THEN 0 ELSE LastOf(H1s(doc, i))

LEMMA LastH1Is ==
  ASSUME NEW doc, NEW i \in Nat
  PROVE  LastH1(doc, i) \in 0 .. i /\ (LastH1(doc, i) = 0 <=> H1s(doc, i) = {})
<1>1. H1s(doc, i) \in SUBSET (0 .. i) /\ H1s(doc, i) \subseteq 1 .. i
  BY DEF H1s, Above
<1>2. CASE H1s(doc, i) = {}
  BY <1>2 DEF LastH1
<1>3. CASE H1s(doc, i) # {}
  <2>1. LastOf(H1s(doc, i)) \in H1s(doc, i)
    BY <1>1, <1>3, LatestIs
  <2>2. LastOf(H1s(doc, i)) \in 1 .. i
    BY <1>1, <2>1
  <2> QED
    BY <1>3, <2>2 DEF LastH1
<1> QED
  BY <1>2, <1>3

\* A line that is no heading stands under those of the line before.
LEMMA TextLine ==
  ASSUME NEW doc, NEW i \in Nat \ {0}, ~IsHeading(doc[i])
  PROVE  HeadingsOver(doc, i) = HeadingsOver(doc, i - 1) /\ LastH1(doc, i) = LastH1(doc, i - 1)
<1>1. \A h : h \in 1 .. i <=> h = i \/ h \in 1 .. i - 1
  OBVIOUS
<1>2. Above(doc, i) = Above(doc, i - 1)
  BY <1>1 DEF Above
<1>3. H1s(doc, i) = H1s(doc, i - 1)
  BY <1>2 DEF H1s
<1> QED
  BY <1>2, <1>3, HeadingsOverIs DEF LastH1

\* A heading stands under itself, and under the h1 before it if it is none.
LEMMA HeadingLine ==
  ASSUME NEW doc, NEW i \in Nat \ {0}, IsHeading(doc[i])
  PROVE  /\ HeadingsOver(doc, i) =
              IF doc[i].kind = "h1" \/ LastH1(doc, i - 1) = 0 THEN <<i>> ELSE <<LastH1(doc, i - 1), i>>
         /\ LastH1(doc, i) = IF doc[i].kind = "h1" THEN i ELSE LastH1(doc, i - 1)
<1>1. \A h : h \in 1 .. i <=> h = i \/ h \in 1 .. i - 1
  OBVIOUS
<1>2. Above(doc, i) = Above(doc, i - 1) \cup {i}
  BY <1>1 DEF Above
<1>3. Above(doc, i) \in SUBSET (0 .. i) /\ H1s(doc, i) \in SUBSET (0 .. i)
      /\ (\A g \in Above(doc, i) : g <= i) /\ (\A g \in H1s(doc, i) : g <= i)
  BY DEF Above, H1s
<1>4. LastOf(Above(doc, i)) = i /\ Above(doc, i) # {}
  <2>1. i \in Above(doc, i)
    BY <1>2
  <2> QED
    BY <1>3, <2>1, LatestWhere
<1>5. LastH1(doc, i - 1) = 0 <=> H1s(doc, i - 1) = {}
  <2>1. i - 1 \in Nat
    OBVIOUS
  <2> QED
    BY <2>1, LastH1Is
<1>6. CASE doc[i].kind = "h1"
  <2>1. i \in H1s(doc, i)
    BY <1>2, <1>6 DEF H1s
  <2>2. LastOf(H1s(doc, i)) = i
    BY <1>3, <2>1, LatestWhere
  <2>3. LastH1(doc, i) = i
    BY <2>1, <2>2 DEF LastH1
  <2> QED
    BY <1>4, <1>6, <2>3, HeadingsOverIs
<1>7. CASE doc[i].kind # "h1"
  <2>1. H1s(doc, i) = H1s(doc, i - 1)
    BY <1>2, <1>7 DEF H1s
  <2>2. LastH1(doc, i) = LastH1(doc, i - 1)
    BY <2>1 DEF LastH1
  <2>3. HeadingsOver(doc, i) = IF H1s(doc, i) = {} THEN <<i>> ELSE <<LastOf(H1s(doc, i)), i>>
    BY <1>4, <1>7, HeadingsOverIs
  <2>4. HeadingsOver(doc, i) = IF LastH1(doc, i - 1) = 0 THEN <<i>> ELSE <<LastH1(doc, i - 1), i>>
    BY <1>5, <2>1, <2>3 DEF LastH1
  <2> QED
    BY <1>7, <2>2, <2>4
<1> QED
  BY <1>6, <1>7

\* A line stands under lines up to its own.
LEMMA HeadingsBelow ==
  ASSUME NEW doc, NEW i \in Nat
  PROVE  /\ HeadingsOver(doc, i) \in Seq(0 .. i)
         /\ i # 0 /\ IsHeading(doc[i]) =>
              /\ HeadingsOver(doc, i) # <<>>
              /\ HeadingsOver(doc, i)[Len(HeadingsOver(doc, i))] = i
<1> DEFINE S == Above(doc, i)
           R == H1s(doc, i)
           a == LastOf(S)
           r == LastOf(R)
<1>1. S \in SUBSET (0 .. i) /\ R \in SUBSET (0 .. i)
  BY DEF Above, H1s
<1>2. (S # {} => a \in 0 .. i) /\ (R # {} => r \in 0 .. i)
  BY <1>1, LatestIs
<1>3. HeadingsOver(doc, i) \in {<<>>, <<a>>, <<r, a>>} /\ (S = {} => HeadingsOver(doc, i) = <<>>)
      /\ (R = {} => HeadingsOver(doc, i) # <<r, a>>)
  <2>1. <<a>> # <<r, a>> /\ <<>> # <<r, a>>
    OBVIOUS
  <2> HIDE DEF a, r
  <2> QED
    BY <2>1, HeadingsOverIs DEF a, r, S, R
<1> HIDE DEF S, R, a, r
<1>4. HeadingsOver(doc, i) \in Seq(0 .. i)
  <2>1. <<>> \in Seq(0 .. i)
    OBVIOUS
  <2>2. a \in 0 .. i => <<a>> \in Seq(0 .. i)
    OBVIOUS
  <2>3. a \in 0 .. i /\ r \in 0 .. i => <<r, a>> \in Seq(0 .. i)
    OBVIOUS
  <2> QED
    BY <1>2, <1>3, <2>1, <2>2, <2>3
<1>5. ASSUME i # 0, IsHeading(doc[i])
      PROVE  HeadingsOver(doc, i) # <<>> /\ HeadingsOver(doc, i)[Len(HeadingsOver(doc, i))] = i
  <2> DEFINE h == LastH1(doc, i - 1)
  <2>1. HeadingsOver(doc, i) = <<i>> \/ HeadingsOver(doc, i) = <<h, i>>
    BY <1>5, HeadingLine
  <2> HIDE DEF h
  <2>2. <<i>> # <<>> /\ <<i>>[Len(<<i>>)] = i /\ <<h, i>> # <<>> /\ <<h, i>>[Len(<<h, i>>)] = i
    OBVIOUS
  <2> QED
    BY <2>1, <2>2
<1> QED
  BY <1>4, <1>5

LEMMA OtherHeading ==
  ASSUME NEW doc, NEW i \in Nat, NEW j \in Nat, i < j, IsHeading(doc[j])
  PROVE  HeadingsOver(doc, i) # HeadingsOver(doc, j)
<1> DEFINE u == HeadingsOver(doc, i)
           v == HeadingsOver(doc, j)
<1> SUFFICES ASSUME u = v
             PROVE  FALSE
  OBVIOUS
<1>1. u \in Seq(0 .. i) /\ v # <<>> /\ v[Len(v)] = j
  BY HeadingsBelow
<1> HIDE DEF u, v
<1>2. u[Len(u)] = j /\ u # <<>>
  BY <1>1
<1>3. Len(u) \in 1 .. Len(u)
  BY <1>1, <1>2
<1>4. u[Len(u)] \in 0 .. i
  BY <1>1, <1>3
<1> QED
  BY <1>2, <1>4

-----------------------------------------------------------------------------
\* q divides lines 1 to `to` into the parts that stand under the same headings.
Tiles(doc, q, to) ==
    /\ q \in Seq(Passage) /\ (Len(q) = 0 <=> to = 0)
    /\ Len(q) # 0 => q[1].first = 1 /\ q[Len(q)].last = to
    /\ \A n \in 1 .. Len(q) :
         /\ 1 <= q[n].first /\ q[n].first <= q[n].last /\ q[n].last <= to
         /\ \A x \in q[n].first .. q[n].last : HeadingsOver(doc, x) = q[n].heading
    /\ \A n \in 2 .. Len(q) : q[n].first = q[n - 1].last + 1 /\ IsHeading(doc[q[n].first])

States == [h1 : Nat, heading : Seq(Nat), start : Nat, done : Seq(Passage)]

\* What _split_by_h1_h2 knows after i lines.
Scanned(doc, i, st) ==
    /\ st \in States
    /\ st.h1 = LastH1(doc, i) /\ st.heading = HeadingsOver(doc, i)
    /\ 1 <= st.start /\ (st.start = 1 \/ (st.start <= i /\ IsHeading(doc[st.start])))
    /\ \A x \in st.start .. i : HeadingsOver(doc, x) = st.heading
    /\ Tiles(doc, st.done, st.start - 1)

LEMMA FlushTiles ==
  ASSUME NEW doc, NEW i \in Nat, NEW st, Scanned(doc, i, st)
  PROVE  Tiles(doc, Flush(st, i + 1), i)
<1> DEFINE a == st.start
           q == st.done
           new == [heading |-> st.heading, first |-> a, last |-> i]
           r == Append(q, new)
           l == Len(q)
<1>1. /\ a \in Nat \ {0} /\ q \in Seq(Passage) /\ st.heading \in Seq(Nat)
      /\ a = 1 \/ (a <= i /\ IsHeading(doc[a]))
      /\ \A x \in a .. i : HeadingsOver(doc, x) = st.heading
      /\ Tiles(doc, q, a - 1)
  BY DEF Scanned, States
<1>2. Flush(st, i + 1) = IF a = i + 1 THEN q ELSE r
  <2>1. (i + 1) - 1 = i
    OBVIOUS
  <2> QED
    BY <2>1 DEF Flush
<1>3. CASE a = i + 1
  <2>1. i = a - 1
    BY <1>1, <1>3
  <2> QED
    BY <1>1, <1>2, <1>3, <2>1
<1>4. CASE a # i + 1
  <2>1. a <= i \/ (a = 1 /\ i # 0)
    BY <1>1, <1>4
  <2>2. a <= i /\ i # 0
    BY <1>1, <2>1
  <2>3. new \in Passage
    BY <1>1 DEF Passage
  <2>4. l \in Nat
    BY <1>1
  <2>41. /\ l = 0 <=> a - 1 = 0
         /\ l # 0 => q[1].first = 1 /\ q[l].last = a - 1
         /\ \A n \in 1 .. l :
              /\ 1 <= q[n].first /\ q[n].first <= q[n].last /\ q[n].last <= a - 1
              /\ \A x \in q[n].first .. q[n].last : HeadingsOver(doc, x) = q[n].heading
         /\ \A n \in 2 .. l : q[n].first = q[n - 1].last + 1 /\ IsHeading(doc[q[n].first])
    BY <1>1 DEF Tiles
  <2>42. new.heading = st.heading /\ new.first = a /\ new.last = i
    OBVIOUS
  <2> HIDE DEF new
  <2>5. r \in Seq(Passage) /\ Len(r) = l + 1 /\ r[l + 1] = new /\ \A n \in 1 .. l : r[n] = q[n]
    BY <1>1, <2>3
  <2>51. \A n \in 1 .. l : q[n].first \in Nat /\ q[n].last \in Nat
    <3> HIDE DEF r, l
    <3>1. \A n \in 1 .. l : q[n] \in Passage
      BY <1>1 DEF l
    <3> QED
      BY <3>1 DEF Passage
  <2> HIDE DEF r, l, a, q
  <2>6. r[1].first = 1
    <3>1. CASE l = 0
      <4>1. r[1] = new /\ a = 1
        BY <1>1, <2>41, <2>5, <3>1
      <4> QED
        BY <2>42, <4>1
    <3>2. CASE l # 0
      <4>1. 1 \in 1 .. l
        BY <2>4, <3>2
      <4> QED
        BY <2>41, <2>5, <3>2, <4>1
    <3> QED
      BY <3>1, <3>2
  <2>7. ASSUME NEW n \in 1 .. l + 1
        PROVE  /\ 1 <= r[n].first /\ r[n].first <= r[n].last /\ r[n].last <= i
               /\ \A x \in r[n].first .. r[n].last : HeadingsOver(doc, x) = r[n].heading
    <3>1. CASE n = l + 1
      BY <1>1, <2>2, <2>42, <2>5, <3>1
    <3>2. CASE n # l + 1
      <4>1. n \in 1 .. l
        BY <2>4, <3>2
      <4>2. r[n] = q[n]
        BY <2>5, <4>1
      <4>3. q[n].last <= i
        <5> DEFINE y == q[n].last
        <5>1. y \in Nat /\ y <= a - 1
          BY <2>41, <2>51, <4>1
        <5> HIDE DEF y
        <5>2. y <= i
          BY <1>1, <2>2, <5>1
        <5> QED
          BY <5>2 DEF y
      <4> QED
        BY <2>41, <4>1, <4>2, <4>3
    <3> QED
      BY <3>1, <3>2
  <2>8. ASSUME NEW n \in 2 .. l + 1
        PROVE  r[n].first = r[n - 1].last + 1 /\ IsHeading(doc[r[n].first])
    <3>1. CASE n = l + 1
      <4>1. l \in 1 .. l /\ n - 1 = l /\ l # 0
        BY <2>4, <3>1
      <4>2. q[l].last = a - 1 /\ a # 1
        BY <1>1, <2>41, <4>1
      <4>3. a = (a - 1) + 1
        BY <1>1
      <4> QED
        BY <1>1, <2>42, <2>5, <3>1, <4>1, <4>2, <4>3
    <3>2. CASE n # l + 1
      <4>1. n \in 2 .. l /\ n \in 1 .. l /\ n - 1 \in 1 .. l
        BY <2>4, <3>2
      <4> QED
        BY <2>41, <2>5, <4>1
    <3> QED
      BY <3>1, <3>2
  <2>9. Len(r) # 0 /\ r[Len(r)].last = i
    BY <2>4, <2>42, <2>5
  <2>10. Tiles(doc, r, i)
    BY <2>2, <2>5, <2>6, <2>7, <2>8, <2>9 DEF Tiles
  <2> QED
    BY <1>2, <1>4, <2>10
<1> QED
  BY <1>3, <1>4

\* One turn of the loop.
Turn(doc, before, i) ==
    IF ~IsHeading(doc[i]) THEN before
    ELSE [h1 |-> IF doc[i].kind = "h1" THEN i ELSE before.h1,
          heading |-> HeadingAt(doc, before, i),
          start |-> i, done |-> Flush(before, i)]

LEMMA TurnType ==
  ASSUME NEW doc, NEW st \in States, NEW i \in Nat \ {0}
  PROVE  Turn(doc, st, i) \in States
<1>1. /\ st.h1 \in Nat /\ st.heading \in Seq(Nat) /\ st.start \in Nat /\ st.done \in Seq(Passage)
      /\ i - 1 \in Nat
  BY DEF States
<1>2. HeadingAt(doc, st, i) \in Seq(Nat)
  <2>1. <<i>> \in Seq(Nat) /\ <<st.h1, i>> \in Seq(Nat)
    BY <1>1
  <2> QED
    BY <2>1 DEF HeadingAt
<1>3. Flush(st, i) \in Seq(Passage)
  <2>1. [heading |-> st.heading, first |-> st.start, last |-> i - 1] \in Passage
    BY <1>1 DEF Passage
  <2> QED
    BY <1>1, <2>1 DEF Flush
<1> QED
  BY <1>1, <1>2, <1>3 DEF Turn, States

LEMMA TurnScans ==
  ASSUME NEW doc, NEW i \in Nat \ {0}, NEW st, Scanned(doc, i - 1, st)
  PROVE  Scanned(doc, i, Turn(doc, st, i))
<1> DEFINE new == Turn(doc, st, i)
<1>1. /\ st \in States /\ st.h1 = LastH1(doc, i - 1) /\ st.heading = HeadingsOver(doc, i - 1)
      /\ 1 <= st.start /\ (st.start = 1 \/ (st.start <= i - 1 /\ IsHeading(doc[st.start])))
      /\ \A x \in st.start .. i - 1 : HeadingsOver(doc, x) = st.heading
      /\ Tiles(doc, st.done, st.start - 1)
  BY DEF Scanned
<1>2. st.start \in Nat
  BY <1>1 DEF States
<1>3. new \in States
  BY <1>1, TurnType
<1>4. CASE ~IsHeading(doc[i])
  <2>1. new = st
    BY <1>4 DEF Turn
  <2>2. HeadingsOver(doc, i) = HeadingsOver(doc, i - 1) /\ LastH1(doc, i) = LastH1(doc, i - 1)
    BY <1>4, TextLine
  <2>3. \A x \in st.start .. i : x \in st.start .. i - 1 \/ x = i
    BY <1>2
  <2>4. \A x \in st.start .. i : HeadingsOver(doc, x) = st.heading
    BY <1>1, <2>2, <2>3
  <2>5. st.start = 1 \/ (st.start <= i /\ IsHeading(doc[st.start]))
    BY <1>1, <1>2
  <2> HIDE DEF new
  <2>6. Scanned(doc, i, st)
    BY <1>1, <2>2, <2>4, <2>5 DEF Scanned
  <2> QED
    BY <2>1, <2>6 DEF new
<1>5. CASE IsHeading(doc[i])
  <2>1. new = [h1 |-> IF doc[i].kind = "h1" THEN i ELSE st.h1, heading |-> HeadingAt(doc, st, i),
               start |-> i, done |-> Flush(st, i)]
    BY <1>5 DEF Turn
  <2>2. /\ new.h1 = IF doc[i].kind = "h1" THEN i ELSE st.h1
        /\ new.heading = HeadingAt(doc, st, i) /\ new.start = i /\ new.done = Flush(st, i)
    BY <2>1
  <2> HIDE DEF new
  <2>3. new.h1 = LastH1(doc, i) /\ new.heading = HeadingsOver(doc, i)
    BY <1>1, <1>5, <2>2, HeadingLine DEF HeadingAt
  <2>4. Tiles(doc, new.done, new.start - 1)
    <3>1. i - 1 \in Nat /\ (i - 1) + 1 = i
      OBVIOUS
    <3>2. Tiles(doc, Flush(st, (i - 1) + 1), i - 1)
      BY <3>1, FlushTiles
    <3> QED
      BY <2>2, <3>1, <3>2
  <2>5. \A x \in new.start .. i : HeadingsOver(doc, x) = new.heading
    <3>1. \A x \in i .. i : x = i
      OBVIOUS
    <3> QED
      BY <2>2, <2>3, <3>1
  <2>6. 1 <= new.start /\ new.start <= i /\ IsHeading(doc[new.start])
    BY <1>5, <2>2
  <2>7. 1 <= new.start /\ (new.start = 1 \/ (new.start <= i /\ IsHeading(doc[new.start])))
    BY <2>2, <2>6
  <2>8. Scanned(doc, i, new)
    BY <1>3, <2>3, <2>4, <2>5, <2>7 DEF Scanned
  <2> QED
    BY <2>8 DEF new
<1> QED
  BY <1>4, <1>5

LEMMA SplitTiles ==
  ASSUME NEW doc \in Seq(Line)
  PROVE  Tiles(doc, Split(doc), Len(doc))
<1> DEFINE L == Len(doc)
           x0 == [h1 |-> 0, heading |-> <<>>, start |-> 1, done |-> <<>>]
           F == [p \in States \X (1 .. L) |-> Turn(doc, p[1], p[2])]
           A(h) == [i \in 0 .. L |-> IF i = 0 THEN x0 ELSE Turn(doc, h[i - 1], i)]
           after == CHOOSE h : h = A(h)
           T == {i \in 0 .. L : Scanned(doc, i, after[i])}
<1>1. L \in Nat
  OBVIOUS
<1>2. Split(doc) = Flush(after[L], L + 1)
  BY DEF Split, Turn
<1>3. Scanned(doc, 0, x0) /\ x0 \in States
  <2>1. x0 \in States
    <3>1. <<>> \in Seq(Nat) /\ <<>> \in Seq(Passage)
      OBVIOUS
    <3> QED
      BY <3>1 DEF States
  <2>2. Above(doc, 0) = {} /\ H1s(doc, 0) = {}
    BY DEF Above, H1s
  <2>3. LastH1(doc, 0) = 0 /\ HeadingsOver(doc, 0) = <<>>
    BY <2>2, HeadingsOverIs DEF LastH1
  <2>4. Tiles(doc, <<>>, 0)
    <3>1. <<>> \in Seq(Passage) /\ Len(<<>>) = 0 /\ 1 .. 0 = {} /\ 2 .. 0 = {}
      OBVIOUS
    <3> QED
      BY <3>1 DEF Tiles
  <2>5. 1 .. 0 = {} /\ 1 - 1 = 0 /\ 1 <= 1
    OBVIOUS
  <2>6. x0.h1 = 0 /\ x0.heading = <<>> /\ x0.start = 1 /\ x0.done = <<>>
    OBVIOUS
  <2> HIDE DEF x0
  <2> QED
    BY <2>1, <2>3, <2>4, <2>5, <2>6 DEF Scanned
<1> HIDE DEF x0, L
<1>4. F \in Steps(States, L)
  <2>1. \A i \in 1 .. L : i \in Nat \ {0}
    BY <1>1
  <2> QED
    BY <2>1, TurnType DEF Steps
<1>5. Recursive(L, States, x0, F)
  <2> HIDE DEF F
  <2> QED
    BY <1>1, <1>3, <1>4, Recursion
<1>6. PICK g : g = A(g)
  <2>1. PICK g \in [0 .. L -> States] : Follows(g, L, States, x0, F)
    BY <1>5 DEF Recursive
  <2>2. ASSUME NEW i \in 1 .. L
        PROVE  g[i] = Turn(doc, g[i - 1], i)
    <3>1. i - 1 \in 0 .. L
      BY <1>1
    <3>2. g[i - 1] \in States /\ <<g[i - 1], i>> \in States \X (1 .. L)
      BY <3>1
    <3>3. g[i] = F[<<g[i - 1], i>>]
      BY <2>1, <3>2 DEF Follows
    <3> QED
      BY <3>2, <3>3
  <2> HIDE DEF F
  <2>3. g[0] = x0
    BY <2>1 DEF Follows
  <2>4. g = [i \in 0 .. L |-> g[i]]
    OBVIOUS
  <2>5. \A i \in 0 .. L : i = 0 \/ i \in 1 .. L
    BY <1>1
  <2>6. \A i \in 0 .. L : g[i] = IF i = 0 THEN x0 ELSE Turn(doc, g[i - 1], i)
    BY <2>2, <2>3, <2>5
  <2> QED
    BY <2>4, <2>6
<1>7. after = A(after)
  <2> HIDE DEF A
  <2> QED
    BY <1>6
<1> HIDE DEF after
<1>8. after[0] = x0 /\ \A i \in 1 .. L : after[i] = Turn(doc, after[i - 1], i)
  <2>1. \A i \in 0 .. L : after[i] = IF i = 0 THEN x0 ELSE Turn(doc, after[i - 1], i)
    BY <1>7
  <2>2. 0 \in 0 .. L /\ \A i \in 1 .. L : i \in 0 .. L /\ i # 0
    BY <1>1
  <2> QED
    BY <2>1, <2>2
<1>9. 0 \in T
  <2>1. 0 \in 0 .. L
    BY <1>1
  <2> QED
    BY <1>3, <1>8, <2>1
<1>10. ASSUME NEW i \in 1 .. L, i - 1 \in T
       PROVE  i \in T
  <2>1. i \in Nat \ {0} /\ i \in 0 .. L
    BY <1>1
  <2>2. Scanned(doc, i - 1, after[i - 1])
    BY <1>10
  <2>3. Scanned(doc, i, Turn(doc, after[i - 1], i))
    BY <2>1, <2>2, TurnScans
  <2> QED
    BY <1>8, <2>1, <2>3
<1>11. L \in T
  <2> HIDE DEF T
  <2>1. \A i \in 0 .. L : i \in T
    BY <1>1, <1>9, <1>10, Upwards
  <2> QED
    BY <1>1, <2>1
<1>12. Scanned(doc, L, after[L])
  BY <1>11
<1>13. Tiles(doc, Flush(after[L], L + 1), L)
  BY <1>1, <1>12, FlushTiles
<1> QED
  BY <1>2, <1>13 DEF L

-----------------------------------------------------------------------------
(* Chunker: the chunks of a document.                                      *)

\* c lies under one heading, and ends with the line that fills it.
Whole(doc, c) ==
    /\ c.first <= c.last
    /\ \A x \in c.first .. c.last : HeadingsOver(doc, x) = c.heading
    /\ Tokens(doc, c.first, c.last - 1) < Target

Adjoin(doc, d, c) ==
    /\ d.first < c.first
    /\ d.heading = c.heading => Tokens(doc, c.first, d.last) >= Overlap \/ c.first = d.first + 1

\* The chunks r of the lines 1 to `to`.
ChunksOf(doc, r, to) ==
    /\ r \in Seq(Passage) /\ (Len(r) = 0 <=> to = 0)
    /\ Len(r) # 0 => r[Len(r)].last = to
    /\ \A n \in 1 .. Len(r) : Whole(doc, r[n])
    /\ \A n \in 2 .. Len(r) : Adjoin(doc, r[n - 1], r[n])
    /\ \A x \in 1 .. to : \E n \in 1 .. Len(r) : r[n].first <= x /\ x <= r[n].last

\* The section that follows line `to`.
Following(doc, s, to) ==
    /\ IsSection(doc, s) /\ s.first = to + 1
    /\ to = 0 \/ IsHeading(doc[s.first])
    /\ \A x \in s.first .. s.last : HeadingsOver(doc, x) = s.heading

LEMMA PieceWhole ==
  ASSUME NEW doc, NEW s, s \in Passage, \A x \in s.first .. s.last : HeadingsOver(doc, x) = s.heading,
         NEW c, Piece(doc, s, c)
  PROVE  Whole(doc, c)
<1>1. c.first \in Nat /\ c.last \in Nat /\ s.first \in Nat /\ s.last \in Nat
  BY DEF Piece, Passage
<1>2. s.first <= c.first /\ c.last <= s.last /\ c.heading = s.heading
  BY DEF Piece
<1>3. \A x \in c.first .. c.last : x \in s.first .. s.last
  BY <1>1, <1>2
<1> QED
  BY <1>2, <1>3 DEF Piece, Whole

LEMMA Joined ==
  ASSUME NEW S, NEW r \in Seq(S), NEW q \in Seq(S)
  PROVE  /\ r \o q \in Seq(S) /\ Len(r \o q) = Len(r) + Len(q)
         /\ \A n \in 1 .. Len(r) : (r \o q)[n] = r[n]
         /\ \A n \in 1 .. Len(q) : (r \o q)[Len(r) + n] = q[n]
         /\ \A n \in 1 .. Len(r) + Len(q) :
              n \in 1 .. Len(r) \/ (n - Len(r) \in 1 .. Len(q) /\ n = Len(r) + (n - Len(r)))
OBVIOUS

LEMMA ChunksGrow ==
  ASSUME NEW doc, NEW to \in Nat, NEW r, ChunksOf(doc, r, to), NEW s, Following(doc, s, to),
         NEW q, Cuts(doc, s, q)
  PROVE  ChunksOf(doc, r \o q, s.last)
<1> DEFINE l == Len(r)
           m == Len(q)
           t == r \o q
           a == s.first
           e == s.last
<1>1. /\ r \in Seq(Passage) /\ (l = 0 <=> to = 0) /\ (l # 0 => r[l].last = to)
      /\ \A n \in 1 .. l : Whole(doc, r[n])
      /\ \A n \in 2 .. l : Adjoin(doc, r[n - 1], r[n])
      /\ \A x \in 1 .. to : \E n \in 1 .. l : r[n].first <= x /\ x <= r[n].last
  BY DEF ChunksOf
<1>2. /\ IsSection(doc, s) /\ a = to + 1 /\ (to = 0 \/ IsHeading(doc[a]))
      /\ \A x \in a .. e : HeadingsOver(doc, x) = s.heading
  BY DEF Following
<1>3. s \in Passage /\ a \in Nat /\ e \in Nat /\ a <= e
  BY <1>2 DEF IsSection, Passage
<1>4. /\ q \in Seq(Passage) /\ m \in Nat \ {0} /\ q[1].first = a /\ q[m].last = e
      /\ \A n \in 1 .. m : Piece(doc, s, q[n])
      /\ \A n \in 2 .. m : Linked(doc, q[n - 1], q[n])
  BY DEF Cuts, Cut
<1>5. /\ t \in Seq(Passage) /\ Len(t) = l + m
      /\ \A n \in 1 .. l : t[n] = r[n]
      /\ \A n \in 1 .. m : t[l + n] = q[n]
      /\ \A n \in 1 .. l + m : n \in 1 .. l \/ (n - l \in 1 .. m /\ n = l + (n - l))
  BY <1>1, <1>4, Joined
<1>6. l \in Nat
  BY <1>1
<1>7. \A n \in 1 .. m : Whole(doc, q[n])
  BY <1>2, <1>3, <1>4, PieceWhole
<1>8. \A n \in 1 .. m : q[n].heading = s.heading
  BY <1>4 DEF Piece
<1>9. \A x \in a .. e : \E n \in 1 .. m : q[n].first <= x /\ x <= q[n].last
  BY <1>2, CutCovers
<1>10. (\A n \in 1 .. l : r[n] \in Passage) /\ \A n \in 1 .. m : q[n] \in Passage
  BY <1>1, <1>4
<1> HIDE DEF l, m, t, a, e
<1>11. Len(t) # 0 /\ t[Len(t)].last = e
  <2>1. m \in 1 .. m /\ l + m # 0
    BY <1>4, <1>6
  <2> QED
    BY <1>4, <1>5, <2>1
<1>12. ASSUME NEW n \in 1 .. l + m
       PROVE  Whole(doc, t[n])
  <2>1. CASE n \in 1 .. l
    BY <1>1, <1>5, <2>1
  <2>2. CASE n - l \in 1 .. m /\ n = l + (n - l)
    <3>1. t[n] = q[n - l]
      BY <1>5, <2>2
    <3> QED
      BY <1>7, <2>2, <3>1
  <2> QED
    BY <1>5, <2>1, <2>2
<1>13. ASSUME l # 0
       PROVE  Adjoin(doc, r[l], q[1])
  <2> DEFINE d == r[l]
             c == q[1]
             x == d.first
             y == d.last
  <2>1. l \in 1 .. l /\ 1 \in 1 .. m
    BY <1>4, <1>6, <1>13
  <2>2. x \in Nat /\ y \in Nat /\ c.first = a /\ y = to
    <3>1. d \in Passage
      BY <1>10, <2>1
    <3> QED
      BY <1>1, <1>4, <1>13, <3>1 DEF Passage
  <2>3. Whole(doc, d) /\ Whole(doc, c)
    BY <1>1, <1>7, <2>1
  <2>31. x <= y /\ \A z \in x .. y : HeadingsOver(doc, z) = d.heading
    BY <2>3 DEF Whole
  <2>32. c.first <= c.last /\ \A z \in c.first .. c.last : HeadingsOver(doc, z) = c.heading
    BY <2>3 DEF Whole
  <2>33. c.last \in Nat
    <3>1. c \in Passage
      BY <1>10, <2>1
    <3> QED
      BY <3>1 DEF Passage
  <2> HIDE DEF d, c, x, y
  <2>4. x < a /\ x \in x .. y /\ a \in c.first .. c.last
    BY <1>2, <1>3, <2>2, <2>31, <2>32, <2>33
  <2>5. HeadingsOver(doc, x) = d.heading /\ HeadingsOver(doc, a) = c.heading
    BY <2>31, <2>32, <2>4
  <2>6. IsHeading(doc[a])
    BY <1>1, <1>2, <1>13
  <2>7. d.heading # c.heading
    BY <1>3, <2>2, <2>4, <2>5, <2>6, OtherHeading
  <2>8. Adjoin(doc, d, c)
    BY <2>2, <2>4, <2>7 DEF Adjoin, x
  <2> QED
    BY <2>8 DEF d, c
<1>14. ASSUME NEW n \in 2 .. l + m
       PROVE  Adjoin(doc, t[n - 1], t[n])
  <2>1. n \in 1 .. l + m /\ n - 1 \in 1 .. l + m
    BY <1>4, <1>6
  <2>2. CASE n \in 1 .. l
    <3>1. n \in 2 .. l /\ n - 1 \in 1 .. l
      BY <1>6, <2>2
    <3> QED
      BY <1>1, <1>5, <2>2, <3>1
  <2>3. CASE n = l + 1
    <3>1. n - 1 = l /\ l # 0 /\ l \in 1 .. l /\ 1 \in 1 .. m
      BY <1>4, <1>6, <2>3
    <3>2. t[n - 1] = r[l] /\ t[n] = q[1]
      BY <1>5, <2>3, <3>1
    <3> QED
      BY <1>13, <3>1, <3>2
  <2>4. CASE n \notin 1 .. l /\ n # l + 1
    <3> DEFINE k == n - l
    <3>1. k \in 2 .. m /\ k \in 1 .. m /\ k - 1 \in 1 .. m /\ n = l + k /\ n - 1 = l + (k - 1)
      BY <1>4, <1>6, <2>1, <2>4
    <3> HIDE DEF k
    <3>2. t[n] = q[k] /\ t[n - 1] = q[k - 1]
      BY <1>5, <3>1
    <3>3. Linked(doc, q[k - 1], q[k])
      BY <1>4, <3>1
    <3> QED
      BY <3>2, <3>3 DEF Linked, Adjoin
  <2> QED
    BY <2>2, <2>3, <2>4
<1>15. ASSUME NEW x \in 1 .. e
       PROVE  \E n \in 1 .. l + m : t[n].first <= x /\ x <= t[n].last
  <2>1. CASE x <= to
    <3>1. x \in 1 .. to
      BY <1>3, <2>1
    <3>2. PICK n \in 1 .. l : r[n].first <= x /\ x <= r[n].last
      BY <1>1, <3>1
    <3>3. n \in 1 .. l + m /\ t[n] = r[n]
      BY <1>4, <1>5, <1>6
    <3> QED
      BY <3>2, <3>3
  <2>2. CASE ~ (x <= to)
    <3>1. x \in a .. e
      BY <1>2, <1>3, <2>2
    <3>2. PICK n \in 1 .. m : q[n].first <= x /\ x <= q[n].last
      BY <1>9, <3>1
    <3>3. l + n \in 1 .. l + m /\ t[l + n] = q[n]
      BY <1>4, <1>5, <1>6
    <3> QED
      BY <3>2, <3>3
  <2> QED
    BY <2>1, <2>2
<1>16. e # 0
  BY <1>2, <1>3
<1>17. ChunksOf(doc, t, e)
  BY <1>5, <1>11, <1>12, <1>14, <1>15, <1>16 DEF ChunksOf
<1> QED
  BY <1>17 DEF t, e

\* Some line says something.
Written(doc) == \E i \in DOMAIN doc : doc[i].kind # "blank"

LEMMA DocumentChunks ==
  ASSUME ChunkerAssumption, NEW doc \in Seq(Line)
  PROVE  IF Written(doc) THEN ChunksOf(doc, ChunkMarkdown(doc), Len(doc)) ELSE ChunkMarkdown(doc) = <<>>
<1> DEFINE L == Len(doc)
           sections == Split(doc)
           N == Len(sections)
           S == Seq(Passage)
           x0 == <<>>
           F == [p \in S \X (1 .. N) |-> p[1] \o ChunkSection(doc, sections[p[2]])]
           A(h) == [n \in 0 .. N |-> IF n = 0 THEN x0 ELSE h[n - 1] \o ChunkSection(doc, sections[n])]
           upto == CHOOSE h : h = A(h)
           Blank == \A i \in DOMAIN doc : doc[i].kind = "blank"
           EndAt(n) == IF n = 0 THEN 0 ELSE sections[n].last
           T == {n \in 0 .. N : ChunksOf(doc, upto[n], EndAt(n))}
<1>1. ChunkMarkdown(doc) = IF Blank THEN <<>> ELSE upto[N]
  BY DEF ChunkMarkdown
<1>2. L \in Nat
  OBVIOUS
<1>3. Tiles(doc, sections, L)
  BY SplitTiles
<1> HIDE DEF L, sections
<1>4. /\ sections \in Seq(Passage) /\ (N = 0 <=> L = 0) /\ N \in Nat
      /\ N # 0 => sections[1].first = 1 /\ sections[N].last = L
  BY <1>3 DEF Tiles
<1>5. \A n \in 1 .. N :
        /\ 1 <= sections[n].first /\ sections[n].first <= sections[n].last /\ sections[n].last <= L
        /\ \A x \in sections[n].first .. sections[n].last : HeadingsOver(doc, x) = sections[n].heading
  BY <1>3 DEF Tiles
<1>6. \A n \in 2 .. N : sections[n].first = sections[n - 1].last + 1 /\ IsHeading(doc[sections[n].first])
  BY <1>3 DEF Tiles
<1>7. \A n \in 1 .. N : sections[n] \in Passage
  BY <1>4
<1> HIDE DEF N
<1>8. \A n \in 1 .. N : IsSection(doc, sections[n])
  BY <1>5, <1>7 DEF IsSection, L
<1>9. \A n \in 1 .. N : Cuts(doc, sections[n], ChunkSection(doc, sections[n]))
  BY <1>8, SectionIsCut
<1>10. \A n \in 1 .. N : ChunkSection(doc, sections[n]) \in S
  BY <1>9 DEF Cuts, Cut
<1>11. \A r \in S : \A n \in 1 .. N : r \o ChunkSection(doc, sections[n]) \in S
  <2> SUFFICES ASSUME NEW r \in S, NEW n \in 1 .. N
               PROVE  r \o ChunkSection(doc, sections[n]) \in S
    OBVIOUS
  <2>1. ChunkSection(doc, sections[n]) \in S
    BY <1>10
  <2> QED
    BY <2>1, Joined
<1>12. x0 \in S
  OBVIOUS
<1> HIDE DEF S, x0
<1>13. F \in Steps(S, N)
  BY <1>11 DEF Steps
<1>14. Recursive(N, S, x0, F)
  <2> HIDE DEF F
  <2> QED
    BY <1>4, <1>12, <1>13, Recursion
<1>15. PICK g : g = A(g)
  <2>1. PICK g \in [0 .. N -> S] : Follows(g, N, S, x0, F)
    BY <1>14 DEF Recursive
  <2>2. ASSUME NEW n \in 1 .. N
        PROVE  g[n] = g[n - 1] \o ChunkSection(doc, sections[n])
    <3>1. n - 1 \in 0 .. N
      BY <1>4
    <3>2. g[n - 1] \in S /\ <<g[n - 1], n>> \in S \X (1 .. N)
      BY <3>1
    <3>3. g[n] = F[<<g[n - 1], n>>]
      BY <2>1, <3>2 DEF Follows
    <3> QED
      BY <3>2, <3>3
  <2> HIDE DEF F
  <2>3. g[0] = x0
    BY <2>1 DEF Follows
  <2>4. g = [n \in 0 .. N |-> g[n]]
    OBVIOUS
  <2>5. \A n \in 0 .. N : n = 0 \/ n \in 1 .. N
    BY <1>4
  <2>6. \A n \in 0 .. N : g[n] = IF n = 0 THEN x0 ELSE g[n - 1] \o ChunkSection(doc, sections[n])
    BY <2>2, <2>3, <2>5
  <2> QED
    BY <2>4, <2>6
<1>16. upto = A(upto)
  <2> HIDE DEF A
  <2> QED
    BY <1>15
<1> HIDE DEF upto
<1>17. upto[0] = x0 /\ \A n \in 1 .. N : upto[n] = upto[n - 1] \o ChunkSection(doc, sections[n])
  <2>1. \A n \in 0 .. N : upto[n] = IF n = 0 THEN x0 ELSE upto[n - 1] \o ChunkSection(doc, sections[n])
    BY <1>16
  <2>2. 0 \in 0 .. N /\ \A n \in 1 .. N : n \in 0 .. N /\ n # 0
    BY <1>4
  <2> QED
    BY <2>1, <2>2
<1>18. 0 \in T
  <2>1. ChunksOf(doc, x0, 0)
    <3>1. <<>> \in Seq(Passage) /\ Len(<<>>) = 0 /\ 1 .. 0 = {} /\ 2 .. 0 = {}
      OBVIOUS
    <3> QED
      BY <3>1 DEF ChunksOf, x0
  <2>2. 0 \in 0 .. N /\ EndAt(0) = 0
    BY <1>4
  <2> HIDE DEF EndAt
  <2> QED
    BY <1>17, <2>1, <2>2
<1>19. ASSUME NEW n \in 1 .. N, n - 1 \in T
       PROVE  n \in T
  <2> DEFINE s == sections[n]
             to == EndAt(n - 1)
  <2>1. n \in 0 .. N /\ n \in Nat \ {0} /\ n # 0 /\ s \in Passage
    BY <1>4, <1>7
  <2>2. ChunksOf(doc, upto[n - 1], to)
    BY <1>19
  <2>3. s.first = to + 1 /\ to \in Nat /\ (to = 0 \/ IsHeading(doc[s.first]))
    <3>1. CASE n = 1
      <4>1. to = 0 /\ N # 0 /\ s.first = 1
        BY <1>4, <3>1
      <4> QED
        BY <4>1
    <3>2. CASE n # 1
      <4>1. n \in 2 .. N /\ n - 1 \in 1 .. N /\ n - 1 # 0
        BY <1>4, <2>1, <3>2
      <4>2. to = sections[n - 1].last /\ sections[n - 1] \in Passage
        BY <1>7, <4>1
      <4>3. to \in Nat
        BY <4>2 DEF Passage
      <4> QED
        BY <1>6, <4>1, <4>2, <4>3
    <3> QED
      BY <3>1, <3>2
  <2>4. EndAt(n) = s.last
    BY <2>1
  <2> HIDE DEF to, EndAt
  <2>5. Following(doc, s, to)
    BY <1>5, <1>8, <2>3 DEF Following
  <2>6. ChunksOf(doc, upto[n - 1] \o ChunkSection(doc, s), s.last)
    BY <1>9, <2>2, <2>3, <2>5, ChunksGrow
  <2> QED
    BY <1>17, <2>1, <2>4, <2>6
<1>20. N \in T
  <2> HIDE DEF T
  <2>1. \A n \in 0 .. N : n \in T
    BY <1>4, <1>18, <1>19, Upwards
  <2> QED
    BY <1>4, <2>1
<1>21. ChunksOf(doc, upto[N], L)
  BY <1>4, <1>20
<1>22. Blank <=> ~Written(doc)
  BY DEF Written
<1> QED
  BY <1>1, <1>21, <1>22 DEF L

LEMMA DocumentCovered ==
  ASSUME ChunkerAssumption, NEW doc \in Seq(Line)
  PROVE  ChunksCover(doc)
<1> DEFINE chunks == ChunkMarkdown(doc)
<1>1. CASE Written(doc)
  <2>1. ChunksOf(doc, chunks, Len(doc))
    BY <1>1, DocumentChunks
  <2> HIDE DEF chunks
  <2>2. /\ chunks \in Seq(Passage) /\ DOMAIN chunks = 1 .. Len(chunks) /\ DOMAIN doc = 1 .. Len(doc)
        /\ Len(chunks) \in Nat
    BY <2>1 DEF ChunksOf
  <2>3. /\ \A n \in 1 .. Len(chunks) : Whole(doc, chunks[n])
        /\ \A n \in 2 .. Len(chunks) : Adjoin(doc, chunks[n - 1], chunks[n])
        /\ \A x \in 1 .. Len(doc) :
             \E n \in 1 .. Len(chunks) : chunks[n].first <= x /\ x <= chunks[n].last
    BY <2>1 DEF ChunksOf
  <2>4. ASSUME NEW i \in DOMAIN doc
        PROVE  \E n \in DOMAIN chunks : i \in chunks[n].first .. chunks[n].last
    <3>1. i \in 1 .. Len(doc) /\ i \in Nat
      BY <2>2
    <3>2. PICK n \in 1 .. Len(chunks) : chunks[n].first <= i /\ i <= chunks[n].last
      BY <2>3, <3>1
    <3>3. chunks[n] \in Passage
      BY <2>2
    <3>4. i \in chunks[n].first .. chunks[n].last
      BY <3>1, <3>2, <3>3 DEF Passage
    <3> QED
      BY <2>2, <3>4
  <2>5. ASSUME NEW n \in DOMAIN chunks
        PROVE  LET c == chunks[n]
               IN  /\ c.first <= c.last
                   /\ \A i \in c.first .. c.last : HeadingsOver(doc, i) = c.heading
                   /\ Tokens(doc, c.first, c.last - 1) < Target
                   /\ n > 1 => chunks[n - 1].first < c.first
                   /\ n > 1 /\ chunks[n - 1].heading = c.heading =>
                        LET d == chunks[n - 1]
                        IN  Tokens(doc, c.first, d.last) >= Overlap \/ c.first = d.first + 1
    <3>1. Whole(doc, chunks[n])
      BY <2>2, <2>3
    <3>2. n > 1 => n \in 2 .. Len(chunks)
      BY <2>2
    <3>3. n > 1 => Adjoin(doc, chunks[n - 1], chunks[n])
      BY <2>3, <3>2
    <3> QED
      BY <3>1, <3>3 DEF Whole, Adjoin
  <2> QED
    BY <2>4, <2>5 DEF ChunksCover, chunks
<1>2. CASE ~Written(doc)
  <2>1. chunks = <<>>
    BY <1>2, DocumentChunks
  <2>2. DOMAIN chunks = {}
    BY <2>1
  <2> QED
    BY <1>2, <2>2 DEF ChunksCover, Written
<1> QED
  BY <1>1, <1>2

\* chunk_markdown loses no line of a document of any length, whatever headings it has and
\* whatever its lines are estimated at: each chunk lies under one heading and names it and
\* its h1, no two have the same line range, a chunk ends with the line that fills it, and
\* within a section a chunk takes up the overlap of the one before, unless that would be
\* all of it (chunk_markdown, _split_by_h1_h2, _chunk_section).
THEOREM ChunkLawHolds == ASSUME ChunkerAssumption PROVE DocumentSpec => []ChunkLaw
<1> DEFINE Inv == document \in Seq(Line)
<1>1. ASSUME DocumentInit
      PROVE  Inv
  BY <1>1 DEF DocumentInit
<1>2. ASSUME Inv, [WriteLine]_document
      PROVE  Inv'
  <2>1. CASE WriteLine
    <3>1. PICK line \in Lines : document' = Append(document, line)
      BY <2>1 DEF WriteLine
    <3>2. line \in Line
      BY DEF ChunkerAssumption
    <3> QED
      BY <1>2, <3>1, <3>2, AppendProperties
  <2>2. CASE document' = document
    BY <1>2, <2>2
  <2> QED
    BY <1>2, <2>1, <2>2
<1>3. ASSUME Inv
      PROVE  ChunkLaw
  BY <1>3, DocumentCovered DEF ChunkLaw
<1> QED
  BY <1>1, <1>2, <1>3, PTL DEF DocumentSpec
=============================================================================
