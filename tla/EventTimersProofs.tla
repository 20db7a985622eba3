-------------------------- MODULE EventTimersProofs --------------------------
(***************************************************************************)
(* Proofs about the event timers: the list stays sorted, so an evaluation  *)
(* misses no timer, and no identifier is given twice or lost, for any      *)
(* number of timers, identifiers, periods and failures of allocation.      *)
(***************************************************************************)
EXTENDS EventTimers, SequenceFacts

-----------------------------------------------------------------------------
(* Types, and the invariant of the two lists.                              *)

TimerRec == [id : Nat, holder : Holders, endTime : Int, isPeriodicTimer : BOOLEAN,
             periodMs : Nat \ {0}]
Creation == [endTime : Nat, periodMs : Nat \ {0}]

Types ==
  /\ now \in Nat /\ timers \in Seq(TimerRec)
  /\ timerIdsFreed \in Seq(Nat) /\ timerIdMax \in Nat
  /\ creating \in [Holders -> {NotCreating} \cup Creation]
  /\ held \in [Holders -> Nat] /\ posted \in [Holders -> Nat]
  /\ outOfMemory \in BOOLEAN

IdsOf(list) == {t.id : t \in Elems(list)}

\* Relations between timers, and between identifiers.
NotAfter == {e \in TimerRec \X TimerRec : e[1].endTime <= e[2].endTime}
Apart == {e \in TimerRec \X TimerRec : e[1].id # e[2].id}
Differ == {e \in Nat \X Nat : e[1] # e[2]}

\* Each identifier is in one place, and none is lost as long as lists can grow.
Accounted(list, freed, max) ==
  /\ Pairwise(list, Apart) /\ Pairwise(freed, Differ)
  /\ IdsOf(list) \cap Elems(freed) = {}
  /\ IdsOf(list) \cup Elems(freed) \subseteq 1..max

ListInv ==
  /\ Pairwise(timers, NotAfter)
  /\ Accounted(timers, timerIdsFreed, timerIdMax)
  /\ ~outOfMemory => 1..timerIdMax \subseteq IdsOf(timers) \cup Elems(timerIdsFreed)

-----------------------------------------------------------------------------
(* The helpers.                                                            *)

\* The range of a list is the set of its elements.
LEMMA RangeElems ==
  ASSUME NEW S, NEW s \in Seq(S)
  PROVE  Range(s) = Elems(s)
  BY DEF Range, Elems

\* The first index where a list stops, if not at its end.
LEMMA FirstIndex ==
  ASSUME NEW n \in Nat, NEW T, n + 1 \in T, NEW k, k = CHOOSE i \in 1..(n + 1) : i \in T /\ \A j \in 1..(i - 1) : j \notin T
  PROVE  k \in 1..(n + 1) /\ k \in T /\ \A j \in 1..(k - 1) : j \notin T
  <1> DEFINE B == T \cap (1..(n + 1))
  <1>1. B \subseteq Nat /\ B # {}
    OBVIOUS
  <1>2. PICK m \in B : \A i \in B : m <= i
    <2> HIDE DEF B
    <2> QED BY <1>1, LeastNatural
  <1>3. m \in 1..(n + 1) /\ m \in T /\ \A j \in 1..(m - 1) : j \notin T
    <2>1. ASSUME NEW j \in 1..(m - 1) PROVE j \notin B /\ j \in 1..(n + 1)
      BY <1>2
    <2> QED BY <1>2, <2>1
  <1> HIDE DEF B
  <1> QED BY <1>3

\* SOPC_SLinkedList_SortedInsert puts one element into the list, and keeps
\* what the list was: sorted, with different identifiers.
LEMMA SortedInsertFacts ==
  ASSUME NEW list \in Seq(TimerRec), NEW t \in TimerRec, Pairwise(list, NotAfter)
  PROVE  /\ SortedInsert(list, t) \in Seq(TimerRec)
         /\ Elems(SortedInsert(list, t)) = Elems(list) \cup {t}
         /\ Pairwise(SortedInsert(list, t), NotAfter)
         /\ Pairwise(list, Apart) /\ t.id \notin IdsOf(list) => Pairwise(SortedInsert(list, t), Apart)
  <1> DEFINE n == Len(list)
             T == {k \in Nat : k = n + 1 \/ t.endTime < list[k].endTime}
             first == CHOOSE k \in 1..(n + 1) : k \in T /\ \A j \in 1..(k - 1) : j \notin T
             a == SubSeq(list, 1, first - 1)
             b == SubSeq(list, first, n)
             o == <<t>>
  <1>1. n \in Nat
    OBVIOUS
  <1>2. first \in 1..(n + 1) /\ first \in T /\ \A j \in 1..(first - 1) : j \notin T
    <2>1. n + 1 \in T
      BY <1>1
    <2> HIDE DEF T, n
    <2> QED BY <1>1, <2>1, FirstIndex
  <1>3. SortedInsert(list, t) = (a \o o) \o b
    <2> DEFINE Later(k) == k = n + 1 \/ t.endTime < list[k].endTime
               f2 == CHOOSE k \in 1..(n + 1) : Later(k) /\ \A j \in 1..(k - 1) : ~Later(j)
    <2>1. \A k \in 1..(n + 1) : (Later(k) /\ \A j \in 1..(k - 1) : ~Later(j)) <=> (k \in T /\ \A j \in 1..(k - 1) : j \notin T)
      BY <1>1
    <2>2. f2 = first
      <3> HIDE DEF Later, T
      <3> QED BY <2>1
    <2>3. SortedInsert(list, t) = InsertAt(list, f2, t)
      BY DEF SortedInsert
    <2> HIDE DEF f2, first
    <2> QED BY <2>2, <2>3 DEF InsertAt
  <1> HIDE DEF first
  <1>4. first - 1 \in 0..n /\ (first - 1) + 1 = first
    BY <1>1, <1>2
  <1>5. /\ a \in Seq(TimerRec) /\ Len(a) = first - 1 /\ \A i \in 1..(first - 1) : a[i] = list[i]
        /\ b \in Seq(TimerRec) /\ Len(b) = n - (first - 1)
        /\ \A i \in 1..(n - (first - 1)) : b[i] = list[first - 1 + i]
        /\ a \o b = list
    <2> DEFINE k == first - 1
    <2>1. /\ SubSeq(list, 1, k) \in Seq(TimerRec) /\ Len(SubSeq(list, 1, k)) = k
          /\ SubSeq(list, k + 1, Len(list)) \in Seq(TimerRec)
          /\ Len(SubSeq(list, k + 1, Len(list))) = Len(list) - k
          /\ \A i \in 1..k : SubSeq(list, 1, k)[i] = list[i]
          /\ \A i \in 1..(Len(list) - k) : SubSeq(list, k + 1, Len(list))[i] = list[k + i]
          /\ SubSeq(list, 1, k) \o SubSeq(list, k + 1, Len(list)) = list
      <3> HIDE DEF k
      <3> QED BY <1>4, SplitSeq, ZenonT(60) DEF k
    <2> QED BY <1>4, <2>1
  <1>6. \A d \in Elems(a) : d \in TimerRec /\ d.endTime <= t.endTime
    <2>1. ASSUME NEW i \in 1..(first - 1) PROVE a[i] \in TimerRec /\ a[i].endTime <= t.endTime
      <3>1. i \in 1..n /\ i \in Nat /\ i # n + 1 /\ i \notin T
        BY <1>1, <1>2
      <3>2. a[i] = list[i] /\ list[i] \in TimerRec
        BY <1>5, <3>1
      <3>3. ~(t.endTime < list[i].endTime)
        BY <3>1
      <3> HIDE DEF a, b, T
      <3> QED BY <3>2, <3>3 DEF TimerRec
    <2> HIDE DEF a, b
    <2> QED BY <1>5, <2>1 DEF Elems
  <1>7. \A e \in Elems(b) : e \in TimerRec /\ t.endTime <= e.endTime
    <2>1. ASSUME NEW i \in 1..(n - (first - 1)) PROVE b[i] \in TimerRec /\ t.endTime <= b[i].endTime
      <3>1. first \in 1..n /\ first # n + 1 /\ first - 1 + i \in 1..n
        BY <1>1, <1>2
      <3>2. b[i] = list[first - 1 + i] /\ list[first - 1 + i] \in TimerRec /\ list[first] \in TimerRec
        BY <1>5, <3>1
      <3>3. t.endTime < list[first].endTime
        BY <1>2, <3>1
      <3>4. list[first].endTime <= list[first - 1 + i].endTime
        <4>1. CASE first < first - 1 + i
          BY <3>1, <4>1 DEF Pairwise, NotAfter
        <4>2. CASE first = first - 1 + i
          BY <3>2, <4>2 DEF TimerRec
        <4> QED BY <1>1, <3>1, <4>1, <4>2
      <3>5. list[first].endTime \in Int /\ list[first - 1 + i].endTime \in Int /\ t.endTime \in Int
        BY <3>2 DEF TimerRec
      <3> HIDE DEF a, b, T
      <3> QED BY <3>2, <3>3, <3>4, <3>5
    <2> HIDE DEF a, b
    <2> QED BY <1>5, <2>1 DEF Elems
  <1> HIDE DEF a, b, T
  <1>8. o \in Seq(TimerRec) /\ Elems(o) = {t} /\ \A R : Pairwise(o, R)
    BY ElemsSmall, PairwiseSmall
  <1> HIDE DEF o
  <1>9. /\ Elems(list) = Elems(a) \cup Elems(b) /\ a \o o \in Seq(TimerRec)
        /\ Elems(a \o o) = Elems(a) \cup {t}
        /\ (a \o o) \o b \in Seq(TimerRec) /\ Elems((a \o o) \o b) = Elems(a \o o) \cup Elems(b)
    <2>0. Elems(a \o b) = Elems(a) \cup Elems(b)
      BY <1>5, ElemsConcat
    <2>1. Elems(list) = Elems(a) \cup Elems(b) /\ Elems(a \o o) = Elems(a) \cup Elems(o)
      BY <1>5, <1>8, <2>0, ElemsConcat
    <2>2. a \o o \in Seq(TimerRec) /\ (a \o o) \o b \in Seq(TimerRec)
      BY <1>5, <1>8
    <2>3. Elems((a \o o) \o b) = Elems(a \o o) \cup Elems(b)
      BY <1>5, <2>2, ElemsConcat, ZenonT(60)
    <2> QED BY <1>8, <2>1, <2>2, <2>3
  <1>10. ASSUME NEW R, Pairwise(list, R), \A d \in Elems(a) : <<d, t>> \in R, \A e \in Elems(b) : <<t, e>> \in R
         PROVE  Pairwise((a \o o) \o b, R)
    <2>1. Pairwise(a, R) /\ Pairwise(b, R) /\ \A d \in Elems(a), e \in Elems(b) : <<d, e>> \in R
      BY <1>5, <1>10, PairwiseSplit
    <2>2. Pairwise(a \o o, R)
      BY <1>5, <1>8, <1>10, <2>1, PairwiseConcat
    <2> QED BY <1>5, <1>9, <1>10, <2>1, <2>2, PairwiseConcat
  <1>11. Pairwise((a \o o) \o b, NotAfter)
    <2>1. \A d \in Elems(a) : <<d, t>> \in NotAfter
      BY <1>6 DEF NotAfter
    <2>2. \A e \in Elems(b) : <<t, e>> \in NotAfter
      BY <1>7 DEF NotAfter
    <2> QED BY <1>10, <2>1, <2>2
  <1>12. ASSUME Pairwise(list, Apart), t.id \notin IdsOf(list) PROVE Pairwise((a \o o) \o b, Apart)
    <2>1. \A d \in Elems(list) : d.id # t.id
      BY <1>12 DEF IdsOf
    <2>2. \A d \in Elems(a) : <<d, t>> \in Apart
      BY <1>6, <1>9, <2>1 DEF Apart
    <2>3. \A e \in Elems(b) : <<t, e>> \in Apart
      BY <1>7, <1>9, <2>1 DEF Apart
    <2> QED BY <1>10, <1>12, <2>2, <2>3
  <1> QED BY <1>3, <1>9, <1>11, <1>12

SortedLists == {s \in Seq(TimerRec) : Pairwise(s, NotAfter)}
Others(list, restarts) ==
  Only(list, {t \in Range(list) : \A n \in 1..Len(restarts) : restarts[n].id # t.id})

\* What the recursion of Reinserted computes.
LEMMA ReinsertedSteps ==
  ASSUME NEW list \in SortedLists, NEW restarts \in Seq(TimerRec)
  PROVE  \E g : /\ g[0] = Others(list, restarts) /\ Reinserted(list, restarts) = g[Len(restarts)]
                /\ \A i \in 1..Len(restarts) : g[i] = SortedInsert(g[i - 1], restarts[i])
  <1> DEFINE n == Len(restarts)
             base == Others(list, restarts)
             Run(g) == g = [i \in 0..n |-> IF i = 0 THEN base ELSE SortedInsert(g[i - 1], restarts[i])]
             c == CHOOSE g : Run(g)
             f == [x \in SortedLists \X (1..n) |-> SortedInsert(x[1], restarts[x[2]])]
  <1>1. n \in Nat /\ \A i \in 1..n : restarts[i] \in TimerRec
    OBVIOUS
  <1>2. base \in SortedLists
    BY OnlyFacts DEF SortedLists, Others
  <1>3. \A p \in SortedLists, i \in 1..n : SortedInsert(p, restarts[i]) \in SortedLists
    BY <1>1, SortedInsertFacts DEF SortedLists
  <1>4. f \in [SortedLists \X (1..n) -> SortedLists]
    BY <1>3
  <1>5. \A p \in SortedLists, i \in 1..n : f[<<p, i>>] = SortedInsert(p, restarts[i])
    OBVIOUS
  <1> HIDE DEF f, n, base
  <1>6. PICK g \in [0..n -> SortedLists] : Stepwise(base, f, g, n)
    BY <1>1, <1>2, <1>4, RecursionTyped
  <1>7. ASSUME NEW i \in 0..n PROVE g[i] = IF i = 0 THEN base ELSE SortedInsert(g[i - 1], restarts[i])
    <2>1. CASE i # 0
      <3>1. i \in 1..n /\ i - 1 \in 0..n
        BY <1>1, <2>1
      <3>2. g[i - 1] \in SortedLists
        BY <1>6, <3>1
      <3> QED BY <1>5, <1>6, <2>1, <3>1, <3>2 DEF Stepwise
    <2> QED BY <1>6, <2>1 DEF Stepwise
  <1>8. Run(g)
    <2>1. g = [i \in 0..n |-> g[i]]
      BY <1>6
    <2> QED BY <1>7, <2>1
  <1>9. Run(c)
    BY <1>8
  <1>10. Reinserted(list, restarts) = c[n]
    BY DEF Reinserted, n, base, Others
  <1> HIDE DEF c
  <1>11. \A i \in 0..n : c[i] = IF i = 0 THEN base ELSE SortedInsert(c[i - 1], restarts[i])
    BY <1>9, Zenon
  <1> HIDE DEF Run
  <1>12. 0 \in 0..n /\ \A i \in 1..n : i \in 0..n /\ i # 0
    BY <1>1
  <1> QED BY <1>10, <1>11, <1>12 DEF n, base

\* The periodic timers that have fired leave the list and are inserted again:
\* the list is sorted, and has the same identifiers.
LEMMA ReinsertedFacts ==
  ASSUME NEW list \in Seq(TimerRec), Pairwise(list, NotAfter), Pairwise(list, Apart),
         NEW restarts \in Seq(TimerRec), Pairwise(restarts, Apart)
  PROVE  LET l == Reinserted(list, restarts)
         IN  /\ l \in Seq(TimerRec) /\ Pairwise(l, NotAfter) /\ Pairwise(l, Apart)
             /\ Elems(l) = {t \in Elems(list) : t.id \notin IdsOf(restarts)} \cup Elems(restarts)
  <1> DEFINE n == Len(restarts)
             base == Others(list, restarts)
             rest == {t \in Elems(list) : t.id \notin IdsOf(restarts)}
             Part(k) == {restarts[i] : i \in 1..k}
             Good(k, s) == /\ s \in Seq(TimerRec) /\ Pairwise(s, NotAfter) /\ Pairwise(s, Apart)
                           /\ Elems(s) = rest \cup Part(k)
  <1>1. n \in Nat /\ \A i \in 1..n : restarts[i] \in TimerRec
    OBVIOUS
  <1>2. base \in Seq(TimerRec) /\ Pairwise(base, NotAfter) /\ Pairwise(base, Apart) /\ Elems(base) = rest
    <2> DEFINE X == {t \in Range(list) : \A i \in 1..Len(restarts) : restarts[i].id # t.id}
    <2>1. Elems(list) \cap X = rest
      BY RangeElems DEF IdsOf, Elems
    <2> HIDE DEF X, rest
    <2>2. /\ Only(list, X) \in Seq(TimerRec) /\ Elems(Only(list, X)) = Elems(list) \cap X
          /\ \A R : Pairwise(list, R) => Pairwise(Only(list, X), R)
      BY OnlyFacts
    <2>3. base = Only(list, X)
      BY DEF Others, X
    <2> HIDE DEF base
    <2> QED BY <2>1, <2>2, <2>3
  <1>3. PICK g : /\ g[0] = base /\ Reinserted(list, restarts) = g[n]
                 /\ \A i \in 1..n : g[i] = SortedInsert(g[i - 1], restarts[i])
    BY ReinsertedSteps DEF SortedLists
  <1> HIDE DEF base, n, Part, rest
  <1> DEFINE T == {k \in Nat : k <= n => Good(k, g[k])}
  <1>4. 0 \in T
    <2>1. Part(0) = {}
      BY DEF Part
    <2> QED BY <1>2, <1>3, <2>1
  <1>5. ASSUME NEW k \in 0..(n - 1), k \in T PROVE k + 1 \in T
    <2>1. k \in Nat /\ k + 1 \in 1..n /\ (k + 1) - 1 = k /\ k + 1 \in Nat /\ k <= n
      BY <1>1
    <2>2. Good(k, g[k])
      BY <1>5, <2>1
    <2> DEFINE e == restarts[k + 1]
    <2>3. g[k + 1] = SortedInsert(g[k], e)
      BY <1>3, <2>1
    <2>4. Part(k + 1) = Part(k) \cup {e}
      <3>1. \A i \in 1..(k + 1) : i \in 1..k \/ i = k + 1
        BY <2>1
      <3>2. k + 1 \in 1..(k + 1) /\ \A i \in 1..k : i \in 1..(k + 1)
        BY <2>1
      <3> QED BY <3>1, <3>2 DEF Part
    <2>5. e \in TimerRec
      BY <1>1, <2>1
    <2>6. e.id \notin IdsOf(g[k])
      <3>1. \A d \in rest : d.id # e.id
        <4>1. e \in Elems(restarts)
          BY <2>1 DEF Elems, n
        <4> QED BY <4>1 DEF rest, IdsOf
      <3>2. \A d \in Part(k) : d.id # e.id
        <4>1. ASSUME NEW i \in 1..k PROVE restarts[i].id # e.id
          <5>1. i \in 1..n /\ i < k + 1
            BY <1>1, <2>1
          <5>2. <<restarts[i], e>> \in Apart
            BY <2>1, <5>1 DEF Pairwise, n
          <5> HIDE DEF e
          <5> QED BY <5>2 DEF Apart
        <4> QED BY <4>1 DEF Part
      <3> QED BY <2>2, <3>1, <3>2 DEF IdsOf
    <2> HIDE DEF e
    <2>7. /\ g[k + 1] \in Seq(TimerRec) /\ Elems(g[k + 1]) = Elems(g[k]) \cup {e}
          /\ Pairwise(g[k + 1], NotAfter) /\ Pairwise(g[k + 1], Apart)
      BY <2>2, <2>3, <2>5, <2>6, SortedInsertFacts
    <2>8. Good(k + 1, g[k + 1])
      BY <2>2, <2>4, <2>7
    <2> QED BY <2>1, <2>8
  <1> HIDE DEF T
  <1>6. \A k \in 0..n : k \in T
    BY <1>1, <1>4, <1>5, InductionTo
  <1>7. n \in 0..n /\ n <= n
    BY <1>1
  <1>8. Good(n, g[n])
    <2> HIDE DEF Good
    <2> QED BY <1>6, <1>7 DEF T
  <1>9. Part(n) = Elems(restarts)
    BY DEF Part, n, Elems
  <1> QED BY <1>3, <1>8, <1>9 DEF rest

\* The walk treats the timers that have expired, and all of them.
LEMMA DueFacts ==
  ASSUME Types, Pairwise(timers, NotAfter)
  PROVE  /\ Due \in Seq(TimerRec) /\ Elems(Due) = {t \in Elems(timers) : t.endTime <= now}
         /\ \A R : Pairwise(timers, R) => Pairwise(Due, R)
  <1> DEFINE n == Len(timers)
             T == {k \in Nat : k = n + 1 \/ timers[k].endTime > now}
             first == CHOOSE k \in 1..(n + 1) : k \in T /\ \A j \in 1..(k - 1) : j \notin T
             a == SubSeq(timers, 1, first - 1)
  <1>1. n \in Nat /\ timers \in Seq(TimerRec) /\ now \in Nat /\ \A i \in 1..n : timers[i] \in TimerRec
    BY DEF Types
  <1>2. first \in 1..(n + 1) /\ first \in T /\ \A j \in 1..(first - 1) : j \notin T
    <2>1. n + 1 \in T
      BY <1>1
    <2> HIDE DEF T, n
    <2> QED BY <1>1, <2>1, FirstIndex
  <1>3. Due = a
    <2> DEFINE Stop(k) == k = n + 1 \/ timers[k].endTime > now
               f2 == CHOOSE k \in 1..(n + 1) : Stop(k) /\ \A j \in 1..(k - 1) : ~Stop(j)
    <2>1. \A k \in 1..(n + 1) : (Stop(k) /\ \A j \in 1..(k - 1) : ~Stop(j)) <=> (k \in T /\ \A j \in 1..(k - 1) : j \notin T)
      BY <1>1
    <2>2. f2 = first
      <3> HIDE DEF Stop, T
      <3> QED BY <2>1
    <2>3. Due = SubSeq(timers, 1, f2 - 1)
      BY DEF Due
    <2> HIDE DEF f2, first
    <2> QED BY <2>2, <2>3
  <1> HIDE DEF first
  <1>4. first - 1 \in 0..n
    BY <1>1, <1>2
  <1>5. a \in Seq(TimerRec) /\ Len(a) = first - 1 /\ \A i \in 1..(first - 1) : a[i] = timers[i]
    <2> DEFINE k == first - 1
    <2>1. /\ SubSeq(timers, 1, k) \in Seq(TimerRec) /\ Len(SubSeq(timers, 1, k)) = k
          /\ \A i \in 1..k : SubSeq(timers, 1, k)[i] = timers[i]
      <3> HIDE DEF k
      <3> QED BY <1>1, <1>4, SplitSeq DEF k
    <2> QED BY <2>1
  <1> HIDE DEF a
  <1>6. ASSUME NEW i \in 1..n PROVE i < first <=> timers[i].endTime <= now
    <2>1. timers[i].endTime \in Int
      BY <1>1 DEF TimerRec
    <2>2. CASE i < first
      <3>1. i \in 1..(first - 1) /\ i \in Nat /\ i # n + 1
        BY <1>1, <1>2, <2>2
      <3> QED BY <1>1, <1>2, <2>1, <2>2, <3>1
    <2>3. CASE ~(i < first)
      <3>1. first \in 1..n /\ first # n + 1 /\ first <= i
        BY <1>1, <1>2, <2>3
      <3>2. timers[first].endTime > now /\ timers[first].endTime \in Int
        BY <1>1, <1>2, <3>1 DEF TimerRec
      <3>3. timers[first].endTime <= timers[i].endTime
        <4>1. CASE first < i
          BY <3>1, <4>1 DEF Pairwise, NotAfter
        <4>2. CASE first = i
          BY <2>1, <4>2
        <4> QED BY <3>1, <4>1, <4>2
      <3> QED BY <1>1, <2>1, <2>3, <3>2, <3>3
    <2> QED BY <2>2, <2>3
  <1>7. \A i \in 1..n : i < first <=> i \in 1..(first - 1)
    BY <1>1, <1>2
  <1>8. Elems(a) = {t \in Elems(timers) : t.endTime <= now}
    <2>1. Elems(a) = {timers[i] : i \in 1..(first - 1)}
      BY <1>5 DEF Elems
    <2>2. \A i \in 1..(first - 1) : i \in 1..n
      BY <1>1, <1>2
    <2> HIDE DEF T
    <2> QED BY <1>6, <1>7, <2>1, <2>2 DEF Elems
  <1>9. ASSUME NEW R, Pairwise(timers, R) PROVE Pairwise(a, R)
    <2>1. \A i \in 1..(first - 1) : i \in 1..n
      BY <1>1, <1>2
    <2> QED BY <1>5, <1>9, <2>1 DEF Pairwise
  <1> QED BY <1>3, <1>5, <1>8, <1>9

\* An expired timer posts one event at least, and a periodic one is restarted.
LEMMA EventsOfType ==
  ASSUME Types, NEW t \in TimerRec, t.endTime <= now
  PROVE  /\ EventsOf(t) \in Nat \ {0}
         /\ Restarted(t) \in TimerRec /\ Restarted(t).id = t.id
  <1>1. t.endTime \in Int /\ t.periodMs \in Nat \ {0} /\ now \in Nat /\ LoopLimit \in Nat \ {0}
    BY EventTimersAssumption DEF TimerRec, Types
  <1> DEFINE q == (now - t.endTime) \div t.periodMs
  <1>2. q \in Nat
    <2>1. now - t.endTime \in Nat
      BY <1>1
    <2> QED BY <1>1, <2>1
  <1> HIDE DEF q
  <1>3. ASSUME NEW x \in Int, NEW y \in Int PROVE Min({x, y}) \in {x, y}
    BY DEF Min
  <1>4. Min({1 + LoopLimit, 1 + q}) \in {1 + LoopLimit, 1 + q}
    BY <1>1, <1>2, <1>3
  <1>5. EventsOf(t) \in Nat \ {0}
    <2>1. EventsOf(t) \in {1, 1 + LoopLimit, 1 + q}
      BY <1>4 DEF EventsOf, q
    <2> QED BY <1>1, <1>2, <2>1
  <1>6. t.endTime + EventsOf(t) * t.periodMs \in Int
    BY <1>1, <1>5
  <1> QED BY <1>5, <1>6 DEF Restarted, TimerRec

\* What the recursion of WithEventsOf computes.
LEMMA PostedSteps ==
  ASSUME Types, NEW treated \in Seq(TimerRec), \A t \in Elems(treated) : EventsOf(t) \in Nat \ {0}
  PROVE  \E g \in [0..Len(treated) -> [Holders -> Nat]] :
           /\ g[0] = posted /\ WithEventsOf(treated) = g[Len(treated)]
           /\ \A i \in 1..Len(treated) :
                g[i] = [g[i - 1] EXCEPT ![treated[i].holder] = @ + EventsOf(treated[i])]
  <1> DEFINE n == Len(treated)
             H == [Holders -> Nat]
             step(p, i) == [p EXCEPT ![treated[i].holder] = @ + EventsOf(treated[i])]
             Run(g) == g = [i \in 0..n |-> IF i = 0 THEN posted ELSE step(g[i - 1], i)]
             c == CHOOSE g : Run(g)
             f == [x \in H \X (1..n) |-> step(x[1], x[2])]
  <1>1. n \in Nat /\ \A i \in 1..n : treated[i].holder \in Holders /\ EventsOf(treated[i]) \in Nat \ {0}
    <2>1. n \in Nat /\ \A i \in 1..n : treated[i] \in TimerRec /\ treated[i] \in Elems(treated)
      BY DEF Elems
    <2> QED BY <2>1 DEF TimerRec
  <1>2. posted \in H
    BY DEF Types
  <1>3. \A p \in H, i \in 1..n : step(p, i) \in H
    BY <1>1
  <1> HIDE DEF step, H
  <1>4. f \in [H \X (1..n) -> H]
    BY <1>3
  <1>5. \A p \in H, i \in 1..n : f[<<p, i>>] = step(p, i)
    OBVIOUS
  <1> HIDE DEF f, n
  <1>6. PICK g \in [0..n -> H] : Stepwise(posted, f, g, n)
    BY <1>1, <1>2, <1>4, RecursionTyped
  <1>7. ASSUME NEW i \in 0..n PROVE g[i] = IF i = 0 THEN posted ELSE step(g[i - 1], i)
    <2>1. CASE i # 0
      <3>1. i \in 1..n /\ i - 1 \in 0..n
        BY <1>1, <2>1
      <3>2. g[i - 1] \in H
        BY <1>6, <3>1
      <3> QED BY <1>5, <1>6, <2>1, <3>1, <3>2 DEF Stepwise
    <2> QED BY <1>6, <2>1 DEF Stepwise
  <1>8. Run(g)
    <2>1. g = [i \in 0..n |-> g[i]]
      BY <1>6
    <2> QED BY <1>7, <2>1
  <1>9. Run(c)
    BY <1>8
  <1>10. WithEventsOf(treated) = c[n]
    BY DEF WithEventsOf, n, step
  <1> HIDE DEF c
  <1>11. \A i \in 0..n : c[i] = IF i = 0 THEN posted ELSE step(c[i - 1], i)
    BY <1>9, Zenon
  <1>12. c = [i \in 0..n |-> c[i]]
    BY <1>9, <1>11
  <1> HIDE DEF Run
  <1>13. 0 \in 0..n /\ \A i \in 1..n : i \in 0..n /\ i # 0
    BY <1>1
  <1> DEFINE T == {k \in Nat : k <= n => c[k] \in H}
  <1>14. 0 \in T
    BY <1>2, <1>11, <1>13
  <1>15. ASSUME NEW k \in 0..(n - 1), k \in T PROVE k + 1 \in T
    <2>1. k + 1 \in 1..n /\ (k + 1) - 1 = k /\ k + 1 \in Nat /\ k <= n
      BY <1>1
    <2>2. c[k] \in H /\ c[k + 1] = step(c[k], k + 1)
      BY <1>11, <1>13, <1>15, <2>1
    <2> QED BY <1>3, <2>1, <2>2
  <1> HIDE DEF T
  <1>16. \A k \in 0..n : k \in T
    BY <1>1, <1>14, <1>15, InductionTo
  <1>17. \A k \in 0..n : c[k] \in H
    BY <1>16 DEF T
  <1>18. c \in [0..n -> H]
    BY <1>12, <1>17
  <1> QED BY <1>10, <1>11, <1>13, <1>18 DEF n, step, H

\* Each timer treated has posted something, and no event is taken back.
LEMMA PostedFacts ==
  ASSUME Types, NEW treated \in Seq(TimerRec), \A t \in Elems(treated) : EventsOf(t) \in Nat \ {0}
  PROVE  /\ WithEventsOf(treated) \in [Holders -> Nat]
         /\ \A t \in Elems(treated) : WithEventsOf(treated)[t.holder] > posted[t.holder]
  <1> DEFINE n == Len(treated)
             More(k, p) == /\ \A h \in Holders : p[h] >= posted[h]
                           /\ \A i \in 1..k : p[treated[i].holder] > posted[treated[i].holder]
  <1>1. PICK g \in [0..n -> [Holders -> Nat]] :
           /\ g[0] = posted /\ WithEventsOf(treated) = g[n]
           /\ \A i \in 1..n : g[i] = [g[i - 1] EXCEPT ![treated[i].holder] = @ + EventsOf(treated[i])]
    BY PostedSteps
  <1>2. n \in Nat /\ \A i \in 1..n : treated[i].holder \in Holders /\ EventsOf(treated[i]) \in Nat \ {0}
    <2>1. n \in Nat /\ \A i \in 1..n : treated[i] \in TimerRec /\ treated[i] \in Elems(treated)
      BY DEF Elems
    <2> QED BY <2>1 DEF TimerRec
  <1>3. posted \in [Holders -> Nat]
    BY DEF Types
  <1> HIDE DEF n
  <1> DEFINE T == {k \in Nat : k <= n => More(k, g[k])}
  <1>4. 0 \in T
    BY <1>1, <1>3
  <1>5. ASSUME NEW k \in 0..(n - 1), k \in T PROVE k + 1 \in T
    <2>1. k \in Nat /\ k + 1 \in 1..n /\ (k + 1) - 1 = k /\ k + 1 \in Nat /\ k <= n /\ k \in 0..n
      BY <1>2
    <2>2. More(k, g[k])
      BY <1>5, <2>1
    <2> DEFINE t == treated[k + 1]
    <2>3. g[k] \in [Holders -> Nat] /\ t.holder \in Holders /\ EventsOf(t) \in Nat \ {0}
      BY <1>1, <1>2, <2>1
    <2>4. g[k + 1] = [g[k] EXCEPT ![t.holder] = @ + EventsOf(t)]
      BY <1>1, <2>1
    <2> HIDE DEF t
    <2>5. \A h \in Holders : g[k + 1][h] >= g[k][h] /\ g[k][h] \in Nat /\ posted[h] \in Nat /\ g[k + 1][h] \in Nat
      BY <1>3, <2>3, <2>4
    <2>6. g[k + 1][t.holder] > g[k][t.holder]
      BY <2>3, <2>4
    <2>7. \A h \in Holders : g[k + 1][h] >= posted[h]
      BY <2>2, <2>5
    <2>8. ASSUME NEW i \in 1..(k + 1) PROVE g[k + 1][treated[i].holder] > posted[treated[i].holder]
      <3>1. CASE i \in 1..k
        <4>1. treated[i].holder \in Holders
          BY <1>2, <2>1, <3>1
        <4>2. g[k][treated[i].holder] > posted[treated[i].holder]
          BY <2>2, <3>1
        <4> QED BY <2>5, <4>1, <4>2
      <3>2. CASE i = k + 1
        BY <2>2, <2>3, <2>5, <2>6, <3>2 DEF t
      <3> QED BY <2>1, <3>1, <3>2
    <2> QED BY <2>1, <2>7, <2>8
  <1> HIDE DEF T
  <1>6. \A k \in 0..n : k \in T
    BY <1>2, <1>4, <1>5, InductionTo
  <1>7. n \in 0..n /\ n <= n
    BY <1>2
  <1>8. More(n, g[n])
    <2> HIDE DEF More
    <2> QED BY <1>6, <1>7 DEF T
  <1>9. g[n] \in [Holders -> Nat]
    BY <1>1, <1>7
  <1> QED BY <1>1, <1>8, <1>9 DEF Elems, n

-----------------------------------------------------------------------------
(* The parts of an evaluation.                                             *)

Treated(untouched) == Only(Due, Range(Due) \ untouched)
Restarts(treated, lost) == Only(Restarting(treated), Range(Restarting(treated)) \ lost)
Gone(treated, lost) == Only(Restarting(treated), lost)
Kept(treated, lost) == Only(timers, Range(timers) \ (Range(Triggered(treated)) \cup lost))
Renewed(restarts) == [n \in 1..Len(restarts) |-> Restarted(restarts[n])]

\* The timers in each part.
LEMMA PartsFacts ==
  ASSUME Types, Pairwise(timers, NotAfter), Pairwise(timers, Apart),
         NEW untouched, NEW lost, lost \subseteq Elems(Restarting(Treated(untouched)))
  PROVE  LET d == Treated(untouched)
             E == Elems(timers)
         IN  /\ \A s \in {d, Triggered(d), Restarts(d, lost), Gone(d, lost), Kept(d, lost)} :
                  s \in Seq(TimerRec) /\ Pairwise(s, NotAfter) /\ Pairwise(s, Apart) /\ Elems(s) \subseteq E
             /\ Elems(d) = {t \in E : t.endTime <= now} \ untouched
             /\ Elems(Triggered(d)) = {t \in Elems(d) : ~t.isPeriodicTimer}
             /\ Elems(Restarting(d)) = {t \in Elems(d) : t.isPeriodicTimer}
             /\ Elems(Restarts(d, lost)) = Elems(Restarting(d)) \ lost
             /\ Elems(Gone(d, lost)) = lost
             /\ Elems(Kept(d, lost)) = E \ (Elems(Triggered(d)) \cup lost)
  <1> DEFINE d == Treated(untouched)
             E == Elems(timers)
             Good(s) == s \in Seq(TimerRec) /\ Pairwise(s, NotAfter) /\ Pairwise(s, Apart) /\ Elems(s) \subseteq E
  <1>1. ASSUME NEW s, Good(s), NEW X
        PROVE  Good(Only(s, X)) /\ Elems(Only(s, X)) = Elems(s) \cap X /\ Range(s) = Elems(s)
    <2> HIDE DEF E
    <2>1. /\ Only(s, X) \in Seq(TimerRec) /\ Elems(Only(s, X)) = Elems(s) \cap X
          /\ Pairwise(Only(s, X), NotAfter) /\ Pairwise(Only(s, X), Apart) /\ Range(s) = Elems(s)
      BY <1>1, OnlyFacts, RangeElems
    <2> QED BY <1>1, <2>1
  <1>2. Good(timers)
    BY DEF Types
  <1>3. Good(Due) /\ Elems(Due) = {t \in E : t.endTime <= now}
    BY DueFacts
  <1> HIDE DEF Good
  <1>4. Good(d) /\ Elems(d) = Elems(Due) \ untouched
    <2>1. /\ Good(d) /\ Elems(d) = Elems(Due) \cap (Range(Due) \ untouched)
          /\ Range(Due) = Elems(Due)
      BY <1>1, <1>3 DEF Treated
    <2> QED BY <2>1
  <1> HIDE DEF d, E
  <1>5. Good(Triggered(d)) /\ Elems(Triggered(d)) = {t \in Elems(d) : ~t.isPeriodicTimer}
    <2>1. /\ Good(Triggered(d)) /\ Range(d) = Elems(d)
          /\ Elems(Triggered(d)) = Elems(d) \cap {t \in Range(d) : ~t.isPeriodicTimer}
      BY <1>1, <1>4 DEF Triggered
    <2> QED BY <2>1
  <1>6. Good(Restarting(d)) /\ Elems(Restarting(d)) = {t \in Elems(d) : t.isPeriodicTimer}
    <2>1. /\ Good(Restarting(d)) /\ Range(d) = Elems(d)
          /\ Elems(Restarting(d)) = Elems(d) \cap {t \in Range(d) : t.isPeriodicTimer}
      BY <1>1, <1>4 DEF Restarting
    <2> QED BY <2>1
  <1>7. Good(Restarts(d, lost)) /\ Elems(Restarts(d, lost)) = Elems(Restarting(d)) \ lost
    <2>1. /\ Good(Restarts(d, lost)) /\ Range(Restarting(d)) = Elems(Restarting(d))
          /\ Elems(Restarts(d, lost)) = Elems(Restarting(d)) \cap (Range(Restarting(d)) \ lost)
      BY <1>1, <1>6 DEF Restarts
    <2> QED BY <2>1
  <1>8. Good(Gone(d, lost)) /\ Elems(Gone(d, lost)) = lost
    <2>1. Good(Gone(d, lost)) /\ Elems(Gone(d, lost)) = Elems(Restarting(d)) \cap lost
      BY <1>1, <1>6 DEF Gone
    <2>2. lost \subseteq Elems(Restarting(d))
      BY DEF d
    <2> QED BY <2>1, <2>2
  <1>9. Good(Kept(d, lost)) /\ Elems(Kept(d, lost)) = E \ (Elems(Triggered(d)) \cup lost)
    <2>0. Range(Triggered(d)) = Elems(Triggered(d))
      BY <1>1, <1>5
    <2>1. /\ Good(Kept(d, lost)) /\ Range(timers) = Elems(timers)
          /\ Elems(Kept(d, lost)) = Elems(timers) \cap (Range(timers) \ (Range(Triggered(d)) \cup lost))
      BY <1>1, <1>2 DEF Kept
    <2> QED BY <2>0, <2>1 DEF E
  <1> QED BY <1>3, <1>4, <1>5, <1>6, <1>7, <1>8, <1>9 DEF d, E, Good

\* The identifiers of a list of timers.
LEMMA IdsFacts ==
  ASSUME NEW s \in Seq(TimerRec), Pairwise(s, Apart)
  PROVE  Ids(s) \in Seq(Nat) /\ Elems(Ids(s)) = IdsOf(s) /\ Pairwise(Ids(s), Differ)
  <1>1. Len(s) \in Nat /\ \A i \in 1..Len(s) : s[i] \in TimerRec /\ s[i].id \in Nat
    <2>1. Len(s) \in Nat /\ \A i \in 1..Len(s) : s[i] \in TimerRec
      OBVIOUS
    <2> QED BY <2>1 DEF TimerRec
  <1>2. Ids(s) \in Seq(Nat) /\ Len(Ids(s)) = Len(s) /\ \A i \in 1..Len(s) : Ids(s)[i] = s[i].id
    BY <1>1 DEF Ids
  <1>3. Elems(Ids(s)) = IdsOf(s)
    BY <1>2 DEF Elems, IdsOf
  <1>4. Pairwise(Ids(s), Differ)
    <2>1. ASSUME NEW i \in 1..Len(s), NEW j \in 1..Len(s), i < j PROVE <<s[i].id, s[j].id>> \in Differ
      <3>1. <<s[i], s[j]>> \in Apart
        BY <2>1 DEF Pairwise
      <3>2. s[i].id # s[j].id
        BY <3>1 DEF Apart
      <3> QED BY <1>1, <3>2 DEF Differ
    <2> QED BY <1>2, <2>1 DEF Pairwise
  <1> QED BY <1>2, <1>3, <1>4

\* Two lists of identifiers one after the other.
LEMMA DifferConcat ==
  ASSUME NEW s \in Seq(Nat), NEW t \in Seq(Nat), Pairwise(s, Differ), Pairwise(t, Differ),
         Elems(s) \cap Elems(t) = {}
  PROVE  s \o t \in Seq(Nat) /\ Elems(s \o t) = Elems(s) \cup Elems(t) /\ Pairwise(s \o t, Differ)
  <1>1. s \o t \in Seq(Nat) /\ Elems(s) \subseteq Nat /\ Elems(t) \subseteq Nat
    BY ElemsType
  <1>2. \A d \in Elems(s), e \in Elems(t) : <<d, e>> \in Differ
    BY <1>1 DEF Differ
  <1> QED BY <1>1, <1>2, ElemsConcat, PairwiseConcat

\* Identifiers given back wait after the others; some may be lost when the
\* list cannot grow (SOPC_Internal_EventTimer_Free_WithoutLock).
LEMMA GiveBackFacts ==
  ASSUME Types, NEW ids \in Seq(Nat), Pairwise(ids, Differ), Pairwise(timerIdsFreed, Differ),
         Elems(timerIdsFreed) \cap Elems(ids) = {}, GiveBack(ids)
  PROVE  /\ timerIdsFreed' \in Seq(Nat) /\ Pairwise(timerIdsFreed', Differ)
         /\ Elems(timerIdsFreed') \subseteq Elems(timerIdsFreed) \cup Elems(ids)
         /\ ~outOfMemory => Elems(timerIdsFreed') = Elems(timerIdsFreed) \cup Elems(ids)
  <1>1. PICK leaked \in MayFail(Range(ids)) : timerIdsFreed' = timerIdsFreed \o Only(ids, Range(ids) \ leaked)
    BY DEF GiveBack
  <1> DEFINE o == Only(ids, Range(ids) \ leaked)
  <1>2. o \in Seq(Nat) /\ Elems(o) = Elems(ids) \ leaked /\ Pairwise(o, Differ)
    <2>1. Range(ids) = Elems(ids)
      BY RangeElems
    <2>2. /\ o \in Seq(Nat) /\ Elems(o) = Elems(ids) \cap (Range(ids) \ leaked)
          /\ Pairwise(o, Differ)
      BY OnlyFacts
    <2> HIDE DEF o
    <2> QED BY <2>1, <2>2
  <1>3. ~outOfMemory => leaked = {}
    BY DEF MayFail
  <1>4. timerIdsFreed \in Seq(Nat) /\ Elems(timerIdsFreed) \cap Elems(o) = {}
    BY <1>2 DEF Types
  <1>5. timerIdsFreed' = timerIdsFreed \o o
    BY <1>1
  <1> HIDE DEF o
  <1>6. /\ timerIdsFreed' \in Seq(Nat) /\ Pairwise(timerIdsFreed', Differ)
        /\ Elems(timerIdsFreed') = Elems(timerIdsFreed) \cup Elems(o)
    BY <1>2, <1>4, <1>5, DifferConcat
  <1> QED BY <1>2, <1>3, <1>6

\* The restarted timers.
LEMMA RenewedFacts ==
  ASSUME Types, NEW r \in Seq(TimerRec), Pairwise(r, Apart), \A t \in Elems(r) : t.endTime <= now
  PROVE  Renewed(r) \in Seq(TimerRec) /\ Pairwise(Renewed(r), Apart) /\ IdsOf(Renewed(r)) = IdsOf(r)
  <1> DEFINE w == Renewed(r)
  <1>1. Len(r) \in Nat /\ \A i \in 1..Len(r) : r[i] \in TimerRec /\ r[i] \in Elems(r)
    BY DEF Elems
  <1>2. \A i \in 1..Len(r) : Restarted(r[i]) \in TimerRec /\ Restarted(r[i]).id = r[i].id
    BY <1>1, EventsOfType
  <1>3. w \in Seq(TimerRec) /\ Len(w) = Len(r) /\ \A i \in 1..Len(r) : w[i] = Restarted(r[i])
    BY <1>1, <1>2 DEF Renewed
  <1> HIDE DEF w
  <1>4. \A i \in 1..Len(r) : w[i] \in TimerRec /\ w[i].id = r[i].id
    BY <1>2, <1>3
  <1>5. IdsOf(w) = IdsOf(r)
    BY <1>3, <1>4 DEF IdsOf, Elems
  <1>6. Pairwise(w, Apart)
    <2>1. ASSUME NEW i \in 1..Len(r), NEW j \in 1..Len(r), i < j PROVE <<w[i], w[j]>> \in Apart
      <3>1. <<r[i], r[j]>> \in Apart
        BY <2>1 DEF Pairwise
      <3>2. r[i].id # r[j].id
        BY <3>1 DEF Apart
      <3> QED BY <1>4, <3>2 DEF Apart
    <2> QED BY <1>3, <2>1 DEF Pairwise
  <1> QED BY <1>3, <1>5, <1>6 DEF w

\* Timers of a list whose identifiers differ are known by them.
LEMMA SameIdSame ==
  ASSUME NEW s \in Seq(TimerRec), Pairwise(s, Apart), NEW d \in Elems(s), NEW e \in Elems(s), d.id = e.id
  PROVE  d = e
  <1>1. PICK i \in 1..Len(s) : d = s[i]
    BY DEF Elems
  <1>2. PICK j \in 1..Len(s) : e = s[j]
    BY DEF Elems
  <1>3. i < j => <<d, e>> \in Apart
    BY <1>1, <1>2 DEF Pairwise
  <1>4. j < i => <<e, d>> \in Apart
    BY <1>1, <1>2 DEF Pairwise
  <1>5. ~(i < j) /\ ~(j < i)
    BY <1>3, <1>4 DEF Apart
  <1>6. i = j
    BY <1>5
  <1> QED BY <1>1, <1>2, <1>6

\* An evaluation keeps the list sorted, and moves the identifiers of the
\* timers that it frees, and of no other, to the freed ones.
LEMMA EvaluationLists ==
  ASSUME Types, ListInv, NEW untouched, NEW lost, NEW d, d = Treated(untouched),
         lost \subseteq Elems(Restarting(d)),
         timers' = Reinserted(Kept(d, lost), Renewed(Restarts(d, lost))),
         GiveBack(Ids(Triggered(d)) \o Ids(Gone(d, lost))),
         timerIdMax' = timerIdMax, outOfMemory' = outOfMemory
  PROVE  timers' \in Seq(TimerRec) /\ timerIdsFreed' \in Seq(Nat) /\ ListInv'
  <1> DEFINE E == Elems(timers)
             once == Triggered(d)
             r == Restarts(d, lost)
             k == Kept(d, lost)
             g == Gone(d, lost)
             I(X) == {t.id : t \in X}
  <1>1. /\ \A s \in {d, once, r, g, k} :
             s \in Seq(TimerRec) /\ Pairwise(s, NotAfter) /\ Pairwise(s, Apart) /\ Elems(s) \subseteq E
        /\ Elems(d) = {t \in E : t.endTime <= now} \ untouched
        /\ Elems(once) = {t \in Elems(d) : ~t.isPeriodicTimer}
        /\ Elems(Restarting(d)) = {t \in Elems(d) : t.isPeriodicTimer}
        /\ Elems(r) = Elems(Restarting(d)) \ lost
        /\ Elems(g) = lost
        /\ Elems(k) = E \ (Elems(once) \cup lost)
    BY PartsFacts DEF ListInv, Accounted
  <1>2. /\ Pairwise(timers, Apart) /\ Pairwise(timerIdsFreed, Differ)
        /\ IdsOf(timers) \cap Elems(timerIdsFreed) = {}
        /\ IdsOf(timers) \cup Elems(timerIdsFreed) \subseteq 1..timerIdMax
        /\ ~outOfMemory => 1..timerIdMax \subseteq IdsOf(timers) \cup Elems(timerIdsFreed)
    BY DEF ListInv, Accounted
  <1>3. \A a, b \in E : a.id = b.id => a = b
    BY <1>2, SameIdSame DEF Types
  <1> HIDE DEF E, once, r, k, g
  <1>4. \A t \in Elems(r) : t.endTime <= now
    BY <1>1
  <1> DEFINE w == Renewed(r)
  <1>5. w \in Seq(TimerRec) /\ Pairwise(w, Apart) /\ IdsOf(w) = IdsOf(r)
    BY <1>1, <1>4, RenewedFacts
  <1> HIDE DEF w
  <1>6. /\ timers' \in Seq(TimerRec) /\ Pairwise(timers', NotAfter) /\ Pairwise(timers', Apart)
        /\ Elems(timers') = {t \in Elems(k) : t.id \notin IdsOf(w)} \cup Elems(w)
    <2>1. timers' = Reinserted(k, w)
      BY DEF k, w, r
    <2>2. k \in Seq(TimerRec) /\ Pairwise(k, NotAfter) /\ Pairwise(k, Apart)
      BY <1>1
    <2>3. LET l == Reinserted(k, w)
          IN  /\ l \in Seq(TimerRec) /\ Pairwise(l, NotAfter) /\ Pairwise(l, Apart)
              /\ Elems(l) = {t \in Elems(k) : t.id \notin IdsOf(w)} \cup Elems(w)
      BY <1>5, <2>2, ReinsertedFacts
    <2> QED BY <2>1, <2>3
  <1>7. IdsOf(timers') = I({t \in Elems(k) : t.id \notin I(Elems(r))}) \cup I(Elems(r))
    <2>1. IdsOf(w) = I(Elems(r)) /\ IdsOf(w) = I(Elems(w))
      BY <1>5 DEF IdsOf
    <2> QED BY <1>6, <2>1 DEF IdsOf
  <1>8. I(Elems(once)) \cap I(lost) = {}
    BY <1>1, <1>3
  <1>9. IdsOf(timers') \cap (I(Elems(once)) \cup I(lost)) = {}
    <2>1. ASSUME NEW a \in Elems(k) \cup Elems(r), NEW b \in Elems(once) \cup lost PROVE a.id # b.id
      <3>1. a \in E /\ b \in E
        BY <1>1
      <3>2. a # b
        BY <1>1
      <3> QED BY <1>3, <3>1, <3>2
    <2> QED BY <1>7, <2>1
  <1>10. IdsOf(timers) = IdsOf(timers') \cup I(Elems(once)) \cup I(lost)
    <2>1. IdsOf(timers) = I(E)
      BY DEF IdsOf, E
    <2>2. E = Elems(k) \cup Elems(r) \cup Elems(once) \cup lost
      BY <1>1
    <2> QED BY <1>7, <2>1, <2>2
  <1> DEFINE ids == Ids(once) \o Ids(g)
  <1>11. ids \in Seq(Nat) /\ Elems(ids) = I(Elems(once)) \cup I(lost) /\ Pairwise(ids, Differ)
    <2>1. Ids(once) \in Seq(Nat) /\ Elems(Ids(once)) = I(Elems(once)) /\ Pairwise(Ids(once), Differ)
      BY <1>1, IdsFacts DEF IdsOf
    <2>2. Ids(g) \in Seq(Nat) /\ Elems(Ids(g)) = I(lost) /\ Pairwise(Ids(g), Differ)
      BY <1>1, IdsFacts DEF IdsOf
    <2> QED BY <1>8, <2>1, <2>2, DifferConcat
  <1> HIDE DEF ids, I
  <1>12. /\ timerIdsFreed' \in Seq(Nat) /\ Pairwise(timerIdsFreed', Differ)
         /\ Elems(timerIdsFreed') \subseteq Elems(timerIdsFreed) \cup Elems(ids)
         /\ ~outOfMemory => Elems(timerIdsFreed') = Elems(timerIdsFreed) \cup Elems(ids)
    <2>1. GiveBack(ids)
      BY DEF ids, once, g
    <2>2. Elems(timerIdsFreed) \cap Elems(ids) = {}
      BY <1>2, <1>10, <1>11
    <2> QED BY <1>2, <1>11, <2>1, <2>2, GiveBackFacts
  <1>13. Accounted(timers, timerIdsFreed, timerIdMax)'
    <2>1. IdsOf(timers') \cap Elems(timerIdsFreed') = {}
      BY <1>2, <1>9, <1>10, <1>11, <1>12
    <2>2. IdsOf(timers') \cup Elems(timerIdsFreed') \subseteq 1..timerIdMax'
      BY <1>2, <1>10, <1>11, <1>12
    <2> QED BY <1>6, <1>12, <2>1, <2>2 DEF Accounted
  <1>14. ~outOfMemory' => 1..timerIdMax' \subseteq IdsOf(timers') \cup Elems(timerIdsFreed')
    BY <1>2, <1>10, <1>11, <1>12
  <1> QED BY <1>6, <1>12, <1>13, <1>14 DEF ListInv

-----------------------------------------------------------------------------
(* The other functions.                                                    *)

FreedRest == IF timerIdsFreed = <<>> THEN <<>> ELSE Tail(timerIdsFreed)
MaxWith(id) == IF timerIdsFreed = <<>> THEN id ELSE timerIdMax

\* A fresh identifier belongs to no timer, and is taken out of the freed ones
\* (SOPC_Internal_GetFreshTimerId_WithoutLock).
LEMMA FreshFacts ==
  ASSUME Types, ListInv, NEW id, id = FreshTimerId, id # 0
  PROVE  /\ id \in Nat /\ id \notin IdsOf(timers)
         /\ FreedRest \in Seq(Nat) /\ Pairwise(FreedRest, Differ)
         /\ id \notin Elems(FreedRest) /\ Elems(timerIdsFreed) \subseteq Elems(FreedRest) \cup {id}
         /\ Elems(FreedRest) \subseteq Elems(timerIdsFreed)
         /\ MaxWith(id) \in Nat /\ 1..MaxWith(id) = 1..timerIdMax \cup {id}
         /\ TakeFreshTimerId => timerIdsFreed' = FreedRest /\ timerIdMax' = MaxWith(id)
  <1>1. /\ Pairwise(timerIdsFreed, Differ) /\ IdsOf(timers) \cap Elems(timerIdsFreed) = {}
        /\ IdsOf(timers) \cup Elems(timerIdsFreed) \subseteq 1..timerIdMax
        /\ timerIdsFreed \in Seq(Nat) /\ timerIdMax \in Nat
    BY DEF ListInv, Accounted, Types
  <1>2. CASE timerIdsFreed # <<>>
    <2>1. id = Head(timerIdsFreed) /\ FreedRest = Tail(timerIdsFreed) /\ MaxWith(id) = timerIdMax
      BY <1>2 DEF FreshTimerId, FreedRest, MaxWith
    <2>2. id \in Elems(timerIdsFreed) /\ Elems(timerIdsFreed) = {id} \cup Elems(FreedRest)
      BY <1>1, <1>2, <2>1, ElemsTail
    <2>3. FreedRest \in Seq(Nat)
      BY <1>1, <1>2, <2>1
    <2>4. Pairwise(FreedRest, Differ) /\ \A e \in Elems(FreedRest) : <<id, e>> \in Differ
      BY <1>1, <1>2, <2>1, PairwiseTail
    <2>5. id \notin Elems(FreedRest)
      BY <2>4 DEF Differ
    <2>6. id \in 1..timerIdMax
      BY <1>1, <2>2
    <2>7. TakeFreshTimerId => timerIdsFreed' = FreedRest /\ timerIdMax' = MaxWith(id)
      BY <1>2, <2>1 DEF TakeFreshTimerId
    <2> QED BY <1>1, <2>1, <2>2, <2>3, <2>4, <2>5, <2>6, <2>7
  <1>3. CASE timerIdsFreed = <<>>
    <2>1. /\ timerIdMax < UINT32_MAX /\ id = timerIdMax + 1 /\ FreedRest = <<>>
          /\ MaxWith(id) = timerIdMax + 1
      BY <1>3 DEF FreshTimerId, FreedRest, MaxWith
    <2>2. <<>> \in Seq(Nat) /\ Elems(<<>>) = {} /\ Pairwise(<<>>, Differ)
      BY DEF Elems, Pairwise
    <2>3. 1..(timerIdMax + 1) = 1..timerIdMax \cup {timerIdMax + 1} /\ timerIdMax + 1 \notin 1..timerIdMax
      BY <1>1
    <2>4. TakeFreshTimerId => timerIdsFreed' = FreedRest /\ timerIdMax' = MaxWith(id)
      BY <1>3, <2>1 DEF TakeFreshTimerId
    <2> QED BY <1>1, <1>3, <2>1, <2>2, <2>3, <2>4
  <1> QED BY <1>2, <1>3

\* What may be written of the two lists, and of the largest identifier.
ListTypes == timers \in Seq(TimerRec) /\ timerIdsFreed \in Seq(Nat) /\ timerIdMax \in Nat

\* A timer is created, or not.
LEMMA CreateLists ==
  ASSUME Types, ListInv, NEW h \in Holders, Create(h)
  PROVE  ListTypes' /\ ListInv'
  <1> DEFINE id == FreshTimerId
             c == creating[h]
             t == Timer(id, h, c.endTime, c.periodMs)
  <1>1. /\ Pairwise(timers, NotAfter) /\ Pairwise(timers, Apart)
        /\ IdsOf(timers) \cap Elems(timerIdsFreed) = {}
        /\ IdsOf(timers) \cup Elems(timerIdsFreed) \subseteq 1..timerIdMax
        /\ ~outOfMemory => 1..timerIdMax \subseteq IdsOf(timers) \cup Elems(timerIdsFreed)
        /\ timers \in Seq(TimerRec) /\ outOfMemory' = outOfMemory
    BY DEF ListInv, Accounted, Types, Create
  <1>2. CASE id # 0 /\ TakeFreshTimerId /\ timers' = SortedInsert(timers, t)
    <2>0. TakeFreshTimerId /\ id # 0
      BY <1>2
    <2>1. /\ id \in Nat /\ id \notin IdsOf(timers)
          /\ timerIdsFreed' \in Seq(Nat) /\ Pairwise(timerIdsFreed', Differ)
          /\ id \notin Elems(timerIdsFreed') /\ Elems(timerIdsFreed) \subseteq Elems(timerIdsFreed') \cup {id}
          /\ Elems(timerIdsFreed') \subseteq Elems(timerIdsFreed)
          /\ timerIdMax' \in Nat /\ 1..timerIdMax' = 1..timerIdMax \cup {id}
      <3> HIDE DEF id
      <3> QED BY <2>0, FreshFacts DEF id
    <2>2. t \in TimerRec /\ t.id = id
      <3>1. c \in Creation
        BY DEF Create, Types
      <3>2. c.endTime \in Int /\ c.periodMs \in Nat \ {0}
        BY <3>1 DEF Creation
      <3> HIDE DEF id, c
      <3> QED BY <2>1, <3>2 DEF Timer, TimerRec
    <2> HIDE DEF t, id
    <2>3. /\ timers' \in Seq(TimerRec) /\ Elems(timers') = Elems(timers) \cup {t}
          /\ Pairwise(timers', NotAfter) /\ Pairwise(timers', Apart)
      BY <1>1, <1>2, <2>1, <2>2, SortedInsertFacts
    <2>4. IdsOf(timers') = IdsOf(timers) \cup {id}
      BY <2>2, <2>3 DEF IdsOf
    <2>5. Accounted(timers, timerIdsFreed, timerIdMax)'
      <3>1. IdsOf(timers') \cap Elems(timerIdsFreed') = {}
        BY <1>1, <2>1, <2>4
      <3>2. IdsOf(timers') \cup Elems(timerIdsFreed') \subseteq 1..timerIdMax'
        BY <1>1, <2>1, <2>4
      <3> QED BY <2>1, <2>3, <3>1, <3>2 DEF Accounted
    <2>6. ~outOfMemory' => 1..timerIdMax' \subseteq IdsOf(timers') \cup Elems(timerIdsFreed')
      BY <1>1, <2>1, <2>4
    <2> QED BY <2>1, <2>3, <2>5, <2>6 DEF ListTypes, ListInv
  <1>3. CASE UNCHANGED <<timers, timerIdsFreed, timerIdMax>>
    BY <1>1, <1>3 DEF ListTypes, ListInv, Accounted, Types, IdsOf
  <1>4. CASE /\ id # 0 /\ outOfMemory /\ timerIdMax' = MaxWith(id) /\ timers' = timers
             /\ timerIdsFreed' \in {FreedRest, Append(FreedRest, id)}
    <2>1. /\ id \in Nat /\ id \notin IdsOf(timers)
          /\ FreedRest \in Seq(Nat) /\ Pairwise(FreedRest, Differ)
          /\ id \notin Elems(FreedRest) /\ Elems(FreedRest) \subseteq Elems(timerIdsFreed)
          /\ timerIdMax' \in Nat /\ 1..timerIdMax' = 1..timerIdMax \cup {id}
      <3>1. id # 0 /\ timerIdMax' = MaxWith(id)
        BY <1>4
      <3> HIDE DEF id
      <3> QED BY <3>1, FreshFacts DEF id
    <2> HIDE DEF id
    <2>2. /\ timerIdsFreed' \in Seq(Nat) /\ Pairwise(timerIdsFreed', Differ)
          /\ Elems(timerIdsFreed') \subseteq Elems(FreedRest) \cup {id}
      <3>1. CASE timerIdsFreed' = FreedRest
        BY <2>1, <3>1
      <3>2. CASE timerIdsFreed' = Append(FreedRest, id)
        <4>1. Elems(FreedRest) \subseteq Nat
          BY <2>1, ElemsType
        <4>2. \A e \in Elems(FreedRest) : <<e, id>> \in Differ
          BY <2>1, <4>1 DEF Differ
        <4>3. Append(FreedRest, id) \in Seq(Nat)
          BY <2>1
        <4> QED BY <2>1, <3>2, <4>2, <4>3, ElemsAppend, PairwiseAppend
      <3> QED BY <1>4, <3>1, <3>2
    <2>3. Accounted(timers, timerIdsFreed, timerIdMax)'
      <3>1. timers' = timers
        BY <1>4
      <3>2. IdsOf(timers') \cap Elems(timerIdsFreed') = {}
        BY <1>1, <2>1, <2>2, <3>1
      <3>3. IdsOf(timers') \cup Elems(timerIdsFreed') \subseteq 1..timerIdMax'
        BY <1>1, <2>1, <2>2, <3>1
      <3> QED BY <1>1, <2>2, <3>1, <3>2, <3>3 DEF Accounted
    <2> QED BY <1>1, <1>4, <2>1, <2>2, <2>3 DEF ListTypes, ListInv
  <1> QED BY <1>2, <1>3, <1>4 DEF Create, MaxWith, FreedRest

\* The timer that holds the identifier is removed, if there is one.
LEMMA CancelLists ==
  ASSUME Types, ListInv, NEW h \in Holders, Cancel(h)
  PROVE  ListTypes' /\ ListInv'
  <1> DEFINE id == held[h]
             X == {t \in Range(timers) : t.id # id}
  <1>1. /\ Pairwise(timers, NotAfter) /\ Pairwise(timers, Apart) /\ Pairwise(timerIdsFreed, Differ)
        /\ IdsOf(timers) \cap Elems(timerIdsFreed) = {}
        /\ IdsOf(timers) \cup Elems(timerIdsFreed) \subseteq 1..timerIdMax
        /\ ~outOfMemory => 1..timerIdMax \subseteq IdsOf(timers) \cup Elems(timerIdsFreed)
        /\ timers \in Seq(TimerRec) /\ timerIdsFreed \in Seq(Nat) /\ timerIdMax \in Nat /\ id \in Nat
    BY DEF ListInv, Accounted, Types
  <1>2. /\ timers' = Only(timers, X) /\ timerIdMax' = timerIdMax /\ outOfMemory' = outOfMemory
        /\ HasId(timers, id) => GiveBack(<<id>>)
        /\ ~HasId(timers, id) => timerIdsFreed' = timerIdsFreed
    BY DEF Cancel, WithoutId
  <1>3. /\ timers' \in Seq(TimerRec) /\ Elems(timers') = Elems(timers) \cap X
        /\ Pairwise(timers', NotAfter) /\ Pairwise(timers', Apart)
    BY <1>1, <1>2, OnlyFacts
  <1>4. HasId(timers, id) <=> id \in IdsOf(timers)
    BY DEF HasId, IdsOf, Elems
  <1>5. Elems(timers') = {t \in Elems(timers) : t.id # id}
    BY <1>1, <1>3, RangeElems
  <1> HIDE DEF X, id
  <1>6. IdsOf(timers') = IdsOf(timers) \ {id}
    BY <1>5 DEF IdsOf
  <1>7. CASE HasId(timers, id)
    <2> DEFINE o == <<id>>
    <2>1. o \in Seq(Nat) /\ Elems(o) = {id} /\ Pairwise(o, Differ)
      BY <1>1, ElemsSmall, PairwiseSmall
    <2>2. GiveBack(o)
      BY <1>2, <1>7
    <2> HIDE DEF o
    <2>3. Elems(timerIdsFreed) \cap Elems(o) = {}
      BY <1>1, <1>4, <1>7, <2>1
    <2>4. /\ timerIdsFreed' \in Seq(Nat) /\ Pairwise(timerIdsFreed', Differ)
          /\ Elems(timerIdsFreed') \subseteq Elems(timerIdsFreed) \cup Elems(o)
          /\ ~outOfMemory => Elems(timerIdsFreed') = Elems(timerIdsFreed) \cup Elems(o)
      BY <1>1, <2>1, <2>2, <2>3, GiveBackFacts
    <2>5. Accounted(timers, timerIdsFreed, timerIdMax)'
      <3>1. IdsOf(timers') \cap Elems(timerIdsFreed') = {}
        BY <1>1, <1>6, <2>1, <2>4
      <3>2. IdsOf(timers') \cup Elems(timerIdsFreed') \subseteq 1..timerIdMax'
        BY <1>1, <1>2, <1>4, <1>6, <1>7, <2>1, <2>4
      <3> QED BY <1>3, <2>4, <3>1, <3>2 DEF Accounted
    <2>6. ~outOfMemory' => 1..timerIdMax' \subseteq IdsOf(timers') \cup Elems(timerIdsFreed')
      BY <1>1, <1>2, <1>6, <2>1, <2>4
    <2> QED BY <1>1, <1>2, <1>3, <2>4, <2>5, <2>6 DEF ListTypes, ListInv
  <1>8. CASE ~HasId(timers, id)
    <2>1. IdsOf(timers') = IdsOf(timers) /\ timerIdsFreed' = timerIdsFreed
      BY <1>2, <1>4, <1>6, <1>8
    <2>2. Accounted(timers, timerIdsFreed, timerIdMax)'
      BY <1>1, <1>2, <1>3, <2>1 DEF Accounted
    <2> QED BY <1>1, <1>2, <1>3, <2>1, <2>2 DEF ListTypes, ListInv
  <1> QED BY <1>7, <1>8

\* A period is changed: neither the order nor the identifiers.
LEMMA ModifyLists ==
  ASSUME Types, ListInv, NEW h \in Holders, NEW period \in Delays, ModifyPeriodic(h, period)
  PROVE  ListTypes' /\ ListInv'
  <1>1. /\ timers \in Seq(TimerRec) /\ timerIdsFreed' = timerIdsFreed /\ timerIdMax' = timerIdMax
        /\ outOfMemory' = outOfMemory /\ timerIdsFreed \in Seq(Nat) /\ timerIdMax \in Nat
    BY DEF Types, ModifyPeriodic
  <1>2. Len(timers) \in Nat /\ \A i \in 1..Len(timers) : timers[i] \in TimerRec
    BY <1>1
  <1>3. period \in Nat \ {0}
    BY EventTimersAssumption
  <1>4. ASSUME NEW t \in TimerRec
        PROVE  LET u == [t EXCEPT !.periodMs = period]
               IN  u \in TimerRec /\ u.id = t.id /\ u.endTime = t.endTime
    BY <1>3 DEF TimerRec
  <1>5. /\ timers' \in Seq(TimerRec) /\ Len(timers') = Len(timers)
        /\ \A i \in 1..Len(timers) : /\ timers'[i] \in TimerRec /\ timers'[i].id = timers[i].id
                                     /\ timers'[i].endTime = timers[i].endTime
    <2> DEFINE new(i) == IF timers[i].id = held[h] /\ timers[i].isPeriodicTimer
                         THEN [timers[i] EXCEPT !.periodMs = period] ELSE timers[i]
    <2>1. timers' = [i \in 1..Len(timers) |-> new(i)]
      BY DEF ModifyPeriodic
    <2>2. \A i \in 1..Len(timers) : /\ new(i) \in TimerRec /\ new(i).id = timers[i].id
                                    /\ new(i).endTime = timers[i].endTime
      BY <1>2, <1>4
    <2> HIDE DEF new
    <2> QED BY <1>2, <2>1, <2>2
  <1>6. IdsOf(timers') = IdsOf(timers)
    BY <1>5 DEF IdsOf, Elems
  <1>7. Pairwise(timers', NotAfter) /\ Pairwise(timers', Apart)
    <2>1. ASSUME NEW i \in 1..Len(timers), NEW j \in 1..Len(timers), i < j
          PROVE  <<timers'[i], timers'[j]>> \in NotAfter /\ <<timers'[i], timers'[j]>> \in Apart
      <3>1. <<timers[i], timers[j]>> \in NotAfter /\ <<timers[i], timers[j]>> \in Apart
        BY <2>1 DEF ListInv, Accounted, Pairwise
      <3>2. timers[i].endTime <= timers[j].endTime /\ timers[i].id # timers[j].id
        BY <3>1 DEF NotAfter, Apart
      <3>3. timers'[i].endTime <= timers'[j].endTime /\ timers'[i].id # timers'[j].id
        BY <1>5, <3>2
      <3> QED BY <1>5, <3>3 DEF NotAfter, Apart
    <2> QED BY <1>5, <2>1 DEF Pairwise
  <1> QED BY <1>1, <1>5, <1>6, <1>7 DEF ListTypes, ListInv, Accounted

\* An evaluation.
LEMMA EvaluationStep ==
  ASSUME Types, ListInv, CyclicTimersEvaluation
  PROVE  /\ ListTypes' /\ ListInv' /\ posted' \in [Holders -> Nat]
         /\ \A t \in Elems(timers) : t.endTime <= now /\ (outOfMemory => ~t.isPeriodicTimer)
              => posted'[t.holder] > posted[t.holder]
  <1>1. PICK untouched \in MayFail({t \in Range(Due) : t.isPeriodicTimer}) :
           /\ posted' = WithEventsOf(Treated(untouched))
           /\ \E lost \in MayFail(Range(Restarting(Treated(untouched)))) :
                /\ timers' = Reinserted(Kept(Treated(untouched), lost), Renewed(Restarts(Treated(untouched), lost)))
                /\ GiveBack(Ids(Triggered(Treated(untouched))) \o Ids(Gone(Treated(untouched), lost)))
    BY DEF CyclicTimersEvaluation, Treated, Kept, Renewed, Restarts, Gone
  <1> DEFINE d == Treated(untouched)
  <1>2. PICK lost \in MayFail(Range(Restarting(d))) :
           /\ timers' = Reinserted(Kept(d, lost), Renewed(Restarts(d, lost)))
           /\ GiveBack(Ids(Triggered(d)) \o Ids(Gone(d, lost)))
    BY <1>1
  <1>3. timerIdMax' = timerIdMax /\ outOfMemory' = outOfMemory /\ timerIdMax \in Nat
    BY DEF CyclicTimersEvaluation, Types
  <1>4. Pairwise(timers, NotAfter) /\ Pairwise(timers, Apart)
    BY DEF ListInv, Accounted
  <1>5. Due \in Seq(TimerRec) /\ Elems(Due) = {t \in Elems(timers) : t.endTime <= now} /\ Range(Due) = Elems(Due)
    BY <1>4, DueFacts, RangeElems
  <1>6. d \in Seq(TimerRec) /\ Elems(d) = Elems(Due) \ untouched /\ Range(Restarting(d)) = Elems(Restarting(d))
    <2>1. d \in Seq(TimerRec) /\ Elems(d) = Elems(Due) \cap (Range(Due) \ untouched)
      BY <1>5, OnlyFacts DEF Treated
    <2> HIDE DEF d
    <2>2. Restarting(d) \in Seq(TimerRec)
      BY <2>1, OnlyFacts DEF Restarting
    <2> QED BY <1>5, <2>1, <2>2, RangeElems
  <1> HIDE DEF d
  <1>7. lost \subseteq Elems(Restarting(d))
    BY <1>2, <1>6 DEF MayFail
  <1>8. timers' \in Seq(TimerRec) /\ timerIdsFreed' \in Seq(Nat) /\ ListInv'
    BY <1>2, <1>3, <1>7, EvaluationLists DEF d
  <1>9. \A t \in Elems(d) : t \in TimerRec /\ t.endTime <= now
    BY <1>5, <1>6, ElemsType
  <1>10. \A t \in Elems(d) : EventsOf(t) \in Nat \ {0}
    BY <1>9, EventsOfType
  <1>11. /\ posted' \in [Holders -> Nat] /\ \A t \in Elems(d) : posted'[t.holder] > posted[t.holder]
    <2>1. posted' = WithEventsOf(d)
      BY <1>1 DEF d
    <2> QED BY <1>6, <1>10, <2>1, PostedFacts
  <1>12. ASSUME NEW t \in Elems(timers), t.endTime <= now, outOfMemory => ~t.isPeriodicTimer
         PROVE  t \in Elems(d)
    <2>1. t \notin untouched
      <3>1. CASE outOfMemory
        BY <1>12, <3>1 DEF MayFail
      <3>2. CASE ~outOfMemory
        BY <3>2 DEF MayFail
      <3> QED BY <3>1, <3>2
    <2> QED BY <1>5, <1>6, <1>12, <2>1
  <1> QED BY <1>3, <1>8, <1>11, <1>12 DEF ListTypes

\* Every step keeps the types and the invariant of the lists.
LEMMA ListsStep ==
  ASSUME Types, ListInv, [Next]_vars
  PROVE  Types' /\ ListInv'
  <1>1. ASSUME UNCHANGED <<timers, timerIdsFreed, timerIdMax, outOfMemory>>
        PROVE  ListTypes' /\ ListInv'
    BY <1>1 DEF Types, ListTypes, ListInv, Accounted, IdsOf
  <1>2. CASE Tick
    BY <1>1, <1>2 DEF Tick, Types, ListTypes
  <1>3. CASE CyclicTimersEvaluation
    <2>1. UNCHANGED <<now, creating, held, outOfMemory>>
      BY <1>3 DEF CyclicTimersEvaluation
    <2> QED BY <1>3, <2>1, EvaluationStep DEF Types, ListTypes
  <1>4. ASSUME NEW h \in Holders, Create(h) PROVE Types' /\ ListInv'
    <2>1. FreshTimerId \in Nat
      BY ElemsTail, ElemsType DEF FreshTimerId, Types
    <2>2. /\ creating' = [creating EXCEPT ![h] = NotCreating]
          /\ held' = held \/ held' = [held EXCEPT ![h] = FreshTimerId]
          /\ UNCHANGED <<now, posted, outOfMemory>>
      BY <1>4 DEF Create
    <2>3. ListTypes' /\ ListInv'
      BY <1>4, CreateLists
    <2> QED BY <2>1, <2>2, <2>3 DEF Types, ListTypes
  <1>5. ASSUME NEW h \in Holders, Cancel(h) PROVE Types' /\ ListInv'
    <2>1. held' = [held EXCEPT ![h] = 0] /\ UNCHANGED <<now, creating, posted, outOfMemory>>
      BY <1>5 DEF Cancel
    <2>2. ListTypes' /\ ListInv'
      BY <1>5, CancelLists
    <2> QED BY <2>1, <2>2 DEF Types, ListTypes
  <1>6. ASSUME NEW h \in Holders, Treat(h) PROVE Types' /\ ListInv'
    <2>1. /\ posted[h] > 0 /\ posted' = [posted EXCEPT ![h] = @ - 1]
          /\ held' = [held EXCEPT ![h] = IF h \in OneShots THEN 0 ELSE @]
          /\ UNCHANGED <<now, timers, timerIdsFreed, timerIdMax, creating, outOfMemory>>
      BY <1>6 DEF Treat
    <2>2. posted' \in [Holders -> Nat] /\ held' \in [Holders -> Nat]
      BY <2>1 DEF Types
    <2> QED BY <1>1, <2>1, <2>2 DEF Types, ListTypes
  <1>7. ASSUME NEW h \in Holders, NEW delay \in Delays, CreateReadsTime(h, delay) PROVE Types' /\ ListInv'
    <2>1. /\ creating' = [creating EXCEPT ![h] = [endTime |-> now + delay, periodMs |-> delay]]
          /\ UNCHANGED <<now, timers, timerIdsFreed, timerIdMax, held, posted, outOfMemory>>
      BY <1>7 DEF CreateReadsTime
    <2>2. [endTime |-> now + delay, periodMs |-> delay] \in Creation
      BY EventTimersAssumption DEF Creation, Types
    <2> QED BY <1>1, <2>1, <2>2 DEF Types, ListTypes
  <1>8. ASSUME NEW h \in Holders, NEW period \in Delays, ModifyPeriodic(h, period) PROVE Types' /\ ListInv'
    <2>1. UNCHANGED <<now, creating, held, posted, outOfMemory>>
      BY <1>8 DEF ModifyPeriodic
    <2>2. ListTypes' /\ ListInv'
      BY <1>8, ModifyLists
    <2> QED BY <2>1, <2>2 DEF Types, ListTypes
  <1>9. CASE UNCHANGED vars
    BY <1>1, <1>9 DEF vars, Types, ListTypes
  <1> QED BY <1>2, <1>3, <1>4, <1>5, <1>6, <1>7, <1>8, <1>9 DEF Next

\* Initially.
LEMMA InitLists ==
  ASSUME Init
  PROVE  Types /\ ListInv
  <1>1. <<>> \in Seq(TimerRec) /\ <<>> \in Seq(Nat) /\ Elems(<<>>) = {} /\ \A R : Pairwise(<<>>, R)
    BY DEF Elems, Pairwise
  <1>2. 1..0 = {}
    OBVIOUS
  <1>3. Types
    BY <1>1, EventTimersAssumption DEF Init, Types
  <1>4. ListInv
    <2>1. timers = <<>> /\ timerIdsFreed = <<>> /\ timerIdMax = 0
      BY DEF Init
    <2>2. IdsOf(<<>>) = {}
      BY <1>1 DEF IdsOf
    <2> QED BY <1>1, <1>2, <2>1, <2>2 DEF ListInv, Accounted
  <1> QED BY <1>3, <1>4

-----------------------------------------------------------------------------
(* The theorems.                                                           *)

\* The invariant that carries the others.
LEMMA ListsInvariant == Spec => [](Types /\ ListInv)
  <1>1. Init => Types /\ ListInv
    BY InitLists
  <1>2. Types /\ ListInv /\ [Next]_vars => (Types /\ ListInv)'
    BY ListsStep
  <1> QED BY <1>1, <1>2, PTL DEF Spec

\* The list of timers is sorted by expiry time in every state, whatever the
\* creations that read the time before they take the mutex, the changes of
\* period and the periodic timers restarted together in one evaluation.
THEOREM ListSorted == Spec => []TimersSorted
  <1>1. Types /\ ListInv => TimersSorted
    <2> SUFFICES ASSUME Types, ListInv, NEW n \in 1..Len(timers), NEW m \in 1..Len(timers), n < m
                 PROVE  timers[n].endTime <= timers[m].endTime
      BY DEF TimersSorted
    <2>1. <<timers[n], timers[m]>> \in NotAfter
      BY DEF ListInv, Pairwise
    <2> QED BY <2>1 DEF NotAfter
  <1> QED BY <1>1, ListsInvariant, PTL

\* An identifier given by Create is that of one timer, or waits in the list
\* of the freed ones, once: no two timers share one, and none is lost as long
\* as the lists can grow.
THEOREM IdentifiersKept == Spec => []IdsAccounted
  <1>1. Types /\ ListInv => IdsAccounted
    <2> SUFFICES ASSUME Types, ListInv PROVE IdsAccounted
      OBVIOUS
    <2> DEFINE ids == Ids(timers) \o timerIdsFreed
    <2>1. /\ Ids(timers) \in Seq(Nat) /\ Elems(Ids(timers)) = IdsOf(timers)
          /\ Pairwise(Ids(timers), Differ)
      BY IdsFacts DEF Types, ListInv, Accounted
    <2>2. ids \in Seq(Nat) /\ Elems(ids) = IdsOf(timers) \cup Elems(timerIdsFreed) /\ Pairwise(ids, Differ)
      BY <2>1, DifferConcat DEF Types, ListInv, Accounted
    <2> HIDE DEF ids
    <2>3. Range(ids) = IdsOf(timers) \cup Elems(timerIdsFreed)
      BY <2>2, RangeElems
    <2>4. IsInjective(ids)
      <3>1. DOMAIN ids = 1..Len(ids) /\ Len(ids) \in Nat
        BY <2>2
      <3>2. ASSUME NEW i \in 1..Len(ids), NEW j \in 1..Len(ids), ids[i] = ids[j] PROVE i = j
        <4>1. i < j => <<ids[i], ids[j]>> \in Differ
          BY <2>2 DEF Pairwise
        <4>2. j < i => <<ids[j], ids[i]>> \in Differ
          BY <2>2 DEF Pairwise
        <4>3. ~(i < j) /\ ~(j < i)
          BY <3>2, <4>1, <4>2 DEF Differ
        <4> QED BY <3>1, <4>3
      <3> QED BY <3>1, <3>2 DEF IsInjective
    <2>5. IsInjective(ids) /\ Range(ids) \subseteq 1..timerIdMax /\ (~outOfMemory => Range(ids) = 1..timerIdMax)
      <3>1. Range(ids) \subseteq 1..timerIdMax
        BY <2>3 DEF ListInv, Accounted
      <3>2. ~outOfMemory => 1..timerIdMax \subseteq Range(ids)
        BY <2>3 DEF ListInv
      <3> QED BY <2>4, <3>1, <3>2
    <2> QED BY <2>5 DEF IdsAccounted, ids
  <1> QED BY <1>1, ListsInvariant, PTL

\* SOPC_EventTimer_CyclicTimersEvaluation stops at the first timer that is in
\* the future, and still posts the event of every timer that has expired.
THEOREM NoTimerMissed == Spec => ExpiredArePosted
  <1> DEFINE More == \E h \in Holders : posted'[h] > posted[h]
             All == \A n \in 1..Len(timers) :
                      timers[n].endTime <= now /\ (outOfMemory => ~timers[n].isPeriodicTimer)
                        => posted'[timers[n].holder] > posted[timers[n].holder]
  <1>1. Types /\ ListInv /\ [Next]_vars => [More => All]_vars
    <2> SUFFICES ASSUME Types, ListInv, [Next]_vars, More PROVE All
      OBVIOUS
    <2>1. CASE CyclicTimersEvaluation
      <3>1. \A n \in 1..Len(timers) : timers[n] \in Elems(timers)
        BY DEF Elems
      <3> QED BY <2>1, <3>1, EvaluationStep
    <2>2. ASSUME posted' = posted PROVE FALSE
      BY <2>2 DEF Types
    <2>3. CASE Tick
      BY <2>2, <2>3 DEF Tick
    <2>4. ASSUME NEW h \in Holders, Create(h) PROVE FALSE
      BY <2>2, <2>4 DEF Create
    <2>5. ASSUME NEW h \in Holders, Cancel(h) PROVE FALSE
      BY <2>2, <2>5 DEF Cancel
    <2>6. ASSUME NEW h \in Holders, Treat(h) PROVE FALSE
      <3>1. posted' = [posted EXCEPT ![h] = @ - 1] /\ posted \in [Holders -> Nat]
        BY <2>6 DEF Treat, Types
      <3>2. \A g \in Holders : posted'[g] = posted[g] \/ posted'[g] = posted[g] - 1
        BY <3>1
      <3> QED BY <3>1, <3>2
    <2>7. ASSUME NEW h \in Holders, NEW delay \in Delays, CreateReadsTime(h, delay) PROVE FALSE
      BY <2>2, <2>7 DEF CreateReadsTime
    <2>8. ASSUME NEW h \in Holders, NEW period \in Delays, ModifyPeriodic(h, period) PROVE FALSE
      BY <2>2, <2>8 DEF ModifyPeriodic
    <2>9. CASE UNCHANGED vars
      BY <2>2, <2>9 DEF vars
    <2> QED BY <2>1, <2>3, <2>4, <2>5, <2>6, <2>7, <2>8, <2>9 DEF Next
  <1> QED BY <1>1, ListsInvariant, PTL DEF Spec, ExpiredArePosted
=============================================================================
