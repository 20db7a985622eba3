------------------------- MODULE SubscriptionsProofs -------------------------
(***************************************************************************)
(* Proofs about the subscriptions of a server: no publish request is lost  *)
(* or waits beside a message that it could carry, the queues of priorities *)
(* hold each subscription once, and none is passed over for ever, for any  *)
(* number of sessions, subscriptions, requests and priorities.             *)
(***************************************************************************)
EXTENDS Subscriptions, SequenceFacts, FiniteSetTheorems

-----------------------------------------------------------------------------
(* Lists without repetition.                                               *)

Unequal == {e \in Nat \X Nat : e[1] # e[2]}

\* A list without repetition has as many places as elements.
LEMMA DistinctCount ==
  ASSUME NEW S, NEW s \in Seq(S), \A i, j \in 1..Len(s) : i < j => s[i] # s[j]
  PROVE  IsFiniteSet(Elems(s)) /\ Cardinality(Elems(s)) = Len(s)
  <1>1. Len(s) \in Nat
    OBVIOUS
  <1>2. IsFiniteSet(1..Len(s)) /\ Cardinality(1..Len(s)) = Len(s)
    <2>1. Cardinality(1..Len(s)) = (IF 1 > Len(s) THEN 0 ELSE Len(s) - 1 + 1)
      BY <1>1, FS_Interval, SMTT(20)
    <2>2. IsFiniteSet(1..Len(s))
      BY <1>1, FS_Interval
    <2> QED BY <1>1, <2>1, <2>2
  <1> DEFINE f == [i \in 1..Len(s) |-> s[i]]
  <1>3. f \in Bijection(1..Len(s), Elems(s))
    <2>1. f \in [1..Len(s) -> Elems(s)] /\ \A e \in Elems(s) : \E i \in 1..Len(s) : f[i] = e
      BY DEF Elems
    <2>2. ASSUME NEW i \in 1..Len(s), NEW j \in 1..Len(s), f[i] = f[j] PROVE i = j
      <3>1. s[i] = s[j]
        BY <2>2
      <3> QED BY <1>1, <3>1
    <2> HIDE DEF f
    <2> QED BY <2>1, <2>2 DEF Bijection, Injection, Surjection, IsInjective
  <1>4. ExistsBijection(1..Len(s), Elems(s))
    BY <1>3 DEF ExistsBijection
  <1> QED BY <1>2, <1>4, FS_Bijection

\* An element of a selection was not before its place, and was behind it if
\* an element before it has been left out.
LEMMA OnlyPlaces ==
  ASSUME NEW S, NEW X, NEW list \in Seq(S)
  PROVE  LET o == Only(list, X)
         IN  /\ Len(o) <= Len(list)
             /\ \A m \in 1..Len(o) : \E n \in 1..Len(list) :
                  /\ o[m] = list[n] /\ m <= n
                  /\ \A a \in 1..(n - 1) : list[a] \notin X => m < n
  <1> DEFINE n == Len(list)
             Here(s, m, j) == /\ s[m] = list[j] /\ m <= j
                              /\ \A a \in 1..(j - 1) : list[a] \notin X => m < j
             Good(k, s) == /\ s \in Seq(S) /\ Len(s) <= k
                           /\ \A a \in 1..k : list[a] \notin X => Len(s) < k
                           /\ \A m \in 1..Len(s) : \E j \in 1..k : Here(s, m, j)
  <1>1. n \in Nat /\ \A i \in 1..n : list[i] \in S
    OBVIOUS
  <1>2. PICK g : /\ g[0] = <<>> /\ Only(list, X) = g[n]
                 /\ \A i \in 1..n : g[i] = IF list[i] \in X THEN Append(g[i - 1], list[i]) ELSE g[i - 1]
    BY OnlySteps
  <1> DEFINE T == {k \in Nat : k <= n => Good(k, g[k])}
  <1>3. 0 \in T
    <2>1. <<>> \in Seq(S) /\ Len(<<>>) = 0 /\ 1..0 = {}
      OBVIOUS
    <2>2. Good(0, <<>>)
      <3> HIDE DEF Here
      <3> QED BY <2>1
    <2> HIDE DEF Good
    <2> QED BY <1>2, <2>2
  <1>4. ASSUME NEW k \in 0..(n - 1), k \in T PROVE k + 1 \in T
    <2>1. k \in Nat /\ k + 1 \in 1..n /\ (k + 1) - 1 = k /\ k + 1 \in Nat /\ k <= n
      BY <1>1
    <2>2. Good(k, g[k])
      BY <1>4, <2>1
    <2> DEFINE e == list[k + 1]
    <2>3. g[k + 1] = IF e \in X THEN Append(g[k], e) ELSE g[k]
      BY <1>2, <2>1
    <2>4. e \in S
      BY <1>1, <2>1
    <2>5. g[k] \in Seq(S) /\ Len(g[k]) \in Nat /\ Len(g[k]) <= k
      BY <2>2
    <2>6. CASE e \in X
      <3>1. /\ g[k + 1] \in Seq(S) /\ Len(g[k + 1]) = Len(g[k]) + 1 /\ g[k + 1][Len(g[k]) + 1] = e
            /\ \A m \in 1..Len(g[k]) : g[k + 1][m] = g[k][m]
        BY <2>3, <2>4, <2>5, <2>6, SnocSeq
      <3>2. \A a \in 1..(k + 1) : list[a] \notin X => Len(g[k + 1]) < k + 1
        <4>1. \A a \in 1..(k + 1) : list[a] \notin X => a \in 1..k
          BY <2>1, <2>6
        <4> QED BY <2>1, <2>2, <2>5, <3>1, <4>1
      <3>3. ASSUME NEW m \in 1..Len(g[k + 1]) PROVE \E j \in 1..(k + 1) : Here(g[k + 1], m, j)
        <4>1. CASE m \in 1..Len(g[k])
          <5>1. PICK j \in 1..k : Here(g[k], m, j)
            BY <2>2, <4>1
          <5>2. Here(g[k + 1], m, j)
            BY <3>1, <4>1, <5>1
          <5> QED BY <2>1, <5>2
        <4>2. CASE m = Len(g[k]) + 1
          <5>1. m <= k + 1 /\ \A a \in 1..k : list[a] \notin X => m < k + 1
            BY <2>1, <2>2, <2>5, <4>2
          <5>2. Here(g[k + 1], m, k + 1)
            BY <2>1, <3>1, <4>2, <5>1
          <5> QED BY <2>1, <5>2
        <4> QED BY <2>5, <3>1, <4>1, <4>2
      <3>4. Good(k + 1, g[k + 1])
        <4> HIDE DEF Here
        <4> QED BY <2>1, <2>5, <3>1, <3>2, <3>3
      <3> HIDE DEF Good
      <3> QED BY <2>1, <3>4
    <2>7. CASE e \notin X
      <3>1. g[k + 1] = g[k]
        BY <2>3, <2>7
      <3>2. \A j \in 1..k : j \in 1..(k + 1)
        BY <2>1
      <3>3. Good(k + 1, g[k + 1])
        <4> HIDE DEF Here
        <4> QED BY <2>1, <2>2, <2>5, <3>1, <3>2
      <3> HIDE DEF Good
      <3> QED BY <2>1, <3>3
    <2> QED BY <2>6, <2>7
  <1> HIDE DEF T
  <1>5. \A k \in 0..n : k \in T
    BY <1>1, <1>3, <1>4, InductionTo
  <1>6. n \in 0..n /\ n <= n
    BY <1>1
  <1>7. Good(n, g[n])
    <2> HIDE DEF Good
    <2> QED BY <1>5, <1>6 DEF T
  <1> QED BY <1>2, <1>7

\* The first element of a selection is the first one that is selected.
LEMMA OnlyHead ==
  ASSUME NEW S, NEW X, NEW list \in Seq(S), Only(list, X) # <<>>
  PROVE  \E n \in 1..Len(list) : /\ Head(Only(list, X)) = list[n] /\ list[n] \in X
                                 /\ \A a \in 1..(n - 1) : list[a] \notin X
  <1> DEFINE n == Len(list)
             First(j) == list[j] \in X /\ \A a \in 1..(j - 1) : list[a] \notin X
             Good(k, s) == /\ s \in Seq(S)
                           /\ s = <<>> => \A a \in 1..k : list[a] \notin X
                           /\ s # <<>> => \E j \in 1..k : Head(s) = list[j] /\ First(j)
  <1>1. n \in Nat /\ \A i \in 1..n : list[i] \in S
    OBVIOUS
  <1>2. PICK g : /\ g[0] = <<>> /\ Only(list, X) = g[n]
                 /\ \A i \in 1..n : g[i] = IF list[i] \in X THEN Append(g[i - 1], list[i]) ELSE g[i - 1]
    BY OnlySteps
  <1> DEFINE T == {k \in Nat : k <= n => Good(k, g[k])}
  <1>3. 0 \in T
    <2>1. <<>> \in Seq(S) /\ 1..0 = {}
      OBVIOUS
    <2>2. Good(0, <<>>)
      BY <2>1
    <2> HIDE DEF Good
    <2> QED BY <1>2, <2>2
  <1>4. ASSUME NEW k \in 0..(n - 1), k \in T PROVE k + 1 \in T
    <2>1. k \in Nat /\ k + 1 \in 1..n /\ (k + 1) - 1 = k /\ k + 1 \in Nat /\ k <= n
      BY <1>1
    <2>2. Good(k, g[k])
      BY <1>4, <2>1
    <2> DEFINE e == list[k + 1]
    <2>3. g[k + 1] = IF e \in X THEN Append(g[k], e) ELSE g[k]
      BY <1>2, <2>1
    <2>4. e \in S /\ \A j \in 1..(k + 1) : j \in 1..k \/ j = k + 1
      BY <1>1, <2>1
    <2>5. Good(k + 1, g[k + 1])
      <3>1. CASE e \notin X
        <4>1. g[k + 1] = g[k] /\ \A j \in 1..k : j \in 1..(k + 1)
          BY <2>1, <2>3, <3>1
        <4> HIDE DEF First
        <4> QED BY <2>2, <2>4, <3>1, <4>1
      <3>2. CASE e \in X /\ g[k] = <<>>
        <4>1. g[k + 1] = <<e>>
          BY <2>3, <3>2
        <4>2. First(k + 1) /\ k + 1 \in 1..(k + 1)
          BY <2>1, <2>2, <3>2
        <4> HIDE DEF First
        <4> QED BY <2>4, <4>1, <4>2
      <3>3. CASE e \in X /\ g[k] # <<>>
        <4>1. g[k + 1] = Append(g[k], e) /\ g[k] \in Seq(S)
          BY <2>2, <2>3, <3>3
        <4>2. g[k + 1] \in Seq(S) /\ g[k + 1] # <<>> /\ Head(g[k + 1]) = Head(g[k])
          BY <2>4, <3>3, <4>1
        <4>3. \A j \in 1..k : j \in 1..(k + 1)
          BY <2>1
        <4> HIDE DEF First
        <4> QED BY <2>2, <3>3, <4>2, <4>3
      <3> QED BY <3>1, <3>2, <3>3
    <2> HIDE DEF Good
    <2> QED BY <2>1, <2>5
  <1> HIDE DEF T
  <1>5. \A k \in 0..n : k \in T
    BY <1>1, <1>3, <1>4, InductionTo
  <1>6. n \in 0..n /\ n <= n
    BY <1>1
  <1>7. Good(n, g[n])
    <2> HIDE DEF Good
    <2> QED BY <1>5, <1>6 DEF T
  <1> QED BY <1>2, <1>7

-----------------------------------------------------------------------------
(* Types.                                                                  *)

SubRec ==
  [session : Sessions, prio : Priorities, state : {"normal", "late", "keepAlive"},
   enabled : BOOLEAN, more : BOOLEAN, sent : BOOLEAN, life : Int, maxLife : Nat,
   keep : Int, maxKeep : Nat, size : Nat, avail : Int]
ReqRec == [id : Requests, expired : BOOLEAN]
PrioRec == [prio : Priorities, queue : Seq(SubIds)]

\* What a client waits for with reason: what it was not left without an
\* answer for.
pending == [s \in Sessions |-> waiting[s] \ forgotten[s]]

Types ==
  /\ session \in [Sessions -> {"closed", "orphaned", "active"}]
  /\ DOMAIN subs \subseteq SubIds /\ subs \in [DOMAIN subs -> SubRec]
  /\ prios \in [Sessions -> Seq(PrioRec)]
  /\ DOMAIN reqq \subseteq Sessions /\ reqq \in [DOMAIN reqq -> Seq(ReqRec)]
  /\ pending \in [Sessions -> SUBSET Requests]
  /\ passed \in [SubIds -> Nat]

-----------------------------------------------------------------------------
(* The priorities of a session, against the set B of its subscriptions and *)
(* their priorities pr.                                                    *)

OtherPrio == {e \in PrioRec \X PrioRec : e[1].prio # e[2].prio}

Holds(e, B, pr) == Pairwise(e.queue, Unequal) /\ Elems(e.queue) = {k \in B : pr[k] = e.prio}

Sound(ps, B, pr) ==
  /\ ps \in Seq(PrioRec) /\ Pairwise(ps, OtherPrio)
  /\ \A e \in Elems(ps) : Holds(e, B, pr)
  /\ \A k \in B : \E e \in Elems(ps) : e.prio = pr[k]

\* A subscription has been passed as often, at most, as there are places
\* behind its own.
Placed(q, pass) == \A n \in 1..Len(q) : pass[q[n]] + n <= SubsPerSession
Ranked(ps, pass) == \A e \in Elems(ps) : Placed(e.queue, pass)

\* A queue of subscriptions without repetition.
LEMMA QueueFacts ==
  ASSUME NEW q \in Seq(SubIds), Pairwise(q, Unequal)
  PROVE  /\ Elems(q) \subseteq SubIds /\ Elems(q) \subseteq Nat
         /\ IsFiniteSet(Elems(q)) /\ Cardinality(Elems(q)) = Len(q)
         /\ ToSet(q) = Elems(q)
  <1>1. \A i, j \in 1..Len(q) : i < j => q[i] # q[j]
    BY DEF Pairwise, Unequal
  <1>2. SubIds \subseteq Nat
    BY SubscriptionsAssumption DEF SubIds
  <1>3. IsFiniteSet(Elems(q)) /\ Cardinality(Elems(q)) = Len(q)
    BY <1>1, DistinctCount
  <1>4. Elems(q) \subseteq SubIds
    BY ElemsType
  <1>5. ToSet(q) = Elems(q)
    BY DEF ToSet, Elems
  <1> QED BY <1>2, <1>3, <1>4, <1>5

\* What a function of the elements makes of a list of priorities.
LEMMA MappedFacts ==
  ASSUME NEW ps \in Seq(PrioRec), NEW f, \A e \in Elems(ps) : f[e] \in PrioRec /\ f[e].prio = e.prio,
         NEW r, r = [i \in DOMAIN ps |-> f[ps[i]]]
  PROVE  /\ r \in Seq(PrioRec) /\ Elems(r) = {f[e] : e \in Elems(ps)}
         /\ Pairwise(ps, OtherPrio) => Pairwise(r, OtherPrio)
  <1>1. Len(ps) \in Nat /\ DOMAIN ps = 1..Len(ps) /\ \A i \in 1..Len(ps) : ps[i] \in Elems(ps) /\ ps[i] \in PrioRec
    BY DEF Elems
  <1>2. /\ r \in Seq(PrioRec) /\ Len(r) = Len(ps)
        /\ \A i \in 1..Len(ps) : r[i] = f[ps[i]]
    BY <1>1
  <1>3. Elems(r) = {f[e] : e \in Elems(ps)}
    BY <1>1, <1>2 DEF Elems
  <1>4. ASSUME Pairwise(ps, OtherPrio), NEW i \in 1..Len(r), NEW j \in 1..Len(r), i < j
        PROVE  <<r[i], r[j]>> \in OtherPrio
    <2>1. <<ps[i], ps[j]>> \in OtherPrio
      BY <1>2, <1>4 DEF Pairwise
    <2>2. r[i] \in PrioRec /\ r[j] \in PrioRec /\ r[i].prio # r[j].prio
      <3>1. ps[i].prio # ps[j].prio
        BY <2>1 DEF OtherPrio
      <3> QED BY <1>1, <1>2, <3>1
    <2> QED BY <2>2 DEF OtherPrio
  <1> QED BY <1>2, <1>3, <1>4 DEF Pairwise

\* add_subscription, on the queue of one priority.
Grown(e, p, k) == IF e.prio = p THEN [e EXCEPT !.queue = Append(@, k)] ELSE e

LEMMA GrownFacts ==
  ASSUME NEW B, NEW pr, NEW e \in PrioRec, Holds(e, B, pr), NEW k \in SubIds, k \notin B,
         NEW p, NEW pr2, pr2[k] = p, \A j \in B : pr2[j] = pr[j]
  PROVE  /\ Grown(e, p, k) \in PrioRec /\ Grown(e, p, k).prio = e.prio
         /\ Holds(Grown(e, p, k), B \cup {k}, pr2)
  <1>1. e.queue \in Seq(SubIds) /\ Pairwise(e.queue, Unequal)
    BY DEF PrioRec, Holds
  <1>2. Elems(e.queue) = {j \in B : pr2[j] = e.prio}
    BY DEF Holds
  <1>3. CASE e.prio # p
    <2>1. {j \in B \cup {k} : pr2[j] = e.prio} = {j \in B : pr2[j] = e.prio}
      BY <1>3
    <2> QED BY <1>1, <1>2, <1>3, <2>1 DEF Grown, Holds
  <1>4. CASE e.prio = p
    <2> DEFINE a == Append(e.queue, k)
    <2>1. Grown(e, p, k) \in PrioRec /\ Grown(e, p, k).queue = a /\ Grown(e, p, k).prio = e.prio
      BY <1>1, <1>4 DEF Grown, PrioRec
    <2>2. Elems(a) = Elems(e.queue) \cup {k}
      BY <1>1, ElemsAppend
    <2>3. \A d \in Elems(e.queue) : <<d, k>> \in Unequal
      <3>1. SubIds \subseteq Nat
        BY SubscriptionsAssumption DEF SubIds
      <3>2. Elems(e.queue) \subseteq SubIds /\ k \notin Elems(e.queue)
        BY <1>1, <1>2, QueueFacts
      <3> QED BY <3>1, <3>2 DEF Unequal
    <2>4. Pairwise(a, Unequal)
      BY <1>1, <2>3, PairwiseAppend
    <2> HIDE DEF a
    <2>5. Elems(a) = {j \in B \cup {k} : pr2[j] = e.prio}
      BY <1>2, <1>4, <2>2
    <2> QED BY <2>1, <2>4, <2>5 DEF Holds
  <1> QED BY <1>3, <1>4

LEMMA GrownPlaced ==
  ASSUME NEW B, IsFiniteSet(B), Cardinality(B) < SubsPerSession, NEW pr,
         NEW e \in PrioRec, Holds(e, B, pr), NEW k \in SubIds, NEW p,
         NEW pass \in [SubIds -> Nat], NEW pass2 \in [SubIds -> Nat], Placed(e.queue, pass),
         \A j \in B : pass2[j] <= pass[j], pass2[k] = 0
  PROVE  Placed(Grown(e, p, k).queue, pass2)
  <1> DEFINE q == e.queue
  <1>1. q \in Seq(SubIds) /\ Pairwise(q, Unequal) /\ Elems(q) \subseteq B
    BY DEF PrioRec, Holds
  <1>2. Len(q) \in Nat /\ Len(q) < SubsPerSession /\ SubsPerSession \in Nat
    <2>1. Cardinality(Elems(q)) <= Cardinality(B) /\ Cardinality(B) \in Nat
      BY <1>1, FS_Subset, FS_CardinalityType
    <2>2. Cardinality(Elems(q)) = Len(q)
      BY <1>1, QueueFacts
    <2>3. Len(q) \in Nat
      BY <1>1
    <2> QED BY <2>1, <2>2, <2>3, SubscriptionsAssumption
  <1>3. \A n \in 1..Len(q) : q[n] \in SubIds /\ pass2[q[n]] + n <= SubsPerSession
    <2>1. \A n \in 1..Len(q) : q[n] \in B /\ q[n] \in SubIds
      BY <1>1 DEF Elems
    <2>2. \A n \in 1..Len(q) : pass[q[n]] + n <= SubsPerSession
      BY DEF Placed
    <2>3. \A n \in 1..Len(q) : pass2[q[n]] <= pass[q[n]] /\ pass[q[n]] \in Nat /\ pass2[q[n]] \in Nat
      BY <2>1
    <2> QED BY <1>2, <2>1, <2>2, <2>3
  <1>4. CASE e.prio # p
    BY <1>3, <1>4 DEF Grown, Placed
  <1>5. CASE e.prio = p
    <2>1. Grown(e, p, k).queue = Append(q, k)
      BY <1>5 DEF Grown, PrioRec
    <2> HIDE DEF q
    <2>2. /\ Len(Append(q, k)) = Len(q) + 1 /\ Append(q, k)[Len(q) + 1] = k
          /\ \A n \in 1..Len(q) : Append(q, k)[n] = q[n]
      BY <1>1, SnocSeq
    <2>3. \A n \in 1..(Len(q) + 1) : n \in 1..Len(q) \/ n = Len(q) + 1
      BY <1>2
    <2> QED BY <1>2, <1>3, <2>1, <2>2, <2>3 DEF Placed
  <1> QED BY <1>4, <1>5

\* add_subscription keeps the priorities sound, wherever it puts a new one.
LEMMA AddFacts ==
  ASSUME NEW B, NEW pr, NEW ps, Sound(ps, B, pr), NEW k \in SubIds, k \notin B,
         NEW p \in Priorities, NEW pr2, pr2[k] = p, \A j \in B : pr2[j] = pr[j]
  PROVE  /\ Sound(AddToPriority(ps, p, k), B \cup {k}, pr2)
         /\ \A e \in Elems(AddToPriority(ps, p, k)) :
              \/ e = [prio |-> p, queue |-> <<k>>]
              \/ \E d \in Elems(ps) : e = Grown(d, p, k)
  <1> DEFINE r == AddToPriority(ps, p, k)
             new == [prio |-> p, queue |-> <<k>>]
  <1>1. ps \in Seq(PrioRec) /\ Elems(ps) \subseteq PrioRec /\ Pairwise(ps, OtherPrio)
    BY ElemsType DEF Sound
  <1>2. \A e \in Elems(ps) : /\ Grown(e, p, k) \in PrioRec /\ Grown(e, p, k).prio = e.prio
                             /\ Holds(Grown(e, p, k), B \cup {k}, pr2)
    <2>1. \A e \in Elems(ps) : e \in PrioRec /\ Holds(e, B, pr)
      BY <1>1 DEF Sound
    <2> QED BY <2>1, GrownFacts
  <1>3. \A j \in B : \E e \in Elems(ps) : e.prio = pr2[j]
    BY DEF Sound
  <1>4. CASE \E i \in DOMAIN ps : ps[i].prio = p
    <2> DEFINE f == [e \in PrioRec |-> Grown(e, p, k)]
    <2>1. r = [i \in DOMAIN ps |-> Grown(ps[i], p, k)]
      BY <1>4 DEF AddToPriority, Grown
    <2>2. \A i \in DOMAIN ps : ps[i] \in PrioRec /\ ps[i] \in Elems(ps)
      BY <1>1 DEF Elems
    <2>3. r = [i \in DOMAIN ps |-> f[ps[i]]]
      <3> HIDE DEF r
      <3> QED BY <2>1, <2>2
    <2>4. \A e \in Elems(ps) : f[e] = Grown(e, p, k)
      BY <1>1
    <2> HIDE DEF r, f
    <2>5. r \in Seq(PrioRec) /\ Elems(r) = {f[e] : e \in Elems(ps)} /\ Pairwise(r, OtherPrio)
      BY <1>1, <1>2, <2>3, <2>4, MappedFacts
    <2>6. PICK e0 \in Elems(ps) : e0.prio = p
      BY <1>4, <2>2
    <2>7. \A j \in B \cup {k} : \E e \in Elems(ps) : e.prio = pr2[j]
      BY <1>3, <2>6
    <2>8. \A j \in B \cup {k} : \E e \in Elems(r) : e.prio = pr2[j]
      BY <1>2, <2>4, <2>5, <2>7
    <2>9. Sound(r, B \cup {k}, pr2)
      BY <1>2, <2>4, <2>5, <2>8, ZenonT(60) DEF Sound
    <2> QED BY <2>4, <2>5, <2>9 DEF r
  <1>5. CASE \A i \in DOMAIN ps : ps[i].prio # p
    <2>1. \A e \in Elems(ps) : e.prio # p
      BY <1>1, <1>5 DEF Elems
    <2>2. \A e \in Elems(ps) : Grown(e, p, k) = e
      BY <2>1 DEF Grown
    <2>3. new \in PrioRec /\ new.prio = p
      BY DEF PrioRec
    <2>4. Holds(new, B \cup {k}, pr2)
      <3>1. new.queue = <<k>> /\ Pairwise(<<k>>, Unequal) /\ Elems(<<k>>) = {k}
        BY ElemsSmall, PairwiseSmall
      <3>2. {j \in B \cup {k} : pr2[j] = p} = {k}
        <4>1. \A j \in B : pr2[j] # p
          BY <1>3, <2>1
        <4> QED BY <4>1
      <3> QED BY <2>3, <3>1, <3>2 DEF Holds
    <2> HIDE DEF new
    <2>5. \A e \in Elems(ps) : <<e, new>> \in OtherPrio /\ <<new, e>> \in OtherPrio
      BY <1>1, <2>1, <2>3 DEF OtherPrio
    <2>6. r \in Seq(PrioRec) /\ Elems(r) = Elems(ps) \cup {new} /\ Pairwise(r, OtherPrio)
      <3>1. CASE r = Append(ps, new)
        <4> HIDE DEF r
        <4>1. r \in Seq(PrioRec) /\ Elems(r) = Elems(ps) \cup {new}
          BY <1>1, <2>3, <3>1, ElemsAppend
        <4>2. Pairwise(r, OtherPrio)
          BY <1>1, <2>3, <2>5, <3>1, PairwiseAppend
        <4> QED BY <4>1, <4>2
      <3>2. CASE ps # <<>> /\ r = Front(ps) \o <<new, Last(ps)>>
        <4> DEFINE l == Last(ps)
                   a == Front(ps)
        <4>1. /\ Len(ps) \in Nat /\ Len(ps) - 1 \in 0..Len(ps) /\ (Len(ps) - 1) + 1 = Len(ps)
              /\ Len(ps) \in 1..Len(ps)
          BY <1>1, <3>2
        <4>2. a \in Seq(PrioRec) /\ l \in PrioRec /\ ps = Append(a, l)
          <5>1. a \in Seq(PrioRec) /\ l \in PrioRec
            BY <1>1, <4>1 DEF Front, Last
          <5>2. ps = a \o <<l>>
            <6> DEFINE z == SubSeq(ps, (Len(ps) - 1) + 1, Len(ps))
            <6>1. /\ z \in Seq(PrioRec) /\ Len(z) = Len(ps) - (Len(ps) - 1)
                  /\ \A n \in 1..(Len(ps) - (Len(ps) - 1)) : z[n] = ps[(Len(ps) - 1) + n]
                  /\ a \o z = ps
              <7> DEFINE m == Len(ps) - 1
              <7>1. m \in 0..Len(ps)
                BY <4>1
              <7> HIDE DEF m
              <7>2. /\ SubSeq(ps, m + 1, Len(ps)) \in Seq(PrioRec) /\ Len(SubSeq(ps, m + 1, Len(ps))) = Len(ps) - m
                    /\ \A n \in 1..(Len(ps) - m) : SubSeq(ps, m + 1, Len(ps))[n] = ps[m + n]
                    /\ SubSeq(ps, 1, m) \o SubSeq(ps, m + 1, Len(ps)) = ps
                BY <1>1, <7>1, SplitSeq
              <7> QED BY <7>2 DEF m, Front
            <6> HIDE DEF z
            <6>2. Len(z) = 1 /\ z[1] = l
              BY <4>1, <6>1 DEF Last
            <6>3. z = <<l>>
              BY <6>1, <6>2
            <6> QED BY <6>1, <6>3
          <5> HIDE DEF a, l
          <5> QED BY <5>1, <5>2, SnocSeq
        <4> HIDE DEF a, l
        <4>3. Pairwise(a, OtherPrio) /\ \A d \in Elems(a) : <<d, l>> \in OtherPrio
          <5>1. ps = a \o <<l>> /\ <<l>> \in Seq(PrioRec) /\ Elems(<<l>>) = {l}
            BY <4>2, SnocSeq, ElemsSmall
          <5>2. Pairwise(a \o <<l>>, OtherPrio)
            BY <1>1, <5>1
          <5>3. Pairwise(a, OtherPrio) /\ \A d \in Elems(a), e \in Elems(<<l>>) : <<d, e>> \in OtherPrio
            BY <4>2, <5>1, <5>2, PairwiseSplit
          <5> QED BY <5>1, <5>3
        <4>4. Elems(ps) = Elems(a) \cup {l}
          BY <4>2, ElemsAppend
        <4> DEFINE b == Append(a, new)
        <4>5. b \in Seq(PrioRec) /\ Elems(b) = Elems(a) \cup {new} /\ Pairwise(b, OtherPrio)
          <5>1. b \in Seq(PrioRec) /\ Elems(b) = Elems(a) \cup {new}
            BY <2>3, <4>2, ElemsAppend
          <5>2. \A d \in Elems(a) : <<d, new>> \in OtherPrio
            BY <2>5, <4>4
          <5>3. Pairwise(b, OtherPrio)
            BY <2>3, <4>2, <4>3, <5>2, PairwiseAppend
          <5> QED BY <5>1, <5>3
        <4>6. r = Append(b, l)
          <5>1. r = a \o <<new, l>>
            BY <3>2 DEF a, l
          <5> HIDE DEF r
          <5> QED BY <2>3, <4>2, <5>1
        <4> HIDE DEF b
        <4>7. \A d \in Elems(b) : <<d, l>> \in OtherPrio
          BY <2>5, <4>3, <4>4, <4>5
        <4> QED BY <4>2, <4>4, <4>5, <4>6, <4>7, ElemsAppend, PairwiseAppend
      <3> QED BY <1>5, <3>1, <3>2 DEF AddToPriority, new
    <2> HIDE DEF r
    <2>7. \A j \in B \cup {k} : \E e \in Elems(r) : e.prio = pr2[j]
      BY <1>3, <2>3, <2>6
    <2>8. \A e \in Elems(r) : Holds(e, B \cup {k}, pr2)
      BY <1>2, <2>2, <2>4, <2>6
    <2>9. Sound(r, B \cup {k}, pr2)
      BY <2>6, <2>7, <2>8 DEF Sound
    <2> QED BY <2>2, <2>6, <2>9 DEF r, new
  <1> QED BY <1>4, <1>5

\* delete_subscription, on the queue of one priority.
Cut(e, S) == [e EXCEPT !.queue = Only(@, ToSet(@) \ S)]

LEMMA CutFacts ==
  ASSUME NEW B, NEW pr, NEW e \in PrioRec, Holds(e, B, pr), NEW S
  PROVE  /\ Cut(e, S) \in PrioRec /\ Cut(e, S).prio = e.prio
         /\ Holds(Cut(e, S), B \ S, pr)
  <1> DEFINE q == e.queue
             o == Only(q, ToSet(q) \ S)
  <1>1. q \in Seq(SubIds) /\ Pairwise(q, Unequal) /\ Elems(q) = {j \in B : pr[j] = e.prio}
    BY DEF PrioRec, Holds
  <1>2. ToSet(q) = Elems(q)
    BY <1>1, QueueFacts
  <1>3. o \in Seq(SubIds) /\ Elems(o) = Elems(q) \cap (ToSet(q) \ S) /\ Pairwise(o, Unequal)
    <2> HIDE DEF q
    <2> QED BY <1>1, OnlyFacts
  <1>4. Cut(e, S) \in PrioRec /\ Cut(e, S).queue = o /\ Cut(e, S).prio = e.prio
    BY <1>3 DEF Cut, PrioRec
  <1> HIDE DEF o, q
  <1>5. Elems(o) = {j \in B \ S : pr[j] = e.prio}
    BY <1>1, <1>2, <1>3
  <1> QED BY <1>3, <1>4, <1>5 DEF Holds

LEMMA CutPlaced ==
  ASSUME NEW e \in PrioRec, NEW S, NEW pass \in [SubIds -> Nat], NEW pass2 \in [SubIds -> Nat],
         Placed(e.queue, pass), \A j \in Elems(Cut(e, S).queue) : pass2[j] <= pass[j]
  PROVE  Placed(Cut(e, S).queue, pass2)
  <1> DEFINE q == e.queue
             o == Only(q, ToSet(q) \ S)
  <1>1. q \in Seq(SubIds) /\ Cut(e, S).queue = o
    BY DEF PrioRec, Cut
  <1> HIDE DEF q
  <1>2. /\ o \in Seq(SubIds)
        /\ \A m \in 1..Len(o) : \E n \in 1..Len(q) : o[m] = q[n] /\ m <= n
    BY <1>1, OnlyPlaces, OnlyFacts
  <1> HIDE DEF o
  <1>3. SubsPerSession \in Nat /\ Len(o) \in Nat /\ Len(q) \in Nat
    BY <1>1, <1>2, SubscriptionsAssumption
  <1>4. ASSUME NEW m \in 1..Len(o) PROVE pass2[o[m]] + m <= SubsPerSession
    <2>1. PICK n \in 1..Len(q) : o[m] = q[n] /\ m <= n
      BY <1>2
    <2>2. pass[q[n]] + n <= SubsPerSession
      BY DEF Placed, q
    <2>3. pass2[o[m]] <= pass[o[m]]
      BY <1>1 DEF Elems
    <2>4. pass[o[m]] \in Nat /\ pass2[o[m]] \in Nat
      BY <1>2
    <2> QED BY <1>3, <2>1, <2>2, <2>3, <2>4
  <1> QED BY <1>1, <1>4 DEF Placed

\* delete_subscription keeps the priorities sound.
LEMMA RemoveFacts ==
  ASSUME NEW B, NEW pr, NEW ps, Sound(ps, B, pr), NEW S
  PROVE  /\ Sound(RemoveFromPriority(ps, S), B \ S, pr)
         /\ \A e \in Elems(RemoveFromPriority(ps, S)) : \E d \in Elems(ps) : e = Cut(d, S)
  <1> DEFINE f == [e \in PrioRec |-> Cut(e, S)]
             left == [i \in DOMAIN ps |-> Cut(ps[i], S)]
             X == {e \in ToSet(left) : e.queue # <<>>}
             r == Only(left, X)
  <1>1. ps \in Seq(PrioRec) /\ Elems(ps) \subseteq PrioRec /\ Pairwise(ps, OtherPrio)
    BY ElemsType DEF Sound
  <1>2. \A e \in Elems(ps) : /\ Cut(e, S) \in PrioRec /\ Cut(e, S).prio = e.prio
                             /\ Holds(Cut(e, S), B \ S, pr)
    <2>1. \A e \in Elems(ps) : e \in PrioRec /\ Holds(e, B, pr)
      BY <1>1 DEF Sound
    <2> QED BY <2>1, CutFacts
  <1>3. RemoveFromPriority(ps, S) = r
    BY DEF RemoveFromPriority, Cut
  <1>4. \A i \in DOMAIN ps : ps[i] \in PrioRec
    BY <1>1
  <1>5. \A e \in Elems(ps) : f[e] = Cut(e, S)
    BY <1>1
  <1>6. left \in Seq(PrioRec) /\ Elems(left) = {Cut(e, S) : e \in Elems(ps)} /\ Pairwise(left, OtherPrio)
    <2>1. left = [i \in DOMAIN ps |-> f[ps[i]]]
      BY <1>4
    <2> HIDE DEF f, left
    <2>4. \A e \in Elems(ps) : f[e] \in PrioRec /\ f[e].prio = e.prio
      BY <1>2, <1>5
    <2>2. left \in Seq(PrioRec) /\ Elems(left) = {f[e] : e \in Elems(ps)} /\ Pairwise(left, OtherPrio)
      BY <1>1, <2>1, <2>4, MappedFacts
    <2>3. {f[e] : e \in Elems(ps)} = {Cut(e, S) : e \in Elems(ps)}
      BY <1>5
    <2> QED BY <2>2, <2>3
  <1> HIDE DEF left
  <1>7. X = {e \in Elems(left) : e.queue # <<>>}
    BY <1>6 DEF ToSet, Elems
  <1> HIDE DEF X
  <1>8. r \in Seq(PrioRec) /\ Elems(r) = Elems(left) \cap X /\ Pairwise(r, OtherPrio)
    BY <1>6, OnlyFacts
  <1> HIDE DEF r
  <1>9. Elems(r) = {e \in Elems(left) : e.queue # <<>>}
    BY <1>7, <1>8
  <1>10. \A e \in Elems(r) : Holds(e, B \ S, pr) /\ \E d \in Elems(ps) : e = Cut(d, S)
    BY <1>2, <1>6, <1>9
  <1>11. ASSUME NEW j \in B \ S PROVE \E e \in Elems(r) : e.prio = pr[j]
    <2>1. PICK d \in Elems(ps) : d.prio = pr[j]
      BY DEF Sound
    <2>2. Cut(d, S).prio = pr[j] /\ Holds(Cut(d, S), B \ S, pr) /\ Cut(d, S) \in PrioRec
      BY <1>2, <2>1
    <2>3. j \in Elems(Cut(d, S).queue)
      BY <2>2 DEF Holds
    <2>4. Cut(d, S).queue # <<>>
      BY <2>3 DEF Elems
    <2> QED BY <1>6, <1>9, <2>2, <2>4
  <1> QED BY <1>3, <1>8, <1>10, <1>11 DEF Sound

\* reconfigure_priority_subscriptions_queue_last_sub, on one queue.
Moved(e, k) ==
  IF k \in ToSet(e.queue)
  THEN [e EXCEPT !.queue = Append(Only(@, ToSet(@) \ {k}), k)] ELSE e

LEMMA MovedFacts ==
  ASSUME NEW B, NEW pr, NEW e \in PrioRec, Holds(e, B, pr), NEW k \in SubIds
  PROVE  /\ Moved(e, k) \in PrioRec /\ Moved(e, k).prio = e.prio
         /\ Holds(Moved(e, k), B, pr)
  <1>1. CASE k \notin ToSet(e.queue)
    BY <1>1 DEF Moved
  <1>2. CASE k \in ToSet(e.queue)
    <2> DEFINE q == e.queue
               o == Only(q, ToSet(q) \ {k})
               a == Append(o, k)
    <2>1. q \in Seq(SubIds) /\ Pairwise(q, Unequal) /\ Elems(q) = {j \in B : pr[j] = e.prio}
      BY DEF PrioRec, Holds
    <2>2. ToSet(q) = Elems(q) /\ Elems(q) \subseteq Nat
      BY <2>1, QueueFacts
    <2>3. o \in Seq(SubIds) /\ Elems(o) = Elems(q) \cap (ToSet(q) \ {k}) /\ Pairwise(o, Unequal)
      <3> HIDE DEF q
      <3> QED BY <2>1, OnlyFacts
    <2>4. Moved(e, k) = [e EXCEPT !.queue = a]
      BY <1>2 DEF Moved
    <2>5. k \in Elems(q)
      BY <1>2, <2>2
    <2> HIDE DEF o, q
    <2>6. a \in Seq(SubIds) /\ Elems(a) = Elems(o) \cup {k}
      BY <2>3, ElemsAppend
    <2>7. Elems(o) = Elems(q) \ {k}
      BY <2>2, <2>3
    <2>8. \A d \in Elems(o) : <<d, k>> \in Unequal
      BY <2>2, <2>5, <2>7 DEF Unequal
    <2>9. Pairwise(a, Unequal)
      BY <2>3, <2>8, PairwiseAppend
    <2> HIDE DEF a
    <2>10. Moved(e, k) \in PrioRec /\ Moved(e, k).queue = a /\ Moved(e, k).prio = e.prio
      BY <2>4, <2>6 DEF PrioRec
    <2>11. Elems(a) = Elems(q)
      BY <2>5, <2>6, <2>7
    <2> QED BY <2>1, <2>9, <2>10, <2>11 DEF Holds
  <1> QED BY <1>1, <1>2

\* The others come one place closer when the one that is moved was before
\* them.
LEMMA MovedPlaced ==
  ASSUME NEW e \in PrioRec, Pairwise(e.queue, Unequal), NEW k \in SubIds,
         NEW pass \in [SubIds -> Nat], NEW pass2 \in [SubIds -> Nat],
         Placed(e.queue, pass), pass2[k] = 0,
         Len(e.queue) <= SubsPerSession,
         \A n \in 1..Len(e.queue) : e.queue[n] # k =>
           \/ pass2[e.queue[n]] <= pass[e.queue[n]]
           \/ /\ pass2[e.queue[n]] <= pass[e.queue[n]] + 1
              /\ \E a \in 1..(n - 1) : e.queue[a] = k
  PROVE  Placed(Moved(e, k).queue, pass2)
  <1> DEFINE q == e.queue
             o == Only(q, ToSet(q) \ {k})
             a == Append(o, k)
  <1>1. q \in Seq(SubIds) /\ ToSet(q) = Elems(q) /\ Len(q) \in Nat /\ SubsPerSession \in Nat
    BY QueueFacts, SubscriptionsAssumption DEF PrioRec
  <1>2. CASE k \notin ToSet(q)
    <2>1. Moved(e, k).queue = q
      BY <1>2 DEF Moved
    <2>2. ASSUME NEW n \in 1..Len(q) PROVE pass2[q[n]] + n <= SubsPerSession
      <3>1. q[n] # k /\ \A b \in 1..(n - 1) : q[b] # k
        <4>1. \A b \in 1..Len(q) : q[b] # k
          BY <1>1, <1>2 DEF Elems
        <4>2. \A b \in 1..(n - 1) : b \in 1..Len(q)
          BY <1>1
        <4> QED BY <4>1, <4>2
      <3>2. pass2[q[n]] <= pass[q[n]]
        BY <3>1
      <3>3. pass[q[n]] + n <= SubsPerSession /\ pass[q[n]] \in Nat /\ pass2[q[n]] \in Nat
        BY <1>1 DEF Placed
      <3> QED BY <1>1, <3>2, <3>3, SMTT(20)
    <2> QED BY <2>1, <2>2 DEF Placed
  <1>3. CASE k \in ToSet(q)
    <2>1. Moved(e, k).queue = a
      BY <1>3 DEF Moved, PrioRec
    <2>2. PICK b \in 1..Len(q) : q[b] = k
      BY <1>1, <1>3 DEF Elems
    <2> HIDE DEF q
    <2>3. /\ o \in Seq(SubIds) /\ Elems(o) = Elems(q) \cap (ToSet(q) \ {k}) /\ Len(o) <= Len(q)
          /\ \A m \in 1..Len(o) : \E n \in 1..Len(q) :
               /\ o[m] = q[n] /\ m <= n
               /\ \A c \in 1..(n - 1) : q[c] \notin ToSet(q) \ {k} => m < n
      <3> DEFINE X == ToSet(q) \ {k}
      <3> HIDE DEF X
      <3>1. /\ Only(q, X) \in Seq(SubIds) /\ Elems(Only(q, X)) = Elems(q) \cap X /\ Len(Only(q, X)) <= Len(q)
            /\ \A m \in 1..Len(Only(q, X)) : \E n \in 1..Len(q) :
                 /\ Only(q, X)[m] = q[n] /\ m <= n
                 /\ \A c \in 1..(n - 1) : q[c] \notin X => m < n
        BY <1>1, OnlyFacts, OnlyPlaces
      <3> QED BY <3>1 DEF X
    <2>4. Len(o) < Len(q)
      <3>1. o \in Seq(SubIds) /\ Pairwise(o, Unequal) /\ Pairwise(q, Unequal)
        BY <1>1, OnlyFacts DEF q
      <3> HIDE DEF o
      <3>2. /\ IsFiniteSet(Elems(q)) /\ Cardinality(Elems(q)) = Len(q)
            /\ IsFiniteSet(Elems(o)) /\ Cardinality(Elems(o)) = Len(o)
        BY <1>1, <3>1, QueueFacts
      <3>3. Elems(o) = Elems(q) \ {k} /\ k \in Elems(q)
        BY <1>1, <1>3, <2>3
      <3>4. Cardinality(Elems(o)) = Cardinality(Elems(q)) - 1
        BY <3>2, <3>3, FS_RemoveElement
      <3> QED BY <1>1, <3>2, <3>4
    <2> HIDE DEF o
    <2>5. ASSUME NEW m \in 1..Len(o) PROVE pass2[o[m]] + m <= SubsPerSession
      <3>1. PICK n \in 1..Len(q) :
               /\ o[m] = q[n] /\ m <= n
               /\ \A c \in 1..(n - 1) : q[c] \notin ToSet(q) \ {k} => m < n
        BY <2>3
      <3>2. pass[q[n]] + n <= SubsPerSession /\ pass[q[n]] \in Nat /\ pass2[q[n]] \in Nat
        BY <1>1, SMTT(20) DEF Placed, q
      <3>3. q[n] # k
        <4>1. o[m] \in Elems(o)
          BY DEF Elems
        <4> QED BY <2>3, <3>1, <4>1
      <3>4. \/ pass2[q[n]] <= pass[q[n]]
            \/ pass2[q[n]] <= pass[q[n]] + 1 /\ \E c \in 1..(n - 1) : q[c] = k
        BY <3>3 DEF q
      <3>7. m \in Nat /\ n \in Nat
        BY <1>1, <2>3
      <3>5. CASE pass2[q[n]] <= pass[q[n]]
        <4> DEFINE x == pass2[q[n]]
                   y == pass[q[n]]
        <4>1. x \in Nat /\ y \in Nat /\ y + n <= SubsPerSession /\ x <= y
          BY <3>2, <3>5
        <4> HIDE DEF x, y
        <4>2. SubsPerSession \in Nat /\ m <= n
          BY <3>1, SubscriptionsAssumption
        <4>3. x + m <= SubsPerSession
          BY <3>7, <4>1, <4>2
        <4> QED BY <3>1, <4>3 DEF x
      <3>6. CASE pass2[q[n]] <= pass[q[n]] + 1 /\ \E c \in 1..(n - 1) : q[c] = k
        <4>1. m < n
          BY <3>1, <3>6
        <4>2. pass2[q[n]] <= pass[q[n]] + 1
          BY <3>6
        <4>3. pass2[q[n]] + m <= SubsPerSession
          <5> DEFINE x == pass2[q[n]]
                     y == pass[q[n]]
          <5>1. x \in Nat /\ y \in Nat /\ y + n <= SubsPerSession /\ x <= y + 1
            BY <3>2, <4>2
          <5> HIDE DEF x, y
          <5>2. SubsPerSession \in Nat
            BY SubscriptionsAssumption
          <5>3. x + m <= SubsPerSession
            BY <3>7, <4>1, <5>1, <5>2
          <5> QED BY <5>3 DEF x
        <4> QED BY <3>1, <4>3
      <3> QED BY <3>4, <3>5, <3>6
    <2>6. Len(o) \in Nat /\ Len(o) + 1 <= SubsPerSession
      BY <1>1, <2>3, <2>4 DEF q
    <2>7. /\ Len(a) = Len(o) + 1 /\ a[Len(o) + 1] = k
          /\ \A m \in 1..Len(o) : a[m] = o[m]
      BY <2>3, SnocSeq
    <2>8. \A m \in 1..(Len(o) + 1) : m \in 1..Len(o) \/ m = Len(o) + 1
      BY <2>6
    <2> HIDE DEF a
    <2> QED BY <2>1, <2>5, <2>6, <2>7, <2>8 DEF Placed
  <1> QED BY <1>2, <1>3

\* A message puts the subscription last and keeps the priorities sound.
LEMMA ServedFacts ==
  ASSUME NEW B, NEW pr, NEW ps, Sound(ps, B, pr), NEW k \in SubIds
  PROVE  /\ Sound(ServedLast(ps, k), B, pr)
         /\ \A e \in Elems(ServedLast(ps, k)) : \E d \in Elems(ps) : e = Moved(d, k)
  <1> DEFINE f == [e \in PrioRec |-> Moved(e, k)]
             r == [i \in DOMAIN ps |-> Moved(ps[i], k)]
  <1>1. ps \in Seq(PrioRec) /\ Elems(ps) \subseteq PrioRec /\ Pairwise(ps, OtherPrio)
    BY ElemsType DEF Sound
  <1>2. \A e \in Elems(ps) : /\ Moved(e, k) \in PrioRec /\ Moved(e, k).prio = e.prio
                             /\ Holds(Moved(e, k), B, pr)
    <2>1. \A e \in Elems(ps) : e \in PrioRec /\ Holds(e, B, pr)
      BY <1>1 DEF Sound
    <2> QED BY <2>1, MovedFacts
  <1>3. ServedLast(ps, k) = r
    BY DEF ServedLast, Moved
  <1>4. \A i \in DOMAIN ps : ps[i] \in PrioRec
    BY <1>1
  <1>5. \A e \in Elems(ps) : f[e] = Moved(e, k)
    BY <1>1
  <1>6. r = [i \in DOMAIN ps |-> f[ps[i]]]
    BY <1>4
  <1> HIDE DEF f, r
  <1>9. \A e \in Elems(ps) : f[e] \in PrioRec /\ f[e].prio = e.prio
    BY <1>2, <1>5
  <1>7. r \in Seq(PrioRec) /\ Elems(r) = {f[e] : e \in Elems(ps)} /\ Pairwise(r, OtherPrio)
    BY <1>1, <1>6, <1>9, MappedFacts
  <1>8. \A j \in B : \E e \in Elems(r) : e.prio = pr[j]
    <2>1. \A j \in B : \E d \in Elems(ps) : d.prio = pr[j]
      BY DEF Sound
    <2> QED BY <1>2, <1>5, <1>7, <2>1
  <1> QED BY <1>2, <1>3, <1>5, <1>7, <1>8 DEF Sound

-----------------------------------------------------------------------------
(* The order in which a session is served.                                 *)

\* What the recursion of IterOrder computes.
LEMMA IterSteps ==
  ASSUME NEW ps \in Seq(PrioRec)
  PROVE  \E g : /\ g[0] = <<>> /\ IterOrder(ps) = g[Len(ps)]
                /\ \A i \in 0..Len(ps) : g[i] \in Seq(SubIds)
                /\ \A i \in 1..Len(ps) : g[i] = ps[i].queue \o g[i - 1]
  <1> DEFINE n == Len(ps)
             Q == Seq(SubIds)
             step(p, i) == ps[i].queue \o p
             Run(g) == g = [i \in 0..n |-> IF i = 0 THEN <<>> ELSE step(g[i - 1], i)]
             c == CHOOSE g : Run(g)
             f == [x \in Q \X (1..n) |-> step(x[1], x[2])]
  <1>1. n \in Nat /\ \A i \in 1..n : ps[i].queue \in Q
    <2>1. n \in Nat /\ \A i \in 1..n : ps[i] \in PrioRec
      OBVIOUS
    <2> QED BY <2>1 DEF PrioRec
  <1>2. <<>> \in Q /\ \A p \in Q, i \in 1..n : step(p, i) \in Q
    BY <1>1
  <1> HIDE DEF step, Q, n
  <1>3. f \in [Q \X (1..n) -> Q] /\ \A p \in Q, i \in 1..n : f[<<p, i>>] = step(p, i)
    BY <1>2
  <1> HIDE DEF f
  <1>4. PICK g \in [0..n -> Q] : Stepwise(<<>>, f, g, n)
    BY <1>1, <1>2, <1>3, RecursionTyped
  <1>5. ASSUME NEW i \in 0..n PROVE g[i] = IF i = 0 THEN <<>> ELSE step(g[i - 1], i)
    <2>1. CASE i # 0
      <3>1. i \in 1..n /\ i - 1 \in 0..n
        BY <1>1, <2>1
      <3>2. g[i - 1] \in Q
        BY <1>4, <3>1
      <3> QED BY <1>3, <1>4, <2>1, <3>1, <3>2 DEF Stepwise
    <2> QED BY <1>4, <2>1 DEF Stepwise
  <1>6. Run(g)
    <2>1. g = [i \in 0..n |-> g[i]]
      BY <1>4
    <2> QED BY <1>5, <2>1
  <1>7. Run(c)
    BY <1>6
  <1>8. IterOrder(ps) = c[n]
    BY DEF IterOrder, n, step
  <1> HIDE DEF c
  <1>9. \A i \in 0..n : c[i] = IF i = 0 THEN <<>> ELSE step(c[i - 1], i)
    BY <1>7, Zenon
  <1> HIDE DEF Run
  <1>10. 0 \in 0..n /\ \A i \in 1..n : i \in 0..n /\ i # 0
    BY <1>1
  <1>11. c[0] = <<>> /\ \A i \in 1..n : c[i] = step(c[i - 1], i)
    BY <1>9, <1>10
  <1> DEFINE T == {i \in Nat : i <= n => c[i] \in Q}
  <1>12. 0 \in T
    BY <1>2, <1>11
  <1>13. ASSUME NEW k \in 0..(n - 1), k \in T PROVE k + 1 \in T
    <2>1. k + 1 \in 1..n /\ (k + 1) - 1 = k /\ k <= n /\ k + 1 \in Nat
      BY <1>1
    <2>2. c[k] \in Q /\ c[k + 1] = step(c[k], k + 1)
      BY <1>11, <1>13, <2>1
    <2> QED BY <1>2, <2>1, <2>2
  <1> HIDE DEF T
  <1>14. \A i \in 0..n : i \in T
    BY <1>1, <1>12, <1>13, InductionTo
  <1>15. \A i \in 0..n : c[i] \in Q
    BY <1>1, <1>14 DEF T
  <1> QED BY <1>8, <1>11, <1>15 DEF n, step, Q

\* It has the subscriptions of the session, each one once, and the queue of
\* each priority as it is.
Serves(o, ps, B) ==
  /\ o \in Seq(SubIds) /\ Elems(o) = B /\ Pairwise(o, Unequal)
  /\ \A e \in Elems(ps) : \E off \in Nat :
       /\ off + Len(e.queue) <= Len(o)
       /\ \A m \in 1..Len(e.queue) : o[off + m] = e.queue[m]

LEMMA IterFacts ==
  ASSUME NEW B, NEW pr, NEW ps, Sound(ps, B, pr), B \subseteq SubIds
  PROVE  Serves(IterOrder(ps), ps, B)
  <1> DEFINE n == Len(ps)
             Part(k) == {j \in B : \E i \in 1..k : pr[j] = ps[i].prio}
             Within(e, o) == \E off \in Nat : /\ off + Len(e.queue) <= Len(o)
                                              /\ \A m \in 1..Len(e.queue) : o[off + m] = e.queue[m]
             Good(k, o) == /\ o \in Seq(SubIds) /\ Elems(o) = Part(k) /\ Pairwise(o, Unequal)
                           /\ \A i \in 1..k : Within(ps[i], o)
  <1>1. /\ n \in Nat /\ ps \in Seq(PrioRec)
        /\ \A i \in 1..n : ps[i] \in PrioRec /\ ps[i].queue \in Seq(SubIds) /\ Holds(ps[i], B, pr)
    <2>1. n \in Nat /\ ps \in Seq(PrioRec)
      BY DEF Sound
    <2>2. \A i \in 1..n : ps[i] \in PrioRec /\ ps[i] \in Elems(ps)
      BY <2>1 DEF Elems
    <2> QED BY <2>1, <2>2 DEF Sound, PrioRec
  <1>2. PICK g : /\ g[0] = <<>> /\ IterOrder(ps) = g[n]
                 /\ \A i \in 0..n : g[i] \in Seq(SubIds)
                 /\ \A i \in 1..n : g[i] = ps[i].queue \o g[i - 1]
    BY <1>1, IterSteps
  <1> DEFINE T == {k \in Nat : k <= n => Good(k, g[k])}
  <1>3. 0 \in T
    <2>1. <<>> \in Seq(SubIds) /\ Elems(<<>>) = {} /\ Pairwise(<<>>, Unequal)
      BY DEF Elems, Pairwise
    <2>2. Part(0) = {} /\ 1..0 = {}
      OBVIOUS
    <2> HIDE DEF Part, Within
    <2>3. Good(0, <<>>)
      BY <2>1, <2>2
    <2> HIDE DEF Good
    <2> QED BY <1>2, <2>3
  <1>4. ASSUME NEW k \in 0..(n - 1), k \in T PROVE k + 1 \in T
    <2>1. k \in Nat /\ k + 1 \in 1..n /\ (k + 1) - 1 = k /\ k + 1 \in Nat /\ k <= n
      BY <1>1
    <2> DEFINE e == ps[k + 1]
               q == e.queue
               o == g[k]
               u == g[k + 1]
    <2>2. Good(k, o)
      BY <1>4, <2>1
    <2>3. u = q \o o
      BY <1>2, <2>1
    <2>4. q \in Seq(SubIds) /\ Pairwise(q, Unequal) /\ Elems(q) = {j \in B : pr[j] = e.prio}
      BY <1>1, <2>1 DEF Holds
    <2>5. \A i \in 1..k : ps[i].prio # e.prio
      <3>1. \A i \in 1..k : i \in 1..n /\ i < k + 1
        BY <1>1, <2>1
      <3>2. \A i \in 1..k : <<ps[i], e>> \in OtherPrio
        BY <1>1, <2>1, <3>1 DEF Sound, Pairwise
      <3> QED BY <3>2 DEF OtherPrio
    <2>6. Part(k + 1) = Part(k) \cup {j \in B : pr[j] = e.prio}
      <3>1. \A i \in 1..(k + 1) : i \in 1..k \/ i = k + 1
        BY <2>1
      <3>2. k + 1 \in 1..(k + 1) /\ \A i \in 1..k : i \in 1..(k + 1)
        BY <2>1
      <3> QED BY <3>1, <3>2
    <2>7. Part(k) \cap {j \in B : pr[j] = e.prio} = {}
      BY <2>5
    <2>8. o \in Seq(SubIds) /\ Elems(o) = Part(k) /\ Pairwise(o, Unequal) /\ \A i \in 1..k : Within(ps[i], o)
      BY <2>2
    <2> HIDE DEF Part, q, o, u
    <2>9. u \in Seq(SubIds) /\ Elems(u) = Part(k + 1)
      <3>1. Elems(u) = Elems(q) \cup Elems(o)
        BY <2>3, <2>4, <2>8, ElemsConcat
      <3> QED BY <2>3, <2>4, <2>6, <2>8, <3>1
    <2>10. Pairwise(u, Unequal)
      <3>1. SubIds \subseteq Nat
        BY SubscriptionsAssumption DEF SubIds
      <3>2. Elems(q) \subseteq SubIds /\ Elems(o) \subseteq SubIds /\ Elems(q) \cap Elems(o) = {}
        BY <2>4, <2>7, <2>8, ElemsType
      <3>3. \A x \in Elems(q), y \in Elems(o) : <<x, y>> \in Unequal
        BY <3>1, <3>2 DEF Unequal
      <3> QED BY <2>3, <2>4, <2>8, <3>3, PairwiseConcat
    <2>11. /\ Len(u) = Len(q) + Len(o) /\ Len(q) \in Nat /\ Len(o) \in Nat
           /\ \A m \in 1..Len(q) : u[m] = q[m]
           /\ \A m \in 1..Len(o) : u[Len(q) + m] = o[m]
      BY <2>3, <2>4, <2>8, ConcatProperties
    <2>12. ASSUME NEW i \in 1..k PROVE Within(ps[i], u)
      <3> DEFINE z == ps[i].queue
      <3>1. PICK off \in Nat : off + Len(z) <= Len(o) /\ \A m \in 1..Len(z) : o[off + m] = z[m]
        BY <2>8
      <3>2. i \in 1..n
        BY <1>1, <2>1
      <3>3. Len(z) \in Nat
        BY <1>1, <3>2
      <3> HIDE DEF z
      <3>4. Len(q) + off \in Nat /\ (Len(q) + off) + Len(z) <= Len(u)
        BY <2>11, <3>1, <3>3
      <3>5. ASSUME NEW m \in 1..Len(z) PROVE u[(Len(q) + off) + m] = z[m]
        <4>1. off + m \in 1..Len(o) /\ (Len(q) + off) + m = Len(q) + (off + m)
          BY <2>11, <3>1, <3>3
        <4> QED BY <2>11, <3>1, <4>1
      <3> QED BY <3>4, <3>5 DEF z
    <2>13. Within(e, u)
      <3>1. 0 \in Nat /\ 0 + Len(q) <= Len(u) /\ \A m \in 1..Len(q) : u[0 + m] = q[m]
        BY <2>11
      <3> QED BY <3>1 DEF q
    <2>14. Good(k + 1, u)
      <3>1. \A i \in 1..(k + 1) : i \in 1..k \/ i = k + 1
        BY <2>1
      <3> HIDE DEF Within
      <3> QED BY <2>9, <2>10, <2>12, <2>13, <3>1
    <2> HIDE DEF Good
    <2> QED BY <2>1, <2>14 DEF u
  <1> HIDE DEF T
  <1>5. \A k \in 0..n : k \in T
    BY <1>1, <1>3, <1>4, InductionTo
  <1>6. n \in 0..n /\ n <= n
    BY <1>1
  <1>7. Good(n, g[n])
    <2> HIDE DEF Good
    <2> QED BY <1>5, <1>6 DEF T
  <1>8. Part(n) = B
    <2>1. \A j \in B : \E e \in Elems(ps) : e.prio = pr[j]
      BY DEF Sound
    <2> QED BY <2>1 DEF Elems
  <1>9. \A e \in Elems(ps) : \E i \in 1..n : e = ps[i]
    BY DEF Elems
  <1> HIDE DEF Part, Within
  <1>10. \A e \in Elems(ps) : Within(e, g[n])
    BY <1>7, <1>9
  <1>11. g[n] \in Seq(SubIds) /\ Elems(g[n]) = B /\ Pairwise(g[n], Unequal)
    BY <1>7, <1>8
  <1> QED BY <1>2, <1>10, <1>11 DEF Within, Serves

-----------------------------------------------------------------------------
(* The inductive invariant.                                                *)

OtherId == {e \in ReqRec \X ReqRec : e[1].id # e[2].id}

\* The publish requests of each session: as RequestsAccounted, but with the
\* requests of a queue told apart one by one, and those that failed for
\* their acknowledgements (ForgottenKept) apart from the others.
RequestsKept ==
  /\ DOMAIN reqq = {s \in Sessions : SubsOf(s) # {}}
  /\ \A s \in Sessions : pending[s] = IF s \in DOMAIN reqq THEN Ids(reqq[s]) ELSE {}
  /\ \A s \in DOMAIN reqq : Len(reqq[s]) <= ReqsPerSession /\ Pairwise(reqq[s], OtherId)

ForgottenKept ==
  /\ waiting \in [Sessions -> SUBSET Requests] /\ forgotten \in [Sessions -> SUBSET Requests]
  /\ \A s \in Sessions : forgotten[s] \subseteq waiting[s]

PrioOf == [k \in DOMAIN subs |-> subs[k].prio]

\* One session: its priorities ps, its subscriptions B, their priorities pr
\* and how often they have been passed.
SessionKept(ps, B, pr, pass) ==
  Sound(ps, B, pr) /\ Cardinality(B) <= SubsPerSession /\ Ranked(ps, pass)

\* The queues of the priorities, and the places in them.
QueuesKept ==
  \A s \in Sessions : SessionKept(prios[s], SubsOf(s), PrioOf, passed)

SubsInv == Types /\ RequestsKept /\ ForgottenKept /\ AttentiveNoRequest /\ QueuesKept

-----------------------------------------------------------------------------
(* The subscription a publish request is given to.                         *)

LEMMA SubsOfFacts ==
  ASSUME Types, NEW s
  PROVE  /\ SubsOf(s) \subseteq DOMAIN subs /\ SubsOf(s) \subseteq SubIds /\ IsFiniteSet(SubsOf(s))
         /\ Cardinality(SubsOf(s)) \in Nat /\ SubIds \subseteq Nat /\ 0 \notin SubIds
  <1>1. SubsOf(s) \subseteq DOMAIN subs /\ SubsOf(s) \subseteq SubIds
    BY DEF SubsOf, Types
  <1>2. MaxSubs \in Nat
    BY SubscriptionsAssumption
  <1>3. IsFiniteSet(SubIds) /\ SubIds \subseteq Nat /\ 0 \notin SubIds
    BY <1>2, FS_Interval DEF SubIds
  <1>4. IsFiniteSet(SubsOf(s))
    BY <1>1, <1>3, FS_Subset
  <1> QED BY <1>1, <1>3, <1>4, FS_CardinalityType

\* It is attentive, and the others of its priority that are attentive too
\* are behind it.
LEMMA FirstFacts ==
  ASSUME Types, QueuesKept, NEW s \in Sessions
  PROVE  /\ FirstAttentive(s) = 0 => \A j \in SubsOf(s) : ~ Attentive(subs[j])
         /\ FirstAttentive(s) # 0 =>
              /\ FirstAttentive(s) \in SubsOf(s) /\ Attentive(subs[FirstAttentive(s)])
              /\ \A e \in Elems(prios[s]) : \A n \in 1..Len(e.queue) :
                   /\ e.prio = subs[FirstAttentive(s)].prio
                   /\ e.queue[n] # FirstAttentive(s) /\ Attentive(subs[e.queue[n]])
                   => \E a \in 1..(n - 1) : e.queue[a] = FirstAttentive(s)
  <1> DEFINE X == {j \in DOMAIN subs : Attentive(subs[j])}
             ps == prios[s]
             o == IterOrder(ps)
             r == Only(o, X)
  <1>0. /\ SubsOf(s) \subseteq DOMAIN subs /\ SubsOf(s) \subseteq SubIds
        /\ SubIds \subseteq Nat /\ 0 \notin SubIds
    BY SubsOfFacts
  <1>1. Sound(ps, SubsOf(s), PrioOf)
    BY DEF QueuesKept, SessionKept
  <1>2. /\ o \in Seq(SubIds) /\ Elems(o) = SubsOf(s) /\ Pairwise(o, Unequal)
        /\ \A e \in Elems(ps) : \E off \in Nat :
             /\ off + Len(e.queue) <= Len(o)
             /\ \A m \in 1..Len(e.queue) : o[off + m] = e.queue[m]
    <2> HIDE DEF ps
    <2>1. Serves(o, ps, SubsOf(s))
      BY <1>0, <1>1, IterFacts
    <2> QED BY <2>1 DEF Serves
  <1>3. FirstAttentive(s) = IF r = <<>> THEN 0 ELSE Head(r)
    BY DEF FirstAttentive
  <1> HIDE DEF o, ps, X
  <1>4. r \in Seq(SubIds) /\ Elems(r) = SubsOf(s) \cap X
    BY <1>2, OnlyFacts
  <1>5. CASE r = <<>>
    <2>1. SubsOf(s) \cap X = {}
      BY <1>4, <1>5, ElemsType
    <2> QED BY <1>0, <1>3, <1>5, <2>1 DEF X
  <1>6. CASE r # <<>>
    <2> DEFINE k == Head(r)
    <2>1. PICK h \in 1..Len(o) : k = o[h] /\ o[h] \in X /\ \A a \in 1..(h - 1) : o[a] \notin X
      BY <1>2, <1>6, OnlyHead
    <2>2. k \in SubsOf(s) /\ k \in X
      BY <1>2, <2>1 DEF Elems
    <2>3. FirstAttentive(s) = k /\ k # 0
      BY <1>0, <1>3, <1>6, <2>2
    <2> HIDE DEF k, r
    <2>4. ASSUME NEW e \in Elems(ps), NEW n \in 1..Len(e.queue), e.prio = subs[k].prio,
                 e.queue[n] # k, Attentive(subs[e.queue[n]])
          PROVE  \E a \in 1..(n - 1) : e.queue[a] = k
      <3> DEFINE q == e.queue
      <3>1. e \in PrioRec /\ Holds(e, SubsOf(s), PrioOf)
        BY <1>1, ElemsType DEF Sound
      <3>2. q \in Seq(SubIds) /\ Elems(q) = {j \in SubsOf(s) : PrioOf[j] = e.prio}
        BY <3>1 DEF PrioRec, Holds
      <3>3. \A j \in SubsOf(s) : PrioOf[j] = subs[j].prio
        BY <1>0 DEF PrioOf
      <3>4. k \in Elems(q)
        BY <2>2, <2>4, <3>2, <3>3
      <3>5. PICK a \in 1..Len(q) : q[a] = k
        BY <3>4 DEF Elems
      <3>6. q[n] \in X
        <4>1. q[n] \in SubsOf(s)
          BY <3>2 DEF Elems
        <4> QED BY <1>0, <2>4, <4>1 DEF X
      <3>7. PICK off \in Nat : off + Len(q) <= Len(o) /\ \A m \in 1..Len(q) : o[off + m] = q[m]
        BY <1>2
      <3>8. Len(q) \in Nat /\ Len(o) \in Nat
        BY <1>2, <3>2
      <3>9. q[n] # k
        BY <2>4
      <3> HIDE DEF q
      <3>10. /\ off + a \in 1..Len(o) /\ off + n \in 1..Len(o) /\ h \in Nat /\ a \in Nat /\ n \in Nat
             /\ o[off + a] = k /\ o[off + n] = q[n]
        <4>1. off + a \in 1..Len(o) /\ off + n \in 1..Len(o)
          BY <3>5, <3>7, <3>8 DEF q
        <4>2. h \in Nat /\ a \in Nat /\ n \in Nat
          BY <3>8 DEF q
        <4> QED BY <3>5, <3>7, <4>1, <4>2 DEF q
      <3>11. off + a = h
        <4>1. \A i, j \in 1..Len(o) : i < j => o[i] # o[j]
          BY <1>2 DEF Pairwise, Unequal
        <4>2. ~ (off + a < h) /\ ~ (h < off + a)
          BY <2>1, <3>10, <4>1
        <4> QED BY <3>10, <4>2
      <3>12. off + n \notin 1..(h - 1)
        BY <2>1, <3>6, <3>10
      <3>13. n # a
        BY <3>5, <3>9
      <3>14. a \in 1..(n - 1)
        BY <3>5, <3>8, <3>10, <3>11, <3>12, <3>13
      <3> QED BY <3>5, <3>14 DEF q
    <2> QED BY <2>2, <2>3, <2>4 DEF X, ps
  <1> QED BY <1>5, <1>6

-----------------------------------------------------------------------------
(* The queues of one session, step by step.                                *)

\* The queues hold subscriptions of the session.
LEMMA ElemsOfQueues ==
  ASSUME NEW B, NEW pr, NEW ps, Sound(ps, B, pr)
  PROVE  \A e \in Elems(ps) : /\ e \in PrioRec /\ Holds(e, B, pr) /\ e.queue \in Seq(SubIds)
                              /\ Elems(e.queue) \subseteq B /\ Elems(e.queue) \subseteq SubIds
                              /\ \A n \in 1..Len(e.queue) : e.queue[n] \in B /\ e.queue[n] \in SubIds
  <1> SUFFICES ASSUME NEW e \in Elems(ps)
               PROVE  /\ e \in PrioRec /\ Holds(e, B, pr) /\ e.queue \in Seq(SubIds)
                      /\ Elems(e.queue) \subseteq B /\ Elems(e.queue) \subseteq SubIds
                      /\ \A n \in 1..Len(e.queue) : e.queue[n] \in B /\ e.queue[n] \in SubIds
    OBVIOUS
  <1>1. e \in PrioRec /\ Holds(e, B, pr)
    BY ElemsType DEF Sound
  <1>2. e.queue \in Seq(SubIds) /\ Elems(e.queue) \subseteq B
    BY <1>1 DEF PrioRec, Holds
  <1>3. Elems(e.queue) \subseteq SubIds /\ \A n \in 1..Len(e.queue) : e.queue[n] \in Elems(e.queue)
    BY <1>2, ElemsType
  <1> QED BY <1>1, <1>2, <1>3

LEMMA KeptSame ==
  ASSUME NEW ps, NEW B, NEW pr, NEW pr2, NEW pass \in [SubIds -> Nat], NEW pass2 \in [SubIds -> Nat],
         SessionKept(ps, B, pr, pass), \A j \in B : pr2[j] = pr[j] /\ pass2[j] <= pass[j]
  PROVE  SessionKept(ps, B, pr2, pass2)
  <1>1. Sound(ps, B, pr) /\ SubsPerSession \in Nat
    BY SubscriptionsAssumption DEF SessionKept
  <1>2. \A e \in Elems(ps) : Holds(e, B, pr2)
    <2>1. ASSUME NEW e \in Elems(ps) PROVE {j \in B : pr2[j] = e.prio} = {j \in B : pr[j] = e.prio}
      OBVIOUS
    <2> QED BY <1>1, <2>1 DEF Sound, Holds
  <1>3. Sound(ps, B, pr2)
    <2>1. \A j \in B : \E e \in Elems(ps) : e.prio = pr2[j]
      BY <1>1 DEF Sound
    <2> QED BY <1>1, <1>2, <2>1 DEF Sound
  <1>4. ASSUME NEW e \in Elems(ps), NEW n \in 1..Len(e.queue)
        PROVE  pass2[e.queue[n]] + n <= SubsPerSession
    <2> DEFINE x == e.queue[n]
    <2>1. x \in B /\ x \in SubIds /\ n \in Nat
      BY <1>1, ElemsOfQueues
    <2>2. pass[x] + n <= SubsPerSession
      BY DEF SessionKept, Ranked, Placed
    <2> HIDE DEF x
    <2>3. pass2[x] <= pass[x] /\ pass[x] \in Nat /\ pass2[x] \in Nat
      BY <2>1
    <2>4. pass2[x] + n <= SubsPerSession
      BY <1>1, <2>1, <2>2, <2>3
    <2> QED BY <2>4 DEF x
  <1> QED BY <1>3, <1>4 DEF SessionKept, Ranked, Placed

LEMMA KeptEmpty ==
  ASSUME NEW pr, NEW pass
  PROVE  SessionKept(<<>>, {}, pr, pass)
  <1>1. <<>> \in Seq(PrioRec) /\ Elems(<<>>) = {} /\ Pairwise(<<>>, OtherPrio)
    BY DEF Elems, Pairwise
  <1>2. Cardinality({}) = 0 /\ SubsPerSession \in Nat
    BY FS_EmptySet, SubscriptionsAssumption
  <1> QED BY <1>1, <1>2 DEF SessionKept, Sound, Ranked

LEMMA KeptAdd ==
  ASSUME NEW ps, NEW B, NEW pr, NEW pr2, NEW pass \in [SubIds -> Nat], NEW pass2 \in [SubIds -> Nat],
         SessionKept(ps, B, pr, pass), IsFiniteSet(B), Cardinality(B) < SubsPerSession,
         NEW k \in SubIds, k \notin B, NEW p \in Priorities, pr2[k] = p, pass2[k] = 0,
         \A j \in B : pr2[j] = pr[j] /\ pass2[j] <= pass[j]
  PROVE  SessionKept(AddToPriority(ps, p, k), B \cup {k}, pr2, pass2)
  <1> DEFINE r == AddToPriority(ps, p, k)
  <1>1. Sound(ps, B, pr)
    BY DEF SessionKept
  <1>2. /\ Sound(r, B \cup {k}, pr2)
        /\ \A e \in Elems(r) : \/ e = [prio |-> p, queue |-> <<k>>]
                               \/ \E d \in Elems(ps) : e = Grown(d, p, k)
    BY <1>1, AddFacts
  <1> HIDE DEF r
  <1>3. Cardinality(B \cup {k}) <= SubsPerSession
    <2>1. Cardinality(B \cup {k}) = Cardinality(B) + 1 /\ Cardinality(B) \in Nat
      BY FS_AddElement, FS_CardinalityType
    <2> QED BY <2>1, SubscriptionsAssumption
  <1>4. ASSUME NEW e \in Elems(r) PROVE Placed(e.queue, pass2)
    <2>1. CASE e = [prio |-> p, queue |-> <<k>>]
      <3> DEFINE q == <<k>>
      <3>1. e.queue = q /\ Len(q) = 1 /\ q[1] = k
        BY <2>1
      <3> HIDE DEF q
      <3>2. 0 + 1 <= SubsPerSession /\ \A n \in 1..1 : n = 1
        BY SubscriptionsAssumption
      <3> QED BY <3>1, <3>2 DEF Placed
    <2>2. CASE \E d \in Elems(ps) : e = Grown(d, p, k)
      <3>1. PICK d \in Elems(ps) : e = Grown(d, p, k)
        BY <2>2
      <3>2. d \in PrioRec /\ Holds(d, B, pr)
        BY <1>1, ElemsOfQueues
      <3>3. Placed(d.queue, pass)
        BY DEF SessionKept, Ranked
      <3> QED BY <3>1, <3>2, <3>3, GrownPlaced
    <2> QED BY <1>2, <2>1, <2>2
  <1> QED BY <1>2, <1>3, <1>4 DEF SessionKept, Ranked, r

LEMMA KeptRemove ==
  ASSUME NEW ps, NEW B, NEW pr, NEW pass \in [SubIds -> Nat],
         SessionKept(ps, B, pr, pass), IsFiniteSet(B), NEW S
  PROVE  SessionKept(RemoveFromPriority(ps, S), B \ S, pr, pass)
  <1> DEFINE r == RemoveFromPriority(ps, S)
  <1>1. Sound(ps, B, pr)
    BY DEF SessionKept
  <1>2. Sound(r, B \ S, pr) /\ \A e \in Elems(r) : \E d \in Elems(ps) : e = Cut(d, S)
    BY <1>1, RemoveFacts
  <1> HIDE DEF r
  <1>3. Cardinality(B \ S) <= SubsPerSession
    <2>1. /\ Cardinality(B \ S) <= Cardinality(B) /\ IsFiniteSet(B \ S)
          /\ Cardinality(B) \in Nat /\ Cardinality(B \ S) \in Nat
      BY FS_Subset, FS_CardinalityType
    <2> QED BY <2>1, SubscriptionsAssumption DEF SessionKept
  <1>4. ASSUME NEW e \in Elems(r) PROVE Placed(e.queue, pass)
    <2>1. PICK d \in Elems(ps) : e = Cut(d, S)
      BY <1>2
    <2>2. d \in PrioRec /\ Placed(d.queue, pass)
      BY <1>1, ElemsOfQueues DEF SessionKept, Ranked
    <2>3. Elems(e.queue) \subseteq SubIds
      BY <1>2, ElemsOfQueues
    <2>4. \A j \in Elems(e.queue) : pass[j] <= pass[j]
      <3>1. \A j \in Elems(e.queue) : pass[j] \in Nat
        BY <2>3
      <3> QED BY <3>1
    <2> QED BY <2>1, <2>2, <2>4, CutPlaced
  <1> QED BY <1>2, <1>3, <1>4 DEF SessionKept, Ranked, r

LEMMA KeptServed ==
  ASSUME NEW ps, NEW B, NEW pr, NEW pass \in [SubIds -> Nat], NEW pass2 \in [SubIds -> Nat],
         SessionKept(ps, B, pr, pass), IsFiniteSet(B), NEW k \in SubIds, pass2[k] = 0,
         \A e \in Elems(ps) : \A n \in 1..Len(e.queue) : e.queue[n] # k =>
           \/ pass2[e.queue[n]] <= pass[e.queue[n]]
           \/ /\ pass2[e.queue[n]] <= pass[e.queue[n]] + 1
              /\ \E a \in 1..(n - 1) : e.queue[a] = k
  PROVE  SessionKept(ServedLast(ps, k), B, pr, pass2)
  <1> DEFINE r == ServedLast(ps, k)
  <1>1. Sound(ps, B, pr)
    BY DEF SessionKept
  <1>2. Sound(r, B, pr) /\ \A e \in Elems(r) : \E d \in Elems(ps) : e = Moved(d, k)
    BY <1>1, ServedFacts
  <1> HIDE DEF r
  <1>3. ASSUME NEW e \in Elems(r) PROVE Placed(e.queue, pass2)
    <2>1. PICK d \in Elems(ps) : e = Moved(d, k)
      BY <1>2
    <2>2. d \in PrioRec /\ Placed(d.queue, pass) /\ Holds(d, B, pr) /\ Elems(d.queue) \subseteq B
      BY <1>1, ElemsOfQueues DEF SessionKept, Ranked
    <2>3. d.queue \in Seq(SubIds) /\ Pairwise(d.queue, Unequal)
      BY <2>2 DEF PrioRec, Holds
    <2>4. Len(d.queue) <= SubsPerSession
      <3>1. Cardinality(Elems(d.queue)) <= Cardinality(B) /\ Cardinality(B) \in Nat
        BY <2>2, FS_Subset, FS_CardinalityType
      <3>2. Cardinality(Elems(d.queue)) = Len(d.queue) /\ Len(d.queue) \in Nat
        BY <2>3, QueueFacts
      <3>3. Cardinality(B) <= SubsPerSession /\ SubsPerSession \in Nat
        BY SubscriptionsAssumption DEF SessionKept
      <3> QED BY <3>1, <3>2, <3>3
    <2> QED BY <2>1, <2>2, <2>3, <2>4, MovedPlaced
  <1> QED BY <1>2, <1>3 DEF SessionKept, Ranked, r

-----------------------------------------------------------------------------
(* The requests of a session, while a handler answers them.                *)

Handling == [sub : SubRec, queue : Seq(ReqRec), answered : SUBSET Requests]

\* Of the requests q, those taken out have been answered and no other.
Left(p, q) == \E a \in Seq(ReqRec) : q = a \o p.queue /\ p.answered = Ids(a)

SameKey(u, v) == u.session = v.session /\ u.prio = v.prio

LEMMA IdsFacts ==
  ASSUME NEW a \in Seq(ReqRec), NEW b \in Seq(ReqRec)
  PROVE  /\ Ids(a) = {e.id : e \in Elems(a)} /\ Ids(a) \subseteq Requests
         /\ Ids(a \o b) = Ids(a) \cup Ids(b)
  <1>1. \A q \in Seq(ReqRec) : Ids(q) = {e.id : e \in Elems(q)}
    BY DEF Ids, Elems
  <1>2. Elems(a \o b) = Elems(a) \cup Elems(b) /\ a \o b \in Seq(ReqRec)
    BY ElemsConcat
  <1>3. Elems(a) \subseteq ReqRec
    BY ElemsType
  <1>4. Ids(a) \subseteq Requests
    <2>1. \A e \in Elems(a) : e.id \in Requests
      BY <1>3 DEF ReqRec
    <2>2. Ids(a) = {e.id : e \in Elems(a)}
      BY <1>1
    <2> QED BY <2>1, <2>2
  <1> HIDE DEF Ids
  <1>5. Ids(a) = {e.id : e \in Elems(a)} /\ Ids(b) = {e.id : e \in Elems(b)}
        /\ Ids(a \o b) = {e.id : e \in Elems(a \o b)}
    BY <1>1, <1>2
  <1> QED BY <1>2, <1>4, <1>5

\* A list of requests in front of the queue is answered.
LEMMA LeftOn ==
  ASSUME NEW p \in Handling, NEW q \in Seq(ReqRec), Left(p, q),
         NEW u \in Seq(ReqRec), NEW v \in Seq(ReqRec), p.queue = u \o v, NEW sub \in SubRec,
         NEW r, r = [sub |-> sub, queue |-> v, answered |-> p.answered \cup Ids(u)]
  PROVE  r \in Handling /\ Left(r, q)
  <1>1. PICK a \in Seq(ReqRec) : q = a \o p.queue /\ p.answered = Ids(a)
    BY DEF Left
  <1>2. Ids(a \o u) = Ids(a) \cup Ids(u) /\ Ids(u) \subseteq Requests /\ a \o u \in Seq(ReqRec)
    BY IdsFacts
  <1>3. (a \o u) \o v = a \o (u \o v)
    OBVIOUS
  <1>4. r \in Handling
    BY <1>2 DEF Handling
  <1>5. r.queue = v /\ r.answered = Ids(a \o u)
    BY <1>1, <1>2
  <1> QED BY <1>1, <1>2, <1>3, <1>4, <1>5 DEF Left

LEMMA PopFacts ==
  ASSUME NEW p \in Handling, NEW q \in Seq(ReqRec), Left(p, q)
  PROVE  /\ PopInvalid(p) \in Handling /\ Left(PopInvalid(p), q) /\ PopInvalid(p).sub = p.sub
         /\ Len(PopInvalid(p).queue) <= Len(p.queue)
  <1> DEFINE live == {i \in DOMAIN p.queue : ~ p.queue[i].expired}
             n    == IF live = {} THEN Len(p.queue)
                     ELSE (CHOOSE i \in live : \A j \in live : i <= j) - 1
             u == SubSeq(p.queue, 1, n)
             v == SubSeq(p.queue, n + 1, Len(p.queue))
  <1>1. p.queue \in Seq(ReqRec) /\ p.sub \in SubRec /\ Len(p.queue) \in Nat
    BY DEF Handling
  <1>2. n \in 0..Len(p.queue)
    <2>1. live \subseteq 1..Len(p.queue)
      BY <1>1
    <2> HIDE DEF live
    <2>2. CASE live # {}
      <3> DEFINE c == CHOOSE i \in live : \A j \in live : i <= j
      <3>0. live \subseteq Nat
        BY <2>1
      <3>1. \E i \in live : \A j \in live : i <= j
        BY <2>2, <3>0, LeastNatural
      <3>2. c \in live
        BY <3>1
      <3>3. n = c - 1
        BY <2>2
      <3> HIDE DEF c, n
      <3>4. c \in 1..Len(p.queue)
        BY <2>1, <3>2
      <3> QED BY <1>1, <3>3, <3>4
    <2> QED BY <1>1, <2>2
  <1>3. PopInvalid(p) = [p EXCEPT !.queue = v, !.answered = @ \cup Ids(u)]
    BY DEF PopInvalid
  <1> HIDE DEF n
  <1>4. /\ u \in Seq(ReqRec) /\ v \in Seq(ReqRec) /\ u \o v = p.queue
        /\ Len(v) = Len(p.queue) - n
    BY <1>1, <1>2, SplitSeq
  <1> HIDE DEF u, v
  <1>5. PopInvalid(p) = [sub |-> p.sub, queue |-> v, answered |-> p.answered \cup Ids(u)]
    BY <1>3 DEF Handling
  <1>6. PopInvalid(p) \in Handling /\ Left(PopInvalid(p), q)
    BY <1>1, <1>4, <1>5, LeftOn
  <1>7. PopInvalid(p).sub = p.sub /\ PopInvalid(p).queue = v
    BY <1>5
  <1> QED BY <1>1, <1>2, <1>4, <1>6, <1>7

LEMMA AnswerFacts ==
  ASSUME NEW p \in Handling, NEW q \in Seq(ReqRec), Left(p, q), p.queue # <<>>, NEW sub \in SubRec
  PROVE  /\ Answer(p, sub) \in Handling /\ Left(Answer(p, sub), q) /\ Answer(p, sub).sub = sub
         /\ Len(Answer(p, sub).queue) < Len(p.queue)
  <1> DEFINE u == <<Head(p.queue)>>
             v == Tail(p.queue)
  <1>1. p.queue \in Seq(ReqRec)
    BY DEF Handling
  <1>2. u \in Seq(ReqRec) /\ v \in Seq(ReqRec) /\ p.queue = u \o v /\ Len(v) < Len(p.queue)
    BY <1>1
  <1>3. Ids(u) = {Head(p.queue).id}
    <2>1. DOMAIN u = {1} /\ u[1] = Head(p.queue)
      OBVIOUS
    <2> HIDE DEF u
    <2> QED BY <2>1 DEF Ids
  <1>4. Answer(p, sub) = [sub |-> sub, queue |-> v, answered |-> p.answered \cup Ids(u)]
    BY <1>3 DEF Answer
  <1> HIDE DEF u, v
  <1>5. Answer(p, sub) \in Handling /\ Left(Answer(p, sub), q)
    BY <1>2, <1>4, LeftOn
  <1>6. Answer(p, sub).sub = sub /\ Answer(p, sub).queue = v
    BY <1>4
  <1> QED BY <1>2, <1>5, <1>6

LEMMA MessageFacts ==
  ASSUME NEW sub \in SubRec
  PROVE  LET r == NotificationMessage(sub)
         IN  r \in SubRec /\ SameKey(r, sub) /\ r.state = "normal"
  <1> DEFINE n == IF sub.avail > sub.size THEN sub.size ELSE sub.avail
             m == sub.avail > sub.size
  <1>1. sub.avail \in Int /\ sub.size \in Nat
    BY DEF SubRec
  <1>2. n \in Int /\ m \in BOOLEAN /\ sub.avail - n \in Int
    BY <1>1
  <1>3. NotificationMessage(sub) = [sub EXCEPT !.avail = sub.avail - n, !.more = m, !.sent = TRUE, !.state = "normal"]
    BY DEF NotificationMessage
  <1> HIDE DEF n, m
  <1> QED BY <1>2, <1>3 DEF SubRec, SameKey

LEMMA ReportFacts ==
  ASSUME NEW p \in Handling, NEW q \in Seq(ReqRec), Left(p, q), p.queue # <<>>
  PROVE  /\ Report(p) \in Handling /\ Left(Report(p), q) /\ SameKey(Report(p).sub, p.sub)
         /\ Report(p).sub.state = "normal" /\ Len(Report(p).queue) < Len(p.queue)
  <1> DEFINE m == NotificationMessage(p.sub)
             r == Answer(p, m)
  <1>1. p.sub \in SubRec
    BY DEF Handling
  <1>2. m \in SubRec /\ SameKey(m, p.sub) /\ m.state = "normal"
    BY <1>1, MessageFacts
  <1> HIDE DEF m
  <1>3. r \in Handling /\ Left(r, q) /\ r.sub = m /\ Len(r.queue) < Len(p.queue)
    BY <1>2, AnswerFacts
  <1>4. Report(p) = IF r.sub.more THEN PopInvalid(r) ELSE r
    BY DEF Report, m
  <1> HIDE DEF r
  <1>5. /\ PopInvalid(r) \in Handling /\ Left(PopInvalid(r), q) /\ PopInvalid(r).sub = r.sub
        /\ Len(PopInvalid(r).queue) <= Len(r.queue)
    BY <1>3, PopFacts
  <1>6. Len(PopInvalid(r).queue) \in Nat /\ Len(r.queue) \in Nat /\ Len(p.queue) \in Nat
    BY <1>3, <1>5 DEF Handling
  <1>7. Len(PopInvalid(r).queue) < Len(p.queue)
    BY <1>3, <1>5, <1>6
  <1> QED BY <1>2, <1>3, <1>4, <1>5, <1>7

\* What the recursion of ReportAll computes.
LEMMA ReportSteps ==
  ASSUME NEW p \in Handling, NEW q \in Seq(ReqRec), Left(p, q), p.queue # <<>>
  PROVE  \E g : /\ g[0] = Report(p) /\ ReportAll(p) = g[Len(p.queue)]
                /\ \A i \in 1..Len(p.queue) :
                     g[i] = IF g[i - 1].sub.more /\ g[i - 1].queue # <<>>
                            THEN Report(g[i - 1]) ELSE g[i - 1]
  <1> DEFINE n == Len(p.queue)
             S == {x \in Handling : Left(x, q)}
             b == Report(p)
             step(x) == IF x.sub.more /\ x.queue # <<>> THEN Report(x) ELSE x
             Run(g) == g = [i \in 0..n |-> IF i = 0 THEN b ELSE step(g[i - 1])]
             c == CHOOSE g : Run(g)
             f == [x \in S \X (1..n) |-> step(x[1])]
  <1>1. n \in Nat
    BY DEF Handling
  <1>2. b \in S /\ \A x \in S : step(x) \in S
    BY ReportFacts
  <1> HIDE DEF step, S, n, b
  <1>3. f \in [S \X (1..n) -> S] /\ \A x \in S, i \in 1..n : f[<<x, i>>] = step(x)
    BY <1>2
  <1> HIDE DEF f
  <1>4. PICK g \in [0..n -> S] : Stepwise(b, f, g, n)
    BY <1>1, <1>2, <1>3, RecursionTyped
  <1>5. ASSUME NEW i \in 0..n PROVE g[i] = IF i = 0 THEN b ELSE step(g[i - 1])
    <2>1. CASE i # 0
      <3>1. i \in 1..n /\ i - 1 \in 0..n
        BY <1>1, <2>1
      <3>2. g[i - 1] \in S
        BY <1>4, <3>1
      <3> QED BY <1>3, <1>4, <2>1, <3>1, <3>2 DEF Stepwise
    <2> QED BY <1>4, <2>1 DEF Stepwise
  <1>6. Run(g)
    <2>1. g = [i \in 0..n |-> g[i]]
      BY <1>4
    <2> QED BY <1>5, <2>1
  <1>7. Run(c)
    BY <1>6
  <1>8. ReportAll(p) = c[n]
    BY DEF ReportAll, n, step, b
  <1> HIDE DEF c
  <1>9. \A i \in 0..n : c[i] = IF i = 0 THEN b ELSE step(c[i - 1])
    BY <1>7, Zenon
  <1> HIDE DEF Run
  <1>10. 0 \in 0..n /\ \A i \in 1..n : i \in 0..n /\ i # 0
    BY <1>1
  <1>11. c[0] = b /\ \A i \in 1..n : c[i] = step(c[i - 1])
    BY <1>9, <1>10
  <1> QED BY <1>8, <1>11 DEF n, step, b

\* It stops when nothing is left to send, or no request to send it with.
LEMMA ReportAllFacts ==
  ASSUME NEW p \in Handling, NEW q \in Seq(ReqRec), Left(p, q), p.queue # <<>>
  PROVE  /\ ReportAll(p) \in Handling /\ Left(ReportAll(p), q) /\ SameKey(ReportAll(p).sub, p.sub)
         /\ ReportAll(p).sub.state = "normal"
         /\ ReportAll(p).sub.more => ReportAll(p).queue = <<>>
  <1> DEFINE n == Len(p.queue)
             More(x) == x.sub.more /\ x.queue # <<>>
             Good(k, x) == /\ x \in Handling /\ Left(x, q) /\ SameKey(x.sub, p.sub)
                           /\ x.sub.state = "normal"
                           /\ More(x) => Len(x.queue) < n - k
  <1>1. n \in Nat
    BY DEF Handling
  <1>2. PICK g : /\ g[0] = Report(p) /\ ReportAll(p) = g[n]
                 /\ \A i \in 1..n : g[i] = IF More(g[i - 1]) THEN Report(g[i - 1]) ELSE g[i - 1]
    BY ReportSteps
  <1> HIDE DEF n
  <1> DEFINE T == {k \in Nat : k <= n => Good(k, g[k])}
  <1>3. 0 \in T
    <2>1. Good(0, Report(p))
      <3>1. /\ Report(p) \in Handling /\ Left(Report(p), q) /\ SameKey(Report(p).sub, p.sub)
            /\ Report(p).sub.state = "normal" /\ Len(Report(p).queue) < n - 0
        BY <1>1, ReportFacts DEF n
      <3> QED BY <3>1
    <2> HIDE DEF Good
    <2> QED BY <1>2, <2>1
  <1>4. ASSUME NEW k \in 0..(n - 1), k \in T PROVE k + 1 \in T
    <2> DEFINE x == g[k]
               y == g[k + 1]
    <2>1. k \in Nat /\ k + 1 \in 1..n /\ (k + 1) - 1 = k /\ k + 1 \in Nat /\ k <= n
      BY <1>1
    <2>2. Good(k, x)
      BY <1>4, <2>1
    <2>3. y = IF More(x) THEN Report(x) ELSE x
      BY <1>2, <2>1
    <2> HIDE DEF x, y
    <2>4. Good(k + 1, y)
      <3>1. CASE More(x)
        <4>1. /\ y \in Handling /\ Left(y, q) /\ SameKey(y.sub, x.sub)
              /\ y.sub.state = "normal" /\ Len(y.queue) < Len(x.queue)
          BY <2>2, <2>3, <3>1, ReportFacts
        <4>2. SameKey(y.sub, p.sub)
          BY <2>2, <4>1 DEF SameKey
        <4>3. Len(x.queue) < n - k /\ Len(x.queue) \in Nat /\ Len(y.queue) \in Nat
          BY <2>2, <3>1, <4>1 DEF Handling
        <4>4. Len(y.queue) < n - (k + 1)
          BY <1>1, <2>1, <4>1, <4>3
        <4> QED BY <4>1, <4>2, <4>4
      <3>2. CASE ~ More(x)
        BY <2>2, <2>3, <3>2
      <3> QED BY <3>1, <3>2
    <2> HIDE DEF Good
    <2> QED BY <2>1, <2>4 DEF y
  <1> HIDE DEF T
  <1>5. \A k \in 0..n : k \in T
    BY <1>1, <1>3, <1>4, InductionTo
  <1>6. n \in 0..n /\ n <= n
    BY <1>1
  <1>7. Good(n, g[n])
    <2> HIDE DEF Good
    <2> QED BY <1>5, <1>6 DEF T
  <1>8. ~ More(g[n])
    <2>1. Len(g[n].queue) \in Nat
      BY <1>7 DEF Handling
    <2>2. ~ (Len(g[n].queue) < n - n)
      BY <1>1, <2>1
    <2> QED BY <1>7, <2>2
  <1> QED BY <1>2, <1>7, <1>8

\* A tick of a subscription answers requests in their order; if the
\* subscription could use one more, there is none left.
LEMMA TickFacts ==
  ASSUME NEW p \in Handling, NEW q \in Seq(ReqRec), Left(p, q), p.queue # <<>> => ~ Attentive(p.sub)
  PROVE  /\ Tick(p) \in Handling /\ Left(Tick(p), q) /\ SameKey(Tick(p).sub, p.sub)
         /\ Attentive(Tick(p).sub) => Tick(p).queue = <<>>
  <1> DEFINE sub == p.sub
  <1>1. sub \in SubRec
    BY DEF Handling
  <1>2. CASE p.queue # <<>> /\ HasMessage(sub) /\ Reportable(sub)
    <2>1. Tick(p) = ReportAll(p)
      BY <1>2 DEF Tick
    <2>2. /\ ReportAll(p) \in Handling /\ Left(ReportAll(p), q) /\ SameKey(ReportAll(p).sub, p.sub)
          /\ ReportAll(p).sub.state = "normal"
          /\ ReportAll(p).sub.more => ReportAll(p).queue = <<>>
      BY <1>2, ReportAllFacts
    <2> QED BY <2>1, <2>2 DEF Attentive
  <1>3. CASE p.queue # <<>> /\ HasMessage(sub) /\ ~ Reportable(sub)
    <2> DEFINE m == KeepAliveMessage(sub)
    <2>1. Tick(p) = Answer(p, m)
      BY <1>3 DEF Tick
    <2>2. m \in SubRec /\ SameKey(m, sub) /\ (Attentive(m) <=> Attentive(sub))
      <3>1. sub.keep \in Int /\ sub.maxKeep \in Int
        BY <1>1 DEF SubRec
      <3>2. m = [sub EXCEPT !.sent = TRUE, !.keep = IF sub.state = "keepAlive" THEN sub.maxKeep ELSE sub.keep]
        BY DEF KeepAliveMessage
      <3> DEFINE z == IF sub.state = "keepAlive" THEN sub.maxKeep ELSE sub.keep
      <3>3. z \in Int
        BY <3>1
      <3> HIDE DEF sub, z
      <3> QED BY <1>1, <3>2, <3>3 DEF SubRec, SameKey, Attentive, z
    <2> HIDE DEF m
    <2>3. Answer(p, m) \in Handling /\ Left(Answer(p, m), q) /\ Answer(p, m).sub = m
      BY <1>3, <2>2, AnswerFacts
    <2> QED BY <1>3, <2>1, <2>2, <2>3
  <1>4. CASE ~ (p.queue # <<>> /\ HasMessage(sub))
    <2> DEFINE t == TickWaiting(sub, p.queue # <<>>)
    <2>1. Tick(p) = [p EXCEPT !.sub = t]
      BY <1>4 DEF Tick
    <2>2. t \in SubRec /\ SameKey(t, sub) /\ (p.queue # <<>> => ~ Attentive(t))
      <3> DEFINE valid == p.queue # <<>>
      <3>1. valid \in BOOLEAN /\ ~ (valid /\ HasMessage(sub)) /\ (valid => ~ Attentive(sub))
        BY <1>4
      <3>2. sub.keep \in Int /\ sub.maxKeep \in Nat /\ sub.state \in {"normal", "late", "keepAlive"}
        BY <1>1 DEF SubRec
      <3>3. sub.keep - 1 \in Int /\ sub.maxKeep - 1 \in Int
        BY <3>2
      <3> HIDE DEF sub, valid
      <3>4. CASE sub.state = "late"
        <4>1. TickWaiting(sub, valid) = sub
          BY <3>4 DEF TickWaiting
        <4> QED BY <1>1, <3>1, <4>1 DEF SameKey, valid
      <3>5. CASE sub.state # "late" /\ ~ valid /\ HasMessage(sub)
        <4>1. TickWaiting(sub, valid) = [sub EXCEPT !.state = "late"]
          <5>1. /\ ~ (sub.state = "normal" /\ sub.sent /\ ~ Reportable(sub))
                /\ ~ (sub.state = "keepAlive" /\ sub.keep > 1 /\ ~ Reportable(sub))
            BY <3>2, <3>5 DEF HasMessage
          <5> DEFINE h == HasMessage(sub)
          <5> HIDE DEF h
          <5>2. h = TRUE
            BY <3>5 DEF h
          <5> QED BY <3>5, <5>1, <5>2 DEF TickWaiting, h
        <4> QED BY <1>1, <3>5, <4>1 DEF SameKey, SubRec, valid
      <3>6. CASE sub.state = "normal" /\ ~ HasMessage(sub)
        <4>1. sub.sent /\ ~ Reportable(sub)
          BY <3>6 DEF HasMessage
        <4>2. TickWaiting(sub, valid) = [sub EXCEPT !.state = "keepAlive", !.keep = sub.maxKeep - 1]
          BY <3>6, <4>1 DEF TickWaiting
        <4> QED BY <1>1, <3>3, <4>2 DEF SameKey, SubRec, Attentive, valid
      <3>7. CASE sub.state = "keepAlive" /\ ~ HasMessage(sub)
        <4>1. sub.keep > 1 /\ ~ Reportable(sub)
          BY <3>2, <3>7 DEF HasMessage
        <4>2. TickWaiting(sub, valid) = [sub EXCEPT !.keep = sub.keep - 1]
          BY <3>7, <4>1 DEF TickWaiting
        <4> QED BY <1>1, <3>3, <3>7, <4>2 DEF SameKey, SubRec, Attentive, valid
      <3>8. t = TickWaiting(sub, valid)
        BY DEF valid
      <3> QED BY <3>1, <3>2, <3>4, <3>5, <3>6, <3>7, <3>8
    <2> HIDE DEF t
    <2>3. /\ Tick(p) \in Handling /\ Tick(p).sub = t /\ Tick(p).queue = p.queue
          /\ Tick(p).answered = p.answered
      BY <2>1, <2>2 DEF Handling
    <2>4. Left(Tick(p), q)
      BY <2>3 DEF Left
    <2> QED BY <2>2, <2>3, <2>4
  <1> QED BY <1>2, <1>3, <1>4

-----------------------------------------------------------------------------
(* What the steps have in common.                                          *)

LEMMA HistoryFacts ==
  ASSUME Types, NEW j, History(j)
  PROVE  /\ passed' \in [SubIds -> Nat]
         /\ \A k \in SubIds :
              /\ passed'[k] <= passed[k] + 1
              /\ j = 0 => passed'[k] <= passed[k]
              /\ k \in DOMAIN subs /\ (subs[j].session # subs[k].session \/ subs[j].prio # subs[k].prio)
                   => passed'[k] <= passed[k]
              /\ ~ (/\ k \in DOMAIN subs /\ k \in DOMAIN subs' /\ k # j
                    /\ Attentive(subs[k]) /\ Attentive(subs'[k]) /\ subs[k].prio = subs'[k].prio)
                   => passed'[k] = 0
  <1> DEFINE Still(k) == /\ k \in DOMAIN subs /\ k \in DOMAIN subs' /\ k # j
                         /\ Attentive(subs[k]) /\ Attentive(subs'[k])
                         /\ subs[k].prio = subs'[k].prio
             Passes(k) == j # 0 /\ subs[j].session = subs[k].session /\ subs[j].prio = subs[k].prio
  <1>1. passed' = [k \in SubIds |-> IF Still(k) THEN IF Passes(k) THEN passed[k] + 1 ELSE passed[k] ELSE 0]
    BY DEF History
  <1>2. \A k \in SubIds : passed[k] \in Nat
    BY DEF Types
  <1>3. \A k \in SubIds : Passes(k) => ~ (j = 0) /\ ~ (subs[j].session # subs[k].session \/ subs[j].prio # subs[k].prio)
    OBVIOUS
  <1>4. \A k \in SubIds : ~ (/\ k \in DOMAIN subs /\ k \in DOMAIN subs' /\ k # j
                             /\ Attentive(subs[k]) /\ Attentive(subs'[k]) /\ subs[k].prio = subs'[k].prio)
                          => ~ Still(k)
    OBVIOUS
  <1> HIDE DEF Still, Passes
  <1>5. ASSUME NEW k \in SubIds
        PROVE  /\ passed'[k] \in Nat /\ passed'[k] <= passed[k] + 1
               /\ ~ Passes(k) => passed'[k] <= passed[k]
               /\ ~ Still(k) => passed'[k] = 0
    <2>1. passed'[k] = IF Still(k) THEN IF Passes(k) THEN passed[k] + 1 ELSE passed[k] ELSE 0
      BY <1>1
    <2>2. passed[k] \in Nat
      BY <1>2
    <2> QED BY <2>1, <2>2
  <1>6. passed' \in [SubIds -> Nat]
    BY <1>1, <1>5
  <1> QED BY <1>3, <1>4, <1>5, <1>6

\* A session whose queues are not touched.
LEMMA KeptElsewhere ==
  ASSUME Types, QueuesKept, NEW s \in Sessions, passed' \in [SubIds -> Nat],
         prios'[s] = prios[s], SubsOf(s)' = SubsOf(s),
         \A j \in SubsOf(s) : subs'[j].prio = subs[j].prio /\ passed'[j] <= passed[j]
  PROVE  SessionKept(prios'[s], SubsOf(s)', PrioOf', passed')
  <1>1. SessionKept(prios[s], SubsOf(s), PrioOf, passed) /\ passed \in [SubIds -> Nat]
    BY DEF QueuesKept, Types
  <1>2. \A j \in SubsOf(s) : j \in DOMAIN subs /\ j \in DOMAIN subs'
    <2>1. \A j \in SubsOf(s)' : j \in DOMAIN subs'
      BY DEF SubsOf
    <2> QED BY <2>1 DEF SubsOf
  <1>3. \A j \in SubsOf(s) : PrioOf'[j] = PrioOf[j] /\ passed'[j] <= passed[j]
    BY <1>2 DEF PrioOf
  <1> HIDE DEF SubsOf, PrioOf
  <1>4. SessionKept(prios[s], SubsOf(s), PrioOf', passed')
    BY <1>1, <1>3, KeptSame
  <1> QED BY <1>4

\* Subscriptions that keep their session and priority.
SameSubs == /\ DOMAIN subs' = DOMAIN subs
            /\ \A k \in DOMAIN subs : SameKey(subs'[k], subs[k])

LEMMA SameSubsFacts ==
  ASSUME SameSubs
  PROVE  /\ \A s : SubsOf(s)' = SubsOf(s)
         /\ PrioOf' = PrioOf
  BY DEF SameSubs, SameKey, SubsOf, PrioOf

LEMMA QueuesQuiet ==
  ASSUME Types, QueuesKept, SameSubs, prios' = prios, History(0)
  PROVE  QueuesKept'
  <1>1. passed' \in [SubIds -> Nat] /\ \A k \in SubIds : passed'[k] <= passed[k]
    BY HistoryFacts
  <1> SUFFICES ASSUME NEW s \in Sessions PROVE SessionKept(prios'[s], SubsOf(s)', PrioOf', passed')
    BY DEF QueuesKept
  <1>2. SubsOf(s)' = SubsOf(s) /\ prios'[s] = prios[s]
    BY SameSubsFacts
  <1>3. \A j \in SubsOf(s) : j \in SubIds /\ j \in DOMAIN subs
    BY SubsOfFacts
  <1>4. \A j \in SubsOf(s) : subs'[j].prio = subs[j].prio /\ passed'[j] <= passed[j]
    BY <1>1, <1>3 DEF SameSubs, SameKey
  <1> QED BY <1>1, <1>2, <1>4, KeptElsewhere

\* The requests are not touched.
LEMMA RequestsQuiet ==
  ASSUME RequestsKept, \A s \in Sessions : SubsOf(s)' = {} <=> SubsOf(s) = {},
         reqq' = reqq, pending' = pending
  PROVE  RequestsKept'
  <1>1. {s \in Sessions : SubsOf(s) # {}}' = {s \in Sessions : SubsOf(s) # {}}
    OBVIOUS
  <1> QED BY <1>1 DEF RequestsKept, Ids

LEMMA ForgottenQuiet ==
  ASSUME ForgottenKept, waiting' = waiting, forgotten' = forgotten
  PROVE  ForgottenKept' /\ pending' = pending
  BY DEF ForgottenKept, pending

\* The client of a session gets the answers X and sends the requests Y.
LEMMA ForgottenMoved ==
  ASSUME ForgottenKept, NEW s \in Sessions, NEW X, X \subseteq pending[s],
         NEW Y \in SUBSET Requests, Y \cap forgotten[s] = {},
         waiting' = [waiting EXCEPT ![s] = (@ \ X) \cup Y], forgotten' = forgotten
  PROVE  ForgottenKept' /\ pending' = [pending EXCEPT ![s] = (@ \ X) \cup Y]
  <1>1. /\ waiting \in [Sessions -> SUBSET Requests] /\ forgotten \in [Sessions -> SUBSET Requests]
        /\ \A t \in Sessions : forgotten[t] \subseteq waiting[t]
    BY DEF ForgottenKept
  <1>2. waiting'[s] = (waiting[s] \ X) \cup Y /\ \A t \in Sessions : t # s => waiting'[t] = waiting[t]
    BY <1>1
  <1>3. X \cap forgotten[s] = {}
    BY DEF pending
  <1>4. \A t \in Sessions : forgotten'[t] \subseteq waiting'[t]
    BY <1>1, <1>2, <1>3
  <1>5. waiting' \in [Sessions -> SUBSET Requests] /\ forgotten' \in [Sessions -> SUBSET Requests]
    BY <1>1
  <1>6. \A t \in Sessions : pending'[t] = IF t = s THEN (pending[s] \ X) \cup Y ELSE pending[t]
    BY <1>2 DEF pending
  <1>7. pending' = [pending EXCEPT ![s] = (@ \ X) \cup Y]
    BY <1>6 DEF pending
  <1> QED BY <1>4, <1>5, <1>7 DEF ForgottenKept

\* The client of a session is gone.
LEMMA ForgottenCleared ==
  ASSUME ForgottenKept, NEW s \in Sessions, waiting' = [waiting EXCEPT ![s] = {}],
         forgotten' = [forgotten EXCEPT ![s] = {}]
  PROVE  ForgottenKept' /\ pending' = [pending EXCEPT ![s] = {}]
  <1>1. /\ waiting \in [Sessions -> SUBSET Requests] /\ forgotten \in [Sessions -> SUBSET Requests]
        /\ \A t \in Sessions : forgotten[t] \subseteq waiting[t]
    BY DEF ForgottenKept
  <1>2. /\ waiting'[s] = {} /\ forgotten'[s] = {}
        /\ \A t \in Sessions : t # s => waiting'[t] = waiting[t] /\ forgotten'[t] = forgotten[t]
    BY <1>1
  <1>3. \A t \in Sessions : forgotten'[t] \subseteq waiting'[t]
    BY <1>1, <1>2
  <1>4. waiting' \in [Sessions -> SUBSET Requests] /\ forgotten' \in [Sessions -> SUBSET Requests]
    BY <1>1
  <1>5. \A t \in Sessions : pending'[t] = IF t = s THEN {} ELSE pending[t]
    BY <1>2 DEF pending
  <1>6. pending' = [pending EXCEPT ![s] = {}]
    BY <1>5 DEF pending
  <1> QED BY <1>3, <1>4, <1>6 DEF ForgottenKept

\* Nothing is added to what a subscription has to say, and no request moves.
LEMMA QuietStep ==
  ASSUME SubsInv, Types', SameSubs, prios' = prios, reqq' = reqq, waiting' = waiting,
         forgotten' = forgotten, History(0),
         \A k \in DOMAIN subs : Attentive(subs'[k]) => Attentive(subs[k])
  PROVE  SubsInv'
  <1>1. QueuesKept'
    BY QueuesQuiet DEF SubsInv
  <1>2. ForgottenKept' /\ pending' = pending
    BY ForgottenQuiet DEF SubsInv
  <1>3. RequestsKept'
    BY <1>2, SameSubsFacts, RequestsQuiet DEF SubsInv
  <1>4. AttentiveNoRequest'
    <2>1. \A k \in DOMAIN subs : Attentive(subs[k]) => reqq[subs[k].session] = <<>>
      BY DEF SubsInv, AttentiveNoRequest
    <2> QED BY <2>1 DEF AttentiveNoRequest, SameSubs, SameKey
  <1> QED BY <1>1, <1>2, <1>3, <1>4 DEF SubsInv

-----------------------------------------------------------------------------
(* Steps that leave the requests and the queues of priorities alone.       *)

\* Types of a step that only changes one subscription.
LEMMA OneSubTypes ==
  ASSUME Types, NEW k \in DOMAIN subs, NEW v \in SubRec, subs' = [subs EXCEPT ![k] = v], SameKey(v, subs[k])
  PROVE  /\ DOMAIN subs' \subseteq SubIds /\ subs' \in [DOMAIN subs' -> SubRec] /\ SameSubs
         /\ subs'[k] = v /\ \A j \in DOMAIN subs : j # k => subs'[j] = subs[j]
  BY DEF Types, SameSubs, SameKey

LEMMA ActivateSessionKeeps ==
  ASSUME SubsInv, NEW s \in Sessions, ActivateSession(s), History(0)
  PROVE  SubsInv'
  <1>1. Types'
    <2>1. passed' \in [SubIds -> Nat]
      BY HistoryFacts DEF SubsInv
    <2> QED BY <2>1 DEF SubsInv, Types, pending, ActivateSession
  <1>2. SameSubs /\ \A k \in DOMAIN subs : Attentive(subs'[k]) => Attentive(subs[k])
    BY DEF ActivateSession, SameSubs, SameKey
  <1> QED BY <1>1, <1>2, QuietStep DEF ActivateSession

LEMMA ClientsGoKeeps ==
  ASSUME SubsInv, ClientsGo, History(0)
  PROVE  SubsInv'
  <1>1. Types'
    <2>1. passed' \in [SubIds -> Nat]
      BY HistoryFacts DEF SubsInv
    <2> QED BY <2>1 DEF SubsInv, Types, pending, ClientsGo
  <1>2. SameSubs /\ \A k \in DOMAIN subs : Attentive(subs'[k]) => Attentive(subs[k])
    BY DEF ClientsGo, SameSubs, SameKey
  <1> QED BY <1>1, <1>2, QuietStep DEF ClientsGo

LEMMA RepublishKeeps ==
  ASSUME SubsInv, NEW k \in DOMAIN subs, Republish(k), History(0)
  PROVE  SubsInv'
  <1> DEFINE v == [subs[k] EXCEPT !.life = subs[k].maxLife]
  <1>1. Types /\ subs[k] \in SubRec
    BY DEF SubsInv, Types
  <1>2. v \in SubRec /\ SameKey(v, subs[k]) /\ (Attentive(v) => Attentive(subs[k]))
    BY <1>1 DEF SubRec, SameKey, Attentive
  <1>3. subs' = [subs EXCEPT ![k] = v]
    BY DEF Republish
  <1> HIDE DEF v
  <1>4. /\ DOMAIN subs' \subseteq SubIds /\ subs' \in [DOMAIN subs' -> SubRec] /\ SameSubs
        /\ subs'[k] = v /\ \A j \in DOMAIN subs : j # k => subs'[j] = subs[j]
    BY <1>1, <1>2, <1>3, OneSubTypes
  <1>5. Types'
    <2>1. passed' \in [SubIds -> Nat]
      BY <1>1, HistoryFacts
    <2> QED BY <1>1, <1>4, <2>1 DEF Types, pending, Republish
  <1>6. \A j \in DOMAIN subs : Attentive(subs'[j]) => Attentive(subs[j])
    BY <1>2, <1>4
  <1> QED BY <1>4, <1>5, <1>6, QuietStep DEF Republish

LEMMA ItemsChangedKeeps ==
  ASSUME SubsInv, NEW k \in DOMAIN subs, NEW n \in 0..MaxAvail, ItemsChanged(k, n), History(0)
  PROVE  SubsInv'
  <1> DEFINE v == [subs[k] EXCEPT !.avail = n]
  <1>1. Types /\ subs[k] \in SubRec
    BY DEF SubsInv, Types
  <1>2. v \in SubRec /\ SameKey(v, subs[k]) /\ (Attentive(v) => Attentive(subs[k]))
    BY <1>1 DEF SubRec, SameKey, Attentive
  <1>3. subs' = [subs EXCEPT ![k] = v]
    BY DEF ItemsChanged
  <1> HIDE DEF v
  <1>4. /\ DOMAIN subs' \subseteq SubIds /\ subs' \in [DOMAIN subs' -> SubRec] /\ SameSubs
        /\ subs'[k] = v /\ \A j \in DOMAIN subs : j # k => subs'[j] = subs[j]
    BY <1>1, <1>2, <1>3, OneSubTypes
  <1>5. Types'
    <2>1. passed' \in [SubIds -> Nat]
      BY <1>1, HistoryFacts
    <2> QED BY <1>1, <1>4, <2>1 DEF Types, pending, ItemsChanged
  <1>6. \A j \in DOMAIN subs : Attentive(subs'[j]) => Attentive(subs[j])
    BY <1>2, <1>4
  <1> QED BY <1>4, <1>5, <1>6, QuietStep DEF ItemsChanged

LEMMA SetPublishingModeKeeps ==
  ASSUME SubsInv, NEW s \in Sessions, NEW en \in BOOLEAN, NEW S \in SUBSET SubsOf(s),
         SetPublishingMode(s, S, en), History(0)
  PROVE  SubsInv'
  <1>1. Types /\ \A k \in DOMAIN subs : subs[k] \in SubRec
    BY DEF SubsInv, Types
  <1>2. ASSUME NEW v \in SubRec
        PROVE  /\ PublishingSet(v, en) \in SubRec /\ SameKey(PublishingSet(v, en), v)
               /\ Attentive(PublishingSet(v, en)) => Attentive(v)
    <2> DEFINE r == PublishingSet(v, en)
    <2>1. v.maxLife \in Int
      BY DEF SubRec
    <2>2. r \in SubRec
      BY <2>1 DEF PublishingSet, SubRec
    <2>3. r.state = v.state /\ r.more = FALSE /\ r.session = v.session /\ r.prio = v.prio
      BY DEF PublishingSet, SubRec
    <2> HIDE DEF r
    <2>4. SameKey(r, v) /\ (Attentive(r) => Attentive(v))
      BY <2>3 DEF SameKey, Attentive
    <2> QED BY <2>2, <2>4 DEF r
  <1>3. subs' = [k \in DOMAIN subs |-> IF k \in S THEN PublishingSet(subs[k], en) ELSE subs[k]]
    BY DEF SetPublishingMode
  <1>4. ASSUME NEW k \in DOMAIN subs
        PROVE  /\ subs'[k] \in SubRec /\ SameKey(subs'[k], subs[k])
               /\ Attentive(subs'[k]) => Attentive(subs[k])
    <2>1. CASE k \in S
      BY <1>1, <1>2, <1>3, <2>1
    <2>2. CASE k \notin S
      BY <1>1, <1>3, <2>2 DEF SameKey
    <2> QED BY <2>1, <2>2
  <1>5. DOMAIN subs' = DOMAIN subs /\ subs' \in [DOMAIN subs' -> SubRec]
    BY <1>3, <1>4
  <1>6. Types'
    <2>1. passed' \in [SubIds -> Nat]
      BY <1>1, HistoryFacts
    <2> QED BY <1>1, <1>5, <2>1 DEF Types, pending, SetPublishingMode
  <1>7. SameSubs
    BY <1>4, <1>5 DEF SameSubs
  <1> QED BY <1>4, <1>6, <1>7, QuietStep DEF SetPublishingMode

-----------------------------------------------------------------------------
(* Steps that move requests.                                               *)

\* One session has another list of requests; what the client waits for
\* follows.
LEMMA RequestsMoved ==
  ASSUME Types, RequestsKept, \A t \in Sessions : SubsOf(t)' = {} <=> SubsOf(t) = {},
         NEW s \in DOMAIN reqq, NEW q \in Seq(ReqRec), reqq' = [reqq EXCEPT ![s] = q],
         pending' = [pending EXCEPT ![s] = Ids(q)],
         Len(q) <= ReqsPerSession, Pairwise(q, OtherId)
  PROVE  RequestsKept'
  <1>1. DOMAIN reqq \subseteq Sessions /\ pending \in [Sessions -> SUBSET Requests]
    BY DEF Types
  <1>2. /\ DOMAIN reqq' = DOMAIN reqq /\ reqq'[s] = q /\ pending'[s] = Ids(q)
        /\ \A t \in DOMAIN reqq : t # s => reqq'[t] = reqq[t]
        /\ \A t \in Sessions : t # s => pending'[t] = pending[t]
    BY <1>1
  <1>3. DOMAIN reqq' = {t \in Sessions : SubsOf(t)' # {}}
    BY <1>2 DEF RequestsKept
  <1>4. \A t \in Sessions : pending[t] = IF t \in DOMAIN reqq THEN Ids(reqq[t]) ELSE {}
    BY DEF RequestsKept
  <1>5. \A t \in Sessions : pending'[t] = IF t \in DOMAIN reqq' THEN Ids(reqq'[t]) ELSE {}
    <2> TAKE t \in Sessions
    <2>1. CASE t = s
      BY <1>2, <2>1
    <2>2. CASE t # s
      BY <1>2, <1>4, <2>2
    <2> QED BY <2>1, <2>2
  <1>6. \A t \in DOMAIN reqq' : Len(reqq'[t]) <= ReqsPerSession /\ Pairwise(reqq'[t], OtherId)
    BY <1>2 DEF RequestsKept
  <1>7. \A t \in DOMAIN reqq' : Ids(reqq'[t]) = Ids(reqq[t])'
    BY DEF Ids
  <1> QED BY <1>3, <1>5, <1>6, <1>7 DEF RequestsKept, Ids

LEMMA SessionInactiveKeeps ==
  ASSUME SubsInv, NEW s \in Sessions, SessionInactive(s), History(0)
  PROVE  SubsInv'
  <1>1. Types /\ RequestsKept /\ ForgottenKept
    BY DEF SubsInv
  <1>0. ForgottenKept' /\ pending' = [pending EXCEPT ![s] = {}]
    BY <1>1, ForgottenCleared DEF SessionInactive
  <1>2. SameSubs /\ subs' = subs
    BY DEF SessionInactive, SameSubs, SameKey
  <1>3. <<>> \in Seq(ReqRec) /\ Len(<<>>) = 0 /\ Ids(<<>>) = {} /\ Pairwise(<<>>, OtherId)
    BY DEF Ids, Pairwise
  <1>4. /\ DOMAIN reqq' = DOMAIN reqq /\ reqq' \in [DOMAIN reqq' -> Seq(ReqRec)]
        /\ \A t \in DOMAIN reqq : reqq'[t] = <<>> \/ reqq'[t] = reqq[t]
    BY <1>1, <1>3 DEF SessionInactive, Types
  <1>5. Types'
    <2>1. passed' \in [SubIds -> Nat]
      BY <1>1, HistoryFacts
    <2>2. pending' \in [Sessions -> SUBSET Requests] /\ session' \in [Sessions -> {"closed", "orphaned", "active"}]
      BY <1>0, <1>1 DEF SessionInactive, Types
    <2> QED BY <1>1, <1>4, <2>1, <2>2 DEF Types, SessionInactive
  <1>6. QueuesKept'
    BY <1>2, QueuesQuiet DEF SubsInv, SessionInactive
  <1>7. RequestsKept'
    <2>1. CASE s \in DOMAIN reqq
      <3>1. /\ reqq' = [reqq EXCEPT ![s] = <<>>]
            /\ pending' = [pending EXCEPT ![s] = Ids(<<>>)]
        BY <1>0, <1>3, <2>1 DEF SessionInactive
      <3>2. 0 <= ReqsPerSession
        BY SubscriptionsAssumption
      <3>3. \A t : SubsOf(t)' = SubsOf(t)
        BY <1>2, SameSubsFacts
      <3> QED BY <1>1, <1>3, <2>1, <3>1, <3>2, <3>3, RequestsMoved
    <2>2. CASE s \notin DOMAIN reqq
      <3>1. pending[s] = {} /\ reqq' = reqq
        BY <1>1, <2>2 DEF RequestsKept, SessionInactive
      <3>2. pending' = pending
        BY <1>0, <1>1, <3>1 DEF Types
      <3> QED BY <1>1, <1>2, <3>1, <3>2, SameSubsFacts, RequestsQuiet
    <2> QED BY <2>1, <2>2
  <1>8. AttentiveNoRequest'
    <2>1. \A k \in DOMAIN subs : Attentive(subs[k]) => reqq[subs[k].session] = <<>>
      BY DEF SubsInv, AttentiveNoRequest
    <2>2. \A k \in DOMAIN subs : subs[k].session \in DOMAIN reqq
      <3>1. \A k \in DOMAIN subs : subs[k].session \in Sessions /\ k \in SubsOf(subs[k].session)
        BY <1>1 DEF Types, SubRec, SubsOf
      <3> QED BY <1>1, <3>1 DEF RequestsKept
    <2> QED BY <1>2, <1>4, <2>1, <2>2 DEF AttentiveNoRequest
  <1> QED BY <1>0, <1>5, <1>6, <1>7, <1>8 DEF SubsInv

-----------------------------------------------------------------------------
(* Steps that remove subscriptions.                                        *)

LEMMA DroppedFacts ==
  ASSUME Types, NEW s, NEW S \in SUBSET SubsOf(s), subs' = Dropping(subs, S)
  PROVE  /\ DOMAIN subs' \subseteq DOMAIN subs /\ DOMAIN subs' \subseteq SubIds
         /\ subs' \in [DOMAIN subs' -> SubRec] /\ \A k \in DOMAIN subs' : subs'[k] = subs[k]
         /\ SubsOf(s)' = SubsOf(s) \ S /\ \A t : t # s => SubsOf(t)' = SubsOf(t)
  <1>1. DOMAIN subs' = DOMAIN subs \ S /\ \A k \in DOMAIN subs' : subs'[k] = subs[k]
    BY DEF Dropping, Restrict
  <1>2. DOMAIN subs' \subseteq SubIds /\ subs' \in [DOMAIN subs' -> SubRec]
    BY DEF Dropping, Restrict, Types
  <1>3. SubsOf(s)' = SubsOf(s) \ S
    BY <1>1 DEF SubsOf
  <1>4. ASSUME NEW t, t # s PROVE SubsOf(t)' = SubsOf(t)
    <2>1. \A k \in S : subs[k].session = s
      BY DEF SubsOf
    <2> QED BY <1>1, <1>4, <2>1 DEF SubsOf
  <1> QED BY <1>1, <1>2, <1>3, <1>4

LEMMA QueuesDropped ==
  ASSUME Types, QueuesKept, History(0), NEW s \in Sessions, NEW S \in SUBSET SubsOf(s),
         subs' = Dropping(subs, S), NEW ps, prios' = [prios EXCEPT ![s] = ps],
         ps = RemoveFromPriority(prios[s], S) \/ (ps = <<>> /\ S = SubsOf(s))
  PROVE  QueuesKept'
  <1>1. passed' \in [SubIds -> Nat] /\ \A k \in SubIds : passed'[k] <= passed[k]
    BY HistoryFacts
  <1>2. /\ \A k \in DOMAIN subs' : subs'[k] = subs[k]
        /\ SubsOf(s)' = SubsOf(s) \ S /\ \A t : t # s => SubsOf(t)' = SubsOf(t)
    BY DroppedFacts
  <1>3. \A t \in Sessions : prios'[t] = IF t = s THEN ps ELSE prios[t]
    BY DEF Types
  <1>4. ASSUME NEW t \in Sessions, t # s PROVE SessionKept(prios'[t], SubsOf(t)', PrioOf', passed')
    <2>1. SubsOf(t)' = SubsOf(t) /\ prios'[t] = prios[t]
      BY <1>2, <1>3, <1>4
    <2>2. \A j \in SubsOf(t) : j \in SubIds
      BY SubsOfFacts
    <2>3. \A j \in SubsOf(t)' : j \in DOMAIN subs'
      BY DEF SubsOf
    <2>4. \A j \in SubsOf(t) : subs'[j].prio = subs[j].prio /\ passed'[j] <= passed[j]
      BY <1>1, <1>2, <2>1, <2>2, <2>3
    <2> QED BY <1>1, <2>1, <2>4, KeptElsewhere
  <1>5. SessionKept(prios'[s], SubsOf(s)', PrioOf', passed')
    <2>1. CASE ps = <<>> /\ S = SubsOf(s)
      <3>1. prios'[s] = <<>> /\ SubsOf(s)' = {}
        BY <1>2, <1>3, <2>1
      <3> QED BY <3>1, KeptEmpty
    <2>2. CASE ps = RemoveFromPriority(prios[s], S)
      <3> DEFINE B == SubsOf(s) \ S
      <3>1. SessionKept(prios[s], SubsOf(s), PrioOf, passed) /\ passed \in [SubIds -> Nat]
        BY DEF QueuesKept, Types
      <3>2. IsFiniteSet(SubsOf(s)) /\ SubsOf(s) \subseteq SubIds /\ SubsOf(s) \subseteq DOMAIN subs
        BY SubsOfFacts
      <3>3. SessionKept(ps, B, PrioOf, passed)
        BY <2>2, <3>1, <3>2, KeptRemove
      <3>4. \A j \in B : PrioOf'[j] = PrioOf[j] /\ passed'[j] <= passed[j]
        <4>1. \A j \in SubsOf(s)' : j \in DOMAIN subs'
          BY DEF SubsOf
        <4> QED BY <1>1, <1>2, <3>2, <4>1 DEF PrioOf
      <3> HIDE DEF B
      <3>5. SessionKept(ps, B, PrioOf', passed')
        BY <1>1, <3>1, <3>3, <3>4, KeptSame
      <3> QED BY <1>2, <1>3, <3>5 DEF B
    <2> QED BY <2>1, <2>2
  <1> QED BY <1>4, <1>5 DEF QueuesKept

\* A session that has lost its last subscription has no queue of requests.
LEMMA RequestsGone ==
  ASSUME Types, RequestsKept, NEW s \in Sessions, SubsOf(s)' = {},
         \A t : t # s => SubsOf(t)' = SubsOf(t),
         reqq' = Dropping(reqq, {s}), pending' = [pending EXCEPT ![s] = {}]
  PROVE  RequestsKept'
  <1>1. pending \in [Sessions -> SUBSET Requests]
    BY DEF Types
  <1>2. /\ DOMAIN reqq' = DOMAIN reqq \ {s} /\ \A t \in DOMAIN reqq' : reqq'[t] = reqq[t]
        /\ pending'[s] = {} /\ \A t \in Sessions : t # s => pending'[t] = pending[t]
    BY <1>1 DEF Dropping, Restrict
  <1>3. DOMAIN reqq' = {t \in Sessions : SubsOf(t)' # {}}
    <2>1. DOMAIN reqq = {t \in Sessions : SubsOf(t) # {}}
      BY DEF RequestsKept
    <2> QED BY <1>2, <2>1
  <1>4. \A t \in Sessions : pending'[t] = IF t \in DOMAIN reqq' THEN Ids(reqq[t])' ELSE {}
    <2>1. \A t \in Sessions : pending[t] = IF t \in DOMAIN reqq THEN Ids(reqq[t]) ELSE {}
      BY DEF RequestsKept
    <2>2. \A t \in DOMAIN reqq' : Ids(reqq[t])' = Ids(reqq[t])
      BY <1>2 DEF Ids
    <2> QED BY <1>2, <2>1, <2>2
  <1>5. \A t \in DOMAIN reqq' : Len(reqq'[t]) <= ReqsPerSession /\ Pairwise(reqq'[t], OtherId)
    BY <1>2 DEF RequestsKept
  <1> QED BY <1>3, <1>4, <1>5 DEF RequestsKept

\* Only subscriptions and requests disappear.
LEMMA AttentiveLess ==
  ASSUME AttentiveNoRequest, \A k \in DOMAIN subs' : k \in DOMAIN subs /\ subs'[k] = subs[k],
         \A k \in DOMAIN subs' : \/ reqq'[subs'[k].session] = <<>>
                                 \/ reqq'[subs'[k].session] = reqq[subs'[k].session]
  PROVE  AttentiveNoRequest'
  BY DEF AttentiveNoRequest

LEMMA SessionClosedKeeps ==
  ASSUME SubsInv, NEW s \in Sessions, SessionClosed(s), History(0)
  PROVE  SubsInv'
  <1>1. Types /\ RequestsKept /\ ForgottenKept /\ QueuesKept /\ AttentiveNoRequest
    BY DEF SubsInv
  <1>0. ForgottenKept' /\ pending' = [pending EXCEPT ![s] = {}]
    BY <1>1, ForgottenCleared DEF SessionClosed
  <1>2. /\ subs' = Dropping(subs, SubsOf(s)) /\ prios' = [prios EXCEPT ![s] = <<>>]
        /\ reqq' = Dropping(reqq, {s}) /\ pending' = [pending EXCEPT ![s] = {}]
        /\ session' = [session EXCEPT ![s] = "closed"]
    BY <1>0 DEF SessionClosed
  <1>3. /\ DOMAIN subs' \subseteq DOMAIN subs /\ DOMAIN subs' \subseteq SubIds
        /\ subs' \in [DOMAIN subs' -> SubRec] /\ \A k \in DOMAIN subs' : subs'[k] = subs[k]
        /\ SubsOf(s)' = {} /\ \A t : t # s => SubsOf(t)' = SubsOf(t)
    <2>1. SubsOf(s) \in SUBSET SubsOf(s) /\ SubsOf(s) \ SubsOf(s) = {}
      OBVIOUS
    <2> QED BY <1>1, <1>2, <2>1, DroppedFacts
  <1>4. DOMAIN reqq' = DOMAIN reqq \ {s} /\ \A t \in DOMAIN reqq' : reqq'[t] = reqq[t]
    BY <1>2 DEF Dropping, Restrict
  <1>5. Types'
    <2>1. passed' \in [SubIds -> Nat]
      BY <1>1, HistoryFacts
    <2>2. DOMAIN reqq' \subseteq Sessions /\ reqq' \in [DOMAIN reqq' -> Seq(ReqRec)]
      BY <1>1, <1>2 DEF Dropping, Restrict, Types
    <2>3. <<>> \in Seq(PrioRec)
      OBVIOUS
    <2>4. /\ prios' \in [Sessions -> Seq(PrioRec)] /\ pending' \in [Sessions -> SUBSET Requests]
          /\ session' \in [Sessions -> {"closed", "orphaned", "active"}]
      BY <1>1, <1>2, <2>3 DEF Types
    <2> QED BY <1>3, <2>1, <2>2, <2>4 DEF Types
  <1>6. QueuesKept'
    <2>1. SubsOf(s) \in SUBSET SubsOf(s)
      OBVIOUS
    <2> QED BY <1>1, <1>2, <2>1, QueuesDropped
  <1>7. RequestsKept'
    BY <1>1, <1>2, <1>3, RequestsGone
  <1>8. AttentiveNoRequest'
    <2>1. \A k \in DOMAIN subs' : subs'[k].session # s
      BY <1>3 DEF SubsOf
    <2>2. \A k \in DOMAIN subs' : subs'[k].session \in DOMAIN reqq'
      <3>1. \A k \in DOMAIN subs' : \E t \in Sessions : t = subs'[k].session /\ k \in SubsOf(t)'
        BY <1>3 DEF SubRec, SubsOf
      <3>2. DOMAIN reqq' = {t \in Sessions : SubsOf(t)' # {}}
        BY <1>7 DEF RequestsKept
      <3> QED BY <3>1, <3>2
    <2> QED BY <1>1, <1>3, <1>4, <2>2, AttentiveLess
  <1> QED BY <1>0, <1>5, <1>6, <1>7, <1>8 DEF SubsInv

\* Each subscription has a queue of requests to look at.
LEMMA QueueOf ==
  ASSUME Types, RequestsKept
  PROVE  \A k \in DOMAIN subs : /\ subs[k] \in SubRec /\ subs[k].session \in Sessions
                                /\ subs[k].session \in DOMAIN reqq /\ k \in SubsOf(subs[k].session)
  <1>1. \A k \in DOMAIN subs : /\ subs[k] \in SubRec /\ subs[k].session \in Sessions
                               /\ k \in SubsOf(subs[k].session)
    BY DEF Types, SubRec, SubsOf
  <1> QED BY <1>1 DEF RequestsKept

LEMMA QueueOfNext ==
  ASSUME subs' \in [DOMAIN subs' -> SubRec], RequestsKept'
  PROVE  \A k \in DOMAIN subs' : subs'[k].session \in DOMAIN reqq'
  <1>1. \A k \in DOMAIN subs' : \E t \in Sessions : t = subs'[k].session /\ k \in SubsOf(t)'
    BY DEF SubRec, SubsOf
  <1>2. DOMAIN reqq' = {t \in Sessions : SubsOf(t)' # {}}
    BY DEF RequestsKept
  <1> QED BY <1>1, <1>2

\* Lists of priorities that are sound have their type.
LEMMA PriosType ==
  ASSUME Types, QueuesKept', NEW s \in Sessions, NEW ps, prios' = [prios EXCEPT ![s] = ps]
  PROVE  prios' \in [Sessions -> Seq(PrioRec)]
  <1>1. \A t \in Sessions : prios'[t] \in Seq(PrioRec)
    BY DEF QueuesKept, SessionKept, Sound
  <1> QED BY <1>1 DEF Types

\* Subscriptions S of a session are removed, their requests answered when
\* none is left.
LEMMA RemovalKeeps ==
  ASSUME SubsInv, History(0), NEW s \in Sessions, NEW S \in SUBSET SubsOf(s), S # {},
         ForgottenKept', subs' = Dropping(subs, S), prios' = [prios EXCEPT ![s] = RemoveFromPriority(@, S)],
         session' = session,
         \/ S = SubsOf(s) /\ reqq' = Dropping(reqq, {s}) /\ pending' = [pending EXCEPT ![s] = {}]
         \/ S # SubsOf(s) /\ reqq' = reqq /\ pending' = pending
         \/ S # SubsOf(s) /\ reqq' = [reqq EXCEPT ![s] = <<>>] /\ pending' = [pending EXCEPT ![s] = {}]
  PROVE  SubsInv'
  <1>1. Types /\ RequestsKept /\ QueuesKept /\ AttentiveNoRequest
    BY DEF SubsInv
  <1>2. /\ DOMAIN subs' \subseteq DOMAIN subs /\ DOMAIN subs' \subseteq SubIds
        /\ subs' \in [DOMAIN subs' -> SubRec] /\ \A k \in DOMAIN subs' : subs'[k] = subs[k]
        /\ SubsOf(s)' = SubsOf(s) \ S /\ \A t : t # s => SubsOf(t)' = SubsOf(t)
    BY <1>1, DroppedFacts
  <1>3. QueuesKept'
    <2> DEFINE ps == RemoveFromPriority(prios[s], S)
    <2>1. prios' = [prios EXCEPT ![s] = ps]
      OBVIOUS
    <2> HIDE DEF ps
    <2>2. ps = RemoveFromPriority(prios[s], S)
      BY DEF ps
    <2> QED BY <1>1, <2>1, <2>2, QueuesDropped
  <1>4. prios' \in [Sessions -> Seq(PrioRec)]
    BY <1>1, <1>3, PriosType
  <1>5. s \in DOMAIN reqq
    BY <1>1 DEF RequestsKept
  <1>6. passed' \in [SubIds -> Nat]
    BY <1>1, HistoryFacts
  <1>7. <<>> \in Seq(ReqRec) /\ Len(<<>>) = 0 /\ Ids(<<>>) = {} /\ Pairwise(<<>>, OtherId)
    BY DEF Ids, Pairwise
  <1>8. /\ DOMAIN reqq' \subseteq DOMAIN reqq /\ reqq' \in [DOMAIN reqq' -> Seq(ReqRec)]
        /\ pending' \in [Sessions -> SUBSET Requests]
        /\ \A t \in DOMAIN reqq' : reqq'[t] = <<>> \/ reqq'[t] = reqq[t]
    <2>1. CASE reqq' = Dropping(reqq, {s}) /\ pending' = [pending EXCEPT ![s] = {}]
      BY <1>1, <2>1 DEF Dropping, Restrict, Types
    <2>2. CASE reqq' = reqq /\ pending' = pending
      BY <1>1, <2>2 DEF Types
    <2>3. CASE reqq' = [reqq EXCEPT ![s] = <<>>] /\ pending' = [pending EXCEPT ![s] = {}]
      BY <1>1, <1>5, <1>7, <2>3 DEF Types
    <2> QED BY <2>1, <2>2, <2>3
  <1>9. Types'
    BY <1>1, <1>2, <1>4, <1>6, <1>8 DEF Types
  <1>10. RequestsKept'
    <2>1. CASE S = SubsOf(s) /\ reqq' = Dropping(reqq, {s}) /\ pending' = [pending EXCEPT ![s] = {}]
      <3>1. SubsOf(s)' = {}
        BY <1>2, <2>1
      <3> QED BY <1>1, <1>2, <2>1, <3>1, RequestsGone
    <2>2. S # SubsOf(s) => \A t \in Sessions : SubsOf(t)' = {} <=> SubsOf(t) = {}
      BY <1>2
    <2>3. CASE S # SubsOf(s) /\ reqq' = reqq /\ pending' = pending
      BY <1>1, <2>2, <2>3, RequestsQuiet
    <2>4. CASE S # SubsOf(s) /\ reqq' = [reqq EXCEPT ![s] = <<>>] /\ pending' = [pending EXCEPT ![s] = {}]
      <3>1. pending' = [pending EXCEPT ![s] = Ids(<<>>)]
        BY <1>7, <2>4
      <3>2. 0 <= ReqsPerSession
        BY SubscriptionsAssumption
      <3> QED BY <1>1, <1>5, <1>7, <2>2, <2>4, <3>1, <3>2, RequestsMoved
    <2> QED BY <2>1, <2>3, <2>4
  <1>11. AttentiveNoRequest'
    <2>1. \A k \in DOMAIN subs' : subs'[k].session \in DOMAIN reqq'
      BY <1>2, <1>10, QueueOfNext
    <2> QED BY <1>1, <1>2, <1>8, <2>1, AttentiveLess
  <1> QED BY <1>3, <1>9, <1>10, <1>11 DEF SubsInv

LEMMA DeleteSubscriptionsKeeps ==
  ASSUME SubsInv, History(0), NEW s \in Sessions, NEW S \in SUBSET SubsOf(s), DeleteSubscriptions(s, S)
  PROVE  SubsInv'
  <1>1. /\ S # {} /\ subs' = Dropping(subs, S) /\ session' = session
        /\ prios' = [prios EXCEPT ![s] = RemoveFromPriority(@, S)]
    BY DEF DeleteSubscriptions
  <1>2. CASE S = SubsOf(s)
    <2>1. s \in DOMAIN reqq /\ pending[s] = Ids(reqq[s])
      BY <1>1, <1>2 DEF SubsInv, RequestsKept
    <2>2. pending[s] \subseteq pending[s] /\ (pending[s] \ Ids(reqq[s])) \cup {} = {}
      BY <2>1
    <2>3. reqq' = Dropping(reqq, {s}) /\ waiting' = [waiting EXCEPT ![s] = (@ \ pending[s]) \cup {}]
      BY <1>2, <2>1 DEF DeleteSubscriptions, AnsweredAtEnd
    <2>4. ForgottenKept /\ forgotten' = forgotten /\ {} \in SUBSET Requests /\ {} \cap forgotten[s] = {}
      BY DEF SubsInv, DeleteSubscriptions
    <2>5. ForgottenKept' /\ pending' = [pending EXCEPT ![s] = (@ \ pending[s]) \cup {}]
      BY <2>2, <2>3, <2>4, ForgottenMoved
    <2>6. pending' = [pending EXCEPT ![s] = {}]
      BY <2>1, <2>2, <2>5
    <2> QED BY <1>1, <1>2, <2>3, <2>5, <2>6, RemovalKeeps
  <1>3. CASE S # SubsOf(s)
    <2>1. reqq' = reqq /\ ForgottenKept' /\ pending' = pending
      BY <1>3, ForgottenQuiet DEF DeleteSubscriptions, SubsInv
    <2> QED BY <1>1, <1>3, <2>1, RemovalKeeps
  <1> QED BY <1>2, <1>3

-----------------------------------------------------------------------------
(* Steps that add a subscription, or give it another priority.             *)

LEMMA FreeIndex ==
  ASSUME NEW B, B \subseteq SubIds, B # SubIds
  PROVE  LET k == CHOOSE k \in SubIds \ B : \A j \in SubIds \ B : k <= j
         IN  k \in SubIds \ B
  <1> DEFINE T == SubIds \ B
  <1>1. T \subseteq Nat /\ T # {}
    <2>1. SubIds \subseteq Nat
      BY SubscriptionsAssumption DEF SubIds
    <2> QED BY <2>1
  <1> HIDE DEF T
  <1>2. \E k \in T : \A j \in T : k <= j
    BY <1>1, LeastNatural
  <1>3. (CHOOSE k \in T : \A j \in T : k <= j) \in T
    BY <1>2
  <1> QED BY <1>3 DEF T

LEMMA RevisedNat ==
  ASSUME NEW life \in Nat, NEW keep \in Nat
  PROVE  RevisedLifetime(life, keep) \in Nat
  <1>1. MinLifetime \in Nat /\ MaxLifetime \in Nat
    BY SubscriptionsAssumption
  <1> QED BY <1>1 DEF RevisedLifetime

LEMMA NewSubFacts ==
  ASSUME NEW s \in Sessions, NEW p \in Priorities, NEW en \in BOOLEAN,
         NEW life \in Lifetimes, NEW keep \in KeepAlives, NEW size \in MsgSizes
  PROVE  LET v == NewSub(s, p, en, RevisedLifetime(life, keep), keep, size)
         IN  v \in SubRec /\ v.session = s /\ v.prio = p /\ ~ Attentive(v)
  <1> DEFINE r == RevisedLifetime(life, keep)
  <1>1. life \in Nat /\ keep \in Nat /\ size \in Nat
    BY SubscriptionsAssumption
  <1>2. r \in Nat
    BY <1>1, RevisedNat
  <1> HIDE DEF r
  <1>3. r \in Int
    BY <1>2
  <1>4. 0 \in Int
    OBVIOUS
  <1> DEFINE v == NewSub(s, p, en, r, keep, size)
  <1>5. v \in SubRec
    BY <1>1, <1>2, <1>3, <1>4 DEF NewSub, SubRec
  <1>6. v.session = s /\ v.prio = p /\ v.state = "normal" /\ v.more = FALSE
    BY DEF NewSub
  <1> HIDE DEF v
  <1>7. ~ Attentive(v)
    BY <1>6 DEF Attentive
  <1> QED BY <1>5, <1>6, <1>7 DEF v, r

LEMMA CreateSubscriptionKeeps ==
  ASSUME SubsInv, History(0), NEW s \in Sessions, NEW p \in Priorities, NEW en \in BOOLEAN,
         NEW life \in Lifetimes, NEW keep \in KeepAlives, NEW size \in MsgSizes,
         CreateSubscription(s, p, en, life, keep, size)
  PROVE  SubsInv'
  <1> DEFINE F == SubIds \ DOMAIN subs
             k == CHOOSE k \in F : \A j \in F : k <= j
             v == NewSub(s, p, en, RevisedLifetime(life, keep), keep, size)
  <1>1. Types /\ RequestsKept /\ ForgottenKept /\ QueuesKept /\ AttentiveNoRequest
    BY DEF SubsInv
  <1>0. ForgottenKept' /\ pending' = pending
    BY <1>1, ForgottenQuiet DEF CreateSubscription
  <1>2. k \in SubIds /\ k \notin DOMAIN subs
    <2>1. DOMAIN subs \subseteq SubIds /\ DOMAIN subs # SubIds
      BY <1>1 DEF Types, CreateSubscription
    <2>2. k \in F
      BY <2>1, FreeIndex
    <2> QED BY <2>2
  <1>3. v \in SubRec /\ v.session = s /\ v.prio = p /\ ~ Attentive(v)
    BY NewSubFacts
  <1>4. /\ subs' = With(subs, k, v) /\ prios' = [prios EXCEPT ![s] = AddToPriority(@, p, k)]
        /\ session' = session /\ pending' = pending
        /\ reqq' = IF SubsOf(s) = {} THEN With(reqq, s, <<>>) ELSE reqq
        /\ Cardinality(SubsOf(s)) < SubsPerSession
    BY <1>0 DEF CreateSubscription
  <1> HIDE DEF k, v
  <1>5. /\ DOMAIN subs' = DOMAIN subs \cup {k} /\ subs'[k] = v
        /\ \A j \in DOMAIN subs : j # k /\ subs'[j] = subs[j]
    BY <1>2, <1>4 DEF With
  <1>6. DOMAIN subs' \subseteq SubIds /\ subs' \in [DOMAIN subs' -> SubRec]
    <2>1. \A j \in DOMAIN subs' : subs'[j] \in SubRec
      BY <1>1, <1>3, <1>5 DEF Types
    <2>2. subs' = [j \in DOMAIN subs' |-> subs'[j]]
      BY <1>4 DEF With
    <2> QED BY <1>1, <1>2, <1>5, <2>1, <2>2 DEF Types
  <1>7. SubsOf(s)' = SubsOf(s) \cup {k} /\ \A t : t # s => SubsOf(t)' = SubsOf(t)
    BY <1>3, <1>5 DEF SubsOf
  <1>8. passed' \in [SubIds -> Nat] /\ passed'[k] = 0 /\ \A j \in SubIds : passed'[j] <= passed[j]
    BY <1>1, <1>2, HistoryFacts
  <1>9. QueuesKept'
    <2>1. \A t \in Sessions : prios'[t] = IF t = s THEN AddToPriority(prios[s], p, k) ELSE prios[t]
      BY <1>1, <1>4 DEF Types
    <2>2. ASSUME NEW t \in Sessions, t # s PROVE SessionKept(prios'[t], SubsOf(t)', PrioOf', passed')
      <3>1. SubsOf(t)' = SubsOf(t) /\ prios'[t] = prios[t]
        BY <1>7, <2>1, <2>2
      <3>2. SubsOf(t) \subseteq SubIds /\ SubsOf(t) \subseteq DOMAIN subs
        BY <1>1, SubsOfFacts
      <3>3. \A j \in SubsOf(t) : subs'[j].prio = subs[j].prio /\ passed'[j] <= passed[j]
        BY <1>5, <1>8, <3>2
      <3> QED BY <1>1, <1>8, <3>1, <3>3, KeptElsewhere
    <2>3. SessionKept(prios'[s], SubsOf(s)', PrioOf', passed')
      <3> DEFINE B == SubsOf(s)
      <3>1. SessionKept(prios[s], B, PrioOf, passed) /\ passed \in [SubIds -> Nat]
        BY <1>1 DEF QueuesKept, Types
      <3>2. IsFiniteSet(B) /\ B \subseteq SubIds /\ B \subseteq DOMAIN subs
        BY <1>1, SubsOfFacts
      <3>3. PrioOf'[k] = p /\ \A j \in B : PrioOf'[j] = PrioOf[j] /\ passed'[j] <= passed[j]
        <4>1. PrioOf'[k] = p
          BY <1>3, <1>5 DEF PrioOf
        <4>2. \A j \in B : j \in DOMAIN subs' /\ subs'[j] = subs[j]
          BY <1>5, <3>2
        <4> QED BY <1>8, <3>2, <4>1, <4>2 DEF PrioOf
      <3>4. Cardinality(B) < SubsPerSession /\ k \notin B
        BY <1>2, <1>4, <3>2
      <3> HIDE DEF B
      <3>5. SessionKept(AddToPriority(prios[s], p, k), B \cup {k}, PrioOf', passed')
        BY <1>2, <1>8, <3>1, <3>2, <3>3, <3>4, KeptAdd
      <3> QED BY <1>7, <2>1, <3>5 DEF B
    <2> QED BY <2>2, <2>3 DEF QueuesKept
  <1>10. prios' \in [Sessions -> Seq(PrioRec)]
    <2> DEFINE ps == AddToPriority(prios[s], p, k)
    <2>1. prios' = [prios EXCEPT ![s] = ps]
      BY <1>4
    <2> HIDE DEF ps
    <2> QED BY <1>1, <1>9, <2>1, PriosType
  <1>11. /\ DOMAIN reqq' = DOMAIN reqq \cup {s} /\ \A t \in DOMAIN reqq : reqq'[t] = reqq[t]
         /\ s \notin DOMAIN reqq => reqq'[s] = <<>>
         /\ reqq' \in [DOMAIN reqq' -> Seq(ReqRec)] /\ DOMAIN reqq' \subseteq Sessions
    <2>1. s \in DOMAIN reqq <=> SubsOf(s) # {}
      BY <1>1 DEF RequestsKept
    <2>2. CASE SubsOf(s) # {}
      BY <1>1, <1>4, <2>1, <2>2 DEF Types
    <2>3. CASE SubsOf(s) = {}
      <3>1. <<>> \in Seq(ReqRec)
        OBVIOUS
      <3>2. reqq' = [t \in DOMAIN reqq \cup {s} |-> IF t = s THEN <<>> ELSE reqq[t]]
        BY <1>4, <2>3 DEF With
      <3>3. /\ DOMAIN reqq' = DOMAIN reqq \cup {s} /\ reqq'[s] = <<>>
            /\ \A t \in DOMAIN reqq : reqq'[t] = reqq[t]
        BY <2>1, <2>3, <3>2
      <3>4. \A t \in DOMAIN reqq : reqq[t] \in Seq(ReqRec) /\ t \in Sessions
        BY <1>1 DEF Types
      <3>5. \A t \in DOMAIN reqq' : reqq'[t] \in Seq(ReqRec) /\ t \in Sessions
        BY <3>1, <3>3, <3>4
      <3> QED BY <3>2, <3>3, <3>5
    <2> QED BY <2>2, <2>3
  <1>12. RequestsKept'
    <2>1. <<>> \in Seq(ReqRec) /\ Len(<<>>) = 0 /\ Ids(<<>>) = {} /\ Pairwise(<<>>, OtherId)
      BY DEF Ids, Pairwise
    <2>2. DOMAIN reqq' = {t \in Sessions : SubsOf(t)' # {}}
      <3>1. DOMAIN reqq = {t \in Sessions : SubsOf(t) # {}}
        BY <1>1 DEF RequestsKept
      <3> QED BY <1>7, <1>11, <3>1
    <2>3. \A t \in DOMAIN reqq' : reqq'[t] = <<>> \/ (t \in DOMAIN reqq /\ reqq'[t] = reqq[t])
      BY <1>11
    <2>4. 0 <= ReqsPerSession
      BY SubscriptionsAssumption
    <2>5. \A t \in DOMAIN reqq' : Len(reqq'[t]) <= ReqsPerSession /\ Pairwise(reqq'[t], OtherId)
      BY <1>1, <2>1, <2>3, <2>4 DEF RequestsKept
    <2>6. \A t \in Sessions : pending'[t] = IF t \in DOMAIN reqq' THEN Ids(reqq[t])' ELSE {}
      <3> TAKE t \in Sessions
      <3>1. pending'[t] = IF t \in DOMAIN reqq THEN Ids(reqq[t]) ELSE {}
        BY <1>1, <1>4 DEF RequestsKept
      <3>2. t \in DOMAIN reqq => Ids(reqq[t])' = Ids(reqq[t])
        BY <1>11 DEF Ids
      <3>3. t \notin DOMAIN reqq /\ t \in DOMAIN reqq' => Ids(reqq[t])' = {}
        <4>1. t \notin DOMAIN reqq /\ t \in DOMAIN reqq' => reqq'[t] = <<>>
          BY <1>11
        <4> QED BY <2>1, <4>1 DEF Ids
      <3> QED BY <1>11, <3>1, <3>2, <3>3
    <2> QED BY <2>2, <2>5, <2>6 DEF RequestsKept
  <1>13. AttentiveNoRequest'
    <2>1. \A j \in DOMAIN subs : subs[j].session \in DOMAIN reqq
      BY <1>1, QueueOf
    <2>2. \A j \in DOMAIN subs : Attentive(subs[j]) => reqq[subs[j].session] = <<>>
      BY <1>1 DEF AttentiveNoRequest
    <2> QED BY <1>3, <1>5, <1>11, <2>1, <2>2 DEF AttentiveNoRequest
  <1>14. Types'
    BY <1>1, <1>4, <1>6, <1>8, <1>10, <1>11 DEF Types
  <1> QED BY <1>0, <1>9, <1>12, <1>13, <1>14 DEF SubsInv

LEMMA ModifySubscriptionKeeps ==
  ASSUME SubsInv, History(0), NEW k \in DOMAIN subs, NEW p \in Priorities,
         NEW life \in Lifetimes, NEW keep \in KeepAlives, NEW size \in MsgSizes,
         ModifySubscription(k, p, life, keep, size)
  PROVE  SubsInv'
  <1> DEFINE s   == subs[k].session
             rev == RevisedLifetime(life, keep)
             v   == [subs[k] EXCEPT !.prio = p, !.maxLife = rev, !.life = rev,
                                    !.maxKeep = keep, !.size = size]
  <1>1. Types /\ RequestsKept /\ ForgottenKept /\ QueuesKept /\ AttentiveNoRequest
    BY DEF SubsInv
  <1>0. ForgottenKept' /\ pending' = pending
    BY <1>1, ForgottenQuiet DEF ModifySubscription
  <1>2. /\ subs[k] \in SubRec /\ s \in Sessions /\ s \in DOMAIN reqq /\ k \in SubsOf(s)
        /\ k \in SubIds
    BY <1>1, QueueOf DEF Types
  <1>3. /\ subs' = [subs EXCEPT ![k] = v] /\ session' = session /\ reqq' = reqq /\ pending' = pending
        /\ prios' = IF p = subs[k].prio THEN prios
                    ELSE [prios EXCEPT ![s] = AddToPriority(RemoveFromPriority(prios[s], {k}), p, k)]
    BY <1>0 DEF ModifySubscription
  <1>4. v \in SubRec /\ v.session = s /\ v.prio = p /\ (Attentive(v) => Attentive(subs[k]))
    <2>1. life \in Nat /\ keep \in Nat /\ size \in Nat
      BY SubscriptionsAssumption
    <2>2. rev \in Nat /\ rev \in Int
      BY <2>1, RevisedNat
    <2> HIDE DEF rev
    <2>3. v \in SubRec
      BY <1>2, <2>1, <2>2 DEF SubRec
    <2>4. /\ v.session = s /\ v.prio = p /\ v.state = subs[k].state
          /\ v.enabled = subs[k].enabled /\ v.more = subs[k].more
      BY <1>2 DEF SubRec
    <2> QED BY <2>3, <2>4 DEF Attentive
  <1> HIDE DEF v
  <1>5. /\ DOMAIN subs' = DOMAIN subs /\ subs'[k] = v /\ subs' \in [DOMAIN subs' -> SubRec]
        /\ \A j \in DOMAIN subs : j # k => subs'[j] = subs[j]
    BY <1>1, <1>3, <1>4 DEF Types
  <1>6. \A t : SubsOf(t)' = SubsOf(t)
    BY <1>4, <1>5 DEF SubsOf
  <1>7. passed' \in [SubIds -> Nat] /\ \A j \in SubIds : passed'[j] <= passed[j]
    BY <1>1, HistoryFacts
  <1>8. QueuesKept' /\ prios' \in [Sessions -> Seq(PrioRec)]
    <2>1. CASE p = subs[k].prio
      <3>1. SameSubs /\ prios' = prios
        BY <1>3, <1>4, <1>5, <2>1 DEF SameSubs, SameKey
      <3> QED BY <1>1, <3>1, QueuesQuiet DEF Types
    <2>2. CASE p # subs[k].prio
      <3> DEFINE R == RemoveFromPriority(prios[s], {k})
                 ps == AddToPriority(R, p, k)
                 B == SubsOf(s)
      <3>1. prios' = [prios EXCEPT ![s] = ps]
        BY <1>3, <2>2
      <3>2. \A t \in Sessions : prios'[t] = IF t = s THEN ps ELSE prios[t]
        BY <1>1, <3>1 DEF Types
      <3>3. passed'[k] = 0
        <4>1. subs[k].prio # subs'[k].prio
          BY <1>4, <1>5, <2>2
        <4> QED BY <1>1, <1>2, <4>1, HistoryFacts
      <3>4. ASSUME NEW t \in Sessions, t # s PROVE SessionKept(prios'[t], SubsOf(t)', PrioOf', passed')
        <4>1. SubsOf(t)' = SubsOf(t) /\ prios'[t] = prios[t]
          BY <1>6, <3>2, <3>4
        <4>2. SubsOf(t) \subseteq SubIds /\ SubsOf(t) \subseteq DOMAIN subs /\ k \notin SubsOf(t)
          <5>1. k \notin SubsOf(t)
            BY <3>4 DEF SubsOf
          <5> QED BY <1>1, <5>1, SubsOfFacts
        <4>3. \A j \in SubsOf(t) : subs'[j].prio = subs[j].prio /\ passed'[j] <= passed[j]
          BY <1>5, <1>7, <4>2
        <4> QED BY <1>1, <1>7, <4>1, <4>3, KeptElsewhere
      <3>5. SessionKept(ps, B, PrioOf', passed')
        <4>1. SessionKept(prios[s], B, PrioOf, passed) /\ passed \in [SubIds -> Nat]
          BY <1>1, <1>2 DEF QueuesKept, Types
        <4>2. IsFiniteSet(B) /\ B \subseteq SubIds /\ B \subseteq DOMAIN subs /\ Cardinality(B) \in Nat
          BY <1>1, SubsOfFacts
        <4>3. SessionKept(R, B \ {k}, PrioOf, passed)
          BY <4>1, <4>2, KeptRemove
        <4>4. /\ IsFiniteSet(B \ {k}) /\ Cardinality(B \ {k}) < SubsPerSession
              /\ (B \ {k}) \cup {k} = B
          <5>1. Cardinality(B \ {k}) = Cardinality(B) - 1 /\ IsFiniteSet(B \ {k})
            BY <1>2, <4>2, FS_RemoveElement
          <5>2. Cardinality(B) <= SubsPerSession /\ SubsPerSession \in Nat
            BY <4>1, SubscriptionsAssumption DEF SessionKept
          <5>3. (B \ {k}) \cup {k} = B
            BY <1>2
          <5> QED BY <4>2, <5>1, <5>2, <5>3
        <4>5. PrioOf'[k] = p /\ \A j \in B \ {k} : PrioOf'[j] = PrioOf[j] /\ passed'[j] <= passed[j]
          <5>1. PrioOf'[k] = p
            BY <1>4, <1>5 DEF PrioOf
          <5>2. \A j \in B \ {k} : j \in DOMAIN subs' /\ subs'[j] = subs[j]
            BY <1>5, <4>2
          <5> QED BY <1>7, <4>2, <5>1, <5>2 DEF PrioOf
        <4>6. k \notin B \ {k}
          OBVIOUS
        <4> DEFINE C == B \ {k}
        <4> HIDE DEF C, R, B
        <4>7. SessionKept(ps, C \cup {k}, PrioOf', passed')
          BY <1>2, <1>7, <3>3, <4>1, <4>3, <4>4, <4>5, <4>6, KeptAdd DEF C
        <4> QED BY <4>4, <4>7 DEF C
      <3> HIDE DEF ps
      <3>6. QueuesKept'
        BY <1>2, <1>6, <3>2, <3>4, <3>5 DEF QueuesKept
      <3> QED BY <1>1, <1>2, <3>1, <3>6, PriosType
    <2> QED BY <2>1, <2>2
  <1>9. RequestsKept'
    BY <1>1, <1>3, <1>6, RequestsQuiet
  <1>10. AttentiveNoRequest'
    <2>1. \A j \in DOMAIN subs : Attentive(subs[j]) => reqq[subs[j].session] = <<>>
      BY <1>1 DEF AttentiveNoRequest
    <2> QED BY <1>3, <1>4, <1>5, <2>1 DEF AttentiveNoRequest
  <1>11. Types'
    BY <1>1, <1>3, <1>5, <1>7, <1>8 DEF Types
  <1> QED BY <1>0, <1>8, <1>9, <1>10, <1>11 DEF SubsInv

-----------------------------------------------------------------------------
(* Steps that park, expire and answer publish requests.                    *)

\* What enqueue_publish_request makes of the requests of a session.
Evicted(q) == IF Len(q) = ReqsPerSession THEN {Last(q).id} ELSE {}
Parked(q, r) ==
  Append(IF Len(q) = ReqsPerSession THEN Front(q) ELSE q, [id |-> r, expired |-> FALSE])

LEMMA ParkedFacts ==
  ASSUME NEW q \in Seq(ReqRec), Pairwise(q, OtherId), Len(q) <= ReqsPerSession,
         NEW r \in Requests, r \notin Ids(q)
  PROVE  /\ Parked(q, r) \in Seq(ReqRec) /\ Len(Parked(q, r)) <= ReqsPerSession
         /\ Pairwise(Parked(q, r), OtherId)
         /\ Ids(Parked(q, r)) = (Ids(q) \ Evicted(q)) \cup {r}
  <1> DEFINE full == Len(q) = ReqsPerSession
             kept == IF full THEN Front(q) ELSE q
             e    == [id |-> r, expired |-> FALSE]
  <1>0. Parked(q, r) = Append(kept, e)
    BY DEF Parked
  <1>1. e \in ReqRec /\ e.id = r
    BY DEF ReqRec
  <1> HIDE DEF e
  <1>2. ReqsPerSession \in Nat /\ ReqsPerSession > 0 /\ Len(q) \in Nat
    BY SubscriptionsAssumption
  <1>3. /\ kept \in Seq(ReqRec) /\ Len(kept) < ReqsPerSession /\ Pairwise(kept, OtherId)
        /\ Ids(kept) = Ids(q) \ Evicted(q)
    <2>1. CASE ~ full
      <3>1. kept = q
        BY <2>1
      <3>2. Len(kept) < ReqsPerSession
        BY <1>2, <2>1, <3>1
      <3> QED BY <2>1, <3>1, <3>2 DEF Evicted
    <2>2. CASE full
      <3> DEFINE u == SubSeq(q, 1, Len(q) - 1)
                 w == <<Last(q)>>
      <3>1. kept = u /\ Len(q) = ReqsPerSession
        BY <2>2 DEF Front
      <3>2. Len(q) - 1 \in 0..Len(q) /\ Len(q) \in 1..Len(q) /\ (Len(q) - 1) + 1 = Len(q)
        BY <1>2, <3>1
      <3>3. Last(q) \in ReqRec /\ Last(q) = q[Len(q)]
        BY <3>2, SMTT(20) DEF Last
      <3> DEFINE z == SubSeq(q, (Len(q) - 1) + 1, Len(q))
      <3>4. /\ u \in Seq(ReqRec) /\ Len(u) = Len(q) - 1 /\ z \in Seq(ReqRec)
            /\ Len(z) = Len(q) - (Len(q) - 1)
            /\ \A n \in 1..(Len(q) - (Len(q) - 1)) : z[n] = q[(Len(q) - 1) + n]
            /\ u \o z = q
        <4> DEFINE m == Len(q) - 1
        <4>1. m \in 0..Len(q)
          BY <3>2
        <4> HIDE DEF m
        <4>2. /\ SubSeq(q, 1, m) \in Seq(ReqRec) /\ Len(SubSeq(q, 1, m)) = m
              /\ SubSeq(q, m + 1, Len(q)) \in Seq(ReqRec) /\ Len(SubSeq(q, m + 1, Len(q))) = Len(q) - m
              /\ \A n \in 1..(Len(q) - m) : SubSeq(q, m + 1, Len(q))[n] = q[m + n]
              /\ SubSeq(q, 1, m) \o SubSeq(q, m + 1, Len(q)) = q
          BY <4>1, SplitSeq
        <4> QED BY <4>2 DEF m
      <3> HIDE DEF u, z
      <3>5. Len(q) - (Len(q) - 1) = 1 /\ (Len(q) - 1) + 1 = Len(q) /\ 1 \in 1..1
        BY <1>2
      <3>6. Len(z) = 1 /\ z[1] = Last(q)
        BY <3>3, <3>4, <3>5
      <3>7. Elems(z) = {Last(q)}
        <4>1. \A i \in 1..1 : i = 1
          OBVIOUS
        <4> QED BY <3>5, <3>6, <4>1 DEF Elems
      <3>8. Ids(z) = {Last(q).id} /\ Ids(q) = Ids(u) \cup Ids(z) /\ Ids(u) = {d.id : d \in Elems(u)}
        <4>1. Ids(z) = {d.id : d \in Elems(z)}
          BY <3>4, IdsFacts
        <4>2. Ids(u \o z) = Ids(u) \cup Ids(z) /\ Ids(u) = {d.id : d \in Elems(u)}
          BY <3>4, IdsFacts
        <4> QED BY <3>4, <3>7, <4>1, <4>2
      <3>9. Pairwise(u, OtherId) /\ \A d \in Elems(u) : <<d, Last(q)>> \in OtherId
        BY <3>4, <3>7, PairwiseSplit
      <3>10. \A d \in Elems(u) : d.id # Last(q).id
        BY <3>9 DEF OtherId
      <3>11. Ids(u) = Ids(q) \ {Last(q).id}
        BY <3>8, <3>10
      <3>12. Len(u) < ReqsPerSession
        BY <1>2, <3>1, <3>4
      <3> QED BY <2>2, <3>1, <3>4, <3>9, <3>11, <3>12 DEF Evicted
    <2> QED BY <2>1, <2>2
  <1> HIDE DEF kept
  <1>4. Append(kept, e) \in Seq(ReqRec) /\ Len(Append(kept, e)) = Len(kept) + 1 /\ Len(kept) \in Nat
    BY <1>1, <1>3
  <1>5. \A d \in Elems(kept) : d \in ReqRec /\ d.id \in Ids(kept)
    <2>1. Ids(kept) = {d.id : d \in Elems(kept)} /\ Elems(kept) \subseteq ReqRec
      BY <1>3, IdsFacts, ElemsType
    <2> QED BY <2>1
  <1>6. \A d \in Elems(kept) : <<d, e>> \in OtherId
    BY <1>1, <1>3, <1>5 DEF OtherId
  <1>7. Pairwise(Append(kept, e), OtherId)
    BY <1>1, <1>3, <1>6, PairwiseAppend
  <1>8. Ids(Append(kept, e)) = Ids(kept) \cup {r}
    <2>1. Ids(Append(kept, e)) = {d.id : d \in Elems(Append(kept, e))}
      BY <1>4, IdsFacts
    <2>4. kept \in Seq(ReqRec)
      BY <1>3
    <2>2. Elems(Append(kept, e)) = Elems(kept) \cup {e}
      BY <1>1, <2>4, ElemsAppend
    <2>3. Ids(kept) = {d.id : d \in Elems(kept)}
      BY <1>3, IdsFacts
    <2> QED BY <1>1, <2>1, <2>2, <2>3
  <1>9. Len(Append(kept, e)) <= ReqsPerSession
    <2>1. Len(kept) < ReqsPerSession
      BY <1>3
    <2> QED BY <1>2, <1>4, <2>1
  <1>10. Ids(Append(kept, e)) = (Ids(q) \ Evicted(q)) \cup {r}
    BY <1>3, <1>8
  <1> QED BY <1>0, <1>4, <1>7, <1>9, <1>10

LEMMA PublishQueuedKeeps ==
  ASSUME SubsInv, History(0), NEW s \in Sessions, NEW r \in Requests, PublishQueued(s, r)
  PROVE  SubsInv'
  <1> DEFINE q    == reqq[s]
             new  == Parked(q, r)
  <1>1. Types /\ RequestsKept /\ ForgottenKept /\ QueuesKept /\ AttentiveNoRequest
    BY DEF SubsInv
  <1>2. /\ session' = session /\ subs' = subs /\ prios' = prios /\ SubsOf(s) # {}
        /\ FirstAttentive(s) = 0 /\ r \notin waiting[s]
        /\ reqq' = [reqq EXCEPT ![s] = new]
        /\ waiting' = [waiting EXCEPT ![s] = (@ \ Evicted(q)) \cup {r}] /\ forgotten' = forgotten
    BY DEF PublishQueued, Parked, Evicted
  <1>3. s \in DOMAIN reqq /\ pending[s] = Ids(q) /\ Len(q) <= ReqsPerSession /\ Pairwise(q, OtherId)
    BY <1>1, <1>2 DEF RequestsKept
  <1>4. q \in Seq(ReqRec)
    BY <1>1, <1>3 DEF Types
  <1> HIDE DEF q
  <1>5. /\ new \in Seq(ReqRec) /\ Len(new) <= ReqsPerSession /\ Pairwise(new, OtherId)
        /\ Ids(new) = (Ids(q) \ Evicted(q)) \cup {r}
    <2>1. r \notin Ids(q)
      BY <1>2, <1>3 DEF pending
    <2> QED BY <1>3, <1>4, <2>1, ParkedFacts
  <1>6. ForgottenKept' /\ pending' = [pending EXCEPT ![s] = Ids(new)]
    <2> DEFINE X == Evicted(q)
               Y == {r}
    <2>1. X \subseteq pending[s]
      <3>1. ReqsPerSession \in Nat /\ ReqsPerSession # 0
        BY SubscriptionsAssumption
      <3>2. Len(q) = ReqsPerSession => Len(q) \in DOMAIN q
        BY <1>4, <3>1
      <3>3. Len(q) = ReqsPerSession => Last(q).id \in Ids(q)
        BY <3>2 DEF Ids, Last
      <3> QED BY <1>3, <3>3 DEF Evicted
    <2>2. Y \in SUBSET Requests /\ Y \cap forgotten[s] = {}
      BY <1>1, <1>2 DEF ForgottenKept
    <2>3. waiting' = [waiting EXCEPT ![s] = (@ \ X) \cup Y] /\ forgotten' = forgotten
      BY <1>2
    <2>4. Ids(new) = (pending[s] \ X) \cup Y
      BY <1>3, <1>5
    <2> HIDE DEF X, Y, new
    <2>5. ForgottenKept' /\ pending' = [pending EXCEPT ![s] = (@ \ X) \cup Y]
      BY <1>1, <2>1, <2>2, <2>3, ForgottenMoved
    <2> QED BY <2>4, <2>5
  <1> HIDE DEF new
  <1>7. SameSubs
    BY <1>2 DEF SameSubs, SameKey
  <1>8. QueuesKept'
    BY <1>1, <1>2, <1>7, QueuesQuiet
  <1>9. RequestsKept'
    BY <1>1, <1>2, <1>3, <1>5, <1>6, <1>7, SameSubsFacts, RequestsMoved
  <1>10. Types'
    <2>1. passed' \in [SubIds -> Nat]
      BY <1>1, HistoryFacts
    <2>2. Ids(new) \subseteq Requests
      BY <1>5, IdsFacts
    <2>3. pending' \in [Sessions -> SUBSET Requests]
      BY <1>1, <1>6, <2>2 DEF Types
    <2>4. DOMAIN reqq' = DOMAIN reqq /\ reqq' \in [DOMAIN reqq' -> Seq(ReqRec)]
      BY <1>1, <1>2, <1>5 DEF Types
    <2> QED BY <1>1, <1>2, <2>1, <2>3, <2>4 DEF Types
  <1>11. AttentiveNoRequest'
    <2>1. \A j \in SubsOf(s) : ~ Attentive(subs[j])
      BY <1>1, <1>2, FirstFacts
    <2>2. \A j \in DOMAIN subs : Attentive(subs[j]) => subs[j].session # s /\ reqq[subs[j].session] = <<>>
      BY <1>1, <2>1 DEF SubsOf, AttentiveNoRequest
    <2> QED BY <1>2, <2>2 DEF AttentiveNoRequest
  <1> QED BY <1>6, <1>8, <1>9, <1>10, <1>11 DEF SubsInv

\* A request that fails for its acknowledgements is waited for in vain.
LEMMA PublishTooManyAcksKeeps ==
  ASSUME SubsInv, History(0), NEW s \in Sessions, NEW r \in Requests, PublishTooManyAcks(s, r)
  PROVE  SubsInv'
  <1>1. Types /\ RequestsKept /\ ForgottenKept /\ QueuesKept /\ AttentiveNoRequest
    BY DEF SubsInv
  <1>2. /\ session' = session /\ subs' = subs /\ prios' = prios /\ reqq' = reqq /\ r \notin waiting[s]
        /\ waiting' = [waiting EXCEPT ![s] = @ \cup {r}]
        /\ forgotten' = [forgotten EXCEPT ![s] = @ \cup {r}]
    BY DEF PublishTooManyAcks
  <1>3. /\ waiting \in [Sessions -> SUBSET Requests] /\ forgotten \in [Sessions -> SUBSET Requests]
        /\ \A t \in Sessions : forgotten[t] \subseteq waiting[t]
    BY <1>1 DEF ForgottenKept
  <1>4. /\ waiting'[s] = waiting[s] \cup {r} /\ forgotten'[s] = forgotten[s] \cup {r}
        /\ \A t \in Sessions : t # s => waiting'[t] = waiting[t] /\ forgotten'[t] = forgotten[t]
    BY <1>2, <1>3
  <1>5. waiting' \in [Sessions -> SUBSET Requests] /\ forgotten' \in [Sessions -> SUBSET Requests]
    BY <1>2, <1>3
  <1>6. ForgottenKept'
    <2>1. \A t \in Sessions : forgotten'[t] \subseteq waiting'[t]
      BY <1>3, <1>4
    <2> QED BY <1>5, <2>1 DEF ForgottenKept
  <1>7. pending' = pending
    <2>1. \A t \in Sessions : waiting'[t] \ forgotten'[t] = waiting[t] \ forgotten[t]
      BY <1>2, <1>4
    <2> QED BY <2>1 DEF pending
  <1>8. SameSubs
    BY <1>2 DEF SameSubs, SameKey
  <1>9. QueuesKept'
    BY <1>1, <1>2, <1>8, QueuesQuiet
  <1>10. RequestsKept'
    BY <1>1, <1>2, <1>7, <1>8, SameSubsFacts, RequestsQuiet
  <1>11. AttentiveNoRequest'
    BY <1>1, <1>2 DEF AttentiveNoRequest
  <1>12. Types'
    <2>1. passed' \in [SubIds -> Nat]
      BY <1>1, HistoryFacts
    <2> QED BY <1>1, <1>2, <1>7, <2>1 DEF Types
  <1> QED BY <1>6, <1>9, <1>10, <1>11, <1>12 DEF SubsInv

LEMMA RequestExpiresKeeps ==
  ASSUME SubsInv, History(0), NEW s \in DOMAIN reqq, NEW i \in DOMAIN reqq[s], RequestExpires(s, i)
  PROVE  SubsInv'
  <1> DEFINE q   == reqq[s]
             new == [q EXCEPT ![i].expired = TRUE]
  <1>1. Types /\ RequestsKept /\ ForgottenKept /\ QueuesKept /\ AttentiveNoRequest
    BY DEF SubsInv
  <1>0. ForgottenKept' /\ pending' = pending
    BY <1>1, ForgottenQuiet DEF RequestExpires
  <1>2. /\ session' = session /\ subs' = subs /\ prios' = prios /\ pending' = pending
        /\ reqq' = [reqq EXCEPT ![s] = new]
    BY <1>0 DEF RequestExpires
  <1>3. /\ s \in Sessions /\ pending[s] = Ids(q) /\ Len(q) <= ReqsPerSession /\ Pairwise(q, OtherId)
        /\ q \in Seq(ReqRec)
    BY <1>1 DEF RequestsKept, Types
  <1> HIDE DEF q
  <1>4. /\ Len(q) \in Nat /\ DOMAIN q = 1..Len(q) /\ i \in 1..Len(q)
        /\ \A n \in 1..Len(q) : q[n] \in ReqRec
    BY <1>3 DEF q
  <1>5. /\ new \in Seq(ReqRec) /\ Len(new) = Len(q) /\ DOMAIN new = 1..Len(q)
        /\ \A n \in 1..Len(q) : new[n] \in ReqRec /\ new[n].id = q[n].id
    <2> DEFINE d == [q[i] EXCEPT !.expired = TRUE]
    <2>1. q[i] \in ReqRec
      BY <1>4
    <2>2. d \in ReqRec /\ d.id = q[i].id
      BY <2>1 DEF ReqRec
    <2>3. new = [q EXCEPT ![i] = d]
      OBVIOUS
    <2> HIDE DEF d, new
    <2>4. new \in Seq(ReqRec) /\ Len(new) = Len(q) /\ DOMAIN new = 1..Len(q)
      BY <1>3, <1>4, <2>2, <2>3
    <2>5. \A n \in 1..Len(q) : new[n] = IF n = i THEN d ELSE q[n]
      BY <1>4, <2>3
    <2> QED BY <1>4, <2>2, <2>4, <2>5
  <1> HIDE DEF new
  <1>6. Ids(new) = Ids(q)
    BY <1>4, <1>5 DEF Ids
  <1>7. Pairwise(new, OtherId)
    <2>1. \A n, m \in 1..Len(q) : n < m => q[n].id # q[m].id
      BY <1>3 DEF Pairwise, OtherId
    <2>2. \A n, m \in 1..Len(q) : n < m => new[n].id # new[m].id
      BY <1>5, <2>1
    <2> QED BY <1>5, <2>2 DEF Pairwise, OtherId
  <1>8. pending' = [pending EXCEPT ![s] = Ids(new)]
    BY <1>1, <1>2, <1>3, <1>6 DEF Types
  <1>9. SameSubs
    BY <1>2 DEF SameSubs, SameKey
  <1>10. QueuesKept'
    BY <1>1, <1>2, <1>9, QueuesQuiet
  <1>11. RequestsKept'
    BY <1>1, <1>2, <1>3, <1>5, <1>7, <1>8, <1>9, SameSubsFacts, RequestsMoved
  <1>12. Types'
    <2>1. passed' \in [SubIds -> Nat]
      BY <1>1, HistoryFacts
    <2>2. DOMAIN reqq' = DOMAIN reqq /\ reqq' \in [DOMAIN reqq' -> Seq(ReqRec)]
      BY <1>1, <1>2, <1>5 DEF Types
    <2> QED BY <1>1, <1>2, <2>1, <2>2 DEF Types
  <1>13. AttentiveNoRequest'
    <2>1. reqq[s] # <<>>
      BY <1>4 DEF q
    <2>2. \A j \in DOMAIN subs : Attentive(subs[j]) => subs[j].session # s /\ reqq[subs[j].session] = <<>>
      BY <1>1, <2>1 DEF AttentiveNoRequest
    <2> QED BY <1>2, <2>2 DEF AttentiveNoRequest
  <1> QED BY <1>0, <1>10, <1>11, <1>12, <1>13 DEF SubsInv

LEMMA ReceivePublishFacts ==
  ASSUME NEW v \in SubRec
  PROVE  ReceivePublish(v) \in SubRec /\ SameKey(ReceivePublish(v), v)
  <1> DEFINE alive == [v EXCEPT !.life = v.maxLife]
             idle  == [alive EXCEPT !.state = "keepAlive", !.keep = v.maxKeep, !.sent = TRUE]
  <1>1. v.maxLife \in Int /\ v.maxKeep \in Int
    BY DEF SubRec
  <1>2. alive \in SubRec /\ SameKey(alive, v)
    BY <1>1 DEF SubRec, SameKey
  <1>3. idle \in SubRec /\ SameKey(idle, v)
    BY <1>1 DEF SubRec, SameKey
  <1>4. ReceivePublish(v) = IF v.enabled /\ (v.more \/ v.avail > 0) THEN NotificationMessage(alive) ELSE idle
    BY DEF ReceivePublish
  <1> HIDE DEF alive, idle
  <1>5. NotificationMessage(alive) \in SubRec /\ SameKey(NotificationMessage(alive), alive)
    BY <1>2, MessageFacts
  <1>6. SameKey(NotificationMessage(alive), v)
    BY <1>2, <1>5 DEF SameKey
  <1> QED BY <1>3, <1>4, <1>5, <1>6

LEMMA PublishAnsweredKeeps ==
  ASSUME SubsInv, NEW s \in Sessions, PublishAnswered(s), History(FirstAttentive(s))
  PROVE  SubsInv'
  <1> DEFINE k == FirstAttentive(s)
             v == ReceivePublish(subs[k])
             ps == ServedLast(prios[s], k)
  <1>1. Types /\ RequestsKept /\ ForgottenKept /\ QueuesKept /\ AttentiveNoRequest
    BY DEF SubsInv
  <1>0. ForgottenKept' /\ pending' = pending
    BY <1>1, ForgottenQuiet DEF PublishAnswered
  <1>2. /\ session' = session /\ reqq' = reqq /\ pending' = pending /\ k # 0
        /\ subs' = [subs EXCEPT ![k] = v] /\ prios' = [prios EXCEPT ![s] = ps]
    BY <1>0 DEF PublishAnswered
  <1>3. /\ k \in SubsOf(s) /\ Attentive(subs[k])
        /\ \A e \in Elems(prios[s]) : \A n \in 1..Len(e.queue) :
             /\ e.prio = subs[k].prio
             /\ e.queue[n] # k /\ Attentive(subs[e.queue[n]])
             => \E a \in 1..(n - 1) : e.queue[a] = k
    BY <1>1, <1>2, FirstFacts
  <1>4. History(k)
    OBVIOUS
  <1> HIDE DEF k
  <1>5. k \in DOMAIN subs /\ k \in SubIds /\ subs[k].session = s
    <2>1. subs[k].session = s
      BY <1>3 DEF SubsOf
    <2> QED BY <1>1, <1>3, <2>1, SubsOfFacts
  <1>6. v \in SubRec /\ SameKey(v, subs[k])
    BY <1>1, <1>5, ReceivePublishFacts DEF Types
  <1> HIDE DEF v
  <1>7. /\ DOMAIN subs' \subseteq SubIds /\ subs' \in [DOMAIN subs' -> SubRec] /\ SameSubs
        /\ subs'[k] = v /\ \A j \in DOMAIN subs : j # k => subs'[j] = subs[j]
    BY <1>1, <1>2, <1>5, <1>6, OneSubTypes
  <1>8. /\ passed' \in [SubIds -> Nat] /\ passed \in [SubIds -> Nat]
        /\ \A j \in SubIds : /\ passed'[j] <= passed[j] + 1
                             /\ j \in DOMAIN subs /\ (s # subs[j].session \/ subs[k].prio # subs[j].prio)
                                  => passed'[j] <= passed[j]
                             /\ j \in DOMAIN subs /\ ~ Attentive(subs[j]) => passed'[j] = 0
        /\ passed'[k] = 0
    BY <1>1, <1>4, <1>5, HistoryFacts DEF Types
  <1>9. PrioOf' = PrioOf /\ \A t : SubsOf(t)' = SubsOf(t)
    BY <1>7, SameSubsFacts
  <1>10. \A t \in Sessions : prios'[t] = IF t = s THEN ps ELSE prios[t]
    BY <1>1, <1>2 DEF Types
  <1>11. ASSUME NEW t \in Sessions, t # s PROVE SessionKept(prios'[t], SubsOf(t)', PrioOf', passed')
    <2>1. SubsOf(t)' = SubsOf(t) /\ prios'[t] = prios[t]
      BY <1>9, <1>10, <1>11
    <2>2. \A j \in SubsOf(t) : j \in DOMAIN subs /\ j \in SubIds /\ subs[j].session = t
      BY <1>1, SubsOfFacts DEF SubsOf
    <2>3. \A j \in SubsOf(t) : subs'[j].prio = subs[j].prio
      BY <1>7, <2>2 DEF SameSubs, SameKey
    <2>4. \A j \in SubsOf(t) : passed'[j] <= passed[j]
      BY <1>8, <1>11, <2>2
    <2> QED BY <1>1, <1>8, <2>1, <2>3, <2>4, KeptElsewhere
  <1>12. SessionKept(ps, SubsOf(s), PrioOf, passed')
    <2> DEFINE B == SubsOf(s)
    <2>1. SessionKept(prios[s], B, PrioOf, passed)
      BY <1>1 DEF QueuesKept
    <2>2. IsFiniteSet(B) /\ B \subseteq SubIds /\ B \subseteq DOMAIN subs
      BY <1>1, SubsOfFacts
    <2>3. ASSUME NEW e \in Elems(prios[s]), NEW n \in 1..Len(e.queue), e.queue[n] # k
          PROVE  \/ passed'[e.queue[n]] <= passed[e.queue[n]]
                 \/ /\ passed'[e.queue[n]] <= passed[e.queue[n]] + 1
                    /\ \E a \in 1..(n - 1) : e.queue[a] = k
      <3> DEFINE x == e.queue[n]
      <3>1. Sound(prios[s], B, PrioOf)
        BY <2>1 DEF SessionKept
      <3>2. x \in B /\ x \in SubIds /\ x \in DOMAIN subs /\ Holds(e, B, PrioOf)
        BY <2>2, <3>1, ElemsOfQueues
      <3>3. subs[x].prio = e.prio
        <4>1. x \in Elems(e.queue)
          BY DEF Elems
        <4>2. PrioOf[x] = e.prio
          BY <3>2, <4>1 DEF Holds
        <4> QED BY <3>2, <4>2 DEF PrioOf
      <3>4. CASE e.prio # subs[k].prio
        <4>1. passed'[x] <= passed[x]
          BY <1>8, <3>2, <3>3, <3>4
        <4> QED BY <4>1
      <3>5. CASE ~ Attentive(subs[x])
        <4>1. passed'[x] = 0 /\ passed[x] \in Nat
          BY <1>8, <3>2, <3>5
        <4> HIDE DEF x
        <4>2. passed'[x] <= passed[x]
          BY <4>1
        <4> QED BY <4>2 DEF x
      <3>6. CASE e.prio = subs[k].prio /\ Attentive(subs[x])
        <4>1. \E a \in 1..(n - 1) : e.queue[a] = k
          BY <1>3, <2>3, <3>6
        <4>2. passed'[x] <= passed[x] + 1
          BY <1>8, <3>2
        <4> QED BY <4>1, <4>2
      <3> QED BY <3>4, <3>5, <3>6
    <2> HIDE DEF B
    <2>4. SessionKept(ps, B, PrioOf, passed')
      BY <1>5, <1>8, <2>1, <2>2, <2>3, KeptServed
    <2> QED BY <2>4 DEF B
  <1> HIDE DEF ps
  <1>13. QueuesKept'
    BY <1>9, <1>10, <1>11, <1>12 DEF QueuesKept
  <1>14. prios' \in [Sessions -> Seq(PrioRec)]
    BY <1>1, <1>2, <1>13, PriosType
  <1>15. RequestsKept'
    BY <1>1, <1>2, <1>9, RequestsQuiet
  <1>16. AttentiveNoRequest'
    <2>1. \A j \in DOMAIN subs : Attentive(subs[j]) => reqq[subs[j].session] = <<>>
      BY <1>1 DEF AttentiveNoRequest
    <2>2. \A j \in DOMAIN subs' : j \in DOMAIN subs /\ subs'[j].session = subs[j].session
      BY <1>7 DEF SameSubs, SameKey
    <2>3. reqq[s] = <<>>
      BY <1>3, <1>5, <2>1
    <2> QED BY <1>2, <1>5, <1>7, <2>1, <2>2, <2>3 DEF AttentiveNoRequest
  <1>17. Types'
    BY <1>1, <1>2, <1>7, <1>8, <1>14 DEF Types
  <1> QED BY <1>0, <1>13, <1>15, <1>16, <1>17 DEF SubsInv

LEMMA AgedFacts ==
  ASSUME NEW p \in Handling, NEW q \in Seq(ReqRec), Left(p, q)
  PROVE  /\ Aged(p) \in Handling /\ Left(Aged(p), q) /\ SameKey(Aged(p).sub, p.sub)
         /\ Aged(p).queue = p.queue /\ (Attentive(Aged(p).sub) <=> Attentive(p.sub))
  <1> DEFINE l == IF p.queue # <<>> THEN p.sub.maxLife ELSE p.sub.life - 1
             w == [p.sub EXCEPT !.life = l]
  <1>1. p.sub \in SubRec /\ p.sub.maxLife \in Int /\ p.sub.life \in Int
    BY DEF Handling, SubRec
  <1>2. l \in Int
    BY <1>1
  <1>3. Aged(p) = [p EXCEPT !.sub = w]
    BY DEF Aged, Handling
  <1> HIDE DEF l
  <1>4. w \in SubRec /\ SameKey(w, p.sub) /\ (Attentive(w) <=> Attentive(p.sub))
    BY <1>1, <1>2 DEF SubRec, SameKey, Attentive
  <1> HIDE DEF w
  <1>5. /\ Aged(p) \in Handling /\ Aged(p).sub = w /\ Aged(p).queue = p.queue
        /\ Aged(p).answered = p.answered
    BY <1>3, <1>4 DEF Handling
  <1>6. Left(Aged(p), q)
    BY <1>5 DEF Left
  <1> QED BY <1>4, <1>5, <1>6

\* The requests that are left are still told apart, and they are those not
\* answered.
LEMMA LeftFacts ==
  ASSUME NEW p \in Handling, NEW q \in Seq(ReqRec), Left(p, q), Pairwise(q, OtherId)
  PROVE  /\ Pairwise(p.queue, OtherId) /\ Len(p.queue) <= Len(q)
         /\ Ids(q) \ p.answered = Ids(p.queue) /\ p.answered \subseteq Ids(q)
         /\ q = <<>> => p.queue = <<>>
  <1> DEFINE b == p.queue
  <1>1. PICK a \in Seq(ReqRec) : q = a \o b /\ p.answered = Ids(a)
    BY DEF Left
  <1>2. b \in Seq(ReqRec)
    BY DEF Handling
  <1> HIDE DEF b
  <1>3. Pairwise(b, OtherId) /\ \A d \in Elems(a), e \in Elems(b) : <<d, e>> \in OtherId
    BY <1>1, <1>2, PairwiseSplit
  <1>4. /\ Ids(a) = {e.id : e \in Elems(a)} /\ Ids(b) = {e.id : e \in Elems(b)}
        /\ Ids(a \o b) = Ids(a) \cup Ids(b)
    BY <1>2, IdsFacts
  <1>5. Ids(a) \cap Ids(b) = {}
    <2>1. \A d \in Elems(a), e \in Elems(b) : d.id # e.id
      BY <1>3 DEF OtherId
    <2> QED BY <1>4, <2>1
  <1>6. Len(q) = Len(a) + Len(b) /\ Len(a) \in Nat /\ Len(b) \in Nat
    BY <1>1, <1>2, ConcatProperties
  <1>7. q = <<>> => b = <<>>
    BY <1>2, <1>6
  <1>8. Len(b) <= Len(q)
    BY <1>6
  <1>9. Ids(q) \ p.answered = Ids(b) /\ p.answered \subseteq Ids(q)
    BY <1>1, <1>4, <1>5
  <1> QED BY <1>3, <1>7, <1>8, <1>9 DEF b

LEMMA TimeoutKeeps ==
  ASSUME SubsInv, NEW k \in DOMAIN subs, Timeout(k)
  PROVE  SubsInv'
  <1> DEFINE s     == subs[k].session
             q     == reqq[s]
             first == [sub |-> subs[k], queue |-> q, answered |-> {}]
             start == PopInvalid(first)
             aged  == Aged(start)
             end   == Tick(aged)
  <1>1. Types /\ RequestsKept /\ ForgottenKept /\ QueuesKept /\ AttentiveNoRequest
    BY DEF SubsInv
  <1>2. /\ subs[k] \in SubRec /\ s \in Sessions /\ s \in DOMAIN reqq /\ k \in SubsOf(s)
        /\ k \in SubIds
    BY <1>1, QueueOf DEF Types
  <1>3. q \in Seq(ReqRec) /\ Len(q) <= ReqsPerSession /\ Pairwise(q, OtherId) /\ pending[s] = Ids(q)
    BY <1>1, <1>2 DEF Types, RequestsKept
  <1>4. Attentive(subs[k]) => q = <<>>
    BY <1>1 DEF AttentiveNoRequest
  <1>5. PublishTimeout(k) /\ History(0)
    BY DEF Timeout
  <1>6. \/ /\ start.queue = <<>>
           /\ subs' = Dropping(subs, {k})
           /\ prios' = [prios EXCEPT ![s] = RemoveFromPriority(@, {k})]
           /\ reqq' = IF SubsOf(s) = {k} THEN Dropping(reqq, {s}) ELSE [reqq EXCEPT ![s] = <<>>]
           /\ waiting' = [waiting EXCEPT ![s] = @ \ start.answered]
           /\ session' = session /\ forgotten' = forgotten
        \/ /\ subs' = [subs EXCEPT ![k] = end.sub]
           /\ prios' = IF start.queue # <<>> /\ HasMessage(start.sub)
                       THEN [prios EXCEPT ![s] = ServedLast(@, k)] ELSE prios
           /\ reqq' = [reqq EXCEPT ![s] = end.queue]
           /\ waiting' = [waiting EXCEPT ![s] = @ \ end.answered]
           /\ session' = session /\ forgotten' = forgotten
    BY <1>5 DEF PublishTimeout
  <1>7. first \in Handling /\ Left(first, q) /\ first.sub = subs[k] /\ first.queue = q
    <2>1. <<>> \in Seq(ReqRec) /\ <<>> \o q = q /\ Ids(<<>>) = {}
      BY <1>3, EmptyConcat DEF Ids
    <2>2. first \in Handling /\ first.queue = q /\ first.answered = {} /\ first.sub = subs[k]
      BY <1>2, <1>3 DEF Handling
    <2> QED BY <2>1, <2>2 DEF Left
  <1> HIDE DEF first
  <1>8. start \in Handling /\ Left(start, q) /\ start.sub = subs[k]
    BY <1>3, <1>7, PopFacts
  <1> HIDE DEF start
  <1>9. start.queue # <<>> => ~ Attentive(subs[k])
    BY <1>3, <1>4, <1>8, LeftFacts
  <1>10. /\ aged \in Handling /\ Left(aged, q) /\ SameKey(aged.sub, subs[k])
         /\ aged.queue # <<>> => ~ Attentive(aged.sub)
    BY <1>3, <1>8, <1>9, AgedFacts
  <1> HIDE DEF aged
  <1>11. /\ end \in Handling /\ Left(end, q) /\ SameKey(end.sub, aged.sub)
         /\ Attentive(end.sub) => end.queue = <<>>
    BY <1>3, <1>10, TickFacts
  <1> HIDE DEF end
  <1>12. ASSUME NEW p \in Handling, Left(p, q), waiting' = [waiting EXCEPT ![s] = @ \ p.answered],
                forgotten' = forgotten
         PROVE  ForgottenKept' /\ pending' = [pending EXCEPT ![s] = Ids(p.queue)]
    <2> DEFINE X == p.answered
               Y == {}
    <2>1. (pending[s] \ X) \cup Y = Ids(p.queue) /\ X \subseteq pending[s]
      BY <1>3, <1>12, LeftFacts
    <2>2. waiting' = [waiting EXCEPT ![s] = (@ \ X) \cup Y] /\ forgotten' = forgotten
      BY <1>12
    <2>3. Y \in SUBSET Requests /\ Y \cap forgotten[s] = {}
      OBVIOUS
    <2> HIDE DEF X, Y, s
    <2>4. ForgottenKept' /\ pending' = [pending EXCEPT ![s] = (@ \ X) \cup Y]
      BY <1>1, <1>2, <2>1, <2>2, <2>3, ForgottenMoved
    <2> QED BY <2>1, <2>4
  <1>13. CASE /\ start.queue = <<>>
              /\ subs' = Dropping(subs, {k})
              /\ prios' = [prios EXCEPT ![s] = RemoveFromPriority(@, {k})]
              /\ reqq' = IF SubsOf(s) = {k} THEN Dropping(reqq, {s}) ELSE [reqq EXCEPT ![s] = <<>>]
              /\ waiting' = [waiting EXCEPT ![s] = @ \ start.answered]
              /\ session' = session /\ forgotten' = forgotten
    <2>1. Ids(<<>>) = {}
      BY DEF Ids
    <2>2. ForgottenKept' /\ pending' = [pending EXCEPT ![s] = {}]
      BY <1>8, <1>13, <1>12, <2>1
    <2>3. {k} \in SUBSET SubsOf(s) /\ {k} # {}
      BY <1>2
    <2>4. \/ {k} = SubsOf(s) /\ reqq' = Dropping(reqq, {s})
          \/ {k} # SubsOf(s) /\ reqq' = [reqq EXCEPT ![s] = <<>>]
      BY <1>13
    <2> HIDE DEF s
    <2> QED BY <1>2, <1>5, <1>13, <2>2, <2>3, <2>4, RemovalKeeps
  <1>14. CASE /\ subs' = [subs EXCEPT ![k] = end.sub]
              /\ prios' = IF start.queue # <<>> /\ HasMessage(start.sub)
                          THEN [prios EXCEPT ![s] = ServedLast(@, k)] ELSE prios
              /\ reqq' = [reqq EXCEPT ![s] = end.queue]
              /\ waiting' = [waiting EXCEPT ![s] = @ \ end.answered]
              /\ session' = session /\ forgotten' = forgotten
    <2>1. end.sub \in SubRec /\ SameKey(end.sub, subs[k]) /\ end.queue \in Seq(ReqRec)
      BY <1>10, <1>11 DEF SameKey, Handling
    <2>2. /\ DOMAIN subs' \subseteq SubIds /\ subs' \in [DOMAIN subs' -> SubRec] /\ SameSubs
          /\ subs'[k] = end.sub /\ \A j \in DOMAIN subs : j # k => subs'[j] = subs[j]
      BY <1>1, <1>14, <2>1, OneSubTypes
    <2>3. /\ passed' \in [SubIds -> Nat] /\ passed \in [SubIds -> Nat]
          /\ \A j \in SubIds : /\ passed'[j] <= passed[j]
                               /\ j \in DOMAIN subs /\ ~ Attentive(subs[j]) => passed'[j] = 0
      BY <1>1, <1>5, HistoryFacts DEF Types
    <2>4. PrioOf' = PrioOf /\ \A t : SubsOf(t)' = SubsOf(t)
      BY <2>2, SameSubsFacts
    <2>5. /\ Pairwise(end.queue, OtherId) /\ Len(end.queue) <= Len(q)
          /\ Ids(q) \ end.answered = Ids(end.queue) /\ (q = <<>> => end.queue = <<>>)
      BY <1>3, <1>11, LeftFacts
    <2>6. QueuesKept' /\ prios' \in [Sessions -> Seq(PrioRec)]
      <3>1. CASE ~ (start.queue # <<>> /\ HasMessage(start.sub))
        <4>1. prios' = prios
          BY <1>14, <3>1
        <4> QED BY <1>1, <1>5, <2>2, <4>1, QueuesQuiet DEF Types
      <3>2. CASE start.queue # <<>> /\ HasMessage(start.sub)
        <4> DEFINE ps == ServedLast(prios[s], k)
        <4>1. prios' = [prios EXCEPT ![s] = ps]
          BY <1>14, <3>2
        <4>2. \A t \in Sessions : prios'[t] = IF t = s THEN ps ELSE prios[t]
          BY <1>1, <4>1 DEF Types
        <4>3. ASSUME NEW t \in Sessions, t # s PROVE SessionKept(prios'[t], SubsOf(t)', PrioOf', passed')
          <5>1. SubsOf(t)' = SubsOf(t) /\ prios'[t] = prios[t]
            BY <2>4, <4>2, <4>3
          <5>2. \A j \in SubsOf(t) : j \in DOMAIN subs /\ j \in SubIds
            BY <1>1, SubsOfFacts
          <5>3. \A j \in SubsOf(t) : subs'[j].prio = subs[j].prio /\ passed'[j] <= passed[j]
            BY <2>2, <2>3, <5>2 DEF SameSubs, SameKey
          <5> QED BY <1>1, <2>3, <5>1, <5>3, KeptElsewhere
        <4>4. SessionKept(ps, SubsOf(s), PrioOf, passed')
          <5> DEFINE B == SubsOf(s)
          <5>1. SessionKept(prios[s], B, PrioOf, passed) /\ Sound(prios[s], B, PrioOf)
            BY <1>1, <1>2 DEF QueuesKept, SessionKept
          <5>2. IsFiniteSet(B)
            BY <1>1, SubsOfFacts
          <5>3. passed'[k] = 0
            BY <1>2, <1>9, <2>3, <3>2
          <5>4. \A e \in Elems(prios[s]) : \A n \in 1..Len(e.queue) :
                  passed'[e.queue[n]] <= passed[e.queue[n]]
            BY <2>3, <5>1, ElemsOfQueues
          <5> HIDE DEF B
          <5> QED BY <1>2, <2>3, <5>1, <5>2, <5>3, <5>4, KeptServed DEF B
        <4> HIDE DEF ps
        <4>5. QueuesKept'
          BY <2>4, <4>2, <4>3, <4>4 DEF QueuesKept
        <4> QED BY <1>1, <1>2, <4>1, <4>5, PriosType
      <3> QED BY <3>1, <3>2
    <2>7. ForgottenKept' /\ pending' = [pending EXCEPT ![s] = Ids(end.queue)]
      BY <1>11, <1>14, <1>12
    <2>8. Len(end.queue) <= ReqsPerSession
      <3>1. Len(end.queue) \in Nat /\ Len(q) \in Nat /\ ReqsPerSession \in Nat
        BY <1>3, <2>1, SubscriptionsAssumption
      <3> QED BY <1>3, <2>5, <3>1
    <2>9. RequestsKept'
      <3>1. \A t \in Sessions : SubsOf(t)' = {} <=> SubsOf(t) = {}
        BY <2>4
      <3> HIDE DEF s
      <3> QED BY <1>1, <1>2, <1>14, <2>1, <2>5, <2>7, <2>8, <3>1, RequestsMoved
    <2>10. Types'
      <3>1. DOMAIN reqq' = DOMAIN reqq /\ reqq' \in [DOMAIN reqq' -> Seq(ReqRec)]
        BY <1>1, <1>14, <2>1 DEF Types
      <3>2. Ids(end.queue) \subseteq Requests
        BY <2>1, IdsFacts
      <3>3. pending' \in [Sessions -> SUBSET Requests]
        BY <1>1, <2>7, <3>2 DEF Types
      <3> QED BY <1>1, <1>14, <2>2, <2>3, <2>6, <3>1, <3>3 DEF Types
    <2>11. AttentiveNoRequest'
      <3>1. \A j \in DOMAIN subs : Attentive(subs[j]) => reqq[subs[j].session] = <<>>
        BY <1>1 DEF AttentiveNoRequest
      <3>2. /\ reqq'[s] = end.queue /\ reqq[s] = q
            /\ \A t \in DOMAIN reqq : t # s => reqq'[t] = reqq[t]
        BY <1>2, <1>14
      <3>3. \A j \in DOMAIN subs : subs[j].session \in DOMAIN reqq
        BY <1>1, QueueOf
      <3> HIDE DEF q
      <3>4. ASSUME NEW j \in DOMAIN subs, Attentive(subs'[j]) PROVE reqq'[subs[j].session] = <<>>
        <4>1. CASE j = k
          BY <1>11, <2>2, <3>2, <3>4, <4>1
        <4>2. CASE j # k
          <5>1. reqq[subs[j].session] = <<>>
            BY <2>2, <3>1, <3>4, <4>2
          <5>2. CASE subs[j].session = s
            <6>1. q = <<>>
              BY <3>2, <5>1, <5>2
            <6> QED BY <2>5, <3>2, <5>2, <6>1
          <5>3. CASE subs[j].session # s
            BY <3>2, <3>3, <5>1, <5>3
          <5> QED BY <5>2, <5>3
        <4> QED BY <4>1, <4>2
      <3> QED BY <2>2, <3>4 DEF AttentiveNoRequest, SameSubs, SameKey
    <2> QED BY <2>6, <2>7, <2>9, <2>10, <2>11 DEF SubsInv
  <1> QED BY <1>6, <1>13, <1>14

-----------------------------------------------------------------------------
(* The invariant holds, and says what is checked on the small instances.   *)

LEMMA SubsInvInit ==
  ASSUME Init
  PROVE  SubsInv
  <1>1. DOMAIN subs = {} /\ DOMAIN reqq = {}
    BY DEF Init
  <1>2. \A s : SubsOf(s) = {}
    BY <1>1 DEF SubsOf
  <1>3. Types
    <2>1. <<>> \in Seq(PrioRec) /\ 0 \in Nat
      OBVIOUS
    <2>2. /\ session \in [Sessions -> {"closed", "orphaned", "active"}]
          /\ prios \in [Sessions -> Seq(PrioRec)] /\ pending \in [Sessions -> SUBSET Requests]
          /\ passed \in [SubIds -> Nat]
      BY <2>1 DEF Init, pending
    <2>3. subs \in [DOMAIN subs -> SubRec] /\ reqq \in [DOMAIN reqq -> Seq(ReqRec)]
      BY <1>1 DEF Init
    <2> QED BY <1>1, <2>2, <2>3 DEF Types
  <1>4. RequestsKept
    BY <1>1, <1>2 DEF RequestsKept, Init, pending
  <1>7. ForgottenKept
    BY DEF ForgottenKept, Init
  <1>5. AttentiveNoRequest
    BY <1>1 DEF AttentiveNoRequest
  <1>6. QueuesKept
    <2> SUFFICES ASSUME NEW s \in Sessions PROVE SessionKept(prios[s], SubsOf(s), PrioOf, passed)
      BY DEF QueuesKept
    <2>1. prios[s] = <<>> /\ SubsOf(s) = {}
      BY <1>2 DEF Init
    <2> QED BY <2>1, KeptEmpty
  <1> QED BY <1>3, <1>4, <1>5, <1>6, <1>7 DEF SubsInv

LEMMA ClientStepKeeps ==
  ASSUME SubsInv, ClientStep, History(0)
  PROVE  SubsInv'
  <1>1. CASE \E s \in Sessions : ActivateSession(s)
    BY <1>1, ActivateSessionKeeps
  <1>2. CASE \E s \in Sessions, p \in Priorities, en \in BOOLEAN,
                life \in Lifetimes, keep \in KeepAlives, size \in MsgSizes :
               CreateSubscription(s, p, en, life, keep, size)
    BY <1>2, CreateSubscriptionKeeps
  <1>3. CASE \E k \in DOMAIN subs, p \in Priorities,
                life \in Lifetimes, keep \in KeepAlives, size \in MsgSizes :
               ModifySubscription(k, p, life, keep, size)
    BY <1>3, ModifySubscriptionKeeps
  <1>4. CASE \E s \in Sessions : \E S \in SUBSET SubsOf(s) : DeleteSubscriptions(s, S)
    BY <1>4, DeleteSubscriptionsKeeps
  <1>5. CASE \E s \in Sessions, en \in BOOLEAN : \E S \in SUBSET SubsOf(s) : SetPublishingMode(s, S, en)
    BY <1>5, SetPublishingModeKeeps
  <1>6. CASE \E k \in DOMAIN subs : Republish(k)
    BY <1>6, RepublishKeeps
  <1>7. CASE \E s \in Sessions, r \in Requests : PublishQueued(s, r) \/ PublishTooManyAcks(s, r)
    BY <1>7, PublishQueuedKeeps, PublishTooManyAcksKeeps
  <1> QED BY <1>1, <1>2, <1>3, <1>4, <1>5, <1>6, <1>7 DEF ClientStep

LEMMA ServerStepKeeps ==
  ASSUME SubsInv, ServerStep, History(0)
  PROVE  SubsInv'
  <1>1. CASE \E s \in Sessions : SessionInactive(s) \/ SessionClosed(s)
    BY <1>1, SessionInactiveKeeps, SessionClosedKeeps
  <1>2. CASE \E k \in DOMAIN subs, n \in 0..MaxAvail : ItemsChanged(k, n)
    BY <1>2, ItemsChangedKeeps
  <1>3. CASE \E s \in DOMAIN reqq : \E i \in DOMAIN reqq[s] : RequestExpires(s, i)
    BY <1>3, RequestExpiresKeeps
  <1> QED BY <1>1, <1>2, <1>3 DEF ServerStep

LEMMA StutterKeeps ==
  ASSUME SubsInv, UNCHANGED vars
  PROVE  SubsInv'
  <1>1. /\ session' = session /\ subs' = subs /\ prios' = prios /\ reqq' = reqq
        /\ waiting' = waiting /\ forgotten' = forgotten /\ passed' = passed
    BY DEF vars
  <1>7. ForgottenKept' /\ pending' = pending
    BY <1>1, ForgottenQuiet DEF SubsInv
  <1>2. Types'
    BY <1>1, <1>7 DEF SubsInv, Types
  <1>3. SameSubs
    BY <1>1 DEF SameSubs, SameKey
  <1>4. RequestsKept'
    BY <1>1, <1>3, <1>7, SameSubsFacts, RequestsQuiet DEF SubsInv
  <1>5. AttentiveNoRequest'
    BY <1>1 DEF SubsInv, AttentiveNoRequest
  <1>6. QueuesKept'
    BY <1>1, <1>3, SameSubsFacts DEF SubsInv, QueuesKept
  <1> QED BY <1>2, <1>4, <1>5, <1>6, <1>7 DEF SubsInv

LEMMA SubsInvNext ==
  ASSUME SubsInv, [Next]_vars
  PROVE  SubsInv'
  <1>1. CASE (ClientStep \/ ServerStep \/ ClientsGo) /\ History(0)
    BY <1>1, ClientStepKeeps, ServerStepKeeps, ClientsGoKeeps
  <1>2. CASE \E s \in Sessions : PublishAnswered(s) /\ History(FirstAttentive(s))
    BY <1>2, PublishAnsweredKeeps
  <1>3. CASE \E k \in DOMAIN subs : Timeout(k)
    BY <1>3, TimeoutKeeps
  <1>4. CASE UNCHANGED vars
    BY <1>4, StutterKeeps
  <1> QED BY <1>1, <1>2, <1>3, <1>4 DEF Next

\* The inductive invariant of the subscriptions.
THEOREM SubsInvHolds == SubsSpec => []SubsInv
  <1>1. Init => SubsInv
    BY SubsInvInit
  <1>2. SubsInv /\ [Next]_vars => SubsInv'
    BY SubsInvNext
  <1> QED BY <1>1, <1>2, PTL DEF SubsSpec

\* A late subscription, or one with notifications left to send, never waits
\* beside a parked publish request: treat_subscription_publish_request uses
\* a request at once and server_subscription_publish_timeout sends as long
\* as there is one.
THEOREM NoneWaits == SubsSpec => []AttentiveNoRequest
  <1>1. SubsInv => AttentiveNoRequest
    BY DEF SubsInv
  <1> QED BY <1>1, SubsInvHolds, PTL

LEMMA IdsCount ==
  ASSUME NEW q \in Seq(ReqRec), Pairwise(q, OtherId)
  PROVE  Cardinality(Ids(q)) = Len(q)
  <1> DEFINE t == [i \in 1..Len(q) |-> q[i].id]
  <1>1. Len(q) \in Nat /\ DOMAIN q = 1..Len(q) /\ \A i \in 1..Len(q) : q[i] \in ReqRec
    OBVIOUS
  <1>2. \A i \in 1..Len(q) : q[i].id \in Requests
    BY <1>1 DEF ReqRec
  <1>3. t \in Seq(Requests) /\ Len(t) = Len(q) /\ \A i \in 1..Len(q) : t[i] = q[i].id
    BY <1>1, <1>2
  <1> HIDE DEF t
  <1>4. Elems(t) = Ids(q)
    BY <1>1, <1>3 DEF Elems, Ids
  <1>5. \A i, j \in 1..Len(t) : i < j => t[i] # t[j]
    <2>1. \A i, j \in 1..Len(q) : i < j => <<q[i], q[j]>> \in OtherId
      BY DEF Pairwise
    <2>2. \A i, j \in 1..Len(q) : i < j => q[i].id # q[j].id
      BY <2>1 DEF OtherId
    <2> QED BY <1>3, <2>2
  <1> QED BY <1>3, <1>4, <1>5, DistinctCount

\* What a client waits for is parked, once, or failed for the number of its
\* acknowledgements, over the life of a session's subscriptions: a request
\* that was parked, then evicted, expired, used by a message or answered
\* when the last subscription goes, is never lost, answered twice or left
\* behind.
THEOREM NoRequestIsLost == SubsSpec => []RequestsAccounted
  <1>1. SubsInv => RequestsAccounted
    <2> SUFFICES ASSUME SubsInv PROVE RequestsAccounted
      OBVIOUS
    <2>1. \A s \in DOMAIN reqq : Cardinality(Ids(reqq[s])) = Len(reqq[s])
      BY IdsCount DEF SubsInv, Types, RequestsKept
    <2>2. \A s \in Sessions : pending[s] = ParkedBy(s)
      BY DEF SubsInv, RequestsKept, ParkedBy
    <2>3. \A s \in Sessions : /\ waiting[s] = ParkedBy(s) \cup forgotten[s]
                              /\ ParkedBy(s) \cap forgotten[s] = {}
      BY <2>2 DEF SubsInv, ForgottenKept, pending
    <2> QED BY <2>1, <2>3 DEF SubsInv, RequestsKept, RequestsAccounted
  <1> QED BY <1>1, SubsInvHolds, PTL

\* Whatever the order in which subscriptions are created, modified, deleted
\* and served, the queues of a session hold each of them once, under its own
\* priority (add_subscription, delete_subscription,
\* reconfigure_priority_subscriptions_queue_last_sub).
THEOREM EachInItsQueue == SubsSpec => []PrioritiesSound
  <1>1. SubsInv => PrioritiesSound
    <2> SUFFICES ASSUME SubsInv, NEW s \in Sessions
                 PROVE  /\ \A i, j \in DOMAIN prios[s] : prios[s][i].prio = prios[s][j].prio => i = j
                        /\ Len(IterOrder(prios[s])) = Cardinality(SubsOf(s))
                        /\ \A k \in SubsOf(s) : \E i \in DOMAIN prios[s] :
                             prios[s][i].prio = subs[k].prio /\ k \in ToSet(prios[s][i].queue)
      BY DEF PrioritiesSound
    <2> DEFINE ps == prios[s]
               B  == SubsOf(s)
    <2>1. Sound(ps, B, PrioOf)
      BY DEF SubsInv, QueuesKept, SessionKept
    <2>2. B \subseteq SubIds /\ B \subseteq DOMAIN subs
      BY SubsOfFacts DEF SubsInv
    <2>3. ps \in Seq(PrioRec) /\ Len(ps) \in Nat /\ DOMAIN ps = 1..Len(ps)
      BY <2>1 DEF Sound
    <2>4. \A k \in B : PrioOf[k] = subs[k].prio
      BY <2>2 DEF PrioOf
    <2> HIDE DEF ps, B
    <2>5. \A i, j \in DOMAIN ps : ps[i].prio = ps[j].prio => i = j
      <3>1. \A i, j \in 1..Len(ps) : i < j => ps[i].prio # ps[j].prio
        BY <2>1 DEF Sound, Pairwise, OtherPrio
      <3> QED BY <2>3, <3>1
    <2>6. Len(IterOrder(ps)) = Cardinality(B)
      <3> DEFINE o == IterOrder(ps)
      <3>1. o \in Seq(SubIds) /\ Elems(o) = B /\ Pairwise(o, Unequal)
        BY <2>1, <2>2, IterFacts DEF Serves
      <3> HIDE DEF o
      <3>2. Cardinality(Elems(o)) = Len(o)
        BY <3>1, QueueFacts
      <3> QED BY <3>1, <3>2 DEF o
    <2>7. ASSUME NEW k \in B
          PROVE  \E i \in DOMAIN ps : ps[i].prio = subs[k].prio /\ k \in ToSet(ps[i].queue)
      <3>1. PICK e \in Elems(ps) : e.prio = PrioOf[k]
        BY <2>1 DEF Sound
      <3>2. PICK i \in DOMAIN ps : ps[i] = e
        BY <2>3 DEF Elems
      <3>3. k \in Elems(e.queue)
        BY <2>1, <3>1 DEF Sound, Holds
      <3>4. e.queue \in Seq(SubIds) /\ Pairwise(e.queue, Unequal)
        BY <2>1, ElemsOfQueues DEF Holds
      <3>5. ToSet(e.queue) = Elems(e.queue)
        BY <3>4, QueueFacts
      <3> QED BY <2>4, <3>1, <3>2, <3>3, <3>5
    <2> QED BY <2>5, <2>6, <2>7 DEF ps, B
  <1> QED BY <1>1, SubsInvHolds, PTL

\* A subscription that waits to be answered is passed by others of its
\* priority fewer times than a session may have subscriptions: a message
\* puts its subscription last.
THEOREM ServedInTurn == SubsSpec => []RoundRobin
  <1>1. SubsInv => RoundRobin
    <2> SUFFICES ASSUME SubsInv, NEW k \in DOMAIN subs PROVE passed[k] < SubsPerSession
      BY DEF RoundRobin
    <2> DEFINE s == subs[k].session
    <2>1. s \in Sessions /\ k \in SubsOf(s) /\ k \in SubIds
      BY QueueOf DEF SubsInv, Types
    <2> HIDE DEF s
    <2>2. SessionKept(prios[s], SubsOf(s), PrioOf, passed)
      BY <2>1 DEF SubsInv, QueuesKept
    <2>3. Sound(prios[s], SubsOf(s), PrioOf) /\ Ranked(prios[s], passed)
      BY <2>2 DEF SessionKept
    <2>4. PICK e \in Elems(prios[s]) : e.prio = PrioOf[k]
      BY <2>1, <2>3 DEF Sound
    <2>5. k \in Elems(e.queue) /\ e.queue \in Seq(SubIds)
      <3>1. Holds(e, SubsOf(s), PrioOf) /\ e.queue \in Seq(SubIds)
        BY <2>3, ElemsOfQueues
      <3> QED BY <2>1, <2>4, <3>1 DEF Holds
    <2>6. PICK n \in 1..Len(e.queue) : e.queue[n] = k
      BY <2>5 DEF Elems
    <2>7. passed[k] + n <= SubsPerSession
      BY <2>3, <2>6 DEF Ranked, Placed
    <2>8. passed[k] \in Nat /\ n \in Nat /\ n >= 1 /\ SubsPerSession \in Nat
      BY <2>1, <2>5, SubscriptionsAssumption DEF SubsInv, Types
    <2> QED BY <2>7, <2>8
  <1> QED BY <1>1, SubsInvHolds, PTL
=============================================================================
