---------------------------- MODULE SequenceFacts ----------------------------
(***************************************************************************)
(* Facts about natural numbers and sequences that the proofs share.        *)
(***************************************************************************)
EXTENDS Integers, Sequences, Lists, SequenceTheorems, WellFoundedInduction, TLAPS

\* A set of natural numbers that is not empty has a least element.
LEMMA LeastNatural ==
  ASSUME NEW T, T \subseteq Nat, T # {}
  PROVE  \E m \in T : \A k \in T : m <= k
  <1>1. PICK x \in T : \A y \in T : ~(<<y, x>> \in OpToRel(<, Nat))
    BY WFMin, NatLessThanWellFounded
  <1>2. \A y \in T : ~(y < x)
    BY <1>1 DEF OpToRel
  <1>3. \A y \in T : x <= y
    BY <1>2
  <1> QED BY <1>3

\* A property that holds of 0 and passes from each number to the next holds
\* of every number up to n: induction, with the property given as a set.
LEMMA InductionTo ==
  ASSUME NEW n \in Nat, NEW T, 0 \in T, \A k \in 0..(n - 1) : k \in T => k + 1 \in T
  PROVE  \A k \in 0..n : k \in T
  <1> DEFINE B == {k \in 0..n : k \notin T}
  <1> SUFFICES ASSUME B # {} PROVE FALSE
    OBVIOUS
  <1>0. B \subseteq Nat
    OBVIOUS
  <1> HIDE DEF B
  <1>1. PICK m \in B : \A k \in B : m <= k
    BY <1>0, LeastNatural
  <1>2. m \in 0..n /\ m \notin T /\ m # 0
    BY <1>1 DEF B
  <1>3. m - 1 \in 0..(n - 1) /\ m - 1 \notin B
    BY <1>1, <1>2
  <1>4. m - 1 \in T
    BY <1>2, <1>3 DEF B
  <1>5. (m - 1) + 1 = m
    BY <1>2
  <1> QED BY <1>2, <1>3, <1>4, <1>5

\* A sequence cut in two.
LEMMA SplitSeq ==
  ASSUME NEW S, NEW q \in Seq(S), NEW k \in 0..Len(q)
  PROVE  /\ SubSeq(q, 1, k) \in Seq(S) /\ Len(SubSeq(q, 1, k)) = k
         /\ SubSeq(q, k + 1, Len(q)) \in Seq(S) /\ Len(SubSeq(q, k + 1, Len(q))) = Len(q) - k
         /\ \A n \in 1..k : SubSeq(q, 1, k)[n] = q[n]
         /\ \A n \in 1..(Len(q) - k) : SubSeq(q, k + 1, Len(q))[n] = q[k + n]
         /\ SubSeq(q, 1, k) \o SubSeq(q, k + 1, Len(q)) = q
  <1> DEFINE a == SubSeq(q, 1, k)
             b == SubSeq(q, k + 1, Len(q))
  <1>1. Len(q) \in Nat
    BY LenProperties
  <1>2. a \in Seq(S) /\ Len(a) = k /\ \A n \in 1..k : a[n] = q[n]
    BY <1>1, SubSeqProperties, ElementOfSeq
  <1>3. b \in Seq(S) /\ Len(b) = Len(q) - k /\ \A n \in 1..(Len(q) - k) : b[n] = q[k + n]
    BY <1>1, SubSeqProperties, ElementOfSeq
  <1>4. 1 \in 1..(Len(q) + 1) /\ k \in (1 - 1)..Len(q) /\ Len(q) \in k..Len(q)
    BY <1>1
  <1>5. a \o b = SubSeq(q, 1, Len(q))
    BY <1>4, ConcatAdjacentSubSeq
  <1>6. SubSeq(q, 1, Len(q)) = q
    BY SubSeqFull
  <1> QED BY <1>2, <1>3, <1>5, <1>6

\* The first part of a concatenation is a beginning of it.
LEMMA ConcatBegins ==
  ASSUME NEW S, NEW s \in Seq(S), NEW t \in Seq(S)
  PROVE  /\ Len(s) <= Len(s \o t)
         /\ \A n \in 1..Len(s) : (s \o t)[n] = s[n]
  <1>1. Len(s) \in Nat /\ Len(t) \in Nat
    BY LenProperties
  <1> QED BY <1>1, ConcatProperties

\* Elements moved from the head of q to the end of w.
LEMMA MoveSeq ==
  ASSUME NEW S, NEW w \in Seq(S), NEW q \in Seq(S), NEW k \in 0..Len(q)
  PROVE  (w \o SubSeq(q, 1, k)) \o SubSeq(q, k + 1, Len(q)) = w \o q
  <1> DEFINE a == SubSeq(q, 1, k)
             b == SubSeq(q, k + 1, Len(q))
  <1>1. a \in Seq(S) /\ b \in Seq(S)
    BY SplitSeq
  <1>2. a \o b = q
    BY SplitSeq
  <1> HIDE DEF a, b
  <1>3. (w \o a) \o b = w \o (a \o b)
    BY <1>1
  <1> QED BY <1>2, <1>3 DEF a, b

\* A beginning of g is a beginning of g followed by u.
LEMMA BeginsExtended ==
  ASSUME NEW S, NEW w \in Seq(S), NEW g \in Seq(S), NEW u \in Seq(S),
         Len(w) <= Len(g), \A n \in 1..Len(w) : w[n] = g[n]
  PROVE  Len(w) <= Len(g \o u) /\ \A n \in 1..Len(w) : w[n] = (g \o u)[n]
  <1>1. Len(w) \in Nat /\ Len(g) \in Nat /\ Len(u) \in Nat
    BY LenProperties
  <1> QED BY <1>1, ConcatProperties

\* The rest of a sequence.
LEMMA TailSeq ==
  ASSUME NEW S, NEW q \in Seq(S), Len(q) > 0
  PROVE  /\ Tail(q) \in Seq(S) /\ Len(Tail(q)) = Len(q) - 1
         /\ \A n \in 1..(Len(q) - 1) : Tail(q)[n] = q[n + 1]
  <1>1. q # <<>>
    OBVIOUS
  <1> QED BY <1>1

\* An element before a sequence.
LEMMA ConsSeq ==
  ASSUME NEW S, NEW e \in S, NEW q \in Seq(S)
  PROVE  /\ <<e>> \o q \in Seq(S) /\ Len(<<e>> \o q) = Len(q) + 1
         /\ (<<e>> \o q)[1] = e
         /\ \A n \in 2..(Len(q) + 1) : (<<e>> \o q)[n] = q[n - 1]
  <1> DEFINE c == <<e>>
  <1>1. c \in Seq(S) /\ Len(c) = 1 /\ c[1] = e /\ Len(q) \in Nat
    OBVIOUS
  <1> HIDE DEF c
  <1>2. /\ c \o q \in Seq(S) /\ Len(c \o q) = Len(c) + Len(q)
        /\ \A n \in 1..(Len(c) + Len(q)) : (c \o q)[n] = IF n <= Len(c) THEN c[n] ELSE q[n - Len(c)]
    BY <1>1, ConcatProperties
  <1> QED BY <1>1, <1>2 DEF c

\* An element after a sequence.
LEMMA SnocSeq ==
  ASSUME NEW S, NEW e \in S, NEW q \in Seq(S)
  PROVE  /\ q \o <<e>> = Append(q, e)
         /\ Append(q, e) \in Seq(S) /\ Len(Append(q, e)) = Len(q) + 1
         /\ Append(q, e)[Len(q) + 1] = e
         /\ \A n \in 1..Len(q) : Append(q, e)[n] = q[n]
  OBVIOUS

\* Nothing before or after a sequence.
LEMMA EmptyConcat ==
  ASSUME NEW S, NEW q \in Seq(S)
  PROVE  <<>> \o q = q /\ q \o <<>> = q
  OBVIOUS

-----------------------------------------------------------------------------
(* What a sequence holds, and relations between its elements.              *)

\* The elements of s.
Elems(s) == {s[i] : i \in 1..Len(s)}

\* Every element of s is in the relation R with the ones after it.
Pairwise(s, R) == \A i, j \in 1..Len(s) : i < j => <<s[i], s[j]>> \in R

\* Every element of s is in the relation R with the next one.
Linked(s, R) == \A i \in 1..(Len(s) - 1) : <<s[i], s[i + 1]>> \in R

\* The elements of a concatenation.
LEMMA ElemsConcat ==
  ASSUME NEW S, NEW s \in Seq(S), NEW t \in Seq(S)
  PROVE  Elems(s \o t) = Elems(s) \cup Elems(t)
  <1> DEFINE u == s \o t
  <1>1. Len(s) \in Nat /\ Len(t) \in Nat
    OBVIOUS
  <1>2. Len(u) = Len(s) + Len(t) /\ \A n \in 1..Len(s) : u[n] = s[n]
    BY <1>1, ConcatProperties
  <1>3. \A n \in 1..Len(t) : u[Len(s) + n] = t[n]
    <2> TAKE n \in 1..Len(t)
    <2>1. Len(s) + n \in 1..(Len(s) + Len(t)) /\ ~(Len(s) + n <= Len(s)) /\ (Len(s) + n) - Len(s) = n
      BY <1>1
    <2> QED BY <2>1, ConcatProperties
  <1> HIDE DEF u
  <1>4. ASSUME NEW i \in 1..Len(u) PROVE u[i] \in Elems(s) \cup Elems(t)
    <2>1. CASE i \in 1..Len(s)
      BY <1>2, <2>1 DEF Elems
    <2>2. CASE i \notin 1..Len(s)
      <3>1. i - Len(s) \in 1..Len(t) /\ Len(s) + (i - Len(s)) = i
        BY <1>1, <1>2, <2>2
      <3>2. u[i] = t[i - Len(s)]
        BY <1>3, <3>1
      <3> QED BY <3>1, <3>2 DEF Elems
    <2> QED BY <2>1, <2>2
  <1>5. ASSUME NEW i \in 1..Len(s) PROVE s[i] \in Elems(u)
    <2>1. i \in 1..Len(u)
      BY <1>1, <1>2
    <2> QED BY <1>2, <2>1 DEF Elems
  <1>6. ASSUME NEW i \in 1..Len(t) PROVE t[i] \in Elems(u)
    <2>1. Len(s) + i \in 1..Len(u)
      BY <1>1, <1>2
    <2> QED BY <1>3, <2>1 DEF Elems
  <1>7. Elems(u) \subseteq Elems(s) \cup Elems(t)
    BY <1>4 DEF Elems
  <1>8. Elems(s) \subseteq Elems(u) /\ Elems(t) \subseteq Elems(u)
    BY <1>5, <1>6 DEF Elems
  <1> QED BY <1>7, <1>8 DEF u

\* The elements of sequences of no and of one element.
LEMMA ElemsSmall ==
  ASSUME NEW e
  PROVE  Elems(<<>>) = {} /\ Elems(<<e>>) = {e}
  BY DEF Elems

\* An element is added at the end.
LEMMA ElemsAppend ==
  ASSUME NEW S, NEW s \in Seq(S), NEW e \in S
  PROVE  Elems(Append(s, e)) = Elems(s) \cup {e}
  <1> DEFINE o == <<e>>
  <1>1. o \in Seq(S) /\ Append(s, e) = s \o o
    OBVIOUS
  <1>2. Elems(o) = {e}
    BY ElemsSmall
  <1> HIDE DEF o
  <1>3. Elems(s \o o) = Elems(s) \cup Elems(o)
    BY <1>1, ElemsConcat
  <1> QED BY <1>1, <1>2, <1>3

\* A sequence is its first element and the others.
LEMMA ElemsTail ==
  ASSUME NEW S, NEW s \in Seq(S), s # <<>>
  PROVE  Head(s) \in Elems(s) /\ Elems(s) = {Head(s)} \cup Elems(Tail(s))
  <1> DEFINE o == <<Head(s)>>
             t == Tail(s)
  <1>1. o \in Seq(S) /\ t \in Seq(S) /\ s = o \o t
    OBVIOUS
  <1>2. Elems(o) = {Head(s)}
    BY ElemsSmall
  <1> HIDE DEF o, t
  <1>3. Elems(s) = Elems(o) \cup Elems(t)
    BY <1>1, ElemsConcat
  <1> QED BY <1>2, <1>3 DEF t

\* The elements are elements of the set, and there are none in the empty sequence only.
LEMMA ElemsType ==
  ASSUME NEW S, NEW s \in Seq(S)
  PROVE  Elems(s) \subseteq S /\ (Elems(s) = {} <=> s = <<>>)
         /\ \A i \in 1..Len(s) : s[i] \in Elems(s)
  <1>1. Elems(s) \subseteq S /\ \A i \in 1..Len(s) : s[i] \in Elems(s)
    BY DEF Elems
  <1>2. s # <<>> => s[1] \in Elems(s)
    <2>1. s # <<>> => 1 \in 1..Len(s)
      OBVIOUS
    <2> QED BY <1>1, <2>1
  <1> QED BY <1>1, <1>2, ElemsSmall

\* The sequence without its k-th element.
Without(s, k) == SubSeq(s, 1, k - 1) \o SubSeq(s, k + 1, Len(s))

\* An element is taken out.
LEMMA WithoutSeq ==
  ASSUME NEW S, NEW s \in Seq(S), NEW k \in 1..Len(s)
  PROVE  /\ Without(s, k) \in Seq(S) /\ Len(Without(s, k)) = Len(s) - 1
         /\ \A i \in 1..(k - 1) : Without(s, k)[i] = s[i]
         /\ \A i \in k..(Len(s) - 1) : Without(s, k)[i] = s[i + 1]
         /\ Elems(s) = Elems(Without(s, k)) \cup {s[k]}
  <1> DEFINE t == Without(s, k)
  <1> DEFINE a == SubSeq(s, 1, k - 1)
             b == SubSeq(s, k + 1, Len(s))
  <1>1. Len(s) \in Nat /\ k \in Nat /\ k <= Len(s) /\ k >= 1
    OBVIOUS
  <1>2. a \in Seq(S) /\ Len(a) = k - 1 /\ \A n \in 1..(k - 1) : a[n] = s[n]
    BY <1>1, SplitSeq
  <1>3. b \in Seq(S) /\ Len(b) = Len(s) - k /\ \A n \in 1..(Len(s) - k) : b[n] = s[k + n]
    BY <1>1, SplitSeq
  <1>4. t = a \o b
    BY DEF Without
  <1> HIDE DEF a, b, t
  <1>5. t \in Seq(S) /\ Len(t) = Len(s) - 1
    <2>1. t \in Seq(S) /\ Len(t) = Len(a) + Len(b)
      BY <1>2, <1>3, <1>4, ConcatProperties
    <2> QED BY <1>1, <1>2, <1>3, <2>1
  <1>6. ASSUME NEW i \in 1..(k - 1) PROVE t[i] = s[i]
    BY <1>1, <1>2, <1>3, <1>4, ConcatProperties
  <1>7. ASSUME NEW i \in k..(Len(s) - 1) PROVE t[i] = s[i + 1]
    <2>1. i \in 1..(Len(a) + Len(b)) /\ ~(i <= Len(a)) /\ i - Len(a) = (i - k) + 1
          /\ (i - k) + 1 \in 1..(Len(s) - k) /\ k + ((i - k) + 1) = i + 1
      BY <1>1, <1>2, <1>3
    <2>2. t[i] = b[(i - k) + 1]
      BY <1>2, <1>3, <1>4, <2>1, ConcatProperties
    <2> QED BY <1>3, <2>1, <2>2
  <1>8. Elems(t) \subseteq Elems(s)
    <2> SUFFICES ASSUME NEW i \in 1..Len(t) PROVE t[i] \in Elems(s)
      BY DEF Elems
    <2>1. i \in 1..(k - 1) \/ i \in k..(Len(s) - 1)
      BY <1>1, <1>5
    <2>2. i \in 1..Len(s) /\ i + 1 \in 1..Len(s)
      BY <1>1, <1>5
    <2> QED BY <1>6, <1>7, <2>1, <2>2 DEF Elems
  <1>9. Elems(s) \subseteq Elems(t) \cup {s[k]}
    <2> SUFFICES ASSUME NEW i \in 1..Len(s), i # k PROVE s[i] \in Elems(t)
      BY DEF Elems
    <2>1. CASE i < k
      <3>1. i \in 1..(k - 1) /\ i \in 1..Len(t)
        BY <1>1, <1>5, <2>1
      <3> QED BY <1>6, <3>1 DEF Elems
    <2>2. CASE i > k
      <3>1. i - 1 \in k..(Len(s) - 1) /\ i - 1 \in 1..Len(t) /\ (i - 1) + 1 = i
        BY <1>1, <1>5, <2>2
      <3>2. t[i - 1] = s[i]
        BY <1>7, <3>1
      <3> QED BY <3>1, <3>2 DEF Elems
    <2> QED BY <1>1, <2>1, <2>2
  <1>10. s[k] \in Elems(s)
    BY DEF Elems
  <1> QED BY <1>5, <1>6, <1>7, <1>8, <1>9, <1>10 DEF t

\* A relation between the elements survives when one is taken out.
LEMMA PairwiseWithout ==
  ASSUME NEW S, NEW R, NEW s \in Seq(S), NEW k \in 1..Len(s), Pairwise(s, R)
  PROVE  Pairwise(Without(s, k), R)
  <1> DEFINE t == Without(s, k)
  <1>1. /\ t \in Seq(S) /\ Len(t) = Len(s) - 1
        /\ \A i \in 1..(k - 1) : t[i] = s[i]
        /\ \A i \in k..(Len(s) - 1) : t[i] = s[i + 1]
    BY WithoutSeq
  <1> HIDE DEF t
  <1> SUFFICES ASSUME NEW i \in 1..Len(t), NEW j \in 1..Len(t), i < j
               PROVE  <<t[i], t[j]>> \in R
    BY DEF Pairwise, t
  <1>2. Len(s) \in Nat /\ k \in Nat /\ k <= Len(s) /\ k >= 1
    OBVIOUS
  <1> DEFINE at(n) == IF n < k THEN n ELSE n + 1
  <1>3. \A n \in 1..Len(t) : t[n] = s[at(n)]
    <2> TAKE n \in 1..Len(t)
    <2>1. n \in 1..(k - 1) \/ n \in k..(Len(s) - 1)
      BY <1>1, <1>2
    <2> QED BY <1>1, <1>2, <2>1
  <1>4. at(i) \in 1..Len(s) /\ at(j) \in 1..Len(s) /\ at(i) < at(j)
    BY <1>1, <1>2
  <1> HIDE DEF at
  <1> QED BY <1>3, <1>4 DEF Pairwise

\* The relation between the elements of the rest of a sequence.
LEMMA PairwiseTail ==
  ASSUME NEW S, NEW R, NEW s \in Seq(S), s # <<>>, Pairwise(s, R)
  PROVE  Pairwise(Tail(s), R) /\ \A e \in Elems(Tail(s)) : <<Head(s), e>> \in R
  <1> DEFINE t == Tail(s)
  <1>1. Len(s) \in Nat /\ Len(s) > 0
    OBVIOUS
  <1>2. t \in Seq(S) /\ Len(t) = Len(s) - 1 /\ \A n \in 1..(Len(s) - 1) : t[n] = s[n + 1]
    BY <1>1, TailSeq
  <1>3. Head(s) = s[1]
    OBVIOUS
  <1> HIDE DEF t
  <1>4. ASSUME NEW i \in 1..Len(t), NEW j \in 1..Len(t), i < j
        PROVE  <<t[i], t[j]>> \in R
    <2>1. i + 1 \in 1..Len(s) /\ j + 1 \in 1..Len(s) /\ i + 1 < j + 1
          /\ i \in 1..(Len(s) - 1) /\ j \in 1..(Len(s) - 1)
      BY <1>1, <1>2, <1>4
    <2>2. <<s[i + 1], s[j + 1]>> \in R
      BY <2>1 DEF Pairwise
    <2> QED BY <1>2, <2>1, <2>2
  <1>5. ASSUME NEW j \in 1..Len(t) PROVE <<s[1], t[j]>> \in R
    <2>1. 1 \in 1..Len(s) /\ j + 1 \in 1..Len(s) /\ 1 < j + 1 /\ j \in 1..(Len(s) - 1)
      BY <1>1, <1>2
    <2>2. <<s[1], s[j + 1]>> \in R
      BY <2>1 DEF Pairwise
    <2> QED BY <1>2, <2>1, <2>2
  <1> QED BY <1>3, <1>4, <1>5 DEF Pairwise, Elems, t

\* The relation between the elements of a concatenation.
LEMMA PairwiseConcat ==
  ASSUME NEW S, NEW R, NEW s \in Seq(S), NEW t \in Seq(S), Pairwise(s, R), Pairwise(t, R),
         \A d \in Elems(s), e \in Elems(t) : <<d, e>> \in R
  PROVE  Pairwise(s \o t, R)
  <1> DEFINE u == s \o t
  <1>1. Len(s) \in Nat /\ Len(t) \in Nat /\ Len(u) = Len(s) + Len(t)
    BY ConcatProperties
  <1>2. \A n \in 1..Len(u) : u[n] = IF n <= Len(s) THEN s[n] ELSE t[n - Len(s)]
    BY <1>1, ConcatProperties
  <1> HIDE DEF u
  <1> SUFFICES ASSUME NEW i \in 1..Len(u), NEW j \in 1..Len(u), i < j
               PROVE  <<u[i], u[j]>> \in R
    BY DEF Pairwise, u
  <1>3. CASE j <= Len(s)
    <2>1. i \in 1..Len(s) /\ j \in 1..Len(s)
      BY <1>1, <1>3
    <2> QED BY <1>2, <2>1 DEF Pairwise
  <1>4. CASE i > Len(s)
    <2>1. i - Len(s) \in 1..Len(t) /\ j - Len(s) \in 1..Len(t) /\ i - Len(s) < j - Len(s)
          /\ ~(i <= Len(s)) /\ ~(j <= Len(s))
      BY <1>1, <1>4
    <2>2. <<t[i - Len(s)], t[j - Len(s)]>> \in R
      BY <2>1 DEF Pairwise
    <2> QED BY <1>2, <2>1, <2>2
  <1>5. CASE i <= Len(s) /\ j > Len(s)
    <2>1. i \in 1..Len(s) /\ j - Len(s) \in 1..Len(t) /\ ~(j <= Len(s))
      BY <1>1, <1>5
    <2>2. s[i] \in Elems(s) /\ t[j - Len(s)] \in Elems(t)
      BY <2>1 DEF Elems
    <2> QED BY <1>2, <1>5, <2>1, <2>2
  <1>6. i \in Nat /\ j \in Nat
    OBVIOUS
  <1> QED BY <1>1, <1>3, <1>4, <1>5, <1>6

\* Sequences of no and of one element relate nothing.
LEMMA PairwiseSmall ==
  ASSUME NEW R, NEW e
  PROVE  Pairwise(<<>>, R) /\ Pairwise(<<e>>, R)
  BY DEF Pairwise

\* An element is added at the end.
LEMMA PairwiseAppend ==
  ASSUME NEW S, NEW R, NEW s \in Seq(S), NEW e \in S, Pairwise(s, R),
         \A d \in Elems(s) : <<d, e>> \in R
  PROVE  Pairwise(Append(s, e), R)
  <1> DEFINE o == <<e>>
  <1>1. o \in Seq(S) /\ Append(s, e) = s \o o
    OBVIOUS
  <1>2. Pairwise(o, R) /\ Elems(o) = {e}
    BY PairwiseSmall, ElemsSmall
  <1> HIDE DEF o
  <1>3. Pairwise(s \o o, R)
    BY <1>1, <1>2, PairwiseConcat
  <1> QED BY <1>1, <1>3

\* The elements of w in the relation R, each with the next, the first one with prev.
Follows(prev, w, R) == Linked(w, R) /\ (w # <<>> => <<prev, w[1]>> \in R)

LastOf(prev, w) == IF w = <<>> THEN prev ELSE w[Len(w)]

\* A chain is extended at its end.
LEMMA FollowsConcat ==
  ASSUME NEW S, NEW R, NEW w \in Seq(S), NEW m \in Seq(S), NEW prev,
         Follows(prev, w, R), Follows(LastOf(prev, w), m, R)
  PROVE  Follows(prev, w \o m, R) /\ LastOf(prev, w \o m) = LastOf(LastOf(prev, w), m)
  <1>1. CASE w = <<>>
    <2>1. w \o m = m
      BY <1>1, EmptyConcat
    <2> QED BY <1>1, <2>1 DEF LastOf
  <1>2. CASE m = <<>>
    <2>1. w \o m = w
      BY <1>2, EmptyConcat
    <2> QED BY <1>2, <2>1 DEF LastOf
  <1>3. CASE w # <<>> /\ m # <<>>
    <2> DEFINE u == w \o m
    <2>1. Len(w) \in Nat /\ Len(m) \in Nat /\ Len(w) > 0 /\ Len(m) > 0 /\ Len(u) = Len(w) + Len(m)
      BY <1>3, ConcatProperties
    <2>2. \A n \in 1..Len(u) : u[n] = IF n <= Len(w) THEN w[n] ELSE m[n - Len(w)]
      BY <2>1, ConcatProperties
    <2>3. u \in Seq(S)
      BY ConcatProperties
    <2> HIDE DEF u
    <2>4. u[1] = w[1] /\ u[Len(u)] = m[Len(m)] /\ u # <<>>
      <3>1. 1 \in 1..Len(u) /\ Len(u) \in 1..Len(u) /\ 1 <= Len(w) /\ ~(Len(u) <= Len(w))
            /\ Len(u) - Len(w) = Len(m)
        BY <2>1
      <3> QED BY <2>1, <2>2, <2>3, <3>1
    <2>5. <<w[Len(w)], m[1]>> \in R /\ <<prev, w[1]>> \in R /\ Linked(w, R) /\ Linked(m, R)
      BY <1>3 DEF Follows, LastOf
    <2>6. ASSUME NEW i \in 1..(Len(u) - 1) PROVE <<u[i], u[i + 1]>> \in R
      <3>0. i \in 1..Len(u) /\ i + 1 \in 1..Len(u)
        BY <2>1
      <3>1. CASE i < Len(w)
        <4>1. i \in 1..(Len(w) - 1) /\ i <= Len(w) /\ i + 1 <= Len(w)
          BY <2>1, <3>1
        <4>2. <<w[i], w[i + 1]>> \in R
          BY <2>5, <4>1 DEF Linked
        <4> QED BY <2>2, <3>0, <4>1, <4>2
      <3>2. CASE i = Len(w)
        <4>1. i <= Len(w) /\ ~(i + 1 <= Len(w)) /\ (i + 1) - Len(w) = 1
          BY <2>1, <3>2
        <4> QED BY <2>2, <2>5, <3>0, <3>2, <4>1
      <3>3. CASE i > Len(w)
        <4>1. i - Len(w) \in 1..(Len(m) - 1) /\ ~(i <= Len(w)) /\ ~(i + 1 <= Len(w))
              /\ (i + 1) - Len(w) = (i - Len(w)) + 1
          BY <2>1, <3>3
        <4>2. <<m[i - Len(w)], m[(i - Len(w)) + 1]>> \in R
          BY <2>5, <4>1 DEF Linked
        <4>3. u[i] = m[i - Len(w)]
          BY <2>2, <3>0, <4>1
        <4>4. u[i + 1] = m[(i + 1) - Len(w)]
          BY <2>2, <3>0, <4>1
        <4> QED BY <4>1, <4>2, <4>3, <4>4
      <3> QED BY <2>1, <3>1, <3>2, <3>3
    <2>7. Linked(u, R)
      BY <2>6 DEF Linked
    <2> QED BY <1>3, <2>4, <2>5, <2>7 DEF Follows, LastOf, u
  <1> QED BY <1>1, <1>2, <1>3

\* What may come after old may come after new.
StandsFor(new, old, S, R) == \A x \in S : <<old, x>> \in R => <<new, x>> \in R

\* The first element of a chain is taken, and new stands for it.
LEMMA FollowsTail ==
  ASSUME NEW S, NEW R, NEW w \in Seq(S), w # <<>>, NEW prev, NEW new,
         Follows(prev, w, R), StandsFor(new, Head(w), S, R)
  PROVE  /\ Follows(new, Tail(w), R) /\ <<prev, Head(w)>> \in R
         /\ \/ LastOf(new, Tail(w)) = new /\ LastOf(prev, w) = Head(w)
            \/ LastOf(new, Tail(w)) = LastOf(prev, w)
  <1> DEFINE t == Tail(w)
  <1>1. Len(w) \in Nat /\ Len(w) > 0 /\ Head(w) = w[1]
    OBVIOUS
  <1>2. t \in Seq(S) /\ Len(t) = Len(w) - 1 /\ \A n \in 1..(Len(w) - 1) : t[n] = w[n + 1]
    BY <1>1, TailSeq
  <1>3. Linked(w, R) /\ <<prev, w[1]>> \in R
    BY DEF Follows
  <1>4. \A n \in 1..Len(w) : w[n] \in S
    OBVIOUS
  <1>5. t = <<>> <=> Len(t) = 0
    BY <1>2
  <1> HIDE DEF t
  <1>6. ASSUME NEW i \in 1..(Len(t) - 1) PROVE <<t[i], t[i + 1]>> \in R
    <2>1. i + 1 \in 1..(Len(w) - 1) /\ i \in 1..(Len(w) - 1)
      BY <1>1, <1>2
    <2>2. <<w[i + 1], w[(i + 1) + 1]>> \in R
      BY <1>3, <2>1 DEF Linked
    <2>3. t[i] = w[i + 1] /\ t[i + 1] = w[(i + 1) + 1]
      BY <1>2, <2>1
    <2> QED BY <2>2, <2>3
  <1>7. Linked(t, R)
    BY <1>6 DEF Linked
  <1>8. t # <<>> => <<new, t[1]>> \in R
    <2> HAVE t # <<>>
    <2>1. 1 \in 1..(Len(w) - 1) /\ 2 \in 1..Len(w) /\ 1 + 1 = 2
      BY <1>1, <1>2, <1>5
    <2>2. t[1] = w[2] /\ <<w[1], w[2]>> \in R
      BY <1>2, <1>3, <2>1 DEF Linked
    <2> QED BY <1>1, <1>4, <2>1, <2>2 DEF StandsFor
  <1>9. t # <<>> => t[Len(t)] = w[Len(w)]
    <2> HAVE t # <<>>
    <2>1. Len(t) \in 1..(Len(w) - 1) /\ Len(t) + 1 = Len(w)
      BY <1>1, <1>2, <1>5
    <2> QED BY <1>2, <2>1
  <1>10. t = <<>> => w[Len(w)] = Head(w)
    <2> HAVE t = <<>>
    <2>1. Len(w) = 1
      BY <1>1, <1>2, <1>5
    <2> QED BY <1>1, <2>1
  <1> QED BY <1>1, <1>3, <1>7, <1>8, <1>9, <1>10 DEF Follows, LastOf, t

\* A chain of one element.
LEMMA FollowsOne ==
  ASSUME NEW R, NEW prev, NEW e, <<prev, e>> \in R
  PROVE  Follows(prev, <<e>>, R) /\ LastOf(prev, <<e>>) = e
  <1> DEFINE o == <<e>>
  <1>1. Len(o) = 1 /\ o[1] = e /\ o # <<>>
    OBVIOUS
  <1> HIDE DEF o
  <1>2. 1..(Len(o) - 1) = {}
    BY <1>1
  <1> QED BY <1>1, <1>2 DEF Follows, Linked, LastOf, o

\* The element that is taken out was related to each of the others.
LEMMA PairwiseOut ==
  ASSUME NEW S, NEW R, NEW s \in Seq(S), NEW k \in 1..Len(s), Pairwise(s, R)
  PROVE  \A e \in Elems(Without(s, k)) : <<s[k], e>> \in R \/ <<e, s[k]>> \in R
  <1> DEFINE t == Without(s, k)
  <1>1. /\ t \in Seq(S) /\ Len(t) = Len(s) - 1
        /\ \A i \in 1..(k - 1) : t[i] = s[i]
        /\ \A i \in k..(Len(s) - 1) : t[i] = s[i + 1]
    BY WithoutSeq
  <1>2. Len(s) \in Nat /\ k \in Nat /\ k >= 1 /\ k <= Len(s)
    OBVIOUS
  <1> HIDE DEF t
  <1> SUFFICES ASSUME NEW i \in 1..Len(t) PROVE <<s[k], t[i]>> \in R \/ <<t[i], s[k]>> \in R
    BY DEF Elems, t
  <1>3. CASE i \in 1..(k - 1)
    <2>1. i \in 1..Len(s) /\ i < k /\ t[i] = s[i]
      BY <1>1, <1>2, <1>3
    <2> QED BY <2>1 DEF Pairwise
  <1>4. CASE i \in k..(Len(s) - 1)
    <2>1. i + 1 \in 1..Len(s) /\ k < i + 1 /\ t[i] = s[i + 1]
      BY <1>1, <1>2, <1>4
    <2> QED BY <2>1 DEF Pairwise
  <1> QED BY <1>1, <1>2, <1>3, <1>4

-----------------------------------------------------------------------------
(* Recursion on the indexes of a list.                                     *)

\* g begins with base, and f gives each of its values from the one before.
Recursion(base, f, g, n) == g = [i \in 0..n |-> IF i = 0 THEN base ELSE f[<<g[i - 1], i>>]]

\* There is such a function.
LEMMA RecursionExists ==
  ASSUME NEW base, NEW f, NEW n \in Nat
  PROVE  \E g : Recursion(base, f, g, n)
  <1> DEFINE T == {k \in Nat : \E g : Recursion(base, f, g, k)}
  <1>1. 0 \in T
    <2>1. Recursion(base, f, [i \in 0..0 |-> base], 0)
      BY DEF Recursion
    <2> QED BY <2>1
  <1>2. ASSUME NEW k \in 0..(n - 1), k \in T PROVE k + 1 \in T
    <2>1. PICK g : Recursion(base, f, g, k)
      BY <1>2
    <2> DEFINE h == [i \in 0..(k + 1) |-> IF i = k + 1 THEN f[<<g[k], k + 1>>] ELSE g[i]]
    <2>2. k \in Nat
      OBVIOUS
    <2>3. \A i \in 0..k : g[i] = IF i = 0 THEN base ELSE f[<<g[i - 1], i>>]
      <3>1. g = [i \in 0..k |-> IF i = 0 THEN base ELSE f[<<g[i - 1], i>>]]
        BY <2>1 DEF Recursion
      <3> QED BY <3>1, Zenon
    <2>4. ASSUME NEW i \in 0..(k + 1)
          PROVE  h[i] = IF i = 0 THEN base ELSE f[<<h[i - 1], i>>]
      <3>1. CASE i = k + 1
        <4>1. i # 0 /\ i - 1 = k /\ k \in 0..(k + 1) /\ k # k + 1
          BY <2>2, <3>1
        <4>2. h[i] = f[<<g[k], k + 1>>] /\ h[i - 1] = g[k]
          BY <3>1, <4>1
        <4> QED BY <3>1, <4>1, <4>2
      <3>2. CASE i \in 0..k /\ i # 0
        <4>1. i # k + 1 /\ i - 1 # k + 1 /\ i - 1 \in 0..(k + 1)
          BY <2>2, <3>2
        <4>2. h[i] = g[i] /\ h[i - 1] = g[i - 1]
          BY <4>1
        <4> QED BY <2>3, <3>2, <4>2
      <3>3. CASE i = 0
        <4>1. 0 # k + 1 /\ 0 \in 0..k
          BY <2>2
        <4>2. h[i] = g[0]
          BY <3>3, <4>1
        <4> QED BY <2>3, <3>3, <4>1, <4>2
      <3> QED BY <2>2, <3>1, <3>2, <3>3
    <2>5. h = [i \in 0..(k + 1) |-> h[i]]
      OBVIOUS
    <2> HIDE DEF h
    <2>6. h = [i \in 0..(k + 1) |-> IF i = 0 THEN base ELSE f[<<h[i - 1], i>>]]
      BY <2>4, <2>5
    <2>7. Recursion(base, f, h, k + 1)
      BY <2>6 DEF Recursion
    <2> QED BY <2>2, <2>7
  <1> HIDE DEF T
  <1>3. \A k \in 0..n : k \in T
    BY <1>1, <1>2, InductionTo
  <1>4. n \in 0..n
    OBVIOUS
  <1> QED BY <1>3, <1>4 DEF T

Stepwise(base, f, g, n) == g[0] = base /\ \A i \in 1..n : g[i] = f[<<g[i - 1], i>>]

\* Its values are where f takes them.
LEMMA RecursionTyped ==
  ASSUME NEW S, NEW base \in S, NEW n \in Nat, NEW f \in [S \X (1..n) -> S]
  PROVE  \E g \in [0..n -> S] : Stepwise(base, f, g, n)
  <1>1. PICK g : Recursion(base, f, g, n)
    BY RecursionExists
  <1>2. g = [i \in 0..n |-> IF i = 0 THEN base ELSE f[<<g[i - 1], i>>]]
    BY <1>1 DEF Recursion
  <1>3. \A i \in 0..n : g[i] = IF i = 0 THEN base ELSE f[<<g[i - 1], i>>]
    BY <1>2, Zenon
  <1>4. g[0] = base
    <2>1. 0 \in 0..n
      OBVIOUS
    <2> QED BY <1>3, <2>1
  <1>5. \A i \in 1..n : g[i] = f[<<g[i - 1], i>>]
    <2>1. \A i \in 1..n : i \in 0..n /\ i # 0
      OBVIOUS
    <2> QED BY <1>3, <2>1
  <1> DEFINE T == {k \in Nat : k <= n => g[k] \in S}
  <1>6. 0 \in T
    BY <1>4
  <1>7. ASSUME NEW k \in 0..(n - 1), k \in T PROVE k + 1 \in T
    <2>1. k + 1 \in 1..n /\ (k + 1) - 1 = k /\ k + 1 \in Nat /\ k <= n
      OBVIOUS
    <2>2. g[k] \in S
      BY <1>7, <2>1
    <2>3. g[k + 1] = f[<<g[k], k + 1>>]
      BY <1>5, <2>1
    <2>4. g[k + 1] \in S
      BY <2>1, <2>2, <2>3
    <2> QED BY <2>1, <2>4
  <1> HIDE DEF T
  <1>8. \A k \in 0..n : k \in T
    BY <1>6, <1>7, InductionTo
  <1>9. \A k \in 0..n : g[k] \in S
    BY <1>8 DEF T
  <1>10. g = [i \in 0..n |-> g[i]]
    BY <1>2, <1>3
  <1>11. g \in [0..n -> S]
    BY <1>9, <1>10
  <1> QED BY <1>4, <1>5, <1>11 DEF Stepwise

-----------------------------------------------------------------------------
(* Selections.                                                             *)

\* What the recursion of Only computes.
LEMMA OnlySteps ==
  ASSUME NEW S, NEW X, NEW list \in Seq(S)
  PROVE  \E g : /\ g[0] = <<>> /\ Only(list, X) = g[Len(list)]
                /\ \A i \in 1..Len(list) :
                     g[i] = IF list[i] \in X THEN Append(g[i - 1], list[i]) ELSE g[i - 1]
  <1> DEFINE n == Len(list)
             step(p, i) == IF list[i] \in X THEN Append(p, list[i]) ELSE p
             Run(g) == g = [i \in 0..n |-> IF i = 0 THEN <<>> ELSE step(g[i - 1], i)]
             c == CHOOSE g : Run(g)
             f == [x \in Seq(S) \X (1..n) |-> step(x[1], x[2])]
  <1>1. n \in Nat /\ \A i \in 1..n : list[i] \in S
    OBVIOUS
  <1>2. f \in [Seq(S) \X (1..n) -> Seq(S)]
    <2>1. \A p \in Seq(S), i \in 1..n : step(p, i) \in Seq(S)
      BY <1>1
    <2> HIDE DEF step
    <2> QED BY <2>1
  <1>3. \A p \in Seq(S), i \in 1..n : f[<<p, i>>] = step(p, i)
    <2> HIDE DEF step
    <2> QED OBVIOUS
  <1> HIDE DEF f, step, n
  <1>4. PICK g \in [0..n -> Seq(S)] : g[0] = <<>> /\ \A i \in 1..n : g[i] = f[<<g[i - 1], i>>]
    <2> DEFINE Q == Seq(S)
    <2>1. <<>> \in Q /\ f \in [Q \X (1..n) -> Q]
      BY <1>2
    <2> HIDE DEF Q
    <2>2. \E g \in [0..n -> Q] : Stepwise(<<>>, f, g, n)
      BY <1>1, <2>1, RecursionTyped
    <2> QED BY <2>2 DEF Q, Stepwise
  <1>5. ASSUME NEW i \in 0..n PROVE g[i] = IF i = 0 THEN <<>> ELSE step(g[i - 1], i)
    <2>1. CASE i # 0
      <3>1. i \in 1..n /\ i - 1 \in 0..n
        BY <1>1, <2>1
      <3>2. g[i - 1] \in Seq(S)
        BY <1>4, <3>1
      <3> QED BY <1>3, <1>4, <2>1, <3>1, <3>2
    <2> QED BY <1>4, <2>1
  <1>6. Run(g)
    <2>1. g = [i \in 0..n |-> g[i]]
      BY <1>4
    <2> QED BY <1>5, <2>1
  <1>7. Run(c)
    BY <1>6
  <1>8. Only(list, X) = c[n]
    BY DEF Only, n, step
  <1> HIDE DEF c
  <1>9. \A i \in 0..n : c[i] = IF i = 0 THEN <<>> ELSE step(c[i - 1], i)
    BY <1>7, Zenon
  <1> HIDE DEF Run
  <1>10. c[0] = <<>>
    <2>1. 0 \in 0..n
      BY <1>1
    <2> QED BY <1>9, <2>1
  <1>11. \A i \in 1..n : c[i] = step(c[i - 1], i)
    <2>1. \A i \in 1..n : i \in 0..n /\ i # 0
      BY <1>1
    <2> QED BY <1>9, <2>1
  <1> QED BY <1>8, <1>10, <1>11 DEF n, step

\* A selection has the selected elements, and what holds of all pairs of a
\* list holds of those of its selection.
LEMMA OnlyFacts ==
  ASSUME NEW S, NEW X, NEW list \in Seq(S)
  PROVE  /\ Only(list, X) \in Seq(S)
         /\ Elems(Only(list, X)) = Elems(list) \cap X
         /\ \A R : Pairwise(list, R) => Pairwise(Only(list, X), R)
  <1> DEFINE n == Len(list)
             Part(k) == {list[i] : i \in 1..k}
             Good(k, s) == /\ s \in Seq(S) /\ Elems(s) = Part(k) \cap X
                           /\ \A R : Pairwise(list, R) => Pairwise(s, R)
  <1>1. n \in Nat /\ \A i \in 1..n : list[i] \in S
    OBVIOUS
  <1>2. PICK g : /\ g[0] = <<>> /\ Only(list, X) = g[n]
                 /\ \A i \in 1..n : g[i] = IF list[i] \in X THEN Append(g[i - 1], list[i]) ELSE g[i - 1]
    BY OnlySteps
  <1> DEFINE T == {k \in Nat : k <= n => Good(k, g[k])}
  <1>3. 0 \in T
    <2>1. <<>> \in Seq(S) /\ Elems(<<>>) = {} /\ \A R : Pairwise(<<>>, R)
      <3>1. Len(<<>>) = 0 /\ 1..0 = {}
        OBVIOUS
      <3> QED BY <3>1 DEF Elems, Pairwise
    <2>2. Part(0) = {}
      OBVIOUS
    <2> HIDE DEF Part
    <2> QED BY <1>2, <2>1, <2>2
  <1>4. ASSUME NEW k \in 0..(n - 1), k \in T PROVE k + 1 \in T
    <2>1. k \in Nat /\ k + 1 \in 1..n /\ (k + 1) - 1 = k /\ k + 1 \in Nat /\ k <= n
      BY <1>1
    <2>2. Good(k, g[k])
      BY <1>4, <2>1
    <2> DEFINE e == list[k + 1]
    <2>3. g[k + 1] = IF e \in X THEN Append(g[k], e) ELSE g[k]
      BY <1>2, <2>1
    <2>4. Part(k + 1) = Part(k) \cup {e}
      <3>1. \A i \in 1..(k + 1) : i \in 1..k \/ i = k + 1
        BY <2>1
      <3>2. k + 1 \in 1..(k + 1) /\ \A i \in 1..k : i \in 1..(k + 1)
        BY <2>1
      <3> QED BY <3>1, <3>2
    <2>5. e \in S
      BY <1>1, <2>1
    <2>6. CASE e \in X
      <3>1. g[k + 1] \in Seq(S) /\ Elems(g[k + 1]) = Part(k + 1) \cap X
        <4>1. g[k + 1] = Append(g[k], e) /\ g[k] \in Seq(S)
          BY <2>2, <2>3, <2>6
        <4>2. Elems(g[k + 1]) = Elems(g[k]) \cup {e}
          BY <2>5, <4>1, ElemsAppend
        <4>3. g[k + 1] \in Seq(S)
          BY <2>5, <4>1
        <4> HIDE DEF Part, e
        <4> QED BY <2>2, <2>4, <2>6, <4>2, <4>3
      <3>2. ASSUME NEW R, Pairwise(list, R) PROVE Pairwise(g[k + 1], R)
        <4>1. \A d \in Elems(g[k]) : <<d, e>> \in R
          <5>1. \A d \in Elems(g[k]) : \E i \in 1..k : d = list[i]
            BY <2>2
          <5>2. \A i \in 1..k : i \in 1..n /\ i < k + 1
            BY <1>1, <2>1
          <5> QED BY <2>1, <3>2, <5>1, <5>2 DEF Pairwise
        <4> HIDE DEF Part, e
        <4> QED BY <2>2, <2>3, <2>5, <2>6, <3>2, <4>1, PairwiseAppend
      <3> HIDE DEF Part
      <3> QED BY <2>1, <3>1, <3>2
    <2>7. CASE e \notin X
      <3> HIDE DEF Part, e
      <3>1. Part(k + 1) \cap X = Part(k) \cap X
        BY <2>4, <2>7
      <3> QED BY <2>1, <2>2, <2>3, <2>7, <3>1
    <2> QED BY <2>6, <2>7
  <1> HIDE DEF T
  <1>5. \A k \in 0..n : k \in T
    BY <1>1, <1>3, <1>4, InductionTo
  <1>6. n \in 0..n /\ n <= n
    BY <1>1
  <1>7. Good(n, g[n])
    <2> HIDE DEF Good
    <2> QED BY <1>5, <1>6 DEF T
  <1> QED BY <1>2, <1>7 DEF Elems

\* It is a list of selected elements.
LEMMA OnlyType ==
  ASSUME NEW S, NEW X, NEW list \in Seq(S)
  PROVE  Only(list, X) \in Seq(S \cap X)
  <1> DEFINE o == Only(list, X)
  <1>1. o \in Seq(S) /\ Elems(o) \subseteq X
    BY OnlyFacts
  <1> HIDE DEF o
  <1>2. \A i \in 1..Len(o) : o[i] \in S \cap X
    BY <1>1 DEF Elems
  <1>3. o \in Seq(S \cap X)
    BY <1>1, <1>2, ElementOfSeq, IsASeq
  <1> QED BY <1>3 DEF o

\* All pairs of a concatenation.
LEMMA PairwiseSplit ==
  ASSUME NEW S, NEW R, NEW s \in Seq(S), NEW t \in Seq(S), Pairwise(s \o t, R)
  PROVE  Pairwise(s, R) /\ Pairwise(t, R) /\ \A d \in Elems(s), e \in Elems(t) : <<d, e>> \in R
  <1> DEFINE u == s \o t
  <1>1. Len(s) \in Nat /\ Len(t) \in Nat /\ Len(u) = Len(s) + Len(t)
    OBVIOUS
  <1>2. \A i \in 1..Len(s) : u[i] = s[i]
    BY ConcatProperties
  <1>3. \A i \in 1..Len(t) : u[Len(s) + i] = t[i]
    BY ConcatProperties
  <1>4. \A i, j \in 1..Len(u) : i < j => <<u[i], u[j]>> \in R
    BY DEF Pairwise
  <1> HIDE DEF u
  <1>5. Pairwise(s, R)
    <2>1. \A i \in 1..Len(s) : i \in 1..Len(u)
      BY <1>1
    <2> QED BY <1>2, <1>4, <2>1 DEF Pairwise
  <1>6. Pairwise(t, R)
    <2>1. ASSUME NEW i \in 1..Len(t), NEW j \in 1..Len(t), i < j PROVE <<t[i], t[j]>> \in R
      <3>1. Len(s) + i \in 1..Len(u) /\ Len(s) + j \in 1..Len(u) /\ Len(s) + i < Len(s) + j
        BY <1>1, <2>1
      <3> QED BY <1>3, <1>4, <3>1
    <2> QED BY <2>1 DEF Pairwise
  <1>7. ASSUME NEW i \in 1..Len(s), NEW j \in 1..Len(t) PROVE <<s[i], t[j]>> \in R
    <2>1. i \in 1..Len(u) /\ Len(s) + j \in 1..Len(u) /\ i < Len(s) + j
      BY <1>1
    <2> QED BY <1>2, <1>3, <1>4, <2>1
  <1> QED BY <1>5, <1>6, <1>7 DEF Elems
=============================================================================
