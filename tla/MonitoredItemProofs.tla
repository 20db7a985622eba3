------------------------- MODULE MonitoredItemProofs -------------------------
(***************************************************************************)
(* Proofs about one monitored item, for every queue size and any number of *)
(* notifications.  EventOps = {} is assumed: nothing puts a value in the   *)
(* queue of an event item.                                                 *)
(***************************************************************************)
EXTENDS MonitoredItem, FiniteSetTheorems, SequenceFacts

\* Elements of a queue; the overflow event has no number.
Elt == {e \in [kind : {"value", "event", "overflow"}, val : Nat, bit : BOOLEAN] :
          e.kind = "overflow" => e.val = 0}

Item == [event : BOOLEAN, size : Nat \ {0}, oldest : BOOLEAN, triggered : BOOLEAN,
         queue : Seq(Elt)]

\* Types of the variables.
ItemTypeOK ==
  /\ item \in Item
  /\ mode \in Modes
  /\ available \in Nat /\ produced \in Nat /\ overflows \in Nat /\ dropped \in Nat
  /\ delivered \in Elt
  /\ lost \in BOOLEAN

\* Real notifications of q increase, between the value lo and the value hi.
Rising(q, lo, hi) ==
  \A i \in 1..Len(q) : q[i].kind # "overflow" =>
    /\ lo < q[i].val /\ q[i].val <= hi
    /\ \A j \in 1..Len(q) : i < j /\ q[j].kind # "overflow" => q[i].val < q[j].val

\* At most one overflow event, and only after it was triggered.
OneOverflow(it) ==
  /\ \A i, j \in OverflowIndexes(it.queue) : i = j
  /\ ~it.triggered => OverflowIndexes(it.queue) = {}

\* The queue of an event item: it ends with the newest event.
EventCore(it, last) ==
  /\ \A i \in 1..Len(it.queue) : it.queue[i].kind # "value"
  /\ OneOverflow(it)
  /\ it.queue # <<>> => /\ it.queue[Len(it.queue)].kind = "event"
                        /\ it.queue[Len(it.queue)].val = last

\* It fits its size, the overflow event in addition.
EventQueue(it, last) ==
  /\ EventCore(it, last)
  /\ Len(it.queue) <= it.size + 1
  /\ Len(it.queue) = it.size + 1 => OverflowIndexes(it.queue) # {}

\* The queue of a data item.
DataQueue(it) ==
  /\ \A i \in 1..Len(it.queue) : it.queue[i].kind = "value"
  /\ Len(it.queue) <= it.size

\* The value before the one at i + 1, the last one delivered for the first.
At(d, q, i) == IF i = 0 THEN d ELSE q[i]

\* A hole in the values is signalled on one side, also the one after the last
\* value that is queued.
Signalled(q, d, last) ==
  /\ \A i \in 1..Len(q) : q[i].val > At(d, q, i - 1).val + 1 => At(d, q, i - 1).bit \/ q[i].bit
  /\ At(d, q, Len(q)).val < last => At(d, q, Len(q)).bit

\* The events discarded and the overflow event that reports it.
EventCount ==
  /\ lost = item.triggered
  /\ overflows + dropped + Cardinality(OverflowIndexes(item.queue)) = (IF item.triggered THEN 1 ELSE 0)

\* The inductive invariant.
ItemInv ==
  /\ ItemTypeOK
  /\ item.size \in Sizes
  /\ ~aborted
  /\ available = IF mode = "reporting" THEN Len(item.queue) ELSE 0
  /\ delivered.val <= produced
  /\ Rising(item.queue, delivered.val, produced)
  /\ item.event => EventQueue(item, produced) /\ EventCount
  /\ ~item.event => /\ DataQueue(item)
                    /\ 1 \notin Sizes => Signalled(item.queue, delivered, produced)

-----------------------------------------------------------------------------
(* Queues.                                                                 *)

\* The overflow event is an element.
LEMMA OverflowElt ==
  /\ OverflowEvent \in Elt /\ OverflowEvent.kind = "overflow" /\ OverflowEvent.val = 0
  /\ \A v \in Nat : /\ Element("event", v) \in Elt /\ Element("value", v) \in Elt
                    /\ Element("event", v).kind = "event" /\ Element("event", v).val = v
                    /\ Element("value", v).kind = "value" /\ Element("value", v).val = v
                    /\ Element("value", v).bit = FALSE
  BY DEF OverflowEvent, Element, Elt

\* The elements of a queue.
LEMMA EltOf ==
  ASSUME NEW q \in Seq(Elt), NEW i \in 1..Len(q)
  PROVE  /\ q[i] \in Elt /\ q[i].kind \in {"value", "event", "overflow"}
         /\ q[i].val \in Nat /\ q[i].bit \in BOOLEAN
         /\ q[i].kind = "overflow" => q[i].val = 0
  <1>1. q[i] \in Elt
    OBVIOUS
  <1> QED BY <1>1 DEF Elt

\* A queue r whose notifications are some of those of q, in the same order.
LEMMA RisingFrom ==
  ASSUME NEW q \in Seq(Elt), NEW r \in Seq(Elt), NEW lo \in Nat, NEW hi \in Nat,
         Rising(q, lo, hi), NEW f \in [1..Len(r) -> Int],
         \A j \in 1..Len(r) : r[j].kind # "overflow" =>
           f[j] \in 1..Len(q) /\ q[f[j]].kind # "overflow" /\ r[j].val = q[f[j]].val,
         \A j, k \in 1..Len(r) : j < k => f[j] < f[k]
  PROVE  Rising(r, lo, hi)
  BY DEF Rising

\* A newer notification at the end.
LEMMA RisingAppend ==
  ASSUME NEW q \in Seq(Elt), NEW e \in Elt, NEW lo \in Nat, NEW hi \in Nat,
         Rising(q, lo, hi), lo <= hi, e.val = hi + 1
  PROVE  Rising(Append(q, e), lo, hi + 1)
  <1>1. \A i \in 1..Len(q) : q[i].val \in Nat
    BY EltOf
  <1>2. Len(Append(q, e)) = Len(q) + 1 /\ Len(q) \in Nat
        /\ \A i \in 1..(Len(q) + 1) : Append(q, e)[i] = IF i <= Len(q) THEN q[i] ELSE e
    OBVIOUS
  <1> DEFINE r == Append(q, e)
  <1> HIDE DEF r
  <1> SUFFICES ASSUME NEW i \in 1..Len(r), r[i].kind # "overflow"
               PROVE  /\ lo < r[i].val /\ r[i].val <= hi + 1
                      /\ \A j \in 1..Len(r) : i < j /\ r[j].kind # "overflow" => r[i].val < r[j].val
    BY DEF Rising, r
  <1>3. CASE i <= Len(q)
    <2>1. r[i] = q[i] /\ lo < q[i].val /\ q[i].val <= hi /\ i \in 1..Len(q)
      BY <1>2, <1>3 DEF Rising, r
    <2>2. ASSUME NEW j \in 1..Len(r), i < j, r[j].kind # "overflow"
          PROVE  q[i].val < r[j].val
      BY <1>1, <1>2, <2>1, <2>2 DEF Rising, r
    <2> QED BY <1>1, <2>1, <2>2
  <1>4. CASE i = Len(q) + 1
    BY <1>2, <1>4 DEF r
  <1> QED BY <1>2, <1>3, <1>4 DEF r

\* The number of overflow events of a queue that has at most one.
LEMMA OverflowCount ==
  ASSUME NEW q \in Seq(Elt), \A i, j \in OverflowIndexes(q) : i = j
  PROVE  /\ IsFiniteSet(OverflowIndexes(q))
         /\ Cardinality(OverflowIndexes(q)) = IF OverflowIndexes(q) = {} THEN 0 ELSE 1
  <1>1. CASE OverflowIndexes(q) = {}
    BY <1>1, FS_EmptySet
  <1>2. CASE OverflowIndexes(q) # {}
    <2>1. PICK p : OverflowIndexes(q) = {p}
      BY <1>2
    <2> QED BY <2>1, FS_Singleton
  <1> QED BY <1>1, <1>2

\* What adding an event and shrinking a queue make of a queue: a queue mid
\* with the notifications of q that stay, to which the newest is appended.
Made(q, mid, over, n) ==
  /\ mid \in Seq(Elt)
  /\ \A i \in 1..Len(mid) : mid[i].kind # "value"
  /\ \A i, j \in OverflowIndexes(mid) : i = j
  /\ (OverflowIndexes(mid) # {}) = over
  /\ Len(mid) <= n
  /\ Len(mid) = n => OverflowIndexes(mid) # {}
  /\ \A lo, hi \in Nat : Rising(q, lo, hi) => Rising(mid, lo, hi)

\* An event is appended to such a queue.
LEMMA AppendEvent ==
  ASSUME NEW it \in Item, NEW mid, NEW over \in BOOLEAN, NEW q, NEW last \in Nat,
         Made(q, mid, over, it.size), over => it.triggered,
         it.queue = Append(mid, Element("event", last))
  PROVE  /\ EventQueue(it, last)
         /\ (OverflowIndexes(it.queue) # {}) = over
  <1> DEFINE e == Element("event", last)
             r == Append(mid, e)
  <1>1. e \in Elt /\ e.kind = "event" /\ e.val = last
    BY OverflowElt
  <1> HIDE DEF e
  <1>2. /\ mid \in Seq(Elt) /\ Len(mid) \in Nat /\ Len(r) = Len(mid) + 1 /\ r # <<>>
        /\ \A i \in 1..Len(mid) : r[i] = mid[i]
        /\ r[Len(mid) + 1] = e
    BY <1>1 DEF Made
  <1>3. it.queue = r /\ it.size \in Nat
    BY DEF e, Item
  <1> HIDE DEF r
  <1>4. OverflowIndexes(r) = OverflowIndexes(mid)
    BY <1>1, <1>2 DEF OverflowIndexes
  <1>5. \A i \in 1..Len(r) : r[i].kind # "value"
    BY <1>1, <1>2 DEF Made
  <1>6. OneOverflow(it)
    BY <1>3, <1>4 DEF Made, OneOverflow
  <1>7. Len(r) <= it.size + 1 /\ (Len(r) = it.size + 1 => OverflowIndexes(r) # {})
    BY <1>2, <1>3, <1>4 DEF Made
  <1> QED BY <1>1, <1>2, <1>3, <1>4, <1>5, <1>6, <1>7 DEF EventQueue, EventCore, Made

\* Elements of q, moved by k places, and overflow events.
LEMMA RisingShift ==
  ASSUME NEW q \in Seq(Elt), NEW r \in Seq(Elt), NEW k \in Int,
         \A i \in 1..Len(r) : r[i].kind # "overflow" => i + k \in 1..Len(q) /\ r[i] = q[i + k],
         NEW lo \in Nat, NEW hi \in Nat, Rising(q, lo, hi)
  PROVE  Rising(r, lo, hi)
  <1> DEFINE f == [j \in 1..Len(r) |-> j + k]
  <1>1. f \in [1..Len(r) -> Int]
    OBVIOUS
  <1>2. \A j \in 1..Len(r) : f[j] = j + k
    OBVIOUS
  <1> HIDE DEF f
  <1>3. \A i, j \in 1..Len(r) : i < j => f[i] < f[j]
    BY <1>2
  <1>4. \A j \in 1..Len(r) : r[j].kind # "overflow" =>
          f[j] \in 1..Len(q) /\ q[f[j]].kind # "overflow" /\ r[j].val = q[f[j]].val
    BY <1>2
  <1> QED BY <1>1, <1>3, <1>4, RisingFrom

\* The kinds of an event queue.
Events(q) == \A i \in 1..Len(q) : q[i].kind \in {"event", "overflow"}

\* An overflow event at the head, then what follows the first k + 1 elements.
LEMMA MadeHead ==
  ASSUME NEW q \in Seq(Elt), NEW mid \in Seq(Elt), NEW k \in Nat, NEW n \in Nat \ {0},
         Events(q), Len(q) > k, Len(mid) = Len(q) - k, Len(mid) <= n,
         mid[1].kind = "overflow",
         \A i \in 2..Len(mid) : mid[i] = q[i + k],
         \A i \in OverflowIndexes(q) : i <= k + 1
  PROVE  Made(q, mid, TRUE, n)
  <1>0. Len(q) \in Nat /\ Len(mid) \in Nat
    OBVIOUS
  <1>1. \A i \in 2..Len(mid) : i + k \in 1..Len(q)
    BY <1>0
  <1>2. \A i \in 2..Len(mid) : mid[i].kind = "event"
    BY <1>0, <1>1 DEF OverflowIndexes, Events
  <1>3. OverflowIndexes(mid) = {1}
    BY <1>0, <1>2 DEF OverflowIndexes
  <1>4. \A i \in 1..Len(mid) : mid[i].kind # "overflow" => i + k \in 1..Len(q) /\ mid[i] = q[i + k]
    BY <1>0, <1>1
  <1>5. \A i \in 1..Len(mid) : mid[i].kind # "value"
    BY <1>0, <1>2
  <1>6. \A lo, hi \in Nat : Rising(q, lo, hi) => Rising(mid, lo, hi)
    <2>1. k \in Int
      OBVIOUS
    <2> QED BY <1>4, <2>1, RisingShift
  <1> QED BY <1>3, <1>5, <1>6 DEF Made

\* The first elements, then an overflow event.
LEMMA MadeLast ==
  ASSUME NEW q \in Seq(Elt), NEW mid \in Seq(Elt), NEW n \in Nat \ {0},
         Events(q), OverflowIndexes(q) = {}, Len(mid) > 0, Len(mid) <= Len(q), Len(mid) <= n,
         mid[Len(mid)].kind = "overflow",
         \A i \in 1..(Len(mid) - 1) : mid[i] = q[i]
  PROVE  Made(q, mid, TRUE, n)
  <1>0. Len(q) \in Nat /\ Len(mid) \in Nat
    OBVIOUS
  <1>2. \A i \in 1..(Len(mid) - 1) : mid[i].kind = "event"
    BY <1>0 DEF OverflowIndexes, Events
  <1>3. OverflowIndexes(mid) = {Len(mid)}
    BY <1>0, <1>2 DEF OverflowIndexes
  <1>4. \A i \in 1..Len(mid) : mid[i].kind # "overflow" => i + 0 \in 1..Len(q) /\ mid[i] = q[i + 0]
    BY <1>0
  <1>5. \A i \in 1..Len(mid) : mid[i].kind # "value"
    BY <1>0, <1>2
  <1>6. \A lo, hi \in Nat : Rising(q, lo, hi) => Rising(mid, lo, hi)
    <2>1. 0 \in Int
      OBVIOUS
    <2> QED BY <1>4, <2>1, RisingShift
  <1> QED BY <1>3, <1>5, <1>6 DEF Made

\* A part of the queue, with the overflow event if there was one.
LEMMA MadePart ==
  ASSUME NEW q \in Seq(Elt), NEW mid \in Seq(Elt), NEW k \in Nat, NEW n \in Nat \ {0},
         Events(q), \A i, j \in OverflowIndexes(q) : i = j,
         Len(mid) + k <= Len(q), Len(mid) <= n,
         Len(mid) = n => OverflowIndexes(q) # {},
         \A i \in 1..Len(mid) : mid[i] = q[i + k],
         \A i \in OverflowIndexes(q) : i > k /\ i <= k + Len(mid)
  PROVE  Made(q, mid, OverflowIndexes(q) # {}, n)
  <1>0. Len(q) \in Nat /\ Len(mid) \in Nat
    OBVIOUS
  <1>1. \A i \in 1..Len(mid) : i + k \in 1..Len(q)
    BY <1>0
  <1>2. \A i \in 1..Len(mid) : mid[i].kind # "value"
    BY <1>1 DEF Events
  <1>3. \A i \in OverflowIndexes(mid) : i + k \in OverflowIndexes(q)
    BY <1>1 DEF OverflowIndexes
  <1>4. \A i, j \in OverflowIndexes(mid) : i = j
    <2>1. OverflowIndexes(mid) \subseteq Int
      BY DEF OverflowIndexes
    <2> QED BY <1>3, <2>1
  <1>5. ASSUME NEW i \in OverflowIndexes(q)
        PROVE  i - k \in OverflowIndexes(mid)
    <2>1. i \in 1..Len(q) /\ q[i].kind = "overflow" /\ i - k \in 1..Len(mid) /\ (i - k) + k = i
      BY <1>0 DEF OverflowIndexes
    <2>2. mid[i - k] = q[(i - k) + k]
      BY <2>1
    <2> QED BY <2>1, <2>2 DEF OverflowIndexes
  <1>6. (OverflowIndexes(mid) # {}) = (OverflowIndexes(q) # {})
    BY <1>3, <1>5
  <1>7. \A lo, hi \in Nat : Rising(q, lo, hi) => Rising(mid, lo, hi)
    <2>1. k \in Int
      OBVIOUS
    <2> QED BY <1>1, <2>1, RisingShift
  <1> QED BY <1>2, <1>4, <1>6, <1>7 DEF Made

\* One element less, at the head or at the end.
LEMMA FrontSeq ==
  ASSUME NEW q \in Seq(Elt), Len(q) > 0
  PROVE  /\ Front(q) \in Seq(Elt) /\ Len(Front(q)) = Len(q) - 1
         /\ \A i \in 1..(Len(q) - 1) : Front(q)[i] = q[i]
  <1> DEFINE n == Len(q) - 1
  <1>1. n \in 0..Len(q)
    OBVIOUS
  <1>2. SubSeq(q, 1, n) \in Seq(Elt) /\ Len(SubSeq(q, 1, n)) = n
        /\ \A i \in 1..n : SubSeq(q, 1, n)[i] = q[i]
    <2> HIDE DEF n
    <2> QED BY <1>1, SplitSeq
  <1> QED BY <1>2 DEF Front

\* The queue of AddEvent before the new event is appended, when one was
\* discarded.
OneDiscarded(it) ==
  LET left == AfterDiscard(it.queue, it.oldest)
      over == Restored(it, Discarded(it.queue, it.oldest).kind = "overflow")
  IN  IF it.oldest THEN over \o left ELSE left \o over

\* SOPC_InternalAddCommonFinishAddNotifEventElt: one event is discarded and
\* the overflow event is put back before or after the others.
LEMMA AddEventMade ==
  ASSUME NEW it \in Item, NEW last \in Nat, EventQueue(it, last), Len(it.queue) >= it.size,
         NEW mid, mid = OneDiscarded(it)
  PROVE  /\ Made(it.queue, mid, ~it.triggered \/ OverflowIndexes(it.queue) # {}, it.size)
         /\ ~it.triggered => \E i \in 1..Len(it.queue) :
               /\ it.queue[i].kind = "event"
               /\ \A j \in 1..Len(mid) : mid[j].kind # "overflow" =>
                     \E k \in 1..Len(it.queue) : k # i /\ mid[j] = it.queue[k]
  <1> DEFINE q == it.queue
             O == OverflowEvent
             n == it.size
  <1>0. /\ q \in Seq(Elt) /\ Len(q) \in Nat /\ n \in Nat \ {0}
        /\ it.oldest \in BOOLEAN /\ it.triggered \in BOOLEAN
        /\ Len(q) >= n /\ Len(q) <= n + 1 /\ Len(q) > 0 /\ Len(q) \in 1..Len(q)
        /\ Events(q) /\ q[Len(q)].kind = "event" /\ Head(q) = q[1]
        /\ \A i, j \in OverflowIndexes(q) : i = j
        /\ Len(q) = n + 1 => OverflowIndexes(q) # {}
        /\ ~it.triggered => OverflowIndexes(q) = {}
    BY EltOf DEF Item, EventQueue, EventCore, OneOverflow, Events
  <1> DEFINE left == AfterDiscard(q, it.oldest)
             over == Restored(it, Discarded(q, it.oldest).kind = "overflow")
  <1>A. mid = IF it.oldest THEN over \o left ELSE left \o over
    BY DEF OneDiscarded
  <1>1. O \in Elt /\ O.kind = "overflow"
    BY OverflowElt
  <1>2. /\ Tail(q) \in Seq(Elt) /\ Len(Tail(q)) = Len(q) - 1
        /\ \A i \in 1..(Len(q) - 1) : Tail(q)[i] = q[i + 1]
    <2> HIDE DEF q
    <2> QED BY <1>0, TailSeq
  <1>3. /\ Front(q) \in Seq(Elt) /\ Len(Front(q)) = Len(q) - 1
        /\ \A i \in 1..(Len(q) - 1) : Front(q)[i] = q[i]
    <2> HIDE DEF q
    <2> QED BY <1>0, FrontSeq
  <1>4. CASE it.oldest /\ q[1].kind = "overflow"
    <2> DEFINE u == Tail(q)
               t == Tail(u)
    <2>1. left = t /\ over = <<O>>
      BY <1>0, <1>4 DEF AfterDiscard, DiscardOne, Discarded, Restored
    <2>2. Len(q) > 1 /\ 1 \in OverflowIndexes(q)
      BY <1>0, <1>4 DEF OverflowIndexes
    <2>3. u \in Seq(Elt) /\ Len(u) > 0 /\ Len(u) = Len(q) - 1
      BY <1>0, <1>2, <2>2
    <2>4. /\ t \in Seq(Elt) /\ Len(t) = Len(u) - 1
          /\ \A i \in 1..(Len(u) - 1) : t[i] = u[i + 1]
      <3> HIDE DEF u
      <3> QED BY <2>3, TailSeq
    <2> HIDE DEF left, over, q, O, u, t, n
    <2>5. mid = <<O>> \o t
      BY <1>A, <1>4, <2>1
    <2>6. /\ mid \in Seq(Elt) /\ Len(mid) = Len(t) + 1 /\ mid[1] = O
          /\ \A i \in 2..(Len(t) + 1) : mid[i] = t[i - 1]
      <3>1. O \in Elt /\ t \in Seq(Elt)
        BY <1>1, <2>4
      <3>2. /\ <<O>> \o t \in Seq(Elt) /\ Len(<<O>> \o t) = Len(t) + 1 /\ (<<O>> \o t)[1] = O
            /\ \A i \in 2..(Len(t) + 1) : (<<O>> \o t)[i] = t[i - 1]
        BY <3>1, ConsSeq
      <3> QED BY <2>5, <3>2
    <2>7. Len(mid) = Len(q) - 1 /\ Len(mid) <= n
      BY <1>0, <2>3, <2>4, <2>6
    <2>8. ASSUME NEW i \in 2..Len(mid)
          PROVE  mid[i] = q[i + 1]
      <3>1. /\ i \in 2..(Len(t) + 1) /\ i - 1 \in 1..(Len(u) - 1) /\ i \in 1..(Len(q) - 1)
            /\ (i - 1) + 1 = i
        BY <1>0, <2>3, <2>4, <2>6, <2>7
      <3>2. mid[i] = t[i - 1] /\ t[i - 1] = u[(i - 1) + 1] /\ u[i] = q[i + 1]
        BY <1>2, <2>4, <2>6, <3>1 DEF u
      <3> QED BY <3>1, <3>2
    <2>9. \A i \in OverflowIndexes(q) : i <= 1 + 1
      BY <1>0, <2>2
    <2>10. 1 \in Nat /\ Events(q) /\ mid[1].kind = "overflow"
      BY <1>0, <1>1, <2>6
    <2>11. Made(q, mid, TRUE, n)
      BY <1>0, <2>2, <2>6, <2>7, <2>8, <2>9, <2>10, MadeHead
    <2> QED BY <1>0, <2>2, <2>11 DEF q, n
  <1>5. CASE it.oldest /\ q[1].kind # "overflow" /\ ~it.triggered
    <2> DEFINE t == Tail(q)
    <2>1. left = t /\ over = <<O>>
      BY <1>0, <1>5 DEF AfterDiscard, DiscardOne, Discarded, Restored
    <2> HIDE DEF left, over, q, O, t, n
    <2>2. mid = <<O>> \o t /\ t \in Seq(Elt) /\ Len(t) = Len(q) - 1
      BY <1>A, <1>2, <1>5, <2>1 DEF t
    <2>3. /\ mid \in Seq(Elt) /\ Len(mid) = Len(t) + 1 /\ mid[1] = O
          /\ \A i \in 2..(Len(t) + 1) : mid[i] = t[i - 1]
      <3>1. O \in Elt /\ t \in Seq(Elt)
        BY <1>1, <2>2
      <3>2. /\ <<O>> \o t \in Seq(Elt) /\ Len(<<O>> \o t) = Len(t) + 1 /\ (<<O>> \o t)[1] = O
            /\ \A i \in 2..(Len(t) + 1) : (<<O>> \o t)[i] = t[i - 1]
        BY <3>1, ConsSeq
      <3> QED BY <2>2, <3>2
    <2>4. Len(mid) = Len(q) - 0 /\ Len(mid) <= n /\ Len(mid) = Len(q)
      BY <1>0, <1>5, <2>2, <2>3
    <2>5. ASSUME NEW i \in 2..Len(mid)
          PROVE  mid[i] = q[i + 0] /\ mid[i] = q[i]
      <3>1. i \in 2..(Len(t) + 1) /\ i - 1 \in 1..(Len(q) - 1) /\ (i - 1) + 1 = i /\ i + 0 = i
        BY <1>0, <2>2, <2>3, <2>4
      <3>2. mid[i] = t[i - 1] /\ t[i - 1] = q[(i - 1) + 1]
        BY <1>2, <2>3, <3>1 DEF t
      <3> QED BY <3>1, <3>2
    <2>6. \A i \in OverflowIndexes(q) : i <= 0 + 1
      BY <1>0, <1>5
    <2>7. 0 \in Nat /\ Events(q) /\ mid[1].kind = "overflow" /\ Len(q) > 0
      BY <1>0, <1>1, <2>3
    <2>8. Made(q, mid, TRUE, n)
      BY <1>0, <2>3, <2>4, <2>5, <2>6, <2>7, MadeHead
    <2>9. 1 \in 1..Len(q) /\ q[1].kind = "event"
      BY <1>0, <1>5 DEF Events
    <2>10. \A j \in 1..Len(mid) : mid[j].kind # "overflow" =>
              \E k \in 1..Len(q) : k # 1 /\ mid[j] = q[k]
      BY <1>0, <2>4, <2>5, <2>7
    <2> QED BY <1>5, <2>8, <2>9, <2>10 DEF q, n
  <1>6. CASE it.oldest /\ q[1].kind # "overflow" /\ it.triggered
    <2> DEFINE t == Tail(q)
    <2>1. left = t /\ over = <<>>
      BY <1>0, <1>6 DEF AfterDiscard, DiscardOne, Discarded, Restored
    <2>T. t \in Seq(Elt) /\ Len(t) = Len(q) - 1 /\ \A i \in 1..(Len(q) - 1) : t[i] = q[i + 1]
      BY <1>2
    <2> HIDE DEF left, over, q, n, t
    <2>2. mid = t
      BY <1>A, <1>6, <2>1, <2>T, EmptyConcat
    <2>3. /\ mid \in Seq(Elt) /\ Len(mid) + 1 <= Len(q) /\ Len(mid) <= n
          /\ Len(mid) = n => OverflowIndexes(q) # {}
          /\ \A i \in 1..Len(mid) : mid[i] = q[i + 1]
      BY <1>0, <2>2, <2>T
    <2>4. \A i \in OverflowIndexes(q) : i > 1 /\ i <= 1 + Len(mid)
      BY <1>0, <1>6, <2>2, <2>T DEF OverflowIndexes
    <2>5. Made(q, mid, OverflowIndexes(q) # {}, n)
      BY <1>0, <2>3, <2>4, MadePart
    <2> QED BY <1>6, <2>5 DEF q, n
  <1>7. CASE ~it.oldest /\ ~it.triggered
    <2> DEFINE t == Front(q)
    <2>1. left = t /\ over = <<O>>
      BY <1>0, <1>7 DEF AfterDiscard, DiscardOne, Discarded, Restored, Last
    <2> HIDE DEF left, over, q, O, t, n
    <2>2. mid = t \o <<O>> /\ t \in Seq(Elt) /\ Len(t) = Len(q) - 1
      BY <1>A, <1>3, <1>7, <2>1 DEF t
    <2>3. /\ mid \in Seq(Elt) /\ Len(mid) = Len(t) + 1 /\ mid[Len(t) + 1] = O
          /\ \A i \in 1..Len(t) : mid[i] = t[i]
      <3>1. O \in Elt /\ t \in Seq(Elt)
        BY <1>1, <2>2
      <3>2. /\ t \o <<O>> = Append(t, O) /\ Append(t, O) \in Seq(Elt)
            /\ Len(Append(t, O)) = Len(t) + 1 /\ Append(t, O)[Len(t) + 1] = O
            /\ \A i \in 1..Len(t) : Append(t, O)[i] = t[i]
        BY <3>1, SnocSeq
      <3> QED BY <2>2, <3>2
    <2>4. /\ Len(mid) = Len(q) /\ Len(mid) <= n /\ Len(mid) > 0 /\ Len(mid) <= Len(q)
          /\ mid[Len(mid)].kind = "overflow" /\ OverflowIndexes(q) = {}
      BY <1>0, <1>1, <1>7, <2>2, <2>3
    <2>5. \A i \in 1..(Len(mid) - 1) : mid[i] = q[i]
      BY <1>0, <1>3, <2>2, <2>3, <2>4 DEF t
    <2>6. Made(q, mid, TRUE, n)
      BY <1>0, <2>3, <2>4, <2>5, MadeLast
    <2>7. \A j \in 1..Len(mid) : mid[j].kind # "overflow" =>
              \E k \in 1..Len(q) : k # Len(q) /\ mid[j] = q[k]
      BY <1>0, <2>4, <2>5
    <2> QED BY <1>0, <1>7, <2>6, <2>7 DEF q, n
  <1>8. CASE ~it.oldest /\ it.triggered
    <2>1. left = Front(q) /\ over = <<>>
      BY <1>0, <1>8 DEF AfterDiscard, DiscardOne, Discarded, Restored, Last
    <2> DEFINE t == Front(q)
    <2>T. t \in Seq(Elt) /\ Len(t) = Len(q) - 1 /\ \A i \in 1..(Len(q) - 1) : t[i] = q[i]
      BY <1>3
    <2> HIDE DEF left, over, q, n, t
    <2>2. mid = t
      BY <1>A, <1>8, <2>1, <2>T, EmptyConcat DEF t
    <2>3. /\ mid \in Seq(Elt) /\ Len(mid) + 0 <= Len(q) /\ Len(mid) <= n
          /\ Len(mid) = n => OverflowIndexes(q) # {}
          /\ \A i \in 1..Len(mid) : mid[i] = q[i + 0]
      <3>1. Len(mid) + 0 <= Len(q) /\ Len(mid) <= n /\ (Len(mid) = n => OverflowIndexes(q) # {})
        BY <1>0, <2>2, <2>T
      <3>2. ASSUME NEW i \in 1..Len(mid) PROVE mid[i] = q[i + 0]
        <4>1. i \in 1..(Len(q) - 1) /\ i + 0 = i
          BY <1>0, <2>2, <2>T
        <4> QED BY <2>2, <2>T, <4>1
      <3> QED BY <2>2, <2>T, <3>1, <3>2
    <2>4. \A i \in OverflowIndexes(q) : i > 0 /\ i <= 0 + Len(mid)
      BY <1>0, <2>2, <2>T DEF OverflowIndexes
    <2>5. Made(q, mid, OverflowIndexes(q) # {}, n)
      BY <1>0, <2>3, <2>4, MadePart
    <2> QED BY <1>8, <2>5 DEF q, n
  <1> QED BY <1>0, <1>4, <1>5, <1>6, <1>7, <1>8

\* A notification of old whose number new does not report is lost.
LEMMA LosesOne ==
  ASSUME NEW q \in Seq(Elt), NEW r \in Seq(Elt), NEW i \in 1..Len(q), NEW v,
         \A j \in 1..Len(r) : r[j].val # q[i].val
  PROVE  Loses(q, r, v)
  <1>1. DOMAIN q = 1..Len(q) /\ DOMAIN r = 1..Len(r)
    OBVIOUS
  <1> DEFINE A == {e.val : e \in Range(q)}
             B == {e.val : e \in Range(r)}
             x == q[i].val
  <1>2. x \in A
    BY <1>1 DEF Range
  <1>3. x \notin B
    BY <1>1 DEF Range
  <1>4. Loses(q, r, v) <=> (A \cup {v}) \ B # {}
    BY DEF Loses
  <1> HIDE DEF A, B, x
  <1> QED BY <1>2, <1>3, <1>4

\* Nothing is lost when all that was there is still there.
LEMMA LosesNone ==
  ASSUME NEW q \in Seq(Elt), NEW r \in Seq(Elt), NEW v,
         \A i \in 1..Len(q) : \E j \in 1..Len(r) : r[j].val = q[i].val,
         \E j \in 1..Len(r) : r[j].val = v
  PROVE  ~Loses(q, r, v)
  <1>1. DOMAIN q = 1..Len(q) /\ DOMAIN r = 1..Len(r)
    OBVIOUS
  <1> DEFINE A == {e.val : e \in Range(q)}
             B == {e.val : e \in Range(r)}
  <1>2. \A j \in 1..Len(r) : r[j].val \in B
    BY <1>1 DEF Range
  <1>3. \A x \in A : \E i \in 1..Len(q) : x = q[i].val
    BY <1>1 DEF Range
  <1>4. Loses(q, r, v) <=> (A \cup {v}) \ B # {}
    BY DEF Loses
  <1> HIDE DEF A, B
  <1>5. v \in B /\ \A x \in A : x \in B
    BY <1>2, <1>3
  <1> QED BY <1>4, <1>5

\* What a step makes of the queue of an event item: the overflow event is
\* triggered by the first loss, and is in the queue then; later it is there
\* as long as it has not been delivered.
EventStep(old, new, loses) ==
  LET has(it) == OverflowIndexes(it.queue) # {} IN
  \/ new.triggered = old.triggered /\ has(new) = has(old) /\ ~loses
  \/ ~old.triggered /\ new.triggered /\ has(new) /\ loses
  \/ old.triggered /\ new.triggered /\ has(new) = has(old)

\* add_monitored_item_event_notification_to_queue
LEMMA AddEventQueue ==
  ASSUME NEW it \in Item, NEW last \in Nat, NEW lo \in Nat, lo <= last,
         EventQueue(it, last), Rising(it.queue, lo, last)
  PROVE  LET new == AddEvent(it, last + 1) IN
         /\ new \in Item /\ new.event = it.event
         /\ EventQueue(new, last + 1)
         /\ Rising(new.queue, lo, last + 1)
         /\ EventStep(it, new, Loses(it.queue, new.queue, last + 1))
  <1> DEFINE q == it.queue
             e == Element("event", last + 1)
             new == AddEvent(it, last + 1)
  <1>0. /\ q \in Seq(Elt) /\ Len(q) \in Nat /\ it.size \in Nat \ {0} /\ last + 1 \in Nat
        /\ it.triggered \in BOOLEAN /\ it.oldest \in BOOLEAN
    BY DEF Item
  <1>1. e \in Elt /\ e.kind = "event" /\ e.val = last + 1
    BY <1>0, OverflowElt
  <1>2. CASE Len(q) < it.size
    <2>1. new = [it EXCEPT !.queue = Append(q, e)]
      BY <1>2 DEF AddEvent
    <2> DEFINE r == Append(q, e)
    <2>2. r \in Seq(Elt) /\ Len(r) = Len(q) + 1 /\ r[Len(q) + 1] = e
          /\ \A i \in 1..Len(q) : r[i] = q[i]
      <3> HIDE DEF q, e
      <3> QED BY <1>0, <1>1, SnocSeq
    <2> HIDE DEF r
    <2>3. /\ new \in Item /\ new.queue = r /\ new.size = it.size /\ new.event = it.event
          /\ new.triggered = it.triggered
      BY <2>1, <2>2 DEF Item, r
    <2> HIDE DEF new
    <2>4. Made(q, q, OverflowIndexes(q) # {}, it.size)
      <3> HIDE DEF q
      <3>1. /\ Events(q) /\ \A i, j \in OverflowIndexes(q) : i = j
            /\ Len(q) + 0 <= Len(q) /\ Len(q) <= it.size
            /\ Len(q) = it.size => OverflowIndexes(q) # {}
            /\ \A i \in 1..Len(q) : q[i] = q[i + 0]
            /\ \A i \in OverflowIndexes(q) : i > 0 /\ i <= 0 + Len(q)
        BY <1>0, <1>2, EltOf DEF EventQueue, EventCore, OneOverflow, Events, OverflowIndexes, q
      <3> QED BY <1>0, <3>1, MadePart
    <2>5. OverflowIndexes(q) # {} => it.triggered
      BY DEF EventQueue, EventCore, OneOverflow
    <2>6. /\ EventQueue(new, last + 1)
          /\ (OverflowIndexes(r) # {}) = (OverflowIndexes(q) # {})
      BY <1>0, <2>3, <2>4, <2>5, AppendEvent DEF r
    <2>7. Rising(r, lo, last + 1)
      <3> HIDE DEF q, e
      <3> QED BY <1>0, <1>1, RisingAppend DEF r, q
    <2>8. ~Loses(q, r, last + 1)
      <3>1. Len(q) + 1 \in 1..Len(r) /\ r[Len(q) + 1].val = last + 1
        BY <1>0, <1>1, <2>2
      <3>2. \A i \in 1..Len(q) : i \in 1..Len(r)
        BY <1>0, <2>2
      <3> HIDE DEF q, e
      <3> QED BY <1>0, <2>2, <3>1, <3>2, LosesNone
    <2> QED BY <2>3, <2>6, <2>7, <2>8 DEF EventStep, new
  <1>3. CASE Len(q) >= it.size
    <2> DEFINE mid == OneDiscarded(it)
               r == Append(mid, e)
               over == ~it.triggered \/ OverflowIndexes(q) # {}
    <2>1. /\ Made(q, mid, over, it.size)
          /\ ~it.triggered => \E i \in 1..Len(q) :
               /\ q[i].kind = "event"
               /\ \A j \in 1..Len(mid) : mid[j].kind # "overflow" =>
                     \E k \in 1..Len(q) : k # i /\ mid[j] = q[k]
      BY <1>3, AddEventMade
    <2>2. new = [it EXCEPT !.triggered = TRUE, !.queue = r]
      <3>1. ~(Len(q) < it.size)
        BY <1>0, <1>3
      <3> QED BY <3>1 DEF AddEvent, OneDiscarded
    <2> HIDE DEF mid
    <2>3. mid \in Seq(Elt) /\ Rising(mid, lo, last)
      BY <2>1 DEF Made
    <2>4. r \in Seq(Elt) /\ Len(r) = Len(mid) + 1 /\ r[Len(mid) + 1] = e
          /\ \A i \in 1..Len(mid) : r[i] = mid[i]
      <3> HIDE DEF e
      <3> QED BY <1>1, <2>3, SnocSeq
    <2>5. Rising(r, lo, last + 1)
      <3> HIDE DEF e
      <3> QED BY <1>1, <2>3, RisingAppend
    <2> HIDE DEF r
    <2>6. /\ new \in Item /\ new.queue = r /\ new.size = it.size /\ new.event = it.event
          /\ new.triggered = TRUE
      BY <2>2, <2>4 DEF Item
    <2> HIDE DEF new
    <2>7. EventQueue(new, last + 1) /\ (OverflowIndexes(r) # {}) = over
      <3>1. new.queue = Append(mid, Element("event", last + 1)) /\ over \in BOOLEAN
        BY <2>6 DEF r
      <3> HIDE DEF over
      <3>2. Made(q, mid, over, new.size) /\ (over => new.triggered)
        BY <2>1, <2>6
      <3> QED BY <1>0, <2>6, <3>1, <3>2, AppendEvent
    <2>8. ASSUME ~it.triggered
          PROVE  Loses(q, r, last + 1)
      <3>1. PICK i \in 1..Len(q) :
               /\ q[i].kind = "event"
               /\ \A j \in 1..Len(mid) : mid[j].kind # "overflow" =>
                     \E k \in 1..Len(q) : k # i /\ mid[j] = q[k]
        BY <2>1, <2>8
      <3> HIDE DEF q
      <3>2. lo < q[i].val /\ q[i].val <= last
        BY <3>1 DEF Rising, q
      <3>3. ASSUME NEW j \in 1..Len(r)
            PROVE  r[j].val # q[i].val
        <4>1. CASE j = Len(mid) + 1
          BY <1>0, <1>1, <2>4, <3>2, <4>1, EltOf
        <4>2. CASE j \in 1..Len(mid) /\ mid[j].kind = "overflow"
          <5>1. mid[j].val = 0
            BY <2>3, <4>2, EltOf
          <5> QED BY <2>4, <3>2, <4>2, <5>1
        <4>3. CASE j \in 1..Len(mid) /\ mid[j].kind # "overflow"
          <5>1. PICK k \in 1..Len(q) : k # i /\ mid[j] = q[k]
            BY <3>1, <4>3
          <5>2. q[k].val < q[i].val \/ q[i].val < q[k].val
            <6>1. Rising(q, lo, last) /\ (k < i \/ i < k)
              BY <1>0, <5>1 DEF q
            <6>2. q[k].kind # "overflow" /\ q[i].kind # "overflow"
              BY <3>1, <4>3, <5>1
            <6> QED BY <6>1, <6>2 DEF Rising
          <5>3. q[k].val \in Nat /\ q[i].val \in Nat
            BY <1>0, EltOf
          <5> QED BY <2>4, <4>3, <5>1, <5>2, <5>3
        <4> QED BY <2>3, <2>4, <4>1, <4>2, <4>3
      <3> QED BY <1>0, <2>4, <3>3, LosesOne
    <2> QED BY <1>0, <2>5, <2>6, <2>7, <2>8 DEF EventStep, new
  <1> QED BY <1>0, <1>2, <1>3

\* is_discard_necessary_and_overflow_event_in_notif_queue, RemoveAt: the
\* queue without its overflow event.
LEMMA SetAsideQueue ==
  ASSUME NEW it \in Item, NEW last \in Nat, EventCore(it, last),
         NEW real, real = SetAside(it)
  PROVE  /\ real \in Seq(Elt) /\ Events(real) /\ OverflowIndexes(real) = {}
         /\ Len(real) = IF OverflowIndexes(it.queue) = {} THEN Len(it.queue) ELSE Len(it.queue) - 1
         /\ Len(it.queue) > 0 => Len(real) > 0 /\ real[Len(real)] = it.queue[Len(it.queue)]
         /\ OverflowFound(it) <=> OverflowIndexes(it.queue) # {}
         /\ OverflowIndexes(it.queue) = {} => real = it.queue
         /\ \A lo, hi \in Nat : Rising(it.queue, lo, hi) => Rising(real, lo, hi)
  <1> DEFINE q == it.queue
             V == OverflowIndexes(q)
  <1>0. /\ q \in Seq(Elt) /\ Len(q) \in Nat /\ it.triggered \in BOOLEAN
        /\ Events(q) /\ (\A i, j \in V : i = j) /\ (V # {} => it.triggered)
        /\ V \subseteq 1..Len(q)
        /\ Len(q) > 0 => q[Len(q)].kind = "event"
    BY EltOf DEF Item, EventCore, OneOverflow, Events, OverflowIndexes
  <1>1. OverflowFound(it) <=> V # {}
    BY <1>0 DEF OverflowFound
  <1>2. CASE V = {}
    BY <1>0, <1>1, <1>2 DEF SetAside
  <1>3. CASE V # {}
    <2>1. PICK p \in 1..Len(q) : V = {p}
      BY <1>0, <1>3
    <2>2. Max(V) = p
      BY <2>1 DEF Max
    <2>3. q[p].kind = "overflow" /\ p < Len(q) /\ Len(q) > 0
      BY <1>0, <2>1 DEF OverflowIndexes
    <2> DEFINE k == p - 1
               a == SubSeq(q, 1, k)
               b == SubSeq(q, p + 1, Len(q))
    <2>4. real = a \o b
      BY <1>1, <1>3, <2>2 DEF SetAside, RemoveAt
    <2>5. k \in 0..Len(q) /\ p \in 0..Len(q) /\ k \in Nat /\ p = k + 1
      BY <1>0, <2>3
    <2> HIDE DEF q, V, k
    <2>6. a \in Seq(Elt) /\ Len(a) = k /\ \A i \in 1..k : a[i] = q[i]
      BY <1>0, <2>5, SplitSeq
    <2>7. /\ b \in Seq(Elt) /\ Len(b) = Len(q) - p
          /\ \A i \in 1..(Len(q) - p) : b[i] = q[p + i]
      BY <1>0, <2>5, SplitSeq
    <2> HIDE DEF a, b
    <2>8. /\ a \o b \in Seq(Elt) /\ Len(a \o b) = Len(a) + Len(b)
          /\ \A i \in 1..(Len(a) + Len(b)) : (a \o b)[i] = IF i <= Len(a) THEN a[i] ELSE b[i - Len(a)]
      BY <2>6, <2>7, ConcatProperties
    <2>9. real \in Seq(Elt) /\ Len(real) = Len(q) - 1 /\ Len(real) > 0 /\ Len(real) \in Nat
      BY <1>0, <2>3, <2>4, <2>5, <2>6, <2>7, <2>8
    <2>10. \A i \in 1..k : real[i] = q[i]
      BY <1>0, <2>4, <2>5, <2>6, <2>7, <2>8
    <2>11. ASSUME NEW i \in p..Len(real)
           PROVE  real[i] = q[i + 1]
      <3>1. /\ i \in 1..(Len(a) + Len(b)) /\ ~(i <= Len(a)) /\ i - Len(a) \in 1..(Len(q) - p)
            /\ p + (i - Len(a)) = i + 1
        BY <1>0, <2>5, <2>6, <2>7, <2>9
      <3>2. real[i] = b[i - Len(a)] /\ b[i - Len(a)] = q[p + (i - Len(a))]
        BY <2>4, <2>7, <2>8, <3>1
      <3> QED BY <3>1, <3>2
    <2> DEFINE f == [i \in 1..Len(real) |-> IF i < p THEN i ELSE i + 1]
    <2>12. \A i \in 1..Len(real) : f[i] = IF i < p THEN i ELSE i + 1
      OBVIOUS
    <2>13. f \in [1..Len(real) -> Int]
      BY <1>0
    <2> HIDE DEF f
    <2>14. ASSUME NEW i \in 1..Len(real)
           PROVE  f[i] \in 1..Len(q) /\ f[i] # p /\ real[i] = q[f[i]]
      BY <1>0, <2>5, <2>9, <2>10, <2>11, <2>12
    <2>15. \A i, j \in 1..Len(real) : i < j => f[i] < f[j]
      BY <1>0, <2>9, <2>12
    <2>16. \A i \in 1..Len(q) : i # p => q[i].kind = "event"
      BY <1>0, <2>1 DEF Events, OverflowIndexes, V
    <2>17. \A i \in 1..Len(real) : real[i].kind = "event"
      BY <2>14, <2>16
    <2>18. Events(real) /\ OverflowIndexes(real) = {}
      BY <2>17 DEF Events, OverflowIndexes
    <2>19. \A i \in 1..Len(real) : real[i].kind # "overflow" =>
             f[i] \in 1..Len(q) /\ q[f[i]].kind # "overflow" /\ real[i].val = q[f[i]].val
      BY <2>14, <2>16
    <2>20. \A lo, hi \in Nat : Rising(q, lo, hi) => Rising(real, lo, hi)
      BY <1>0, <2>9, <2>13, <2>15, <2>19, RisingFrom
    <2>21. real[Len(real)] = q[Len(q)]
      <3>1. Len(real) \in p..Len(real) /\ Len(real) + 1 = Len(q)
        BY <1>0, <2>3, <2>5, <2>9
      <3> QED BY <2>11, <3>1
    <2> QED BY <1>1, <1>3, <2>9, <2>18, <2>20, <2>21 DEF q, V
  <1> QED BY <1>2, <1>3

\* A queue r with elements of real, in order (those at the places f), its last
\* one, not the one at d, and the overflow event at p (nowhere if p is 0).
Drawn(real, r, f, p, d) ==
  /\ r \in Seq(Elt) /\ Len(r) > 0 /\ f \in [1..Len(r) -> Int]
  /\ p \in 0..(Len(r) - 1) /\ d \in 1..Len(real)
  /\ \A j \in 1..Len(r) : j # p => f[j] \in 1..Len(real) /\ r[j] = real[f[j]]
  /\ \A j \in 1..Len(r) : f[j] # d \/ j = p
  /\ p # 0 => r[p].kind = "overflow"
  /\ \A i, j \in 1..Len(r) : i < j => f[i] < f[j]
  /\ f[Len(r)] = Len(real)

\* A queue drawn from a queue of events keeps its last event and their order,
\* and has no overflow event but the one at p.
LEMMA DrawnQueue ==
  ASSUME NEW real \in Seq(Elt), NEW r, NEW f, NEW p, NEW d, Drawn(real, r, f, p, d),
         Events(real), OverflowIndexes(real) = {},
         NEW lo \in Nat, NEW hi \in Nat, Rising(real, lo, hi), NEW v
  PROVE  /\ OverflowIndexes(r) = IF p = 0 THEN {} ELSE {p}
         /\ \A i \in 1..Len(r) : r[i].kind # "value"
         /\ r[Len(r)] = real[Len(real)]
         /\ Rising(r, lo, hi)
         /\ Loses(real, r, v)
  <1>0. /\ r \in Seq(Elt) /\ Len(r) > 0 /\ Len(r) \in Nat /\ f \in [1..Len(r) -> Int]
        /\ p \in 0..(Len(r) - 1) /\ Len(real) \in Nat /\ d \in 1..Len(real)
    BY DEF Drawn
  <1>1. \A i \in 1..Len(real) : real[i].kind = "event"
    BY DEF Events, OverflowIndexes
  <1>2. \A j \in 1..Len(r) : j # p => /\ f[j] \in 1..Len(real) /\ r[j] = real[f[j]]
                                     /\ r[j].kind = "event"
    BY <1>1 DEF Drawn
  <1>3. p # 0 => p \in 1..Len(r) /\ r[p].kind = "overflow"
    BY <1>0 DEF Drawn
  <1>4. OverflowIndexes(r) = IF p = 0 THEN {} ELSE {p}
    <2>1. \A j \in 1..Len(r) : r[j].kind = "overflow" => j = p
      BY <1>2
    <2>2. p = 0 => OverflowIndexes(r) = {}
      BY <2>1 DEF OverflowIndexes
    <2>3. p # 0 => OverflowIndexes(r) = {p}
      BY <1>3, <2>1 DEF OverflowIndexes
    <2> QED BY <2>2, <2>3
  <1>5. \A i \in 1..Len(r) : r[i].kind # "value"
    BY <1>2, <1>3
  <1>6. r[Len(r)] = real[Len(real)]
    <2>1. Len(r) \in 1..Len(r) /\ Len(r) # p
      BY <1>0
    <2> QED BY <1>2, <2>1 DEF Drawn
  <1>7. Rising(r, lo, hi)
    <2>1. \A j \in 1..Len(r) : r[j].kind # "overflow" =>
            f[j] \in 1..Len(real) /\ real[f[j]].kind # "overflow" /\ r[j].val = real[f[j]].val
      BY <1>1, <1>2, <1>3
    <2>2. \A i, j \in 1..Len(r) : i < j => f[i] < f[j]
      BY DEF Drawn
    <2> QED BY <1>0, <2>1, <2>2, RisingFrom
  <1>8. ASSUME NEW j \in 1..Len(r)
        PROVE  r[j].val # real[d].val
    <2>1. lo < real[d].val /\ real[d].val \in Nat
      BY <1>0, <1>1, EltOf DEF Rising
    <2>2. CASE j = p
      <3>1. r[j].val = 0
        BY <1>0, <1>3, <2>2, EltOf
      <3> QED BY <2>1, <3>1
    <2>3. CASE j # p
      <3>1. f[j] \in 1..Len(real) /\ f[j] # d /\ r[j] = real[f[j]]
        BY <1>2, <2>3 DEF Drawn
      <3>2. real[f[j]].val \in Nat
        BY <3>1, EltOf
      <3>3. f[j] < d \/ d < f[j]
        BY <1>0, <3>1
      <3>4. real[f[j]].val < real[d].val \/ real[d].val < real[f[j]].val
        BY <1>0, <1>1, <3>1, <3>3 DEF Rising
      <3> QED BY <2>1, <3>1, <3>2, <3>4
    <2> QED BY <2>2, <2>3
  <1>9. Loses(real, r, v)
    BY <1>0, <1>8, LosesOne
  <1> QED BY <1>4, <1>5, <1>6, <1>7, <1>9

\* The queue of ResizeEvent when events are discarded: with the overflow
\* event (over) or without it.
Shrunk(real, n, oldest, over) ==
  LET kept == Keep(real, n, oldest)
      o    == IF over THEN <<OverflowEvent>> ELSE <<>>
  IN  IF oldest THEN o \o kept ELSE Append(Front(kept) \o o, Last(real))

\* A queue of events that is made smaller is drawn from the one before.
LEMMA ShrunkDrawn ==
  ASSUME NEW real \in Seq(Elt), NEW n \in Nat \ {0}, Len(real) > n,
         NEW oldest \in BOOLEAN, NEW over \in BOOLEAN,
         NEW r, r = Shrunk(real, n, oldest, over)
  PROVE  \E f, p, d : /\ Drawn(real, r, f, p, d) /\ ((p # 0) <=> over)
                      /\ Len(r) = IF over THEN n + 1 ELSE n
  <1> DEFINE O == OverflowEvent
             L == Len(real)
             k == L - n
             new == SubSeq(real, k + 1, L)
             old == SubSeq(real, 1, n)
             m == n - 1
             front == SubSeq(old, 1, m)
             e == real[L]
  <1>0. O \in Elt /\ O.kind = "overflow"
    BY OverflowElt
  <1>1. /\ L \in Nat /\ k \in 0..L /\ n \in 0..L /\ k \in Nat \ {0} /\ k = L - n /\ n < L
        /\ m \in Nat /\ m = n - 1
    OBVIOUS
  <1>2. r = IF oldest THEN (IF over THEN <<O>> ELSE <<>>) \o new
                      ELSE Append(front \o (IF over THEN <<O>> ELSE <<>>), e)
    <2>1. ~(L <= n) /\ L - n + 1 = k + 1
      BY <1>1
    <2>2. oldest => Keep(real, n, oldest) = new
      BY <2>1 DEF Keep
    <2>3. ~oldest => Keep(real, n, oldest) = old
      BY <2>1 DEF Keep
    <2>4. Len(old) = n
      <3> HIDE DEF L
      <3> QED BY <1>1, SplitSeq DEF L
    <2>5. Front(old) = front
      BY <2>4 DEF Front
    <2>6. Last(real) = e
      BY DEF Last
    <2> HIDE DEF O, new, front, e, old
    <2> QED BY <2>2, <2>3, <2>5, <2>6 DEF Shrunk, O
  <1>3. new \in Seq(Elt) /\ Len(new) = n /\ \A i \in 1..n : new[i] = real[k + i]
    <2>1. Len(real) - k = n
      BY <1>1
    <2> HIDE DEF k
    <2> QED BY <1>1, <2>1, SplitSeq
  <1>4. old \in Seq(Elt) /\ Len(old) = n /\ \A i \in 1..n : old[i] = real[i]
    BY <1>1, SplitSeq
  <1> HIDE DEF old
  <1>5. front \in Seq(Elt) /\ Len(front) = m /\ \A i \in 1..m : front[i] = old[i]
    <2>1. m \in 0..Len(old)
      BY <1>1, <1>4
    <2> HIDE DEF m
    <2> QED BY <1>4, <2>1, SplitSeq
  <1>6. e \in Elt
    BY <1>1
  <1> HIDE DEF O, L, k, new, front, m, e
  <1>7. \A i \in 1..m : front[i] = real[i]
    BY <1>1, <1>4, <1>5
  <1>8. CASE oldest /\ over
    <2>1. r = <<O>> \o new
      BY <1>2, <1>8
    <2>2. /\ r \in Seq(Elt) /\ Len(r) = n + 1 /\ r[1] = O
          /\ \A i \in 2..(n + 1) : r[i] = new[i - 1]
      <3>1. /\ <<O>> \o new \in Seq(Elt) /\ Len(<<O>> \o new) = Len(new) + 1
            /\ (<<O>> \o new)[1] = O
            /\ \A i \in 2..(Len(new) + 1) : (<<O>> \o new)[i] = new[i - 1]
        BY <1>0, <1>3, ConsSeq
      <3> QED BY <1>3, <2>1, <3>1
    <2> DEFINE f == [j \in 1..Len(r) |-> k + j - 1]
    <2>3. f \in [1..Len(r) -> Int] /\ \A j \in 1..Len(r) : f[j] = k + j - 1
      BY <1>1
    <2> HIDE DEF f
    <2>4. ASSUME NEW j \in 1..Len(r), j # 1
          PROVE  f[j] \in 1..Len(real) /\ r[j] = real[f[j]] /\ f[j] # 1
      <3>1. /\ j \in 2..(n + 1) /\ j - 1 \in 1..n /\ k + (j - 1) = k + j - 1
            /\ k + j - 1 \in 1..L /\ k + j - 1 # 1
        BY <1>1, <2>2, <2>4
      <3>2. r[j] = new[j - 1] /\ new[j - 1] = real[k + (j - 1)]
        BY <1>3, <2>2, <3>1
      <3> QED BY <2>3, <3>1, <3>2 DEF L
    <2>5. \A i, j \in 1..Len(r) : i < j => f[i] < f[j]
      BY <1>1, <2>2, <2>3
    <2>6. f[Len(r)] = Len(real) /\ 1 \in 0..(Len(r) - 1) /\ 1 \in 1..Len(real) /\ Len(r) > 0
      BY <1>1, <2>2, <2>3 DEF L
    <2>7. Drawn(real, r, f, 1, 1)
      BY <1>0, <2>2, <2>3, <2>4, <2>5, <2>6 DEF Drawn
    <2>8. 1 # 0
      OBVIOUS
    <2>9. Len(r) = IF over THEN n + 1 ELSE n
      BY <1>8, <2>2
    <2> QED BY <1>8, <2>7, <2>8, <2>9
  <1>9. CASE oldest /\ ~over
    <2>1. r = new
      BY <1>2, <1>3, <1>9, EmptyConcat
    <2> DEFINE f == [j \in 1..Len(r) |-> k + j]
    <2>3. f \in [1..Len(r) -> Int] /\ \A j \in 1..Len(r) : f[j] = k + j
      BY <1>1
    <2> HIDE DEF f
    <2>4. ASSUME NEW j \in 1..Len(r)
          PROVE  f[j] \in 1..Len(real) /\ r[j] = real[f[j]] /\ f[j] # 1
      <3>1. j \in 1..n /\ k + j \in 1..L /\ k + j # 1
        BY <1>1, <1>3, <2>1
      <3> QED BY <1>3, <2>1, <2>3, <3>1 DEF L
    <2>5. \A i, j \in 1..Len(r) : i < j => f[i] < f[j]
      BY <1>1, <1>3, <2>1, <2>3
    <2>6. f[Len(r)] = Len(real) /\ 0 \in 0..(Len(r) - 1) /\ 1 \in 1..Len(real) /\ Len(r) > 0
      BY <1>1, <1>3, <2>1, <2>3 DEF L
    <2>7. Drawn(real, r, f, 0, 1)
      BY <1>3, <2>1, <2>3, <2>4, <2>5, <2>6 DEF Drawn
    <2> QED BY <1>3, <1>9, <2>1, <2>7
  <1>10. CASE ~oldest /\ over
    <2> DEFINE g == Append(front, O)
    <2>1. /\ g \in Seq(Elt) /\ Len(g) = n /\ g[n] = O /\ front \o <<O>> = g
          /\ \A i \in 1..m : g[i] = front[i]
      <3>1. /\ front \o <<O>> = Append(front, O)
            /\ Append(front, O) \in Seq(Elt) /\ Len(Append(front, O)) = Len(front) + 1
            /\ Append(front, O)[Len(front) + 1] = O
            /\ \A i \in 1..Len(front) : Append(front, O)[i] = front[i]
        BY <1>0, <1>5, SnocSeq
      <3>2. Len(front) + 1 = n
        BY <1>1, <1>5
      <3> QED BY <1>5, <3>1, <3>2
    <2> HIDE DEF g
    <2>2. r = Append(g, e)
      BY <1>2, <1>10, <2>1
    <2>3. /\ r \in Seq(Elt) /\ Len(r) = n + 1 /\ r[n + 1] = e
          /\ \A i \in 1..n : r[i] = g[i]
      <3>1. /\ Append(g, e) \in Seq(Elt) /\ Len(Append(g, e)) = Len(g) + 1
            /\ Append(g, e)[Len(g) + 1] = e
            /\ \A i \in 1..Len(g) : Append(g, e)[i] = g[i]
        BY <1>6, <2>1, SnocSeq
      <3> QED BY <2>1, <2>2, <3>1
    <2> DEFINE f == [j \in 1..Len(r) |-> IF j = n + 1 THEN L ELSE j]
    <2>4. f \in [1..Len(r) -> Int] /\ \A j \in 1..Len(r) : f[j] = IF j = n + 1 THEN L ELSE j
      BY <1>1
    <2> HIDE DEF f
    <2>5. ASSUME NEW j \in 1..Len(r), j # n
          PROVE  f[j] \in 1..Len(real) /\ r[j] = real[f[j]] /\ f[j] # n
      <3>1. CASE j = n + 1
        BY <1>1, <2>3, <2>4, <3>1 DEF L, e
      <3>2. CASE j \in 1..m
        BY <1>1, <1>7, <2>1, <2>3, <2>4, <3>2 DEF L
      <3> QED BY <1>1, <2>3, <2>5, <3>1, <3>2
    <2>6. \A i, j \in 1..Len(r) : i < j => f[i] < f[j]
      BY <1>1, <2>3, <2>4, SMTT(20)
    <2>7. /\ f[Len(r)] = Len(real) /\ n \in 0..(Len(r) - 1) /\ n \in 1..Len(real) /\ Len(r) > 0
          /\ r[n] = O /\ n # 0
      BY <1>1, <2>1, <2>3, <2>4 DEF L
    <2>8. Drawn(real, r, f, n, n)
      BY <1>0, <2>3, <2>4, <2>5, <2>6, <2>7 DEF Drawn
    <2> QED BY <1>10, <2>3, <2>7, <2>8
  <1>11. CASE ~oldest /\ ~over
    <2>2. r = Append(front, e)
      BY <1>2, <1>5, <1>11, EmptyConcat
    <2>3. /\ r \in Seq(Elt) /\ Len(r) = n /\ r[n] = e
          /\ \A i \in 1..m : r[i] = front[i]
      <3>1. /\ Append(front, e) \in Seq(Elt) /\ Len(Append(front, e)) = Len(front) + 1
            /\ Append(front, e)[Len(front) + 1] = e
            /\ \A i \in 1..Len(front) : Append(front, e)[i] = front[i]
        BY <1>5, <1>6, SnocSeq
      <3>2. Len(front) + 1 = n
        BY <1>1, <1>5
      <3> QED BY <1>5, <2>2, <3>1, <3>2
    <2> DEFINE f == [j \in 1..Len(r) |-> IF j = n THEN L ELSE j]
    <2>4. f \in [1..Len(r) -> Int] /\ \A j \in 1..Len(r) : f[j] = IF j = n THEN L ELSE j
      BY <1>1
    <2> HIDE DEF f
    <2>5. ASSUME NEW j \in 1..Len(r)
          PROVE  f[j] \in 1..Len(real) /\ r[j] = real[f[j]] /\ f[j] # n
      <3>1. CASE j = n
        BY <1>1, <2>3, <2>4, <3>1 DEF L, e
      <3>2. CASE j \in 1..m
        BY <1>1, <1>7, <2>3, <2>4, <3>2 DEF L
      <3> QED BY <1>1, <2>3, <3>1, <3>2
    <2>6. ASSUME NEW i \in 1..Len(r), NEW j \in 1..Len(r), i < j
          PROVE  f[i] < f[j]
      <3>1. i \in 1..n /\ j \in 1..n /\ i # n
        BY <1>1, <2>3, <2>6
      <3>2. f[i] = i
        BY <2>4, <3>1
      <3>3. f[j] = j \/ f[j] = L
        BY <2>4
      <3> QED BY <1>1, <2>6, <3>1, <3>2, <3>3
    <2>7. f[Len(r)] = Len(real) /\ 0 \in 0..(Len(r) - 1) /\ n \in 1..Len(real) /\ Len(r) > 0
      BY <1>1, <2>3, <2>4 DEF L
    <2>8. Drawn(real, r, f, 0, n)
      BY <2>3, <2>4, <2>5, <2>6, <2>7 DEF Drawn
    <2> QED BY <1>11, <2>3, <2>8
  <1> QED BY <1>8, <1>9, <1>10, <1>11

\* resize_event_notif_queue, the new size and policy already in the item.
LEMMA ResizeEventQueue ==
  ASSUME NEW it \in Item, NEW last \in Nat, NEW lo \in Nat,
         EventCore(it, last), Rising(it.queue, lo, last)
  PROVE  LET new == ResizeEvent(it) IN
         /\ new \in Item /\ new.event = it.event
         /\ EventQueue(new, last)
         /\ Rising(new.queue, lo, last)
         /\ EventStep(it, new, Loses(it.queue, new.queue, last) /\ it.queue # <<>>)
  <1> DEFINE q == it.queue
             real == SetAside(it)
             over == OverflowFound(it) \/ ~it.triggered
             n == it.size
             r == Shrunk(real, n, it.oldest, over)
             new == ResizeEvent(it)
  <1>0. /\ q \in Seq(Elt) /\ Len(q) \in Nat /\ n \in Nat \ {0}
        /\ it.triggered \in BOOLEAN /\ it.oldest \in BOOLEAN /\ over \in BOOLEAN
    BY DEF Item, OverflowFound
  <1>1. /\ real \in Seq(Elt) /\ Events(real) /\ OverflowIndexes(real) = {}
        /\ Len(real) = IF OverflowIndexes(q) = {} THEN Len(q) ELSE Len(q) - 1
        /\ Len(q) > 0 => Len(real) > 0 /\ real[Len(real)] = q[Len(q)]
        /\ OverflowFound(it) <=> OverflowIndexes(q) # {}
        /\ OverflowIndexes(q) = {} => real = q
        /\ Rising(real, lo, last)
    BY SetAsideQueue
  <1>2. OverflowIndexes(q) # {} => it.triggered
    BY DEF EventCore, OneOverflow
  <1>3. CASE Len(real) <= n
    <2>1. new = it
      BY <1>3 DEF ResizeEvent
    <2> HIDE DEF real, new
    <2>2. EventQueue(it, last)
      BY <1>0, <1>1, <1>3 DEF EventQueue
    <2>3. q # <<>> => ~Loses(q, q, last)
      <3>1. ASSUME q # <<>>
            PROVE  Len(q) \in 1..Len(q) /\ q[Len(q)].val = last
        BY <1>0, <3>1 DEF EventCore
      <3> HIDE DEF q
      <3> QED BY <1>0, <3>1, LosesNone
    <2> QED BY <2>1, <2>2, <2>3 DEF EventStep, new
  <1>4. CASE Len(real) > n
    <2>1. new = [it EXCEPT !.triggered = TRUE, !.queue = r]
      <3>1. ~(Len(real) <= n)
        BY <1>0, <1>1, <1>4
      <3>2. Restored(it, OverflowFound(it)) = IF over THEN <<OverflowEvent>> ELSE <<>>
        BY DEF Restored
      <3> QED BY <3>1, <3>2 DEF ResizeEvent, Shrunk
    <2> HIDE DEF real
    <2>2. PICK f, p, d : /\ Drawn(real, r, f, p, d) /\ ((p # 0) <=> over)
                         /\ Len(r) = IF over THEN n + 1 ELSE n
      <3> HIDE DEF q, over, n
      <3> QED BY <1>0, <1>1, <1>4, ShrunkDrawn
    <2> HIDE DEF r, over
    <2>3. /\ OverflowIndexes(r) = IF p = 0 THEN {} ELSE {p}
          /\ \A i \in 1..Len(r) : r[i].kind # "value"
          /\ r[Len(r)] = real[Len(real)]
          /\ Rising(r, lo, last)
          /\ Loses(real, r, last)
      BY <1>1, <2>2, DrawnQueue
    <2>4. r \in Seq(Elt) /\ (OverflowIndexes(r) # {}) = over
      BY <1>0, <2>2, <2>3 DEF Drawn
    <2>5. /\ new \in Item /\ new.queue = r /\ new.size = n /\ new.event = it.event
          /\ new.triggered = TRUE
      BY <2>1, <2>4 DEF Item
    <2> HIDE DEF new
    <2>6. Len(q) > 0
      BY <1>0, <1>1, <1>4
    <2>7. r[Len(r)].kind = "event" /\ r[Len(r)].val = last
      <3>1. q # <<>>
        BY <1>0, <2>6
      <3> QED BY <1>1, <2>3, <2>6, <3>1 DEF EventCore
    <2>8. \A i, j \in OverflowIndexes(r) : i = j
      BY <2>3
    <2>9. EventQueue(new, last)
      <3>1. Len(r) <= n + 1 /\ (Len(r) = n + 1 => OverflowIndexes(r) # {})
        <4>1. n # n + 1 /\ n <= n + 1 /\ n + 1 <= n + 1
          BY <1>0
        <4> QED BY <1>0, <2>2, <2>4, <4>1
      <3>2. OneOverflow(new)
        BY <2>5, <2>8 DEF OneOverflow
      <3>3. EventCore(new, last)
        BY <2>3, <2>5, <2>7, <3>2 DEF EventCore
      <3> QED BY <2>5, <3>1, <3>3 DEF EventQueue
    <2>10. ~it.triggered => over /\ Loses(q, r, last) /\ q # <<>>
      BY <1>0, <1>1, <1>2, <2>3, <2>6 DEF over
    <2>11. it.triggered => over = (OverflowIndexes(q) # {})
      BY <1>1 DEF over
    <2> QED BY <1>0, <2>3, <2>4, <2>5, <2>9, <2>10, <2>11 DEF EventStep, new
  <1> QED BY <1>0, <1>1, <1>3, <1>4

-----------------------------------------------------------------------------
(* Data items.                                                             *)

\* Only values are in the queue of a data item.
Values(q) == \A i \in 1..Len(q) : q[i].kind = "value"

\* A queue of values after a discard: one of them may get the overflow bit.
Marked(g, r, b) ==
  /\ r \in Seq(Elt) /\ Len(r) = Len(g)
  /\ \A i \in 1..Len(g) : /\ r[i].val = g[i].val /\ r[i].kind = g[i].kind
                          /\ i # b => r[i] = g[i]

\* SOPC_InternalSetOverflowBitAfterDiscard
WithBit(g, b) == [g EXCEPT ![b].bit = TRUE]

\* Only the bit changes.
LEMMA BitSet ==
  ASSUME NEW g \in Seq(Elt), NEW b \in 1..Len(g), g[b].kind = "value"
  PROVE  Marked(g, WithBit(g, b), b) /\ WithBit(g, b)[b].bit = TRUE
  <1> DEFINE e == [g[b] EXCEPT !.bit = TRUE]
             s == [g EXCEPT ![b] = e]
  <1>1. g[b] \in Elt
    BY EltOf
  <1>2. e \in Elt /\ e.val = g[b].val /\ e.kind = g[b].kind /\ e.bit = TRUE
    BY <1>1 DEF Elt
  <1>3. WithBit(g, b) = s
    BY DEF WithBit
  <1> HIDE DEF e
  <1>4. s \in Seq(Elt) /\ Len(s) = Len(g) /\ \A i \in 1..Len(g) : s[i] = IF i = b THEN e ELSE g[i]
    BY <1>2, ExceptSeq
  <1> HIDE DEF s
  <1>5. Marked(g, s, b) /\ s[b].bit = TRUE
    BY <1>2, <1>4 DEF Marked
  <1> QED BY <1>3, <1>5

\* The next value at the end.
LEMMA SignalAppend ==
  ASSUME NEW q \in Seq(Elt), NEW r \in Seq(Elt), NEW d \in Elt, NEW last \in Nat,
         Signalled(q, d, last),
         Len(r) = Len(q) + 1, \A i \in 1..Len(q) : r[i] = q[i], r[Len(q) + 1].val = last + 1
  PROVE  Signalled(r, d, last + 1)
  <1> DEFINE n == Len(q)
  <1>0. n \in Nat /\ At(d, q, n).val \in Nat
    BY EltOf DEF At, Elt
  <1>1. \A i \in 1..(n + 1) : At(d, r, i - 1) = At(d, q, i - 1)
    BY <1>0 DEF At
  <1>2. ASSUME NEW i \in 1..n, r[i].val > At(d, r, i - 1).val + 1
        PROVE  At(d, r, i - 1).bit \/ r[i].bit
    BY <1>0, <1>1, <1>2, SMTT(20) DEF Signalled
  <1>3. ASSUME r[n + 1].val > At(d, r, n).val + 1
        PROVE  At(d, r, n).bit
    <2>1. At(d, r, n) = At(d, q, n)
      <3>1. n + 1 \in 1..(n + 1) /\ (n + 1) - 1 = n
        BY <1>0
      <3> QED BY <1>1, <3>1
    <2>2. At(d, q, n).val < last
      BY <1>0, <1>3, <2>1
    <2> QED BY <2>1, <2>2 DEF Signalled
  <1>4. ~(At(d, r, n + 1).val < last + 1)
    BY <1>0 DEF At
  <1>5. ASSUME NEW i \in 1..(n + 1), r[i].val > At(d, r, i - 1).val + 1
        PROVE  At(d, r, i - 1).bit \/ r[i].bit
    <2>1. CASE i \in 1..n
      BY <1>2, <1>5, <2>1
    <2>2. CASE i = n + 1
      <3>1. i - 1 = n
        BY <1>0, <2>2
      <3> QED BY <1>3, <1>5, <2>2, <3>1
    <2> QED BY <1>0, <2>1, <2>2
  <1> QED BY <1>4, <1>5 DEF Signalled

\* The end of the queue, its first value with the overflow bit.
LEMMA SignalOldest ==
  ASSUME NEW q \in Seq(Elt), NEW r \in Seq(Elt), NEW d \in Elt, NEW last \in Nat,
         NEW k \in Nat, Signalled(q, d, last),
         Len(r) > 0, Len(r) + k = Len(q), r[1].bit, r[1].val = q[1 + k].val,
         \A i \in 2..Len(r) : r[i] = q[i + k]
  PROVE  Signalled(r, d, last)
  <1> DEFINE n == Len(r)
  <1>0. n \in Nat /\ n > 0 /\ n + k = Len(q)
    OBVIOUS
  <1>1. ASSUME NEW i \in 1..n, r[i].val > At(d, r, i - 1).val + 1
        PROVE  At(d, r, i - 1).bit \/ r[i].bit
    <2>1. CASE i = 1
      BY <2>1
    <2>2. CASE i = 2
      BY <2>2 DEF At
    <2>3. CASE i \in 3..n
      <3>1. /\ i - 1 \in 2..n /\ i + k \in 1..Len(q) /\ (i - 1) + k = (i + k) - 1
            /\ (i + k) - 1 # 0 /\ i - 1 # 0
        BY <1>0, <2>3
      <3>2. r[i] = q[i + k] /\ r[i - 1] = q[(i + k) - 1]
        BY <2>3, <3>1
      <3>3. At(d, r, i - 1) = At(d, q, (i + k) - 1)
        BY <3>1, <3>2 DEF At
      <3> QED BY <1>1, <3>1, <3>2, <3>3 DEF Signalled
    <2> QED BY <1>0, <2>1, <2>2, <2>3
  <1>2. ASSUME At(d, r, n).val < last
        PROVE  At(d, r, n).bit
    <2>1. CASE n = 1
      BY <2>1 DEF At
    <2>2. CASE n # 1
      <3>1. n >= 2 /\ n <= n
        <4> HIDE DEF n
        <4> QED BY <1>0, <2>2
      <3>2. n \in 2..n /\ Len(q) # 0 /\ n # 0
        <4> HIDE DEF n
        <4> QED BY <1>0, <3>1
      <3>3. r[n] = q[n + k]
        BY <3>2
      <3>4. At(d, r, n) = At(d, q, Len(q))
        BY <1>0, <3>2, <3>3 DEF At
      <3> QED BY <1>2, <3>4 DEF Signalled
    <2> QED BY <2>1, <2>2
  <1> QED BY <1>1, <1>2 DEF Signalled

\* The beginning of the queue, then a value with the overflow bit.
LEMMA SignalNewest ==
  ASSUME NEW q \in Seq(Elt), NEW r \in Seq(Elt), NEW d \in Elt, NEW last, NEW next,
         Signalled(q, d, last),
         Len(r) > 0, Len(r) - 1 <= Len(q), r[Len(r)].bit,
         \A i \in 1..(Len(r) - 1) : r[i] = q[i]
  PROVE  Signalled(r, d, next)
  <1> DEFINE n == Len(r)
  <1>0. n \in Nat /\ n > 0 /\ Len(q) \in Nat
    OBVIOUS
  <1>1. ASSUME NEW i \in 1..n, r[i].val > At(d, r, i - 1).val + 1
        PROVE  At(d, r, i - 1).bit \/ r[i].bit
    <2>1. CASE i = n
      BY <2>1
    <2>2. CASE i \in 1..(n - 1)
      <3>1. i \in 1..Len(q) /\ (i - 1 = 0 \/ i - 1 \in 1..(n - 1))
        BY <1>0, <2>2
      <3>2. r[i] = q[i] /\ At(d, r, i - 1) = At(d, q, i - 1)
        BY <2>2, <3>1 DEF At
      <3> QED BY <1>1, <3>1, <3>2 DEF Signalled
    <2> QED BY <1>0, <2>1, <2>2
  <1>2. At(d, r, n).bit
    BY <1>0 DEF At
  <1> QED BY <1>1, <1>2 DEF Signalled

\* The first k values leave; the k-th is the last one delivered.
LEMMA SignalPublish ==
  ASSUME NEW q \in Seq(Elt), NEW r \in Seq(Elt), NEW d \in Elt, NEW last,
         NEW k \in 1..Len(q), Signalled(q, d, last),
         Len(r) + k = Len(q), \A i \in 1..Len(r) : r[i] = q[k + i]
  PROVE  Signalled(r, q[k], last)
  <1> DEFINE n == Len(r)
  <1>0. n \in Nat /\ n + k = Len(q) /\ k \in Nat /\ k > 0
    OBVIOUS
  <1>1. ASSUME NEW i \in 0..n
        PROVE  At(q[k], r, i) = At(d, q, k + i) /\ k + i # 0
    <2>1. CASE i = 0
      BY <1>0, <2>1 DEF At
    <2>2. CASE i # 0
      BY <1>0, <2>2 DEF At
    <2> QED BY <2>1, <2>2
  <1>2. ASSUME NEW i \in 1..n, r[i].val > At(q[k], r, i - 1).val + 1
        PROVE  At(q[k], r, i - 1).bit \/ r[i].bit
    <2>1. k + i \in 1..Len(q) /\ i - 1 \in 0..n /\ k + (i - 1) = (k + i) - 1
      BY <1>0
    <2>2. r[i] = q[k + i] /\ At(q[k], r, i - 1) = At(d, q, (k + i) - 1)
      BY <1>1, <2>1
    <2> QED BY <1>2, <2>1, <2>2 DEF Signalled
  <1>3. At(q[k], r, n) = At(d, q, Len(q))
    <2>1. n \in 0..n /\ k + n = Len(q)
      BY <1>0
    <2> QED BY <1>1, <2>1
  <1> QED BY <1>2, <1>3 DEF Signalled

\* Values of q, moved by k places.
LEMMA RisingMoved ==
  ASSUME NEW q \in Seq(Elt), NEW r \in Seq(Elt), NEW k \in Int,
         \A i \in 1..Len(r) : r[i].kind # "overflow" =>
           i + k \in 1..Len(q) /\ r[i].kind = q[i + k].kind /\ r[i].val = q[i + k].val,
         NEW lo \in Nat, NEW hi \in Nat, Rising(q, lo, hi)
  PROVE  Rising(r, lo, hi)
  <1> DEFINE f == [j \in 1..Len(r) |-> j + k]
  <1>1. f \in [1..Len(r) -> Int]
    OBVIOUS
  <1>2. \A j \in 1..Len(r) : f[j] = j + k
    OBVIOUS
  <1> HIDE DEF f
  <1>3. \A i, j \in 1..Len(r) : i < j => f[i] < f[j]
    BY <1>2
  <1>4. \A j \in 1..Len(r) : r[j].kind # "overflow" =>
          f[j] \in 1..Len(q) /\ q[f[j]].kind # "overflow" /\ r[j].val = q[f[j]].val
    BY <1>2
  <1> QED BY <1>1, <1>3, <1>4, RisingFrom

\* The bit changes neither the values nor their order.
LEMMA MarkedQueue ==
  ASSUME NEW g \in Seq(Elt), NEW r, NEW b, Marked(g, r, b), Values(g)
  PROVE  /\ Values(r)
         /\ \A lo, hi \in Nat : Rising(g, lo, hi) => Rising(r, lo, hi)
  <1>1. Values(r) /\ r \in Seq(Elt) /\ Len(r) = Len(g)
    BY DEF Marked, Values
  <1>2. \A i \in 1..Len(r) : r[i].kind # "overflow" =>
           i + 0 \in 1..Len(g) /\ r[i].kind = g[i + 0].kind /\ r[i].val = g[i + 0].val
    BY <1>1 DEF Marked
  <1>3. 0 \in Int
    OBVIOUS
  <1> QED BY <1>1, <1>2, <1>3, RisingMoved

\* SetOverflowBit on a queue of values that is not empty.
LEMMA BitMarked ==
  ASSUME NEW g \in Seq(Elt), Values(g), Len(g) > 0, NEW oldest \in BOOLEAN
  PROVE  LET b == BitIndex(g, oldest) IN
         /\ b \in 1..Len(g)
         /\ Marked(g, SetOverflowBit(g, oldest), b)
         /\ SetOverflowBit(g, oldest)[b].bit = TRUE
  <1> DEFINE b == BitIndex(g, oldest)
             r == SetOverflowBit(g, oldest)
  <1>1. b \in 1..Len(g)
    BY DEF BitIndex
  <1>2. r = WithBit(g, b)
    BY DEF SetOverflowBit, WithBit
  <1> HIDE DEF b, r
  <1>3. g[b].kind = "value"
    BY <1>1 DEF Values
  <1>4. Marked(g, r, b) /\ r[b].bit = TRUE
    BY <1>1, <1>2, <1>3, BitSet
  <1> QED BY <1>1, <1>4 DEF b, r

\* The queue without the element DiscardOne takes out.
LEMMA DiscardOneQueue ==
  ASSUME NEW q \in Seq(Elt), Values(q), Len(q) > 0, NEW oldest \in BOOLEAN
  PROVE  LET p == DiscardOne(q, oldest) IN
         /\ p \in Seq(Elt) /\ Len(p) = Len(q) - 1 /\ Values(p)
         /\ \A i \in 1..(Len(q) - 1) : p[i] = IF oldest THEN q[i + 1] ELSE q[i]
         /\ \A lo, hi \in Nat : Rising(q, lo, hi) => Rising(p, lo, hi)
  <1> DEFINE p == DiscardOne(q, oldest)
             k == IF oldest THEN 1 ELSE 0
  <1>0. Len(q) \in Nat
    OBVIOUS
  <1>1. /\ p \in Seq(Elt) /\ Len(p) = Len(q) - 1
        /\ \A i \in 1..(Len(q) - 1) : p[i] = IF oldest THEN q[i + 1] ELSE q[i]
    <2>1. CASE oldest
      <3>1. p = Tail(q)
        BY <2>1 DEF DiscardOne
      <3> HIDE DEF p
      <3> QED BY <2>1, <3>1, TailSeq
    <2>2. CASE ~oldest
      <3>1. p = Front(q)
        BY <2>2 DEF DiscardOne
      <3> HIDE DEF p
      <3> QED BY <2>2, <3>1, FrontSeq
    <2> QED BY <2>1, <2>2
  <1> HIDE DEF p
  <1>2. \A i \in 1..Len(p) : i + k \in 1..Len(q) /\ p[i] = q[i + k]
    BY <1>0, <1>1
  <1>3. k \in Int
    OBVIOUS
  <1> HIDE DEF k
  <1>4. Values(p)
    BY <1>2 DEF Values
  <1>5. \A lo, hi \in Nat : Rising(q, lo, hi) => Rising(p, lo, hi)
    BY <1>1, <1>2, <1>3, RisingShift
  <1> QED BY <1>1, <1>4, <1>5 DEF p

\* The queue AddData leaves.
DataAdded(it, v) ==
  LET e    == Element("value", v)
      room == Append(DiscardOne(it.queue, it.oldest), e)
  IN  IF ~OverflowsData(it) THEN Append(it.queue, e)
      ELSE IF Capacity(it) # 1 THEN SetOverflowBit(room, it.oldest) ELSE room

\* SOPC_InternalAddCommonFinishAddNotifDataElt: the queue keeps to its size
\* and its order; a discarded value leaves an overflow bit.
LEMMA AddDataShape ==
  ASSUME NEW it \in Item, NEW last \in Nat, NEW lo \in Nat, lo <= last,
         ~it.event, DataQueue(it), Rising(it.queue, lo, last), NEW d \in Elt,
         NEW r, r = DataAdded(it, last + 1)
  PROVE  /\ r \in Seq(Elt) /\ Values(r) /\ Len(r) <= it.size /\ Len(r) > 0
         /\ Rising(r, lo, last + 1)
         /\ it.size # 1 /\ Signalled(it.queue, d, last) => Signalled(r, d, last + 1)
  <1> DEFINE q == it.queue
             e == Element("value", last + 1)
             n == Len(q)
             old == it.oldest
             full == n = it.size
             w == Append(q, e)
             part == DiscardOne(q, old)
             room == Append(part, e)
             b == BitIndex(room, old)
  <1>0. /\ q \in Seq(Elt) /\ n \in Nat /\ it.size \in Nat \ {0} /\ n <= it.size
        /\ old \in BOOLEAN /\ Values(q)
    BY DEF Item, DataQueue, Values
  <1>1. e \in Elt /\ e.kind = "value" /\ e.val = last + 1 /\ last + 1 \in Nat
    BY OverflowElt
  <1>2. r = IF ~full THEN w ELSE IF it.size # 1 THEN SetOverflowBit(room, old) ELSE room
    BY DEF DataAdded, OverflowsData, Capacity
  <1> HIDE DEF e
  <1>3. /\ w \in Seq(Elt) /\ Len(w) = n + 1 /\ w[n + 1] = e
        /\ \A i \in 1..n : w[i] = q[i]
    BY <1>0, <1>1, SnocSeq
  <1>4. Rising(w, lo, last + 1) /\ Values(w)
    <2>1. Rising(w, lo, last + 1)
      BY <1>0, <1>1, RisingAppend
    <2>2. Values(w)
      BY <1>0, <1>1, <1>3 DEF Values
    <2> QED BY <2>1, <2>2
  <1>5. Signalled(q, d, last) => Signalled(w, d, last + 1)
    <2>1. w[n + 1].val = last + 1
      BY <1>1, <1>3
    <2> HIDE DEF w, q
    <2> QED BY <1>0, <1>3, <2>1, SignalAppend
  <1> HIDE DEF w
  <1>6. CASE ~full
    <2>1. r = w /\ n + 1 <= it.size
      BY <1>0, <1>2, <1>6
    <2> QED BY <1>0, <1>3, <1>4, <1>5, <2>1
  <1>7. CASE full
    <2>0. n > 0 /\ Len(q) > 0
      BY <1>0, <1>7
    <2>1. /\ part \in Seq(Elt) /\ Len(part) = n - 1 /\ Values(part)
          /\ \A i \in 1..(n - 1) : part[i] = IF old THEN q[i + 1] ELSE q[i]
          /\ Rising(part, lo, last)
      <3> HIDE DEF q, old
      <3> QED BY <1>0, <2>0, DiscardOneQueue DEF q
    <2> HIDE DEF part
    <2>2. /\ room \in Seq(Elt) /\ Len(room) = n /\ room[n] = e
          /\ \A i \in 1..(n - 1) : room[i] = part[i]
      <3>1. /\ Append(part, e) \in Seq(Elt) /\ Len(Append(part, e)) = Len(part) + 1
            /\ Append(part, e)[Len(part) + 1] = e
            /\ \A i \in 1..Len(part) : Append(part, e)[i] = part[i]
        BY <1>1, <2>1, SnocSeq
      <3> QED BY <1>0, <2>1, <3>1
    <2>3. Rising(room, lo, last + 1)
      BY <1>1, <2>1, RisingAppend
    <2> HIDE DEF room
    <2>4. Values(room)
      <3>1. \A i \in 1..Len(room) : i = n \/ i \in 1..(n - 1)
        BY <1>0, <2>2
      <3>2. \A i \in 1..(n - 1) : room[i].kind = "value"
        BY <2>1, <2>2 DEF Values
      <3>3. room[n].kind = "value"
        BY <1>1, <2>2
      <3> QED BY <3>1, <3>2, <3>3 DEF Values
    <2>5. CASE it.size = 1
      <3>1. r = room
        BY <1>2, <1>7, <2>5
      <3> QED BY <1>0, <1>7, <2>0, <2>2, <2>3, <2>4, <2>5, <3>1
    <2>6. CASE it.size # 1
      <3>1. r = SetOverflowBit(room, old)
        BY <1>2, <1>7, <2>6
      <3>2. b \in 1..Len(room) /\ Marked(room, r, b) /\ r[b].bit = TRUE
        <4> HIDE DEF old, n
        <4> QED BY <1>0, <2>0, <2>2, <2>4, <3>1, BitMarked
      <3>3. Values(r) /\ Rising(r, lo, last + 1) /\ r \in Seq(Elt) /\ Len(r) = n
        <4>1. Values(r) /\ \A x, y \in Nat : Rising(room, x, y) => Rising(r, x, y)
          BY <2>2, <2>4, <3>2, MarkedQueue
        <4>2. r \in Seq(Elt) /\ Len(r) = n
          BY <2>2, <3>2 DEF Marked
        <4> QED BY <1>1, <2>3, <4>1, <4>2
      <3>4. ASSUME Signalled(q, d, last)
            PROVE  Signalled(r, d, last + 1)
        <4>1. CASE old
          <5>1. b = 1
            BY <4>1 DEF BitIndex
          <5>2. ASSUME NEW i \in 1..n
                PROVE  room[i] = w[i + 1]
            <6>1. CASE i = n
              BY <1>3, <2>2, <6>1
            <6>2. CASE i # n
              <7>1. i \in 1..(n - 1) /\ i + 1 \in 1..n
                BY <1>0, <6>2
              <7> QED BY <1>3, <2>1, <2>2, <4>1, <7>1
            <6> QED BY <6>1, <6>2
          <5>3. r[1].bit /\ r[1].val = w[1 + 1].val
            BY <1>0, <2>0, <2>2, <3>2, <5>1, <5>2 DEF Marked
          <5>4. \A i \in 2..n : r[i] = w[i + 1]
            BY <1>0, <2>2, <3>2, <5>1, <5>2 DEF Marked
          <5>5. Signalled(w, d, last + 1) /\ 1 \in Nat /\ Len(r) > 0 /\ Len(r) + 1 = Len(w)
            BY <1>3, <1>5, <2>0, <3>3, <3>4
          <5> HIDE DEF n, q
          <5> QED BY <1>1, <1>3, <3>3, <5>3, <5>4, <5>5, SignalOldest
        <4>2. CASE ~old
          <5>1. b = n
            BY <2>2, <4>2 DEF BitIndex
          <5>2. \A i \in 1..(n - 1) : r[i] = q[i]
            <6>1. \A i \in 1..(n - 1) : i \in 1..n /\ i # n
              BY <1>0
            <6> QED BY <2>1, <2>2, <3>2, <4>2, <5>1, <6>1 DEF Marked
          <5>3. Len(r) > 0 /\ Len(r) - 1 <= Len(q) /\ r[Len(r)].bit
            BY <1>0, <2>0, <2>2, <3>2, <3>3, <5>1
          <5> HIDE DEF q
          <5> QED BY <1>0, <3>3, <3>4, <5>2, <5>3, SignalNewest
        <4> QED BY <1>0, <4>1, <4>2
      <3> QED BY <1>0, <1>7, <2>0, <3>3, <3>4
    <2> QED BY <2>5, <2>6
  <1> QED BY <1>6, <1>7

\* A discard loop: the newest or the oldest elements stay.
LEMMA KeepQueue ==
  ASSUME NEW q \in Seq(Elt), Values(q), NEW n \in Nat \ {0}, Len(q) > n, NEW oldest \in BOOLEAN
  PROVE  LET p == Keep(q, n, oldest)
             k == IF oldest THEN Len(q) - n ELSE 0 IN
         /\ p \in Seq(Elt) /\ Len(p) = n /\ Values(p)
         /\ \A i \in 1..n : p[i] = q[i + k]
         /\ \A lo, hi \in Nat : Rising(q, lo, hi) => Rising(p, lo, hi)
  <1> DEFINE p == Keep(q, n, oldest)
             k == IF oldest THEN Len(q) - n ELSE 0
             L == Len(q)
             m == L - n
  <1>0. L \in Nat /\ m \in 0..L /\ n \in 0..L /\ L - m = n /\ k \in Nat /\ ~(L <= n)
        /\ L - n + 1 = m + 1
    OBVIOUS
  <1>1. p = IF oldest THEN SubSeq(q, m + 1, L) ELSE SubSeq(q, 1, n)
    BY <1>0 DEF Keep
  <1> HIDE DEF p, m
  <1>2. /\ SubSeq(q, m + 1, L) \in Seq(Elt) /\ Len(SubSeq(q, m + 1, L)) = n
        /\ \A i \in 1..n : SubSeq(q, m + 1, L)[i] = q[m + i]
    BY <1>0, SplitSeq
  <1>3. /\ SubSeq(q, 1, n) \in Seq(Elt) /\ Len(SubSeq(q, 1, n)) = n
        /\ \A i \in 1..n : SubSeq(q, 1, n)[i] = q[i]
    BY <1>0, SplitSeq
  <1>4. p \in Seq(Elt) /\ Len(p) = n /\ \A i \in 1..n : p[i] = q[i + k] /\ i + k \in 1..L
    <2>1. CASE oldest
      <3>1. p = SubSeq(q, m + 1, L) /\ k = m
        BY <1>1, <2>1 DEF m
      <3>2. \A i \in 1..n : m + i = i + k /\ i + k \in 1..L
        BY <1>0, <3>1, SMTT(20)
      <3> HIDE DEF k
      <3> QED BY <1>2, <3>1, <3>2
    <2>2. CASE ~oldest
      <3>1. p = SubSeq(q, 1, n) /\ k = 0
        BY <1>1, <2>2
      <3>2. \A i \in 1..n : i = i + k /\ i + k \in 1..L
        BY <1>0, <3>1
      <3> HIDE DEF k
      <3> QED BY <1>3, <3>1, <3>2
    <2> QED BY <2>1, <2>2
  <1>5. k \in Int
    BY <1>0
  <1>6. Values(p)
    BY <1>4 DEF Values
  <1>7. \A lo, hi \in Nat : Rising(q, lo, hi) => Rising(p, lo, hi)
    <2> HIDE DEF k
    <2> QED BY <1>4, <1>5, RisingShift
  <1> QED BY <1>4, <1>6, <1>7 DEF p

\* The queue ResizeData leaves.
DataResized(it) ==
  LET kept == Keep(it.queue, it.size, it.oldest)
  IN  IF Len(kept) < Len(it.queue) /\ it.size > 1 THEN SetOverflowBit(kept, it.oldest) ELSE kept

\* resize_data_notif_queue, the new size and policy already in the item.
LEMMA ResizeDataShape ==
  ASSUME NEW it \in Item, NEW last \in Nat, NEW lo \in Nat,
         Values(it.queue), Rising(it.queue, lo, last), NEW d \in Elt,
         NEW r, r = DataResized(it)
  PROVE  /\ r \in Seq(Elt) /\ Values(r) /\ Len(r) <= it.size
         /\ Rising(r, lo, last)
         /\ it.size # 1 /\ Signalled(it.queue, d, last) => Signalled(r, d, last)
  <1> DEFINE q == it.queue
             n == it.size
             old == it.oldest
             p == Keep(q, n, old)
             b == BitIndex(p, old)
  <1>0. q \in Seq(Elt) /\ Len(q) \in Nat /\ n \in Nat \ {0} /\ old \in BOOLEAN /\ Values(q)
    BY DEF Item
  <1>1. r = IF Len(p) < Len(q) /\ n > 1 THEN SetOverflowBit(p, old) ELSE p
    BY DEF DataResized
  <1>2. CASE Len(q) <= n
    <2>1. p = q
      BY <1>2 DEF Keep
    <2> HIDE DEF p, n, old
    <2>2. ~(Len(q) < Len(q))
      BY <1>0
    <2>3. r = q
      BY <1>1, <2>1, <2>2
    <2> QED BY <1>0, <1>2, <2>3 DEF n
  <1>3. CASE Len(q) > n
    <2>0. Rising(q, lo, last)
      OBVIOUS
    <2> DEFINE k == IF old THEN Len(q) - n ELSE 0
    <2>1. /\ p \in Seq(Elt) /\ Len(p) = n /\ Values(p)
          /\ \A i \in 1..n : p[i] = q[i + k]
          /\ Rising(p, lo, last)
      <3> HIDE DEF q, n, old
      <3> QED BY <1>0, <1>3, <2>0, KeepQueue
    <2> HIDE DEF p
    <2>2. CASE n = 1
      <3>1. r = p
        BY <1>1, <2>2
      <3> HIDE DEF k
      <3>2. Len(r) <= n
        <4> HIDE DEF n
        <4> QED BY <1>0, <2>1, <3>1
      <3> QED BY <2>1, <2>2, <3>1, <3>2
    <2>3. CASE n # 1
      <3>1. r = SetOverflowBit(p, old) /\ Len(p) > 0
        BY <1>0, <1>1, <1>3, <2>1, <2>3
      <3>2. b \in 1..Len(p) /\ Marked(p, r, b) /\ r[b].bit = TRUE
        <4> HIDE DEF old, n
        <4> QED BY <1>0, <2>1, <3>1, BitMarked
      <3>3. Values(r) /\ Rising(r, lo, last) /\ r \in Seq(Elt) /\ Len(r) = n
        <4>1. Values(r) /\ \A x, y \in Nat : Rising(p, x, y) => Rising(r, x, y)
          BY <2>1, <3>2, MarkedQueue
        <4>2. r \in Seq(Elt) /\ Len(r) = n
          BY <2>1, <3>2 DEF Marked
        <4> QED BY <2>1, <4>1, <4>2
      <3>4. ASSUME Signalled(q, d, last)
            PROVE  Signalled(r, d, last)
        <4>1. CASE old
          <5>1. b = 1 /\ k = Len(q) - n /\ k \in Nat /\ Len(r) > 0 /\ Len(r) + k = Len(q)
            BY <1>0, <1>3, <3>3, <4>1 DEF BitIndex
          <5> HIDE DEF k, q, n, old
          <5>2. r[1].bit /\ r[1].val = q[1 + k].val
            BY <1>0, <2>1, <3>2, <5>1 DEF Marked
          <5>3. \A i \in 2..Len(r) : r[i] = q[i + k]
            BY <1>0, <2>1, <3>2, <3>3, <5>1 DEF Marked
          <5> QED BY <1>0, <3>3, <3>4, <5>1, <5>2, <5>3, SignalOldest
        <4>2. CASE ~old
          <5>1. b = n /\ k = 0
            BY <2>1, <4>2 DEF BitIndex
          <5> HIDE DEF k, q, n, old
          <5>2. \A i \in 1..(n - 1) : r[i] = q[i]
            <6>1. \A i \in 1..(n - 1) : i \in 1..n /\ i # n /\ i + k = i
              BY <1>0, <5>1
            <6> QED BY <2>1, <3>2, <5>1, <6>1 DEF Marked
          <5>3. Len(r) > 0 /\ Len(r) - 1 <= Len(q) /\ r[Len(r)].bit
            BY <1>0, <1>3, <3>2, <3>3, <5>1
          <5> QED BY <1>0, <3>3, <3>4, <5>2, <5>3, SignalNewest
        <4> QED BY <1>0, <4>1, <4>2
      <3> QED BY <1>0, <3>3, <3>4
    <2> QED BY <2>2, <2>3
  <1> QED BY <1>0, <1>2, <1>3

\* AddData changes the queue only, and puts the bit on a value.
LEMMA AddDataQueue ==
  ASSUME NEW it \in Item, NEW last \in Nat, NEW lo \in Nat, lo <= last,
         ~it.event, DataQueue(it), Rising(it.queue, lo, last), NEW d \in Elt
  PROVE  LET new == AddData(it, last + 1) IN
         /\ new \in Item /\ ~new.event /\ DataQueue(new) /\ new.size = it.size
         /\ Rising(new.queue, lo, last + 1)
         /\ BitNeedsValue(it, new.queue)
         /\ it.size # 1 /\ Signalled(it.queue, d, last) => Signalled(new.queue, d, last + 1)
  <1> DEFINE r == DataAdded(it, last + 1)
             new == AddData(it, last + 1)
  <1>1. new = [it EXCEPT !.queue = r]
    BY DEF AddData, DataAdded
  <1> HIDE DEF r
  <1>2. /\ r \in Seq(Elt) /\ Values(r) /\ Len(r) <= it.size /\ Len(r) > 0
        /\ Rising(r, lo, last + 1)
        /\ it.size # 1 /\ Signalled(it.queue, d, last) => Signalled(r, d, last + 1)
    BY AddDataShape DEF r
  <1>3. new \in Item /\ new.queue = r /\ new.size = it.size /\ new.event = it.event
    BY <1>1, <1>2 DEF Item
  <1> HIDE DEF new
  <1>4. DataQueue(new)
    BY <1>2, <1>3 DEF DataQueue, Values
  <1>5. BitNeedsValue(it, new.queue)
    <2>1. \A o \in BOOLEAN : BitIndex(r, o) \in 1..Len(r)
      BY <1>2 DEF BitIndex
    <2>2. it.oldest \in BOOLEAN
      BY DEF Item
    <2> QED BY <1>2, <1>3, <2>1, <2>2 DEF BitNeedsValue, Values
  <1> QED BY <1>2, <1>3, <1>4, <1>5 DEF new

\* ResizeData changes the queue only.
LEMMA ResizeDataQueue ==
  ASSUME NEW it \in Item, NEW last \in Nat, NEW lo \in Nat,
         ~it.event, Values(it.queue), Rising(it.queue, lo, last), NEW d \in Elt
  PROVE  LET new == ResizeData(it) IN
         /\ new \in Item /\ ~new.event /\ DataQueue(new) /\ new.size = it.size
         /\ Rising(new.queue, lo, last)
         /\ it.size # 1 /\ Signalled(it.queue, d, last) => Signalled(new.queue, d, last)
  <1> DEFINE r == DataResized(it)
             new == ResizeData(it)
  <1>1. new = [it EXCEPT !.queue = r]
    BY DEF ResizeData, DataResized
  <1> HIDE DEF r
  <1>2. /\ r \in Seq(Elt) /\ Values(r) /\ Len(r) <= it.size
        /\ Rising(r, lo, last)
        /\ it.size # 1 /\ Signalled(it.queue, d, last) => Signalled(r, d, last)
    BY ResizeDataShape DEF r
  <1>3. new \in Item /\ new.queue = r /\ new.size = it.size /\ new.event = it.event
    BY <1>1, <1>2 DEF Item
  <1> HIDE DEF new
  <1>4. DataQueue(new)
    BY <1>2, <1>3 DEF DataQueue, Values
  <1> QED BY <1>2, <1>3, <1>4 DEF new

-----------------------------------------------------------------------------
(* Publish responses.                                                      *)

\* The greatest element of a set.
LEMMA MaxIs ==
  ASSUME NEW S, S \subseteq Int, NEW m \in S, \A x \in S : x <= m
  PROVE  Max(S) = m
  <1>1. Max(S) \in S /\ \A y \in S : Max(S) >= y
    <2>1. \E x \in S : \A y \in S : x >= y
      OBVIOUS
    <2> QED BY <2>1 DEF Max
  <1>2. Max(S) \in Int /\ Max(S) >= m /\ Max(S) <= m /\ m \in Int
    BY <1>1
  <1> HIDE DEF Max
  <1> QED BY <1>2

\* The last notification delivered once the n oldest have left.
Left(q, n, d) ==
  LET real == (1..n) \ (OverflowIndexes(q) \cap 1..n)
  IN  IF real = {} THEN d ELSE q[Max(real)]

\* The queue r and the notification d2 a publish response leaves of q.
AfterPublish(q, n, r, d2, hi) ==
  /\ d2 \in Elt /\ d2.val <= hi /\ Rising(r, d2.val, hi)
  /\ OverflowIndexes(q) = {} => d2 = q[n]
  /\ \A i, j \in OverflowIndexes(r) : i = j
  /\ Cardinality(OverflowIndexes(q) \cap 1..n) \in Nat
  /\ Cardinality(OverflowIndexes(q) \cap 1..n) + Cardinality(OverflowIndexes(r))
       = Cardinality(OverflowIndexes(q))
  /\ OverflowIndexes(q) = {} => OverflowIndexes(r) = {}

\* The n oldest notifications leave the queue q, and d2 is the last of them
\* that is not an overflow event.
LEMMA PublishQueue ==
  ASSUME NEW q \in Seq(Elt), NEW n \in 1..Len(q), NEW d \in Elt, NEW hi \in Nat,
         \A i, j \in OverflowIndexes(q) : i = j,
         Rising(q, d.val, hi), d.val <= hi,
         NEW r \in Seq(Elt), Len(r) + n = Len(q), \A i \in 1..Len(r) : r[i] = q[n + i],
         NEW d2, d2 = Left(q, n, d)
  PROVE  AfterPublish(q, n, r, d2, hi)
  <1> DEFINE O == OverflowIndexes(q)
             over == O \cap 1..n
             real == (1..n) \ over
             m == IF q[n].kind = "overflow" THEN n - 1 ELSE n
  <1>0. n \in Nat \ {0} /\ Len(q) \in Nat /\ n <= Len(q) /\ n \in 0..Len(q)
    OBVIOUS
  <1>1. r \in Seq(Elt) /\ Len(r) + n = Len(q) /\ \A i \in 1..Len(r) : r[i] = q[n + i]
    OBVIOUS
  <1>a. Len(r) \in Nat /\ Len(r) + n = Len(q)
    BY <1>1
  <1>2. d2 = IF real = {} THEN d ELSE q[Max(real)]
    BY DEF Left
  <1>3. /\ real \subseteq 1..n /\ \A i \in 1..n : i \in real <=> q[i].kind # "overflow"
        /\ \A i \in 1..Len(q) : i \in O <=> q[i].kind = "overflow"
        /\ O \subseteq 1..Len(q) /\ over \subseteq O
    BY <1>0 DEF OverflowIndexes
  <1>4. \A i, j \in O : i = j
    OBVIOUS
  <1>5. \/ real = {} /\ O = {n} /\ n = 1
        \/ m \in real /\ Max(real) = m
    <2>1. CASE q[n].kind # "overflow"
      <3>1. m \in real /\ \A x \in real : x <= m
        BY <1>0, <1>3, <2>1
      <3>2. real \subseteq Int
        BY <1>3
      <3> HIDE DEF real, m
      <3> QED BY <3>1, <3>2, MaxIs
    <2>2. CASE q[n].kind = "overflow"
      <3>1. O = {n} /\ m = n - 1
        BY <1>0, <1>3, <1>4, <2>2
      <3>2. CASE n = 1
        BY <1>3, <3>1, <3>2
      <3>3. CASE n # 1
        <4>1. n - 1 \in 1..n /\ n - 1 # n
          BY <1>0, <3>3
        <4>2. m \in real
          BY <3>1, <4>1
        <4>3. \A x \in real : x <= m
          <5>1. \A x \in real : x \in 1..n /\ x # n
            BY <3>1
          <5> HIDE DEF real
          <5> QED BY <1>0, <3>1, <5>1
        <4>4. real \subseteq Int
          BY <1>3
        <4> HIDE DEF real, m
        <4> QED BY <4>2, <4>3, <4>4, MaxIs
      <3> QED BY <3>2, <3>3
    <2> QED BY <2>1, <2>2
  <1> HIDE DEF real, over, O
  <1>6. \A i \in 1..Len(r) : n + i \in 1..Len(q)
    BY <1>0, <1>1
  <1>7. \A i \in OverflowIndexes(r) : n + i \in O /\ i \in 1..Len(r)
    BY <1>0, <1>1, <1>3, <1>6 DEF OverflowIndexes
  <1>8. \A i \in O : i > n => i - n \in OverflowIndexes(r)
    <2>1. ASSUME NEW i \in O, i > n
          PROVE  i - n \in OverflowIndexes(r)
      <3>0. i \in 1..Len(q)
        BY <1>3
      <3>1. i \in 1..Len(q) /\ i - n \in 1..Len(r) /\ n + (i - n) = i
        BY <1>0, <1>a, <2>1, <3>0
      <3>2. r[i - n] = q[n + (i - n)]
        BY <1>1, <3>1
      <3> QED BY <1>3, <3>1, <3>2 DEF OverflowIndexes
    <2> QED BY <2>1
  <1>9. \A i, j \in OverflowIndexes(r) : i = j
    BY <1>0, <1>4, <1>7
  <1>10. /\ Cardinality(over) \in Nat
         /\ Cardinality(over) + Cardinality(OverflowIndexes(r)) = Cardinality(O)
    <2>1. CASE O = {}
      <3>1. over = {} /\ OverflowIndexes(r) = {}
        BY <1>3, <1>7, <2>1
      <3>2. Cardinality(O) = 0 /\ Cardinality(over) = 0 /\ Cardinality(OverflowIndexes(r)) = 0
        BY <2>1, <3>1, FS_EmptySet, Zenon
      <3> QED BY <3>2
    <2>2. CASE O # {}
      <3>1. PICK p \in O : O = {p}
        BY <1>4, <2>2
      <3>2. p \in 1..Len(q)
        BY <1>3
      <3>3. CASE p <= n
        <4>1. over = {p}
          BY <1>0, <3>1, <3>2, <3>3 DEF over
        <4>2. OverflowIndexes(r) = {}
          BY <1>0, <1>7, <3>1, <3>2, <3>3
        <4>3. Cardinality(O) = 1 /\ Cardinality(over) = 1
          BY <3>1, <4>1, FS_Singleton, Zenon
        <4>4. Cardinality(OverflowIndexes(r)) = 0
          BY <4>2, FS_EmptySet, Zenon
        <4> QED BY <4>3, <4>4
      <3>4. CASE p > n
        <4>1. over = {}
          BY <1>0, <3>1, <3>2, <3>4 DEF over
        <4>2. p - n \in OverflowIndexes(r)
          BY <1>8, <3>4
        <4>3. OverflowIndexes(r) = {p - n}
          BY <1>9, <4>2
        <4>4. Cardinality(O) = 1 /\ Cardinality(OverflowIndexes(r)) = 1
          BY <3>1, <4>3, FS_Singleton, Zenon
        <4>5. Cardinality(over) = 0
          BY <4>1, FS_EmptySet, Zenon
        <4> QED BY <4>4, <4>5
      <3> QED BY <1>0, <3>2, <3>3, <3>4
    <2> QED BY <2>1, <2>2
  <1>11. d2 \in Elt /\ d2.val <= hi /\ Rising(r, d2.val, hi)
    <2>0. d \in Elt /\ d.val \in Nat /\ \A i \in 1..Len(q) : q[i].val \in Nat /\ q[i] \in Elt
      BY EltOf DEF Elt
    <2>1. CASE real = {}
      <3>1. d2 = d
        BY <1>2, <2>1
      <3>2. \A i \in 1..Len(r) : i + n \in 1..Len(q) /\ r[i] = q[i + n]
        BY <1>0, <1>1, <1>6
      <3>3. Rising(r, d.val, hi)
        <4> DEFINE v == d.val
        <4>1. n \in Int /\ v \in Nat /\ Rising(q, v, hi)
          BY <1>0, <2>0
        <4> HIDE DEF v
        <4>2. \A i \in 1..Len(r) : r[i].kind # "overflow" => i + n \in 1..Len(q) /\ r[i] = q[i + n]
          BY <3>2
        <4>3. Rising(r, v, hi)
          BY <1>1, <4>1, <4>2, RisingShift
        <4> QED BY <4>3 DEF v
      <3> QED BY <2>0, <3>1, <3>3
    <2>2. CASE m \in real /\ Max(real) = m
      <3>1. d2 = q[m] /\ m \in 1..n /\ m \in 1..Len(q) /\ q[m].kind # "overflow"
        BY <1>0, <1>2, <1>3, <2>2
      <3> HIDE DEF m
      <3>2. q[m].val <= hi
        BY <3>1 DEF Rising
      <3>3. ASSUME NEW i \in 1..Len(r), r[i].kind # "overflow"
            PROVE  /\ q[m].val < r[i].val /\ r[i].val <= hi
                   /\ \A j \in 1..Len(r) : i < j /\ r[j].kind # "overflow" => r[i].val < r[j].val
        <4>0. m < n + i /\ \A j \in 1..Len(r) : i < j => n + i < n + j
          <5>1. m \in 1..n
            BY <3>1
          <5> QED BY <1>0, <1>a, <5>1
        <4>1. r[i] = q[n + i] /\ n + i \in 1..Len(q)
          BY <1>1, <1>6
        <4>2. \A j \in 1..Len(r) : i < j => r[j] = q[n + j] /\ n + j \in 1..Len(q)
          BY <1>1, <1>6
        <4> QED BY <3>1, <3>3, <4>0, <4>1, <4>2 DEF Rising
      <3> QED BY <2>0, <3>1, <3>2, <3>3 DEF Rising
    <2> QED BY <1>5, <2>1, <2>2
  <1>12. O = {} => d2 = q[n] /\ OverflowIndexes(r) = {}
    BY <1>0, <1>2, <1>3, <1>5, <1>7
  <1> QED BY <1>9, <1>10, <1>11, <1>12 DEF O, over, AfterPublish

-----------------------------------------------------------------------------
(* The steps of the item.                                                  *)

\* local_update_available_notifs keeps the count exact.
LEMMA AvailableUpdated ==
  ASSUME NEW m, NEW before \in Nat, NEW after \in Nat, NEW n,
         n = IF m = "reporting" THEN before ELSE 0
  PROVE  UpdateAvailable(n, m, before, after) = IF m = "reporting" THEN after ELSE 0
  BY DEF UpdateAvailable

\* set_monit_mode_monitored_item: the count follows the mode.
LEMMA RecountedExact ==
  ASSUME ItemInv, NEW m
  PROVE  Recounted(m) = IF m = "reporting" THEN Len(item.queue) ELSE 0
  <1> DEFINE L == Len(item.queue)
             c == UpdateAvailable(available, mode, L, 0)
  <1>1. L \in Nat /\ available = IF mode = "reporting" THEN L ELSE 0
    BY DEF ItemInv, ItemTypeOK, Item
  <1>2. Recounted(m) = UpdateAvailable(c, m, 0, L)
    BY DEF Recounted
  <1> HIDE DEF L
  <1>3. c = 0
    BY <1>1, AvailableUpdated
  <1> HIDE DEF c
  <1>4. UpdateAvailable(c, m, 0, L) = IF m = "reporting" THEN L ELSE 0
    BY <1>1, <1>3, AvailableUpdated
  <1> QED BY <1>2, <1>4 DEF L

\* The events lost and the overflow event stay in step.
LEMMA EventCounted ==
  ASSUME NEW old \in Item, NEW new \in Item, NEW loses \in BOOLEAN, NEW x \in Nat, NEW y \in Nat,
         EventQueue(old, x), EventQueue(new, y), EventStep(old, new, loses), NEW k \in Nat,
         k + Cardinality(OverflowIndexes(old.queue)) = (IF old.triggered THEN 1 ELSE 0)
  PROVE  /\ (old.triggered \/ loses) = new.triggered
         /\ k + Cardinality(OverflowIndexes(new.queue)) = (IF new.triggered THEN 1 ELSE 0)
  <1> DEFINE A == OverflowIndexes(old.queue)
             B == OverflowIndexes(new.queue)
  <1>1. old.triggered \in BOOLEAN /\ new.triggered \in BOOLEAN
        /\ old.queue \in Seq(Elt) /\ new.queue \in Seq(Elt)
    BY DEF Item
  <1>2. Cardinality(A) = IF A = {} THEN 0 ELSE 1
    BY <1>1, OverflowCount DEF EventQueue, EventCore, OneOverflow
  <1>3. Cardinality(B) = IF B = {} THEN 0 ELSE 1
    BY <1>1, OverflowCount DEF EventQueue, EventCore, OneOverflow
  <1>4. \/ new.triggered = old.triggered /\ (B # {}) = (A # {}) /\ ~loses
        \/ ~old.triggered /\ new.triggered /\ B # {} /\ loses
        \/ old.triggered /\ new.triggered /\ (B # {}) = (A # {})
    BY DEF EventStep
  <1>5. k + Cardinality(A) = (IF old.triggered THEN 1 ELSE 0)
    OBVIOUS
  <1>6. ~old.triggered => A = {}
    BY DEF EventQueue, EventCore, OneOverflow
  <1> DEFINE a == A # {}
             b == B # {}
             t == old.triggered
             u == new.triggered
  <1>7. /\ (t \/ loses) = u
        /\ k + Cardinality(B) = (IF u THEN 1 ELSE 0)
    <2>1. a \in BOOLEAN /\ b \in BOOLEAN /\ t \in BOOLEAN /\ u \in BOOLEAN
      BY <1>1
    <2>2. Cardinality(A) = (IF a THEN 1 ELSE 0) /\ Cardinality(B) = (IF b THEN 1 ELSE 0)
      BY <1>2, <1>3
    <2>3. \/ u = t /\ b = a /\ ~loses
          \/ ~t /\ u /\ b /\ loses
          \/ t /\ u /\ b = a
      BY <1>4
    <2>4. k + (IF a THEN 1 ELSE 0) = (IF t THEN 1 ELSE 0) /\ (~t => ~a)
      BY <1>5, <1>6, <2>2
    <2> HIDE DEF a, b, t, u, A, B
    <2>5. (t \/ loses) = u
      BY <2>1, <2>3
    <2>6. k + (IF b THEN 1 ELSE 0) = (IF u THEN 1 ELSE 0)
      BY <2>1, <2>3, <2>4
    <2> QED BY <2>2, <2>5, <2>6
  <1> QED BY <1>7 DEF t, u, B

\* Init: the value read at creation is the first one of a data item.
LEMMA InitInv ==
  ASSUME Init
  PROVE  ItemInv
  <1>1. PICK k \in Kinds, n \in Sizes, o \in BOOLEAN, m \in Modes :
          /\ item = Created(k = "event", n, o, m)
          /\ mode = m
          /\ available = UpdateAvailable(0, m, 0, Len(item.queue))
    BY DEF Init
  <1> DEFINE ev == k = "event"
             none == NewQueue(ev, n, o)
             first == AddData(none, 1)
             d == Element("value", 0)
  <1>2. none \in Item /\ none.queue = <<>> /\ none.event = ev /\ none.size = n
        /\ none.triggered = FALSE /\ n \in Nat \ {0} /\ <<>> \in Seq(Elt)
    BY ItemAssumption DEF NewQueue, Item
  <1>3. d \in Elt /\ d.val = 0
    BY OverflowElt
  <1>4. \A lo, hi \in Nat : Rising(<<>>, lo, hi)
    BY DEF Rising
  <1>5. Signalled(<<>>, d, 0)
    BY <1>3 DEF Signalled, At
  <1>6. ASSUME ~ev
        PROVE  /\ first \in Item /\ ~first.event /\ DataQueue(first) /\ first.size = n
               /\ Rising(first.queue, 0, 1)
               /\ n # 1 => Signalled(first.queue, d, 1)
    <2>1. DataQueue(none)
      BY <1>2 DEF DataQueue
    <2>2. ~none.event /\ Rising(none.queue, 0, 0) /\ Signalled(none.queue, d, 0)
      BY <1>2, <1>4, <1>5, <1>6
    <2> HIDE DEF none, d
    <2>3. LET new == AddData(none, 0 + 1) IN
          /\ new \in Item /\ ~new.event /\ DataQueue(new) /\ new.size = none.size
          /\ Rising(new.queue, 0, 0 + 1)
          /\ BitNeedsValue(none, new.queue)
          /\ none.size # 1 /\ Signalled(none.queue, d, 0) => Signalled(new.queue, d, 0 + 1)
      BY <1>2, <1>3, <2>1, <2>2, AddDataQueue
    <2>4. 0 + 1 = 1
      OBVIOUS
    <2> QED BY <1>2, <2>2, <2>3, <2>4
  <1>7. produced = 1 /\ aborted = FALSE /\ lost = FALSE /\ overflows = 0 /\ dropped = 0
        /\ delivered = Element("value", IF item.queue = <<>> THEN 1 ELSE 0)
    BY DEF Init
  <1>8. ASSUME item \in Item
        PROVE  /\ available = IF mode = "reporting" THEN Len(item.queue) ELSE 0
               /\ available \in Nat
    <2> DEFINE L == Len(item.queue)
    <2>1. L \in Nat /\ 0 \in Nat /\ 0 = (IF m = "reporting" THEN 0 ELSE 0)
      BY <1>8 DEF Item
    <2> HIDE DEF L
    <2>2. UpdateAvailable(0, m, 0, L) = IF m = "reporting" THEN L ELSE 0
      BY <2>1, AvailableUpdated
    <2>3. available = IF mode = "reporting" THEN L ELSE 0
      BY <1>1, <2>2 DEF L
    <2> QED BY <2>1, <2>3 DEF L
  <1>9. CASE ev \/ m = "disabled"
    <2>1. item = none
      BY <1>1, <1>9 DEF Created
    <2> HIDE DEF none
    <2>2. delivered = Element("value", 1)
      BY <1>2, <1>7, <2>1
    <2>3. delivered \in Elt /\ delivered.val = 1
      BY <2>2, OverflowElt
    <2>4. ItemTypeOK /\ item.size \in Sizes
      <3>1. available \in Nat /\ item \in Item /\ item.size \in Sizes /\ mode \in Modes
        BY <1>1, <1>2, <1>8, <2>1
      <3> QED BY <1>7, <2>3, <3>1 DEF ItemTypeOK
    <2>5. Rising(item.queue, delivered.val, produced)
      BY <1>2, <1>4, <1>7, <2>1, <2>3
    <2>6. ASSUME ev
          PROVE  EventQueue(item, produced) /\ EventCount
      <3>1. OverflowIndexes(item.queue) = {}
        BY <1>2, <2>1 DEF OverflowIndexes
      <3>2. EventQueue(item, produced)
        BY <1>2, <2>1, <3>1 DEF EventQueue, EventCore, OneOverflow
      <3>3. EventCount
        <4>1. Cardinality(OverflowIndexes(item.queue)) = 0
          BY <3>1, FS_EmptySet, Zenon
        <4>2. item.triggered = FALSE
          BY <1>2, <2>1
        <4>3. lost = item.triggered
          BY <1>7, <4>2
        <4>4. overflows + dropped + Cardinality(OverflowIndexes(item.queue)) = (IF item.triggered THEN 1 ELSE 0)
          BY <1>7, <4>1, <4>2
        <4> QED BY <4>3, <4>4 DEF EventCount
      <3> QED BY <1>1, <2>6, <3>2, <3>3
    <2>7. DataQueue(item) /\ Signalled(item.queue, delivered, produced)
      BY <1>2, <1>7, <2>1, <2>3 DEF DataQueue, Signalled, At
    <2>8. available = IF mode = "reporting" THEN Len(item.queue) ELSE 0
      BY <1>2, <1>8, <2>1
    <2>9. delivered.val <= produced /\ ~aborted
      BY <1>7, <2>3
    <2>10. item.event = ev
      BY <1>2, <2>1
    <2> HIDE DEF ev
    <2> QED BY <2>4, <2>5, <2>6, <2>7, <2>8, <2>9, <2>10 DEF ItemInv
  <1>10. CASE ~(ev \/ m = "disabled")
    <2>1. item = first
      BY <1>1, <1>10 DEF Created
    <2> HIDE DEF first, none
    <2>2. /\ item \in Item /\ ~item.event /\ DataQueue(item) /\ item.size = n
          /\ Rising(item.queue, 0, 1) /\ (n # 1 => Signalled(item.queue, d, 1))
      BY <1>6, <1>10, <2>1
    <2>3. item.queue # <<>>
      BY <1>2, <1>10, <2>1 DEF first, AddData, OverflowsData, Capacity
    <2>4. delivered = d
      BY <1>7, <2>3
    <2>5. ItemTypeOK /\ item.size \in Sizes
      <3>1. available \in Nat /\ item.size \in Sizes /\ mode \in Modes
        BY <1>1, <1>8, <2>2
      <3> QED BY <1>3, <1>7, <2>2, <2>4, <3>1 DEF ItemTypeOK
    <2>6. available = IF mode = "reporting" THEN Len(item.queue) ELSE 0
      BY <1>8, <2>2
    <2>7. 1 \notin Sizes => Signalled(item.queue, delivered, produced)
      BY <1>7, <2>2, <2>4
    <2> QED BY <1>3, <1>7, <2>2, <2>4, <2>5, <2>6, <2>7 DEF ItemInv
  <1> QED BY <1>9, <1>10

\* The steps that add a value to a data item, of any mode.
LEMMA DataAddedInv ==
  ASSUME ItemInv, ~item.event,
         produced' = produced + 1, item' = AddData(item, produced + 1),
         mode' \in Modes, available' = (IF mode' = "reporting" THEN Len(item'.queue) ELSE 0),
         ~aborted', UNCHANGED <<delivered, lost, overflows, dropped>>
  PROVE  ItemInv'
  <1> DEFINE lo == delivered.val
  <1>1. /\ item \in Item /\ item.size \in Sizes /\ produced \in Nat /\ lo \in Nat /\ lo <= produced
        /\ delivered \in Elt /\ DataQueue(item) /\ Rising(item.queue, lo, produced)
        /\ 1 \notin Sizes => item.size # 1 /\ Signalled(item.queue, delivered, produced)
        /\ lost \in BOOLEAN /\ overflows \in Nat /\ dropped \in Nat
    BY DEF ItemInv, ItemTypeOK, Elt
  <1> HIDE DEF lo
  <1>2. /\ item' \in Item /\ ~item'.event /\ DataQueue(item') /\ item'.size = item.size
        /\ Rising(item'.queue, lo, produced + 1)
        /\ item.size # 1 /\ Signalled(item.queue, delivered, produced)
             => Signalled(item'.queue, delivered, produced + 1)
    BY <1>1, AddDataQueue
  <1>3. Len(item'.queue) \in Nat
    BY <1>2 DEF Item
  <1>4. ItemTypeOK'
    <2>1. available' \in Nat /\ produced' \in Nat
      BY <1>1, <1>3
    <2> QED BY <1>1, <1>2, <2>1 DEF ItemTypeOK
  <1>5. delivered'.val <= produced'
    BY <1>1 DEF lo
  <1>6. Rising(item'.queue, delivered'.val, produced')
    BY <1>2 DEF lo
  <1> QED BY <1>1, <1>2, <1>4, <1>5, <1>6 DEF ItemInv

\* Notify keeps the invariant.
LEMMA NotifyInv ==
  ASSUME ItemInv, Notify
  PROVE  ItemInv'
  <1> DEFINE lo == delivered.val
             q == item.queue
  <1>1. /\ item \in Item /\ item.size \in Sizes /\ produced \in Nat /\ lo \in Nat /\ lo <= produced
        /\ delivered \in Elt /\ Rising(q, lo, produced) /\ Len(q) \in Nat
        /\ lost \in BOOLEAN /\ overflows \in Nat /\ dropped \in Nat /\ mode \in Modes /\ ~aborted
        /\ item.event => EventQueue(item, produced) /\ EventCount
        /\ available = IF mode = "reporting" THEN Len(q) ELSE 0
    BY DEF ItemInv, ItemTypeOK, Elt, Item
  <1>2. /\ produced' = produced + 1 /\ UNCHANGED <<mode, aborted, delivered, overflows, dropped>>
        /\ item' = IF item.event THEN AddEvent(item, produced') ELSE AddData(item, produced')
        /\ available' = UpdateAvailable(available, mode, Len(q), Len(item'.queue))
        /\ lost' = (lost \/ (item.event /\ Loses(q, item'.queue, produced')))
    BY DEF Notify
  <1>3. ASSUME item' \in Item
        PROVE  /\ available' = IF mode' = "reporting" THEN Len(item'.queue) ELSE 0
               /\ available' \in Nat
    <2>1. Len(item'.queue) \in Nat
      BY <1>3 DEF Item
    <2> DEFINE a == Len(item'.queue)
               b == Len(q)
    <2>2. /\ available' = UpdateAvailable(available, mode, b, a) /\ a \in Nat /\ b \in Nat
          /\ available = IF mode = "reporting" THEN b ELSE 0
      BY <1>1, <1>2, <2>1
    <2> HIDE DEF a, b
    <2>3. available' = IF mode = "reporting" THEN a ELSE 0
      BY <2>2, AvailableUpdated
    <2> QED BY <1>2, <2>1, <2>3 DEF a
  <1> HIDE DEF lo
  <1>4. CASE item.event
    <2>1. item' = AddEvent(item, produced + 1)
      BY <1>2, <1>4
    <2>2. /\ item' \in Item /\ item'.event = item.event
          /\ EventQueue(item', produced + 1)
          /\ Rising(item'.queue, lo, produced + 1)
          /\ EventStep(item, item', Loses(item.queue, item'.queue, produced + 1))
      BY <1>1, <1>4, <2>1, AddEventQueue
    <2>3. item'.size = item.size
      BY <1>1, <2>1 DEF AddEvent, Item
    <2> DEFINE ls == Loses(q, item'.queue, produced + 1)
    <2>4. ls \in BOOLEAN /\ lost' = (item.triggered \/ ls) /\ item.triggered \in BOOLEAN
      BY <1>1, <1>2, <1>4 DEF Loses, EventCount, Item
    <2>5. EventStep(item, item', ls)
      BY <2>2
    <2> HIDE DEF ls
    <2>6. /\ (item.triggered \/ ls) = item'.triggered
          /\ overflows + dropped + Cardinality(OverflowIndexes(item'.queue)) = (IF item'.triggered THEN 1 ELSE 0)
      <3> DEFINE k == overflows + dropped
      <3>1. k \in Nat /\ k + Cardinality(OverflowIndexes(item.queue)) = (IF item.triggered THEN 1 ELSE 0)
        BY <1>1, <1>4 DEF EventCount
      <3> HIDE DEF k
      <3>2. /\ (item.triggered \/ ls) = item'.triggered
            /\ k + Cardinality(OverflowIndexes(item'.queue)) = (IF item'.triggered THEN 1 ELSE 0)
        BY <1>1, <1>4, <2>2, <2>4, <2>5, <3>1, EventCounted
      <3> QED BY <3>2 DEF k
    <2>7. EventCount' /\ lost' \in BOOLEAN
      BY <1>2, <2>4, <2>6 DEF EventCount
    <2>8. ItemTypeOK'
      BY <1>1, <1>2, <1>3, <2>2, <2>7 DEF ItemTypeOK
    <2>9. delivered'.val <= produced' /\ Rising(item'.queue, delivered'.val, produced')
      BY <1>1, <1>2, <2>2 DEF lo
    <2> QED BY <1>1, <1>2, <1>3, <1>4, <2>2, <2>3, <2>7, <2>8, <2>9 DEF ItemInv
  <1>5. CASE ~item.event
    <2>1. item' = AddData(item, produced + 1) /\ lost' = lost
      BY <1>1, <1>2, <1>5
    <2>2. item' \in Item
      BY <1>1, <1>5, <2>1, AddDataQueue DEF ItemInv
    <2>3. /\ mode' \in Modes /\ ~aborted' /\ UNCHANGED <<delivered, lost, overflows, dropped>>
          /\ produced' = produced + 1
          /\ available' = IF mode' = "reporting" THEN Len(item'.queue) ELSE 0
      BY <1>1, <1>2, <1>3, <2>1, <2>2
    <2> QED BY <1>5, <2>1, <2>3, DataAddedInv
  <1> QED BY <1>4, <1>5

\* AddFirst on a data item keeps the invariant; the assertion on the overflow
\* bit holds.
LEMMA AddFirstInv ==
  ASSUME ItemInv, ~item.event, mode' \in Modes, NEW n,
         n = IF mode' = "reporting" THEN Len(item.queue) ELSE 0,
         AddFirst(item, n), UNCHANGED <<delivered, lost, overflows, dropped>>
  PROVE  ItemInv'
  <1> DEFINE lo == delivered.val
             a == Len(item'.queue)
             b == Len(item.queue)
             m == mode'
  <1>1. /\ item \in Item /\ produced \in Nat /\ lo \in Nat /\ lo <= produced
        /\ delivered \in Elt /\ DataQueue(item) /\ Rising(item.queue, lo, produced)
    BY DEF ItemInv, ItemTypeOK, Elt
  <1>2. /\ produced' = produced + 1 /\ item' = AddData(item, produced + 1)
        /\ available' = UpdateAvailable(n, m, b, a)
        /\ aborted' = ~BitNeedsValue(item, item'.queue)
    BY DEF AddFirst
  <1> HIDE DEF lo
  <1>3. item' \in Item /\ BitNeedsValue(item, item'.queue)
    BY <1>1, <1>2, AddDataQueue
  <1>4. a \in Nat /\ b \in Nat /\ n = IF m = "reporting" THEN b ELSE 0
    BY <1>1, <1>3 DEF Item
  <1> HIDE DEF a, b, m
  <1>5. available' = IF m = "reporting" THEN a ELSE 0
    <2>1. available' = UpdateAvailable(n, m, b, a)
      BY <1>2
    <2>2. UpdateAvailable(n, m, b, a) = IF m = "reporting" THEN a ELSE 0
      BY <1>4 DEF UpdateAvailable
    <2> QED BY <2>1, <2>2
  <1>6. available' = (IF mode' = "reporting" THEN Len(item'.queue) ELSE 0) /\ ~aborted'
    BY <1>2, <1>3, <1>5 DEF a, m
  <1> QED BY <1>2, <1>6, DataAddedInv

\* The queue of an item that is disabled goes, and the overflow event with it.
LEMMA DisabledInv ==
  ASSUME ItemInv, mode' = "disabled", item' = ClearQueue(item), available' = 0,
         delivered' = Element("value", produced),
         dropped' = dropped + Cardinality(OverflowIndexes(item.queue)),
         UNCHANGED <<aborted, produced, lost, overflows>>
  PROVE  ItemInv'
  <1> DEFINE k == Cardinality(OverflowIndexes(item.queue))
  <1>1. /\ item \in Item /\ produced \in Nat /\ lost \in BOOLEAN /\ item.queue \in Seq(Elt)
        /\ overflows \in Nat /\ dropped \in Nat /\ item.size \in Sizes /\ item.size \in Nat /\ ~aborted
    BY DEF ItemInv, ItemTypeOK, Item
  <1>2. /\ item' \in Item /\ item'.queue = <<>> /\ item'.event = item.event
        /\ item'.size = item.size /\ item'.triggered = item.triggered
    <2>1. <<>> \in Seq(Elt)
      OBVIOUS
    <2> QED BY <1>1, <2>1 DEF ClearQueue, Item
  <1>3. delivered' \in Elt /\ delivered'.val = produced
    BY <1>1, OverflowElt
  <1>4. k \in Nat
    <2>1. \A i, j \in OverflowIndexes(item.queue) : i = j
      BY DEF ItemInv, EventQueue, EventCore, OneOverflow, DataQueue, OverflowIndexes
    <2> QED BY <1>1, <2>1, OverflowCount
  <1>5. ItemTypeOK'
    <2>1. dropped' \in Nat
      BY <1>1, <1>4
    <2> QED BY <1>1, <1>2, <1>3, <2>1 DEF ItemTypeOK, Modes
  <1>6. OverflowIndexes(item'.queue) = {} /\ Cardinality(OverflowIndexes(item'.queue)) = 0
    <2>1. OverflowIndexes(item'.queue) = {}
      BY <1>2 DEF OverflowIndexes
    <2> QED BY <2>1, FS_EmptySet, Zenon
  <1>7. item.event => EventQueue(item', produced') /\ EventCount'
    <2> HAVE item.event
    <2>1. EventQueue(item', produced')
      BY <1>1, <1>2, <1>6 DEF EventQueue, EventCore, OneOverflow
    <2>2. /\ lost = item.triggered
          /\ overflows + dropped + k = (IF item.triggered THEN 1 ELSE 0)
      BY DEF ItemInv, EventCount
    <2> HIDE DEF k
    <2>3. dropped' = dropped + k
      BY DEF k
    <2>4. overflows' + dropped' + Cardinality(OverflowIndexes(item'.queue))
            = (IF item.triggered THEN 1 ELSE 0)
      BY <1>1, <1>4, <1>6, <2>2, <2>3
    <2> QED BY <1>2, <2>1, <2>2, <2>4 DEF EventCount
  <1>8. Rising(item'.queue, delivered'.val, produced')
    BY <1>2 DEF Rising
  <1>9. DataQueue(item') /\ Signalled(item'.queue, delivered', produced')
    BY <1>1, <1>2, <1>3 DEF DataQueue, Signalled, At
  <1>10. /\ available' = IF mode' = "reporting" THEN Len(item'.queue) ELSE 0
         /\ delivered'.val <= produced' /\ ~aborted' /\ item'.size \in Sizes
    BY <1>1, <1>2, <1>3
  <1> QED BY <1>2, <1>5, <1>7, <1>8, <1>9, <1>10 DEF ItemInv

\* SetMonitoringMode keeps the invariant.
LEMMA SetMonitoringModeInv ==
  ASSUME EventOps = {}, ItemInv, NEW m \in Modes, SetMonitoringMode(m)
  PROVE  ItemInv'
  <1>1. /\ item \in Item /\ produced \in Nat /\ delivered \in Elt /\ lost \in BOOLEAN
        /\ overflows \in Nat /\ dropped \in Nat /\ Len(item.queue) \in Nat
    BY DEF ItemInv, ItemTypeOK, Item
  <1>2. Recounted(m) = IF m = "reporting" THEN Len(item.queue) ELSE 0
    BY RecountedExact
  <1>3. mode' = m /\ UNCHANGED <<lost, overflows>>
    BY DEF SetMonitoringMode
  <1>4. CASE (item.event => "mode" \in EventOps) /\ AddFirst(item, Recounted(m))
             /\ UNCHANGED <<delivered, dropped>>
    BY <1>2, <1>3, <1>4, AddFirstInv
  <1>5. CASE /\ m = "disabled" /\ item' = ClearQueue(item)
             /\ available' = UpdateAvailable(Recounted(m), m, Len(item.queue), 0)
             /\ delivered' = Element("value", produced)
             /\ dropped' = dropped + Cardinality(OverflowIndexes(item.queue))
             /\ UNCHANGED <<aborted, produced>>
    <2>1. available' = 0
      BY <1>2, <1>5 DEF UpdateAvailable
    <2> QED BY <1>3, <1>5, <2>1, DisabledInv
  <1>6. CASE available' = Recounted(m) /\ UNCHANGED <<item, aborted, produced, delivered, dropped>>
    <2>1. available' \in Nat /\ available' = IF mode' = "reporting" THEN Len(item'.queue) ELSE 0
      BY <1>1, <1>2, <1>3, <1>6
    <2>2. ItemTypeOK'
      BY <1>1, <1>3, <1>6, <2>1 DEF ItemTypeOK
    <2>3. item.event => EventCount'
      BY <1>3, <1>6 DEF ItemInv, EventCount
    <2> QED BY <1>6, <2>1, <2>2, <2>3 DEF ItemInv
  <1> QED BY <1>4, <1>5, <1>6 DEF SetMonitoringMode

\* NodeChanged keeps the invariant.
LEMMA NodeChangedInv ==
  ASSUME EventOps = {}, ItemInv, NodeChanged
  PROVE  ItemInv'
  <1>1. /\ ~item.event /\ mode' = mode /\ mode \in Modes
        /\ available = IF mode = "reporting" THEN Len(item.queue) ELSE 0
        /\ AddFirst(item, available) /\ UNCHANGED <<delivered, lost, overflows, dropped>>
    BY DEF NodeChanged, ItemInv, ItemTypeOK
  <1> QED BY <1>1, AddFirstInv

\* ModifyItem keeps the invariant.
LEMMA ModifyItemInv ==
  ASSUME ItemInv, NEW n \in Sizes, NEW o \in BOOLEAN, ModifyItem(n, o)
  PROVE  ItemInv'
  <1> DEFINE lo == delivered.val
             q == item.queue
             it == [item EXCEPT !.size = n, !.oldest = o]
  <1>1. /\ item \in Item /\ produced \in Nat /\ lo \in Nat /\ lo <= produced
        /\ delivered \in Elt /\ Rising(q, lo, produced) /\ Len(q) \in Nat
        /\ lost \in BOOLEAN /\ overflows \in Nat /\ dropped \in Nat /\ mode \in Modes /\ ~aborted
        /\ item.event => EventQueue(item, produced) /\ EventCount
        /\ ~item.event => /\ DataQueue(item)
                          /\ 1 \notin Sizes => Signalled(q, delivered, produced)
        /\ available = IF mode = "reporting" THEN Len(q) ELSE 0
    BY DEF ItemInv, ItemTypeOK, Elt, Item
  <1>2. /\ item' = IF item.event THEN ResizeEvent(it) ELSE ResizeData(it)
        /\ available' = UpdateAvailable(available, mode, Len(q), Len(item'.queue))
        /\ lost' = (lost \/ (item.event /\ Loses(q, item'.queue, produced) /\ q # <<>>))
        /\ UNCHANGED <<mode, aborted, produced, delivered, overflows, dropped>>
    BY DEF ModifyItem, Modify
  <1>3. /\ it \in Item /\ it.size = n /\ it.queue = q /\ it.event = item.event
        /\ it.triggered = item.triggered /\ n \in Nat \ {0}
    BY <1>1, ItemAssumption DEF Item
  <1> HIDE DEF it, lo
  <1>4. ASSUME item' \in Item
        PROVE  /\ available' = IF mode' = "reporting" THEN Len(item'.queue) ELSE 0
               /\ available' \in Nat
    <2>1. Len(item'.queue) \in Nat
      BY <1>4 DEF Item
    <2> DEFINE a == Len(item'.queue)
               b == Len(q)
    <2>2. /\ available' = UpdateAvailable(available, mode, b, a) /\ a \in Nat /\ b \in Nat
          /\ available = IF mode = "reporting" THEN b ELSE 0
      BY <1>1, <1>2, <2>1
    <2> HIDE DEF a, b
    <2>3. available' = IF mode = "reporting" THEN a ELSE 0
      BY <2>2, AvailableUpdated
    <2> QED BY <1>2, <2>1, <2>3 DEF a
  <1>5. CASE item.event
    <2>1. item' = ResizeEvent(it)
      BY <1>2, <1>5
    <2>2. EventCore(it, produced) /\ Rising(it.queue, lo, produced)
      BY <1>1, <1>3, <1>5 DEF EventQueue, EventCore, OneOverflow
    <2> DEFINE ls == Loses(it.queue, item'.queue, produced) /\ it.queue # <<>>
    <2>3. /\ item' \in Item /\ item'.event = it.event
          /\ EventQueue(item', produced)
          /\ Rising(item'.queue, lo, produced)
          /\ EventStep(it, item', ls)
      BY <1>1, <1>3, <2>1, <2>2, ResizeEventQueue
    <2>4. item'.size = n
      BY <1>3, <2>1 DEF ResizeEvent, Item
    <2>5. ls \in BOOLEAN /\ lost' = (item.triggered \/ ls) /\ item.triggered \in BOOLEAN
      BY <1>1, <1>2, <1>3, <1>5 DEF Loses, EventCount, Item
    <2> HIDE DEF ls
    <2>6. \/ item'.triggered = item.triggered
             /\ (OverflowIndexes(item'.queue) # {}) = (OverflowIndexes(item.queue) # {}) /\ ~ls
          \/ ~item.triggered /\ item'.triggered /\ OverflowIndexes(item'.queue) # {} /\ ls
          \/ item.triggered /\ item'.triggered
             /\ (OverflowIndexes(item'.queue) # {}) = (OverflowIndexes(item.queue) # {})
      BY <1>3, <2>3 DEF EventStep
    <2>7. EventStep(item, item', ls)
      BY <2>6 DEF EventStep
    <2>8. /\ (item.triggered \/ ls) = item'.triggered
          /\ overflows + dropped + Cardinality(OverflowIndexes(item'.queue)) = (IF item'.triggered THEN 1 ELSE 0)
      <3> DEFINE k == overflows + dropped
      <3>1. k \in Nat /\ k + Cardinality(OverflowIndexes(item.queue)) = (IF item.triggered THEN 1 ELSE 0)
        BY <1>1, <1>5 DEF EventCount
      <3> HIDE DEF k
      <3>2. /\ (item.triggered \/ ls) = item'.triggered
            /\ k + Cardinality(OverflowIndexes(item'.queue)) = (IF item'.triggered THEN 1 ELSE 0)
        BY <1>1, <1>5, <2>3, <2>5, <2>7, <3>1, EventCounted
      <3> QED BY <3>2 DEF k
    <2>9. EventCount' /\ lost' \in BOOLEAN
      BY <1>2, <2>5, <2>8 DEF EventCount
    <2>10. ItemTypeOK'
      BY <1>1, <1>2, <1>4, <2>3, <2>9 DEF ItemTypeOK
    <2>11. delivered'.val <= produced' /\ Rising(item'.queue, delivered'.val, produced')
      BY <1>1, <1>2, <2>3 DEF lo
    <2> QED BY <1>1, <1>2, <1>3, <1>4, <1>5, <2>3, <2>4, <2>9, <2>10, <2>11 DEF ItemInv
  <1>6. CASE ~item.event
    <2>1. item' = ResizeData(it) /\ lost' = lost
      BY <1>1, <1>2, <1>6
    <2>2. ~it.event /\ Values(it.queue) /\ Rising(it.queue, lo, produced)
      BY <1>1, <1>3, <1>6 DEF DataQueue, Values
    <2>3. /\ item' \in Item /\ ~item'.event /\ DataQueue(item') /\ item'.size = it.size
          /\ Rising(item'.queue, lo, produced)
          /\ it.size # 1 /\ Signalled(it.queue, delivered, produced)
               => Signalled(item'.queue, delivered, produced)
      BY <1>1, <1>3, <2>1, <2>2, ResizeDataQueue
    <2>4. 1 \notin Sizes => Signalled(item'.queue, delivered', produced')
      <3>1. ASSUME 1 \notin Sizes
            PROVE  it.size # 1 /\ Signalled(it.queue, delivered, produced)
        BY <1>1, <1>3, <1>6, <3>1
      <3> QED BY <1>2, <2>3, <3>1
    <2>5. ItemTypeOK'
      BY <1>1, <1>2, <1>4, <2>1, <2>3 DEF ItemTypeOK
    <2>6. delivered'.val <= produced' /\ Rising(item'.queue, delivered'.val, produced')
      BY <1>1, <1>2, <2>3 DEF lo
    <2> QED BY <1>1, <1>2, <1>3, <1>4, <2>3, <2>4, <2>5, <2>6 DEF ItemInv
  <1> QED BY <1>5, <1>6

\* Publish keeps the invariant.
LEMMA PublishInv ==
  ASSUME ItemInv, NEW n, Publish(n)
  PROVE  ItemInv'
  <1> DEFINE q == item.queue
             r == item'.queue
             d == delivered
  <1>1. /\ item \in Item /\ produced \in Nat /\ d.val \in Nat /\ d.val <= produced
        /\ d \in Elt /\ Rising(q, d.val, produced) /\ q \in Seq(Elt) /\ Len(q) \in Nat
        /\ lost \in BOOLEAN /\ overflows \in Nat /\ dropped \in Nat /\ mode \in Modes /\ ~aborted
        /\ item.size \in Sizes /\ item.size \in Nat
        /\ item.event => EventQueue(item, produced) /\ EventCount
        /\ ~item.event => /\ DataQueue(item)
                          /\ 1 \notin Sizes => Signalled(q, d, produced)
        /\ available = IF mode = "reporting" THEN Len(q) ELSE 0
        /\ item.event \in BOOLEAN
    BY DEF ItemInv, ItemTypeOK, Elt, Item
  <1>2. /\ mode = "reporting" /\ n \in 1..Len(q) /\ item' = PopN(item, n)
        /\ available' = available - n
        /\ UNCHANGED <<mode, aborted, produced, lost, dropped>>
    BY DEF Publish
  <1>3. /\ delivered' = Left(q, n, d)
        /\ overflows' = overflows + Cardinality(OverflowIndexes(q) \cap 1..n)
    BY DEF Publish, Left
  <1>4. n \in Nat /\ n > 0 /\ n <= Len(q) /\ n \in 0..Len(q)
    BY <1>1, <1>2
  <1>5. /\ SubSeq(q, n + 1, Len(q)) \in Seq(Elt) /\ Len(SubSeq(q, n + 1, Len(q))) = Len(q) - n
        /\ \A i \in 1..(Len(q) - n) : SubSeq(q, n + 1, Len(q))[i] = q[n + i]
    <2> HIDE DEF q
    <2> QED BY <1>1, <1>4, SplitSeq
  <1>6. /\ item' \in Item /\ r = SubSeq(q, n + 1, Len(q)) /\ item'.event = item.event
        /\ item'.size = item.size /\ item'.triggered = item.triggered
    BY <1>1, <1>2, <1>5 DEF PopN, Item
  <1> HIDE DEF q, r, d
  <1>7. r \in Seq(Elt) /\ Len(r) + n = Len(q) /\ \A i \in 1..Len(r) : r[i] = q[n + i]
    <2>1. r \in Seq(Elt) /\ Len(r) = Len(q) - n /\ \A i \in 1..(Len(q) - n) : r[i] = q[n + i]
      BY <1>5, <1>6
    <2> QED BY <1>1, <1>4, <2>1
  <1>8. \A i, j \in OverflowIndexes(q) : i = j
    BY <1>1 DEF EventQueue, EventCore, OneOverflow, DataQueue, OverflowIndexes, q
  <1>9. /\ delivered' \in Elt /\ delivered'.val <= produced /\ Rising(r, delivered'.val, produced)
        /\ OverflowIndexes(q) = {} => delivered' = q[n]
        /\ \A i, j \in OverflowIndexes(r) : i = j
        /\ Cardinality(OverflowIndexes(q) \cap 1..n) \in Nat
        /\ Cardinality(OverflowIndexes(q) \cap 1..n) + Cardinality(OverflowIndexes(r))
             = Cardinality(OverflowIndexes(q))
        /\ OverflowIndexes(q) = {} => OverflowIndexes(r) = {}
    <2> DEFINE x == delivered'
    <2>1. x = Left(q, n, d)
      BY <1>3
    <2>2. q \in Seq(Elt) /\ n \in 1..Len(q) /\ d \in Elt /\ produced \in Nat
      BY <1>1, <1>2
    <2>3. Rising(q, d.val, produced) /\ d.val <= produced
      BY <1>1
    <2> HIDE DEF x
    <2>4. AfterPublish(q, n, r, x, produced)
      BY <1>7, <1>8, <2>1, <2>2, <2>3, PublishQueue
    <2>5. AfterPublish(q, n, r, delivered', produced)
      BY <2>4 DEF x
    <2> QED BY <2>5 DEF AfterPublish
  <1>10. Cardinality(OverflowIndexes(r)) \in Nat
    BY <1>7, <1>9, OverflowCount
  <1>11. available' = Len(r) /\ available' \in Nat /\ overflows' \in Nat
    BY <1>1, <1>2, <1>3, <1>4, <1>7, <1>9
  <1>12. ItemTypeOK'
    BY <1>1, <1>2, <1>6, <1>9, <1>11 DEF ItemTypeOK
  <1>13. ASSUME item.event
         PROVE  EventQueue(item', produced) /\ EventCount'
    <2>1. /\ \A i \in 1..Len(q) : q[i].kind # "value"
          /\ q[Len(q)].kind = "event" /\ q[Len(q)].val = produced
          /\ Len(q) <= item.size + 1
          /\ ~item.triggered => OverflowIndexes(q) = {}
      <3>1. item.queue # <<>>
        BY <1>1, <1>4 DEF q
      <3> QED BY <1>1, <1>13, <3>1 DEF EventQueue, EventCore, OneOverflow, q
    <2>2. \A i \in 1..Len(r) : n + i \in 1..Len(q)
      BY <1>1, <1>4, <1>7
    <2>3. \A i \in 1..Len(r) : r[i].kind # "value"
      BY <1>7, <2>1, <2>2
    <2>4. ASSUME r # <<>>
          PROVE  r[Len(r)].kind = "event" /\ r[Len(r)].val = produced
      <3>1. Len(r) \in 1..Len(r) /\ n + Len(r) = Len(q)
        BY <1>4, <1>7, <2>4
      <3> QED BY <1>7, <2>1, <3>1
    <2>5. Len(r) <= item.size + 1 /\ Len(r) # item.size + 1
      BY <1>1, <1>4, <1>7, <2>1
    <2>6. OneOverflow(item')
      BY <1>6, <1>9, <2>1 DEF OneOverflow, r
    <2>7. EventQueue(item', produced)
      BY <1>6, <2>3, <2>4, <2>5, <2>6 DEF EventQueue, EventCore, r
    <2>8. overflows' + dropped + Cardinality(OverflowIndexes(r))
            = overflows + dropped + Cardinality(OverflowIndexes(q))
      BY <1>1, <1>3, <1>9, <1>10
    <2>9. EventCount'
      BY <1>1, <1>2, <1>6, <1>13, <2>8 DEF EventCount, q, r
    <2> QED BY <2>7, <2>9
  <1>14. ASSUME ~item.event
         PROVE  /\ DataQueue(item')
                /\ 1 \notin Sizes => Signalled(r, delivered', produced)
    <2>1. Values(q) /\ Len(q) <= item.size
      BY <1>1, <1>14 DEF DataQueue, Values, q
    <2>2. OverflowIndexes(q) = {}
      BY <2>1 DEF OverflowIndexes, Values
    <2>3. delivered' = q[n]
      BY <1>9, <2>2
    <2>4. \A i \in 1..Len(r) : n + i \in 1..Len(q)
      BY <1>1, <1>4, <1>7
    <2>5. Values(r) /\ Len(r) <= item.size
      BY <1>1, <1>4, <1>7, <2>1, <2>4 DEF Values
    <2>6. DataQueue(item')
      BY <1>6, <2>5 DEF DataQueue, Values, r
    <2>7. Signalled(q, d, produced) => Signalled(r, q[n], produced)
      BY <1>1, <1>2, <1>7, SignalPublish
    <2> QED BY <1>1, <1>14, <2>3, <2>6, <2>7
  <1> QED BY <1>1, <1>2, <1>6, <1>9, <1>11, <1>12, <1>13, <1>14 DEF ItemInv, r

-----------------------------------------------------------------------------
(* Theorems.  Nothing puts a value in the queue of an event item           *)
(* (EventOps = {}).                                                        *)

\* The invariant holds in every behaviour.
LEMMA ItemInvariant ==
  ASSUME EventOps = {}
  PROVE  ItemSpec => []ItemInv
  <1>1. Init => ItemInv
    BY InitInv
  <1>2. ItemInv /\ [Next]_vars => ItemInv'
    <2> SUFFICES ASSUME ItemInv, [Next]_vars PROVE ItemInv'
      OBVIOUS
    <2>1. CASE Notify
      BY <2>1, NotifyInv
    <2>2. CASE \E m \in Modes : SetMonitoringMode(m)
      BY <2>2, SetMonitoringModeInv
    <2>3. CASE NodeChanged
      BY <2>3, NodeChangedInv
    <2>4. CASE \E n \in Sizes, o \in BOOLEAN : ModifyItem(n, o)
      BY <2>4, ModifyItemInv
    <2>5. CASE \E n \in 1..Len(item.queue) : Publish(n)
      BY <2>5, PublishInv
    <2>6. CASE UNCHANGED vars
      BY <2>6 DEF vars, ItemInv, ItemTypeOK, EventCount
    <2> QED BY <2>1, <2>2, <2>3, <2>4, <2>5, <2>6 DEF Next
  <1> QED BY <1>1, <1>2, PTL DEF ItemSpec

\* The notifications of a queue without the overflow event fit its size.
LEMMA RealFits ==
  ASSUME ItemInv
  PROVE  Len(item.queue) <= Capacity(item) /\ Cardinality(Real) <= item.size
  <1> DEFINE q == item.queue
             L == Len(q)
             O == OverflowIndexes(q)
             n == item.size
  <1>1. q \in Seq(Elt) /\ L \in Nat /\ n \in Nat /\ O \subseteq 1..L /\ item.event \in BOOLEAN
    BY DEF ItemInv, ItemTypeOK, Item, OverflowIndexes
  <1>2. IsFiniteSet(1..L) /\ Cardinality(1..L) = L
    <2>1. \A a, b \in Int : /\ IsFiniteSet(a..b)
                            /\ Cardinality(a..b) = IF a > b THEN 0 ELSE b - a + 1
      BY FS_Interval
    <2> HIDE DEF L
    <2>2. 1 \in Int /\ L \in Int
      BY <1>1
    <2>3. IsFiniteSet(1..L) /\ Cardinality(1..L) = IF 1 > L THEN 0 ELSE L - 1 + 1
      BY <2>1, <2>2, Zenon
    <2>4. (IF 1 > L THEN 0 ELSE L - 1 + 1) = L
      BY <1>1
    <2> QED BY <2>3, <2>4
  <1>3. \A i, j \in O : i = j
    BY DEF ItemInv, EventQueue, EventCore, OneOverflow, DataQueue, OverflowIndexes
  <1>4. Real = (1..L) \ O
    BY DEF Real
  <1>5. Cardinality(Real) = IF O = {} THEN L ELSE L - 1
    <2> HIDE DEF O, L
    <2>1. CASE O = {}
      <3>1. Real = 1..L
        BY <1>4, <2>1
      <3> QED BY <1>2, <2>1, <3>1
    <2>2. CASE O # {}
      <3>1. PICK p \in O : O = {p}
        BY <1>3, <2>2
      <3>2. Real = (1..L) \ {p} /\ p \in 1..L
        BY <1>1, <1>4, <3>1
      <3>3. Cardinality((1..L) \ {p}) = Cardinality(1..L) - 1
        BY <1>2, <3>2, FS_RemoveElement
      <3> QED BY <1>2, <2>2, <3>2, <3>3
    <2> QED BY <2>1, <2>2
  <1>6. CASE item.event
    <2>1. L <= n + 1 /\ (L = n + 1 => O # {}) /\ Capacity(item) = n + 1
      BY <1>6 DEF ItemInv, EventQueue, Capacity
    <2> HIDE DEF L, n, O
    <2>2. CASE O = {}
      <3>1. L <= n /\ Cardinality(Real) = L
        BY <1>1, <1>5, <2>1, <2>2
      <3> QED BY <2>1, <3>1 DEF L, n
    <2>3. CASE O # {}
      <3>0. L \in Nat /\ n \in Nat /\ L <= n + 1
        BY <1>1, <2>1
      <3>1. L - 1 <= n
        BY <3>0
      <3>2. Cardinality(Real) = L - 1
        BY <1>5, <2>3
      <3> QED BY <2>1, <3>1, <3>2 DEF L, n
    <2> QED BY <2>2, <2>3
  <1>7. CASE ~item.event
    <2>1. L <= n /\ Capacity(item) = n
      BY <1>7 DEF ItemInv, DataQueue, Capacity
    <2> HIDE DEF L, n, O
    <2>2. Cardinality(Real) <= n
      BY <1>1, <1>5, <2>1
    <2> QED BY <2>1, <2>2 DEF L, n
  <1> QED BY <1>6, <1>7

\* AvailExact: the incremental count of the notifications of an item
\* (local_update_available_notifs) is exact, and no queue outgrows its size,
\* for every size and any history of notifications, resizes, mode changes and
\* partial publish responses.
THEOREM CountExact ==
  ASSUME EventOps = {}
  PROVE  ItemSpec => []AvailExact
  <1>1. ItemInv => AvailExact
    BY RealFits DEF ItemInv, AvailExact
  <1> QED BY <1>1, ItemInvariant, PTL

\* InOrder: notifications leave once and in the order they were produced.
THEOREM OrderKept ==
  ASSUME EventOps = {}
  PROVE  ItemSpec => []InOrder
  <1>1. ItemInv => InOrder
    BY DEF ItemInv, InOrder, Rising, Real, OverflowIndexes
  <1> QED BY <1>1, ItemInvariant, PTL

\* NewestKept: the newest event is the last of the queue of an event item,
\* also after resize_event_notif_queue discarded the newest ones.
THEOREM NewestStays ==
  ASSUME EventOps = {}
  PROVE  ItemSpec => []NewestKept
  <1>1. ItemInv => NewestKept
    BY DEF ItemInv, NewestKept, EventQueue, EventCore, Last
  <1> QED BY <1>1, ItemInvariant, PTL

\* OverflowOnce: queueOverflowEventTriggered makes the overflow event unique,
\* and once an event was discarded no discard, resize or partial publish loses
\* it; only disabling the item does, for good.
THEOREM OverflowReported ==
  ASSUME EventOps = {}
  PROVE  ItemSpec => []OverflowOnce
  <1>1. ItemInv => OverflowOnce
    BY DEF ItemInv, OverflowOnce, EventCount
  <1> QED BY <1>1, ItemInvariant, PTL

\* LossSignalled: with queues of more than one value (a queue of one carries
\* no overflow bit), a value that no client will see leaves a bit next to it.
THEOREM LossAlwaysSignalled ==
  ASSUME EventOps = {}, 1 \notin Sizes
  PROVE  ItemSpec => []LossSignalled
  <1>1. ItemInv => LossSignalled
    <2> SUFFICES ASSUME ItemInv, ~item.event, NEW i \in 1..(Len(Chain) - 1),
                        Chain[i + 1].val > Chain[i].val + 1
                 PROVE  Chain[i].bit \/ Chain[i + 1].bit
      BY DEF LossSignalled
    <2> DEFINE q == item.queue
               d == delivered
               c == <<d>> \o q
    <2>0. q \in Seq(Elt) /\ d \in Elt /\ Len(q) \in Nat /\ Signalled(q, d, produced)
      BY DEF ItemInv, ItemTypeOK, Item
    <2>1. Chain = c
      BY DEF Chain
    <2> HIDE DEF q, d
    <2>2. /\ Len(c) = Len(q) + 1 /\ c[1] = d
          /\ \A n \in 2..(Len(q) + 1) : c[n] = q[n - 1]
      BY <2>0, ConsSeq
    <2> HIDE DEF c
    <2>3. i \in 1..Len(q) /\ i + 1 \in 2..(Len(q) + 1) /\ (i + 1) - 1 = i
      BY <2>0, <2>1, <2>2
    <2>4. c[i + 1] = q[i]
      BY <2>2, <2>3
    <2>5. c[i] = At(d, q, i - 1)
      <3>1. CASE i = 1
        BY <2>2, <3>1 DEF At
      <3>2. CASE i # 1
        <4>1. i \in 2..(Len(q) + 1) /\ i - 1 # 0
          BY <2>0, <2>3, <3>2
        <4> QED BY <2>2, <4>1 DEF At
      <3> QED BY <3>1, <3>2
    <2> QED BY <2>0, <2>1, <2>3, <2>4, <2>5 DEF Signalled
  <1> QED BY <1>1, ItemInvariant, PTL
=============================================================================
