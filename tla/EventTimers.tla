----------------------------- MODULE EventTimers -----------------------------
(***************************************************************************)
(* Common/helpers/sopc_event_timer_manager.c: the timers that every other  *)
(* part of the toolkit relies on for its timeouts, kept in one list sorted *)
(* by expiry time, walked by a thread of its own, and named by identifiers *)
(* that are used again, the oldest first, as soon as a timer has fired or  *)
(* has been cancelled.                                                     *)
(*                                                                         *)
(* The holders are the code that starts timers.  They keep the identifier  *)
(* and give it back to Cancel; the expiry reaches them through the queue   *)
(* of their looper, later.  OneShots are the connection and the session    *)
(* timers, whose handler forgets the identifier; Requests are the request  *)
(* timers, whose handler marks the request as expired and keeps it until   *)
(* the answer comes or the connection is closed; Periodics are the cycles  *)
(* of the subscriptions.                                                   *)
(*                                                                         *)
(* Each function works under timersMutex and is one step, but Create reads *)
(* the time before it takes the mutex.                                     *)
(***************************************************************************)
EXTENDS Integers, SequencesExt, Lists

CONSTANTS
  OneShots, Requests, Periodics,  \* holders, by the way they use their timer
  Delays,                         \* delays and periods that are asked for
  LoopLimit,                      \* SOPC_TIMER_RESOLUTION_MS, as a number of events
  UINT32_MAX,                     \* largest identifier
  OutOfMemory,                    \* the cases explored: the lists may fail to grow, or not
  MaxTime, MaxPosted              \* bounds: time, events not yet treated

Holders == OneShots \cup Requests \cup Periodics

ASSUME EventTimersAssumption ==
  /\ Delays \subseteq Nat \ {0}
  /\ LoopLimit \in Nat \ {0} /\ UINT32_MAX \in Nat \ {0}
  /\ MaxTime \in Nat /\ MaxPosted \in Nat /\ OutOfMemory \subseteq BOOLEAN
  /\ OneShots \cap Requests = {} /\ Periodics \cap (OneShots \cup Requests) = {}

VARIABLES
  now,             \* SOPC_TimeReference_GetCurrent()
  timers,          \* the list, sorted by endTime
  timerIdsFreed,   \* identifiers to use again, the oldest first
  timerIdMax,      \* identifiers above were never given
  creating,        \* calls of Create that have read the time
  held,            \* identifier each holder keeps, 0 when none
  expired,         \* timeoutExpired of the requests
  posted,          \* expiry events each holder has not treated yet
  outOfMemory      \* whether the lists may fail to grow, once and for all

vars == <<now, timers, timerIdsFreed, timerIdMax, creating, held, expired, posted, outOfMemory>>

-----------------------------------------------------------------------------
(* SOPC_EventTimer and the list.  holder stands for eventHandler and event. *)
Timer(id, h, endTime, periodMs) ==
  [id |-> id, holder |-> h, endTime |-> endTime, isPeriodicTimer |-> h \in Periodics,
   periodMs |-> periodMs]

NotCreating == [endTime |-> 0, periodMs |-> 0]

\* Mutant: first or last, without a search.
SortedInsertAtEnd(list, t) ==
  IF list # <<>> /\ t.endTime < list[1].endTime THEN <<t>> \o list ELSE Append(list, t)

\* SOPC_SLinkedList_SortedInsert: before the first timer that expires later.
SortedInsert(list, t) ==
  LET Later(k) == k = Len(list) + 1 \/ t.endTime < list[k].endTime
      first == CHOOSE k \in 1..(Len(list) + 1) : Later(k) /\ \A j \in 1..(k - 1) : ~Later(j)
  IN  InsertAt(list, first, t)

WithoutId(list, id) == Only(list, {t \in Range(list) : t.id # id})
HasId(list, id) == \E n \in 1..Len(list) : list[n].id = id
Ids(list) == [n \in 1..Len(list) |-> list[n].id]

\* What may go wrong with the elements of S when a list cannot grow.
MayFail(S) == IF outOfMemory THEN SUBSET S ELSE {{}}

\* Identifiers ids are given back; those that cannot be recorded are lost.
GiveBack(ids) ==
  \E leaked \in MayFail(Range(ids)) :
    timerIdsFreed' = timerIdsFreed \o Only(ids, Range(ids) \ leaked)

-----------------------------------------------------------------------------
(* SOPC_InternalEventTimer_Create, in two steps: before and under the lock. *)

CreateReadsTime(h, delay) ==
  /\ held[h] = 0 /\ creating[h] = NotCreating
  /\ h \in Requests => posted[h] = 0    \* a late event names a request that is over
  /\ now + delay <= MaxTime
  /\ creating' = [creating EXCEPT ![h] = [endTime |-> now + delay, periodMs |-> delay]]
  /\ UNCHANGED <<now, timers, timerIdsFreed, timerIdMax, held, expired, posted, outOfMemory>>

\* SOPC_Internal_GetFreshTimerId_WithoutLock; 0 when there is none left.
FreshTimerId ==
  IF timerIdsFreed # <<>> THEN Head(timerIdsFreed)
  ELSE IF timerIdMax < UINT32_MAX THEN timerIdMax + 1 ELSE 0

\* Mutant: an identifier is taken from the freed ones and stays there.
TakeFreshTimerIdNotPopped ==
  IF timerIdsFreed # <<>>
  THEN UNCHANGED <<timerIdsFreed, timerIdMax>>
  ELSE timerIdMax' = (IF timerIdMax < UINT32_MAX THEN timerIdMax + 1 ELSE timerIdMax)
       /\ UNCHANGED timerIdsFreed

TakeFreshTimerId ==
  IF timerIdsFreed # <<>>
  THEN timerIdsFreed' = Tail(timerIdsFreed) /\ UNCHANGED timerIdMax
  ELSE timerIdMax' = (IF timerIdMax < UINT32_MAX THEN timerIdMax + 1 ELSE timerIdMax)
       /\ UNCHANGED timerIdsFreed

Create(h) ==
  LET id == FreshTimerId
      c  == creating[h]
  IN
  /\ c # NotCreating
  /\ creating' = [creating EXCEPT ![h] = NotCreating]
  /\ \/ /\ id # 0
        /\ TakeFreshTimerId
        /\ timers' = SortedInsert(timers, Timer(id, h, c.endTime, c.periodMs))
        /\ held' = [held EXCEPT ![h] = id]
     \/ /\ id = 0
        /\ UNCHANGED <<timers, timerIdsFreed, timerIdMax, held>>
     \/ /\ id # 0 /\ outOfMemory        \* the identifier goes to the freed ones
        /\ timerIdMax' = IF timerIdsFreed = <<>> THEN id ELSE timerIdMax
        /\ timerIdsFreed' \in LET rest == IF timerIdsFreed = <<>> THEN <<>> ELSE Tail(timerIdsFreed)
                              IN  {rest, Append(rest, id)}
        /\ UNCHANGED <<timers, held>>
  /\ expired' = [expired EXCEPT ![h] = FALSE]
  /\ UNCHANGED <<now, posted, outOfMemory>>

\* SOPC_EventTimer_ModifyPeriodic: a period that is too short is refused.
ModifyPeriodic(h, period) ==
  /\ held[h] # 0
  /\ timers' = [n \in 1..Len(timers) |->
                  IF timers[n].id = held[h] /\ timers[n].isPeriodicTimer
                  THEN [timers[n] EXCEPT !.periodMs = period] ELSE timers[n]]
  /\ UNCHANGED <<now, timerIdsFreed, timerIdMax, creating, held, expired, posted, outOfMemory>>

\* SOPC_EventTimer_Cancel, of the timer whose identifier holder h has kept.
Cancel(h) ==
  /\ held[h] # 0
  /\ timers' = WithoutId(timers, held[h])
  /\ IF HasId(timers, held[h]) THEN GiveBack(<<held[h]>>) ELSE UNCHANGED timerIdsFreed
  /\ held' = [held EXCEPT ![h] = 0]
  /\ UNCHANGED <<now, timerIdMax, creating, expired, posted, outOfMemory>>

-----------------------------------------------------------------------------
(* SOPC_EventTimer_CyclicTimersEvaluation                                  *)

\* The timers that the walk treats: it stops at the first one in the future.
Due ==
  LET Stop(k) == k = Len(timers) + 1 \/ timers[k].endTime > now
      first == CHOOSE k \in 1..(Len(timers) + 1) : Stop(k) /\ \A j \in 1..(k - 1) : ~Stop(j)
  IN  SubSeq(timers, 1, first - 1)

\* Events posted for timer t: the missed ones of a periodic timer too, up to
\* a limit; those above the limit wait for the next evaluation.
EventsOf(t) ==
  IF t.isPeriodicTimer THEN Min({1 + LoopLimit, 1 + (now - t.endTime) \div t.periodMs}) ELSE 1

Restarted(t) == [t EXCEPT !.endTime = @ + EventsOf(t) * t.periodMs]

\* The timers that the walk removes, and frees, as soon as they have fired.
Triggered(treated) == Only(treated, {t \in Range(treated) : ~t.isPeriodicTimer})
Restarting(treated) == Only(treated, {t \in Range(treated) : t.isPeriodicTimer})

\* The events not yet treated once those of the timers treated are posted.
WithEventsOf(treated) ==
  LET after[n \in 0..Len(treated)] ==
        IF n = 0 THEN posted
        ELSE [after[n - 1] EXCEPT ![treated[n].holder] = @ + EventsOf(treated[n])]
  IN  after[Len(treated)]

\* Mutant: each periodic timer leaves the list just before it is inserted
\* again, the others being still at their old place with their new time.
ReinsertedOneByOne(list, restarts) ==
  LET Updated(t) == IF \E n \in 1..Len(restarts) : restarts[n].id = t.id
                    THEN restarts[CHOOSE n \in 1..Len(restarts) : restarts[n].id = t.id] ELSE t
      Again(l, t) == SortedInsert(WithoutId(l, t.id), t)
  IN  FoldLeft(Again, [n \in 1..Len(list) |-> Updated(list[n])], restarts)

\* All the periodic timers that have fired leave the list before the first
\* of them is inserted again.
Reinserted(list, restarts) ==
  LET others == Only(list, {t \in Range(list) : \A n \in 1..Len(restarts) : restarts[n].id # t.id})
      after[n \in 0..Len(restarts)] ==
        IF n = 0 THEN others ELSE SortedInsert(after[n - 1], restarts[n])
  IN  after[Len(restarts)]

CyclicTimersEvaluation ==
  /\ Due # <<>>
  /\ \E untouched \in MayFail({t \in Range(Due) : t.isPeriodicTimer}) :
       LET treated  == Only(Due, Range(Due) \ untouched)
           once     == Triggered(treated)
           periodic == Restarting(treated)
       IN  /\ posted' = WithEventsOf(treated)
           /\ \E lost \in MayFail(Range(periodic)) :
                LET restarts == Only(periodic, Range(periodic) \ lost)
                    kept     == Only(timers, Range(timers) \ (Range(once) \cup lost))
                IN  /\ timers' = Reinserted(kept, [n \in 1..Len(restarts) |-> Restarted(restarts[n])])
                    /\ GiveBack(Ids(once) \o Ids(Only(periodic, lost)))
  /\ \A h \in Holders : posted'[h] <= MaxPosted
  /\ UNCHANGED <<now, timerIdMax, creating, held, expired, outOfMemory>>

Tick ==
  /\ now < MaxTime
  /\ now' = now + 1
  /\ UNCHANGED <<timers, timerIdsFreed, timerIdMax, creating, held, expired, posted, outOfMemory>>

\* The looper of holder h treats the expiry of its timer.
Treat(h) ==
  /\ posted[h] > 0 /\ creating[h] = NotCreating
  /\ posted' = [posted EXCEPT ![h] = @ - 1]
  /\ held' = [held EXCEPT ![h] = IF h \in OneShots THEN 0 ELSE @]
  /\ expired' = [expired EXCEPT ![h] = h \in Requests /\ held[h] # 0]
  /\ UNCHANGED <<now, timers, timerIdsFreed, timerIdMax, creating, outOfMemory>>

-----------------------------------------------------------------------------
Init ==
  /\ now = 0 /\ timers = <<>> /\ timerIdsFreed = <<>> /\ timerIdMax = 0
  /\ creating = [h \in Holders |-> NotCreating]
  /\ held = [h \in Holders |-> 0]
  /\ expired = [h \in Holders |-> FALSE]
  /\ posted = [h \in Holders |-> 0]
  /\ outOfMemory \in OutOfMemory

Next ==
  \/ Tick \/ CyclicTimersEvaluation
  \/ \E h \in Holders :
       \/ Create(h) \/ Cancel(h) \/ Treat(h)
       \/ \E d \in Delays : CreateReadsTime(h, d)
       \/ h \in Periodics /\ \E d \in Delays : ModifyPeriodic(h, d)

Spec == Init /\ [][Next]_vars

-----------------------------------------------------------------------------
(* Properties.                                                             *)

\* The list is sorted at all times, also after several periodic timers of
\* different periods have been restarted in one evaluation: the walk may stop
\* at the first timer that is in the future.
TimersSorted ==
  \A n, m \in 1..Len(timers) : n < m => timers[n].endTime <= timers[m].endTime

\* An identifier belongs to one timer, or waits to be used again, once; and
\* none is lost as long as the lists can grow.
IdsAccounted ==
  LET ids == Ids(timers) \o timerIdsFreed
  IN  /\ IsInjective(ids)
      /\ Range(ids) \subseteq 1..timerIdMax
      /\ ~outOfMemory => Range(ids) = 1..timerIdMax

\* An evaluation that posts an event posts that of every timer that has
\* expired, wherever creation, modification and restart have put it in the
\* list; a periodic one may be left for the next evaluation when it cannot be
\* put aside.
ExpiredArePosted ==
  [][(\E h \in Holders : posted'[h] > posted[h]) =>
       \A n \in 1..Len(timers) :
         timers[n].endTime <= now /\ (outOfMemory => ~timers[n].isPeriodicTimer)
           => posted'[timers[n].holder] > posted[timers[n].holder]]_vars

\* "Cancel a started timer", "the identifier of the started timer to cancel":
\* a timer that a holder still waits for is running, or its event is on the
\* way; nobody else has cancelled it.
WaitedForIsRunning ==
  \A h \in Holders :
    held[h] # 0 /\ ~expired[h] =>
      posted[h] > 0 \/ \E n \in 1..Len(timers) : timers[n].holder = h
=============================================================================
