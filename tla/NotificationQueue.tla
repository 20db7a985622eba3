------------------------- MODULE NotificationQueue -------------------------
(***************************************************************************)
(* The notification queue of one monitored item                            *)
(* (services/b2c/monitored_item_notification_queue_bs.c): a circular queue *)
(* of queueSize elements for a data item, of queueSize + 1 for an event    *)
(* item, whose extra slot is for the one EventQueueOverflow event.         *)
(*                                                                         *)
(* An item is a record with the fields                                     *)
(*   event      the item monitors events (is_eventMI)                      *)
(*   size       queueSize                                                  *)
(*   oldest     discardOldest                                              *)
(*   triggered  queueOverflowEventTriggered                                *)
(*   queue      the queue, oldest element first                            *)
(* and an element is a record: its kind ("value" carries an                *)
(* OpcUa_WriteValue, "event" an OpcUa_EventFieldList, "overflow" the       *)
(* EventQueueOverflow event), the value val it reports, and the overflow   *)
(* bit of its status.  Allocations do not fail here.                       *)
(***************************************************************************)
EXTENDS Integers, Sequences, SequencesExt

Element(kind, v) == [kind |-> kind, val |-> v, bit |-> FALSE]

OverflowEvent == Element("overflow", 0)

NewQueue(event, size, oldest) ==
    [event |-> event, size |-> size, oldest |-> oldest,
     triggered |-> FALSE, queue |-> <<>>]

(* SOPC_CircularQueue_GetCapacity of the item's queue.                     *)
Capacity(item) == IF item.event THEN item.size + 1 ELSE item.size

(* SOPC_InternalDiscardOneNotification                                     *)
DiscardOne(q, oldest) == IF oldest THEN Tail(q) ELSE Front(q)

(* SOPC_InternalGetDiscardedNotification                                   *)
Discarded(q, oldest) == IF oldest THEN Head(q) ELSE Last(q)

(* The element that replaces the discarded one carries the overflow bit.   *)
BitIndex(q, oldest) == IF oldest THEN 1 ELSE Len(q)

SetOverflowBit(q, oldest) ==
    [q EXCEPT ![BitIndex(q, oldest)].bit = TRUE]

(* SOPC_InternalAddCommonFinishAddNotifDataElt: a full queue first         *)
(* discards one element; the overflow bit is for queues of several.        *)
OverflowsData(item) == Len(item.queue) = Capacity(item)

AddData(item, v) ==
    LET elt  == Element("value", v)
        room == Append(DiscardOne(item.queue, item.oldest), elt)
    IN  [item EXCEPT !.queue =
            IF ~ OverflowsData(item) THEN Append(item.queue, elt)
            ELSE IF Capacity(item) # 1 THEN SetOverflowBit(room, item.oldest)
            ELSE room]

(* What is left of q once one event is discarded: an overflow event met    *)
(* on the way is taken out too, to be put back.                            *)
AfterDiscard(q, oldest) ==
    LET once == DiscardOne(q, oldest)
    IN  IF Discarded(q, oldest).kind = "overflow"
        THEN DiscardOne(once, oldest) ELSE once

(* Mutant: the overflow event is created once and not put back.            *)
RestoredNot(item, taken) == IF item.triggered THEN <<>> ELSE <<OverflowEvent>>

(* The overflow event to put in the queue: the first time one is created,  *)
(* later the one taken out of q, if any.                                   *)
Restored(item, taken) ==
    IF taken \/ ~ item.triggered THEN <<OverflowEvent>> ELSE <<>>

(* SOPC_InternalAddCommonFinishAddNotifEventElt                            *)
AddEvent(item, v) ==
    LET q     == item.queue
        elt   == Element("event", v)
        left  == AfterDiscard(q, item.oldest)
        over  == Restored(item, Discarded(q, item.oldest).kind = "overflow")
    IN  IF Len(q) < item.size
        THEN [item EXCEPT !.queue = Append(q, elt)]
        ELSE [item EXCEPT !.triggered = TRUE,
                          !.queue = IF item.oldest
                                    THEN Append(over \o left, elt)
                                    ELSE Append(left \o over, elt)]

(* The n newest (oldest = FALSE: the n oldest) elements of q, what a loop  *)
(* of discards leaves.                                                     *)
Keep(q, n, oldest) ==
    IF Len(q) <= n THEN q
    ELSE IF oldest THEN SubSeq(q, Len(q) - n + 1, Len(q)) ELSE SubSeq(q, 1, n)

(* Mutant: the values a smaller queue discards leave no trace.             *)
ResizeDataSilent(item) ==
    [item EXCEPT !.queue = Keep(item.queue, item.size, item.oldest)]

(* resize_data_notif_queue                                                 *)
ResizeData(item) ==
    LET kept == Keep(item.queue, item.size, item.oldest)
    IN  [item EXCEPT !.queue =
            IF Len(kept) < Len(item.queue) /\ item.size > 1
            THEN SetOverflowBit(kept, item.oldest) ELSE kept]

(* The places of the queue that hold an overflow event.                    *)
OverflowIndexes(q) == {i \in 1..Len(q) : q[i].kind = "overflow"}

(* is_discard_necessary_and_overflow_event_in_notif_queue looks for the    *)
(* overflow event once it was triggered: the index of the last one found.  *)
OverflowFound(item) == item.triggered /\ OverflowIndexes(item.queue) # {}

SetAside(item) ==
    IF OverflowFound(item)
    THEN RemoveAt(item.queue, Max(OverflowIndexes(item.queue)))
    ELSE item.queue

(* Mutant: a discard-newest item discards the newest event as well.        *)
ResizeEventNewest(item) ==
    LET real == SetAside(item)
        kept == Keep(real, item.size, item.oldest)
        over == Restored(item, OverflowFound(item))
    IN  IF Len(real) <= item.size THEN item
        ELSE [item EXCEPT !.triggered = TRUE,
                          !.queue = IF item.oldest THEN over \o kept
                                    ELSE Append(kept, OverflowEvent)]

(* resize_event_notif_queue: the overflow event is set aside, the events   *)
(* that do not fit are discarded (the very last one is kept whatever the   *)
(* policy) and the overflow event comes back first or last but one.        *)
ResizeEvent(item) ==
    LET real == SetAside(item)
        kept == Keep(real, item.size, item.oldest)
        over == Restored(item, OverflowFound(item))
    IN  IF Len(real) <= item.size THEN item
        ELSE [item EXCEPT !.triggered = TRUE,
                          !.queue = IF item.oldest THEN over \o kept
                                    ELSE Append(Front(kept) \o over, Last(real))]

(* modify_monitored_item_pointer, then resize_monitored_item_notification_queue *)
Modify(item, size, oldest) ==
    LET new == [item EXCEPT !.size = size, !.oldest = oldest]
    IN  IF item.event THEN ResizeEvent(new) ELSE ResizeData(new)

(* Mutant: the notifications sent stay at the head of the queue.           *)
PopNLast(item, n) == [item EXCEPT !.queue = SubSeq(@, 1, Len(@) - n)]

(* Both pop iterators: the n oldest elements leave for a message.          *)
PopN(item, n) == [item EXCEPT !.queue = SubSeq(@, n + 1, Len(@))]

(* clear_monitored_item_notification_queue                                 *)
ClearQueue(item) == [item EXCEPT !.queue = <<>>]
=============================================================================
