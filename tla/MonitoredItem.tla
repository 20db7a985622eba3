--------------------------- MODULE MonitoredItem ---------------------------
(***************************************************************************)
(* One monitored item of a subscription: the notifications queued for it,  *)
(* the changes a client makes to it (ModifyMonitoredItems,                 *)
(* SetMonitoringMode) and the publish responses that take notifications    *)
(* out of its queue, a part of the queue at a time when a message is       *)
(* limited.  The subscription around it is in Subscriptions.               *)
(***************************************************************************)
EXTENDS NotificationQueue, FiniteSets

CONSTANTS
    Kinds,      \* of the item: subset of {"data", "event"}
    Sizes,      \* revised queue sizes
    EventOps,   \* what may put a value in the queue of an event item: "mode",
                \* it is enabled and its node can be read; "node", its node is
                \* added or removed
    MaxValues   \* bound on the notifications of a behaviour

ASSUME ItemAssumption ==
    /\ Kinds \subseteq {"data", "event"}
    /\ Sizes \subseteq Nat \ {0}
    /\ EventOps \subseteq {"mode", "node"}
    /\ MaxValues \in Nat

Modes == {"disabled", "sampling", "reporting"}

VARIABLES
    item,       \* the item and its notification queue
    mode,       \* monitoringMode
    available,  \* the item's part of a_subscription_available_*_notifs
    aborted,    \* an SOPC_ASSERT of the queue failed: the server is down
    produced,   \* number of the last notification produced
    delivered,  \* the last notification that left in a publish response
    lost,       \* an event was discarded
    overflows,  \* EventQueueOverflow events delivered
    dropped     \* EventQueueOverflow events cleared with the queue

vars == <<item, mode, available, aborted, produced, delivered, lost, overflows, dropped>>

(* local_update_available_notifs, for an item in mode m                    *)
UpdateAvailable(n, m, before, after) ==
    IF m # "reporting" THEN n
    ELSE IF before <= after THEN n + (after - before)
    ELSE IF before - after <= n THEN n - (before - after)
    ELSE 0

(* create_monitored_item: a data item that is not disabled reports the     *)
(* value read at creation.                                                 *)
Created(event, size, oldest, m) ==
    LET new == NewQueue(event, size, oldest)
    IN  IF event \/ m = "disabled" THEN new ELSE AddData(new, 1)

Init ==
    /\ \E k \in Kinds, n \in Sizes, o \in BOOLEAN, m \in Modes :
          /\ item = Created(k = "event", n, o, m)
          /\ mode = m
          /\ available = UpdateAvailable(0, m, 0, Len(item.queue))
    /\ aborted = FALSE
    /\ produced = 1
    /\ delivered = Element("value", IF item.queue = <<>> THEN 1 ELSE 0)
    /\ lost = FALSE
    /\ overflows = 0 /\ dropped = 0

(* Events of the queue old and of the one just produced that new holds no  *)
(* more.                                                                   *)
Loses(old, new, v) ==
    ({e.val : e \in Range(old)} \cup {v}) \ {e.val : e \in Range(new)} # {}

----------------------------------------------------------------------------
(* A value change or an event that passes the filter: only a reporting     *)
(* item queues it (server_subscription_data_changed, _event_triggered).    *)
Notify ==
    /\ mode = "reporting" /\ produced < MaxValues
    /\ produced' = produced + 1
    /\ item' = IF item.event THEN AddEvent(item, produced')
                             ELSE AddData(item, produced')
    /\ available' = UpdateAvailable(available, mode, Len(item.queue), Len(item'.queue))
    /\ lost' = (lost \/ (item.event /\ Loses(item.queue, item'.queue, produced')))
    /\ UNCHANGED <<mode, aborted, delivered, overflows, dropped>>

(* add_first_monitored_item_notification_to_queue, for items of both       *)
(* kinds: the assertion of SOPC_InternalSetOverflowBitAfterDiscard wants a *)
(* value where the overflow bit goes.                                      *)
BitNeedsValue(it, q) ==
    OverflowsData(it) /\ Capacity(it) # 1
        => q[BitIndex(q, it.oldest)].kind = "value"

AddFirst(it, n) ==
    /\ produced < MaxValues
    /\ produced' = produced + 1
    /\ item' = AddData(it, produced')
    /\ available' = UpdateAvailable(n, mode', Len(it.queue), Len(item'.queue))
    /\ aborted' = ~ BitNeedsValue(it, item'.queue)

(* Mutant: the count is not brought in line with the mode.                 *)
RecountedNot(m) == available

(* set_monit_mode_monitored_item: the count of the item under its new mode.*)
Recounted(m) ==
    UpdateAvailable(UpdateAvailable(available, mode, Len(item.queue), 0),
                    m, 0, Len(item.queue))

(* set_monit_mode_monitored_item, then                                     *)
(* local_create_delete_notification_on_set_monit_mode_change: an item that *)
(* is enabled reports the value of its node, unless the node is no more;   *)
(* one that is disabled loses its queue, the overflow event included, and  *)
(* queueOverflowEventTriggered stays.                                      *)
SetMonitoringMode(m) ==
    /\ mode' = m
    /\ \/ /\ mode = "disabled" /\ m # "disabled"
          /\ \/ /\ item.event => "mode" \in EventOps
                /\ AddFirst(item, Recounted(m))
             \/ /\ available' = Recounted(m)
                /\ UNCHANGED <<item, aborted, produced>>
          /\ UNCHANGED <<delivered, dropped>>
       \/ /\ mode # "disabled" /\ m = "disabled"
          /\ item' = ClearQueue(item)
          /\ available' = UpdateAvailable(Recounted(m), m, Len(item.queue), 0)
          /\ delivered' = Element("value", produced)
          /\ dropped' = dropped + Cardinality(OverflowIndexes(item.queue))
          /\ UNCHANGED <<aborted, produced>>
       \/ /\ (mode = "disabled") = (m = "disabled")
          /\ available' = Recounted(m)
          /\ UNCHANGED <<item, aborted, produced, delivered, dropped>>
    /\ UNCHANGED <<lost, overflows>>

(* server_subscription_node_changed: the node was added or removed; the    *)
(* monitoring mode is not looked at.                                       *)
NodeChanged ==
    /\ item.event => "node" \in EventOps
    /\ UNCHANGED mode
    /\ AddFirst(item, available)
    /\ UNCHANGED <<delivered, lost, overflows, dropped>>

(* modify_monitored_item                                                   *)
ModifyItem(size, oldest) ==
    /\ item' = Modify(item, size, oldest)
    /\ available' = UpdateAvailable(available, mode, Len(item.queue), Len(item'.queue))
    /\ lost' = (lost \/ (item.event /\ Loses(item.queue, item'.queue, produced)
                                    /\ item.queue # <<>>))
    /\ UNCHANGED <<mode, aborted, produced, delivered, overflows, dropped>>

(* A publish response takes the n oldest notifications of a reporting item *)
(* (local_fill_data_notification_message, _event_notification_message).    *)
Publish(n) ==
    /\ mode = "reporting" /\ n \in 1..Len(item.queue)
    /\ item' = PopN(item, n)
    /\ available' = available - n
    /\ LET over == OverflowIndexes(item.queue) \cap 1..n
           real == (1..n) \ over
       IN  /\ delivered' = IF real = {} THEN delivered ELSE item.queue[Max(real)]
           /\ overflows' = overflows + Cardinality(over)
    /\ UNCHANGED <<mode, aborted, produced, lost, dropped>>

Next ==
    /\ ~ aborted
    /\ \/ Notify
       \/ \E m \in Modes : SetMonitoringMode(m)
       \/ NodeChanged
       \/ \E n \in Sizes, o \in BOOLEAN : ModifyItem(n, o)
       \/ \E n \in 1..Len(item.queue) : Publish(n)

ItemSpec == Init /\ [][Next]_vars

----------------------------------------------------------------------------
(* The notifications of the queue, without the overflow event.             *)
Real == (1..Len(item.queue)) \ OverflowIndexes(item.queue)

(* The count of available notifications, kept up incrementally by every    *)
(* handler, is what the queue of a reporting item holds, so that a message *)
(* announces what it carries; and the queue stays within its size, the     *)
(* overflow event within the extra slot.                                   *)
AvailExact ==
    /\ available = IF mode = "reporting" THEN Len(item.queue) ELSE 0
    /\ Len(item.queue) <= Capacity(item)
    /\ Cardinality(Real) <= item.size

(* Notifications of an item leave in the order they were produced and at   *)
(* most once, whatever discards, resizes and partial publish responses     *)
(* happen in between.                                                      *)
InOrder ==
    \A i \in Real :
        /\ delivered.val < item.queue[i].val
        /\ \A j \in Real : i < j => item.queue[i].val < item.queue[j].val

(* The values of a data item, from the last one delivered on.              *)
Chain == <<delivered>> \o item.queue

(* A data change that no client will see is signalled: on one side or the  *)
(* other of the hole there is a value with the overflow bit (the bit       *)
(* SOPC_InternalSetOverflowBitAfterDiscard sets).                          *)
LossSignalled ==
    ~ item.event =>
        \A i \in 1..(Len(Chain) - 1) :
            Chain[i + 1].val > Chain[i].val + 1 => Chain[i].bit \/ Chain[i + 1].bit

(* A client that empties the queue of an event item learns the newest      *)
(* event, whichever end events are discarded at                            *)
(* (the newest event is put back by resize_event_notif_queue).             *)
NewestKept ==
    item.event /\ item.queue # <<>> =>
        /\ Last(item.queue).kind = "event"
        /\ Last(item.queue).val = produced

(* EventQueueOverflow is made once in the life of an item, and exactly     *)
(* when an event was discarded (queueOverflowEventTriggered): since then   *)
(* it is queued or was delivered, whatever discards and resizes happen,    *)
(* unless the item was disabled with the event in its queue.  Then neither *)
(* that loss nor a later one is ever reported.                             *)
OverflowOnce ==
    item.event =>
        overflows + dropped + Cardinality(OverflowIndexes(item.queue)) = (IF lost THEN 1 ELSE 0)

(* The overflow bit is only ever set on a value: the assertion             *)
(* SOPC_ASSERT(NULL != notifElt->value) of                                 *)
(* SOPC_InternalSetOverflowBitAfterDiscard holds.                          *)
BitOnValues == ~ aborted
=============================================================================
