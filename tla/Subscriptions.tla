--------------------------- MODULE Subscriptions ---------------------------
(***************************************************************************)
(* The subscriptions of a server (services/bgenc/subscription_mgr.c,       *)
(* subscription_core*.c and the queues of services/b2c): the publish state *)
(* machine of each subscription, the publish requests each session has     *)
(* parked, and the order in which the subscriptions of a session are       *)
(* served.                                                                 *)
(*                                                                         *)
(* Every handler runs alone in the services thread; the answers it sends   *)
(* (generate_internal_send_publish_response_event) and the closings it     *)
(* asks for (async_close_subscription) are posted ahead of every other     *)
(* event, so a handler with what it posts is one action.                   *)
(*                                                                         *)
(* Notifications are only counted here (avail): what a monitored item      *)
(* queues is in MonitoredItem.  The sequence numbers of the messages, the  *)
(* copies kept for Republish and the diagnostics are left out, and         *)
(* allocations do not fail.                                                *)
(***************************************************************************)
EXTENDS Integers, Sequences, SequencesExt, FiniteSets, Lists

CONSTANTS
    Sessions,
    Requests,        \* handles of publish requests
    MaxSubs,         \* k_n_subscription_max
    SubsPerSession,  \* k_n_subscriptionPerSession_max
    ReqsPerSession,  \* k_n_publishRequestPerSession_max
    Priorities,
    KeepAlives,      \* revised MaxKeepAliveCounts
    Lifetimes,       \* requested LifetimeCounts
    MinLifetime,     \* SOPC_MIN_LIFETIME_PUBLISH_INTERVALS
    MaxLifetime,     \* SOPC_MAX_LIFETIME_PUBLISH_INTERVALS
    MsgSizes,        \* notifications a message may hold
    MaxAvail,        \* bound on the notifications available
    MaxForgotten,    \* bound on the requests with too many acknowledgements
    ClientsLeave     \* whether clients may go away for good

ASSUME SubscriptionsAssumption ==
    /\ MaxSubs \in Nat /\ SubsPerSession \in Nat \ {0}
    /\ ReqsPerSession \in Nat \ {0}
    /\ Priorities \subseteq Nat /\ KeepAlives \subseteq Nat \ {0}
    /\ Lifetimes \subseteq Nat /\ MsgSizes \subseteq Nat \ {0}
    /\ MinLifetime \in Nat \ {0} /\ MaxLifetime \in Nat \ {0}
    /\ MaxAvail \in Nat /\ MaxForgotten \in Nat /\ ClientsLeave \in BOOLEAN

SubIds == 1..MaxSubs

VARIABLES
    session,  \* state of each session: "closed", "orphaned" or "active"
    subs,     \* the subscriptions in use
    prios,    \* per session, its priorities with their queues of subscriptions
    reqq,     \* the publish request queue of the sessions that have one
    gone,     \* the clients went away for good
    waiting,  \* the requests a client waits for on each session
    forgotten, \* those of them that failed without an answer (history)
    passed    \* per subscription, how often another of its priority was
              \* answered first (history)

vars == <<session, subs, prios, reqq, gone, waiting, forgotten, passed>>

Init ==
    /\ session = [s \in Sessions |-> "closed"]
    /\ subs = << >>
    /\ prios = [s \in Sessions |-> <<>>]
    /\ reqq = << >>
    /\ gone = FALSE
    /\ waiting = [s \in Sessions |-> {}]
    /\ forgotten = [s \in Sessions |-> {}]
    /\ passed = [k \in SubIds |-> 0]

SubsOf(s) == {k \in DOMAIN subs : subs[k].session = s}

Dropping(f, S) == Restrict(f, DOMAIN f \ S)

With(f, x, v) == [y \in DOMAIN f \cup {x} |-> IF y = x THEN v ELSE f[y]]

Ids(q) == {q[i].id : i \in DOMAIN q}

----------------------------------------------------------------------------
(* The priorities of a session.                                            *)

(* Mutant: the priority of a subscription is always new.                   *)
AddToPriorityAlone(ps, p, k) == Append(ps, [prio |-> p, queue |-> <<k>>])

(* add_subscription: a new priority is put last, or moved one place down   *)
(* if it is lower than the last one; swap_session_seq_priority empties the *)
(* place the next turn of the loop looks at, which ends the loop.          *)
AddToPriority(ps, p, k) ==
    LET new == [prio |-> p, queue |-> <<k>>]
    IN  IF \E i \in DOMAIN ps : ps[i].prio = p
        THEN [i \in DOMAIN ps |->
                 IF ps[i].prio = p THEN [ps[i] EXCEPT !.queue = Append(@, k)]
                 ELSE ps[i]]
        ELSE IF ps # <<>> /\ p < Last(ps).prio
        THEN Front(ps) \o <<new, Last(ps)>>
        ELSE Append(ps, new)

(* delete_subscription, of the subscriptions S: a priority without         *)
(* subscriptions is taken out.                                             *)
RemoveFromPriority(ps, S) ==
    LET left == [i \in DOMAIN ps |-> [ps[i] EXCEPT !.queue = Only(@, ToSet(@) \ S)]]
    IN  Only(left, {e \in ToSet(left) : e.queue # <<>>})

(* check_add_subscription                                                  *)
TooManyPriorities(ps, p) ==
    /\ Len(ps) = SubsPerSession
    /\ \A i \in DOMAIN ps : ps[i].prio # p

(* Mutant: a subscription keeps its turn after a message.                  *)
ServedStays(ps, k) == ps

(* reconfigure_priority_subscriptions_queue_last_sub                       *)
ServedLast(ps, k) ==
    [i \in DOMAIN ps |->
        IF k \in ToSet(ps[i].queue)
        THEN [ps[i] EXCEPT !.queue = Append(Only(@, ToSet(@) \ {k}), k)]
        ELSE ps[i]]

(* init_iter_subscription_session, continue_iter_subscription_session:     *)
(* priorities from the last to the first, each in the order of its queue.  *)
IterOrder(ps) ==
    LET from[i \in 0..Len(ps)] == IF i = 0 THEN <<>> ELSE ps[i].queue \o from[i - 1]
    IN  from[Len(ps)]

----------------------------------------------------------------------------
(* One subscription.                                                       *)

(* compute_create_subscription_revised_params                              *)
RevisedLifetime(life, keep) ==
    LET least == IF life < 3 * keep THEN 3 * keep ELSE life
    IN  IF least < MinLifetime THEN MinLifetime
        ELSE IF least > MaxLifetime THEN MaxLifetime
        ELSE least

(* create_subscription                                                      *)
NewSub(s, p, en, life, keep, size) ==
    [session |-> s, prio |-> p, state |-> "normal", enabled |-> en,
     more |-> FALSE, sent |-> FALSE, life |-> life, maxLife |-> life,
     keep |-> life, maxKeep |-> keep, size |-> size, avail |-> 0]

(* A subscription that answers a publish request as soon as it comes.      *)
Attentive(sub) ==
    \/ sub.state = "late"
    \/ sub.state = "normal" /\ sub.enabled /\ sub.more

Reportable(sub) == sub.enabled /\ sub.avail > 0

(* local_compute_msg_nb_notifs, local_fill_*_notification_message          *)
NotificationMessage(sub) ==
    LET n == IF sub.avail > sub.size THEN sub.size ELSE sub.avail
    IN  [sub EXCEPT !.avail = @ - n, !.more = sub.avail > sub.size,
                    !.sent = TRUE, !.state = "normal"]

(* receive_publish_request, on an attentive subscription                   *)
ReceivePublish(sub) ==
    LET alive == [sub EXCEPT !.life = sub.maxLife]
    IN  IF sub.enabled /\ (sub.more \/ sub.avail > 0)
        THEN NotificationMessage(alive)
        ELSE [alive EXCEPT !.state = "keepAlive", !.keep = sub.maxKeep,
                           !.sent = TRUE]

(* server_subscription_core_publish_timeout: a subscription whose turn it  *)
(* is answers a publish request, if one is queued (transitions 6, 7, 14    *)
(* and 15); otherwise it only changes state (8, 9, 12, 16 and 17).         *)
HasMessage(sub) ==
    \/ sub.state # "late" /\ Reportable(sub)
    \/ sub.state = "normal" /\ ~ sub.sent
    \/ sub.state = "keepAlive" /\ sub.keep <= 1

(* Mutant: the keep-alive counter starts again at every tick.              *)
TickWaitingAgain(sub, valid) ==
    CASE sub.state = "late" -> sub
      [] ~ valid /\ sub.state # "late" /\ HasMessage(sub) ->
            [sub EXCEPT !.state = "late"]
      [] OTHER -> [sub EXCEPT !.state = "keepAlive", !.keep = sub.maxKeep]

TickWaiting(sub, valid) ==
    CASE sub.state = "late" -> sub
      [] ~ valid /\ sub.state # "late" /\ HasMessage(sub) ->
            [sub EXCEPT !.state = "late"]
      [] sub.state = "normal" /\ sub.sent /\ ~ Reportable(sub) ->
            [sub EXCEPT !.state = "keepAlive", !.keep = sub.maxKeep - 1]
      [] sub.state = "keepAlive" /\ sub.keep > 1 /\ ~ Reportable(sub) ->
            [sub EXCEPT !.keep = @ - 1]

(* A keep-alive message (transitions 7 and 15).                            *)
KeepAliveMessage(sub) ==
    [sub EXCEPT !.sent = TRUE,
                !.keep = IF sub.state = "keepAlive" THEN sub.maxKeep ELSE @]

----------------------------------------------------------------------------
(* The publish requests of a session.                                      *)

(* pop_invalid_and_check_valid_publishReqQueued: expired requests at the   *)
(* head of the queue are answered BadTimeout.  p is what a handler is      *)
(* doing: the subscription sub, the queue and the requests answered.       *)
PopInvalid(p) ==
    LET live == {i \in DOMAIN p.queue : ~ p.queue[i].expired}
        n    == IF live = {} THEN Len(p.queue)
                ELSE (CHOOSE i \in live : \A j \in live : i <= j) - 1
    IN  [p EXCEPT !.queue = SubSeq(@, n + 1, Len(@)),
                  !.answered = @ \cup Ids(SubSeq(p.queue, 1, n))]

(* pop_valid_publish_request_queue, and the answer                         *)
Answer(p, sub) ==
    [sub |-> sub, queue |-> Tail(p.queue),
     answered |-> p.answered \cup {Head(p.queue).id}]

(* A message of notifications; when it leaves some behind, the queue is    *)
(* looked at again.                                                        *)
Report(p) ==
    LET q == Answer(p, NotificationMessage(p.sub))
    IN  IF q.sub.more THEN PopInvalid(q) ELSE q

(* Mutant: what a message left behind waits for the next tick.             *)
ReportOnce(p) == Report(p)

(* server_subscription_core_publish_timeout_return_moreNotifs, as long as  *)
(* there are notifications left and requests to answer                     *)
ReportAll(p) ==
    LET after[n \in 0..Len(p.queue)] ==
            IF n = 0 THEN Report(p)
            ELSE IF after[n - 1].sub.more /\ after[n - 1].queue # <<>>
            THEN Report(after[n - 1]) ELSE after[n - 1]
    IN  after[Len(p.queue)]

(* Mutant: a subscription without requests does not age.                   *)
AgedNot(p) == [p EXCEPT !.sub.life = p.sub.maxLife]

(* server_subscription_core_publish_timeout_check_lifetime                 *)
Aged(p) ==
    [p EXCEPT !.sub.life = IF p.queue # <<>> THEN p.sub.maxLife ELSE @ - 1]

(* server_subscription_publish_timeout of a subscription that stays        *)
Tick(p) ==
    IF p.queue # <<>> /\ HasMessage(p.sub)
    THEN IF Reportable(p.sub) THEN ReportAll(p)
         ELSE Answer(p, KeepAliveMessage(p.sub))
    ELSE [p EXCEPT !.sub = TickWaiting(p.sub, p.queue # <<>>)]

----------------------------------------------------------------------------
(* Sessions.                                                               *)

ActivateSession(s) ==
    /\ session[s] # "active"
    /\ session' = [session EXCEPT ![s] = "active"]
    /\ UNCHANGED <<subs, prios, reqq, waiting, forgotten>>

(* server_subscription_session_inactive, the secure channel is lost or     *)
(* another one is being activated: nobody is left to answer.               *)
SessionInactive(s) ==
    /\ session[s] = "active"
    /\ session' = [session EXCEPT ![s] = "orphaned"]
    /\ reqq' = IF s \in DOMAIN reqq THEN [reqq EXCEPT ![s] = <<>>] ELSE reqq
    /\ waiting' = [waiting EXCEPT ![s] = {}]
    /\ forgotten' = [forgotten EXCEPT ![s] = {}]
    /\ UNCHANGED <<subs, prios>>

(* server_subscription_session_inactive and the close events it posts.     *)
SessionClosed(s) ==
    /\ session[s] # "closed"
    /\ session' = [session EXCEPT ![s] = "closed"]
    /\ subs' = Dropping(subs, SubsOf(s))
    /\ prios' = [prios EXCEPT ![s] = <<>>]
    /\ reqq' = Dropping(reqq, {s})
    /\ waiting' = [waiting EXCEPT ![s] = {}]
    /\ forgotten' = [forgotten EXCEPT ![s] = {}]

----------------------------------------------------------------------------
(* Service requests on an active session.                                  *)

(* treat_create_subscription_request                                       *)
CreateSubscription(s, p, en, life, keep, size) ==
    /\ session[s] = "active"
    /\ Cardinality(SubsOf(s)) < SubsPerSession
    /\ DOMAIN subs # SubIds
    /\ LET k == CHOOSE k \in SubIds \ DOMAIN subs :
                    \A j \in SubIds \ DOMAIN subs : k <= j
       IN  /\ subs' = With(subs, k, NewSub(s, p, en, RevisedLifetime(life, keep), keep, size))
           /\ prios' = [prios EXCEPT ![s] = AddToPriority(@, p, k)]
    /\ reqq' = IF SubsOf(s) = {} THEN With(reqq, s, <<>>) ELSE reqq
    /\ UNCHANGED <<session, waiting, forgotten>>

(* modify_subscription: with another priority the subscription is deleted  *)
(* and added again with its state.                                         *)
ModifySubscription(k, p, life, keep, size) ==
    LET s    == subs[k].session
        rev  == RevisedLifetime(life, keep)
        new  == [subs[k] EXCEPT !.prio = p, !.maxLife = rev, !.life = rev,
                                !.maxKeep = keep, !.size = size]
    IN  /\ session[s] = "active"
        /\ p = subs[k].prio \/ ~ TooManyPriorities(prios[s], p)
        /\ subs' = [subs EXCEPT ![k] = new]
        /\ prios' = IF p = subs[k].prio THEN prios
                    ELSE [prios EXCEPT ![s] =
                             AddToPriority(RemoveFromPriority(@, {k}), p, k)]
        /\ UNCHANGED <<session, reqq, waiting, forgotten>>

(* Mutant: the requests of a session that lost its last subscription go    *)
(* with its queue.                                                         *)
AnsweredAtEndNone(q) == {}

(* deallocate_publish_queue_and_gen_no_sub_responses                       *)
AnsweredAtEnd(q) == Ids(q)

(* treat_delete_subscriptions_request, internal_server_close_subscription  *)
DeleteSubscriptions(s, S) ==
    /\ session[s] = "active" /\ S # {}
    /\ subs' = Dropping(subs, S)
    /\ prios' = [prios EXCEPT ![s] = RemoveFromPriority(@, S)]
    /\ IF S = SubsOf(s)
       THEN /\ reqq' = Dropping(reqq, {s})
            /\ waiting' = [waiting EXCEPT ![s] = @ \ AnsweredAtEnd(reqq[s])]
       ELSE UNCHANGED <<reqq, waiting>>
    /\ UNCHANGED <<session, forgotten>>

(* set_subscription_PublishingEnabled                                      *)
PublishingSet(sub, en) ==
    [sub EXCEPT !.enabled = en, !.more = FALSE, !.life = sub.maxLife]

(* fill_set_publishing_mode_response                                       *)
SetPublishingMode(s, S, en) ==
    /\ session[s] = "active" /\ S # {}
    /\ subs' = [k \in DOMAIN subs |-> IF k \in S THEN PublishingSet(subs[k], en) ELSE subs[k]]
    /\ UNCHANGED <<session, prios, reqq, waiting, forgotten>>

(* treat_subscription_republish_request, whether the message is found or   *)
(* not                                                                     *)
Republish(k) ==
    /\ session[subs[k].session] = "active"
    /\ subs' = [subs EXCEPT ![k].life = subs[k].maxLife]
    /\ UNCHANGED <<session, prios, reqq, waiting, forgotten>>

(* The monitored items of a subscription queue or lose notifications       *)
(* (local_update_available_notifs, see MonitoredItem).                     *)
ItemsChanged(k, n) ==
    /\ subs' = [subs EXCEPT ![k].avail = n]
    /\ UNCHANGED <<session, prios, reqq, waiting, forgotten>>

(* The first attentive subscription of the session, 0 if there is none.    *)
FirstAttentive(s) ==
    LET ready == Only(IterOrder(prios[s]), {k \in DOMAIN subs : Attentive(subs[k])})
    IN  IF ready = <<>> THEN 0 ELSE Head(ready)

(* treat_subscription_publish_request, answered at once                    *)
PublishAnswered(s) ==
    LET k == FirstAttentive(s)
    IN  /\ session[s] = "active" /\ k # 0
        /\ subs' = [subs EXCEPT ![k] = ReceivePublish(@)]
        /\ prios' = [prios EXCEPT ![s] = ServedLast(@, k)]
        /\ UNCHANGED <<session, reqq, waiting, forgotten>>

(* enqueue_publish_request: when the queue is full its last request is     *)
(* answered BadTooManyPublishRequests first (discard_oldest_publish_request, *)
(* SOPC_SLinkedList_PopLast).                                              *)
PublishQueued(s, r) ==
    LET q    == reqq[s]
        full == Len(q) = ReqsPerSession
        kept == IF full THEN Front(q) ELSE q
    IN  /\ session[s] = "active" /\ SubsOf(s) # {}
        /\ FirstAttentive(s) = 0
        /\ \A t \in Sessions : r \notin waiting[t]
        /\ reqq' = [reqq EXCEPT ![s] = Append(kept, [id |-> r, expired |-> FALSE])]
        /\ waiting' = [waiting EXCEPT ![s] =
                          (@ \ (IF full THEN {Last(q).id} ELSE {})) \cup {r}]
        /\ UNCHANGED <<session, subs, prios, forgotten>>

(* treat_subscription_publish_request, with more acknowledgements than     *)
(* k_n_genericOperationPerReq_max: it fails, with a response that is to be *)
(* sent later, so that neither a response nor an error is sent.            *)
PublishTooManyAcks(s, r) ==
    /\ session[s] = "active" /\ SubsOf(s) # {}
    /\ \A t \in Sessions : r \notin waiting[t]
    /\ Cardinality(forgotten[s]) < MaxForgotten
    /\ waiting' = [waiting EXCEPT ![s] = @ \cup {r}]
    /\ forgotten' = [forgotten EXCEPT ![s] = @ \cup {r}]
    /\ UNCHANGED <<session, subs, prios, reqq>>

(* The expiration time of a parked request passes.                         *)
RequestExpires(s, i) ==
    /\ ~ reqq[s][i].expired
    /\ reqq' = [reqq EXCEPT ![s][i].expired = TRUE]
    /\ UNCHANGED <<session, subs, prios, waiting, forgotten>>

(* A tick of the publish timer of a subscription, possibly a late one of   *)
(* an earlier subscription of the same index                               *)
(* (server_subscription_publish_timeout).                                  *)
PublishTimeout(k) ==
    \E s \in {subs[k].session} :
    \E start \in {PopInvalid([sub |-> subs[k], queue |-> reqq[s], answered |-> {}])} :
        \/ /\ start.queue = <<>> /\ subs[k].life <= 1
           /\ subs' = Dropping(subs, {k})
           /\ prios' = [prios EXCEPT ![s] = RemoveFromPriority(@, {k})]
           /\ reqq' = IF SubsOf(s) = {k} THEN Dropping(reqq, {s})
                      ELSE [reqq EXCEPT ![s] = <<>>]
           /\ waiting' = [waiting EXCEPT ![s] = @ \ start.answered]
           /\ UNCHANGED <<session, forgotten>>
        \/ /\ start.queue # <<>> \/ subs[k].life > 1
           /\ \E end \in {Tick(Aged(start))} :
                 /\ subs' = [subs EXCEPT ![k] = end.sub]
                 /\ prios' = IF start.queue # <<>> /\ HasMessage(start.sub)
                             THEN [prios EXCEPT ![s] = ServedLast(@, k)] ELSE prios
                 /\ reqq' = [reqq EXCEPT ![s] = end.queue]
                 /\ waiting' = [waiting EXCEPT ![s] = @ \ end.answered]
           /\ UNCHANGED <<session, forgotten>>

----------------------------------------------------------------------------
(* What RoundRobin remembers of a step that answers subscription j at a    *)
(* publish request (0: none).                                              *)
History(j) ==
    passed' = [k \in SubIds |->
        IF /\ k \in DOMAIN subs /\ k \in DOMAIN subs' /\ k # j
           /\ Attentive(subs[k]) /\ Attentive(subs'[k])
           /\ subs[k].prio = subs'[k].prio
        THEN IF j # 0 /\ subs[j].session = subs[k].session
                     /\ subs[j].prio = subs[k].prio
             THEN passed[k] + 1 ELSE passed[k]
        ELSE 0]

(* What clients do, until they go away.                                    *)
ClientStep ==
    /\ ~ gone /\ UNCHANGED gone
    /\ \/ \E s \in Sessions : ActivateSession(s)
       \/ \E s \in Sessions, p \in Priorities, en \in BOOLEAN,
              life \in Lifetimes, keep \in KeepAlives, size \in MsgSizes :
             CreateSubscription(s, p, en, life, keep, size)
       \/ \E k \in DOMAIN subs, p \in Priorities,
              life \in Lifetimes, keep \in KeepAlives, size \in MsgSizes :
             ModifySubscription(k, p, life, keep, size)
       \/ \E s \in Sessions : \E S \in SUBSET SubsOf(s) : DeleteSubscriptions(s, S)
       \/ \E s \in Sessions, en \in BOOLEAN : \E S \in SUBSET SubsOf(s) :
             SetPublishingMode(s, S, en)
       \/ \E k \in DOMAIN subs : Republish(k)
       \/ \E s \in Sessions, r \in Requests : PublishQueued(s, r) \/ PublishTooManyAcks(s, r)

ServerStep ==
    /\ UNCHANGED gone
    /\ \/ \E s \in Sessions : SessionInactive(s) \/ SessionClosed(s)
       \/ \E k \in DOMAIN subs, n \in 0..MaxAvail : ItemsChanged(k, n)
       \/ \E s \in DOMAIN reqq : \E i \in DOMAIN reqq[s] : RequestExpires(s, i)

ClientsGo ==
    /\ ClientsLeave /\ ~ gone /\ gone' = TRUE
    /\ UNCHANGED <<session, subs, prios, reqq, waiting, forgotten>>

Timeout(k) ==
    /\ k \in DOMAIN subs /\ PublishTimeout(k)
    /\ History(0) /\ UNCHANGED gone

Next ==
    \/ (ClientStep \/ ServerStep \/ ClientsGo) /\ History(0)
    \/ \E s \in Sessions :
          /\ ~ gone /\ UNCHANGED gone
          /\ PublishAnswered(s) /\ History(FirstAttentive(s))
    \/ \E k \in DOMAIN subs : Timeout(k)

SubsSpec == Init /\ [][Next]_vars

(* Publish timers are periodic: every subscription goes on ticking.        *)
SubsFairSpec == SubsSpec /\ \A k \in SubIds : WF_vars(Timeout(k))

----------------------------------------------------------------------------
(* A subscription that is late, or that has notifications left to send,    *)
(* never waits while its session has a publish request parked: the request *)
(* that could carry its message was used (receive_publish_request, the     *)
(* drain loop of server_subscription_publish_timeout).                     *)
AttentiveNoRequest ==
    \A k \in DOMAIN subs : Attentive(subs[k]) => reqq[subs[k].session] = <<>>

(* The requests parked by a session.                                       *)
ParkedBy(s) == IF s \in DOMAIN reqq THEN Ids(reqq[s]) ELSE {}

(* No publish request that was parked is lost, answered twice or left      *)
(* behind: the ones a client waits for are those parked, each once, and    *)
(* those that had too many acknowledgements, and a session has a queue     *)
(* exactly as long as it has subscriptions.                                *)
RequestsAccounted ==
    /\ DOMAIN reqq = {s \in Sessions : SubsOf(s) # {}}
    /\ \A s \in Sessions : /\ waiting[s] = ParkedBy(s) \cup forgotten[s]
                          /\ ParkedBy(s) \cap forgotten[s] = {}
    /\ \A s \in DOMAIN reqq : /\ Len(reqq[s]) <= ReqsPerSession
                             /\ Cardinality(Ids(reqq[s])) = Len(reqq[s])

(* The priorities of a session: each one once, and each subscription once, *)
(* in the queue of its own priority.                                       *)
PrioritiesSound ==
    \A s \in Sessions :
        LET ps == prios[s]
        IN  /\ \A i, j \in DOMAIN ps : ps[i].prio = ps[j].prio => i = j
            /\ Len(IterOrder(ps)) = Cardinality(SubsOf(s))
            /\ \A k \in SubsOf(s) : \E i \in DOMAIN ps :
                  ps[i].prio = subs[k].prio /\ k \in ToSet(ps[i].queue)

(* A subscription that waits to be answered is passed by others of its     *)
(* priority fewer times than a session may have subscriptions              *)
(* (reconfigure_priority_subscriptions_queue_last_sub).                    *)
RoundRobin ==
    \A k \in DOMAIN subs : passed[k] < SubsPerSession

(* A publish request that a client waits for is answered (by a message, a  *)
(* keep-alive, or an error) or its session goes, if no subscription is     *)
(* created for ever and the request did not fail for its acknowledgements. *)
RequestsEnd ==
    (<>[][DOMAIN subs' \subseteq DOMAIN subs]_vars)
        => \A s \in Sessions, r \in Requests :
              [](r \in waiting[s] \ forgotten[s] => <>(r \notin waiting[s]))

(* A subscription whose client went away is closed: the lifetime counter   *)
(* runs out.                                                               *)
UnattendedClosed == gone ~> (subs = << >>)

(* A request whose treatment failed is answered at once: a client waits    *)
(* for no request that is not parked.                                      *)
FailedIsAnswered == \A s \in Sessions : waiting[s] \subseteq ParkedBy(s)

(* The priorities of a session are kept in increasing order.               *)
PrioritiesIncreasing ==
    \A s \in Sessions : \A i, j \in DOMAIN prios[s] :
        i < j => prios[s][i].prio < prios[s][j].prio
=============================================================================
