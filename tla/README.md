# A TLA+ verification of S2OPC

S2OPC is an OPC UA toolkit in C: a client/server stack (sockets, secure
channels, services, application wrappers), a PubSub stack and the helpers they
share. This directory holds TLA+ models of the parts where the order of things
decides whether the program is right, the TLC configurations that explore them
on small instances, and proofs checked by TLAPS that hold for instances of
every size.

The models are translated from the C source, not from its documentation.
`PROJECT.json` gives for every definition the lines it stands for, and for
every property a mutation of the model, a plausible bug, that the property
catches.

## 1. The system

### 1.1 Threads and queues

The client/server toolkit runs four kinds of thread:

| thread | code | takes its work from |
|---|---|---|
| sockets | `sockets/sopc_sockets_network_event_mgr.c` | `select()` and `socketsInputEventQueue` |
| secure channels (a looper) | `secure_channels/*` | one queue: socket events, timer events, requests of the services |
| services (a looper) | `services/*` | one queue: secure channel events, timers, requests of the application |
| timers | `Common/helpers/sopc_event_timer_manager.c` | the list of timers, every few milliseconds |

The layers never call each other for work: they post events. An event carries
an *index* (of a slot of `socketsArray`, of `secureConnectionsArray`, of a
listener, of a timer) and indexes are used again as soon as what they named is
gone. Most of the hazards of this code come from that: an event is treated long
after it was posted, and its index may by then name something else.

### 1.2 Inventory

Paths are relative to `src/src/`. "Hard" says what testing hardly reaches.

**Sockets layer** (`ClientServer/sockets/`). State: `socketsArray` (state,
descriptor, connection, write queue, blocked flag, listener and its count of
connections, remaining addresses), the input event queue, the signal socket
that interrupts `select()`. Operations: create a listener, create a connection
(several addresses in turn), accept, write, close, close a listener, and the
network events read, write, connected, failed, exception. Calls up:
`LISTENER_OPENED`, `LISTENER_CONNECTION`, `LISTENER_FAILURE`, `CREATED`,
`CONNECTION`, `FAILURE`, `RCV_BYTES`. Hard: wake-up of a thread that blocks in
`select()`; partial and blocked writes; reports of `select()` used after the
input events have changed the array. Correct when: no event is left waiting; the
bytes of a connection go out once, in order; a dead connection is reported; the
count of a listener is right.

**Secure connection state manager**
(`ClientServer/secure_channels/sopc_secure_connection_state_mgr.c`). State:
`secureConnectionsArray` (state, side, socket index, listener, timers, keys,
tokens, pending requests). Operations: `SC_CONNECT`, `SC_DISCONNECT`,
`SC_SERVICE_SND_MSG`, `SC_DISCONNECTED_ACK`, the socket events, the received
messages (HEL, ACK, OPN, CLO, ERR, MSG), the timers (establishment, renewal of
the token, request), the reverse connections. Hard: a connection can be ended
by five parties at once; late events. Correct when: requests reach the channel
they were meant for; the services get one answer and one notification; an
index always comes back.

**Secure listener state manager** (`sopc_secure_listener_state_mgr.c`). State:
`secureListenersArray` (state, socket, the array of its connections). Operations:
`EP_OPEN`, `EP_CLOSE`, the listener events, bookkeeping of connections, reverse
endpoints. Correct when: the listener and its connections agree.

**Chunks manager** (`sopc_chunks_mgr.c`). State per connection: sequence
numbers, request identifiers, the requests that wait for an answer, the chunks
of the message being received. Hard: sequence numbers at their end, answers
after a timeout, messages cut at any byte.

**Event timers** (`Common/helpers/sopc_event_timer_manager.c`). State: the sorted
list, the identifiers that are free. Operations: create, change the period,
cancel, evaluate. Hard: identifiers used again between the expiry and the
treatment of its event; periodic timers that are late; lists that cannot grow.

**Loopers and queues** (`sopc_event_handler.c`, `sopc_async_queue.c`). A thread,
a queue, a condition variable, a poison pill. Hard: stopping.

**Services** (`ClientServer/services/`). The core (`bgenc/`) is generated from a
B model (`bsrc/`) that is proved in its own right; the base machines (`b2c/`) are
written by hand. State: channels, sessions, request handles, address space, and:

- *subscriptions* (`subscription_core*.c`, `subscription_mgr.c`,
  `subscription_core_bs.c`, `subscription_priority_sub_queue_bs.c`): state normal,
  late or keep-alive, lifetime and keep-alive counters, the priorities of each
  session with their queues. Operations: create, modify, delete, publishing mode,
  publish, republish, the tick of the publish timer, the end of a session;
- *publish requests* (`publish_request_queue_bs.c`): a queue per session, bounded,
  with an expiration time per request;
- *monitored items* (`monitored_item_notification_queue_bs.c`,
  `monitored_item_pointer_bs.c`): a circular queue per item with overflow at either
  end, a monitoring mode, and a count of available notifications per subscription
  that every handler keeps up.

Hard: publish queues at their limit, requests and notifications that wait for
each other, counters kept incrementally, queues resized while they overflow.
Correct when: a request and a message that could carry each other never both
wait; every request is answered; notifications leave in order and a loss is told.

**Client and server wrappers** (`ClientServer/frontend/`). Synchronous calls on
top of the asynchronous toolkit: a state machine per connection, two mutexes, a
condition variable per request. Hard: a caller that gives up while its answer
arrives.

**Security key service** (`Common/sks/`) and **PubSub** (`PubSub/`). Tokens that
follow each other with time; a publisher thread and a subscriber thread,
sequence numbers that wrap. Hard: the end of the token identifiers, lost and
repeated messages, keys that arrive late.

**The rest**: crypto, PKI, encoders, generated types, XML loaders, address
space, logger, platform layer. Sequential computation or plain wrappers; listed
in `PROJECT.json` with the reason why they are not modelled.

## 2. The modules

```
  Sockets  <--- SocketsProofs        EventTimers <--- EventTimersProofs
     ^  ^--- MCSockets                    ^--- MCEventTimers
     |
  ScSockets <--- ScSocketsProofs (which extends SocketsProofs too)
        ^--- MCScSockets

  SecureChannel ---> AtMostOnce  (implements)
     ^  ^--- MCSecureChannel
     |
  SecureChannelProofs <--- SecureChannelCalls

  NotificationQueue <--- MonitoredItem <--- MonitoredItemProofs
                               ^--- MCMonitoredItem
  Subscriptions <--- SubscriptionsProofs
        ^--- MCSubscriptions
```

`SequenceFacts` holds what the proofs share about sequences (their elements, their
ends, removing elements, relations between neighbours and between all pairs) and
how they do induction. `Lists` holds the one operator on lists that several models
share, `Only`, in the form the proofs can use.

The modules meet at named places. `ScSockets` is `Sockets` with what is above it.
`SecureChannel` begins where `ScSockets` ends, at a connection that is
established, and takes the stream below it as what `Sockets` shows it to be: in
order, whole, until it is closed. `Subscriptions` takes from `MonitoredItem` one
number, the available notifications, and lets it change in any way.

### 2.1 Sockets

`socks` is `socketsArray`, `inQ` the input queue, `signal` the byte on the signal
socket, `raising` the moment between the two halves of
`SOPC_Sockets_EnqueueEvent`, `thr` where the thread stands and the descriptor sets
that `select()` returned, `scQ` the queue of the layer above.

A round of the thread is `Select`, then the input events one by one
(`TreatInputEvent`) until `InputEventsTreated`, then the walk through the array
(`SocketConnected`, `SocketReadyToRead`, `SocketReadyToWrite`,
`ListenerConnectionAttempt`, ...; `SocketException` is the second test of the same
slot). One step is one event or one slot: the upper layer and the network move in
between.

Data are abstracted to what the properties tell apart. A buffer is `MsgLen`
units; a write accepts any number of them. `net` is the state of the TCP
connection in the kernel; `select()` *may* report a descriptor (`MayRead`,
`MayWrite`) and *must* report some (`MustRead`, `MustWrite`). The kernel gives the
lowest free descriptor, as POSIX says, so descriptors are reused within a round.
`owner`, `given` and `wire` are history: no guard reads them.

`Spec` puts the layer below the most general user: any well-formed event at any
time, including events with indexes that are stale. What holds there holds below
the real upper layer.

### 2.2 ScSockets

Extends `Sockets`: the same thread, and above it the two state managers and what
the services keep of a channel. `sc` is `secureConnectionsArray`, `lsn`
`secureListenersArray`, `armed` the establishment timers that run, `svcQ` the
queue of the services, `svc` the channels they hold, `asked` the connections they
wait for. A handler of the secure channel looper is one action; the internal
events it enqueues "as next" are run by the same looper before anything else,
hence part of it. The events it posts to the sockets are *not* part of it: they
go to `pend` and are posted one by one by `EnqueueNext`, the sockets thread
running in between, because the code posts them one by one without a lock.

What a peer can do is `OnSocketRcvBytes`: any message that the state allows, a
wrong one, or part of one. The services acknowledge `SC_DISCONNECTED`, may refuse
a channel they are told of, and send requests for the channels they hold.

Left out: reverse connections, the renewal of the token (`CONNECTED` stands for
both connected states; see `SecureChannel`), the content of the messages.

### 2.3 EventTimers

`timers` is the sorted list, `timerIdsFreed` and `timerIdMax` the identifiers,
`creating` the calls of `Create` that have read the clock and not yet taken the
mutex (the one interleaving the mutex does not exclude). `held` is the identifier
that the user of a timer keeps, `posted` the events on their way to it. Users come
in three kinds, after the handlers in `sopc_secure_connection_state_mgr.c` and the
services: single-shot timers whose handler forgets the identifier, request timers
whose handler marks the request expired and keeps the identifier, periodic
timers. `outOfMemory` lets each list fail to grow at each place where the code
tests for it; a run explores both cases.

### 2.4 SecureChannel and AtMostOnce

Both ends of an established channel run the code that is modelled, so a chunk
that one end refuses was sent by the other in good faith. `conn` holds for each
end what `SOPC_SecureConnection` holds: the state (connected, or connected with a
renewal asked), the current and the precedent token, whether the server may use
the new one, sequence numbers, and the chunks of a message not yet complete.
`sentRequestIds` is the list of requests the client waits for, `running` and
`posted` its timers before and after they expire (an expiry is an event in a
queue, treated later), `wire` the chunks in flight. Above, `context` and `cpt` are
the request handles of the services (`request_handle_bs.c`), `toSc` and `toSvc` the
two queues between them and the channel, `status` what the application was told.

| action | code |
|---|---|
| `Request`, `TreatServicesEvent` | `service_mgr.c`, `io_dispatch_mgr.c`: a handle is taken and the request goes down, or cannot be encoded and fails at once, its handle staying taken (section 4, item 7); answers, failures, timeouts and the end of the channel release handles |
| `TreatRequest` | `SC_Chunks_TreatSendMessageBuffer`: sent whole, refused, aborted after some chunks, or not recorded |
| `TimerExpires`, `TreatRenewTimer` (a renewal is asked, or the channel closed), `TreatRequestTimeout` | `SOPC_SecureConnectionStateMgr_OnTimerEvent` |
| `ClientReceive`, `ServerReceive` | `SC_Chunks_TreatReceivedBuffer` to the state managers: token, signature, sequence number, request identifier, assembly, then the message, the renewal or the closing |
| `Respond` | an answer of the server's services, in any order, whole or aborted |
| `Disconnect` | `SC_DISCONNECT`, or the connection is lost |

Token identifiers, sequence numbers and handles have tiny ranges so that they are
used again; the keys of a token and the call a message is about are identities
that no check of the code but the signature reads. A token may have expired when
a chunk comes (`MayHaveExpired`): the receiver then ends the channel, legitimately.
`Init` is a channel renewed once, with the client having used the new token or
not. The recursion over sequence numbers is a recursive function.

`AtMostOnce` says what the services may rely on: a call is executed at most once,
ends in one way and for good, as answered (by its own answer, after it was executed), failed or timed
out, and always ends. It has no channel, token, chunk or handle.

### 2.5 NotificationQueue and MonitoredItem

`NotificationQueue` has no variables: each function of
`monitored_item_notification_queue_bs.c` is an operator on an item (its queue, size,
discard policy, kind and the flag that remembers the overflow event). Elements are
a value with its overflow bit, an event, or the overflow event; payloads are
numbers in the order of production. `MonitoredItem` drives one item: notifications,
mode changes, changes of its node, resizing, and publish responses that take any
number of notifications. `available` is the item's part of the count that
`local_update_available_notifs` keeps. `delivered`, `lost`, `overflows` and
`dropped` are history.

`EventOps` says what may put a *value* in the queue of an *event* item. The code
lets two operations do so: enabling the item while its node can be read, and a
change of its node (section 4, item 8). The queue functions then meet elements
they were not written for, up to a failed assertion
(`BitOnValues`). `monitored_item` leaves out exactly these values: there an event item is
created in any mode, disabled, which clears its queue, and enabled again, which
adds nothing, as when its node cannot be read.

### 2.6 Subscriptions

`subs` holds the subscriptions (state, publishing enabled, more notifications,
first message sent, counters, size of a message, available notifications), `prios`
the priorities of each session with their queues, `reqq` the queue of publish
requests of each session that has one, `waiting` the requests not yet answered
(history; answers of discarded and expired requests count as answers), `forgotten`
those of them that failed for the number of their acknowledgements (history; see
section 4, item 9). One action per service and per event of the services looper; `PublishTimeout` is the whole
handler, the loop that goes on answering requests while notifications are left
included (a recursive function of the number of messages). `AddToPriority` inserts as the code does, not
as its B specification says (section 4, item 6). A tick of a subscription that was
deleted may hit the next one on the same index: ticks are possible at any time,
so those are covered.

Left out: sequence numbers, the messages kept for Republish, diagnostics, failures
of allocation. Sessions are active, orphaned (no channel) or closed; the life of a
session itself is not modelled.

## 3. What is checked

Bounds have names (`QueueBound`, `OutBound`, `MaxInst`, `MaxClients`, `MaxRequests`, `MaxTime`,
`MaxPosted`, `MaxAddrs`, `MaxAvail`, `MaxForgotten`); they limit how much can be in flight, never what a step
may do.

| run | instance | properties |
|---|---|---|
| `sockets` | 2 slots, 1 connection, 1 listener, 2 buffers of 2 units | `TypeOK`, `NoLostWakeup`, `NoPhantomConnection`, `StreamIntact`, `PendingWriteWatched`, `IdentityKept` |
| `sockets_live` | 1 slot, 2 addresses, urgent data | `EventsTreated`, `DeadClosed` |
| `sc_client` | 2 slots, 1 connection index, 2 connections after one another | `RequestsReachOwner`, `ClosingIsReleased`, `ServicesHoldLiveChannels`, `OneAnswer`, `LateSocketClosed` |
| `sc_server` | 2 slots, 1 endpoint, 2 connections after one another on 1 index, 3 requests of the services, no client | `ScTypeOK`, `ListenerKnowsConnections`, `CloseReachesOwner` |
| `sc_live` | 1 slot, 2 connections after one another | `ConnectAnswered`, `ClosingEnds` |
| `timers` | 1 request timer, 2 periodic ones, 3 periods, 3 identifiers, with and without failures of allocation (1.6 million states) | `TimersSorted`, `IdsAccounted`, `ExpiredArePosted` |
| `secure_channel` | 2 calls of 1 to 3 chunks, 2 chunks per message at most, 2 token identifiers, sequence numbers up to 7, 1 renewal asked, the server may end the channel, buffers may fail (1 million states) | `TypeOK`, `PeerNeverRefused`, `MessagesWhole`, `WaitedIsTimed`, `RenewalAhead` |
| `secure_channel_calls` | 3 calls through 2 handles, no renewal, the client may end the channel, the record of a request may fail | `HandlesAccounted`, `CallsAtMostOnce`, `CallsEnd` |
| `monitored_item` | 1 item of either kind, sizes 2 and 3, 9 notifications | `AvailExact`, `InOrder`, `LossSignalled`, `NewestKept`, `OverflowOnce` |
| `subscriptions` | 1 session, 2 subscriptions, 2 priorities, 3 publish requests, 2 of them parked at most, 1 with too many acknowledgements, lifetimes of 2 ticks | `AttentiveNoRequest`, `RequestsAccounted`, `PrioritiesSound`, `RoundRobin` |
| `subscriptions_live` | 1 subscription, 3 requests, clients that leave | `RequestsEnd`, `UnattendedClosed` |
| `sub_priorities_order` | 3 subscriptions of 3 priorities | `PrioritiesIncreasing` violated |

**Why these bounds.** The hazards need *re-use*: of a slot, of a descriptor, of an
index, of an identifier. Two slots and one connection index, or two identifiers
for three holders, are the smallest instances in which everything is used again
while an event about its last use is in flight, and a listener together with a
connection of it needs two slots. Two buffers of two units make partial writes,
writes that block between buffers and within one. One event in each queue is
enough for the sockets, because an event is treated alone; the runs above the
sockets allow two or three, so that a close and a request, or the notification
and its acknowledgement, are in flight together. Three requests are what open,
close, open takes. Three periods make two periodic timers restart in one
evaluation on either side of a third timer. On the channel, a message of three
chunks where two are allowed is refused by its sender, one of two can be aborted
between its chunks; two token identifiers make the second renewal reuse the
identifier of the precedent token (a channel starts renewed once), and numbers that
restart above 4 restart in most behaviours. Three calls on two handles make every
handle used again while an answer, a timeout or a failure about its last use is on
its way. Sizes 2 and 3 of a queue give growth and shrinking with something left
over; size 1 is left out because shrinking to it loses a value without a sign
(section 4). Nine notifications fill and empty the queue several times. Two parked
requests out of three make the queue overflow. Larger instances were run by hand
and pass: `secure_channel` with two renewals asked (5.4 million states),
`secure_channel_calls` with both ends closing (0.8 million states), `subscriptions`
with clients that leave (1.4 million states) and with lifetimes of three ticks
(1.1 million states).

What these instances do not reach: `sockets_live` has one slot, so `DeadClosed` is
about connections that were asked for, not accepted ones; a listener has one
connection in `sc_server`, so the walk round the array of its connections is in the
proof of `ListenersAgree` only; no run has queues of size one, two sessions, or more
than one monitored item.

The invariant runs use a `VIEW`: under the general user only the length of `scQ`
matters, and above the sockets no property reads the content of the buffers. Buffers are
interchangeable in `sockets`, publish requests in `subscriptions` (symmetry).

Deadlock is checked in `sockets`, `sockets_live` and `subscriptions`, where some
step is always possible. The others really end: the bounds on time,
notifications or connections are used up, the channel is closed and everything
told, or the clients have left and their subscriptions are closed.

**What the properties say.**

- `NoLostWakeup`, `EventsTreated`: the queue and the byte that announces an event
  are two things, written one after the other by another thread, and the byte is
  consumed *before* the queue is emptied. Emptied first, an event would be lost.
- `StreamIntact`: what the peer gets is a prefix of what was written and, while the
  connection lives, what is missing is exactly what is queued.
- `PendingWriteWatched`: bytes are queued exactly when `select()` watches for
  writing. If not, either the output or, since a blocked socket is not read, the
  input would stall.
- `NoPhantomConnection`: the counter of a listener is decremented on every path.
- `IdentityKept`: no open slot changes its descriptor or its connection.
- `DeadClosed`: the end of a connection reaches the layer above, even if it is
  first met by a write, whose error is ignored at that place.
- `RequestsReachOwner`, `ServicesHoldLiveChannels`: the reason of the `CLOSING`
  state. Requests carry an index only; what makes them safe is that the index is
  kept until an acknowledgement that is behind them in the same queue.
- `ClosingIsReleased`, `ClosingEnds`: that acknowledgement always exists, once, and
  comes.
- `OneAnswer`, `ConnectAnswered`: a request to connect has one answer, whoever ends
  the attempt, and it comes even if the peer never speaks.
- `ListenerKnowsConnections`: what `EP_CLOSE` will close is what there is to close.
- `CloseReachesOwner`: on the side of the listener a close does not hit another
  connection, whatever has been used again. It is stated for accepted sockets; a
  client connection that has recorded the socket of its predecessor (section 4)
  closes that one.
- `LateSocketClosed`: a late `SOCKET_CREATED` is closed, as long as the connection
  index has not been given to another connection. `NoOrphanSocket` is the same
  without that hypothesis, and fails.
- `TimersSorted`, `ExpiredArePosted`: the walk stops at the first timer in the
  future, so a list out of order would delay timers without bound.
- `IdsAccounted`: an identifier belongs to one timer or is free, once; none is lost
  while the lists can grow.
- `PeerNeverRefused`: whatever renewals, aborted messages, timeouts and restarts of
  the numbers come in between, no end refuses a chunk of the other for its token,
  keys, sequence number, request identifier or number of chunks. It is the reason of
  `serverNewSecuTokenActive` and of the precedent token.
- `MessagesWhole`: nothing of an aborted message is put in front of the next.
- `WaitedIsTimed`, `RenewalAhead`: every request waited for, a renewal included, has
  its timer running or its expiry on its way; a connected client always has its
  next renewal ahead, and one that asked for it either waits for the answer or the
  answer was dropped because it came late.
- `HandlesAccounted`: a call that is waited for has a handle, and a handle in use is
  on its way down, waited for, or about to be released, whatever fails below the
  services; the only other handles in use are those of calls whose message could
  not be encoded. `EndedHandlesFree` is the same without these, and fails
  (section 4, item 7).
- `CallsAtMostOnce`: the refinement. `SecureChannel` implements the safety of
  `AtMostOnce` (same names for `status` and `executed`) step by step: a late answer
  never ends the call that has taken its handle, and a call that has ended stays as
  it ended. `CallsEnd` is its liveness: every call ends.
- `AvailExact`: the incremental count is what the queue holds, under every mode
  change, resize, overflow and partial publish. A message is built from the count.
- `InOrder`, `LossSignalled`: values leave in order, once, and every hole in what a
  client gets has an overflow bit on one of its sides.
- `NewestKept`, `OverflowOnce`: an event item always ends with its newest event. The
  overflow event is made once, exactly when an event was lost, and is then queued or
  delivered, unless the item was disabled with it in its queue (`dropped`): then no
  loss of that item is ever reported.
- `BitOnValues`: the element on which an overflow bit is set is a value. It fails for
  event items (item 8).
- `AttentiveNoRequest`: a subscription that is late or has notifications left never
  waits while its session has a request parked. The two are handled by different
  handlers (the request that comes, the timer that ticks); each must use the other up.
- `RequestsAccounted`: a request that a client waits for is parked, once, or failed
  for its acknowledgements; one that was parked is answered when it leaves the queue,
  also when the queue is full, the last subscription goes or the request expires.
  `FailedIsAnswered`: a client waits for parked requests only. It fails
  (item 9).
- `PrioritiesSound`: each subscription is in the queue of its priority, once, no
  priority is there twice and the queues hold nothing else, so that the iteration of
  the code visits all subscriptions and only them.
- `RoundRobin`: an attentive subscription is passed over by fewer answers to others
  of its priority than there can be subscriptions.
- `RequestsEnd`, `UnattendedClosed`: a request that did not fail for its
  acknowledgements is answered (by a message, a
  keep-alive or an error) or goes with its session, unless subscriptions are created
  and deleted for ever, each with its counters anew; a subscription whose client has
  gone is closed.

**Fairness.** `Sockets`: the sockets thread, the writer of the signal byte and the
reader of `scQ` are threads that the system schedules (weak fairness); nothing is
assumed of the network and of the user. `DeadClosed` has the hypothesis that the
thread gets back to `select()` again and again, because the loop that empties the
queue ends only if the user pauses. `ScSockets`: the four threads again, and each
running timer expires; strong fairness, because the bound on `scQ` (which the code
does not have) disables the expiry at times. Nothing is assumed of the peer.
`SecureChannel`: the loopers serve their queues, the stream moves, request timers
expire; the server's services may never answer and renewals may never be asked.
`Subscriptions`: publish timers are periodic, so each existing subscription goes on
ticking; nothing is assumed of clients.

## 4. Known disagreements

What the models showed to differ from what the code, its comments or its
specification say. Item 6 is a run that expects a violation. The properties of the
others are stated in the modules and named here; to see their traces, make a
configuration that checks one of them on the instance given.

1. **Connected too early** (`Sockets.ConnectedIsEstablished`; `MCSockets` with 2
   slots and `Msgs` empty). The walk after `select()` uses descriptor sets that are
   older than the input events just treated. A descriptor that was writable is
   closed, the kernel gives it to a new `connect()`, and the walk finds it in the
   write set: `SO_ERROR` is 0 while the connection is under way, and the slot becomes
   `CONNECTED` (`sopc_sockets_network_event_mgr.c:219`).
2. **A message on another connection** (`ScSockets.WriteReachesOwner`; the instance
   of `sc_client`). `SOCKET_WRITE` carries a slot only. If the socket has died and
   the slot was taken by another connection, the bytes are written there, or that
   connection is closed. The closing requests of the same queue compare the
   connection; this one does not (`sopc_sockets_event_mgr.c:650`).
3. **A socket nobody closes** (`ScSockets.NoOrphanSocket`; the instance of
   `sc_client`). A connection that ends before its `SOCKET_CREATED` is treated has
   socket index 0. If its index is given to a new connection first, the new one
   records the old socket, then its own. A `SOCKET_FAILURE` of the old connection that
   comes that late has the same effect: the socket index is not compared, the new
   connection is ended and its socket, taken for closed, is not. That variant
   reaches server connections too (one endpoint, three slots).
4. **A listening socket nobody closes** (`ScSockets.NoOrphanListener`; the instance
   of `sc_server`). The same for an endpoint that is closed while it is being
   opened, and opened again (`sopc_secure_listener_state_mgr.c:124`).
5. **A timer cancelled by another's holder** (`EventTimers.WaitedForIsRunning`; two
   single-shot timers). A timer that fires frees its identifier at once, but its
   holder learns of it later and may cancel the identifier in between, when it is
   already that of a new timer. A request that has expired keeps its identifier even
   longer, until its answer.
6. **Priorities out of order** (`sub_priorities_order`). The loop of
   `add_subscription` (`subscription_core_1.c:193`) moves priorities up by a swap that
   leaves an undetermined priority in the place its next turn looks at, so it stops
   after one swap: 1 added to 2, 3 gives 2, 1, 3. `bsrc/subscription_core.mch:180`
   says "in increasing order", and the iteration from the last place down is commented
   "in decreasing order" (`bsrc/subscription_core_i.imp:144`). Subscriptions of
   priority 1 are then served before those of priority 2.
7. **The handle of a request that cannot be encoded**
   (`SecureChannel.EndedHandlesFree`; the instance of `secure_channel_calls`).
   `service_mgr.c:887-897` sets `l_req_handle` to the undetermined handle when the
   message cannot be encoded, a request that is too large is enough, and then frees
   *that* handle: the one that was taken stays in use. The application is told that
   its request failed; the handle comes back only when the channel is lost, which
   tells the application of the same request again (in `AtMostOnce` a call that has
   failed stays failed, so that step is a stuttering one). The B machine requires of
   `client_remove_req_handle` a handle in use
   (`bsrc/request_handle_bs.mch:157-160`).
8. **A value in the queue of an event item** (`MonitoredItem.BitOnValues`; one event
   item, `EventOps = {"mode", "node"}`). An item that is
   enabled, or whose node is added or removed, is given a value
   (`subscription_mgr.c:583`) whatever attribute it monitors. When the queue of an
   event item is full, the overflow bit is then to be set on an event, and
   `SOPC_ASSERT(NULL != notifElt->value)`
   (`monitored_item_notification_queue_bs.c:217`) fails.
9. **A publish request without an answer** (`Subscriptions.FailedIsAnswered`; the
   instance of `subscriptions`). A publish request with
   more acknowledgements than allowed fails, but its response is marked as one to be
   sent later (`subscription_mgr.c:1198-1204`). It is not parked, the response is
   forgotten (`service_mgr.c:742-745`) and no error is sent
   (`io_dispatch_mgr.c:260`), so the client waits for ever.
   `bsrc/subscription_mgr.mch:147` says "if service failed, response is synchronous".

Others that were met while reading and are modelled as they are:

- `AddConnection` (`sopc_secure_listener_state_mgr.c:183`) and
  `client_fresh_req_handle` (`request_handle_bs.c:84`) search round an array without
  looking at the place they start from: with that one alone free, they refuse.
- `discard_oldest_publish_request` ("Dequeue oldest publish request",
  `publish_request_queue_bs.c:118`) and `discard_oldest_republish_notif`
  (`notification_republish_queue_bs.c:97`) take the last element of a list that is
  filled at its end: the newest goes.
- A subscription whose priority is modified keeps its old timer period though the
  new interval is recorded and returned (`subscription_core.c:762`), and a new
  priority is refused (`TooManyPriorities`) while the old one, about to be removed,
  still counts.
- Publish requests parked when their session is closed or loses its channel are
  dropped without an answer.
- An event item that is disabled loses its queue, the overflow event included
  (`subscription_core.c:1540`), while `queueOverflowEventTriggered` stays set: that
  loss, and any later one of the same item, is never reported (`dropped` in
  `OverflowOnce`).
- A data queue that discards its newest values loses them when it shrinks, and
  shrinking to size one does so without an overflow bit
  (`monitored_item_notification_queue_bs.c:676`).
- A renewal answered after its timeout is dropped: the client stays in
  `SC_CONNECTED_RENEW` on the old token, the server has the new one, and the channel
  ends when the old token expires. Nothing else is asked (`RenewalAhead`).
- With a failed allocation of a request context (`OutOfMemory = {"context"}`) the
  final chunk is not sent though it took its numbers, and the abort chunk that
  follows has the next request identifier: the server refuses it
  (`PeerNeverRefused` fails). The comment at `sopc_chunks_mgr.c:4423` quotes the rule.
- A request already reported as timed out may be reported as failed too when the
  channel ends (`sopc_secure_connection_state_mgr.c:122`); `CallsAtMostOnce` shows that
  it does no harm.

## 5. What is proved

Every theorem holds for every value of the constants that the named assumptions
allow; the runs show the same formulas on one instance. All of it is safety.
The proofs about a component are in modules of their own.

**Sockets** (`SocketsProofs`), for every number of slots,
connections, endpoints, addresses, messages and sizes, from `SocketsAssumption` (the
sizes are positive, 0 is not a connection or endpoint index):

- `Typing`: `Spec => []TypeOK`. `TypeOK` is inductive as it stands because the part
  about `thr.idx` in the exception step is in it. What is not shallow in it: the
  count of a listener stays a natural number although it is decremented by the
  closing of connections whose listener may have been closed, and its slot used
  for another, meanwhile; the index of the walk stays in the array; every event in
  the two queues is well formed. One lemma for each helper (`CloseSocketType`,
  `TreatWriteBufferType`, `EnqueuedType`, ...), then one step per action.
- `WakeupsKept`: `Spec => []NoLostWakeup`, inductive relative to `TypeOK`. The
  argument is the order of the two pairs of operations: the byte is written after
  the event is queued and read before the queue is emptied; so in the states
  between, either `raising` or `pc = "input"` holds.
- `StreamKept`, `PendingWatched`, `IdentityAlways`: `SlotStep(s, t)` lists what any
  step may do to one slot (leave it, free it, open it clean, let the connection go
  on, write, count), and `NextSlots` proves it of every step once. The three
  properties then follow from an invariant of one slot, `SlotSound`, that adds to
  them what is needed before they can be violated: a slot that is not `CONNECTED`
  holds no bytes, one that is free is clean.
- `NoPhantom`: the count of a listener is at most the number of slots that were
  accepted from it. A close takes one away from both sides, on every path
  (`NextPlaces`); the rest is the theorems about cardinalities.

**Secure connections** (`ScSocketsProofs`), for every number of slots, connection
indexes, endpoints, places of a listener and connections created, from
`SocketsAssumption` and `ScSocketsAssumption` (the indexes are 1 to their number, the
owners 0 to `MaxInst`): `ScTyping` (`ScTypeOK`), `RequestsReachTheirOwner`
(`RequestsReachOwner`), `ClosingReleased` (`ClosingIsReleased`), `HeldChannelsLive`
(`ServicesHoldLiveChannels`), `AnsweredOnce` (`OneAnswer`) and `ListenersAgree`
(`ListenerKnowsConnections`). None of them is inductive alone; the invariant is `ScInv`
(`ScInvariant`), of three parts.

- `Types`: each event in each queue names a connection, an endpoint or a slot as its
  type says (`ScEvent`), and the state of an entry says on which side it is and
  whether it has an owner (`Entry`). For the steps of the sockets thread this rests on
  `LayerType` of `SocketsProofs`, and on `LayerKnown`: the upper connection of a slot
  is a connection index, or an endpoint for a listening one.
- `Channels`: what the services hold, ask and are told is about the connection that
  has the index now, which is connected or `CLOSING` (`SvcKept`, `AsksKept`,
  `TellsKept`). This survives the reuse of the index because of the order of the
  events of one channel: nothing is told behind its `SC_DISCONNECTED` (`TellOrder`),
  nothing is asked behind its acknowledgement (`AskOrder`), and while an
  acknowledgement is on its way the services hold nothing on the index and will hear
  nothing of it (`AckSilent`). An index is `CLOSING` exactly while one of the two is
  in flight (`ClosingKept`). The rest of it counts the answers (`Answers`), for which
  a connection that is asked for has no index yet (`NewOnes`) and one that a listener
  accepted was never asked for (`ServersUnasked`).
- `Agree`: the places of a listener are the connections of its endpoint, each once.

Each thing that can happen to a channel (it is opened, lost, dropped, acknowledged,
asked for, refused, accepted, told, held) is one lemma about `Channels` (`OpenMove` to
`AskMove`), each helper of the handlers one lemma about the context it works on
(`StopTimerType` to `CloseEpListenerType`), and each handler composes them. The loop of
`CloseEpListener` is an induction on the places of the array (`CloseSteps`).

**Monitored items** (`MonitoredItemProofs`), for queues of every size and histories
of every length: `CountExact`, `OrderKept`, `NewestStays`, `OverflowReported`,
and `LossAlwaysSignalled`, of the properties `AvailExact`, `InOrder`,
`NewestKept`, `OverflowOnce` and `LossSignalled`. The inductive
invariant is `ItemInv`: the values of the queue rise from the last one delivered to
the last one produced; the queue of an event item ends with its newest event, has
one overflow event at most and one place more than its size only for that event;
a hole between two neighbours, the last one delivered and the last one produced
included, has a bit at one side. Hypotheses: `EventOps = {}` (no value comes into the
queue of an event item, which may still be disabled, cleared and enabled), because
with such values the code fails its own assertion (section 4, item 8), and, for `LossAlwaysSignalled` alone, `1 \notin Sizes`, because
a queue of one value carries no overflow bit (section 4).

**Event timers** (`EventTimersProofs`), for any number of holders, identifiers, delays
and periods, any time and lists of any length, from `EventTimersAssumption`:
`ListSorted` (`TimersSorted`), `IdentifiersKept` (`IdsAccounted`) and the action property
`NoTimerMissed` (`ExpiredArePosted`). The inductive invariant is `ListInv`: the list is
sorted; its identifiers differ from each other, and from those of the freed list,
which differ too; all are at most `timerIdMax`, and nothing up to it is missing unless
the lists may fail to grow. `ListInv` is inductive only with both halves. An
evaluation takes the restarted timers out by their identifiers, so with an
identifier used twice it would take out a timer that has not fired; and the prefix
of the list at which it stops is the set of the expired timers only if the list is
sorted (`DueFacts`). The lemmas give, for each operator of the model, what it does to
the elements, to the order and to the identifiers (`SortedInsertFacts`,
`ReinsertedFacts`, `DueFacts`, `PartsFacts`, `GiveBackFacts`, `FreshFacts`); then there is
one lemma per operation. `NoTimerMissed` is the second half of `EvaluationStep`. The
bounds `MaxTime` and `MaxPosted` are guards of actions, and the theorems hold for every
value of them.

**Secure channel** (`SecureChannelProofs`, `SecureChannelCalls`), for any number of
calls, handles, chunks, token identifiers and renewals, sequence numbers of any range, both ends closing at any time and any
allocation failing, from `SecureChannelAssumption`. Two parts of it were added for
the proofs: 0 is not a token identifier (a connection without a token has 0, and
the server draws another one when it draws 0:
`sopc_secure_connection_state_mgr.c:2118`) and `SNMax` is a natural number.

- `WellTyped` (the exact type of each variable) and `TypesHold` (`TypeOK`).
  `SecureChannelProofs` also proves what each step does to each variable, once; the
  proofs of `SecureChannelCalls` use these lemmas and do not open the actions again. What the
  recursive functions compute is proved there too: the sequence number after n
  chunks, and the failures posted at the end of the channel, one for each request
  and in order.
- `RequestsTimed` (`WaitedIsTimed`) from `TimerInv`: identifiers on the list are
  below the next one and distinct, a timer runs or has expired and not both, the
  renewal timer is there exactly while no renewal is asked.
- `MessagesArriveWhole` (`MessagesWhole`) from `StreamInv`: on each direction every
  chunk `Fits` the one before it, the first one the last chunk that was taken
  (`Follows(Prev, wire, Link)`), and the chunks that are kept are the first parts of
  one message. It needs no hypothesis: with a request that could not be recorded the
  numbers have a gap (`NoGap` fails), but what is assembled is still whole.
- `HandlesNeverLost` (`HandlesAccounted`) and `ChannelImplementsCalls`
  (`CallsAtMostOnce`, the refinement of `AtMostOnce`) from `CallsInv`, which has four
  parts. `IdsInv`: what is on the wire or with the server's services under the
  identifier of a waited request is about its call and handle. `ExecInv`: a call whose
  request is in the queue or on the wire is not executed, and is there once; what is
  answered was executed. `ExpiredOnce`: the timeout of a request is told once.
  `OwnInv`: as long as the channel is open a handle in use for a call that is waited
  for has exactly one owner, the request going down, the one waited for or the event
  going up; a handle left over by a call that could not be encoded has none, so that
  no answer or timeout can reach it; a response in the
  queue of the services still owns its handle, nothing before it in the queue can
  free it, and once the channel is lost no event can end a call that is not of its
  handle. The steps map as follows: `Request` is `Issue`, or `Fail` of its call
  when there is no handle or the message cannot be encoded; `ServerRequest` is `Execute`; `TreatServicesEvent` is `Answer`,
  `Fail`, `TimeOut` or, for an event whose handle is free, no step; all others are no
  step.
- `RenewalNeverLost` (`RenewalAhead`) and `NothingRefused` (`PeerNeverRefused`) from two
  invariants. `PlaceInv`: a request waited for is in one place only, on its way to
  the server, with the server's services or on its way back, so the answer the client
  gets is always one it still waits for. `TokenInv`: the client and the server hold
  the same tokens (`InStep`), or the client is one renewal behind (`Behind`) and then
  the server does not send under its new token and every request on the wire is under
  its precedent one; a renewal is asked once at a time, and never while `Behind`;
  nothing sent after the answer to a renewal is under an older token. The second
  state may last: when the answer to a renewal comes after its timeout, the client
  has dropped it, stays in `SC_CONNECTED_RENEW` and goes on with its old token, which is
  the third case of `RenewalAhead`. Each step is first reduced to one of the moves that
  matter here (`StepMoves`: a request, an answer, a renewal asked, granted or taken, a
  chunk kept, an end that leaves, or nothing), then there is one lemma for each move
  and invariant. `NothingRefused` has the hypothesis `NoGap` (`OutOfMemory` has no
  `"context"`): a client that cannot record the request it has encoded drops its last
  chunk although the number is used, so the server finds a gap and refuses the next
  chunk. `RenewalNeverLost` has none.

**Subscriptions** (`SubscriptionsProofs`), for any number of sessions, subscriptions,
publish requests and priorities, queues of any length and any values of the counters,
from `SubscriptionsAssumption`: `NoneWaits` (`AttentiveNoRequest`), `NoRequestIsLost`
(`RequestsAccounted`), `EachInItsQueue` (`PrioritiesSound`) and `ServedInTurn`
(`RoundRobin`). The inductive invariant is `SubsInv`, of five parts.

- The types. They say that the subscriptions of the program are finitely many, which
  the counts of the other parts need.
- `RequestsKept`: the identifiers of the requests parked by a session are told apart
  two by two, and they are those its client waits for, except the requests that failed
  for their acknowledgements (`pending`). The cardinality in
  `RequestsAccounted` follows from it (`DistinctCount`); the form by pairs is the one that
  survives taking requests out anywhere in the queue. What is taken out of a queue by
  an answer, an expiry or a full queue is exactly what is answered (`PopFacts`, `TickFacts`, `ReportAllFacts`).
- `ForgottenKept`: the requests that failed for their acknowledgements are still waited
  for. A new request is none of them, and no answer is about one of them
  (`ForgottenMoved`), so they are told apart from the parked ones for ever.
- `AttentiveNoRequest` itself: the loop of `PublishTimeout` stops when nothing is left to
  send or no request is left (`ReportSteps`), a request that comes is parked only when no
  subscription of the session is attentive, and no other step makes a subscription
  attentive.
- `QueuesKept`: the queues of a session hold its subscriptions as `PrioritiesSound` says,
  there are at most `SubsPerSession` of them, and the times a subscription was passed
  since it became attentive plus its place in its queue are at most `SubsPerSession`
  (`Ranked`). `RoundRobin` alone is not inductive: only the place says how many can
  still pass. The subscription that is served is before the other attentive ones of
  its priority (`FirstFacts`), so each of them moves up by one place when it is passed
  (`MovedPlaced`); a timeout may serve a subscription out of turn, but it needs a
  parked request for that and then, by `AttentiveNoRequest`, none is attentive. Removals only move
  places up (`CutPlaced`), and what comes in is put last, never passed yet
  (`GrownPlaced`).

What the recursive functions compute (the order of the iteration, the loop of the
reports) is in `IterSteps`, `IterFacts`, `ReportSteps` and `ReportAllFacts`; then there is
one lemma per action.

**Induction.** The induction theorems of the library take an operator as a
parameter, which the provers cannot instantiate. `SequenceFacts` states induction on
sets instead (`InductionTo`: a set that has 0 and, with i, also i + 1 up to n, has all of
0..n) and the proofs about recursive functions apply it to the set of the indexes
where the claim holds. That a recursive function exists, with its type and its
recurrence, is proved once (`RecursionTyped`), and what a selection keeps of its list is
another lemma (`OnlyFacts`).

**Only model-checked**: all liveness (`EventsTreated`, `DeadClosed`, `ConnectAnswered`,
`ClosingEnds`, `CallsEnd`, `RequestsEnd`, `UnattendedClosed`), since
fairness and `ENABLED` are out of the prover's reach; and two invariants of `ScSockets`,
`CloseReachesOwner` and `LateSocketClosed`, which need an invariant on the order in
which the events that name one slot stand in the input queue of the sockets, in the
events still to be posted and in the queue of the secure channel layer.

## 6. Not modelled, and why

See `components` in `PROJECT.json`. In short: parts that are sequential
computation on data (encoders, crypto, parsers, generated types, address space:
most of the lines of the repository), thin wrappers of operating systems, the
parts of the B core of the services that are proved in their own development, and
the parts of the plan below. Within the modelled parts: the start and the stop of
the threads, reverse connections, the opening of the first token and the
evaluation of certificates, client sessions, the messages kept for Republish, the
filters of monitored items, the content of messages and of URIs, and failures of
allocation other than those named above.

## 7. Plan

In this order; each item names its module, what it adds and what it should show.

1. The proofs of `CloseReachesOwner` and `LateSocketClosed` (`ScSockets`), from an
   invariant on the events that name one slot.
2. `ReverseConnect`, an extension of `ScSockets`: reverse endpoints and
   ReverseHello, with the retry timers.
3. `Looper`: the queue with its condition variable, the loopers, their stop.
4. `ClientWrapper`: synchronous requests, connect and disconnect with the two
   mutexes, the callback of the toolkit. Hazard: a context freed before it is
   signalled.
5. `KeyService` and `PubSub`: tokens with time, the update task, publisher and
   subscriber with sequence numbers modulo 2^16.
6. `Sessions`: the life of a session against its timer and its channels.
