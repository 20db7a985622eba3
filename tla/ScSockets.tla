------------------------------ MODULE ScSockets ------------------------------
(***************************************************************************)
(* The life of the secure connections: the connection and listener state   *)
(* managers of ClientServer/secure_channels/ on top of the Sockets layer,  *)
(* and below the services, which hold the index of every channel they have *)
(* been told of and acknowledge its end.                                   *)
(*                                                                         *)
(* Everything reaches the secure channel layer through the one queue of    *)
(* its looper, scQ: socket events, timer events, requests of the services. *)
(* A handler also runs the internal events it enqueues "as next" (send the *)
(* farewell message, then close): they are one step here.  The events it   *)
(* sends to the sockets are posted one by one, the sockets thread running  *)
(* in between.                                                             *)
(*                                                                         *)
(* Indexes are reused at every level (slots, descriptors, connection       *)
(* indexes) and events in flight carry indexes only; the owner of an event *)
(* or of an index, a number never given twice, is history that no guard    *)
(* reads.  Not modelled here: reverse connections, renewal of the security *)
(* token, the content of the messages.                                     *)
(***************************************************************************)
EXTENDS Sockets

CONSTANTS
  MaxInst,      \* bound: connections created, client and server side
  MaxClients,   \* bound: connections the services ask for
  MaxRequests   \* bound: other requests of the services

ASSUME ScSocketsAssumption ==
  /\ MaxInst \in Nat /\ Owners = 0..MaxInst
  /\ MaxClients \in Nat
  /\ Msgs = 1..MaxInst             \* a message is named after its sender
  /\ IsFiniteSet(ConnIds) /\ ConnIds = 1..Cardinality(ConnIds)

VARIABLES
  sc,        \* secureConnectionsArray
  lastSc,    \* lastSecureConnectionArrayIdx
  lsn,       \* secureListenersArray
  armed,     \* establishment timers that are running, <<connection index, timer>>
  pend,      \* events the current handler has still to post to the sockets
  svcQ,      \* queue of the looper of the services
  svc,       \* what the services hold: the owner of each connected channel
  asked,     \* client connections the services wait an answer for
  inst,      \* connections created so far
  requests   \* other requests made so far

scVars == <<sc, lastSc, lsn, armed, pend, svcQ, svc, asked, inst, requests>>
vars == <<socks, inQ, signal, raising, thr, scQ, scVars>>

-----------------------------------------------------------------------------
(* secureConnectionsArray.  CONNECTED stands for SC_CONNECTED and          *)
(* SC_CONNECTED_RENEW; the states a handler only passes through are left   *)
(* out.  owner is history.                                                 *)
ScStates == {"SC_CLOSED", "SC_CLOSING", "TCP_INIT", "TCP_NEGOTIATE", "SC_INIT",
             "SC_CONNECTING", "SC_CONNECTED"}

ClosedSC ==
  [state |-> "SC_CLOSED", isServerConnection |-> FALSE, socketIndex |-> 0,
   serverEndpointConfigIdx |-> 0, connectionTimeoutTimerId |-> 0, owner |-> 0]

\* Free entries are looked for from the one after the last that was given,
\* going round, that one last.
SC_InitNewConnection(c) ==
  LET n == Cardinality(ConnIds)
      after(d) == ((lastSc - 1 + d) % n) + 1
  IN  \E d \in 1..n :
        /\ c = (IF lastSc = 0 THEN d ELSE after(d))
        /\ sc[c].state = "SC_CLOSED"
        /\ \A b \in 1..(d - 1) :
             sc[IF lastSc = 0 THEN b ELSE after(b)].state # "SC_CLOSED"

NoFreeConnection == \A c \in ConnIds : sc[c].state # "SC_CLOSED"

(***************************************************************************)
(* What a handler works on: the arrays, the timers, and the events it      *)
(* sends down (pend) and up (svcQ).                                        *)
(***************************************************************************)
Ctx == [sc |-> sc, lsn |-> lsn, armed |-> armed, pend |-> pend, svcQ |-> svcQ]

Commit(K) ==
  /\ sc' = K.sc /\ lsn' = K.lsn /\ armed' = K.armed
  /\ pend' = K.pend /\ svcQ' = K.svcQ

ToSockets(K, e) == [K EXCEPT !.pend = Append(@, e)]
ToServices(K, type, c, o) ==
  [K EXCEPT !.svcQ = Append(@, [type |-> type, id |-> c, owner |-> o])]

\* Mutant: the timer is not started.
SC_StartConnectionEstablishTimerNot(K, c) == K

\* The establishment timer of connection c is started, stopped.  A timer is
\* named after the connection it was started for; that the event timers use
\* their identifiers again is the matter of EventTimers.
SC_StartConnectionEstablishTimer(K, c) ==
  [K EXCEPT !.armed = @ \cup {<<c, K.sc[c].owner>>},
            !.sc[c].connectionTimeoutTimerId = K.sc[c].owner]

StopConnectionTimer(K, c) ==
  [K EXCEPT !.armed = @ \ {<<c, K.sc[c].connectionTimeoutTimerId>>},
            !.sc[c].connectionTimeoutTimerId = 0]

\* SOPC_ChunksMgr_Dispatcher: a chunk is sent on the socket of connection c.
SendChunk(K, c) ==
  ToSockets(K, Event("WRITE", K.sc[c].socketIndex, 0, K.sc[c].owner, K.sc[c].owner))

-----------------------------------------------------------------------------
(* secureListenersArray: connections of an endpoint, in an array that      *)
(* AddConnection walks from the entry after the last one it filled.        *)
ConnSlots == 0..(MaxConnections - 1)

ClosedListener ==
  [state |-> "CLOSED", socketIndex |-> 0, lastIdx |-> 0, conns |-> [n \in ConnSlots |-> 0]]

\* The entries that the loop of AddConnection looks at, by their distance to
\* lastIdx: it stops when it is back there.
AddSteps == 1..(IF MaxConnections = 1 THEN 1 ELSE MaxConnections - 1)

FreeEntry(l, d) == l.conns[(l.lastIdx + d) % MaxConnections] = 0

CanAdd(l) == \E d \in AddSteps : FreeEntry(l, d)

AddConnection(l, c) ==
  LET first == CHOOSE d \in AddSteps : FreeEntry(l, d) /\ \A b \in 1..(d - 1) : ~FreeEntry(l, b)
      n == (l.lastIdx + first) % MaxConnections
  IN  [l EXCEPT !.conns[n] = c, !.lastIdx = n]

RemoveConnection(l, c) ==
  LET first(n) == l.conns[n] = c /\ \A m \in 0..(n - 1) : l.conns[m] # c
  IN  [l EXCEPT !.conns = [n \in ConnSlots |-> IF first(n) THEN 0 ELSE @[n]]]

-----------------------------------------------------------------------------
(* The ways a connection ends.                                             *)

\* Mutant: the index is free at once.
SC_CloseConnectionNoClosing(K, c, socketFailure) ==
  LET s  == K.sc[c]
      K1 == IF socketFailure THEN K
            ELSE ToSockets(K, Event("CLOSE", s.socketIndex, c, NoBuf, s.owner))
  IN  [K1 EXCEPT !.sc[c] = ClosedSC]

\* Mutant: the entry is not cleared.
SC_CloseConnectionNotCleared(K, c, socketFailure) ==
  LET s  == K.sc[c]
      K1 == IF socketFailure THEN K
            ELSE ToSockets(K, Event("CLOSE", s.socketIndex, c, NoBuf, s.owner))
  IN  [K1 EXCEPT !.sc[c].state = IF s.state = "SC_CONNECTED" THEN "SC_CLOSING" ELSE "SC_CLOSED"]

\* The index of a channel the services know stays CLOSING until they have
\* acknowledged its end.
SC_CloseConnection(K, c, socketFailure) ==
  LET s  == K.sc[c]
      K1 == IF socketFailure THEN K
            ELSE ToSockets(K, Event("CLOSE", s.socketIndex, c, NoBuf, s.owner))
  IN  [K1 EXCEPT !.sc[c] =
         IF s.state = "SC_CONNECTED"
         THEN [ClosedSC EXCEPT !.state = "SC_CLOSING", !.owner = s.owner]
         ELSE ClosedSC]

\* INT_EP_SC_DISCONNECTED.
EpScDisconnected(K, ep, c) ==
  IF K.lsn[ep].state = "OPENED" THEN [K EXCEPT !.lsn[ep] = RemoveConnection(@, c)] ELSE K

\* Mutant: the services are not told of a connection lost by its socket.
CloseNowFailureSilent(K, c, socketFailure) ==
  LET s  == K.sc[c]
      K1 == SC_CloseConnection(K, c, socketFailure)
      K2 == IF socketFailure THEN K1
            ELSE IF s.state = "SC_CONNECTED" THEN ToServices(K1, "SC_DISCONNECTED", c, s.owner)
            ELSE IF s.isServerConnection THEN K1
            ELSE ToServices(K1, "SC_CONNECTION_TIMEOUT", c, s.owner)
  IN  IF s.isServerConnection THEN EpScDisconnected(K2, s.serverEndpointConfigIdx, c) ELSE K2

\* Mutant: the listener is not told.
CloseNowListenerForgotten(K, c, socketFailure) ==
  LET s == K.sc[c]
      K1 == SC_CloseConnection(K, c, socketFailure)
  IN  IF s.state = "SC_CONNECTED" THEN ToServices(K1, "SC_DISCONNECTED", c, s.owner)
      ELSE IF s.isServerConnection THEN K1
      ELSE ToServices(K1, "SC_CONNECTION_TIMEOUT", c, s.owner)

\* Close connection c, tell the services, and the listener it came from.
CloseNow(K, c, socketFailure) ==
  LET s  == K.sc[c]
      K1 == SC_CloseConnection(K, c, socketFailure)
      K2 == IF s.state = "SC_CONNECTED" THEN ToServices(K1, "SC_DISCONNECTED", c, s.owner)
            ELSE IF s.isServerConnection THEN K1
            ELSE ToServices(K1, "SC_CONNECTION_TIMEOUT", c, s.owner)
  IN  IF s.isServerConnection THEN EpScDisconnected(K2, s.serverEndpointConfigIdx, c) ELSE K2

\* Mutant: a connection that is CLOSING is closed once more.
SC_CloseSecureConnectionAgain(K, c, immediateClose, socketFailure) ==
  LET s  == K.sc[c]
      K1 == IF s.state = "SC_CONNECTED" THEN K ELSE StopConnectionTimer(K, c)
      farewell == ~immediateClose /\ (s.isServerConnection \/ s.state = "SC_CONNECTED")
  IN  IF s.state = "SC_CLOSED" THEN K1
      ELSE CloseNow(IF farewell THEN SendChunk(K1, c) ELSE K1, c, socketFailure)

\* SC_CloseSecureConnection: unless the close is immediate, a server sends
\* ERR and a connected client CLO before it closes.
SC_CloseSecureConnection(K, c, immediateClose, socketFailure) ==
  LET s  == K.sc[c]
      K1 == IF s.state = "SC_CONNECTED" THEN K ELSE StopConnectionTimer(K, c)
      farewell == ~immediateClose /\ (s.isServerConnection \/ s.state = "SC_CONNECTED")
  IN  IF s.state \in {"SC_CLOSED", "SC_CLOSING"} THEN K1
      ELSE CloseNow(IF farewell THEN SendChunk(K1, c) ELSE K1, c, socketFailure)

\* CloseEpListener: the listening socket is closed first, then (internal
\* events enqueued "as next") the connections, the last of the array first.
CloseEpListener(K, ep, socketFailure) ==
  LET l == K.lsn[ep]
      K1 == [K EXCEPT !.lsn[ep] = ClosedListener]
      K2 == IF socketFailure THEN K1
            ELSE ToSockets(K1, Event("CLOSE_LISTENER", l.socketIndex, ep, NoBuf, 0))
      close(k, c) == IF c = 0 THEN k ELSE SC_CloseSecureConnection(k, c, FALSE, FALSE)
      closed[n \in 0..MaxConnections] ==
        IF n = 0 THEN K2 ELSE close(closed[n - 1], l.conns[MaxConnections - n])
  IN  CASE l.state = "OPENED"  -> closed[MaxConnections]
        [] l.state = "OPENING" -> K1
        [] OTHER               -> K

-----------------------------------------------------------------------------
(* The looper of the secure channel layer: one action per event.           *)

Handle(type) ==
  /\ pend = <<>>
  /\ scQ # <<>> /\ Head(scQ).type = type
  /\ scQ' = Tail(scQ)
  /\ UNCHANGED <<socks, inQ, signal, raising, thr, svc, asked, requests>>

\* A client connection whose socket is being connected.
Connecting(c) == sc[c].state = "TCP_INIT" /\ ~sc[c].isServerConnection

\* Mutant: a socket created too late is ignored.
OnSocketCreatedIgnored ==
  LET e == Head(scQ) IN
  /\ Handle("CREATED")
  /\ Commit(IF Connecting(e.id) THEN [Ctx EXCEPT !.sc[e.id].socketIndex = e.aux] ELSE Ctx)
  /\ UNCHANGED <<lastSc, inst>>

\* SOCKET_CREATED
OnSocketCreated ==
  LET e == Head(scQ) IN
  /\ Handle("CREATED")
  /\ Commit(IF Connecting(e.id) THEN [Ctx EXCEPT !.sc[e.id].socketIndex = e.aux]
            ELSE ToSockets(Ctx, Event("CLOSE", e.aux, e.id, NoBuf, e.owner)))
  /\ UNCHANGED <<lastSc, inst>>

\* SOCKET_CONNECTION: HEL is sent on the socket recorded for the connection,
\* which is closed when HEL cannot be made.
OnSocketConnection ==
  LET e == Head(scQ) IN
  /\ Handle("CONNECTION")
  /\ \/ /\ Connecting(e.id)
        /\ \/ Commit(SendChunk([Ctx EXCEPT !.sc[e.id].state = "TCP_NEGOTIATE"], e.id))
           \/ Commit(SC_CloseSecureConnection(Ctx, e.id, FALSE, FALSE))
     \/ /\ ~Connecting(e.id)
        /\ Commit(ToSockets(Ctx, Event("CLOSE", e.aux, e.id, NoBuf, e.owner)))
  /\ UNCHANGED <<lastSc, inst>>

\* SOCKET_FAILURE: the index of the socket is not compared.  A socket that no
\* connection has yet, or a listening one that a late SOCKET_WRITE has closed,
\* gives an identifier that need not be the index of a connection.
OnSocketFailure ==
  LET e == Head(scQ) IN
  /\ Handle("FAILURE")
  /\ Commit(IF e.id \in ConnIds THEN SC_CloseSecureConnection(Ctx, e.id, TRUE, TRUE) ELSE Ctx)
  /\ UNCHANGED <<lastSc, inst>>

\* INT_SC_RCV_HEL (server), answered by ACK.
RcvHel(c) ==
  /\ sc[c].state = "TCP_INIT" /\ sc[c].isServerConnection
  /\ Commit(SendChunk([Ctx EXCEPT !.sc[c].state = "SC_INIT"], c))

\* INT_SC_RCV_ACK (client): OPN is sent.
RcvAck(c) ==
  /\ sc[c].state = "TCP_NEGOTIATE"
  /\ Commit(SendChunk([Ctx EXCEPT !.sc[c].state = "SC_CONNECTING"], c))

\* INT_SC_RCV_OPN, server side: OPN is sent back, the services are told.
onServerSideOpen(c) ==
  LET K == StopConnectionTimer(SendChunk([Ctx EXCEPT !.sc[c].state = "SC_CONNECTED"], c), c) IN
  /\ sc[c].state = "SC_INIT"
  /\ Commit(ToServices(K, "EP_CONNECTED", c, sc[c].owner))

\* INT_SC_RCV_OPN, client side.
onClientSideOpen(c) ==
  LET K == StopConnectionTimer([Ctx EXCEPT !.sc[c].state = "SC_CONNECTED"], c) IN
  /\ sc[c].state = "SC_CONNECTING"
  /\ Commit(ToServices(K, "SC_CONNECTED", c, sc[c].owner))

\* INT_SC_RCV_CLO (server), INT_SC_RCV_ERR (client): closed without farewell.
RcvClo(c) ==
  /\ sc[c].state = "SC_CONNECTED" /\ sc[c].isServerConnection
  /\ Commit(SC_CloseSecureConnection(Ctx, c, TRUE, FALSE))

RcvErr(c) ==
  /\ ~sc[c].isServerConnection
  /\ Commit(SC_CloseSecureConnection(Ctx, c, TRUE, FALSE))

\* INT_SC_RCV_FAILURE, and any message that is wrong or not expected.
RcvFailure(c) == Commit(SC_CloseSecureConnection(Ctx, c, FALSE, FALSE))

\* SOCKET_RCV_BYTES: the chunk manager makes messages of the bytes.  Nothing
\* changes for a message that is not complete, and for MSG on a connection.
OnSocketRcvBytes ==
  LET c == Head(scQ).id IN
  /\ Handle("RCV_BYTES")
  /\ \/ Commit(Ctx)
     \/ /\ sc[c].state \notin {"SC_CLOSED", "SC_CLOSING"}
        /\ \/ RcvHel(c) \/ RcvAck(c) \/ onServerSideOpen(c) \/ onClientSideOpen(c)
           \/ RcvClo(c) \/ RcvErr(c) \/ RcvFailure(c)
  /\ UNCHANGED <<lastSc, inst>>

\* TIMER_SC_CONNECTION_TIMEOUT: the reference on the timer is dropped, of
\* whichever connection has the index now.
OnConnectionTimeout ==
  LET c == Head(scQ).id
      K == [Ctx EXCEPT !.sc[c].connectionTimeoutTimerId = 0] IN
  /\ Handle("TIMER_SC_CONNECTION_TIMEOUT")
  /\ Commit(IF sc[c].state = "SC_CONNECTED" THEN K
            ELSE SC_CloseSecureConnection(K, c, FALSE, FALSE))
  /\ UNCHANGED <<lastSc, inst>>

\* SC_CONNECT
ScConnect ==
  LET o == Head(scQ).owner IN
  /\ Handle("SC_CONNECT")
  /\ \/ \E c \in ConnIds :
          /\ SC_InitNewConnection(c)
          /\ lastSc' = c
          /\ LET K == [Ctx EXCEPT !.sc[c] = [@ EXCEPT !.state = "TCP_INIT", !.owner = o]]
             IN  Commit(ToSockets(SC_StartConnectionEstablishTimer(K, c),
                                  Event("CREATE_CONNECTION", c, 0, NoBuf, o)))
     \/ /\ NoFreeConnection
        /\ Commit(ToServices(Ctx, "SC_CONNECTION_TIMEOUT", 0, o))
        /\ UNCHANGED lastSc
     \/ \E c \in ConnIds :      \* no key, no certificate, or no timer: closed at once
          /\ SC_InitNewConnection(c)
          /\ lastSc' = c
          /\ Commit(ToServices(Ctx, "SC_CONNECTION_TIMEOUT", c, o))
  /\ UNCHANGED inst

\* SC_DISCONNECT
ScDisconnect ==
  /\ Handle("SC_DISCONNECT")
  /\ Commit(SC_CloseSecureConnection(Ctx, Head(scQ).id, FALSE, FALSE))
  /\ UNCHANGED <<lastSc, inst>>

\* SC_SERVICE_SND_MSG: the message is sent, or (INT_SC_SND_FATAL_FAILURE) it
\* cannot be and the connection is closed.
ScSendMsg ==
  LET c == Head(scQ).id IN
  /\ Handle("SC_SERVICE_SND_MSG")
  /\ \/ /\ sc[c].state = "SC_CONNECTED"
        /\ \/ Commit(SendChunk(Ctx, c))
           \/ Commit(SC_CloseSecureConnection(Ctx, c, FALSE, FALSE))
     \/ sc[c].state # "SC_CONNECTED" /\ Commit(Ctx)
  /\ UNCHANGED <<lastSc, inst>>

\* SC_DISCONNECTED_ACK
ScDisconnectedAck ==
  LET c == Head(scQ).id IN
  /\ Handle("SC_DISCONNECTED_ACK")
  /\ Commit(IF sc[c].state = "SC_CLOSING" THEN [Ctx EXCEPT !.sc[c] = ClosedSC] ELSE Ctx)
  /\ UNCHANGED <<lastSc, inst>>

\* EP_OPEN
EpOpen ==
  LET ep == Head(scQ).id IN
  /\ Handle("EP_OPEN")
  /\ Commit(IF lsn[ep].state # "CLOSED" THEN Ctx
            ELSE ToSockets([Ctx EXCEPT !.lsn[ep].state = "OPENING"],
                           Event("CREATE_LISTENER", ep, 0, NoBuf, 0)))
  /\ UNCHANGED <<lastSc, inst>>

\* EP_CLOSE
EpClose ==
  /\ Handle("EP_CLOSE")
  /\ Commit(CloseEpListener(Ctx, Head(scQ).id, FALSE))
  /\ UNCHANGED <<lastSc, inst>>

\* SOCKET_LISTENER_OPENED
OnListenerOpened ==
  LET e == Head(scQ) IN
  /\ Handle("LISTENER_OPENED")
  /\ Commit(IF lsn[e.id].state = "OPENING"
            THEN [Ctx EXCEPT !.lsn[e.id].state = "OPENED", !.lsn[e.id].socketIndex = e.aux]
            ELSE ToSockets(Ctx, Event("CLOSE_LISTENER", e.aux, e.id, NoBuf, 0)))
  /\ UNCHANGED <<lastSc, inst>>

\* SOCKET_LISTENER_CONNECTION, INT_EP_SC_CREATE (initServerSC), INT_EP_SC_CREATED
OnListenerConnection ==
  LET e == Head(scQ)
      ep == e.id
      o == inst + 1
      refused == ToSockets(Ctx, Event("CLOSE", e.aux, 0, NoBuf, 0))
      Accepted(c) ==
        LET K == [Ctx EXCEPT !.sc[c] = [@ EXCEPT !.state = "TCP_INIT",
                                                 !.isServerConnection = TRUE,
                                                 !.socketIndex = e.aux,
                                                 !.serverEndpointConfigIdx = ep,
                                                 !.owner = o]]
        IN  ToSockets(SC_StartConnectionEstablishTimer(K, c),
                      Event("ACCEPTED_CONNECTION", e.aux, c, NoBuf, o))
  IN
  /\ Handle("LISTENER_CONNECTION")
  /\ \/ /\ lsn[ep].state # "OPENED" \/ NoFreeConnection
        /\ Commit(refused)
        /\ UNCHANGED <<lastSc, inst>>
     \/ /\ lsn[ep].state = "OPENED"      \* no key, no certificate, or no timer
        /\ \E c \in ConnIds : SC_InitNewConnection(c) /\ lastSc' = c
        /\ Commit(refused)
        /\ UNCHANGED inst
     \/ /\ lsn[ep].state = "OPENED"
        /\ inst < MaxInst
        /\ inst' = o
        /\ \E c \in ConnIds :
             /\ SC_InitNewConnection(c)
             /\ lastSc' = c
             /\ Commit(IF CanAdd(lsn[ep])
                       THEN [Accepted(c) EXCEPT !.lsn[ep] = AddConnection(@, c)]
                       ELSE SC_CloseSecureConnection(Accepted(c), c, FALSE, FALSE))

\* SOCKET_LISTENER_FAILURE
OnListenerFailure ==
  /\ Handle("LISTENER_FAILURE")
  /\ Commit(CloseEpListener(Ctx, Head(scQ).id, TRUE))
  /\ UNCHANGED <<lastSc, inst>>

SecureChannels ==
  \/ OnSocketCreated \/ OnSocketConnection \/ OnSocketFailure \/ OnSocketRcvBytes
  \/ OnConnectionTimeout \/ ScConnect \/ ScDisconnect \/ ScSendMsg \/ ScDisconnectedAck
  \/ EpOpen \/ EpClose \/ OnListenerOpened \/ OnListenerConnection \/ OnListenerFailure

\* SOPC_Sockets_EnqueueEvent, for the next event of the current handler.  The
\* event and the byte that announces it appear together: Sockets is about
\* the moment between them, after which the thread makes one more round.
EnqueueNext ==
  /\ pend # <<>>
  /\ inQ' = Append(inQ, Head(pend))
  /\ signal' = TRUE
  /\ pend' = Tail(pend)
  /\ UNCHANGED <<socks, raising, thr, scQ, sc, lastSc, lsn, armed, svcQ, svc, asked, inst, requests>>

\* The timer thread: a timer of connection index c expires.
ConnectionTimerExpires(c, timer) ==
  /\ <<c, timer>> \in armed
  /\ armed' = armed \ {<<c, timer>>}
  /\ Emit("TIMER_SC_CONNECTION_TIMEOUT", c, 0, timer)
  /\ UNCHANGED <<socks, inQ, signal, raising, thr>>
  /\ UNCHANGED <<sc, lastSc, lsn, pend, svcQ, svc, asked, inst, requests>>

-----------------------------------------------------------------------------
(* The services: what they are told, and what they ask.                    *)

Told(types) ==
  /\ svcQ # <<>> /\ Head(svcQ).type \in types
  /\ svcQ' = Tail(svcQ)
  /\ UNCHANGED <<socks, inQ, signal, raising, thr, sc, lastSc, lsn, armed, pend, inst, requests>>

\* EP_CONNECTED, SC_CONNECTED: the channel is recorded, or refused.
SvcConnected ==
  LET e == Head(svcQ) IN
  /\ Told({"EP_CONNECTED", "SC_CONNECTED"})
  /\ asked' = asked \ {e.owner}
  /\ \/ svc' = [svc EXCEPT ![e.id] = e.owner] /\ UNCHANGED scQ
     \/ Emit("SC_DISCONNECT", e.id, 0, e.owner) /\ UNCHANGED svc

SvcConnectionTimeout ==
  /\ Told({"SC_CONNECTION_TIMEOUT"})
  /\ asked' = asked \ {Head(svcQ).owner}
  /\ UNCHANGED <<svc, scQ>>

SvcDisconnected ==
  LET e == Head(svcQ) IN
  /\ Told({"SC_DISCONNECTED"})
  /\ svc' = [svc EXCEPT ![e.id] = 0]
  /\ Emit("SC_DISCONNECTED_ACK", e.id, 0, e.owner)
  /\ UNCHANGED asked

SvcConnect ==
  /\ inst < MaxInst /\ inst < MaxClients
  /\ inst' = inst + 1
  /\ asked' = asked \cup {inst'}
  /\ Emit("SC_CONNECT", 0, 0, inst')
  /\ UNCHANGED <<socks, inQ, signal, raising, thr>>
  /\ UNCHANGED <<sc, lastSc, lsn, armed, pend, svcQ, svc, requests>>

SvcRequest(type, id, o) ==
  /\ requests < MaxRequests
  /\ requests' = requests + 1
  /\ Emit(type, id, 0, o)
  /\ UNCHANGED <<socks, inQ, signal, raising, thr>>
  /\ UNCHANGED <<sc, lastSc, lsn, armed, pend, svcQ, svc, asked, inst>>

Services ==
  \/ SvcConnected \/ SvcConnectionTimeout \/ SvcDisconnected \/ SvcConnect
  \/ \E c \in ConnIds : /\ svc[c] # 0
                        /\ \E type \in {"SC_DISCONNECT", "SC_SERVICE_SND_MSG"} :
                             SvcRequest(type, c, svc[c])
  \/ \E ep \in EpIds, type \in {"EP_OPEN", "EP_CLOSE"} : SvcRequest(type, ep, 0)

-----------------------------------------------------------------------------
ScInit ==
  /\ Init
  /\ sc = [c \in ConnIds |-> ClosedSC]
  /\ lastSc = 0
  /\ lsn = [ep \in EpIds |-> ClosedListener]
  /\ armed = {}
  /\ pend = <<>>
  /\ svcQ = <<>>
  /\ svc = [c \in ConnIds |-> 0]
  /\ asked = {}
  /\ inst = 0
  /\ requests = 0

SocketsStep == (SocketsThread \/ Network) /\ UNCHANGED scVars

ScNext ==
  \/ SocketsStep \/ SecureChannels \/ EnqueueNext \/ Services
  \/ \E c \in ConnIds, timer \in Owners : ConnectionTimerExpires(c, timer)

ScSpec == ScInit /\ [][ScNext]_vars

\* The threads run: sockets, secure channels, services, timers.  A timer that
\* is not stopped expires (strong fairness, because the bound of scQ, which
\* the code does not have, disables it at times).  Nothing is assumed of the
\* network or of the peer.
ScFairness ==
  /\ WF_vars(SocketsThread /\ UNCHANGED scVars)
  /\ WF_vars(SecureChannels) /\ WF_vars(EnqueueNext)
  /\ WF_vars(SvcConnected \/ SvcConnectionTimeout \/ SvcDisconnected)
  /\ \A c \in ConnIds, timer \in Owners : SF_vars(ConnectionTimerExpires(c, timer))

ScFairSpec == ScSpec /\ ScFairness

-----------------------------------------------------------------------------
(* Properties.                                                             *)

In(Q, type, o) == \E n \in 1..Len(Q) : Q[n].type = type /\ Q[n].owner = o
CountIn(Q, types, o) == Cardinality({n \in 1..Len(Q) : Q[n].type \in types /\ Q[n].owner = o})

ScEventTypes == OutputTypes \cup {"TIMER_SC_CONNECTION_TIMEOUT", "SC_CONNECT", "SC_DISCONNECT",
                  "SC_SERVICE_SND_MSG", "SC_DISCONNECTED_ACK", "EP_OPEN", "EP_CLOSE"}

\* Types of the variables of the secure channel layer and of the services.
ScTypeOK ==
  /\ \A c \in ConnIds :
       /\ sc[c].state \in ScStates
       /\ sc[c].isServerConnection \in BOOLEAN
       /\ sc[c].socketIndex \in Slots \cup {0}
       /\ sc[c].serverEndpointConfigIdx \in EpIds \cup {0}
       /\ sc[c].owner \in Owners /\ svc[c] \in Owners
       /\ sc[c].state = "SC_CLOSED" => sc[c] = ClosedSC
  /\ \A ep \in EpIds : \A n \in ConnSlots : lsn[ep].conns[n] \in ConnIds \cup {0}
  /\ \A n \in 1..Len(inQ) : inQ[n] \in InputEvents
  /\ \A n \in 1..Len(pend) : pend[n] \in InputEvents
  /\ \A n \in 1..Len(scQ) : scQ[n].type \in ScEventTypes /\ scQ[n].owner \in Owners
  /\ armed \subseteq ConnIds \X Owners /\ asked \subseteq Owners

\* A request of the services never reaches a connection it was not meant
\* for, although it carries a reusable index only: the state CLOSING keeps
\* the index until the acknowledgement, which is behind every such request.
RequestsReachOwner ==
  \A n \in 1..Len(scQ) :
    scQ[n].type \in {"SC_DISCONNECT", "SC_SERVICE_SND_MSG", "SC_DISCONNECTED_ACK"} =>
      sc[scQ[n].id].owner = scQ[n].owner

\* An index is never lost: when CLOSING, either SC_DISCONNECTED is on its way
\* to the services or their acknowledgement is on its way back, not both.
ClosingIsReleased ==
  \A c \in ConnIds :
    sc[c].state = "SC_CLOSING" =>
      CountIn(svcQ, {"SC_DISCONNECTED"}, sc[c].owner)
        + CountIn(scQ, {"SC_DISCONNECTED_ACK"}, sc[c].owner) = 1

\* A channel that the services hold is the one they were told of, connected
\* or with the news of its end on the way.
ServicesHoldLiveChannels ==
  \A c \in ConnIds :
    svc[c] # 0 => /\ sc[c].owner = svc[c]
                  /\ \/ sc[c].state = "SC_CONNECTED"
                     \/ In(svcQ, "SC_DISCONNECTED", svc[c])

\* A client connection that the services asked for gets one answer, not none
\* and not two: the request, the attempt and the answer follow one another.
OneAnswer ==
  \A o \in Owners \ {0} :
    LET attempt == Cardinality({c \in ConnIds : /\ sc[c].owner = o /\ ~sc[c].isServerConnection
                                                /\ sc[c].state \notin {"SC_CONNECTED", "SC_CLOSING"}})
        pending == CountIn(scQ, {"SC_CONNECT"}, o) + attempt
                     + CountIn(svcQ, {"SC_CONNECTED", "SC_CONNECTION_TIMEOUT"}, o)
    IN  pending = (IF o \in asked THEN 1 ELSE 0)

\* The answer comes, even when the peer never speaks: whatever the socket,
\* the peer and the other connections do, the timer or a failure ends the
\* attempt.
ConnectAnswered == \A o \in Owners \ {0} : o \in asked ~> o \notin asked

\* An index that is CLOSING is free again, sooner or later.
ClosingEnds == \A c \in ConnIds : sc[c].state = "SC_CLOSING" ~> sc[c].state # "SC_CLOSING"

\* A listener and the connections it created agree at all times: what
\* EP_CLOSE closes is what there is to close, and a place is given back.
ListenerKnowsConnections ==
  \A ep \in EpIds :
    LET own == {c \in ConnIds : sc[c].isServerConnection /\ sc[c].serverEndpointConfigIdx = ep}
    IN  /\ {lsn[ep].conns[n] : n \in ConnSlots} \ {0} = own
        /\ \A n, m \in ConnSlots : n # m /\ lsn[ep].conns[n] = lsn[ep].conns[m] => lsn[ep].conns[n] = 0

\* A request to close that finds its socket valid, one that a listener
\* accepted, closes the socket it was meant for, although slots and connection
\* indexes have been reused: SOCKET_CLOSE is not applied to a later connection.
CloseReachesOwner ==
  thr.pc = "input" /\ inQ # <<>> =>
    LET e == Head(inQ)
    IN  e.type = "CLOSE" /\ CloseRequestValid(e) /\ socks[e.id].isServerConnection
          => socks[e.id].owner = e.owner

\* "SOCKET_WRITE: requests to write TCP UA message chunk on the socket
\* connection": a message goes to the connection it was written for, or to
\* none, and its treatment does not touch another one.
WriteReachesOwner ==
  thr.pc = "input" /\ inQ # <<>> =>
    LET e == Head(inQ)
    IN  e.type = "WRITE" /\ e.id \in Slots =>
          socks[e.id].state = "CLOSED" \/ socks[e.id].owner = e.owner

\* Nothing in flight: every queue is empty and the sockets thread waits.
Quiet == inQ = <<>> /\ scQ = <<>> /\ svcQ = <<>> /\ pend = <<>> /\ thr.pc = "select"

\* When nothing is in flight no socket is left without the connection that
\* would close it.
NoOrphanSocket ==
  Quiet => \A i \in Slots :
             socks[i].state \in {"CONNECTING", "CONNECTED", "ACCEPTED"} =>
               \E c \in ConnIds : /\ sc[c].socketIndex = i /\ c = socks[i].connectionId
                                  /\ sc[c].owner = socks[i].owner

\* The same while no index has been given twice: a SOCKET_CREATED that comes
\* after the end of its connection gets its socket closed, and so does every
\* other way a connection ends before, while or after its socket is made.
LateSocketClosed == inst = 1 => NoOrphanSocket

\* When nothing is in flight no listening socket is left without a listener.
NoOrphanListener ==
  Quiet => \A i \in Slots :
             socks[i].state = "LISTENING" =>
               \E ep \in EpIds : lsn[ep].state = "OPENED" /\ lsn[ep].socketIndex = i
=============================================================================
