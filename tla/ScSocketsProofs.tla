--------------------------- MODULE ScSocketsProofs ---------------------------
(***************************************************************************)
(* Proofs about the life of the secure connections (ScSockets), for every  *)
(* number of slots, connection indexes, endpoints and connections: the     *)
(* types, what the services hold and are told, the order of the events of  *)
(* one channel in the two queues, the answers to SC_CONNECT and the        *)
(* connections of a listener.                                              *)
(***************************************************************************)
EXTENDS ScSockets, SocketsProofs

-----------------------------------------------------------------------------
(* Types.                                                                  *)

\* What the services are told of a channel they hold, and what they ask of it.
TellTypes == {"EP_CONNECTED", "SC_CONNECTED", "SC_DISCONNECTED"}
AskTypes == {"SC_DISCONNECT", "SC_SERVICE_SND_MSG", "SC_DISCONNECTED_ACK"}

\* An entry of secureConnectionsArray.  A free one is clean, a connection that
\* has begun has an owner, and the state says on which side it is.
ScRec ==
  [state : ScStates, isServerConnection : BOOLEAN, socketIndex : Slots \cup {0},
   serverEndpointConfigIdx : EpIds \cup {0}, connectionTimeoutTimerId : Owners,
   owner : Owners]

Entry ==
  {s \in ScRec :
     /\ s.state = "SC_CLOSED" => s = ClosedSC
     /\ s.state # "SC_CLOSED" => s.owner # 0
     /\ s.isServerConnection => s.serverEndpointConfigIdx \in EpIds
     /\ s.state \in {"SC_CLOSING", "TCP_NEGOTIATE", "SC_CONNECTING"} => ~s.isServerConnection
     /\ s.state = "SC_INIT" => s.isServerConnection}

\* A listener: one that is not open has no connections.
LsnRec ==
  [state : {"CLOSED", "OPENING", "OPENED"}, socketIndex : Slots \cup {0},
   lastIdx : ConnSlots, conns : [ConnSlots -> ConnIds \cup {0}]]

Listener ==
  {l \in LsnRec : /\ l.state = "OPENED" => l.socketIndex \in Slots
                  /\ l.state # "OPENED" => \A n \in ConnSlots : l.conns[n] = 0}

SvcEvent ==
  {e \in [type : TellTypes \cup {"SC_CONNECTION_TIMEOUT"}, id : ConnIds \cup {0}, owner : Owners] :
     e.type \in TellTypes => e.id \in ConnIds}

\* What a handler works on.
Contexts ==
  [sc : [ConnIds -> Entry], lsn : [EpIds -> Listener], armed : SUBSET (ConnIds \X Owners),
   pend : Seq(InputEvents), svcQ : Seq(SvcEvent)]

\* The events of the secure channel layer, each type with what it names.
ScEvent ==
  {e \in [type : ScEventTypes, id : Nat, aux : Slots \cup {0}, buf : {NoBuf}, owner : Owners] :
     /\ e.type \in AskTypes \cup {"CREATED", "CONNECTION", "RCV_BYTES",
                                  "TIMER_SC_CONNECTION_TIMEOUT"} => e.id \in ConnIds
     /\ e.type \in {"LISTENER_OPENED", "LISTENER_CONNECTION", "LISTENER_FAILURE",
                    "EP_OPEN", "EP_CLOSE"} => e.id \in EpIds
     /\ e.type \in {"CREATED", "LISTENER_OPENED", "LISTENER_CONNECTION"} => e.aux \in Slots}

\* The slots: the upper connection of a slot is a connection or an endpoint.
Known(s) ==
  /\ s.state \in {"CONNECTING", "CONNECTED"} => s.connectionId \in ConnIds
  /\ s.state = "LISTENING" => s.connectionId \in EpIds

Types ==
  /\ LayerOK /\ \A i \in Slots : Known(socks[i])
  /\ Ctx \in Contexts
  /\ scQ \in Seq(ScEvent)
  /\ svc \in [ConnIds -> Owners]
  /\ asked \subseteq Owners
  /\ inst \in 0..MaxInst

-----------------------------------------------------------------------------
(* The channels.  X is secureConnectionsArray, V the queue of the services,*)
(* Q the queue of the secure channel layer, S what the services hold, A    *)
(* what they wait for and n the number of connections created.             *)

\* Connection o is the one that has index c, and the services know of it.
Held(X, c, o) == X[c].owner = o /\ X[c].state \in {"SC_CONNECTED", "SC_CLOSING"}

\* Nobody knows yet, or will know, of an attempt that fails.
Attempt(s) == s.state \notin {"SC_CLOSED", "SC_CONNECTED", "SC_CLOSING"}

\* No two indexes have one connection.
OwnersKept(X, n) ==
  \A c \in ConnIds : /\ X[c].owner <= n
                     /\ \A d \in ConnIds : X[c].owner = X[d].owner => c = d \/ X[c].owner = 0

\* What the services ask and what they are told is about the connection that
\* has the index now.
AsksKept(X, Q) == \A e \in Elems(Q) : e.type \in AskTypes => Held(X, e.id, e.owner)
TellsKept(X, V) == \A e \in Elems(V) : e.type \in TellTypes => Held(X, e.id, e.owner)
SvcKept(X, S) == \A c \in ConnIds : S[c] # 0 => Held(X, c, S[c])

\* An acknowledgement is the last thing that the services have to do with a
\* channel: they do not hold it, and will hear no more of it.
AckSilent(Q, V, S) ==
  \A e \in Elems(Q) : e.type = "SC_DISCONNECTED_ACK" =>
    S[e.id] = 0 /\ \A f \in Elems(V) : f.type \in TellTypes => f.id # e.id

\* Nothing is asked of a channel behind its acknowledgement, and a connection
\* is asked for once.
AskOrder ==
  {p \in ScEvent \X ScEvent :
     /\ p[1].type = "SC_DISCONNECTED_ACK" /\ p[2].type \in AskTypes => p[1].id # p[2].id
     /\ p[1].type = "SC_CONNECT" /\ p[2].type = "SC_CONNECT" => p[1].owner # p[2].owner}

\* Nothing is told of a channel behind its end.
TellOrder ==
  {p \in SvcEvent \X SvcEvent :
     p[1].type = "SC_DISCONNECTED" /\ p[2].type \in TellTypes => p[1].id # p[2].id}

\* An index is CLOSING as long as its end is on its way up or the
\* acknowledgement on its way down.
Ending(Q, V, c) ==
  \/ \E e \in Elems(V) : e.type = "SC_DISCONNECTED" /\ e.id = c
  \/ \E e \in Elems(Q) : e.type = "SC_DISCONNECTED_ACK" /\ e.id = c
ClosingKept(X, Q, V) == \A c \in ConnIds : X[c].state = "SC_CLOSING" <=> Ending(Q, V, c)

\* A connection that is asked for has no index yet.
NewOnes(X, Q, n) ==
  \A e \in Elems(Q) : e.type = "SC_CONNECT" =>
    e.owner \in 1..n /\ \A c \in ConnIds : X[c].owner # e.owner

\* One answer is to come, or is there, for each connection asked for.
Attempts(X, o) ==
  {c \in ConnIds : X[c].owner = o /\ ~X[c].isServerConnection
                   /\ X[c].state \notin {"SC_CONNECTED", "SC_CLOSING"}}
AnswerTypes == {"SC_CONNECTED", "SC_CONNECTION_TIMEOUT"}
Answers(X, Q, V, A) ==
  \A o \in Owners \ {0} :
    CountIn(Q, {"SC_CONNECT"}, o) + Cardinality(Attempts(X, o)) + CountIn(V, AnswerTypes, o)
      = IF o \in A THEN 1 ELSE 0

\* The services have asked for no connection that a listener accepted.
ServersUnasked(X, V, A, n) ==
  /\ A \subseteq 1..n
  /\ \A c \in ConnIds : X[c].isServerConnection => X[c].owner \notin A
  /\ \A e \in Elems(V) : e.type = "EP_CONNECTED" => e.owner \notin A

Channels(X, V, Q, S, A, n) ==
  /\ OwnersKept(X, n) /\ AsksKept(X, Q) /\ TellsKept(X, V) /\ SvcKept(X, S)
  /\ AckSilent(Q, V, S) /\ Pairwise(Q, AskOrder) /\ Pairwise(V, TellOrder)
  /\ ClosingKept(X, Q, V) /\ NewOnes(X, Q, n)
  /\ Answers(X, Q, V, A) /\ ServersUnasked(X, V, A, n)

-----------------------------------------------------------------------------
(* The listeners.                                                          *)

\* The connections of endpoint ep, and those listener l has.
OwnOf(X, ep) == {c \in ConnIds : X[c].isServerConnection /\ X[c].serverEndpointConfigIdx = ep}
Places(l) == {l.conns[n] : n \in ConnSlots} \ {0}
Once(l) == \A n, m \in ConnSlots : n # m /\ l.conns[n] = l.conns[m] => l.conns[n] = 0

Agree(K, ep) == Places(K.lsn[ep]) = OwnOf(K.sc, ep) /\ Once(K.lsn[ep])

ScInv ==
  /\ Types
  /\ Channels(sc, svcQ, scQ, svc, asked, inst)
  /\ \A ep \in EpIds : Agree(Ctx, ep)

-----------------------------------------------------------------------------
(* The steps of the sockets.                                               *)

\* At most one event is sent up by a step, and it names what it should.
SentKnown == scQ' = scQ \/ \E e \in ScEvent : e.type \in OutputTypes /\ scQ' = Append(scQ, e)

SlotsKnown == \A i \in Slots : Known(socks[i])

LEMMA EmitKnown ==
  ASSUME NEW type \in OutputTypes, NEW id \in Nat, NEW aux \in Slots \cup {0},
         NEW owner \in Owners, Emit(type, id, aux, owner),
         type \in {"CREATED", "CONNECTION", "RCV_BYTES"} => id \in ConnIds,
         type \in {"LISTENER_OPENED", "LISTENER_CONNECTION", "LISTENER_FAILURE"} => id \in EpIds,
         type \in {"CREATED", "LISTENER_OPENED", "LISTENER_CONNECTION"} => aux \in Slots
  PROVE  SentKnown
  <1> DEFINE e == Event(type, id, aux, NoBuf, owner)
  <1>1. /\ e.type = type /\ e.id = id /\ e.aux = aux
        /\ e \in [type : ScEventTypes, id : Nat, aux : Slots \cup {0}, buf : {NoBuf}, owner : Owners]
    BY DEF Event, ScEventTypes
  <1>2. type \notin AskTypes /\ type \notin {"EP_OPEN", "EP_CLOSE", "TIMER_SC_CONNECTION_TIMEOUT"}
    BY DEF OutputTypes, AskTypes
  <1>3. scQ' = Append(scQ, e)
    BY DEF Emit
  <1> HIDE DEF e
  <1>4. e \in ScEvent
    BY <1>1, <1>2 DEF ScEvent
  <1> QED BY <1>1, <1>3, <1>4 DEF SentKnown

LEMMA FreeKnown == Known(FreeSlot)
  BY DEF FreeSlot, Known

\* One slot is replaced.
LEMMA UpdateKnown ==
  ASSUME SlotsKnown, socks \in [Slots -> Slot], NEW i, NEW t, Known(t), socks' = [socks EXCEPT ![i] = t]
  PROVE  SlotsKnown'
  <1> SUFFICES ASSUME NEW j \in Slots PROVE Known(socks'[j])
    BY DEF SlotsKnown, Known
  <1>1. socks'[j] = t \/ socks'[j] = socks[j]
    OBVIOUS
  <1> QED BY <1>1 DEF SlotsKnown

LEMMA SameKnown ==
  ASSUME SlotsKnown, socks' = socks
  PROVE  SlotsKnown'
  BY DEF SlotsKnown, Known

LEMMA CloseKnown ==
  ASSUME SlotsKnown, socks \in [Slots -> Slot], NEW i \in Slots, socks' = CloseSocket(socks, i)
  PROVE  SlotsKnown'
  <1> SUFFICES ASSUME NEW j \in Slots PROVE Known(socks'[j])
    BY DEF SlotsKnown, Known
  <1>1. \/ socks'[j] = FreeSlot \/ socks'[j] = socks[j]
        \/ socks'[j] = [socks[j] EXCEPT !.listenerConnections = @ - 1]
    BY DEF CloseSocket
  <1>2. socks[j] \in Slot /\ Known(socks[j])
    BY DEF SlotsKnown
  <1>3. Known([socks[j] EXCEPT !.listenerConnections = @ - 1])
    BY <1>2 DEF Known, Slot
  <1> QED BY <1>1, <1>2, <1>3, FreeKnown

LEMMA FailKnown ==
  ASSUME SlotsKnown, socks \in [Slots -> Slot], NEW i \in Slots,
         FailAndClose(i) \/ IntSocketClose(i)
  PROVE  SlotsKnown' /\ SentKnown
  <1>1. socks' = CloseSocket(socks, i)
    BY DEF FailAndClose, IntSocketClose
  <1>2. /\ socks[i].connectionId \in Nat /\ socks[i].owner \in Owners /\ 0 \in Owners
        /\ socks[i].state = "LISTENING" => socks[i].connectionId \in EpIds
    BY SocketsAssumption DEF Slot, SlotsKnown, Known
  <1>3. "FAILURE" \in OutputTypes /\ "LISTENER_FAILURE" \in OutputTypes
    BY DEF OutputTypes
  <1>4. CASE Emit("FAILURE", socks[i].connectionId, i, socks[i].owner)
    BY <1>1, <1>2, <1>3, <1>4, EmitKnown, CloseKnown
  <1>5. CASE socks[i].state = "LISTENING" /\ Emit("LISTENER_FAILURE", socks[i].connectionId, i, 0)
    BY <1>1, <1>2, <1>3, <1>5, EmitKnown, CloseKnown
  <1> QED BY <1>4, <1>5 DEF FailAndClose, IntSocketClose

\* The fields of the input events, with what they name.
LEMMA InputEventNames ==
  ASSUME NEW e \in InputEvents
  PROVE  /\ e.id \in Nat /\ e.owner \in Owners /\ 0 \in Owners
         /\ e.type = "CREATE_LISTENER" => e.id \in EpIds
         /\ e.type = "CREATE_CONNECTION" => e.id \in ConnIds
         /\ e.type = "ACCEPTED_CONNECTION" => e.id \in Slots /\ e.aux \in ConnIds
         /\ e.type = "CLOSE_LISTENER" => e.id \in Slots
         /\ e.type = "WRITE" => e.buf \in Msgs
  BY SocketsAssumption DEF InputEvents, Event, Slots

LEMMA TreatKnown ==
  ASSUME LayerOK, SlotsKnown, TreatInputEvent
  PROVE  SlotsKnown' /\ SentKnown
  <1> DEFINE e == Head(inQ)
  <1>0. socks \in [Slots -> Slot]
    BY SMTT(30) DEF LayerOK
  <1>1. e \in InputEvents
    BY TreatType, ZenonT(30) DEF TreatInputEvent, CreateListener, AcceptedConnection, CreateConnection,
                     CloseConnection, CloseListener, Write
  <1>2. /\ e.id \in Nat /\ e.owner \in Owners /\ 0 \in Owners
        /\ e.type = "CREATE_LISTENER" => e.id \in EpIds
        /\ e.type = "CREATE_CONNECTION" => e.id \in ConnIds
        /\ e.type = "ACCEPTED_CONNECTION" => e.id \in Slots /\ e.aux \in ConnIds
        /\ e.type = "CLOSE_LISTENER" => e.id \in Slots
        /\ e.type = "WRITE" => e.buf \in Msgs
    BY <1>1, InputEventNames
  <1>3. CASE CreateListener
    <2>1. e.id \in EpIds
      BY <1>2, <1>3 DEF CreateListener, Treat
    <2>2. "LISTENER_OPENED" \in OutputTypes /\ "LISTENER_FAILURE" \in OutputTypes
      BY DEF OutputTypes
    <2>3. CASE socks' = socks /\ Emit("LISTENER_FAILURE", e.id, 0, 0)
      <3> HIDE DEF e
      <3> QED BY <1>2, <2>1, <2>2, <2>3, EmitKnown, SameKnown
    <2>4. ASSUME NEW i \in Slots, NEW f \in Fds, Emit("LISTENER_OPENED", e.id, i, 0),
                 socks' = [socks EXCEPT ![i] =
                   [FreeSlot EXCEPT !.state = "LISTENING", !.fd = f, !.connectionId = e.id]]
          PROVE  SlotsKnown' /\ SentKnown
      <3>1. Known([FreeSlot EXCEPT !.state = "LISTENING", !.fd = f, !.connectionId = e.id])
        BY <2>1 DEF Known, FreeSlot
      <3> HIDE DEF e
      <3>2. SlotsKnown'
        BY <1>0, <2>4, <3>1, UpdateKnown
      <3> QED BY <1>2, <2>1, <2>2, <2>4, <3>2, EmitKnown
    <2> QED BY <1>3, <2>3, <2>4 DEF CreateListener
  <1>4. CASE AcceptedConnection
    <2>1. e.id \in Slots /\ e.aux \in ConnIds /\ scQ' = scQ
      BY <1>2, <1>4 DEF AcceptedConnection, Treat
    <2>2. \/ socks' = CloseSocket(socks, e.id)
          \/ socks' = [socks EXCEPT ![e.id] =
               [socks[e.id] EXCEPT !.connectionId = e.aux, !.state = "CONNECTED", !.owner = e.owner]]
      BY <1>0, <1>4, <2>1 DEF AcceptedConnection
    <2>3. Known([socks[e.id] EXCEPT !.connectionId = e.aux, !.state = "CONNECTED", !.owner = e.owner])
      BY <1>0, <2>1 DEF Known, Slot
    <2> HIDE DEF e
    <2> QED BY <1>0, <2>1, <2>2, <2>3, CloseKnown, UpdateKnown DEF SentKnown
  <1>5. CASE CreateConnection
    <2>1. e.id \in ConnIds
      BY <1>2, <1>5 DEF CreateConnection, Treat
    <2>2. "CREATED" \in OutputTypes /\ "FAILURE" \in OutputTypes
      BY DEF OutputTypes
    <2>3. CASE socks' = socks /\ Emit("FAILURE", e.id, 0, e.owner)
      <3> HIDE DEF e
      <3> QED BY <1>2, <2>1, <2>2, <2>3, EmitKnown, SameKnown
    <2>4. ASSUME NEW i \in Slots, NEW f \in Fds, NEW rest, Emit("CREATED", e.id, i, e.owner),
                 socks' = [socks EXCEPT ![i] =
                   [FreeSlot EXCEPT !.state = "CONNECTING", !.fd = f, !.connectionId = e.id,
                                    !.nextAddrs = rest, !.net = "syn", !.owner = e.owner]]
          PROVE  SlotsKnown' /\ SentKnown
      <3>1. Known([FreeSlot EXCEPT !.state = "CONNECTING", !.fd = f, !.connectionId = e.id,
                                    !.nextAddrs = rest, !.net = "syn", !.owner = e.owner])
        BY <2>1 DEF Known, FreeSlot
      <3> HIDE DEF e
      <3>2. SlotsKnown'
        BY <1>0, <2>4, <3>1, UpdateKnown
      <3> QED BY <1>2, <2>1, <2>2, <2>4, <3>2, EmitKnown
    <2> QED BY <1>5, <2>3, <2>4 DEF CreateConnection
  <1>6. CASE CloseConnection
    <2>1. scQ' = scQ /\ (socks' = socks \/ (e.id \in Slots /\ socks' = CloseSocket(socks, e.id)))
      BY <1>6 DEF CloseConnection, CloseRequestValid
    <2> HIDE DEF e
    <2> QED BY <1>0, <2>1, CloseKnown, SameKnown DEF SentKnown
  <1>7. CASE CloseListener
    <2>1. scQ' = scQ /\ (socks' = socks \/ (e.id \in Slots /\ socks' = CloseSocket(socks, e.id)))
      BY <1>2, <1>7 DEF CloseListener, Treat
    <2> HIDE DEF e
    <2> QED BY <1>0, <2>1, CloseKnown, SameKnown DEF SentKnown
  <1>8. CASE Write
    <2> DEFINE i == e.id
               s == Enqueued(socks[i], e.buf)
    <2>1. e.buf \in Msgs
      BY <1>2, <1>8 DEF Write, Treat
    <2>2. CASE scQ' = scQ /\ socks' = socks
      BY <2>2, SameKnown DEF SentKnown
    <2>3. CASE i \in Slots
      <3>1. s \in Slot /\ Known(s)
        <4>1. s \in Slot
          BY <1>0, <2>1, <2>3, EnqueuedType
        <4>2. s.state = socks[i].state /\ s.connectionId = socks[i].connectionId
          BY <1>0, <2>3 DEF Enqueued, Slot
        <4>3. Known(socks[i])
          BY <2>3 DEF SlotsKnown
        <4> QED BY <4>1, <4>2, <4>3 DEF Known
      <3>2. ASSUME NEW k PROVE Known(TreatWriteBuffer(s, k))
        <4> HIDE DEF s
        <4> QED BY <3>1 DEF TreatWriteBuffer, Known, Slot
      <3> HIDE DEF s
      <3>3. CASE FailAndClose(i)
        BY <1>0, <2>3, <3>3, FailKnown
      <3>4. CASE scQ' = scQ /\ socks' = [socks EXCEPT ![i] = s]
        BY <1>0, <3>1, <3>4, UpdateKnown DEF SentKnown
      <3>5. CASE scQ' = scQ /\ \E k \in 0..Len(s.writeQueue) :
                   socks' = [socks EXCEPT ![i] = TreatWriteBuffer(s, k)]
        <4>1. PICK k : socks' = [socks EXCEPT ![i] = TreatWriteBuffer(s, k)]
          BY <3>5
        <4>2. SlotsKnown'
          BY <1>0, <3>2, <4>1, UpdateKnown
        <4> QED BY <3>5, <4>2 DEF SentKnown
      <3> QED BY <1>8, <2>2, <3>3, <3>4, <3>5 DEF Write, s
    <2> QED BY <1>8, <2>2, <2>3 DEF Write
  <1> QED BY <1>3, <1>4, <1>5, <1>6, <1>7, <1>8 DEF TreatInputEvent

LEMMA ScanKnown ==
  ASSUME LayerOK, SlotsKnown, NEW i \in Slots,
         \/ SocketConnected(i) \/ SocketConnectionAttemptFailed(i)
         \/ SocketReadyToRead(i) \/ SocketReadyToWrite(i)
         \/ ListenerConnectionAttempt(i) \/ UnexpectedWriteEvent(i) \/ NoReadWriteEvent(i)
  PROVE  SlotsKnown' /\ SentKnown
  <1>0. socks \in [Slots -> Slot] /\ socks[i] \in Slot /\ Known(socks[i])
    BY DEF LayerOK, SlotsKnown
  <1>1. /\ socks[i].connectionId \in Nat /\ socks[i].owner \in Owners /\ 0 \in Owners
        /\ {"CONNECTION", "RCV_BYTES", "LISTENER_CONNECTION"} \subseteq OutputTypes
    BY <1>0, SocketsAssumption DEF Slot, OutputTypes
  <1>2. CASE SocketConnected(i)
    <2>1. /\ socks' = [socks EXCEPT ![i] = [socks[i] EXCEPT !.state = "CONNECTED", !.nextAddrs = 0]]
          /\ Emit("CONNECTION", socks[i].connectionId, i, socks[i].owner)
          /\ socks[i].connectionId \in ConnIds
      BY <1>0, <1>2 DEF SocketConnected, Known
    <2>2. Known([socks[i] EXCEPT !.state = "CONNECTED", !.nextAddrs = 0])
      BY <1>0, <2>1 DEF Known, Slot
    <2>3. SlotsKnown'
      BY <1>0, <2>1, <2>2, UpdateKnown
    <2> QED BY <1>1, <2>1, <2>3, EmitKnown
  <1>3. CASE SocketConnectionAttemptFailed(i)
    <2>1. CASE FailAndClose(i)
      BY <1>0, <2>1, FailKnown
    <2>2. CASE scQ' = scQ /\ \E rest \in 0..(MaxAddrs - 1), f \in Fds :
                 socks' = [socks EXCEPT ![i].nextAddrs = rest, ![i].fd = f, ![i].net = "syn"]
      <3>1. PICK rest \in 0..(MaxAddrs - 1), f \in Fds :
                 socks' = [socks EXCEPT ![i].nextAddrs = rest, ![i].fd = f, ![i].net = "syn"]
        BY <2>2
      <3>2. socks' = [socks EXCEPT ![i] =
                 [socks[i] EXCEPT !.nextAddrs = rest, !.fd = f, !.net = "syn"]]
        BY <1>0, <3>1
      <3>3. Known([socks[i] EXCEPT !.nextAddrs = rest, !.fd = f, !.net = "syn"])
        BY <1>0 DEF Known, Slot
      <3>4. SlotsKnown'
        BY <1>0, <3>2, <3>3, UpdateKnown
      <3> QED BY <2>2, <3>4 DEF SentKnown
    <2> QED BY <1>3, <2>1, <2>2 DEF SocketConnectionAttemptFailed
  <1>4. CASE SocketReadyToRead(i)
    <2>1. CASE FailAndClose(i)
      BY <1>0, <2>1, FailKnown
    <2>2. CASE socks' = socks /\ scQ' = scQ
      BY <2>2, SameKnown DEF SentKnown
    <2>3. CASE socks' = socks /\ Emit("RCV_BYTES", socks[i].connectionId, i, socks[i].owner)
      <3>1. socks[i].connectionId \in ConnIds
        BY <1>0, <1>4 DEF SocketReadyToRead, Known
      <3> QED BY <1>1, <2>3, <3>1, EmitKnown, SameKnown
    <2> QED BY <1>4, <2>1, <2>2, <2>3 DEF SocketReadyToRead
  <1>5. CASE SocketReadyToWrite(i)
    <2> DEFINE s == [socks[i] EXCEPT !.isNotWritable = FALSE]
    <2>1. s \in Slot /\ Known(s)
      BY <1>0 DEF Slot, Known
    <2> HIDE DEF s
    <2>2. scQ' = scQ
      BY <1>5 DEF SocketReadyToWrite
    <2>3. CASE socks' = socks
      BY <2>2, <2>3, SameKnown DEF SentKnown
    <2>4. ASSUME NEW k, socks' = [socks EXCEPT ![i] = TreatWriteBuffer(s, k)]
          PROVE  SlotsKnown' /\ SentKnown
      <3>1. Known(TreatWriteBuffer(s, k))
        BY <2>1 DEF TreatWriteBuffer, Known, Slot
      <3> QED BY <1>0, <2>2, <2>4, <3>1, UpdateKnown DEF SentKnown
    <2>5. ASSUME NEW n, socks' = [socks EXCEPT ![i] =
                    [s EXCEPT !.writeQueue = SubSeq(@, n + 1, Len(@))]]
          PROVE  SlotsKnown' /\ SentKnown
      <3>1. Known([s EXCEPT !.writeQueue = SubSeq(@, n + 1, Len(@))])
        BY <2>1 DEF Known, Slot
      <3> QED BY <1>0, <2>2, <2>5, <3>1, UpdateKnown DEF SentKnown
    <2> QED BY <1>5, <2>3, <2>4, <2>5 DEF SocketReadyToWrite, s
  <1>6. CASE ListenerConnectionAttempt(i)
    <2>1. CASE socks' = socks /\ scQ' = scQ
      BY <2>1, SameKnown DEF SentKnown
    <2>2. ASSUME NEW n \in Slots, NEW f \in Fds, n # i,
                 socks' = [socks EXCEPT
                      ![n] = [FreeSlot EXCEPT !.state = "ACCEPTED", !.fd = f, !.net = "up",
                                !.isServerConnection = TRUE, !.listenerSocketIdx = i],
                      ![i].listenerConnections = @ + 1],
                 Emit("LISTENER_CONNECTION", socks[i].connectionId, n, 0)
          PROVE  SlotsKnown' /\ SentKnown
      <3> DEFINE A == [FreeSlot EXCEPT !.state = "ACCEPTED", !.fd = f, !.net = "up",
                         !.isServerConnection = TRUE, !.listenerSocketIdx = i]
                 B == [socks[i] EXCEPT !.listenerConnections = @ + 1]
      <3>1. Known(A)
        BY DEF Known, FreeSlot
      <3>2. Known(B)
        BY <1>0 DEF Known, Slot
      <3>3. \A j \in Slots : socks'[j] = A \/ socks'[j] = B \/ socks'[j] = socks[j]
        <4>1. socks' = [[socks EXCEPT ![n] = A] EXCEPT ![i].listenerConnections = @ + 1]
          BY <2>2
        <4>2. [socks EXCEPT ![n] = A][i] = socks[i]
          BY <1>0, <2>2
        <4>3. socks' = [[socks EXCEPT ![n] = A] EXCEPT ![i] = B]
          BY <1>0, <4>1, <4>2
        <4> HIDE DEF A, B
        <4> QED BY <1>0, <4>3
      <3> HIDE DEF A, B
      <3>4. SlotsKnown'
        <4> SUFFICES ASSUME NEW j \in Slots PROVE Known(socks'[j])
          BY DEF SlotsKnown, Known
        <4> QED BY <3>1, <3>2, <3>3 DEF SlotsKnown
      <3>5. socks[i].connectionId \in EpIds
        BY <1>0, <1>6 DEF ListenerConnectionAttempt, Known
      <3>6. SentKnown
        BY <1>1, <2>2, <3>5, EmitKnown
      <3> QED BY <3>4, <3>6
    <2> QED BY <1>6, <2>1, <2>2 DEF ListenerConnectionAttempt, GetFreeSocket
  <1>7. CASE UnexpectedWriteEvent(i)
    BY <1>0, <1>7, FailKnown DEF UnexpectedWriteEvent
  <1>8. CASE NoReadWriteEvent(i)
    BY <1>8, SameKnown DEF NoReadWriteEvent, SentKnown
  <1> QED BY <1>2, <1>3, <1>4, <1>5, <1>6, <1>7, <1>8

LEMMA LayerKnown ==
  ASSUME LayerOK, SlotsKnown, SocketsThread \/ Network
  PROVE  SlotsKnown' /\ SentKnown
  <1>0. socks \in [Slots -> Slot]
    BY DEF LayerOK
  <1>1. CASE Select \/ InputEventsTreated \/ ScanEnd
    BY <1>1, SameKnown DEF Select, InputEventsTreated, ScanEnd, SentKnown
  <1>2. CASE TreatInputEvent
    BY <1>2, TreatKnown
  <1>3. CASE SocketException
    BY <1>0, <1>3, FailKnown DEF SocketException, LayerOK
  <1>4. ASSUME NEW i \in Slots,
               \/ SocketConnected(i) \/ SocketConnectionAttemptFailed(i)
               \/ SocketReadyToRead(i) \/ SocketReadyToWrite(i)
               \/ ListenerConnectionAttempt(i) \/ UnexpectedWriteEvent(i) \/ NoReadWriteEvent(i)
        PROVE  SlotsKnown' /\ SentKnown
    BY <1>4, ScanKnown
  <1>5. CASE Network
    <2>1. PICK i \in Slots : NetworkUp(i) \/ NetworkDown(i)
      BY <1>5 DEF Network
    <2>2. PICK x : socks' = [socks EXCEPT ![i] = [socks[i] EXCEPT !.net = x]] /\ scQ' = scQ
      BY <1>0, <2>1 DEF NetworkUp, NetworkDown
    <2>3. Known([socks[i] EXCEPT !.net = x])
      BY <1>0 DEF Known, Slot, SlotsKnown
    <2> QED BY <1>0, <2>2, <2>3, UpdateKnown DEF SentKnown
  <1> QED BY <1>1, <1>2, <1>3, <1>4, <1>5 DEF SocketsThread

-----------------------------------------------------------------------------
(* Counting the events of a queue.                                         *)

Match(e, types, o) == e.type \in types /\ e.owner = o

One(e, types, o) == IF Match(e, types, o) THEN 1 ELSE 0

\* The count of an empty queue, of one that has no such event, and of one that
\* has one.
LEMMA CountFew ==
  ASSUME NEW S, NEW q \in Seq(S), NEW types, NEW o
  PROVE  /\ CountIn(q, types, o) \in Nat
         /\ CountIn(q, types, o) = 0 <=> \A e \in Elems(q) : ~Match(e, types, o)
         /\ (\E k \in 1..Len(q) : /\ Match(q[k], types, o)
                                  /\ \A n \in 1..Len(q) : Match(q[n], types, o) => n = k)
              => CountIn(q, types, o) = 1
  <1> DEFINE D == {n \in 1..Len(q) : q[n].type \in types /\ q[n].owner = o}
  <1>1. Len(q) \in Nat
    OBVIOUS
  <1>2. IsFiniteSet(1..Len(q))
    BY <1>1, FS_Interval
  <1>3. IsFiniteSet(D) /\ Cardinality(D) \in Nat
    BY <1>2, FS_Subset, FS_CardinalityType
  <1>4. CountIn(q, types, o) = Cardinality(D)
    BY DEF CountIn
  <1>5. Cardinality(D) = 0 <=> D = {}
    BY <1>3, FS_EmptySet
  <1>6. D = {} <=> \A e \in Elems(q) : ~Match(e, types, o)
    BY DEF Elems, Match
  <1>7. ASSUME NEW k \in 1..Len(q), Match(q[k], types, o),
               \A n \in 1..Len(q) : Match(q[n], types, o) => n = k
        PROVE  Cardinality(D) = 1
    <2>1. D = {k}
      BY <1>7 DEF Match
    <2> HIDE DEF D
    <2> QED BY <2>1, FS_Singleton
  <1> HIDE DEF D
  <1> QED BY <1>3, <1>4, <1>5, <1>6, <1>7

LEMMA CountAppend ==
  ASSUME NEW S, NEW q \in Seq(S), NEW e \in S, NEW types, NEW o
  PROVE  CountIn(Append(q, e), types, o) = CountIn(q, types, o) + One(e, types, o)
  <1> DEFINE a == Append(q, e)
             D == {n \in 1..Len(q) : q[n].type \in types /\ q[n].owner = o}
             B == {n \in 1..Len(a) : a[n].type \in types /\ a[n].owner = o}
             k == Len(q) + 1
  <1>1. Len(q) \in Nat /\ Len(a) = k /\ a[k] = e /\ \A n \in 1..Len(q) : a[n] = q[n]
    BY SnocSeq
  <1>2. IsFiniteSet(1..Len(q))
    BY <1>1, FS_Interval
  <1>3. IsFiniteSet(D) /\ Cardinality(D) \in Nat /\ k \notin D
    BY <1>1, <1>2, FS_Subset, FS_CardinalityType
  <1>4. CountIn(q, types, o) = Cardinality(D) /\ CountIn(a, types, o) = Cardinality(B)
    BY DEF CountIn
  <1>5. 1..Len(a) = (1..Len(q)) \cup {k}
    BY <1>1
  <1>6. B = IF Match(e, types, o) THEN D \cup {k} ELSE D
    <2> HIDE DEF a, k
    <2> QED BY <1>1, <1>5 DEF Match
  <1> HIDE DEF D, B, a, k
  <1>7. CASE Match(e, types, o)
    <2>1. Cardinality(D \cup {k}) = Cardinality(D) + 1
      BY <1>3, FS_AddElement
    <2> QED BY <1>4, <1>6, <1>7, <2>1 DEF One, a
  <1>8. CASE ~Match(e, types, o)
    BY <1>3, <1>4, <1>6, <1>8 DEF One, a
  <1> QED BY <1>7, <1>8

LEMMA CountTail ==
  ASSUME NEW S, NEW q \in Seq(S), q # <<>>, NEW types, NEW o
  PROVE  CountIn(q, types, o) = CountIn(Tail(q), types, o) + One(Head(q), types, o)
  <1> DEFINE t == Tail(q)
             D == {n \in 1..Len(q) : q[n].type \in types /\ q[n].owner = o}
             B == {n \in 1..Len(t) : t[n].type \in types /\ t[n].owner = o}
             U == {n \in 2..Len(q) : q[n].type \in types /\ q[n].owner = o}
             f == [n \in B |-> n + 1]
  <1>1. /\ Len(q) \in Nat /\ Len(q) > 0 /\ Head(q) = q[1] /\ Len(t) = Len(q) - 1
        /\ \A n \in 1..(Len(q) - 1) : t[n] = q[n + 1]
    BY TailSeq
  <1>2. IsFiniteSet(1..Len(t))
    BY <1>1, FS_Interval
  <1>3. IsFiniteSet(B) /\ Cardinality(B) \in Nat
    BY <1>2, FS_Subset, FS_CardinalityType
  <1>4. CountIn(q, types, o) = Cardinality(D) /\ CountIn(t, types, o) = Cardinality(B)
    BY DEF CountIn
  <1>5. f \in Bijection(B, U)
    <2>1. ASSUME NEW n \in B PROVE n + 1 \in U
      <3>1. n \in 1..(Len(q) - 1) /\ t[n] = q[n + 1] /\ n + 1 \in 2..Len(q)
        BY <1>1
      <3> HIDE DEF t
      <3> QED BY <3>1
    <2>2. ASSUME NEW m \in U PROVE m - 1 \in B /\ (m - 1) + 1 = m
      <3>1. m \in 2..Len(q) /\ m - 1 \in 1..(Len(q) - 1) /\ (m - 1) + 1 = m
        BY <1>1
      <3>2. t[m - 1] = q[m]
        BY <1>1, <3>1
      <3> HIDE DEF t
      <3> QED BY <1>1, <3>1, <3>2
    <2>3. B \subseteq Nat
      BY <1>1
    <2> HIDE DEF B, U
    <2>4. f \in [B -> U] /\ \A m \in U : \E n \in B : f[n] = m
      BY <2>1, <2>2
    <2>5. \A n, m \in B : f[n] = f[m] => n = m
      BY <2>3
    <2> HIDE DEF f
    <2> QED BY <2>4, <2>5 DEF Bijection, Injection, Surjection, IsInjective
  <1>6. IsFiniteSet(U) /\ Cardinality(U) = Cardinality(B)
    <2>1. ExistsBijection(B, U)
      BY <1>5 DEF ExistsBijection
    <2> HIDE DEF B, U
    <2> QED BY <1>3, <2>1, FS_Bijection
  <1>7. 1..Len(q) = (2..Len(q)) \cup {1} /\ 1 \notin U
    BY <1>1
  <1>8. D = IF Match(Head(q), types, o) THEN U \cup {1} ELSE U
    BY <1>1, <1>7 DEF Match
  <1> HIDE DEF D, B, U, t
  <1>9. CASE Match(Head(q), types, o)
    <2>1. Cardinality(U \cup {1}) = Cardinality(U) + 1
      BY <1>6, <1>7, FS_AddElement
    <2> QED BY <1>4, <1>6, <1>8, <1>9, <2>1 DEF One, t
  <1>10. CASE ~Match(Head(q), types, o)
    BY <1>3, <1>4, <1>6, <1>8, <1>10 DEF One, t
  <1> QED BY <1>9, <1>10

-----------------------------------------------------------------------------
(* The moves of one channel.                                               *)

\* Nothing that matters here changes in an entry.
Stays(s, t) ==
  /\ t.owner = s.owner /\ t.isServerConnection = s.isServerConnection
  /\ \A z \in {"SC_CLOSED", "SC_CONNECTED", "SC_CLOSING"} : t.state = z <=> s.state = z

Others(X, Y, c) == \A d \in ConnIds \ {c} : Stays(X[d], Y[d])

Arrays == [ConnIds -> Entry]

LEMMA EntryFields ==
  ASSUME NEW s \in Entry
  PROVE  /\ s.state \in ScStates /\ s.isServerConnection \in BOOLEAN /\ s.owner \in Owners
         /\ s.owner \in Nat /\ s.socketIndex \in Slots \cup {0}
         /\ s.serverEndpointConfigIdx \in EpIds \cup {0} /\ s.connectionTimeoutTimerId \in Owners
         /\ s.state = "SC_CLOSED" <=> s.owner = 0
         /\ s.state = "SC_CLOSED" => s = ClosedSC
  BY ScSocketsAssumption DEF Entry, ScRec, ClosedSC

\* The attempts of connection o, when index c has changed.
LEMMA AttemptsChange ==
  ASSUME NEW X \in Arrays, NEW Y \in Arrays, NEW c \in ConnIds, Others(X, Y, c), NEW o
  PROVE  /\ Cardinality(Attempts(X, o)) \in Nat /\ Cardinality(Attempts(Y, o)) \in Nat
         /\ Cardinality(Attempts(Y, o)) + (IF c \in Attempts(X, o) THEN 1 ELSE 0)
              = Cardinality(Attempts(X, o)) + (IF c \in Attempts(Y, o) THEN 1 ELSE 0)
  <1> DEFINE a == Attempts(X, o)
             b == Attempts(Y, o)
  <1>1. a \in SUBSET ConnIds /\ b \in SUBSET ConnIds
    BY DEF Attempts
  <1>2. a \ {c} = b \ {c}
    BY DEF Attempts, Others, Stays
  <1>3. IsFiniteSet(ConnIds)
    BY ScSocketsAssumption
  <1> HIDE DEF a, b
  <1>4. IsFiniteSet(a) /\ IsFiniteSet(b)
    BY <1>1, <1>3, FS_Subset
  <1>5. Cardinality(a) \in Nat /\ Cardinality(b) \in Nat
    BY <1>4, FS_CardinalityType
  <1>6. /\ Cardinality(a \ {c}) = IF c \in a THEN Cardinality(a) - 1 ELSE Cardinality(a)
        /\ Cardinality(b \ {c}) = IF c \in b THEN Cardinality(b) - 1 ELSE Cardinality(b)
    BY <1>4, FS_RemoveElement
  <1>7. Cardinality(b) + (IF c \in a THEN 1 ELSE 0) = Cardinality(a) + (IF c \in b THEN 1 ELSE 0)
    <2>1. ASSUME NEW p \in Nat, NEW q \in Nat,
                 (IF c \in a THEN p - 1 ELSE p) = (IF c \in b THEN q - 1 ELSE q)
          PROVE  q + (IF c \in a THEN 1 ELSE 0) = p + (IF c \in b THEN 1 ELSE 0)
      BY <2>1
    <2>2. (IF c \in a THEN Cardinality(a) - 1 ELSE Cardinality(a))
            = (IF c \in b THEN Cardinality(b) - 1 ELSE Cardinality(b))
      BY <1>2, <1>6
    <2> QED BY <1>5, <2>1, <2>2
  <1> QED BY <1>5, <1>7 DEF a, b

\* What does not depend on how the move of c ends.
LEMMA MoveParts ==
  ASSUME NEW X \in Arrays, NEW Y \in Arrays, NEW c \in ConnIds, Others(X, Y, c),
         NEW V \in Seq(SvcEvent), NEW Q \in Seq(ScEvent), NEW S, NEW A, NEW n \in Nat,
         Channels(X, V, Q, S, A, n),
         X[c].state \in {"SC_CONNECTED", "SC_CLOSING"} =>
           Y[c].owner = X[c].owner /\ Y[c].state \in {"SC_CONNECTED", "SC_CLOSING"},
         Y[c].owner \in {0, X[c].owner},
         Y[c].isServerConnection => X[c].isServerConnection /\ Y[c].owner = X[c].owner
  PROVE  /\ OwnersKept(Y, n) /\ AsksKept(Y, Q) /\ TellsKept(Y, V) /\ SvcKept(Y, S)
         /\ NewOnes(Y, Q, n) /\ ServersUnasked(Y, V, A, n)
  <1>1. \A d \in ConnIds : \A o : Held(X, d, o) => Held(Y, d, o)
    BY DEF Held, Others, Stays
  <1>2. \A d \in ConnIds : Y[d].owner = X[d].owner \/ Y[d].owner = 0
    BY DEF Others, Stays
  <1>3. OwnersKept(Y, n)
    <2>1. \A d \in ConnIds : X[d].owner <= n /\ X[d].owner \in Nat
      BY EntryFields DEF Channels, OwnersKept, Arrays
    <2>2. \A d \in ConnIds : Y[d].owner <= n
      BY <1>2, <2>1
    <2>3. \A d, e \in ConnIds : X[d].owner = X[e].owner => d = e \/ X[d].owner = 0
      BY DEF Channels, OwnersKept
    <2> QED BY <1>2, <2>2, <2>3 DEF OwnersKept
  <1>4. AsksKept(Y, Q)
    <2>1. \A e \in Elems(Q) : e.type \in AskTypes => e.id \in ConnIds
      BY ElemsType DEF ScEvent
    <2> QED BY <1>1, <2>1 DEF Channels, AsksKept
  <1>5. TellsKept(Y, V)
    <2>1. \A e \in Elems(V) : e.type \in TellTypes => e.id \in ConnIds
      BY ElemsType DEF SvcEvent
    <2> QED BY <1>1, <2>1 DEF Channels, TellsKept
  <1>6. SvcKept(Y, S)
    BY <1>1 DEF Channels, SvcKept
  <1>7. NewOnes(Y, Q, n)
    <2>1. 0 \notin 1..n
      OBVIOUS
    <2> QED BY <1>2, <2>1 DEF Channels, NewOnes
  <1>8. ServersUnasked(Y, V, A, n)
    <2>1. \A d \in ConnIds : Y[d].isServerConnection =>
                               X[d].isServerConnection /\ Y[d].owner = X[d].owner
      BY DEF Others, Stays
    <2> QED BY <2>1 DEF Channels, ServersUnasked
  <1> QED BY <1>3, <1>4, <1>5, <1>6, <1>7, <1>8

\* One more event for the services.
LEMMA ToldMore ==
  ASSUME NEW Y, NEW V \in Seq(SvcEvent), NEW Q \in Seq(ScEvent), NEW S, NEW A, NEW n,
         TellsKept(Y, V), AckSilent(Q, V, S), Pairwise(V, TellOrder), ServersUnasked(Y, V, A, n),
         NEW e \in SvcEvent,
         e.type \in TellTypes =>
           /\ Held(Y, e.id, e.owner)
           /\ \A q \in Elems(Q) : q.type = "SC_DISCONNECTED_ACK" => q.id # e.id
           /\ \A v \in Elems(V) : v.type = "SC_DISCONNECTED" => v.id # e.id,
         e.type = "EP_CONNECTED" => e.owner \notin A
  PROVE  LET W == Append(V, e) IN
         /\ W \in Seq(SvcEvent)
         /\ TellsKept(Y, W) /\ AckSilent(Q, W, S) /\ Pairwise(W, TellOrder)
         /\ ServersUnasked(Y, W, A, n)
         /\ \A d : Ending(Q, W, d) <=> Ending(Q, V, d) \/ (e.type = "SC_DISCONNECTED" /\ e.id = d)
  <1> DEFINE W == Append(V, e)
  <1>1. Elems(W) = Elems(V) \cup {e} /\ Elems(V) \subseteq SvcEvent /\ W \in Seq(SvcEvent)
    BY ElemsAppend, ElemsType
  <1>2. Pairwise(W, TellOrder)
    <2>1. \A v \in Elems(V) : <<v, e>> \in TellOrder
      BY <1>1 DEF TellOrder
    <2> QED BY <2>1, PairwiseAppend
  <1> HIDE DEF W
  <1>3. TellsKept(Y, W)
    BY <1>1 DEF TellsKept
  <1>4. AckSilent(Q, W, S)
    BY <1>1 DEF AckSilent
  <1>5. ServersUnasked(Y, W, A, n)
    BY <1>1 DEF ServersUnasked
  <1>6. \A d : Ending(Q, W, d) <=> Ending(Q, V, d) \/ (e.type = "SC_DISCONNECTED" /\ e.id = d)
    BY <1>1 DEF Ending
  <1> QED BY <1>1, <1>2, <1>3, <1>4, <1>5, <1>6 DEF W

\* What index c no longer counts as an attempt, the queue has as an answer.
LEMMA AnswersMove ==
  ASSUME NEW X \in Arrays, NEW Y \in Arrays, NEW c \in ConnIds, Others(X, Y, c),
         NEW V \in Seq(SvcEvent), NEW W \in Seq(SvcEvent), NEW Q \in Seq(ScEvent), NEW A,
         Answers(X, Q, V, A),
         \A o \in Owners \ {0} :
           CountIn(W, AnswerTypes, o) + (IF c \in Attempts(Y, o) THEN 1 ELSE 0)
             = CountIn(V, AnswerTypes, o) + (IF c \in Attempts(X, o) THEN 1 ELSE 0)
  PROVE  Answers(Y, Q, W, A)
  <1> SUFFICES ASSUME NEW o \in Owners \ {0}
               PROVE  CountIn(Q, {"SC_CONNECT"}, o) + Cardinality(Attempts(Y, o))
                        + CountIn(W, AnswerTypes, o) = IF o \in A THEN 1 ELSE 0
    BY DEF Answers
  <1>1. /\ Cardinality(Attempts(X, o)) \in Nat /\ Cardinality(Attempts(Y, o)) \in Nat
        /\ Cardinality(Attempts(Y, o)) + (IF c \in Attempts(X, o) THEN 1 ELSE 0)
              = Cardinality(Attempts(X, o)) + (IF c \in Attempts(Y, o) THEN 1 ELSE 0)
    BY AttemptsChange
  <1>2. /\ CountIn(Q, {"SC_CONNECT"}, o) \in Nat
        /\ CountIn(V, AnswerTypes, o) \in Nat /\ CountIn(W, AnswerTypes, o) \in Nat
    BY CountFew
  <1>3. CountIn(Q, {"SC_CONNECT"}, o) + Cardinality(Attempts(X, o))
          + CountIn(V, AnswerTypes, o) = IF o \in A THEN 1 ELSE 0
    BY DEF Answers
  <1>4. CountIn(W, AnswerTypes, o) + (IF c \in Attempts(Y, o) THEN 1 ELSE 0)
          = CountIn(V, AnswerTypes, o) + (IF c \in Attempts(X, o) THEN 1 ELSE 0)
    OBVIOUS
  <1> DEFINE q == CountIn(Q, {"SC_CONNECT"}, o)
             x == Cardinality(Attempts(X, o))
             y == Cardinality(Attempts(Y, o))
             v == CountIn(V, AnswerTypes, o)
             w == CountIn(W, AnswerTypes, o)
             i == IF c \in Attempts(X, o) THEN 1 ELSE 0
             j == IF c \in Attempts(Y, o) THEN 1 ELSE 0
             r == IF o \in A THEN 1 ELSE 0
  <1>5. q \in Nat /\ x \in Nat /\ y \in Nat /\ v \in Nat /\ w \in Nat /\ i \in Nat /\ j \in Nat
    BY <1>1, <1>2
  <1>6. y + i = x + j /\ w + j = v + i /\ q + x + v = r
    BY <1>1, <1>3, <1>4
  <1>7. q + y + w = r
    <2> HIDE DEF q, x, y, v, w, i, j, r
    <2>1. y + w = x + v
      BY <1>5, <1>6
    <2> QED BY <1>5, <1>6, <2>1
  <1> QED BY <1>7

\* An array whose entries stay.
LEMMA StayMove ==
  ASSUME NEW X \in Arrays, NEW Y \in Arrays, \A d \in ConnIds : Stays(X[d], Y[d]),
         NEW V \in Seq(SvcEvent), NEW Q \in Seq(ScEvent), NEW S, NEW A, NEW n \in Nat,
         Channels(X, V, Q, S, A, n)
  PROVE  Channels(Y, V, Q, S, A, n)
  <1>1. CASE ConnIds = {}
    <2>1. X = Y
      BY <1>1 DEF Arrays
    <2> QED BY <2>1
  <1>2. ASSUME NEW c \in ConnIds PROVE Channels(Y, V, Q, S, A, n)
    <2>1. Others(X, Y, c) /\ Stays(X[c], Y[c])
      BY DEF Others
    <2>2. /\ OwnersKept(Y, n) /\ AsksKept(Y, Q) /\ TellsKept(Y, V) /\ SvcKept(Y, S)
          /\ NewOnes(Y, Q, n) /\ ServersUnasked(Y, V, A, n)
      <3>1. /\ X[c].state \in {"SC_CONNECTED", "SC_CLOSING"} =>
                 Y[c].owner = X[c].owner /\ Y[c].state \in {"SC_CONNECTED", "SC_CLOSING"}
            /\ Y[c].owner \in {0, X[c].owner}
            /\ Y[c].isServerConnection => X[c].isServerConnection /\ Y[c].owner = X[c].owner
        BY <2>1 DEF Stays
      <3> QED BY <2>1, <3>1, MoveParts
    <2>3. ClosingKept(Y, Q, V)
      BY DEF Channels, ClosingKept, Stays
    <2>4. Answers(Y, Q, V, A)
      <3>1. \A o : c \in Attempts(X, o) <=> c \in Attempts(Y, o)
        BY <2>1 DEF Attempts, Stays
      <3>2. Answers(X, Q, V, A)
        BY DEF Channels
      <3> QED BY <2>1, <3>1, <3>2, AnswersMove
    <2> QED BY <2>2, <2>3, <2>4 DEF Channels
  <1> QED BY <1>1, <1>2

\* Nothing is said of an index whose connection the services do not know.
LEMMA AttemptSilent ==
  ASSUME NEW X \in Arrays, NEW c \in ConnIds, X[c].state \notin {"SC_CONNECTED", "SC_CLOSING"},
         NEW V, NEW Q, NEW S, NEW A, NEW n, Channels(X, V, Q, S, A, n)
  PROVE  /\ \A q \in Elems(Q) : q.type \in AskTypes => q.id # c
         /\ \A v \in Elems(V) : v.type \in TellTypes => v.id # c
         /\ S[c] = 0 /\ ~Ending(Q, V, c)
  <1>1. \A o : ~Held(X, c, o)
    BY DEF Held
  <1>2. X[c].state # "SC_CLOSING"
    OBVIOUS
  <1> QED BY <1>1, <1>2 DEF Channels, AsksKept, TellsKept, SvcKept, ClosingKept

\* The channel of index c is open, and the services are told.
LEMMA OpenMove ==
  ASSUME NEW X \in Arrays, NEW Y \in Arrays, NEW c \in ConnIds, Others(X, Y, c), Attempt(X[c]),
         Y[c].owner = X[c].owner, Y[c].isServerConnection = X[c].isServerConnection,
         Y[c].state = "SC_CONNECTED",
         NEW V \in Seq(SvcEvent), NEW Q \in Seq(ScEvent), NEW S, NEW A, NEW n \in Nat,
         Channels(X, V, Q, S, A, n),
         NEW e \in SvcEvent, e.id = c, e.owner = X[c].owner,
         e.type = IF X[c].isServerConnection THEN "EP_CONNECTED" ELSE "SC_CONNECTED"
  PROVE  Append(V, e) \in Seq(SvcEvent) /\ Channels(Y, Append(V, e), Q, S, A, n)
  <1> DEFINE W == Append(V, e)
  <1>1. X[c].state \notin {"SC_CONNECTED", "SC_CLOSING"}
    BY DEF Attempt
  <1>2. /\ OwnersKept(Y, n) /\ AsksKept(Y, Q) /\ TellsKept(Y, V) /\ SvcKept(Y, S)
        /\ NewOnes(Y, Q, n) /\ ServersUnasked(Y, V, A, n)
    BY <1>1, MoveParts
  <1>3. /\ \A q \in Elems(Q) : q.type \in AskTypes => q.id # c
        /\ \A v \in Elems(V) : v.type \in TellTypes => v.id # c
        /\ S[c] = 0 /\ ~Ending(Q, V, c)
    BY <1>1, AttemptSilent
  <1>4. /\ Held(Y, e.id, e.owner)
        /\ \A q \in Elems(Q) : q.type = "SC_DISCONNECTED_ACK" => q.id # e.id
        /\ \A v \in Elems(V) : v.type = "SC_DISCONNECTED" => v.id # e.id
    BY <1>3 DEF Held, AskTypes, TellTypes
  <1>5. e.type = "EP_CONNECTED" => e.owner \notin A
    BY DEF Channels, ServersUnasked
  <1>6. e.type # "SC_DISCONNECTED" /\ AckSilent(Q, V, S) /\ Pairwise(V, TellOrder)
    BY DEF Channels
  <1>7. /\ W \in Seq(SvcEvent)
        /\ TellsKept(Y, W) /\ AckSilent(Q, W, S) /\ Pairwise(W, TellOrder)
        /\ ServersUnasked(Y, W, A, n)
        /\ \A d : Ending(Q, W, d) <=> Ending(Q, V, d)
    BY <1>2, <1>4, <1>5, <1>6, ToldMore
  <1>8. ClosingKept(Y, Q, W)
    BY <1>1, <1>7 DEF Channels, ClosingKept, Others, Stays
  <1>9. Answers(Y, Q, W, A)
    <2>1. Answers(X, Q, V, A)
      BY DEF Channels
    <2>2. ASSUME NEW o \in Owners \ {0}
          PROVE  CountIn(W, AnswerTypes, o) + (IF c \in Attempts(Y, o) THEN 1 ELSE 0)
                   = CountIn(V, AnswerTypes, o) + (IF c \in Attempts(X, o) THEN 1 ELSE 0)
      <3>1. CountIn(W, AnswerTypes, o) = CountIn(V, AnswerTypes, o) + One(e, AnswerTypes, o)
        BY CountAppend
      <3>2. CountIn(V, AnswerTypes, o) \in Nat
        BY CountFew
      <3>3. c \notin Attempts(Y, o)
        BY DEF Attempts
      <3>4. One(e, AnswerTypes, o) = IF c \in Attempts(X, o) THEN 1 ELSE 0
        BY <1>1 DEF One, Match, Attempts, AnswerTypes
      <3> QED BY <3>1, <3>2, <3>3, <3>4
    <2> QED BY <1>7, <2>1, <2>2, AnswersMove
  <1> HIDE DEF W
  <1> QED BY <1>2, <1>7, <1>8, <1>9 DEF Channels, W

\* The channel of index c has ended, and the services are told.
LEMMA LostMove ==
  ASSUME NEW X \in Arrays, NEW Y \in Arrays, NEW c \in ConnIds, Others(X, Y, c),
         X[c].state = "SC_CONNECTED", Y[c].owner = X[c].owner, Y[c].state = "SC_CLOSING",
         ~Y[c].isServerConnection,
         NEW V \in Seq(SvcEvent), NEW Q \in Seq(ScEvent), NEW S, NEW A, NEW n \in Nat,
         Channels(X, V, Q, S, A, n),
         NEW e \in SvcEvent, e.id = c, e.owner = X[c].owner, e.type = "SC_DISCONNECTED"
  PROVE  Append(V, e) \in Seq(SvcEvent) /\ Channels(Y, Append(V, e), Q, S, A, n)
  <1> DEFINE W == Append(V, e)
  <1>2. /\ OwnersKept(Y, n) /\ AsksKept(Y, Q) /\ TellsKept(Y, V) /\ SvcKept(Y, S)
        /\ NewOnes(Y, Q, n) /\ ServersUnasked(Y, V, A, n)
    BY MoveParts
  <1>3. ~Ending(Q, V, c)
    BY DEF Channels, ClosingKept
  <1>4. /\ Held(Y, e.id, e.owner)
        /\ \A q \in Elems(Q) : q.type = "SC_DISCONNECTED_ACK" => q.id # e.id
        /\ \A v \in Elems(V) : v.type = "SC_DISCONNECTED" => v.id # e.id
    BY <1>3 DEF Held, Ending
  <1>6. e.type # "EP_CONNECTED" /\ AckSilent(Q, V, S) /\ Pairwise(V, TellOrder)
    BY DEF Channels
  <1>7. /\ W \in Seq(SvcEvent)
        /\ TellsKept(Y, W) /\ AckSilent(Q, W, S) /\ Pairwise(W, TellOrder)
        /\ ServersUnasked(Y, W, A, n)
        /\ \A d : Ending(Q, W, d) <=> Ending(Q, V, d) \/ c = d
    BY <1>2, <1>4, <1>6, ToldMore
  <1>8. ClosingKept(Y, Q, W)
    <2>1. ASSUME NEW d \in ConnIds PROVE Y[d].state = "SC_CLOSING" <=> Ending(Q, W, d)
      <3>1. CASE d = c
        BY <1>7, <3>1
      <3>2. CASE d # c
        BY <1>7, <3>2 DEF Channels, ClosingKept, Others, Stays
      <3> QED BY <3>1, <3>2
    <2> QED BY <2>1 DEF ClosingKept
  <1>9. Answers(Y, Q, W, A)
    <2>1. Answers(X, Q, V, A)
      BY DEF Channels
    <2>2. ASSUME NEW o \in Owners \ {0}
          PROVE  CountIn(W, AnswerTypes, o) + (IF c \in Attempts(Y, o) THEN 1 ELSE 0)
                   = CountIn(V, AnswerTypes, o) + (IF c \in Attempts(X, o) THEN 1 ELSE 0)
      <3>1. CountIn(W, AnswerTypes, o) = CountIn(V, AnswerTypes, o) + One(e, AnswerTypes, o)
        BY CountAppend
      <3>2. CountIn(V, AnswerTypes, o) \in Nat
        BY CountFew
      <3>3. c \notin Attempts(Y, o) /\ c \notin Attempts(X, o)
        BY DEF Attempts
      <3>4. One(e, AnswerTypes, o) = 0
        BY DEF One, Match, AnswerTypes
      <3> QED BY <3>1, <3>2, <3>3, <3>4
    <2> QED BY <1>7, <2>1, <2>2, AnswersMove
  <1> HIDE DEF W
  <1> QED BY <1>2, <1>7, <1>8, <1>9 DEF Channels, W

\* The attempt of index c is given up: a client connection is answered for.
LEMMA DropMove ==
  ASSUME NEW X \in Arrays, NEW Y \in Arrays, NEW c \in ConnIds, Others(X, Y, c), Attempt(X[c]),
         Y[c] = ClosedSC,
         NEW V \in Seq(SvcEvent), NEW Q \in Seq(ScEvent), NEW S, NEW A, NEW n \in Nat,
         Channels(X, V, Q, S, A, n),
         NEW e \in SvcEvent, e.owner = X[c].owner, e.type = "SC_CONNECTION_TIMEOUT"
  PROVE  /\ X[c].isServerConnection => Channels(Y, V, Q, S, A, n)
         /\ ~X[c].isServerConnection =>
              Append(V, e) \in Seq(SvcEvent) /\ Channels(Y, Append(V, e), Q, S, A, n)
  <1> DEFINE W == Append(V, e)
  <1>1. /\ X[c].state \notin {"SC_CONNECTED", "SC_CLOSING"}
        /\ Y[c].owner = 0 /\ ~Y[c].isServerConnection /\ Y[c].state = "SC_CLOSED"
    BY DEF Attempt, ClosedSC
  <1>2. /\ OwnersKept(Y, n) /\ AsksKept(Y, Q) /\ TellsKept(Y, V) /\ SvcKept(Y, S)
        /\ NewOnes(Y, Q, n) /\ ServersUnasked(Y, V, A, n)
    BY <1>1, MoveParts
  <1>3. e.type \notin TellTypes /\ e.type # "EP_CONNECTED" /\ e.type # "SC_DISCONNECTED"
    BY DEF TellTypes
  <1>4. AckSilent(Q, V, S) /\ Pairwise(V, TellOrder) /\ Pairwise(Q, AskOrder) /\ Answers(X, Q, V, A)
    BY DEF Channels
  <1>5. ClosingKept(Y, Q, V)
    BY <1>1 DEF Channels, ClosingKept, Others, Stays
  <1>6. CASE X[c].isServerConnection
    <2>1. \A o \in Owners \ {0} : c \notin Attempts(X, o) /\ c \notin Attempts(Y, o)
      BY <1>1, <1>6 DEF Attempts
    <2>2. Answers(Y, Q, V, A)
      BY <1>4, <2>1, AnswersMove
    <2> QED BY <1>2, <1>4, <1>5, <1>6, <2>2 DEF Channels
  <1>7. CASE ~X[c].isServerConnection
    <2>1. /\ W \in Seq(SvcEvent)
          /\ TellsKept(Y, W) /\ AckSilent(Q, W, S) /\ Pairwise(W, TellOrder)
          /\ ServersUnasked(Y, W, A, n)
          /\ \A d : Ending(Q, W, d) <=> Ending(Q, V, d)
      BY <1>2, <1>3, <1>4, ToldMore
    <2>2. ClosingKept(Y, Q, W)
      BY <1>5, <2>1 DEF ClosingKept
    <2>3. ASSUME NEW o \in Owners \ {0}
          PROVE  CountIn(W, AnswerTypes, o) + (IF c \in Attempts(Y, o) THEN 1 ELSE 0)
                   = CountIn(V, AnswerTypes, o) + (IF c \in Attempts(X, o) THEN 1 ELSE 0)
      <3>1. CountIn(W, AnswerTypes, o) = CountIn(V, AnswerTypes, o) + One(e, AnswerTypes, o)
        BY CountAppend
      <3>2. CountIn(V, AnswerTypes, o) \in Nat
        BY CountFew
      <3>3. c \notin Attempts(Y, o)
        BY <1>1 DEF Attempts
      <3>4. One(e, AnswerTypes, o) = IF c \in Attempts(X, o) THEN 1 ELSE 0
        BY <1>1, <1>7 DEF One, Match, Attempts, AnswerTypes
      <3> QED BY <3>1, <3>2, <3>3, <3>4
    <2>4. Answers(Y, Q, W, A)
      BY <1>4, <2>1, <2>3, AnswersMove
    <2> HIDE DEF W
    <2> QED BY <1>2, <1>4, <1>7, <2>1, <2>2, <2>4 DEF Channels, W
  <1> QED BY <1>6, <1>7

-----------------------------------------------------------------------------
(* The events of the secure channel layer are taken and added.             *)

\* Taking an event that is neither a request for a connection nor an
\* acknowledgement.
LEMMA TakeOther ==
  ASSUME NEW X, NEW V, NEW Q \in Seq(ScEvent), Q # <<>>, NEW S, NEW A, NEW n,
         Channels(X, V, Q, S, A, n),
         Head(Q).type \notin {"SC_CONNECT", "SC_DISCONNECTED_ACK"}
  PROVE  Tail(Q) \in Seq(ScEvent) /\ Channels(X, V, Tail(Q), S, A, n)
  <1> DEFINE T == Tail(Q)
  <1>1. Elems(Q) = {Head(Q)} \cup Elems(T) /\ T \in Seq(ScEvent)
    BY ElemsTail
  <1>2. Pairwise(T, AskOrder)
    BY PairwiseTail DEF Channels
  <1>3. \A o : CountIn(T, {"SC_CONNECT"}, o) = CountIn(Q, {"SC_CONNECT"}, o)
    <2> TAKE o
    <2>1. CountIn(Q, {"SC_CONNECT"}, o) = CountIn(T, {"SC_CONNECT"}, o) + One(Head(Q), {"SC_CONNECT"}, o)
      BY CountTail
    <2>2. One(Head(Q), {"SC_CONNECT"}, o) = 0
      BY DEF One, Match
    <2>3. CountIn(T, {"SC_CONNECT"}, o) \in Nat
      BY <1>1, CountFew
    <2> QED BY <2>1, <2>2, <2>3
  <1> HIDE DEF T
  <1>4. AsksKept(X, T) /\ AckSilent(T, V, S) /\ NewOnes(X, T, n)
    BY <1>1 DEF Channels, AsksKept, AckSilent, NewOnes
  <1>5. ClosingKept(X, T, V)
    <2>1. \A c : Ending(T, V, c) <=> Ending(Q, V, c)
      BY <1>1 DEF Ending
    <2> QED BY <2>1 DEF Channels, ClosingKept
  <1>6. Answers(X, T, V, A)
    BY <1>3 DEF Channels, Answers
  <1> QED BY <1>1, <1>2, <1>4, <1>5, <1>6 DEF Channels, T

\* Adding one that is neither, nor anything the services ask of a channel.
LEMMA AddOther ==
  ASSUME NEW X, NEW V, NEW Q \in Seq(ScEvent), NEW S, NEW A, NEW n,
         Channels(X, V, Q, S, A, n), NEW e \in ScEvent,
         e.type # "SC_CONNECT", e.type # "SC_DISCONNECTED_ACK",
         e.type \in AskTypes =>
           /\ Held(X, e.id, e.owner)
           /\ \A q \in Elems(Q) : q.type = "SC_DISCONNECTED_ACK" => q.id # e.id
  PROVE  Append(Q, e) \in Seq(ScEvent) /\ Channels(X, V, Append(Q, e), S, A, n)
  <1> DEFINE T == Append(Q, e)
  <1>1. Elems(T) = Elems(Q) \cup {e} /\ T \in Seq(ScEvent) /\ Elems(Q) \subseteq ScEvent
    BY ElemsAppend, ElemsType
  <1>2. Pairwise(T, AskOrder)
    <2>1. \A d \in Elems(Q) : <<d, e>> \in AskOrder
      BY <1>1 DEF AskOrder
    <2>2. Pairwise(Q, AskOrder)
      BY DEF Channels
    <2> QED BY <2>1, <2>2, PairwiseAppend
  <1>3. \A o : CountIn(T, {"SC_CONNECT"}, o) = CountIn(Q, {"SC_CONNECT"}, o)
    <2> TAKE o
    <2>1. CountIn(T, {"SC_CONNECT"}, o) = CountIn(Q, {"SC_CONNECT"}, o) + One(e, {"SC_CONNECT"}, o)
      BY CountAppend
    <2>2. One(e, {"SC_CONNECT"}, o) = 0
      BY DEF One, Match
    <2>3. CountIn(Q, {"SC_CONNECT"}, o) \in Nat
      BY CountFew
    <2> QED BY <2>1, <2>2, <2>3
  <1> HIDE DEF T
  <1>4. AsksKept(X, T) /\ AckSilent(T, V, S) /\ NewOnes(X, T, n)
    BY <1>1 DEF Channels, AsksKept, AckSilent, NewOnes
  <1>5. ClosingKept(X, T, V)
    <2>1. \A c : Ending(T, V, c) <=> Ending(Q, V, c)
      BY <1>1 DEF Ending
    <2> QED BY <2>1 DEF Channels, ClosingKept
  <1>6. Answers(X, T, V, A)
    BY <1>3 DEF Channels, Answers
  <1> QED BY <1>1, <1>2, <1>4, <1>5, <1>6 DEF Channels, T

\* The services have acknowledged the end of a channel: its index is free.
LEMMA AckMove ==
  ASSUME NEW X \in Arrays, NEW Y \in Arrays, NEW c \in ConnIds, Others(X, Y, c), Y[c] = ClosedSC,
         NEW V \in Seq(SvcEvent), NEW Q \in Seq(ScEvent), Q # <<>>, NEW S, NEW A, NEW n \in Nat,
         Channels(X, V, Q, S, A, n),
         Head(Q).type = "SC_DISCONNECTED_ACK", Head(Q).id = c
  PROVE  /\ X[c].state = "SC_CLOSING"
         /\ Tail(Q) \in Seq(ScEvent) /\ Channels(Y, V, Tail(Q), S, A, n)
  <1> DEFINE T == Tail(Q)
  <1>1. /\ Elems(Q) = {Head(Q)} \cup Elems(T) /\ T \in Seq(ScEvent) /\ Head(Q) \in Elems(Q)
        /\ Elems(T) \subseteq ScEvent /\ Elems(V) \subseteq SvcEvent
    BY ElemsTail, ElemsType
  <1>2. Pairwise(T, AskOrder) /\ \A e \in Elems(T) : <<Head(Q), e>> \in AskOrder
    BY PairwiseTail DEF Channels
  <1>3. \A e \in Elems(T) : e.type \in AskTypes => e.id # c
    BY <1>2 DEF AskOrder
  <1>4. \A o : CountIn(T, {"SC_CONNECT"}, o) = CountIn(Q, {"SC_CONNECT"}, o)
    <2> TAKE o
    <2>1. CountIn(Q, {"SC_CONNECT"}, o) = CountIn(T, {"SC_CONNECT"}, o) + One(Head(Q), {"SC_CONNECT"}, o)
      BY CountTail
    <2>2. One(Head(Q), {"SC_CONNECT"}, o) = 0
      BY DEF One, Match
    <2>3. CountIn(T, {"SC_CONNECT"}, o) \in Nat
      BY <1>1, CountFew
    <2> QED BY <2>1, <2>2, <2>3
  <1> HIDE DEF T
  <1>5. S[c] = 0 /\ \A f \in Elems(V) : f.type \in TellTypes => f.id # c
    BY <1>1 DEF Channels, AckSilent
  <1>6. X[c].state = "SC_CLOSING"
    BY <1>1 DEF Channels, ClosingKept, Ending
  <1>7. /\ Y[c].owner = 0 /\ ~Y[c].isServerConnection /\ Y[c].state = "SC_CLOSED"
        /\ \A d \in ConnIds \ {c} : \A o : Held(X, d, o) => Held(Y, d, o)
        /\ \A d \in ConnIds : Y[d].owner = X[d].owner \/ Y[d].owner = 0
    BY DEF Others, Stays, Held, ClosedSC
  <1>8. OwnersKept(Y, n)
    <2>1. \A d \in ConnIds : X[d].owner <= n /\ X[d].owner \in Nat
      BY EntryFields DEF Channels, OwnersKept, Arrays
    <2>2. \A d \in ConnIds : Y[d].owner <= n
      BY <1>7, <2>1
    <2>3. \A d, e \in ConnIds : X[d].owner = X[e].owner => d = e \/ X[d].owner = 0
      BY DEF Channels, OwnersKept
    <2> QED BY <1>7, <2>2, <2>3 DEF OwnersKept
  <1>9. AsksKept(Y, T)
    <2>1. \A e \in Elems(T) : e.type \in AskTypes => e.id \in ConnIds \ {c}
      BY <1>1, <1>3 DEF ScEvent
    <2> QED BY <1>1, <1>7, <2>1 DEF Channels, AsksKept
  <1>10. TellsKept(Y, V)
    <2>1. \A e \in Elems(V) : e.type \in TellTypes => e.id \in ConnIds \ {c}
      BY <1>1, <1>5 DEF SvcEvent
    <2> QED BY <1>7, <2>1 DEF Channels, TellsKept
  <1>11. SvcKept(Y, S)
    BY <1>5, <1>7 DEF Channels, SvcKept
  <1>12. AckSilent(T, V, S) /\ Pairwise(V, TellOrder)
    BY <1>1 DEF Channels, AckSilent
  <1>13. ClosingKept(Y, T, V)
    <2>1. ASSUME NEW d \in ConnIds PROVE Y[d].state = "SC_CLOSING" <=> Ending(T, V, d)
      <3>1. CASE d = c
        BY <1>3, <1>5, <1>7, <3>1 DEF Ending, AskTypes, TellTypes
      <3>2. CASE d # c
        <4>1. Ending(T, V, d) <=> Ending(Q, V, d)
          BY <1>1, <3>2 DEF Ending
        <4> QED BY <3>2, <4>1 DEF Channels, ClosingKept, Others, Stays
      <3> QED BY <3>1, <3>2
    <2> QED BY <2>1 DEF ClosingKept
  <1>14. NewOnes(Y, T, n)
    <2>1. 0 \notin 1..n
      OBVIOUS
    <2> QED BY <1>1, <1>7, <2>1 DEF Channels, NewOnes
  <1>15. Answers(Y, T, V, A)
    <2>1. Answers(X, T, V, A)
      BY <1>4 DEF Channels, Answers
    <2>2. \A o \in Owners \ {0} : c \notin Attempts(X, o) /\ c \notin Attempts(Y, o)
      BY <1>6, <1>7 DEF Attempts
    <2> QED BY <1>1, <2>1, <2>2, AnswersMove
  <1>16. ServersUnasked(Y, V, A, n)
    <2>1. \A d \in ConnIds : Y[d].isServerConnection =>
                               X[d].isServerConnection /\ Y[d].owner = X[d].owner
      BY <1>7 DEF Others, Stays
    <2> QED BY <2>1 DEF Channels, ServersUnasked
  <1> QED BY <1>1, <1>2, <1>6, <1>8, <1>9, <1>10, <1>11, <1>12, <1>13, <1>14, <1>15, <1>16 DEF Channels, T

\* Connection o begins at index c, which was free.
LEMMA StartParts ==
  ASSUME NEW X \in Arrays, NEW Y \in Arrays, NEW c \in ConnIds, Others(X, Y, c),
         X[c].state = "SC_CLOSED", Y[c].state = "TCP_INIT",
         NEW V \in Seq(SvcEvent), NEW Q \in Seq(ScEvent), NEW S, NEW A, NEW n \in Nat, NEW m \in Nat,
         OwnersKept(X, n), AsksKept(X, Q), TellsKept(X, V), SvcKept(X, S), ClosingKept(X, Q, V),
         NewOnes(X, Q, n), ServersUnasked(X, V, A, n), n <= m,
         Y[c].owner \in 1..m, \A d \in ConnIds : X[d].owner # Y[c].owner,
         \A e \in Elems(Q) : e.type = "SC_CONNECT" => e.owner # Y[c].owner,
         Y[c].isServerConnection => Y[c].owner \notin A
  PROVE  /\ OwnersKept(Y, m) /\ AsksKept(Y, Q) /\ TellsKept(Y, V) /\ SvcKept(Y, S)
         /\ ClosingKept(Y, Q, V) /\ NewOnes(Y, Q, m) /\ ServersUnasked(Y, V, A, m)
  <1>1. \A d \in ConnIds : \A o : Held(X, d, o) => Held(Y, d, o)
    BY DEF Held, Others, Stays
  <1>2. \A d \in ConnIds \ {c} : Y[d].owner = X[d].owner
    BY DEF Others, Stays
  <1>3. OwnersKept(Y, m)
    <2>1. \A d \in ConnIds : X[d].owner <= n /\ X[d].owner \in Nat
      BY EntryFields DEF OwnersKept, Arrays
    <2>2. \A d \in ConnIds : Y[d].owner <= m
      BY <1>2, <2>1
    <2>3. \A d, e \in ConnIds : X[d].owner = X[e].owner => d = e \/ X[d].owner = 0
      BY DEF OwnersKept
    <2> QED BY <1>2, <2>2, <2>3 DEF OwnersKept
  <1>4. AsksKept(Y, Q)
    <2>1. \A e \in Elems(Q) : e.type \in AskTypes => e.id \in ConnIds
      BY ElemsType DEF ScEvent
    <2> QED BY <1>1, <2>1 DEF AsksKept
  <1>5. TellsKept(Y, V)
    <2>1. \A e \in Elems(V) : e.type \in TellTypes => e.id \in ConnIds
      BY ElemsType DEF SvcEvent
    <2> QED BY <1>1, <2>1 DEF TellsKept
  <1>6. SvcKept(Y, S)
    BY <1>1 DEF SvcKept
  <1>7. NewOnes(Y, Q, m)
    <2>1. 1..n \subseteq 1..m
      OBVIOUS
    <2> QED BY <1>2, <2>1 DEF NewOnes
  <1>8. ServersUnasked(Y, V, A, m)
    <2>1. \A d \in ConnIds \ {c} : Y[d].isServerConnection =>
                               X[d].isServerConnection /\ Y[d].owner = X[d].owner
      BY DEF Others, Stays
    <2>2. 1..n \subseteq 1..m
      OBVIOUS
    <2> QED BY <2>1, <2>2 DEF ServersUnasked
  <1>9. ClosingKept(Y, Q, V)
    BY DEF ClosingKept, Others, Stays
  <1> QED BY <1>3, <1>4, <1>5, <1>6, <1>7, <1>8, <1>9

\* A connection that a listener accepted begins, under a number not used yet.
LEMMA AcceptMove ==
  ASSUME NEW X \in Arrays, NEW Y \in Arrays, NEW c \in ConnIds, Others(X, Y, c),
         X[c].state = "SC_CLOSED", Y[c].state = "TCP_INIT",
         NEW V \in Seq(SvcEvent), NEW Q \in Seq(ScEvent), NEW S, NEW A, NEW n \in Nat,
         Channels(X, V, Q, S, A, n), Y[c].owner = n + 1, Y[c].isServerConnection
  PROVE  Channels(Y, V, Q, S, A, n + 1)
  <1>1. \A d \in ConnIds : X[d].owner # n + 1
    <2>1. \A d \in ConnIds : X[d].owner <= n /\ X[d].owner \in Nat
      BY EntryFields DEF Channels, OwnersKept, Arrays
    <2> QED BY <2>1
  <1>2. n + 1 \notin 1..n /\ n + 1 \in 1..(n + 1) /\ n + 1 \in Nat /\ n <= n + 1
    OBVIOUS
  <1>3. n + 1 \notin A
    BY <1>2 DEF Channels, ServersUnasked
  <1>4. \A e \in Elems(Q) : e.type = "SC_CONNECT" => e.owner # n + 1
    BY <1>2 DEF Channels, NewOnes
  <1>5. /\ OwnersKept(X, n) /\ AsksKept(X, Q) /\ TellsKept(X, V) /\ SvcKept(X, S)
        /\ ClosingKept(X, Q, V) /\ NewOnes(X, Q, n) /\ ServersUnasked(X, V, A, n)
        /\ Answers(X, Q, V, A)
    BY DEF Channels
  <1> DEFINE m == n + 1
  <1> HIDE DEF m
  <1>6. /\ OwnersKept(Y, m) /\ AsksKept(Y, Q) /\ TellsKept(Y, V) /\ SvcKept(Y, S)
        /\ ClosingKept(Y, Q, V) /\ NewOnes(Y, Q, m) /\ ServersUnasked(Y, V, A, m)
    <2>1. /\ m \in Nat /\ n <= m /\ Y[c].owner \in 1..m /\ Y[c].owner \notin A
          /\ \A d \in ConnIds : X[d].owner # Y[c].owner
          /\ \A e \in Elems(Q) : e.type = "SC_CONNECT" => e.owner # Y[c].owner
      BY <1>1, <1>2, <1>3, <1>4 DEF m
    <2> QED BY <1>5, <2>1, StartParts
  <1>7. Answers(Y, Q, V, A)
    <2>1. \A o \in Owners \ {0} : c \notin Attempts(X, o) /\ c \notin Attempts(Y, o)
      <3>1. X[c].owner = 0
        BY EntryFields DEF Arrays
      <3> QED BY <3>1 DEF Attempts
    <2> QED BY <1>5, <2>1, AnswersMove
  <1> QED BY <1>6, <1>7 DEF Channels, m

\* A request for a connection is taken: all that is missing is its answer.
LEMMA ConnectTaken ==
  ASSUME NEW X \in Arrays, NEW V \in Seq(SvcEvent), NEW Q \in Seq(ScEvent), Q # <<>>,
         NEW S, NEW A, NEW n \in Nat, Channels(X, V, Q, S, A, n), Head(Q).type = "SC_CONNECT"
  PROVE  LET T == Tail(Q)
             o == Head(Q).owner
         IN  /\ T \in Seq(ScEvent) /\ o \in 1..n /\ \A d \in ConnIds : X[d].owner # o
             /\ \A e \in Elems(T) : e.type = "SC_CONNECT" => e.owner # o
             /\ OwnersKept(X, n) /\ AsksKept(X, T) /\ TellsKept(X, V) /\ SvcKept(X, S)
             /\ AckSilent(T, V, S) /\ Pairwise(T, AskOrder) /\ Pairwise(V, TellOrder)
             /\ ClosingKept(X, T, V) /\ NewOnes(X, T, n) /\ ServersUnasked(X, V, A, n)
             /\ \A p \in Owners \ {0} :
                  CountIn(Q, {"SC_CONNECT"}, p)
                    = CountIn(T, {"SC_CONNECT"}, p) + IF p = o THEN 1 ELSE 0
  <1> DEFINE T == Tail(Q)
             o == Head(Q).owner
  <1>1. /\ Elems(Q) = {Head(Q)} \cup Elems(T) /\ T \in Seq(ScEvent) /\ Head(Q) \in Elems(Q)
        /\ Elems(T) \subseteq ScEvent /\ Elems(V) \subseteq SvcEvent
    BY ElemsTail, ElemsType
  <1>2. Pairwise(T, AskOrder) /\ \A e \in Elems(T) : <<Head(Q), e>> \in AskOrder
    BY PairwiseTail DEF Channels
  <1>3. \A e \in Elems(T) : e.type = "SC_CONNECT" => e.owner # o
    BY <1>2 DEF AskOrder
  <1>4. \A p \in Owners \ {0} : CountIn(Q, {"SC_CONNECT"}, p)
           = CountIn(T, {"SC_CONNECT"}, p) + IF p = o THEN 1 ELSE 0
    <2> TAKE p \in Owners \ {0}
    <2>1. CountIn(Q, {"SC_CONNECT"}, p) = CountIn(T, {"SC_CONNECT"}, p) + One(Head(Q), {"SC_CONNECT"}, p)
      BY CountTail
    <2>2. One(Head(Q), {"SC_CONNECT"}, p) = IF p = o THEN 1 ELSE 0
      BY DEF One, Match
    <2> QED BY <2>1, <2>2
  <1> HIDE DEF T
  <1>5. /\ o \in 1..n /\ \A d \in ConnIds : X[d].owner # o
        /\ NewOnes(X, T, n) /\ AsksKept(X, T) /\ AckSilent(T, V, S)
    BY <1>1 DEF Channels, NewOnes, AsksKept, AckSilent
  <1>6. ClosingKept(X, T, V)
    <2>1. \A d : Ending(T, V, d) <=> Ending(Q, V, d)
      BY <1>1 DEF Ending
    <2> QED BY <2>1 DEF Channels, ClosingKept
  <1>7. /\ OwnersKept(X, n) /\ TellsKept(X, V) /\ SvcKept(X, S) /\ Pairwise(V, TellOrder)
        /\ ServersUnasked(X, V, A, n)
    BY DEF Channels
  <1> QED BY <1>1, <1>2, <1>3, <1>4, <1>5, <1>6, <1>7 DEF T

\* The connection begins.
LEMMA ConnectMove ==
  ASSUME NEW X \in Arrays, NEW Y \in Arrays, NEW c \in ConnIds, Others(X, Y, c),
         X[c].state = "SC_CLOSED", Y[c].state = "TCP_INIT", ~Y[c].isServerConnection,
         NEW V \in Seq(SvcEvent), NEW Q \in Seq(ScEvent), Q # <<>>, NEW S, NEW A, NEW n \in Nat,
         Channels(X, V, Q, S, A, n), Head(Q).type = "SC_CONNECT", Y[c].owner = Head(Q).owner
  PROVE  Tail(Q) \in Seq(ScEvent) /\ Channels(Y, V, Tail(Q), S, A, n)
  <1> DEFINE T == Tail(Q)
             o == Head(Q).owner
  <1>1. /\ T \in Seq(ScEvent) /\ o \in 1..n /\ \A d \in ConnIds : X[d].owner # o
        /\ \A e \in Elems(T) : e.type = "SC_CONNECT" => e.owner # o
        /\ OwnersKept(X, n) /\ AsksKept(X, T) /\ TellsKept(X, V) /\ SvcKept(X, S)
        /\ AckSilent(T, V, S) /\ Pairwise(T, AskOrder) /\ Pairwise(V, TellOrder)
        /\ ClosingKept(X, T, V) /\ NewOnes(X, T, n) /\ ServersUnasked(X, V, A, n)
        /\ \A p \in Owners \ {0} :
             CountIn(Q, {"SC_CONNECT"}, p)
               = CountIn(T, {"SC_CONNECT"}, p) + IF p = o THEN 1 ELSE 0
    BY ConnectTaken
  <1> HIDE DEF T, o
  <1>2. /\ OwnersKept(Y, n) /\ AsksKept(Y, T) /\ TellsKept(Y, V) /\ SvcKept(Y, S)
        /\ ClosingKept(Y, T, V) /\ NewOnes(Y, T, n) /\ ServersUnasked(Y, V, A, n)
    <2>1. Y[c].owner = o /\ n <= n
      BY DEF o
    <2> QED BY <1>1, <2>1, StartParts
  <1>3. Answers(Y, T, V, A)
    <2>1. ASSUME NEW p \in Owners \ {0}
          PROVE  CountIn(T, {"SC_CONNECT"}, p) + Cardinality(Attempts(Y, p))
                        + CountIn(V, AnswerTypes, p) = IF p \in A THEN 1 ELSE 0
      <3>1. /\ Cardinality(Attempts(X, p)) \in Nat /\ Cardinality(Attempts(Y, p)) \in Nat
            /\ Cardinality(Attempts(Y, p)) + (IF c \in Attempts(X, p) THEN 1 ELSE 0)
                  = Cardinality(Attempts(X, p)) + (IF c \in Attempts(Y, p) THEN 1 ELSE 0)
        BY AttemptsChange
      <3>2. /\ CountIn(Q, {"SC_CONNECT"}, p) \in Nat /\ CountIn(T, {"SC_CONNECT"}, p) \in Nat
            /\ CountIn(V, AnswerTypes, p) \in Nat
        BY <1>1, CountFew
      <3>3. CountIn(Q, {"SC_CONNECT"}, p) + Cardinality(Attempts(X, p))
              + CountIn(V, AnswerTypes, p) = IF p \in A THEN 1 ELSE 0
        BY DEF Channels, Answers
      <3>4. CountIn(Q, {"SC_CONNECT"}, p) = CountIn(T, {"SC_CONNECT"}, p) + IF p = o THEN 1 ELSE 0
        BY <1>1
      <3>5. c \notin Attempts(X, p)
        <4>1. X[c].owner = 0
          BY EntryFields DEF Arrays
        <4> QED BY <4>1 DEF Attempts
      <3>6. c \in Attempts(Y, p) <=> p = o
        BY DEF Attempts, o
      <3>7. Cardinality(Attempts(Y, p)) = Cardinality(Attempts(X, p)) + IF p = o THEN 1 ELSE 0
        BY <3>1, <3>5, <3>6
      <3>8. ASSUME NEW q \in Nat, NEW x \in Nat, NEW y \in Nat, NEW v \in Nat, NEW t \in Nat,
                   q = t + (IF p = o THEN 1 ELSE 0), y = x + (IF p = o THEN 1 ELSE 0)
            PROVE  t + y + v = q + x + v
        BY <3>8
      <3> QED BY <3>1, <3>2, <3>3, <3>4, <3>7, <3>8
    <2> QED BY <2>1 DEF Answers
  <1> QED BY <1>1, <1>2, <1>3 DEF Channels, T

\* There is no index for it, or no key or timer: it is answered for at once.
LEMMA RefuseMove ==
  ASSUME NEW X \in Arrays, NEW V \in Seq(SvcEvent), NEW Q \in Seq(ScEvent), Q # <<>>,
         NEW S, NEW A, NEW n \in Nat,
         Channels(X, V, Q, S, A, n), Head(Q).type = "SC_CONNECT",
         NEW e \in SvcEvent, e.type = "SC_CONNECTION_TIMEOUT", e.owner = Head(Q).owner
  PROVE  /\ Tail(Q) \in Seq(ScEvent) /\ Append(V, e) \in Seq(SvcEvent)
         /\ Channels(X, Append(V, e), Tail(Q), S, A, n)
  <1> DEFINE T == Tail(Q)
             o == Head(Q).owner
             W == Append(V, e)
  <1>1. /\ T \in Seq(ScEvent) /\ o \in 1..n /\ \A d \in ConnIds : X[d].owner # o
        /\ \A f \in Elems(T) : f.type = "SC_CONNECT" => f.owner # o
        /\ OwnersKept(X, n) /\ AsksKept(X, T) /\ TellsKept(X, V) /\ SvcKept(X, S)
        /\ AckSilent(T, V, S) /\ Pairwise(T, AskOrder) /\ Pairwise(V, TellOrder)
        /\ ClosingKept(X, T, V) /\ NewOnes(X, T, n) /\ ServersUnasked(X, V, A, n)
        /\ \A p \in Owners \ {0} :
             CountIn(Q, {"SC_CONNECT"}, p)
               = CountIn(T, {"SC_CONNECT"}, p) + IF p = o THEN 1 ELSE 0
    BY ConnectTaken
  <1>2. e.type \notin TellTypes /\ e.type # "EP_CONNECTED" /\ e.type # "SC_DISCONNECTED"
    BY DEF TellTypes
  <1> HIDE DEF T
  <1>3. /\ W \in Seq(SvcEvent)
        /\ TellsKept(X, W) /\ AckSilent(T, W, S) /\ Pairwise(W, TellOrder)
        /\ ServersUnasked(X, W, A, n)
        /\ \A d : Ending(T, W, d) <=> Ending(T, V, d)
    BY <1>1, <1>2, ToldMore
  <1>4. ClosingKept(X, T, W)
    BY <1>1, <1>3 DEF ClosingKept
  <1>5. Answers(X, T, W, A)
    <2>1. ASSUME NEW p \in Owners \ {0}
          PROVE  CountIn(T, {"SC_CONNECT"}, p) + Cardinality(Attempts(X, p))
                        + CountIn(W, AnswerTypes, p) = IF p \in A THEN 1 ELSE 0
      <3>1. Cardinality(Attempts(X, p)) \in Nat
        <4>1. Attempts(X, p) \subseteq ConnIds /\ IsFiniteSet(ConnIds)
          BY ScSocketsAssumption DEF Attempts
        <4> QED BY <4>1, FS_Subset, FS_CardinalityType
      <3>2. /\ CountIn(Q, {"SC_CONNECT"}, p) \in Nat /\ CountIn(T, {"SC_CONNECT"}, p) \in Nat
            /\ CountIn(V, AnswerTypes, p) \in Nat
        BY <1>1, CountFew
      <3>3. CountIn(Q, {"SC_CONNECT"}, p) + Cardinality(Attempts(X, p))
              + CountIn(V, AnswerTypes, p) = IF p \in A THEN 1 ELSE 0
        BY DEF Channels, Answers
      <3>4. CountIn(Q, {"SC_CONNECT"}, p) = CountIn(T, {"SC_CONNECT"}, p) + IF p = o THEN 1 ELSE 0
        BY <1>1
      <3>5. CountIn(W, AnswerTypes, p) = CountIn(V, AnswerTypes, p) + IF p = o THEN 1 ELSE 0
        <4>1. CountIn(W, AnswerTypes, p) = CountIn(V, AnswerTypes, p) + One(e, AnswerTypes, p)
          BY CountAppend
        <4>2. One(e, AnswerTypes, p) = IF p = o THEN 1 ELSE 0
          BY DEF One, Match, AnswerTypes
        <4> QED BY <4>1, <4>2
      <3>8. ASSUME NEW q \in Nat, NEW x \in Nat, NEW v \in Nat, NEW t \in Nat, NEW w,
                   q = t + (IF p = o THEN 1 ELSE 0), w = v + (IF p = o THEN 1 ELSE 0)
            PROVE  t + x + w = q + x + v
        BY <3>8
      <3> HIDE DEF o, W
      <3> QED BY <3>1, <3>2, <3>3, <3>4, <3>5, <3>8
    <2> QED BY <2>1 DEF Answers
  <1> HIDE DEF W
  <1> QED BY <1>1, <1>3, <1>4, <1>5 DEF Channels, T, W

-----------------------------------------------------------------------------
(* The services take what they are told.                                   *)

\* The connections asked for, with the answer of o taken.
LEMMA AnswerTaken ==
  ASSUME NEW V \in Seq(SvcEvent), V # <<>>, NEW X, NEW Q \in Seq(ScEvent), NEW A,
         Answers(X, Q, V, A), \A p : Cardinality(Attempts(X, p)) \in Nat,
         Head(V).type \notin AnswerTypes => Head(V).owner \notin A
  PROVE  Answers(X, Q, Tail(V), A \ {Head(V).owner})
  <1> DEFINE W == Tail(V)
             o == Head(V).owner
  <1>1. ASSUME NEW p \in Owners \ {0}
        PROVE  CountIn(Q, {"SC_CONNECT"}, p) + Cardinality(Attempts(X, p))
                        + CountIn(W, AnswerTypes, p) = IF p \in A \ {o} THEN 1 ELSE 0
    <2>1. Cardinality(Attempts(X, p)) \in Nat
      OBVIOUS
    <2>2. W \in Seq(SvcEvent)
      BY ElemsTail
    <2>3. /\ CountIn(Q, {"SC_CONNECT"}, p) \in Nat
          /\ CountIn(W, AnswerTypes, p) \in Nat
      BY <2>2, CountFew
    <2>4. CountIn(Q, {"SC_CONNECT"}, p) + Cardinality(Attempts(X, p))
            + CountIn(V, AnswerTypes, p) = IF p \in A THEN 1 ELSE 0
      BY DEF Answers
    <2>5. CountIn(V, AnswerTypes, p) = CountIn(W, AnswerTypes, p) + One(Head(V), AnswerTypes, p)
      BY CountTail
    <2>6. CASE p = o /\ Head(V).type \in AnswerTypes
      <3>1. One(Head(V), AnswerTypes, p) = 1
        BY <2>6 DEF One, Match
      <3>2. ASSUME NEW q \in Nat, NEW x \in Nat, NEW w \in Nat,
                   q + x + (w + 1) = IF p \in A THEN 1 ELSE 0
            PROVE  q + x + w = 0
        BY <3>2
      <3> HIDE DEF W
      <3> QED BY <2>1, <2>3, <2>4, <2>5, <2>6, <3>1, <3>2
    <2>7. CASE ~(p = o /\ Head(V).type \in AnswerTypes)
      <3>1. One(Head(V), AnswerTypes, p) = 0
        BY <2>7 DEF One, Match
      <3>2. p \in A \ {o} <=> p \in A
        BY <2>7
      <3>3. CountIn(V, AnswerTypes, p) = CountIn(W, AnswerTypes, p)
        BY <2>3, <2>5, <3>1
      <3> HIDE DEF W, o
      <3> QED BY <2>4, <3>2, <3>3
    <2> QED BY <2>6, <2>7
  <1> QED BY <1>1 DEF Answers

\* They are told of anything but an end.
LEMMA ToldTaken ==
  ASSUME NEW X \in Arrays, NEW V \in Seq(SvcEvent), V # <<>>, NEW Q \in Seq(ScEvent),
         NEW S, NEW A, NEW n, Channels(X, V, Q, S, A, n), Head(V).type # "SC_DISCONNECTED"
  PROVE  Tail(V) \in Seq(SvcEvent) /\ Channels(X, Tail(V), Q, S, A \ {Head(V).owner}, n)
  <1> DEFINE W == Tail(V)
             B == A \ {Head(V).owner}
  <1>1. /\ Elems(V) = {Head(V)} \cup Elems(W) /\ W \in Seq(SvcEvent) /\ Head(V) \in Elems(V)
        /\ Elems(V) \subseteq SvcEvent
    BY ElemsTail, ElemsType
  <1>2. Pairwise(W, TellOrder)
    BY PairwiseTail DEF Channels
  <1>3. Answers(X, Q, W, B)
    <2>1. Answers(X, Q, V, A)
      BY DEF Channels
    <2>2. \A p : Cardinality(Attempts(X, p)) \in Nat
      <3> TAKE p
      <3>1. Attempts(X, p) \subseteq ConnIds /\ IsFiniteSet(ConnIds)
        BY ScSocketsAssumption DEF Attempts
      <3> QED BY <3>1, FS_Subset, FS_CardinalityType
    <2>3. Head(V).type \notin AnswerTypes => Head(V).type = "EP_CONNECTED"
      BY <1>1 DEF SvcEvent, AnswerTypes, TellTypes
    <2>4. Head(V).type \notin AnswerTypes => Head(V).owner \notin A
      BY <1>1, <2>3 DEF Channels, ServersUnasked
    <2> QED BY <2>1, <2>2, <2>4, AnswerTaken
  <1> HIDE DEF W
  <1>4. TellsKept(X, W) /\ AckSilent(Q, W, S) /\ ServersUnasked(X, W, B, n)
    BY <1>1 DEF Channels, TellsKept, AckSilent, ServersUnasked
  <1>5. ClosingKept(X, Q, W)
    <2>1. \A d : Ending(Q, W, d) <=> Ending(Q, V, d)
      BY <1>1 DEF Ending
    <2> QED BY <2>1 DEF Channels, ClosingKept
  <1> QED BY <1>1, <1>2, <1>3, <1>4, <1>5 DEF Channels, W

\* They record the channel.
LEMMA HoldMove ==
  ASSUME NEW X, NEW V, NEW Q, NEW S \in [ConnIds -> Owners], NEW A, NEW n,
         Channels(X, V, Q, S, A, n), NEW c \in ConnIds, NEW o, Held(X, c, o),
         \A q \in Elems(Q) : q.type = "SC_DISCONNECTED_ACK" => q.id # c
  PROVE  Channels(X, V, Q, [S EXCEPT ![c] = o], A, n)
  <1> DEFINE R == [S EXCEPT ![c] = o]
  <1>1. R[c] = o /\ \A d : d # c => R[d] = S[d]
    OBVIOUS
  <1> HIDE DEF R
  <1>2. SvcKept(X, R)
    BY <1>1 DEF Channels, SvcKept
  <1>3. AckSilent(Q, V, R)
    BY <1>1 DEF Channels, AckSilent
  <1> QED BY <1>2, <1>3 DEF Channels, R

\* They are told of the end of a channel, and acknowledge it.
LEMMA EndMove ==
  ASSUME NEW X \in Arrays, NEW V \in Seq(SvcEvent), V # <<>>, NEW Q \in Seq(ScEvent),
         NEW S \in [ConnIds -> Owners], NEW A, NEW n, Channels(X, V, Q, S, A, n),
         Head(V).type = "SC_DISCONNECTED",
         NEW e \in ScEvent, e.type = "SC_DISCONNECTED_ACK", e.id = Head(V).id, e.owner = Head(V).owner
  PROVE  /\ Tail(V) \in Seq(SvcEvent) /\ Append(Q, e) \in Seq(ScEvent)
         /\ Channels(X, Tail(V), Append(Q, e), [S EXCEPT ![e.id] = 0], A, n)
  <1> DEFINE W == Tail(V)
             T == Append(Q, e)
             R == [S EXCEPT ![e.id] = 0]
             h == Head(V)
  <1>1. /\ Elems(V) = {h} \cup Elems(W) /\ W \in Seq(SvcEvent) /\ h \in Elems(V)
        /\ Elems(V) \subseteq SvcEvent /\ Elems(Q) \subseteq ScEvent
        /\ Elems(T) = Elems(Q) \cup {e} /\ T \in Seq(ScEvent)
    BY ElemsTail, ElemsType, ElemsAppend
  <1>2. Pairwise(W, TellOrder) /\ \A f \in Elems(W) : <<h, f>> \in TellOrder
    BY PairwiseTail DEF Channels
  <1>3. \A f \in Elems(W) : f.type \in TellTypes => f.id # e.id
    BY <1>2 DEF TellOrder
  <1>4. h.type \in TellTypes /\ e.type \in AskTypes /\ e.id \in ConnIds
    BY DEF TellTypes, AskTypes, ScEvent
  <1>5. Held(X, e.id, e.owner) /\ \A q \in Elems(Q) : q.type = "SC_DISCONNECTED_ACK" => q.id # e.id
    BY <1>1, <1>4 DEF Channels, TellsKept, AckSilent
  <1>6. Pairwise(T, AskOrder)
    <2>1. \A d \in Elems(Q) : <<d, e>> \in AskOrder
      BY <1>1, <1>5 DEF AskOrder
    <2>2. Pairwise(Q, AskOrder)
      BY DEF Channels
    <2> QED BY <2>1, <2>2, PairwiseAppend
  <1>7. \A o : CountIn(T, {"SC_CONNECT"}, o) = CountIn(Q, {"SC_CONNECT"}, o)
    <2> TAKE o
    <2>1. CountIn(T, {"SC_CONNECT"}, o) = CountIn(Q, {"SC_CONNECT"}, o) + One(e, {"SC_CONNECT"}, o)
      BY CountAppend
    <2>2. One(e, {"SC_CONNECT"}, o) = 0
      BY DEF One, Match
    <2>3. CountIn(Q, {"SC_CONNECT"}, o) \in Nat
      BY CountFew
    <2> QED BY <2>1, <2>2, <2>3
  <1>8. \A o : CountIn(W, AnswerTypes, o) = CountIn(V, AnswerTypes, o)
    <2> TAKE o
    <2>1. CountIn(V, AnswerTypes, o) = CountIn(W, AnswerTypes, o) + One(h, AnswerTypes, o)
      BY CountTail
    <2>2. One(h, AnswerTypes, o) = 0
      BY DEF One, Match, AnswerTypes
    <2>3. CountIn(W, AnswerTypes, o) \in Nat
      BY <1>1, CountFew
    <2> QED BY <2>1, <2>2, <2>3
  <1>9. R[e.id] = 0 /\ \A d : d # e.id => R[d] = S[d]
    BY <1>4
  <1> HIDE DEF W, T, R, h
  <1>10. AsksKept(X, T) /\ TellsKept(X, W) /\ SvcKept(X, R)
    BY <1>1, <1>5, <1>9 DEF Channels, AsksKept, TellsKept, SvcKept
  <1>11. AckSilent(T, W, R)
    BY <1>1, <1>3, <1>9 DEF Channels, AckSilent
  <1>12. ClosingKept(X, T, W)
    <2>1. \A d : Ending(T, W, d) <=> Ending(Q, V, d)
      BY <1>1 DEF Ending, h
    <2> QED BY <2>1 DEF Channels, ClosingKept
  <1>13. NewOnes(X, T, n) /\ ServersUnasked(X, W, A, n)
    BY <1>1 DEF Channels, NewOnes, ServersUnasked
  <1>14. Answers(X, T, W, A)
    BY <1>7, <1>8 DEF Channels, Answers
  <1> QED BY <1>1, <1>2, <1>6, <1>10, <1>11, <1>12, <1>13, <1>14 DEF Channels, T, W, R

\* They ask for one more connection.
LEMMA AskMove ==
  ASSUME NEW X \in Arrays, NEW V \in Seq(SvcEvent), NEW Q \in Seq(ScEvent),
         NEW S, NEW A, NEW n \in Nat, Channels(X, V, Q, S, A, n),
         NEW e \in ScEvent, e.type = "SC_CONNECT", e.owner = n + 1
  PROVE  Append(Q, e) \in Seq(ScEvent) /\ Channels(X, V, Append(Q, e), S, A \cup {n + 1}, n + 1)
  <1> DEFINE T == Append(Q, e)
             m == n + 1
             B == A \cup {m}
  <1>1. Elems(T) = Elems(Q) \cup {e} /\ T \in Seq(ScEvent) /\ Elems(Q) \subseteq ScEvent
        /\ Elems(V) \subseteq SvcEvent
    BY ElemsAppend, ElemsType
  <1>2. \A d \in ConnIds : X[d].owner <= n /\ X[d].owner \in Nat
    BY EntryFields DEF Channels, OwnersKept, Arrays
  <1>3. /\ \A d \in ConnIds : X[d].owner <= m /\ X[d].owner # m
        /\ m \notin 1..n /\ 1..n \subseteq 1..m /\ m \in 1..m
    BY <1>2
  <1>4. \A f \in Elems(Q) : f.type = "SC_CONNECT" => f.owner # m
    BY <1>3 DEF Channels, NewOnes
  <1>5. Pairwise(T, AskOrder)
    <2>1. \A d \in Elems(Q) : <<d, e>> \in AskOrder
      BY <1>1, <1>4 DEF AskOrder, AskTypes
    <2>2. Pairwise(Q, AskOrder)
      BY DEF Channels
    <2> QED BY <2>1, <2>2, PairwiseAppend
  <1>6. \A o : CountIn(T, {"SC_CONNECT"}, o) = CountIn(Q, {"SC_CONNECT"}, o) + IF o = m THEN 1 ELSE 0
    <2> TAKE o
    <2>1. CountIn(T, {"SC_CONNECT"}, o) = CountIn(Q, {"SC_CONNECT"}, o) + One(e, {"SC_CONNECT"}, o)
      BY CountAppend
    <2>2. One(e, {"SC_CONNECT"}, o) = IF o = m THEN 1 ELSE 0
      BY DEF One, Match
    <2> QED BY <2>1, <2>2
  <1> HIDE DEF T, m
  <1>7. OwnersKept(X, m)
    BY <1>3 DEF Channels, OwnersKept
  <1>8. AsksKept(X, T) /\ AckSilent(T, V, S)
    BY <1>1 DEF Channels, AsksKept, AckSilent, AskTypes
  <1>9. ClosingKept(X, T, V)
    <2>1. \A d : Ending(T, V, d) <=> Ending(Q, V, d)
      BY <1>1 DEF Ending
    <2> QED BY <2>1 DEF Channels, ClosingKept
  <1>10. NewOnes(X, T, m)
    BY <1>1, <1>3 DEF Channels, NewOnes, m
  <1>11. ServersUnasked(X, V, B, m)
    <2>1. \A f \in Elems(V) : f.type = "EP_CONNECTED" => f.owner # m
      <3>1. \A f \in Elems(V) : f.type \in TellTypes => f.id \in ConnIds
        BY <1>1 DEF SvcEvent
      <3> QED BY <1>3, <3>1 DEF Channels, TellsKept, Held, TellTypes
    <2> QED BY <1>3, <2>1 DEF Channels, ServersUnasked
  <1>12. Answers(X, T, V, B)
    <2>1. m \notin A
      BY <1>3 DEF Channels, ServersUnasked
    <2>2. ASSUME NEW p \in Owners \ {0}
          PROVE  CountIn(T, {"SC_CONNECT"}, p) + Cardinality(Attempts(X, p))
                        + CountIn(V, AnswerTypes, p) = IF p \in B THEN 1 ELSE 0
      <3>1. Cardinality(Attempts(X, p)) \in Nat
        <4>1. Attempts(X, p) \subseteq ConnIds /\ IsFiniteSet(ConnIds)
          BY ScSocketsAssumption DEF Attempts
        <4> QED BY <4>1, FS_Subset, FS_CardinalityType
      <3>2. CountIn(Q, {"SC_CONNECT"}, p) \in Nat /\ CountIn(V, AnswerTypes, p) \in Nat
        BY CountFew
      <3>3. CountIn(Q, {"SC_CONNECT"}, p) + Cardinality(Attempts(X, p))
              + CountIn(V, AnswerTypes, p) = IF p \in A THEN 1 ELSE 0
        BY DEF Channels, Answers
      <3>4. ASSUME NEW q \in Nat, NEW x \in Nat, NEW v \in Nat, NEW t,
                   t = q + (IF p = m THEN 1 ELSE 0), q + x + v = IF p \in A THEN 1 ELSE 0
            PROVE  t + x + v = IF p \in B THEN 1 ELSE 0
        BY <2>1, <3>4
      <3> HIDE DEF B
      <3> QED BY <1>6, <3>1, <3>2, <3>3, <3>4, SMTT(30)
    <2> QED BY <2>2 DEF Answers
  <1> QED BY <1>1, <1>5, <1>7, <1>8, <1>9, <1>10, <1>11, <1>12 DEF Channels, T, m

-----------------------------------------------------------------------------
(* What the operators of the handlers return.                              *)

LEMMA ContextFields ==
  ASSUME NEW K \in Contexts
  PROVE  /\ K.sc \in Arrays /\ K.lsn \in [EpIds -> Listener]
         /\ K.armed \in SUBSET (ConnIds \X Owners)
         /\ K.pend \in Seq(InputEvents) /\ K.svcQ \in Seq(SvcEvent)
  BY DEF Contexts, Arrays

\* L differs from K in nothing but the timers and what the sockets are sent.
Alike(K, L) == L \in Contexts /\ L.sc = K.sc /\ L.lsn = K.lsn /\ L.svcQ = K.svcQ

\* L differs from K in the timers, the sockets and the entry of index c.
AlikeBut(K, L, c, s) ==
  /\ L \in Contexts /\ L.lsn = K.lsn /\ L.svcQ = K.svcQ
  /\ L.sc[c] = s /\ \A d \in ConnIds \ {c} : L.sc[d] = K.sc[d]

LEMMA ToSocketsType ==
  ASSUME NEW K \in Contexts, NEW e \in InputEvents
  PROVE  Alike(K, ToSockets(K, e))
  <1>1. Append(K.pend, e) \in Seq(InputEvents)
    BY ContextFields
  <1> QED BY <1>1 DEF ToSockets, Contexts, Alike

\* The entries: what may change in one.
LEMMA PutEntry ==
  ASSUME NEW K \in Contexts, NEW c \in ConnIds, NEW s \in Entry
  PROVE  AlikeBut(K, [K EXCEPT !.sc[c] = s], c, s)
  <1>1. [K.sc EXCEPT ![c] = s] \in [ConnIds -> Entry]
    BY ContextFields DEF Arrays
  <1> QED BY <1>1 DEF Contexts, AlikeBut

LEMMA TimerEntry ==
  ASSUME NEW s \in Entry, NEW o \in Owners, s.state = "SC_CLOSED" => o = 0
  PROVE  [s EXCEPT !.connectionTimeoutTimerId = o] \in Entry
         /\ Stays(s, [s EXCEPT !.connectionTimeoutTimerId = o])
  <1> DEFINE t == [s EXCEPT !.connectionTimeoutTimerId = o]
  <1>0. s \in ScRec
    BY DEF Entry
  <1>1. /\ t \in ScRec /\ t.state = s.state /\ t.owner = s.owner
        /\ t.isServerConnection = s.isServerConnection
        /\ t.serverEndpointConfigIdx = s.serverEndpointConfigIdx
    BY <1>0 DEF ScRec
  <1>2. s.state = "SC_CLOSED" => t = s
    BY DEF Entry, ClosedSC
  <1> HIDE DEF t
  <1> QED BY <1>1, <1>2 DEF Entry, Stays, t

LEMMA StopTimerType ==
  ASSUME NEW K \in Contexts, NEW c \in ConnIds
  PROVE  LET t == [K.sc[c] EXCEPT !.connectionTimeoutTimerId = 0]
         IN  AlikeBut(K, StopConnectionTimer(K, c), c, t) /\ t \in Entry /\ Stays(K.sc[c], t)
  <1> DEFINE t == [K.sc[c] EXCEPT !.connectionTimeoutTimerId = 0]
             a == K.armed \ {<<c, K.sc[c].connectionTimeoutTimerId>>}
  <1>1. K.sc[c] \in Entry /\ 0 \in Owners
    BY ContextFields, SocketsAssumption DEF Arrays
  <1>2. t \in Entry /\ Stays(K.sc[c], t)
    BY <1>1, TimerEntry
  <1>3. a \in SUBSET (ConnIds \X Owners)
    BY ContextFields
  <1>4. [K.sc EXCEPT ![c] = t] \in [ConnIds -> Entry]
    BY <1>2, ContextFields DEF Arrays
  <1>5. StopConnectionTimer(K, c) = [[K EXCEPT !.armed = a] EXCEPT !.sc = [K.sc EXCEPT ![c] = t]]
    BY DEF StopConnectionTimer, Contexts
  <1> HIDE DEF t, a
  <1>6. AlikeBut(K, StopConnectionTimer(K, c), c, t)
    BY <1>3, <1>4, <1>5 DEF AlikeBut, Contexts
  <1> QED BY <1>2, <1>6 DEF t

LEMMA StartTimerType ==
  ASSUME NEW K \in Contexts, NEW c \in ConnIds, K.sc[c].state # "SC_CLOSED"
  PROVE  LET t == [K.sc[c] EXCEPT !.connectionTimeoutTimerId = K.sc[c].owner]
         IN  AlikeBut(K, SC_StartConnectionEstablishTimer(K, c), c, t)
             /\ t \in Entry /\ Stays(K.sc[c], t)
  <1> DEFINE t == [K.sc[c] EXCEPT !.connectionTimeoutTimerId = K.sc[c].owner]
             a == K.armed \cup {<<c, K.sc[c].owner>>}
  <1>1. K.sc[c] \in Entry /\ K.sc[c].owner \in Owners
    BY ContextFields, EntryFields DEF Arrays
  <1>2. t \in Entry /\ Stays(K.sc[c], t)
    BY <1>1, TimerEntry
  <1>3. a \in SUBSET (ConnIds \X Owners)
    BY <1>1, ContextFields
  <1>4. [K.sc EXCEPT ![c] = t] \in [ConnIds -> Entry]
    BY <1>2, ContextFields DEF Arrays
  <1>5. SC_StartConnectionEstablishTimer(K, c)
          = [[K EXCEPT !.armed = a] EXCEPT !.sc = [K.sc EXCEPT ![c] = t]]
    BY DEF SC_StartConnectionEstablishTimer, Contexts
  <1> HIDE DEF t, a
  <1>6. AlikeBut(K, SC_StartConnectionEstablishTimer(K, c), c, t)
    BY <1>3, <1>4, <1>5 DEF AlikeBut, Contexts
  <1> QED BY <1>2, <1>6 DEF t

LEMMA SendChunkType ==
  ASSUME NEW K \in Contexts, NEW c \in ConnIds, K.sc[c].state # "SC_CLOSED"
  PROVE  Alike(K, SendChunk(K, c))
  <1> DEFINE s == K.sc[c]
  <1>1. s \in Entry
    BY ContextFields DEF Arrays
  <1>2. s.socketIndex \in Slots \cup {0} /\ s.owner \in Owners /\ s.owner # 0
    BY <1>1, EntryFields
  <1>3. s.owner \in Msgs
    BY <1>2, ScSocketsAssumption
  <1> HIDE DEF s
  <1>4. Event("WRITE", s.socketIndex, 0, s.owner, s.owner) \in InputEvents
    BY <1>2, <1>3 DEF InputEvents
  <1> QED BY <1>4, ToSocketsType DEF SendChunk, s

-----------------------------------------------------------------------------
(* The places of a listener.                                               *)

LEMMA ListenerFields ==
  ASSUME NEW l \in Listener
  PROVE  /\ l \in LsnRec /\ l.state \in {"CLOSED", "OPENING", "OPENED"}
         /\ l.socketIndex \in Slots \cup {0} /\ l.lastIdx \in ConnSlots
         /\ l.conns \in [ConnSlots -> ConnIds \cup {0}]
         /\ (Places(l) # {} => l.state = "OPENED" /\ l.socketIndex \in Slots)
  <1>1. l \in LsnRec
    BY DEF Listener
  <1>2. Places(l) # {} => \E n \in ConnSlots : l.conns[n] # 0
    BY DEF Places
  <1>3. l.state # "OPENED" => \A n \in ConnSlots : l.conns[n] = 0
    BY DEF Listener
  <1>4. l.state = "OPENED" => l.socketIndex \in Slots
    BY DEF Listener
  <1> QED BY <1>1, <1>2, <1>3, <1>4 DEF LsnRec

LEMMA ClosedListenerType ==
  /\ ClosedListener \in Listener /\ Places(ClosedListener) = {} /\ Once(ClosedListener)
  /\ ClosedListener.state = "CLOSED"
  <1>1. 0 \in ConnSlots
    BY SocketsAssumption DEF ConnSlots
  <1> QED BY <1>1 DEF ClosedListener, Listener, LsnRec, Places, Once

LEMMA RemoveType ==
  ASSUME NEW l \in Listener, NEW c \in ConnIds
  PROVE  LET r == RemoveConnection(l, c) IN
         /\ r \in Listener /\ r.state = l.state
         /\ Once(l) => Once(r) /\ Places(r) = Places(l) \ {c}
  <1> DEFINE first(n) == l.conns[n] = c /\ \A m \in 0..(n - 1) : l.conns[m] # c
             f == [n \in ConnSlots |-> IF first(n) THEN 0 ELSE l.conns[n]]
             r == RemoveConnection(l, c)
  <1>1. l \in LsnRec /\ l.conns \in [ConnSlots -> ConnIds \cup {0}] /\ c # 0
    BY ListenerFields, SocketsAssumption
  <1>2. r = [l EXCEPT !.conns = f]
    BY <1>1 DEF RemoveConnection, LsnRec
  <1>3. f \in [ConnSlots -> ConnIds \cup {0}] /\ \A n \in ConnSlots : f[n] = 0 \/ f[n] = l.conns[n]
    BY <1>1
  <1>4. /\ Once(l) => \A n \in ConnSlots : f[n] = IF l.conns[n] = c THEN 0 ELSE l.conns[n]
    <2>1. \A n \in ConnSlots : 0..(n - 1) \subseteq ConnSlots /\ n \notin 0..(n - 1)
      BY SocketsAssumption DEF ConnSlots
    <2>2. Once(l) => \A n \in ConnSlots : l.conns[n] = c => first(n)
      BY <1>1, <2>1 DEF Once
    <2> QED BY <2>2
  <1> HIDE DEF f
  <1>5. /\ r \in LsnRec /\ r.state = l.state /\ r.conns = f /\ r.socketIndex = l.socketIndex
        /\ r.lastIdx = l.lastIdx
    BY <1>1, <1>2, <1>3 DEF LsnRec
  <1> HIDE DEF r
  <1>6. r \in Listener
    BY <1>3, <1>5 DEF Listener
  <1>7. ASSUME Once(l) PROVE Once(r) /\ Places(r) = Places(l) \ {c}
    <2>1. \A n \in ConnSlots : r.conns[n] = IF l.conns[n] = c THEN 0 ELSE l.conns[n]
      BY <1>4, <1>5, <1>7
    <2>2. Once(r)
      BY <1>7, <2>1 DEF Once
    <2>3. Places(r) = Places(l) \ {c}
      <3>1. \A x \in Places(r) : x \in Places(l) \ {c}
        BY <2>1 DEF Places
      <3>2. \A x \in Places(l) \ {c} : x \in Places(r)
        BY <2>1 DEF Places
      <3> QED BY <3>1, <3>2
    <2> QED BY <2>2, <2>3
  <1> QED BY <1>5, <1>6, <1>7 DEF r

LEMMA AddType ==
  ASSUME NEW l \in Listener, NEW c \in ConnIds, CanAdd(l), l.state = "OPENED"
  PROVE  LET r == AddConnection(l, c) IN
         /\ r \in Listener /\ r.state = l.state
         /\ Once(l) /\ c \notin Places(l) => Once(r) /\ Places(r) = Places(l) \cup {c}
  <1> DEFINE r == AddConnection(l, c)
  <1>1. /\ l \in LsnRec /\ l.conns \in [ConnSlots -> ConnIds \cup {0}] /\ c # 0
        /\ l.lastIdx \in ConnSlots /\ l.socketIndex \in Slots
    BY ListenerFields, SocketsAssumption DEF Listener
  <1>2. \E d \in AddSteps : FreeEntry(l, d) /\ \A b \in 1..(d - 1) : ~FreeEntry(l, b)
    <2> DEFINE T == {d \in AddSteps : FreeEntry(l, d)}
    <2>1. AddSteps \subseteq Nat /\ \A d \in AddSteps : 1..(d - 1) \subseteq AddSteps
      BY SocketsAssumption DEF AddSteps
    <2>2. T \subseteq Nat /\ T # {}
      BY <2>1 DEF CanAdd
    <2>3. PICK d \in T : \A k \in T : d <= k
      BY <2>2, LeastNatural
    <2>4. \A b \in 1..(d - 1) : ~FreeEntry(l, b)
      BY <2>1, <2>3
    <2> QED BY <2>3, <2>4
  <1> DEFINE first == CHOOSE d \in AddSteps :
                        FreeEntry(l, d) /\ \A b \in 1..(d - 1) : ~FreeEntry(l, b)
             k == (l.lastIdx + first) % MaxConnections
  <1>3. first \in AddSteps /\ FreeEntry(l, first)
    BY <1>2
  <1>4. first \in Nat
    BY <1>3, SocketsAssumption DEF AddSteps
  <1> HIDE DEF first
  <1>5. k \in ConnSlots /\ l.conns[k] = 0
    <2>1. l.lastIdx \in Nat /\ MaxConnections \in Nat \ {0}
      BY <1>1, SocketsAssumption DEF ConnSlots
    <2>2. (l.lastIdx + first) % MaxConnections \in 0..(MaxConnections - 1)
      BY <1>4, <2>1
    <2> QED BY <1>3, <2>2 DEF ConnSlots, FreeEntry
  <1> HIDE DEF k
  <1>6. r = [l EXCEPT !.conns[k] = c, !.lastIdx = k]
    BY DEF AddConnection, k, first
  <1>7. /\ r \in LsnRec /\ r.state = l.state /\ r.socketIndex = l.socketIndex
        /\ r.conns[k] = c /\ \A m \in ConnSlots \ {k} : r.conns[m] = l.conns[m]
    BY <1>1, <1>5, <1>6, ZenonT(60) DEF LsnRec
  <1> HIDE DEF r
  <1>8. r \in Listener
    BY <1>1, <1>7 DEF Listener
  <1>9. ASSUME Once(l), c \notin Places(l) PROVE Once(r) /\ Places(r) = Places(l) \cup {c}
    <2>1. \A n \in ConnSlots : l.conns[n] # c
      BY <1>1, <1>9 DEF Places
    <2>2. Once(r)
      BY <1>7, <1>9, <2>1 DEF Once
    <2>3. Places(r) = Places(l) \cup {c}
      <3>1. \A x \in Places(r) : x \in Places(l) \cup {c}
        BY <1>7 DEF Places
      <3>2. \A x \in Places(l) : x \in Places(r)
        BY <1>5, <1>7 DEF Places
      <3>3. c \in Places(r)
        BY <1>1, <1>5, <1>7 DEF Places
      <3> QED BY <3>1, <3>2, <3>3
    <2> QED BY <2>2, <2>3
  <1> QED BY <1>7, <1>8, <1>9 DEF r

-----------------------------------------------------------------------------
(* The end of a connection.                                                *)

\* What the channels satisfy in K they satisfy in L, whatever the queue of the
\* secure channel layer and the services.
Follow(K, L) ==
  \A Q \in Seq(ScEvent) : \A S, A : \A n \in Nat :
    Channels(K.sc, K.svcQ, Q, S, A, n) => Channels(L.sc, L.svcQ, Q, S, A, n)

\* Connection c is no more one of its endpoint, whose listener, if it is open,
\* has given its place back.
Ended(K, L, c) ==
  \A ep \in EpIds :
    /\ OwnOf(L.sc, ep) = OwnOf(K.sc, ep) \ {c}
    /\ L.lsn[ep] = IF c \in OwnOf(K.sc, ep) /\ K.lsn[ep].state = "OPENED"
                   THEN RemoveConnection(K.lsn[ep], c) ELSE K.lsn[ep]

LEMMA AlikeFollow ==
  ASSUME NEW K \in Contexts, NEW L, Alike(K, L)
  PROVE  Follow(K, L) /\ \A ep : Agree(K, ep) => Agree(L, ep)
  BY DEF Alike, Follow, Agree

\* The entry of c changes without its side, its owner or what the services know.
LEMMA StaysFollow ==
  ASSUME NEW K \in Contexts, NEW L, NEW c \in ConnIds, NEW s, AlikeBut(K, L, c, s), Stays(K.sc[c], s)
  PROVE  Follow(K, L)
  <1>1. K.sc \in Arrays /\ L.sc \in Arrays /\ K.svcQ \in Seq(SvcEvent) /\ L.svcQ = K.svcQ
    BY ContextFields DEF AlikeBut
  <1>2. \A d \in ConnIds : Stays(K.sc[d], L.sc[d])
    BY DEF AlikeBut, Stays
  <1> QED BY <1>1, <1>2, StayMove DEF Follow

LEMMA OwnOfBut ==
  ASSUME NEW X, NEW Y, NEW c \in ConnIds, \A d \in ConnIds \ {c} : Y[d] = X[d]
  PROVE  /\ \A ep : OwnOf(Y, ep) \ {c} = OwnOf(X, ep) \ {c}
         /\ Others(X, Y, c)
         /\ (Y[c].isServerConnection = X[c].isServerConnection
              /\ Y[c].serverEndpointConfigIdx = X[c].serverEndpointConfigIdx)
                => \A ep : OwnOf(Y, ep) = OwnOf(X, ep)
         /\ ~Y[c].isServerConnection => \A ep : OwnOf(Y, ep) = OwnOf(X, ep) \ {c}
  BY DEF OwnOf, Others, Stays

\* SC_CloseConnection: the entry that is left, and nothing else but the sockets.
LEMMA CloseConnectionType ==
  ASSUME NEW K \in Contexts, NEW c \in ConnIds, NEW fail \in BOOLEAN
  PROVE  LET s == K.sc[c]
             t == IF s.state = "SC_CONNECTED"
                  THEN [ClosedSC EXCEPT !.state = "SC_CLOSING", !.owner = s.owner] ELSE ClosedSC
         IN  t \in Entry /\ AlikeBut(K, SC_CloseConnection(K, c, fail), c, t)
  <1> DEFINE s == K.sc[c]
             t == IF s.state = "SC_CONNECTED"
                  THEN [ClosedSC EXCEPT !.state = "SC_CLOSING", !.owner = s.owner] ELSE ClosedSC
             e == Event("CLOSE", s.socketIndex, c, NoBuf, s.owner)
             L == IF fail THEN K ELSE ToSockets(K, e)
  <1>1. s \in Entry /\ 0 \in Owners
    BY ContextFields, SocketsAssumption DEF Arrays
  <1>2. s.socketIndex \in Slots \cup {0} /\ s.owner \in Owners
        /\ (s.state = "SC_CONNECTED" => s.owner # 0)
    BY <1>1, EntryFields
  <1>3. t \in Entry
    BY <1>1, <1>2 DEF Entry, ScRec, ClosedSC, ScStates
  <1> HIDE DEF s
  <1>4. e \in InputEvents
    BY <1>2 DEF InputEvents
  <1> HIDE DEF e, t
  <1>5. Alike(K, L)
    BY <1>4, ToSocketsType DEF Alike
  <1>6. SC_CloseConnection(K, c, fail) = [L EXCEPT !.sc[c] = t]
    BY DEF SC_CloseConnection, L, t, e, s
  <1> HIDE DEF L
  <1>7. AlikeBut(L, [L EXCEPT !.sc[c] = t], c, t)
    BY <1>3, <1>5, PutEntry DEF Alike
  <1>8. AlikeBut(K, [L EXCEPT !.sc[c] = t], c, t)
    BY <1>5, <1>7 DEF Alike, AlikeBut
  <1> QED BY <1>3, <1>6, <1>8 DEF s, t

LEMMA ToServicesType ==
  ASSUME NEW K \in Contexts, NEW type, NEW c \in ConnIds \cup {0}, NEW o \in Owners,
         type \in TellTypes \cup {"SC_CONNECTION_TIMEOUT"}, type \in TellTypes => c \in ConnIds
  PROVE  LET e == [type |-> type, id |-> c, owner |-> o]
             L == ToServices(K, type, c, o)
         IN  /\ e \in SvcEvent /\ e.type = type /\ e.id = c /\ e.owner = o
             /\ L \in Contexts /\ L.sc = K.sc /\ L.lsn = K.lsn /\ L.svcQ = Append(K.svcQ, e)
  <1> DEFINE e == [type |-> type, id |-> c, owner |-> o]
  <1>1. e \in SvcEvent /\ e.type = type /\ e.id = c /\ e.owner = o
    BY DEF SvcEvent
  <1> HIDE DEF e
  <1>2. Append(K.svcQ, e) \in Seq(SvcEvent)
    BY <1>1, ContextFields
  <1>3. ToServices(K, type, c, o) = [K EXCEPT !.svcQ = Append(K.svcQ, e)]
    BY DEF ToServices, e, Contexts
  <1>4. LET L == ToServices(K, type, c, o)
        IN  L \in Contexts /\ L.sc = K.sc /\ L.lsn = K.lsn /\ L.svcQ = Append(K.svcQ, e)
    BY <1>2, <1>3 DEF Contexts
  <1> QED BY <1>1, <1>4 DEF e

LEMMA EpScDisconnectedType ==
  ASSUME NEW K \in Contexts, NEW ep \in EpIds, NEW c \in ConnIds
  PROVE  LET L == EpScDisconnected(K, ep, c) IN
         /\ L \in Contexts /\ L.sc = K.sc /\ L.svcQ = K.svcQ
         /\ L.lsn[ep] = IF K.lsn[ep].state = "OPENED" THEN RemoveConnection(K.lsn[ep], c) ELSE K.lsn[ep]
         /\ \A e \in EpIds \ {ep} : L.lsn[e] = K.lsn[e]
  <1> DEFINE r == RemoveConnection(K.lsn[ep], c)
             L == EpScDisconnected(K, ep, c)
  <1>1. K.lsn[ep] \in Listener /\ K.lsn \in [EpIds -> Listener]
    BY ContextFields
  <1>2. r \in Listener
    BY <1>1, RemoveType
  <1>3. L = IF K.lsn[ep].state = "OPENED" THEN [K EXCEPT !.lsn = [K.lsn EXCEPT ![ep] = r]] ELSE K
    BY <1>1 DEF EpScDisconnected, Contexts
  <1> HIDE DEF r
  <1>4. [K.lsn EXCEPT ![ep] = r] \in [EpIds -> Listener]
    BY <1>1, <1>2
  <1>5. CASE K.lsn[ep].state = "OPENED"
    <2>1. L = [K EXCEPT !.lsn = [K.lsn EXCEPT ![ep] = r]]
      BY <1>3, <1>5
    <2> HIDE DEF L
    <2>2. L \in Contexts /\ L.sc = K.sc /\ L.svcQ = K.svcQ /\ L.lsn = [K.lsn EXCEPT ![ep] = r]
      BY <1>4, <2>1 DEF Contexts
    <2> QED BY <1>1, <1>5, <2>2 DEF r, L
  <1>6. CASE K.lsn[ep].state # "OPENED"
    BY <1>3, <1>6
  <1> QED BY <1>5, <1>6

LEMMA CloseNowType ==
  ASSUME NEW K \in Contexts, NEW c \in ConnIds, NEW fail \in BOOLEAN,
         K.sc[c].state \notin {"SC_CLOSED", "SC_CLOSING"}
  PROVE  LET L == CloseNow(K, c, fail) IN L \in Contexts /\ Follow(K, L) /\ Ended(K, L, c)
  <1> DEFINE s == K.sc[c]
             t == IF s.state = "SC_CONNECTED"
                  THEN [ClosedSC EXCEPT !.state = "SC_CLOSING", !.owner = s.owner] ELSE ClosedSC
             K1 == SC_CloseConnection(K, c, fail)
             K2 == IF s.state = "SC_CONNECTED" THEN ToServices(K1, "SC_DISCONNECTED", c, s.owner)
                   ELSE IF s.isServerConnection THEN K1
                   ELSE ToServices(K1, "SC_CONNECTION_TIMEOUT", c, s.owner)
             L == CloseNow(K, c, fail)
  <1>1. /\ s \in Entry /\ K.sc \in Arrays /\ K.svcQ \in Seq(SvcEvent) /\ s.owner \in Owners
        /\ (s.isServerConnection => s.serverEndpointConfigIdx \in EpIds)
    BY ContextFields, EntryFields DEF Arrays, Entry
  <1>2. t \in Entry /\ AlikeBut(K, K1, c, t)
    BY CloseConnectionType
  <1>3. /\ (s.state = "SC_CONNECTED" => t.state = "SC_CLOSING" /\ t.owner = s.owner)
        /\ (s.state # "SC_CONNECTED" => t = ClosedSC)
        /\ ~t.isServerConnection
    BY DEF ClosedSC
  <1>4. L = IF s.isServerConnection THEN EpScDisconnected(K2, s.serverEndpointConfigIdx, c) ELSE K2
    BY DEF CloseNow
  <1> HIDE DEF t, K1
  <1>5. /\ K1 \in Contexts /\ K1.sc \in Arrays /\ K1.lsn = K.lsn /\ K1.svcQ = K.svcQ /\ K1.sc[c] = t
        /\ Others(K.sc, K1.sc, c)
        /\ \A ep : OwnOf(K1.sc, ep) = OwnOf(K.sc, ep) \ {c}
    <2>1. /\ K1 \in Contexts /\ K1.lsn = K.lsn /\ K1.svcQ = K.svcQ /\ K1.sc[c] = t
          /\ \A d \in ConnIds \ {c} : K1.sc[d] = K.sc[d]
      BY <1>2 DEF AlikeBut
    <2>2. ~K1.sc[c].isServerConnection
      BY <1>3, <2>1
    <2>3. Others(K.sc, K1.sc, c) /\ \A ep : OwnOf(K1.sc, ep) = OwnOf(K.sc, ep) \ {c}
      BY <2>1, <2>2, OwnOfBut
    <2> QED BY <2>1, <2>3, ContextFields
  <1>6. K2 \in Contexts /\ K2.sc = K1.sc /\ K2.lsn = K.lsn /\ Follow(K, K2)
    <2>1. CASE s.state = "SC_CONNECTED"
      <3> DEFINE e == [type |-> "SC_DISCONNECTED", id |-> c, owner |-> s.owner]
      <3>1. K2 = ToServices(K1, "SC_DISCONNECTED", c, s.owner)
        BY <2>1
      <3>2. /\ e \in SvcEvent /\ e.type = "SC_DISCONNECTED" /\ e.id = c /\ e.owner = s.owner
            /\ K2 \in Contexts /\ K2.sc = K1.sc /\ K2.lsn = K1.lsn /\ K2.svcQ = Append(K1.svcQ, e)
        <4>1. "SC_DISCONNECTED" \in TellTypes
          BY DEF TellTypes
        <4> HIDE DEF s, e, K2
        <4> QED BY <1>1, <1>5, <3>1, <4>1, ToServicesType DEF e
      <3> HIDE DEF e, K2
      <3>3. ASSUME NEW Q \in Seq(ScEvent), NEW S, NEW A, NEW n \in Nat,
                   Channels(K.sc, K.svcQ, Q, S, A, n)
            PROVE  Channels(K1.sc, Append(K.svcQ, e), Q, S, A, n)
        BY <1>1, <1>3, <1>5, <2>1, <3>2, <3>3, LostMove
      <3> QED BY <1>5, <3>2, <3>3 DEF Follow
    <2>2. CASE s.state # "SC_CONNECTED"
      <3> DEFINE e == [type |-> "SC_CONNECTION_TIMEOUT", id |-> c, owner |-> s.owner]
      <3>0. Attempt(s)
        BY <2>2 DEF Attempt
      <3>1. K2 = IF s.isServerConnection THEN K1
                 ELSE ToServices(K1, "SC_CONNECTION_TIMEOUT", c, s.owner)
        BY <2>2
      <3>2. LET M == ToServices(K1, "SC_CONNECTION_TIMEOUT", c, s.owner) IN
            /\ e \in SvcEvent /\ e.type = "SC_CONNECTION_TIMEOUT" /\ e.owner = s.owner
            /\ M \in Contexts /\ M.sc = K1.sc /\ M.lsn = K1.lsn /\ M.svcQ = Append(K1.svcQ, e)
        <4>1. "SC_CONNECTION_TIMEOUT" \notin TellTypes
          BY DEF TellTypes
        <4> HIDE DEF s, e
        <4> QED BY <1>1, <1>5, <4>1, ToServicesType DEF e
      <3> HIDE DEF e, K2
      <3>3. ASSUME NEW Q \in Seq(ScEvent), NEW S, NEW A, NEW n \in Nat,
                   Channels(K.sc, K.svcQ, Q, S, A, n)
            PROVE  /\ s.isServerConnection => Channels(K1.sc, K.svcQ, Q, S, A, n)
                   /\ ~s.isServerConnection => Channels(K1.sc, Append(K.svcQ, e), Q, S, A, n)
        BY <1>1, <1>3, <1>5, <2>2, <3>0, <3>2, <3>3, DropMove
      <3>4. CASE s.isServerConnection
        BY <1>5, <3>1, <3>3, <3>4 DEF Follow
      <3>5. CASE ~s.isServerConnection
        <4> DEFINE M == ToServices(K1, "SC_CONNECTION_TIMEOUT", c, s.owner)
        <4>1. K2 = M
          BY <3>1, <3>5
        <4>2. M \in Contexts /\ M.sc = K1.sc /\ M.lsn = K1.lsn /\ M.svcQ = Append(K1.svcQ, e)
          BY <3>2
        <4> HIDE DEF M
        <4>3. Follow(K, K2)
          BY <1>5, <3>3, <3>5, <4>1, <4>2 DEF Follow
        <4> QED BY <1>5, <4>1, <4>2, <4>3
      <3> QED BY <3>4, <3>5
    <2> QED BY <2>1, <2>2
  <1> HIDE DEF K2, L
  <1>7. CASE s.isServerConnection
    <2> DEFINE x == s.serverEndpointConfigIdx
    <2>1. x \in EpIds /\ L = EpScDisconnected(K2, x, c)
      BY <1>1, <1>4, <1>7
    <2>2. \A ep : c \in OwnOf(K.sc, ep) <=> ep = x
      BY <1>7 DEF OwnOf
    <2> HIDE DEF x
    <2>3. /\ L \in Contexts /\ L.sc = K2.sc /\ L.svcQ = K2.svcQ
          /\ L.lsn[x] = IF K2.lsn[x].state = "OPENED" THEN RemoveConnection(K2.lsn[x], c) ELSE K2.lsn[x]
          /\ \A e \in EpIds \ {x} : L.lsn[e] = K2.lsn[e]
      BY <1>6, <2>1, EpScDisconnectedType
    <2>4. Follow(K, L)
      BY <1>6, <2>3 DEF Follow
    <2>5. Ended(K, L, c)
      BY <1>5, <1>6, <2>2, <2>3 DEF Ended
    <2> QED BY <2>3, <2>4, <2>5 DEF L
  <1>8. CASE ~s.isServerConnection
    <2>1. \A ep : c \notin OwnOf(K.sc, ep)
      BY <1>8 DEF OwnOf
    <2>2. L = K2
      BY <1>4, <1>8
    <2>3. Ended(K, L, c)
      BY <1>5, <1>6, <2>1, <2>2 DEF Ended
    <2> QED BY <1>6, <2>2, <2>3 DEF L
  <1> QED BY <1>7, <1>8

LEMMA CloseSecureType ==
  ASSUME NEW K \in Contexts, NEW c \in ConnIds, NEW now \in BOOLEAN, NEW fail \in BOOLEAN
  PROVE  LET L == SC_CloseSecureConnection(K, c, now, fail)
         IN  L \in Contexts /\ Follow(K, L) /\ Ended(K, L, c)
  <1> DEFINE s == K.sc[c]
             t == [s EXCEPT !.connectionTimeoutTimerId = 0]
             K1 == IF s.state = "SC_CONNECTED" THEN K ELSE StopConnectionTimer(K, c)
             farewell == ~now /\ (s.isServerConnection \/ s.state = "SC_CONNECTED")
             K2 == IF farewell THEN SendChunk(K1, c) ELSE K1
             L == SC_CloseSecureConnection(K, c, now, fail)
  <1>1. s \in Entry /\ K.sc \in Arrays
    BY ContextFields DEF Arrays
  <1>2. AlikeBut(K, StopConnectionTimer(K, c), c, t) /\ t \in Entry /\ Stays(s, t)
    BY StopTimerType
  <1>3. t.isServerConnection = s.isServerConnection /\ t.state = s.state
        /\ t.serverEndpointConfigIdx = s.serverEndpointConfigIdx
    BY <1>1 DEF Entry, ScRec
  <1> HIDE DEF t
  <1>4. /\ K1 \in Contexts /\ K1.lsn = K.lsn /\ Follow(K, K1) /\ K1.sc[c].state = s.state
        /\ \A ep : OwnOf(K1.sc, ep) = OwnOf(K.sc, ep)
    <2>1. CASE s.state = "SC_CONNECTED"
      BY <2>1 DEF Follow
    <2>2. CASE s.state # "SC_CONNECTED"
      <3>1. K1 = StopConnectionTimer(K, c)
        BY <2>2
      <3> HIDE DEF K1
      <3>2. Follow(K, K1)
        BY <1>2, <3>1, StaysFollow
      <3>3. \A ep : OwnOf(K1.sc, ep) = OwnOf(K.sc, ep)
        <4>1. K1.sc[c] = t /\ \A d \in ConnIds \ {c} : K1.sc[d] = K.sc[d]
          BY <1>2, <3>1 DEF AlikeBut
        <4>2. /\ K1.sc[c].isServerConnection = K.sc[c].isServerConnection
              /\ K1.sc[c].serverEndpointConfigIdx = K.sc[c].serverEndpointConfigIdx
          BY <1>3, <4>1
        <4> QED BY <4>1, <4>2, OwnOfBut
      <3> QED BY <1>2, <1>3, <3>1, <3>2, <3>3 DEF AlikeBut
    <2> QED BY <2>1, <2>2
  <1>5. CASE s.state \in {"SC_CLOSED", "SC_CLOSING"}
    <2>1. L = K1
      BY <1>5 DEF SC_CloseSecureConnection
    <2>2. \A ep : c \notin OwnOf(K.sc, ep)
      <3>1. ~s.isServerConnection
        BY <1>1, <1>5 DEF Entry, ClosedSC
      <3> QED BY <3>1 DEF OwnOf
    <2>3. Ended(K, L, c)
      <3> HIDE DEF K1, L
      <3> QED BY <1>4, <2>1, <2>2 DEF Ended
    <2> QED BY <1>4, <2>1, <2>3
  <1>6. CASE s.state \notin {"SC_CLOSED", "SC_CLOSING"}
    <2>1. L = CloseNow(K2, c, fail)
      BY <1>6 DEF SC_CloseSecureConnection
    <2>2. Alike(K1, K2)
      <3>1. K1.sc[c].state # "SC_CLOSED"
        BY <1>4, <1>6
      <3> HIDE DEF K1
      <3> QED BY <1>4, <3>1, SendChunkType DEF Alike
    <2> HIDE DEF K1, K2, L
    <2>3. /\ K2 \in Contexts /\ K2.lsn = K.lsn /\ Follow(K, K2) /\ K2.sc[c].state = s.state
          /\ \A ep : OwnOf(K2.sc, ep) = OwnOf(K.sc, ep)
      BY <1>4, <2>2 DEF Alike, Follow
    <2>4. L \in Contexts /\ Follow(K2, L) /\ Ended(K2, L, c)
      BY <1>6, <2>1, <2>3, CloseNowType
    <2>5. Follow(K, L)
      BY <2>3, <2>4 DEF Follow
    <2>6. Ended(K, L, c)
      BY <2>3, <2>4 DEF Ended
    <2> QED BY <2>4, <2>5, <2>6 DEF L
  <1> QED BY <1>5, <1>6

\* A listener and its connections still agree.
LEMMA EndedAgree ==
  ASSUME NEW K \in Contexts, NEW L, NEW c \in ConnIds, Ended(K, L, c), NEW ep \in EpIds, Agree(K, ep)
  PROVE  Agree(L, ep)
  <1>1. K.lsn[ep] \in Listener
    BY ContextFields
  <1>2. CASE c \in OwnOf(K.sc, ep)
    <2>1. c \in Places(K.lsn[ep])
      BY <1>2 DEF Agree
    <2>2. K.lsn[ep].state = "OPENED"
      BY <1>1, <2>1, ListenerFields
    <2>3. /\ L.lsn[ep] = RemoveConnection(K.lsn[ep], c)
          /\ OwnOf(L.sc, ep) = OwnOf(K.sc, ep) \ {c}
      BY <1>2, <2>2 DEF Ended
    <2>4. Once(L.lsn[ep]) /\ Places(L.lsn[ep]) = Places(K.lsn[ep]) \ {c}
      BY <1>1, <2>3, RemoveType DEF Agree
    <2> QED BY <2>3, <2>4 DEF Agree
  <1>3. CASE c \notin OwnOf(K.sc, ep)
    <2>1. L.lsn[ep] = K.lsn[ep] /\ OwnOf(L.sc, ep) = OwnOf(K.sc, ep)
      BY <1>3 DEF Ended
    <2> QED BY <2>1 DEF Agree
  <1> QED BY <1>2, <1>3

-----------------------------------------------------------------------------
(* The end of a listener.                                                  *)

\* The listener is closed before its connections.
LEMMA PutListener ==
  ASSUME NEW K \in Contexts, NEW ep \in EpIds, NEW r \in Listener
  PROVE  LET L == [K EXCEPT !.lsn[ep] = r] IN
         /\ L \in Contexts /\ L.sc = K.sc /\ L.svcQ = K.svcQ /\ L.lsn[ep] = r
         /\ \A e \in EpIds \ {ep} : L.lsn[e] = K.lsn[e]
         /\ Follow(K, L)
  <1> DEFINE L == [K EXCEPT !.lsn[ep] = r]
  <1>1. K.lsn \in [EpIds -> Listener]
    BY ContextFields
  <1>2. [K.lsn EXCEPT ![ep] = r] \in [EpIds -> Listener]
    BY <1>1
  <1>3. L \in Contexts /\ L.sc = K.sc /\ L.svcQ = K.svcQ /\ L.lsn = [K.lsn EXCEPT ![ep] = r]
    BY <1>2 DEF Contexts
  <1> HIDE DEF L
  <1> QED BY <1>1, <1>3 DEF Follow, L

CloseOne(k, c) == IF c = 0 THEN k ELSE SC_CloseSecureConnection(k, c, FALSE, FALSE)

\* What the recursion of CloseEpListener computes.
LEMMA CloseSteps ==
  ASSUME NEW K \in Contexts, NEW ep \in EpIds, NEW fail \in BOOLEAN, K.lsn[ep].state = "OPENED"
  PROVE  LET l == K.lsn[ep]
             N == MaxConnections
             K1 == [K EXCEPT !.lsn[ep] = ClosedListener]
             K2 == IF fail THEN K1
                   ELSE ToSockets(K1, Event("CLOSE_LISTENER", l.socketIndex, ep, NoBuf, 0))
         IN  /\ K2 \in Contexts /\ K2.sc = K.sc /\ K2.svcQ = K.svcQ /\ K2.lsn[ep] = ClosedListener
             /\ \A e \in EpIds \ {ep} : K2.lsn[e] = K.lsn[e]
             /\ \E g : /\ g[0] = K2 /\ CloseEpListener(K, ep, fail) = g[N]
                       /\ \A i \in 1..N : g[i] = CloseOne(g[i - 1], l.conns[N - i])
  <1> DEFINE l == K.lsn[ep]
             N == MaxConnections
             K1 == [K EXCEPT !.lsn[ep] = ClosedListener]
             K2 == IF fail THEN K1
                   ELSE ToSockets(K1, Event("CLOSE_LISTENER", l.socketIndex, ep, NoBuf, 0))
             close(k, c) == IF c = 0 THEN k ELSE SC_CloseSecureConnection(k, c, FALSE, FALSE)
             step(k, i) == close(k, l.conns[N - i])
             Run(g) == g = [i \in 0..N |-> IF i = 0 THEN K2 ELSE step(g[i - 1], i)]
             c == CHOOSE g : Run(g)
             f == [x \in Contexts \X (1..N) |-> step(x[1], x[2])]
  <1>1. /\ N \in Nat /\ l \in Listener /\ l.socketIndex \in Slots
        /\ l.conns \in [ConnSlots -> ConnIds \cup {0}]
    BY SocketsAssumption, ContextFields, ListenerFields DEF Listener
  <1>2. /\ K1 \in Contexts /\ K1.sc = K.sc /\ K1.svcQ = K.svcQ /\ K1.lsn[ep] = ClosedListener
        /\ \A e \in EpIds \ {ep} : K1.lsn[e] = K.lsn[e]
    BY PutListener, ClosedListenerType
  <1>3. Alike(K1, K2)
    <2> HIDE DEF l, K1
    <2>1. Event("CLOSE_LISTENER", l.socketIndex, ep, NoBuf, 0) \in InputEvents
      BY <1>1 DEF InputEvents
    <2> QED BY <1>2, <2>1, ToSocketsType DEF Alike
  <1>4. \A k \in Contexts, i \in 1..N : step(k, i) \in Contexts
    <2> SUFFICES ASSUME NEW k \in Contexts, NEW i \in 1..N PROVE step(k, i) \in Contexts
      OBVIOUS
    <2>1. l.conns[N - i] \in ConnIds \cup {0}
      <3>1. N - i \in ConnSlots
        BY <1>1 DEF ConnSlots
      <3> HIDE DEF l
      <3> QED BY <1>1, <3>1
    <2> HIDE DEF l
    <2> QED BY <2>1, CloseSecureType
  <1>5. /\ K2 \in Contexts /\ K2.sc = K.sc /\ K2.svcQ = K.svcQ /\ K2.lsn[ep] = ClosedListener
        /\ \A e \in EpIds \ {ep} : K2.lsn[e] = K.lsn[e]
    <2> HIDE DEF K1, K2
    <2> QED BY <1>2, <1>3 DEF Alike
  <1>6. CloseEpListener(K, ep, fail) = c[N]
    <2>1. l.state = "OPENED"
      OBVIOUS
    <2>2. CloseEpListener(K, ep, fail) =
            CASE l.state = "OPENED"  -> c[N]
              [] l.state = "OPENING" -> K1
              [] OTHER               -> K
      BY DEF CloseEpListener
    <2> HIDE DEF c, l, K1
    <2> QED BY <2>1, <2>2
  <1> HIDE DEF step, K2, N, l
  <1>7. f \in [Contexts \X (1..N) -> Contexts] /\ \A k \in Contexts, i \in 1..N : f[<<k, i>>] = step(k, i)
    BY <1>4
  <1> HIDE DEF f
  <1>8. PICK g \in [0..N -> Contexts] : Stepwise(K2, f, g, N)
    BY <1>1, <1>5, <1>7, RecursionTyped
  <1>9. ASSUME NEW i \in 0..N PROVE g[i] = IF i = 0 THEN K2 ELSE step(g[i - 1], i)
    <2>1. CASE i # 0
      <3>1. i \in 1..N /\ i - 1 \in 0..N
        BY <1>1, <2>1
      <3>2. g[i - 1] \in Contexts
        BY <1>8, <3>1
      <3> QED BY <1>7, <1>8, <2>1, <3>1, <3>2 DEF Stepwise
    <2> QED BY <1>8, <2>1 DEF Stepwise
  <1>10. Run(g)
    <2>1. g = [i \in 0..N |-> g[i]]
      BY <1>8
    <2> QED BY <1>9, <2>1
  <1>11. Run(c)
    BY <1>10
  <1> HIDE DEF c
  <1>12. \A i \in 0..N : c[i] = IF i = 0 THEN K2 ELSE step(c[i - 1], i)
    BY <1>11, Zenon
  <1> HIDE DEF Run
  <1>13. 0 \in 0..N /\ \A i \in 1..N : i \in 0..N /\ i # 0
    BY <1>1
  <1>14. c[0] = K2 /\ \A i \in 1..N : c[i] = step(c[i - 1], i)
    BY <1>12, <1>13
  <1>15. \A i \in 1..N : c[i] = CloseOne(c[i - 1], l.conns[N - i])
    BY <1>14 DEF step, CloseOne
  <1>16. \E h : /\ h[0] = K2 /\ CloseEpListener(K, ep, fail) = h[N]
                /\ \A i \in 1..N : h[i] = CloseOne(h[i - 1], l.conns[N - i])
    BY <1>6, <1>14, <1>15
  <1> QED BY <1>5, <1>16 DEF K2, N, l

\* With the listener closed, its connections go one after the other.
LEMMA CloseEpListenerType ==
  ASSUME NEW K \in Contexts, NEW ep \in EpIds, NEW fail \in BOOLEAN, \A e \in EpIds : Agree(K, e)
  PROVE  LET L == CloseEpListener(K, ep, fail)
         IN  L \in Contexts /\ Follow(K, L) /\ \A e \in EpIds : Agree(L, e)
  <1> DEFINE l == K.lsn[ep]
             N == MaxConnections
             L == CloseEpListener(K, ep, fail)
  <1>1. /\ N \in Nat /\ l \in Listener /\ l.conns \in [ConnSlots -> ConnIds \cup {0}]
        /\ Places(l) = OwnOf(K.sc, ep) /\ ConnSlots = 0..(N - 1)
    BY SocketsAssumption, ContextFields, ListenerFields DEF Agree, ConnSlots
  <1>2. CASE l.state = "OPENED"
    <2> DEFINE K1 == [K EXCEPT !.lsn[ep] = ClosedListener]
               k2 == IF fail THEN K1
                     ELSE ToSockets(K1, Event("CLOSE_LISTENER", l.socketIndex, ep, NoBuf, 0))
    <2>0. /\ k2 \in Contexts /\ k2.sc = K.sc /\ k2.svcQ = K.svcQ /\ k2.lsn[ep] = ClosedListener
          /\ \A e \in EpIds \ {ep} : k2.lsn[e] = K.lsn[e]
          /\ \E g : /\ g[0] = k2 /\ L = g[N]
                    /\ \A i \in 1..N : g[i] = CloseOne(g[i - 1], l.conns[N - i])
      BY <1>2, CloseSteps
    <2> HIDE DEF L, l, N, k2
    <2>1. PICK g :
            /\ k2 \in Contexts /\ k2.sc = K.sc /\ k2.svcQ = K.svcQ /\ k2.lsn[ep] = ClosedListener
            /\ \A e \in EpIds \ {ep} : k2.lsn[e] = K.lsn[e]
            /\ g[0] = k2 /\ L = g[N]
            /\ \A i \in 1..N : g[i] = CloseOne(g[i - 1], l.conns[N - i])
      BY <2>0
    <2> DEFINE Gone(i) == {l.conns[N - j] : j \in 1..i}
               Good(i) == /\ g[i] \in Contexts /\ Follow(K, g[i])
                          /\ \A e \in EpIds \ {ep} : Agree(g[i], e)
                          /\ g[i].lsn[ep] = ClosedListener
                          /\ OwnOf(g[i].sc, ep) = OwnOf(K.sc, ep) \ Gone(i)
               T == {i \in Nat : i <= N => Good(i)}
    <2>2. 0 \in T
      <3>1. Gone(0) = {}
        OBVIOUS
      <3>2. Follow(K, k2)
        BY <2>1 DEF Follow
      <3>3. \A e \in EpIds \ {ep} : Agree(k2, e)
        BY <2>1 DEF Agree
      <3> HIDE DEF Gone
      <3> QED BY <2>1, <3>1, <3>2, <3>3
    <2>3. ASSUME NEW i \in 0..(N - 1), i \in T PROVE i + 1 \in T
      <3> DEFINE c == l.conns[N - (i + 1)]
                 k == g[i]
                 m == g[i + 1]
      <3>1. /\ i + 1 \in 1..N /\ (i + 1) - 1 = i /\ i <= N /\ i + 1 \in Nat
            /\ N - (i + 1) \in 0..(N - 1) /\ 1..(i + 1) = (1..i) \cup {i + 1}
        BY <1>1
      <3>2. Good(i)
        BY <2>3, <3>1
      <3>3. m = CloseOne(k, c)
        BY <2>1, <3>1
      <3>4. c \in ConnIds \cup {0} /\ 0 \notin ConnIds
        BY <1>1, <3>1, SocketsAssumption
      <3>5. Gone(i + 1) = Gone(i) \cup {c}
        BY <3>1
      <3> HIDE DEF c, Gone
      <3>6. CASE c = 0
        <4>1. m = k
          BY <3>3, <3>6 DEF CloseOne
        <4>2. OwnOf(m.sc, ep) = OwnOf(K.sc, ep) \ Gone(i + 1)
          <5>1. 0 \notin OwnOf(K.sc, ep)
            BY <3>4 DEF OwnOf
          <5> QED BY <3>2, <3>5, <3>6, <4>1, <5>1
        <4> QED BY <3>1, <3>2, <4>1, <4>2
      <3>7. CASE c \in ConnIds
        <4>1. m = SC_CloseSecureConnection(k, c, FALSE, FALSE)
          BY <3>3, <3>4, <3>7 DEF CloseOne
        <4>2. k \in Contexts
          BY <3>2
        <4> HIDE DEF k, m
        <4>3. m \in Contexts /\ Follow(k, m) /\ Ended(k, m, c)
          BY <3>7, <4>1, <4>2, CloseSecureType
        <4>4. /\ Follow(K, k) /\ k.lsn[ep] = ClosedListener
              /\ \A e \in EpIds \ {ep} : Agree(k, e)
              /\ OwnOf(k.sc, ep) = OwnOf(K.sc, ep) \ Gone(i)
          BY <3>2 DEF k
        <4>5. Follow(K, m)
          BY <4>3, <4>4 DEF Follow
        <4>6. \A e \in EpIds \ {ep} : Agree(m, e)
          BY <3>7, <4>2, <4>3, <4>4, EndedAgree
        <4>7. m.lsn[ep] = ClosedListener /\ OwnOf(m.sc, ep) = OwnOf(k.sc, ep) \ {c}
          BY <4>3, <4>4, ClosedListenerType DEF Ended
        <4>8. Good(i + 1)
          BY <3>5, <4>3, <4>4, <4>5, <4>6, <4>7 DEF m
        <4> QED BY <3>1, <4>8
      <3> QED BY <3>4, <3>6, <3>7
    <2> HIDE DEF T
    <2>4. \A i \in 0..N : i \in T
      BY <1>1, <2>2, <2>3, InductionTo
    <2>5. Good(N)
      BY <1>1, <2>4 DEF T
    <2>6. OwnOf(L.sc, ep) = {}
      <3>1. ASSUME NEW x \in Places(l) PROVE x \in Gone(N)
        <4>1. PICK n \in ConnSlots : x = l.conns[n]
          BY DEF Places
        <4>2. N - n \in 1..N /\ N - (N - n) = n
          BY <1>1
        <4> QED BY <4>1, <4>2
      <3> HIDE DEF Gone
      <3> QED BY <1>1, <2>1, <2>5, <3>1
    <2> HIDE DEF Gone
    <2>7. /\ L \in Contexts /\ Follow(K, L) /\ L.lsn[ep] = ClosedListener
          /\ \A e \in EpIds \ {ep} : Agree(L, e)
      BY <2>1, <2>5
    <2>8. Agree(L, ep)
      BY <2>6, <2>7, ClosedListenerType DEF Agree
    <2> QED BY <2>7, <2>8 DEF L
  <1>3. CASE l.state = "OPENING"
    <2> DEFINE M == [K EXCEPT !.lsn[ep] = ClosedListener]
    <2>1. L = M
      BY <1>3 DEF CloseEpListener
    <2>2. /\ M \in Contexts /\ M.sc = K.sc /\ M.svcQ = K.svcQ /\ M.lsn[ep] = ClosedListener
          /\ \A e \in EpIds \ {ep} : M.lsn[e] = K.lsn[e]
          /\ Follow(K, M)
      BY PutListener, ClosedListenerType
    <2>3. Places(l) = {}
      BY <1>1, <1>3, ListenerFields
    <2> HIDE DEF M, L, l
    <2>4. \A e \in EpIds : Agree(M, e)
      BY <1>1, <2>2, <2>3, ClosedListenerType DEF Agree
    <2> QED BY <2>1, <2>2, <2>4 DEF L
  <1>4. CASE l.state \notin {"OPENED", "OPENING"}
    <2>1. L = K
      BY <1>4 DEF CloseEpListener
    <2> QED BY <2>1 DEF Follow
  <1> QED BY <1>2, <1>3, <1>4

-----------------------------------------------------------------------------
(* The steps of the handlers.                                              *)

\* From K to L, the channels and the listeners keep what they satisfy.
Carries(K, L) ==
  L \in Contexts /\ Follow(K, L) /\ \A ep \in EpIds : Agree(K, ep) => Agree(L, ep)

LEMMA CarriesSelf ==
  ASSUME NEW K \in Contexts
  PROVE  Carries(K, K)
  BY DEF Carries, Follow

LEMMA CarriesOn ==
  ASSUME NEW K, NEW L, NEW M, Carries(K, L), Carries(L, M)
  PROVE  Carries(K, M)
  BY DEF Carries, Follow

LEMMA AlikeCarries ==
  ASSUME NEW K \in Contexts, NEW L, Alike(K, L)
  PROVE  Carries(K, L)
  BY AlikeFollow DEF Carries, Alike

LEMMA StayCarries ==
  ASSUME NEW K \in Contexts, NEW L, NEW c \in ConnIds, NEW t, AlikeBut(K, L, c, t), Stays(K.sc[c], t),
         t.serverEndpointConfigIdx = K.sc[c].serverEndpointConfigIdx
  PROVE  Carries(K, L)
  <1>1. Follow(K, L)
    BY StaysFollow
  <1>2. \A ep : OwnOf(L.sc, ep) = OwnOf(K.sc, ep)
    <2>1. \A d \in ConnIds \ {c} : L.sc[d] = K.sc[d]
      BY DEF AlikeBut
    <2>2. /\ L.sc[c].isServerConnection = K.sc[c].isServerConnection
          /\ L.sc[c].serverEndpointConfigIdx = K.sc[c].serverEndpointConfigIdx
      BY DEF AlikeBut, Stays
    <2> QED BY <2>1, <2>2, OwnOfBut
  <1>3. L \in Contexts /\ L.lsn = K.lsn
    BY DEF AlikeBut
  <1> QED BY <1>1, <1>2, <1>3 DEF Carries, Agree

LEMMA CloseCarries ==
  ASSUME NEW K \in Contexts, NEW c \in ConnIds, NEW now \in BOOLEAN, NEW fail \in BOOLEAN
  PROVE  Carries(K, SC_CloseSecureConnection(K, c, now, fail))
  <1> DEFINE L == SC_CloseSecureConnection(K, c, now, fail)
  <1>1. L \in Contexts /\ Follow(K, L) /\ Ended(K, L, c)
    BY CloseSecureType
  <1> HIDE DEF L
  <1>2. \A ep \in EpIds : Agree(K, ep) => Agree(L, ep)
    BY <1>1, EndedAgree
  <1> QED BY <1>1, <1>2 DEF Carries, L

LEMMA SendCarries ==
  ASSUME NEW K \in Contexts, NEW c \in ConnIds, K.sc[c].state # "SC_CLOSED"
  PROVE  Carries(K, SendChunk(K, c))
  BY SendChunkType, AlikeCarries

\* The channel of c is open: L has its new entry, and the services are told.
LEMMA OpenCarries ==
  ASSUME NEW K \in Contexts, NEW L, NEW c \in ConnIds, NEW t, AlikeBut(K, L, c, t), Attempt(K.sc[c]),
         t.owner = K.sc[c].owner, t.isServerConnection = K.sc[c].isServerConnection,
         t.state = "SC_CONNECTED", t.serverEndpointConfigIdx = K.sc[c].serverEndpointConfigIdx,
         NEW type, type = IF K.sc[c].isServerConnection THEN "EP_CONNECTED" ELSE "SC_CONNECTED"
  PROVE  Carries(K, ToServices(L, type, c, K.sc[c].owner))
  <1> DEFINE M == ToServices(L, type, c, K.sc[c].owner)
             e == [type |-> type, id |-> c, owner |-> K.sc[c].owner]
  <1>1. /\ L \in Contexts /\ L.lsn = K.lsn /\ L.svcQ = K.svcQ /\ L.sc[c] = t
        /\ \A d \in ConnIds \ {c} : L.sc[d] = K.sc[d]
    BY DEF AlikeBut
  <1>2. K.sc \in Arrays /\ L.sc \in Arrays /\ K.svcQ \in Seq(SvcEvent) /\ K.sc[c].owner \in Owners
    BY <1>1, ContextFields, EntryFields DEF Arrays
  <1>3. Others(K.sc, L.sc, c) /\ \A ep : OwnOf(L.sc, ep) = OwnOf(K.sc, ep)
    <2>1. /\ L.sc[c].isServerConnection = K.sc[c].isServerConnection
          /\ L.sc[c].serverEndpointConfigIdx = K.sc[c].serverEndpointConfigIdx
      BY <1>1
    <2> QED BY <1>1, <2>1, OwnOfBut, SMTT(30)
  <1>4. type \in TellTypes
    BY DEF TellTypes
  <1>5. /\ e \in SvcEvent /\ e.type = type /\ e.id = c /\ e.owner = K.sc[c].owner
        /\ M \in Contexts /\ M.sc = L.sc /\ M.lsn = L.lsn /\ M.svcQ = Append(L.svcQ, e)
    <2> DEFINE o == K.sc[c].owner
    <2>1. o \in Owners /\ c \in ConnIds \cup {0} /\ type \in TellTypes \cup {"SC_CONNECTION_TIMEOUT"}
      BY <1>2, <1>4
    <2> HIDE DEF o
    <2>2. LET f == [type |-> type, id |-> c, owner |-> o]
              H == ToServices(L, type, c, o)
          IN  /\ f \in SvcEvent /\ f.type = type /\ f.id = c /\ f.owner = o
              /\ H \in Contexts /\ H.sc = L.sc /\ H.lsn = L.lsn /\ H.svcQ = Append(L.svcQ, f)
      BY <1>1, <2>1, ToServicesType
    <2> QED BY <2>2 DEF o
  <1> HIDE DEF M, e
  <1>6. ASSUME NEW Q \in Seq(ScEvent), NEW S, NEW A, NEW n \in Nat,
               Channels(K.sc, K.svcQ, Q, S, A, n)
        PROVE  Channels(L.sc, Append(K.svcQ, e), Q, S, A, n)
    <2>1. L.sc[c].owner = K.sc[c].owner /\ L.sc[c].state = "SC_CONNECTED"
          /\ L.sc[c].isServerConnection = K.sc[c].isServerConnection
      BY <1>1
    <2> QED BY <1>2, <1>3, <1>5, <1>6, <2>1, OpenMove, SMTT(30)
  <1>7. Follow(K, M)
    BY <1>1, <1>5, <1>6 DEF Follow
  <1>8. \A ep \in EpIds : Agree(K, ep) => Agree(M, ep)
    BY <1>1, <1>3, <1>5 DEF Agree
  <1> QED BY <1>5, <1>7, <1>8 DEF Carries, M

\* Why the invariant holds after a step that leaves the sockets alone.
LEMMA CommitKept ==
  ASSUME ScInv, NEW K \in Contexts, Commit(K), UNCHANGED <<socks, inQ, signal, raising, thr>>,
         scQ' \in Seq(ScEvent), svc' \in [ConnIds -> Owners], asked' \subseteq Owners,
         inst' \in 0..MaxInst, Channels(K.sc, K.svcQ, scQ', svc', asked', inst'),
         \A ep \in EpIds : Agree(K, ep)
  PROVE  ScInv'
  <1>1. sc' = K.sc /\ svcQ' = K.svcQ /\ lsn' = K.lsn /\ armed' = K.armed /\ pend' = K.pend
    BY DEF Commit
  <1>2. Ctx' = K
    BY <1>1 DEF Ctx, Contexts
  <1>3. LayerOK' /\ (\A i \in Slots : Known(socks[i]))'
    BY DEF ScInv, Types, LayerOK, Known
  <1>4. Types'
    BY <1>2, <1>3 DEF Types
  <1>5. Channels(sc, svcQ, scQ, svc, asked, inst)'
    BY <1>1 
  <1>6. (\A ep \in EpIds : Agree(Ctx, ep))'
    BY <1>2
  <1> QED BY <1>4, <1>5, <1>6 DEF ScInv

\* What a handler finds.
LEMMA Handled ==
  ASSUME ScInv, NEW type, Handle(type)
  PROVE  /\ Ctx \in Contexts /\ Ctx.sc = sc /\ Ctx.lsn = lsn /\ Ctx.svcQ = svcQ
         /\ scQ \in Seq(ScEvent) /\ scQ # <<>> /\ Head(scQ) \in ScEvent /\ Head(scQ).type = type
         /\ scQ' = Tail(scQ) /\ svc' = svc /\ asked' = asked /\ svc \in [ConnIds -> Owners]
         /\ asked \subseteq Owners /\ inst \in 0..MaxInst /\ inst \in Nat
         /\ UNCHANGED <<socks, inQ, signal, raising, thr>>
         /\ Channels(sc, svcQ, scQ, svc, asked, inst) /\ \A ep \in EpIds : Agree(Ctx, ep)
  <1>1. /\ scQ \in Seq(ScEvent) /\ scQ # <<>> /\ Head(scQ).type = type
        /\ Ctx \in Contexts /\ inst \in 0..MaxInst
        /\ svc \in [ConnIds -> Owners] /\ asked \subseteq Owners
    BY DEF ScInv, Types, Handle
  <1>2. Head(scQ) \in ScEvent
    BY <1>1, ElemsTail, ElemsType
  <1>3. inst \in Nat
    BY <1>1, ScSocketsAssumption
  <1>4. Ctx.sc = sc /\ Ctx.lsn = lsn /\ Ctx.svcQ = svcQ
    BY DEF Ctx
  <1> QED BY <1>1, <1>2, <1>3, <1>4 DEF ScInv, Handle

LEMMA HandlerKept ==
  ASSUME ScInv, NEW type, Handle(type), type \notin {"SC_CONNECT", "SC_DISCONNECTED_ACK"},
         NEW K, K \in Contexts, Follow(Ctx, K), \A ep \in EpIds : Agree(K, ep), Commit(K), inst' = inst
  PROVE  ScInv'
  <1>1. /\ Ctx \in Contexts /\ Ctx.sc = sc /\ Ctx.lsn = lsn /\ Ctx.svcQ = svcQ
        /\ scQ \in Seq(ScEvent) /\ scQ # <<>> /\ Head(scQ) \in ScEvent /\ Head(scQ).type = type
        /\ scQ' = Tail(scQ) /\ svc' = svc /\ asked' = asked /\ svc \in [ConnIds -> Owners]
        /\ asked \subseteq Owners /\ inst \in 0..MaxInst /\ inst \in Nat
        /\ UNCHANGED <<socks, inQ, signal, raising, thr>>
        /\ Channels(sc, svcQ, scQ, svc, asked, inst) /\ \A ep \in EpIds : Agree(Ctx, ep)
    BY Handled
  <1>2. Tail(scQ) \in Seq(ScEvent) /\ Channels(sc, svcQ, Tail(scQ), svc, asked, inst)
    BY <1>1, TakeOther
  <1>3. Channels(K.sc, K.svcQ, Tail(scQ), svc, asked, inst)
    BY <1>1, <1>2 DEF Follow
  <1> QED BY <1>1, <1>2, <1>3, CommitKept

\* Most handlers carry the context of the layer to the one they commit.
LEMMA CarryKept ==
  ASSUME ScInv, NEW type, Handle(type), type \notin {"SC_CONNECT", "SC_DISCONNECTED_ACK"},
         NEW K, Carries(Ctx, K), Commit(K), inst' = inst
  PROVE  ScInv'
  <1>1. \A ep \in EpIds : Agree(Ctx, ep)
    BY DEF ScInv
  <1> QED BY <1>1, HandlerKept DEF Carries

LEMMA CreatedKept ==
  ASSUME ScInv, OnSocketCreated
  PROVE  ScInv'
  <1> DEFINE e == Head(scQ)
             c == e.id
             s == sc[c]
             t == [s EXCEPT !.socketIndex = e.aux]
             K == IF Connecting(c) THEN [Ctx EXCEPT !.sc[c].socketIndex = e.aux]
                  ELSE ToSockets(Ctx, Event("CLOSE", e.aux, c, NoBuf, e.owner))
  <1>1. Handle("CREATED") /\ Commit(K) /\ inst' = inst
    BY DEF OnSocketCreated
  <1>2. /\ Ctx \in Contexts /\ Ctx.sc = sc /\ e \in ScEvent /\ e.type = "CREATED"
    BY <1>1, Handled
  <1>3. c \in ConnIds /\ e.aux \in Slots /\ e.owner \in Owners
    BY <1>2 DEF ScEvent
  <1>4. sc \in Arrays /\ s \in Entry
    BY <1>2, <1>3, ContextFields DEF Arrays
  <1> HIDE DEF e
  <1>5. CASE Connecting(c)
    <2>1. s.state = "TCP_INIT" /\ ~s.isServerConnection
      BY <1>5 DEF Connecting
    <2>2. t \in Entry /\ Stays(s, t) /\ t.serverEndpointConfigIdx = s.serverEndpointConfigIdx
      <3>1. /\ t \in ScRec /\ t.state = s.state /\ t.owner = s.owner
            /\ t.isServerConnection = s.isServerConnection
            /\ t.serverEndpointConfigIdx = s.serverEndpointConfigIdx
        BY <1>3, <1>4 DEF Entry, ScRec
      <3> HIDE DEF t, s
      <3> QED BY <1>4, <2>1, <3>1 DEF Entry, Stays
    <2>3. K = [Ctx EXCEPT !.sc[c] = t]
      BY <1>2, <1>4, <1>5 DEF Contexts
    <2> HIDE DEF t, K
    <2>4. AlikeBut(Ctx, K, c, t)
      BY <1>2, <1>3, <2>2, <2>3, PutEntry
    <2>5. Carries(Ctx, K)
      BY <1>2, <1>3, <2>2, <2>4, StayCarries
    <2> QED BY <1>1, <2>5, CarryKept
  <1>6. CASE ~Connecting(c)
    <2>1. Event("CLOSE", e.aux, c, NoBuf, e.owner) \in InputEvents
      BY <1>3 DEF InputEvents
    <2>2. Carries(Ctx, K)
      BY <1>2, <1>6, <2>1, ToSocketsType, AlikeCarries
    <2> HIDE DEF K
    <2> QED BY <1>1, <2>2, CarryKept
  <1> QED BY <1>5, <1>6

\* The state of an attempt goes on.
LEMMA StateCarries ==
  ASSUME NEW K \in Contexts, NEW c \in ConnIds, NEW z \in ScStates,
         LET s == K.sc[c] IN
         \/ s.state = "TCP_INIT" /\ ~s.isServerConnection /\ z = "TCP_NEGOTIATE"
         \/ s.state = "TCP_INIT" /\ s.isServerConnection /\ z = "SC_INIT"
         \/ s.state = "TCP_NEGOTIATE" /\ z = "SC_CONNECTING"
  PROVE  LET L == [K EXCEPT !.sc[c].state = z] IN Carries(K, L) /\ L.sc[c].state = z
  <1> DEFINE s == K.sc[c]
             t == [s EXCEPT !.state = z]
             L == [K EXCEPT !.sc[c].state = z]
  <1>1. K.sc \in Arrays /\ s \in Entry
    BY ContextFields DEF Arrays
  <1>2. s.owner # 0 /\ (s.state = "TCP_NEGOTIATE" => ~s.isServerConnection)
    BY <1>1, EntryFields DEF Entry
  <1>3. /\ t \in ScRec /\ t.state = z /\ t.owner = s.owner
        /\ t.isServerConnection = s.isServerConnection
        /\ t.serverEndpointConfigIdx = s.serverEndpointConfigIdx
    BY <1>1 DEF Entry, ScRec
  <1>4. L = [K EXCEPT !.sc[c] = t]
    BY <1>1 DEF Contexts
  <1> HIDE DEF t, L
  <1>5. t \in Entry /\ Stays(s, t)
    BY <1>1, <1>2, <1>3 DEF Entry, Stays
  <1>6. AlikeBut(K, L, c, t)
    BY <1>4, <1>5, PutEntry
  <1>7. Carries(K, L)
    BY <1>3, <1>5, <1>6, StayCarries
  <1>8. L.sc[c].state = z
    BY <1>3, <1>6 DEF AlikeBut
  <1> QED BY <1>7, <1>8 DEF L

LEMMA GoOnCarries ==
  ASSUME NEW K \in Contexts, NEW c \in ConnIds, NEW z \in ScStates,
         LET s == K.sc[c] IN
         \/ s.state = "TCP_INIT" /\ ~s.isServerConnection /\ z = "TCP_NEGOTIATE"
         \/ s.state = "TCP_INIT" /\ s.isServerConnection /\ z = "SC_INIT"
         \/ s.state = "TCP_NEGOTIATE" /\ z = "SC_CONNECTING"
  PROVE  Carries(K, SendChunk([K EXCEPT !.sc[c].state = z], c))
  <1> DEFINE L == [K EXCEPT !.sc[c].state = z]
  <1>1. Carries(K, L) /\ L.sc[c].state = z /\ z # "SC_CLOSED"
    BY StateCarries
  <1> HIDE DEF L
  <1>2. L \in Contexts /\ L.sc[c].state # "SC_CLOSED"
    BY <1>1 DEF Carries
  <1>3. Carries(L, SendChunk(L, c))
    BY <1>2, SendCarries
  <1> QED BY <1>1, <1>3, CarriesOn DEF L

LEMMA ConnectionKept ==
  ASSUME ScInv, OnSocketConnection
  PROVE  ScInv'
  <1> DEFINE e == Head(scQ)
             c == e.id
  <1>1. Handle("CONNECTION") /\ inst' = inst
    BY DEF OnSocketConnection
  <1>2. /\ Ctx \in Contexts /\ Ctx.sc = sc /\ e \in ScEvent /\ e.type = "CONNECTION"
    BY <1>1, Handled
  <1>3. c \in ConnIds /\ e.aux \in Slots \cup {0} /\ e.owner \in Owners
    BY <1>2 DEF ScEvent
  <1>4. \/ Connecting(c) /\ Commit(SendChunk([Ctx EXCEPT !.sc[c].state = "TCP_NEGOTIATE"], c))
        \/ Commit(SC_CloseSecureConnection(Ctx, c, FALSE, FALSE))
        \/ Commit(ToSockets(Ctx, Event("CLOSE", e.aux, c, NoBuf, e.owner)))
    BY DEF OnSocketConnection
  <1> HIDE DEF e, c
  <1>5. CASE Connecting(c) /\ Commit(SendChunk([Ctx EXCEPT !.sc[c].state = "TCP_NEGOTIATE"], c))
    <2> DEFINE K == SendChunk([Ctx EXCEPT !.sc[c].state = "TCP_NEGOTIATE"], c)
    <2>1. "TCP_NEGOTIATE" \in ScStates /\ Ctx.sc[c].state = "TCP_INIT" /\ ~Ctx.sc[c].isServerConnection
      BY <1>2, <1>5 DEF ScStates, Connecting
    <2>2. Carries(Ctx, K)
      BY <1>2, <1>3, <2>1, GoOnCarries
    <2> HIDE DEF K
    <2>3. Commit(K)
      BY <1>5 DEF K
    <2> QED BY <1>1, <2>2, <2>3, CarryKept
  <1>6. CASE Commit(SC_CloseSecureConnection(Ctx, c, FALSE, FALSE))
    BY <1>1, <1>2, <1>3, <1>6, CloseCarries, CarryKept
  <1>7. CASE Commit(ToSockets(Ctx, Event("CLOSE", e.aux, c, NoBuf, e.owner)))
    <2>1. Event("CLOSE", e.aux, c, NoBuf, e.owner) \in InputEvents
      BY <1>3 DEF InputEvents
    <2>2. Carries(Ctx, ToSockets(Ctx, Event("CLOSE", e.aux, c, NoBuf, e.owner)))
      BY <1>2, <2>1, ToSocketsType, AlikeCarries
    <2> QED BY <1>1, <1>7, <2>2, CarryKept
  <1> QED BY <1>4, <1>5, <1>6, <1>7

LEMMA FailureKept ==
  ASSUME ScInv, OnSocketFailure
  PROVE  ScInv'
  <1> DEFINE e == Head(scQ)
             K == IF e.id \in ConnIds THEN SC_CloseSecureConnection(Ctx, e.id, TRUE, TRUE) ELSE Ctx
  <1>1. Handle("FAILURE") /\ inst' = inst /\ Commit(K)
    BY DEF OnSocketFailure
  <1>2. Ctx \in Contexts
    BY <1>1, Handled
  <1>3. Carries(Ctx, K)
    BY <1>2, CloseCarries, CarriesSelf
  <1> HIDE DEF K
  <1> QED BY <1>1, <1>3, CarryKept

\* The channel of c is open, on either side.
LEMMA OnOpenCarries ==
  ASSUME NEW K \in Contexts, NEW c \in ConnIds, K.sc[c].state \in {"SC_INIT", "SC_CONNECTING"},
         NEW send \in BOOLEAN
  PROVE  LET s == K.sc[c]
             L == [K EXCEPT !.sc[c].state = "SC_CONNECTED"]
             M == StopConnectionTimer(IF send THEN SendChunk(L, c) ELSE L, c)
             type == IF s.state = "SC_INIT" THEN "EP_CONNECTED" ELSE "SC_CONNECTED"
         IN  Carries(K, ToServices(M, type, c, s.owner))
  <1> DEFINE s == K.sc[c]
             t == [s EXCEPT !.state = "SC_CONNECTED"]
             L == [K EXCEPT !.sc[c].state = "SC_CONNECTED"]
             H == IF send THEN SendChunk(L, c) ELSE L
             u == [H.sc[c] EXCEPT !.connectionTimeoutTimerId = 0]
             M == StopConnectionTimer(H, c)
             type == IF s.state = "SC_INIT" THEN "EP_CONNECTED" ELSE "SC_CONNECTED"
  <1>1. K.sc \in Arrays /\ s \in Entry /\ Attempt(s)
    BY ContextFields DEF Arrays, Attempt
  <1>2. s.owner # 0 /\ (s.isServerConnection <=> s.state = "SC_INIT")
    BY <1>1, EntryFields DEF Entry
  <1>3. /\ t \in ScRec /\ t.state = "SC_CONNECTED" /\ t.owner = s.owner
        /\ t.isServerConnection = s.isServerConnection
        /\ t.serverEndpointConfigIdx = s.serverEndpointConfigIdx
    BY <1>1 DEF Entry, ScRec, ScStates
  <1>4. L = [K EXCEPT !.sc[c] = t]
    BY <1>1 DEF Contexts
  <1> HIDE DEF t, L
  <1>5. t \in Entry
    BY <1>1, <1>2, <1>3 DEF Entry
  <1>6. AlikeBut(K, L, c, t)
    BY <1>4, <1>5, PutEntry
  <1>7. L \in Contexts /\ L.sc[c] = t
    BY <1>6 DEF AlikeBut
  <1>8. Alike(L, H)
    <2>1. L.sc[c].state # "SC_CLOSED"
      BY <1>3, <1>7
    <2> QED BY <1>7, <2>1, SendChunkType DEF Alike
  <1> HIDE DEF H
  <1>9. H \in Contexts /\ H.sc[c] = t /\ AlikeBut(K, H, c, t)
    BY <1>6, <1>7, <1>8 DEF Alike, AlikeBut
  <1>10. AlikeBut(H, M, c, u) /\ u \in Entry /\ Stays(t, u)
    <2>1. AlikeBut(H, M, c, u) /\ u \in Entry /\ Stays(H.sc[c], u)
      BY <1>9, StopTimerType
    <2> HIDE DEF u, M
    <2> QED BY <1>9, <2>1
  <1>11. u.serverEndpointConfigIdx = s.serverEndpointConfigIdx
    BY <1>3, <1>9 DEF ScRec
  <1> HIDE DEF u, M
  <1>12. AlikeBut(K, M, c, u)
    BY <1>9, <1>10 DEF AlikeBut
  <1>13. /\ u.owner = s.owner /\ u.isServerConnection = s.isServerConnection
         /\ u.state = "SC_CONNECTED"
    BY <1>3, <1>10 DEF Stays
  <1>14. type = IF s.isServerConnection THEN "EP_CONNECTED" ELSE "SC_CONNECTED"
    BY <1>2
  <1> HIDE DEF type
  <1>15. Carries(K, ToServices(M, type, c, s.owner))
    BY <1>1, <1>11, <1>12, <1>13, <1>14, OpenCarries
  <1> QED BY <1>15 DEF M, H, L, type

LEMMA RcvBytesKept ==
  ASSUME ScInv, OnSocketRcvBytes
  PROVE  ScInv'
  <1> DEFINE c == Head(scQ).id
  <1>1. Handle("RCV_BYTES") /\ inst' = inst
    BY DEF OnSocketRcvBytes
  <1>2. /\ Ctx \in Contexts /\ Ctx.sc = sc /\ Head(scQ) \in ScEvent /\ Head(scQ).type = "RCV_BYTES"
    BY <1>1, Handled
  <1>3. c \in ConnIds
    BY <1>2 DEF ScEvent
  <1>4. \/ Commit(Ctx) \/ RcvHel(c) \/ RcvAck(c) \/ onServerSideOpen(c) \/ onClientSideOpen(c)
        \/ RcvClo(c) \/ RcvErr(c) \/ RcvFailure(c)
    BY DEF OnSocketRcvBytes
  <1> HIDE DEF c
  <1>5. {"SC_INIT", "SC_CONNECTING"} \subseteq ScStates
    BY DEF ScStates
  <1>6. CASE Commit(Ctx)
    BY <1>1, <1>2, <1>6, CarriesSelf, CarryKept
  <1>7. CASE RcvHel(c)
    <2> DEFINE K == SendChunk([Ctx EXCEPT !.sc[c].state = "SC_INIT"], c)
    <2>1. Commit(K) /\ Ctx.sc[c].state = "TCP_INIT" /\ Ctx.sc[c].isServerConnection
      BY <1>2, <1>7 DEF RcvHel
    <2>2. Carries(Ctx, K)
      BY <1>2, <1>3, <1>5, <2>1, GoOnCarries
    <2> HIDE DEF K
    <2> QED BY <1>1, <2>1, <2>2, CarryKept
  <1>8. CASE RcvAck(c)
    <2> DEFINE K == SendChunk([Ctx EXCEPT !.sc[c].state = "SC_CONNECTING"], c)
    <2>1. Commit(K) /\ Ctx.sc[c].state = "TCP_NEGOTIATE"
      BY <1>2, <1>8 DEF RcvAck
    <2>2. Carries(Ctx, K)
      BY <1>2, <1>3, <1>5, <2>1, GoOnCarries
    <2> HIDE DEF K
    <2> QED BY <1>1, <2>1, <2>2, CarryKept
  <1>9. CASE onServerSideOpen(c)
    <2> DEFINE L == [Ctx EXCEPT !.sc[c].state = "SC_CONNECTED"]
               K == ToServices(StopConnectionTimer(SendChunk(L, c), c), "EP_CONNECTED", c, Ctx.sc[c].owner)
    <2>1. Commit(K) /\ Ctx.sc[c].state = "SC_INIT"
      BY <1>2, <1>9 DEF onServerSideOpen
    <2>2. Carries(Ctx, K)
      <3>1. Carries(Ctx, ToServices(StopConnectionTimer(IF TRUE THEN SendChunk(L, c) ELSE L, c),
                           IF Ctx.sc[c].state = "SC_INIT" THEN "EP_CONNECTED" ELSE "SC_CONNECTED",
                           c, Ctx.sc[c].owner))
        BY <1>2, <1>3, <2>1, OnOpenCarries
      <3> QED BY <2>1, <3>1
    <2> HIDE DEF K
    <2> QED BY <1>1, <2>1, <2>2, CarryKept
  <1>10. CASE onClientSideOpen(c)
    <2> DEFINE L == [Ctx EXCEPT !.sc[c].state = "SC_CONNECTED"]
               K == ToServices(StopConnectionTimer(L, c), "SC_CONNECTED", c, Ctx.sc[c].owner)
    <2>1. Commit(K) /\ Ctx.sc[c].state = "SC_CONNECTING"
      BY <1>2, <1>10 DEF onClientSideOpen
    <2>2. Carries(Ctx, K)
      <3>1. Carries(Ctx, ToServices(StopConnectionTimer(IF FALSE THEN SendChunk(L, c) ELSE L, c),
                           IF Ctx.sc[c].state = "SC_INIT" THEN "EP_CONNECTED" ELSE "SC_CONNECTED",
                           c, Ctx.sc[c].owner))
        BY <1>2, <1>3, <2>1, OnOpenCarries
      <3> QED BY <2>1, <3>1
    <2> HIDE DEF K
    <2> QED BY <1>1, <2>1, <2>2, CarryKept
  <1>11. CASE RcvClo(c) \/ RcvErr(c) \/ RcvFailure(c)
    <2>1. PICK now \in BOOLEAN : Commit(SC_CloseSecureConnection(Ctx, c, now, FALSE))
      BY <1>11 DEF RcvClo, RcvErr, RcvFailure
    <2> QED BY <1>1, <1>2, <1>3, <2>1, CloseCarries, CarryKept
  <1> QED BY <1>4, <1>6, <1>7, <1>8, <1>9, <1>10, <1>11

LEMMA TimeoutKept ==
  ASSUME ScInv, OnConnectionTimeout
  PROVE  ScInv'
  <1> DEFINE c == Head(scQ).id
             K == [Ctx EXCEPT !.sc[c].connectionTimeoutTimerId = 0]
             t == [sc[c] EXCEPT !.connectionTimeoutTimerId = 0]
  <1>1. Handle("TIMER_SC_CONNECTION_TIMEOUT") /\ inst' = inst
    BY DEF OnConnectionTimeout
  <1>2. /\ Ctx \in Contexts /\ Ctx.sc = sc /\ Head(scQ) \in ScEvent
        /\ Head(scQ).type = "TIMER_SC_CONNECTION_TIMEOUT"
    BY <1>1, Handled
  <1>3. c \in ConnIds
    BY <1>2 DEF ScEvent
  <1>4. Commit(K) \/ Commit(SC_CloseSecureConnection(K, c, FALSE, FALSE))
    BY DEF OnConnectionTimeout
  <1> HIDE DEF c
  <1>5. sc \in Arrays /\ sc[c] \in Entry /\ 0 \in Owners
    BY <1>2, <1>3, ContextFields, SocketsAssumption DEF Arrays
  <1>6. t \in Entry /\ Stays(sc[c], t) /\ t.serverEndpointConfigIdx = sc[c].serverEndpointConfigIdx
    BY <1>5, TimerEntry DEF Entry, ScRec
  <1>7. K = [Ctx EXCEPT !.sc[c] = t]
    BY <1>2, <1>5 DEF Contexts
  <1> HIDE DEF t, K
  <1>8. AlikeBut(Ctx, K, c, t)
    BY <1>2, <1>3, <1>6, <1>7, PutEntry
  <1>9. Carries(Ctx, K)
    BY <1>2, <1>3, <1>6, <1>8, StayCarries
  <1>10. K \in Contexts
    BY <1>9 DEF Carries
  <1>11. Carries(K, SC_CloseSecureConnection(K, c, FALSE, FALSE))
    BY <1>3, <1>10, CloseCarries
  <1>12. Carries(Ctx, SC_CloseSecureConnection(K, c, FALSE, FALSE))
    BY <1>9, <1>11, CarriesOn
  <1>13. CASE Commit(K)
    BY <1>1, <1>9, <1>13, CarryKept
  <1>14. CASE Commit(SC_CloseSecureConnection(K, c, FALSE, FALSE))
    BY <1>1, <1>12, <1>14, CarryKept
  <1> QED BY <1>4, <1>13, <1>14

LEMMA DisconnectKept ==
  ASSUME ScInv, ScDisconnect \/ ScSendMsg
  PROVE  ScInv'
  <1> DEFINE c == Head(scQ).id
  <1>1. PICK type \in {"SC_DISCONNECT", "SC_SERVICE_SND_MSG"} : Handle(type) /\ inst' = inst
    BY DEF ScDisconnect, ScSendMsg
  <1>2. /\ Ctx \in Contexts /\ Ctx.sc = sc /\ Head(scQ) \in ScEvent /\ Head(scQ).type = type
    BY <1>1, Handled
  <1>3. c \in ConnIds
    BY <1>2 DEF ScEvent, AskTypes
  <1>4. \/ Commit(Ctx) \/ Commit(SC_CloseSecureConnection(Ctx, c, FALSE, FALSE))
        \/ sc[c].state = "SC_CONNECTED" /\ Commit(SendChunk(Ctx, c))
    BY DEF ScDisconnect, ScSendMsg
  <1> HIDE DEF c
  <1>5. CASE Commit(Ctx)
    BY <1>1, <1>2, <1>5, CarriesSelf, CarryKept
  <1>6. CASE Commit(SC_CloseSecureConnection(Ctx, c, FALSE, FALSE))
    BY <1>1, <1>2, <1>3, <1>6, CloseCarries, CarryKept
  <1>7. CASE sc[c].state = "SC_CONNECTED" /\ Commit(SendChunk(Ctx, c))
    <2>1. Ctx.sc[c].state # "SC_CLOSED"
      BY <1>2, <1>7
    <2>2. Carries(Ctx, SendChunk(Ctx, c))
      BY <1>2, <1>3, <2>1, SendCarries
    <2> QED BY <1>1, <1>7, <2>2, CarryKept
  <1> QED BY <1>4, <1>5, <1>6, <1>7

LEMMA AckKept ==
  ASSUME ScInv, ScDisconnectedAck
  PROVE  ScInv'
  <1> DEFINE c == Head(scQ).id
             K == [Ctx EXCEPT !.sc[c] = ClosedSC]
  <1>1. Handle("SC_DISCONNECTED_ACK") /\ inst' = inst
    BY DEF ScDisconnectedAck
  <1>2. /\ Ctx \in Contexts /\ Ctx.sc = sc /\ Ctx.lsn = lsn /\ Ctx.svcQ = svcQ
        /\ scQ \in Seq(ScEvent) /\ scQ # <<>> /\ Head(scQ) \in ScEvent
        /\ Head(scQ).type = "SC_DISCONNECTED_ACK"
        /\ scQ' = Tail(scQ) /\ svc' = svc /\ asked' = asked /\ svc \in [ConnIds -> Owners]
        /\ asked \subseteq Owners /\ inst \in 0..MaxInst /\ inst \in Nat
        /\ UNCHANGED <<socks, inQ, signal, raising, thr>>
        /\ Channels(sc, svcQ, scQ, svc, asked, inst) /\ \A ep \in EpIds : Agree(Ctx, ep)
    BY <1>1, Handled
  <1>3. c \in ConnIds /\ Head(scQ).id = c
    BY <1>2 DEF ScEvent, AskTypes
  <1>4. ClosedSC \in Entry /\ ~ClosedSC.isServerConnection
    BY SocketsAssumption DEF Entry, ScRec, ClosedSC, ScStates
  <1>5. AlikeBut(Ctx, K, c, ClosedSC)
    BY <1>2, <1>3, <1>4, PutEntry
  <1>6. sc[c].state = "SC_CLOSING" => Commit(K)
    BY DEF ScDisconnectedAck
  <1> HIDE DEF c, K
  <1>7. /\ K \in Contexts /\ K.lsn = lsn /\ K.svcQ = svcQ /\ K.sc[c] = ClosedSC
        /\ \A d \in ConnIds \ {c} : K.sc[d] = sc[d]
    BY <1>2, <1>5 DEF AlikeBut
  <1>8. K.sc \in Arrays /\ sc \in Arrays /\ svcQ \in Seq(SvcEvent)
    BY <1>2, <1>7, ContextFields
  <1>9. Others(sc, K.sc, c) /\ \A ep : OwnOf(K.sc, ep) = OwnOf(sc, ep) \ {c}
    <2>1. ~K.sc[c].isServerConnection
      BY <1>4, <1>7
    <2>2. \A d \in ConnIds \ {c} : K.sc[d] = sc[d]
      BY <1>7
    <2> QED BY <2>1, <2>2 DEF OwnOf, Others, Stays
  <1>10. /\ sc[c].state = "SC_CLOSING" /\ Tail(scQ) \in Seq(ScEvent)
         /\ Channels(K.sc, svcQ, Tail(scQ), svc, asked, inst)
    BY <1>2, <1>3, <1>7, <1>8, <1>9, AckMove
  <1>11. \A ep \in EpIds : Agree(K, ep)
    <2>1. \A ep : c \notin OwnOf(sc, ep)
      <3>1. sc[c] \in Entry
        BY <1>3, <1>8 DEF Arrays
      <3>2. ~sc[c].isServerConnection
        BY <1>10, <3>1 DEF Entry
      <3> QED BY <3>2 DEF OwnOf
    <2>2. \A ep : OwnOf(K.sc, ep) = OwnOf(sc, ep)
      BY <1>9, <2>1
    <2> QED BY <1>2, <1>7, <2>2 DEF Agree
  <1>12. Commit(K)
    BY <1>6, <1>10
  <1> QED BY <1>1, <1>2, <1>7, <1>10, <1>11, <1>12, CommitKept

\* A connection begins at the free index c: its entry, its timer, and what the
\* sockets are asked.
LEMMA BeginType ==
  ASSUME NEW K \in Contexts, NEW c \in ConnIds, NEW t \in Entry, t.state = "TCP_INIT",
         NEW e \in InputEvents
  PROVE  LET L == ToSockets(SC_StartConnectionEstablishTimer([K EXCEPT !.sc[c] = t], c), e) IN
         /\ L \in Contexts /\ L.lsn = K.lsn /\ L.svcQ = K.svcQ /\ Others(K.sc, L.sc, c)
         /\ L.sc \in Arrays /\ L.sc[c].state = "TCP_INIT" /\ L.sc[c].owner = t.owner
         /\ L.sc[c].isServerConnection = t.isServerConnection
         /\ L.sc[c].serverEndpointConfigIdx = t.serverEndpointConfigIdx
         /\ \A d \in ConnIds \ {c} : L.sc[d] = K.sc[d]
  <1> DEFINE K1 == [K EXCEPT !.sc[c] = t]
             K2 == SC_StartConnectionEstablishTimer(K1, c)
             u == [K1.sc[c] EXCEPT !.connectionTimeoutTimerId = K1.sc[c].owner]
             L == ToSockets(K2, e)
  <1>1. AlikeBut(K, K1, c, t)
    BY PutEntry
  <1> HIDE DEF K1
  <1>2. K1 \in Contexts /\ K1.sc[c] = t /\ K1.sc[c].state # "SC_CLOSED"
    BY <1>1 DEF AlikeBut
  <1>3. AlikeBut(K1, K2, c, u) /\ u \in Entry /\ Stays(K1.sc[c], u)
    BY <1>2, StartTimerType
  <1>4. /\ u.state = "TCP_INIT" /\ u.owner = t.owner /\ u.isServerConnection = t.isServerConnection
        /\ u.serverEndpointConfigIdx = t.serverEndpointConfigIdx
    BY <1>2 DEF Entry, ScRec
  <1> HIDE DEF u, K2
  <1>5. Alike(K2, L)
    BY <1>3, ToSocketsType DEF AlikeBut
  <1> HIDE DEF L
  <1>6. /\ L \in Contexts /\ L.lsn = K.lsn /\ L.svcQ = K.svcQ /\ L.sc[c] = u
        /\ \A d \in ConnIds \ {c} : L.sc[d] = K.sc[d]
    BY <1>1, <1>3, <1>5 DEF Alike, AlikeBut
  <1>7. L.sc \in Arrays
    BY <1>6, ContextFields
  <1>8. Others(K.sc, L.sc, c)
    BY <1>6, OwnOfBut
  <1> QED BY <1>4, <1>6, <1>7, <1>8 DEF L, K2, K1

LEMMA ScConnectKept ==
  ASSUME ScInv, ScConnect
  PROVE  ScInv'
  <1> DEFINE o == Head(scQ).owner
  <1>1. Handle("SC_CONNECT") /\ inst' = inst
    BY DEF ScConnect
  <1>2. /\ Ctx \in Contexts /\ Ctx.sc = sc /\ Ctx.lsn = lsn /\ Ctx.svcQ = svcQ
        /\ scQ \in Seq(ScEvent) /\ scQ # <<>> /\ Head(scQ) \in ScEvent
        /\ Head(scQ).type = "SC_CONNECT"
        /\ scQ' = Tail(scQ) /\ svc' = svc /\ asked' = asked /\ svc \in [ConnIds -> Owners]
        /\ asked \subseteq Owners /\ inst \in 0..MaxInst /\ inst \in Nat
        /\ UNCHANGED <<socks, inQ, signal, raising, thr>>
        /\ Channels(sc, svcQ, scQ, svc, asked, inst) /\ \A ep \in EpIds : Agree(Ctx, ep)
    BY <1>1, Handled
  <1>3. o \in Owners /\ o # 0
    <2>1. o \in 1..inst
      <3>1. Head(scQ) \in Elems(scQ)
        BY <1>2, ElemsTail
      <3> QED BY <1>2, <3>1 DEF Channels, NewOnes
    <2> QED BY <1>2, <2>1, ScSocketsAssumption
  <1>4. sc \in Arrays /\ svcQ \in Seq(SvcEvent)
    BY <1>2, ContextFields
  <1>5. ASSUME NEW c \in ConnIds, sc[c].state = "SC_CLOSED",
               LET K == [Ctx EXCEPT !.sc[c] = [@ EXCEPT !.state = "TCP_INIT", !.owner = o]]
               IN  Commit(ToSockets(SC_StartConnectionEstablishTimer(K, c),
                                    Event("CREATE_CONNECTION", c, 0, NoBuf, o)))
        PROVE  ScInv'
    <2> DEFINE t == [sc[c] EXCEPT !.state = "TCP_INIT", !.owner = o]
               e == Event("CREATE_CONNECTION", c, 0, NoBuf, o)
               L == ToSockets(SC_StartConnectionEstablishTimer([Ctx EXCEPT !.sc[c] = t], c), e)
    <2>1. sc[c] = ClosedSC
      BY <1>4, <1>5, EntryFields DEF Arrays
    <2>2. t \in Entry /\ t.state = "TCP_INIT" /\ t.owner = o /\ ~t.isServerConnection
      <3>1. sc[c] \in ScRec /\ ~sc[c].isServerConnection
        <4>1. sc[c] \in Entry
          BY <1>4 DEF Arrays
        <4>2. ~sc[c].isServerConnection
          BY <2>1 DEF ClosedSC
        <4> QED BY <4>1, <4>2 DEF Entry
      <3>2. /\ t \in ScRec /\ t.state = "TCP_INIT" /\ t.owner = o
            /\ t.isServerConnection = sc[c].isServerConnection
        BY <1>3, <3>1 DEF ScRec, ScStates
      <3> HIDE DEF t
      <3> QED BY <1>3, <3>1, <3>2 DEF Entry
    <2>3. e \in InputEvents
      BY <1>3 DEF InputEvents
    <2>4. Commit(L)
      BY <1>2, <1>5
    <2>5. /\ L \in Contexts /\ L.lsn = lsn /\ L.svcQ = svcQ /\ Others(sc, L.sc, c)
          /\ L.sc \in Arrays /\ L.sc[c].state = "TCP_INIT" /\ L.sc[c].owner = o
          /\ L.sc[c].isServerConnection = t.isServerConnection
          /\ \A d \in ConnIds \ {c} : L.sc[d] = sc[d]
      <3> HIDE DEF t, e
      <3> QED BY <1>2, <2>2, <2>3, BeginType
    <2>6. ~L.sc[c].isServerConnection
      BY <2>2, <2>5
    <2> HIDE DEF L, t, e, o
    <2>7. /\ Tail(scQ) \in Seq(ScEvent)
          /\ Channels(L.sc, svcQ, Tail(scQ), svc, asked, inst)
      <3>1. L.sc[c].owner = Head(scQ).owner
        BY <2>5 DEF o
      <3> QED BY <1>2, <1>4, <1>5, <2>5, <2>6, <3>1, ConnectMove
    <2>8. \A ep \in EpIds : Agree(L, ep)
      <3>1. ~sc[c].isServerConnection
        BY <2>1 DEF ClosedSC
      <3>2. \A ep : OwnOf(L.sc, ep) = OwnOf(sc, ep)
        BY <2>5, <2>6, <3>1 DEF OwnOf
      <3> QED BY <1>2, <2>5, <3>2 DEF Agree
    <2> QED BY <1>1, <1>2, <2>4, <2>5, <2>7, <2>8, CommitKept
  <1>6. ASSUME NEW c \in ConnIds \cup {0}, Commit(ToServices(Ctx, "SC_CONNECTION_TIMEOUT", c, o))
        PROVE  ScInv'
    <2> DEFINE L == ToServices(Ctx, "SC_CONNECTION_TIMEOUT", c, o)
               e == [type |-> "SC_CONNECTION_TIMEOUT", id |-> c, owner |-> o]
    <2>1. /\ e \in SvcEvent /\ e.type = "SC_CONNECTION_TIMEOUT" /\ e.owner = o
          /\ L \in Contexts /\ L.sc = sc /\ L.lsn = lsn /\ L.svcQ = Append(svcQ, e)
      <3>1. "SC_CONNECTION_TIMEOUT" \notin TellTypes
        BY DEF TellTypes
      <3> HIDE DEF o
      <3> QED BY <1>2, <1>3, <3>1, ToServicesType, SMTT(30)
    <2> HIDE DEF L, e
    <2>2. /\ Tail(scQ) \in Seq(ScEvent)
          /\ Channels(sc, Append(svcQ, e), Tail(scQ), svc, asked, inst)
      BY <1>2, <1>4, <2>1, RefuseMove
    <2>3. \A ep \in EpIds : Agree(L, ep)
      BY <1>2, <2>1 DEF Agree
    <2>4. Commit(L)
      BY <1>6 DEF L
    <2> QED BY <1>1, <1>2, <2>1, <2>2, <2>3, <2>4, CommitKept
  <1>7. \A c \in ConnIds : SC_InitNewConnection(c) => sc[c].state = "SC_CLOSED"
    BY DEF SC_InitNewConnection
  <1>8. CASE \E c \in ConnIds :
          /\ SC_InitNewConnection(c)
          /\ LET K == [Ctx EXCEPT !.sc[c] = [@ EXCEPT !.state = "TCP_INIT", !.owner = o]]
             IN  Commit(ToSockets(SC_StartConnectionEstablishTimer(K, c),
                                  Event("CREATE_CONNECTION", c, 0, NoBuf, o)))
    BY <1>5, <1>7, <1>8
  <1>9. CASE \E c \in ConnIds \cup {0} : Commit(ToServices(Ctx, "SC_CONNECTION_TIMEOUT", c, o))
    BY <1>6, <1>9
  <1> QED BY <1>8, <1>9 DEF ScConnect

\* A listener changes, not its connections.
LEMMA ListenerCarries ==
  ASSUME NEW K \in Contexts, NEW ep \in EpIds, NEW r \in Listener, r.conns = K.lsn[ep].conns
  PROVE  Carries(K, [K EXCEPT !.lsn[ep] = r])
  <1> DEFINE L == [K EXCEPT !.lsn[ep] = r]
  <1>1. /\ L \in Contexts /\ L.sc = K.sc /\ L.svcQ = K.svcQ /\ L.lsn[ep] = r
        /\ \A e \in EpIds \ {ep} : L.lsn[e] = K.lsn[e] /\ Follow(K, L)
        /\ Follow(K, L)
    BY PutListener
  <1> HIDE DEF L
  <1>2. \A e \in EpIds : L.lsn[e].conns = K.lsn[e].conns
    BY <1>1
  <1>3. \A e \in EpIds : Agree(K, e) => Agree(L, e)
    BY <1>1, <1>2 DEF Agree, Places, Once
  <1> QED BY <1>1, <1>3 DEF Carries, L

LEMMA EpOpenKept ==
  ASSUME ScInv, EpOpen
  PROVE  ScInv'
  <1> DEFINE ep == Head(scQ).id
             l == lsn[ep]
             r == [l EXCEPT !.state = "OPENING"]
             L == [Ctx EXCEPT !.lsn[ep].state = "OPENING"]
             e == Event("CREATE_LISTENER", ep, 0, NoBuf, 0)
             K == IF l.state # "CLOSED" THEN Ctx ELSE ToSockets(L, e)
  <1>1. Handle("EP_OPEN") /\ inst' = inst /\ Commit(K)
    BY DEF EpOpen
  <1>2. /\ Ctx \in Contexts /\ Ctx.lsn = lsn /\ Head(scQ) \in ScEvent /\ Head(scQ).type = "EP_OPEN"
    BY <1>1, Handled
  <1>3. ep \in EpIds
    BY <1>2 DEF ScEvent
  <1>4. lsn \in [EpIds -> Listener] /\ l \in Listener
    BY <1>2, <1>3, ContextFields
  <1>5. CASE l.state = "CLOSED"
    <2>1. L = [Ctx EXCEPT !.lsn[ep] = r]
      BY <1>2, <1>4 DEF Contexts
    <2>2. /\ r \in LsnRec /\ r.conns = l.conns /\ r.state = "OPENING"
      BY <1>4 DEF Listener, LsnRec
    <2>3. \A n \in ConnSlots : l.conns[n] = 0
      BY <1>4, <1>5 DEF Listener
    <2> HIDE DEF r, L, l, ep
    <2>4. r \in Listener
      BY <2>2, <2>3 DEF Listener
    <2>5. Carries(Ctx, L)
      <3>1. r.conns = Ctx.lsn[ep].conns
        BY <1>2, <2>2 DEF l
      <3> QED BY <1>2, <1>3, <2>1, <2>4, <3>1, ListenerCarries
    <2>6. e \in InputEvents
      BY <1>3 DEF InputEvents
    <2>7. L \in Contexts
      BY <2>5 DEF Carries
    <2> HIDE DEF e
    <2>8. Carries(L, ToSockets(L, e))
      BY <2>6, <2>7, ToSocketsType, AlikeCarries
    <2>9. Carries(Ctx, ToSockets(L, e))
      BY <2>5, <2>8, CarriesOn
    <2>10. Carries(Ctx, K)
      BY <1>5, <2>9
    <2> HIDE DEF K
    <2> QED BY <1>1, <2>10, CarryKept
  <1>6. CASE l.state # "CLOSED"
    <2>1. Carries(Ctx, K)
      BY <1>2, <1>6, CarriesSelf
    <2> HIDE DEF K
    <2> QED BY <1>1, <2>1, CarryKept
  <1> QED BY <1>5, <1>6

LEMMA EpCloseKept ==
  ASSUME ScInv, EpClose \/ OnListenerFailure
  PROVE  ScInv'
  <1> DEFINE ep == Head(scQ).id
  <1>1. PICK type \in {"EP_CLOSE", "LISTENER_FAILURE"}, fail \in BOOLEAN :
          Handle(type) /\ inst' = inst /\ Commit(CloseEpListener(Ctx, ep, fail))
    BY DEF EpClose, OnListenerFailure
  <1>2. /\ Ctx \in Contexts /\ Head(scQ) \in ScEvent /\ Head(scQ).type = type
        /\ \A e \in EpIds : Agree(Ctx, e)
    BY <1>1, Handled
  <1>3. ep \in EpIds
    BY <1>2 DEF ScEvent
  <1> DEFINE K == CloseEpListener(Ctx, ep, fail)
  <1> HIDE DEF ep
  <1>4. K \in Contexts /\ Follow(Ctx, K) /\ \A e \in EpIds : Agree(K, e)
    BY <1>2, <1>3, CloseEpListenerType
  <1>5. Commit(K)
    BY <1>1
  <1> HIDE DEF K
  <1> QED BY <1>1, <1>4, <1>5, HandlerKept

LEMMA OpenedKept ==
  ASSUME ScInv, OnListenerOpened
  PROVE  ScInv'
  <1> DEFINE e == Head(scQ)
             ep == e.id
             l == lsn[ep]
             r == [l EXCEPT !.state = "OPENED", !.socketIndex = e.aux]
             f == Event("CLOSE_LISTENER", e.aux, ep, NoBuf, 0)
             L == [Ctx EXCEPT !.lsn[ep].state = "OPENED", !.lsn[ep].socketIndex = e.aux]
             K == IF l.state = "OPENING" THEN L ELSE ToSockets(Ctx, f)
  <1>1. Handle("LISTENER_OPENED") /\ inst' = inst /\ Commit(K)
    BY DEF OnListenerOpened
  <1>2. /\ Ctx \in Contexts /\ Ctx.lsn = lsn /\ e \in ScEvent /\ e.type = "LISTENER_OPENED"
    BY <1>1, Handled
  <1>3. ep \in EpIds /\ e.aux \in Slots
    BY <1>2 DEF ScEvent
  <1> HIDE DEF e
  <1>4. lsn \in [EpIds -> Listener] /\ l \in Listener
    BY <1>2, <1>3, ContextFields
  <1>5. CASE l.state = "OPENING"
    <2>1. L = [Ctx EXCEPT !.lsn[ep] = r]
      <3> DEFINE q == [l EXCEPT !.state = "OPENED"]
                 F == [lsn EXCEPT ![ep] = q]
                 M == [Ctx EXCEPT !.lsn = F]
      <3>1. L = [M EXCEPT !.lsn[ep].socketIndex = e.aux]
        BY <1>2, <1>4 DEF Contexts
      <3>2. M.lsn = F /\ F[ep] = q
        BY <1>2, <1>3, <1>4 DEF Contexts
      <3>3. L = [M EXCEPT !.lsn = [F EXCEPT ![ep] = [q EXCEPT !.socketIndex = e.aux]]]
        <4> HIDE DEF M, F, q, L
        <4> QED BY <3>1, <3>2
      <3>4. [q EXCEPT !.socketIndex = e.aux] = r
        BY <1>4 DEF Listener, LsnRec
      <3>5. [F EXCEPT ![ep] = r] = [lsn EXCEPT ![ep] = r]
        <4> HIDE DEF q, r
        <4> QED BY <1>3, <1>4
      <3>6. L = [M EXCEPT !.lsn = [lsn EXCEPT ![ep] = r]]
        <4> HIDE DEF M, F, q, r, L
        <4> QED BY <3>3, <3>4, <3>5
      <3> HIDE DEF F, q, r, L
      <3> QED BY <1>2, <3>6 DEF Contexts
    <2>2. r \in LsnRec /\ r.conns = l.conns /\ r.state = "OPENED" /\ r.socketIndex = e.aux
      BY <1>3, <1>4 DEF Listener, LsnRec
    <2>3. K = L
      BY <1>5
    <2> HIDE DEF r, L, K
    <2>4. r \in Listener
      BY <1>3, <2>2 DEF Listener
    <2>5. Carries(Ctx, K)
      <3>1. r.conns = Ctx.lsn[ep].conns
        BY <1>2, <2>2
      <3> QED BY <1>2, <1>3, <2>1, <2>3, <2>4, <3>1, ListenerCarries
    <2> QED BY <1>1, <2>5, CarryKept
  <1>6. CASE l.state # "OPENING"
    <2>1. f \in InputEvents
      BY <1>3 DEF InputEvents
    <2>2. Carries(Ctx, K)
      <3> HIDE DEF f
      <3> QED BY <1>2, <1>6, <2>1, ToSocketsType, AlikeCarries
    <2> HIDE DEF K
    <2> QED BY <1>1, <2>2, CarryKept
  <1> QED BY <1>5, <1>6

\* A connection is accepted: it has an index, and the listener a place for it
\* or not.
LEMMA AcceptedKept ==
  ASSUME ScInv, Handle("LISTENER_CONNECTION"), inst < MaxInst, inst' = inst + 1,
         NEW ep \in EpIds, lsn[ep].state = "OPENED", NEW c \in ConnIds, sc[c].state = "SC_CLOSED",
         NEW L \in Contexts, L.lsn = lsn, L.svcQ = svcQ, Others(sc, L.sc, c),
         L.sc[c].state = "TCP_INIT", L.sc[c].owner = inst + 1, L.sc[c].isServerConnection,
         L.sc[c].serverEndpointConfigIdx = ep, \A d \in ConnIds \ {c} : L.sc[d] = sc[d],
         Commit(IF CanAdd(lsn[ep])
                THEN [L EXCEPT !.lsn[ep] = AddConnection(@, c)]
                ELSE SC_CloseSecureConnection(L, c, FALSE, FALSE))
  PROVE  ScInv'
  <1> DEFINE l == lsn[ep]
             o == inst + 1
  <1>1. /\ Ctx \in Contexts /\ Ctx.sc = sc /\ Ctx.lsn = lsn /\ Ctx.svcQ = svcQ
        /\ scQ \in Seq(ScEvent) /\ scQ # <<>> /\ Head(scQ) \in ScEvent
        /\ Head(scQ).type = "LISTENER_CONNECTION"
        /\ scQ' = Tail(scQ) /\ svc' = svc /\ asked' = asked /\ svc \in [ConnIds -> Owners]
        /\ asked \subseteq Owners /\ inst \in 0..MaxInst /\ inst \in Nat
        /\ UNCHANGED <<socks, inQ, signal, raising, thr>>
        /\ Channels(sc, svcQ, scQ, svc, asked, inst) /\ \A e \in EpIds : Agree(Ctx, e)
    BY Handled
  <1>2. Tail(scQ) \in Seq(ScEvent) /\ Channels(sc, svcQ, Tail(scQ), svc, asked, inst)
    BY <1>1, TakeOther
  <1>3. o \in Owners /\ o \in 0..MaxInst /\ o \in Nat
    BY <1>1, ScSocketsAssumption
  <1>5. sc \in Arrays /\ svcQ \in Seq(SvcEvent) /\ l \in Listener
    BY <1>1, ContextFields
  <1>6. /\ L \in Contexts /\ L.lsn = lsn /\ L.svcQ = svcQ /\ Others(sc, L.sc, c)
        /\ L.sc \in Arrays /\ L.sc[c].state = "TCP_INIT" /\ L.sc[c].owner = inst + 1
        /\ L.sc[c].isServerConnection /\ L.sc[c].serverEndpointConfigIdx = ep
        /\ \A d \in ConnIds \ {c} : L.sc[d] = sc[d]
    BY ContextFields
  <1>7. Channels(L.sc, svcQ, Tail(scQ), svc, asked, inst + 1)
    <2>1. L.sc[c].owner = inst + 1 /\ L.sc[c].isServerConnection
      BY <1>6
    <2> QED BY <1>1, <1>2, <1>5, <1>6, <2>1, AcceptMove
  <1>8. \A e : c \notin OwnOf(sc, e)
    <2>1. ~sc[c].isServerConnection
      BY <1>5, EntryFields DEF Arrays, ClosedSC
    <2> QED BY <2>1 DEF OwnOf
  <1>9. OwnOf(L.sc, ep) = OwnOf(sc, ep) \cup {c} /\ \A e : e # ep => OwnOf(L.sc, e) = OwnOf(sc, e)
    <2>1. L.sc[c].isServerConnection /\ L.sc[c].serverEndpointConfigIdx = ep
      BY <1>6
    <2>2. \A d \in ConnIds \ {c} : L.sc[d] = sc[d]
      BY <1>6
    <2> QED BY <1>8, <2>1, <2>2 DEF OwnOf
  <1>10. /\ Places(l) = OwnOf(sc, ep) /\ Once(l)
         /\ \A e \in EpIds : Places(lsn[e]) = OwnOf(sc, e) /\ Once(lsn[e])
    BY <1>1 DEF Agree
  <1>11. CASE CanAdd(l)
    <2> DEFINE r == AddConnection(l, c)
               M == [L EXCEPT !.lsn[ep] = r]
    <2>1. r \in Listener /\ Once(r) /\ Places(r) = Places(l) \cup {c}
      BY <1>5, <1>8, <1>10, <1>11, AddType
    <2>2. Commit(M)
      <3>1. [L EXCEPT !.lsn[ep] = AddConnection(@, c)] = M
        BY <1>6 DEF Contexts
      <3> QED BY <1>11, <3>1
    <2> HIDE DEF r
    <2>3. /\ M \in Contexts /\ M.sc = L.sc /\ M.svcQ = L.svcQ /\ M.lsn[ep] = r
          /\ \A e \in EpIds \ {ep} : M.lsn[e] = L.lsn[e]
      BY <1>6, <2>1, PutListener
    <2> HIDE DEF M, o, l
    <2>4. \A e \in EpIds : Agree(M, e)
      <3>1. Agree(M, ep)
        BY <1>9, <1>10, <2>1, <2>3 DEF Agree
      <3>2. \A e \in EpIds \ {ep} : Agree(M, e)
        BY <1>6, <1>9, <1>10, <2>3 DEF Agree
      <3> QED BY <3>1, <3>2
    <2>5. Channels(M.sc, M.svcQ, scQ', svc', asked', inst')
      BY <1>1, <1>6, <1>7, <2>3
    <2>6. inst' \in 0..MaxInst
      BY <1>3 DEF o
    <2> QED BY <1>1, <1>2, <2>2, <2>3, <2>4, <2>5, <2>6, CommitKept
  <1>12. CASE ~CanAdd(l)
    <2> DEFINE M == SC_CloseSecureConnection(L, c, FALSE, FALSE)
    <2>1. Commit(M)
      BY <1>12
    <2>2. M \in Contexts /\ Follow(L, M) /\ Ended(L, M, c)
      BY <1>6, CloseSecureType
    <2> HIDE DEF M, l
    <2>3. Channels(M.sc, M.svcQ, scQ', svc', asked', inst')
      BY <1>1, <1>2, <1>3, <1>6, <1>7, <2>2 DEF Follow
    <2>4. \A e \in EpIds : Agree(M, e)
      <3>1. OwnOf(M.sc, ep) = OwnOf(sc, ep) /\ M.lsn[ep] = RemoveConnection(l, c)
        <4>1. c \in OwnOf(L.sc, ep) /\ L.lsn[ep] = l /\ L.lsn[ep].state = "OPENED"
          BY <1>6, <1>9 DEF l
        <4>2. OwnOf(M.sc, ep) = OwnOf(L.sc, ep) \ {c} /\ M.lsn[ep] = RemoveConnection(L.lsn[ep], c)
          BY <2>2, <4>1 DEF Ended
        <4> QED BY <1>8, <1>9, <4>1, <4>2
      <3>2. Once(M.lsn[ep]) /\ Places(M.lsn[ep]) = Places(l) \ {c}
        BY <1>5, <1>10, <3>1, RemoveType
      <3>3. Agree(M, ep)
        BY <1>8, <1>10, <3>1, <3>2 DEF Agree
      <3>4. ASSUME NEW e \in EpIds \ {ep} PROVE Agree(M, e)
        <4>1. c \notin OwnOf(L.sc, e) /\ OwnOf(L.sc, e) = OwnOf(sc, e)
          BY <1>8, <1>9
        <4>2. OwnOf(M.sc, e) = OwnOf(L.sc, e) \ {c} /\ M.lsn[e] = L.lsn[e]
          BY <2>2, <4>1 DEF Ended
        <4>3. OwnOf(M.sc, e) = OwnOf(sc, e) /\ M.lsn[e] = lsn[e]
          BY <1>6, <4>1, <4>2, ZenonT(30)
        <4> QED BY <1>10, <4>3 DEF Agree
      <3> QED BY <3>3, <3>4
    <2>5. inst' \in 0..MaxInst
      BY <1>3
    <2> QED BY <1>1, <1>2, <2>1, <2>2, <2>3, <2>4, <2>5, CommitKept
  <1> QED BY <1>11, <1>12

LEMMA ListenerConnectionKept ==
  ASSUME ScInv, OnListenerConnection
  PROVE  ScInv'
  <1> DEFINE e == Head(scQ)
             ep == e.id
             o == inst + 1
             refused == ToSockets(Ctx, Event("CLOSE", e.aux, 0, NoBuf, 0))
             Accepted(c) ==
               LET K == [Ctx EXCEPT !.sc[c] = [@ EXCEPT !.state = "TCP_INIT",
                                                 !.isServerConnection = TRUE,
                                                 !.socketIndex = e.aux,
                                                 !.serverEndpointConfigIdx = ep,
                                                 !.owner = o]]
               IN  ToSockets(SC_StartConnectionEstablishTimer(K, c),
                      Event("ACCEPTED_CONNECTION", e.aux, c, NoBuf, o))
  <1>1. Handle("LISTENER_CONNECTION")
    BY ZenonT(30) DEF OnListenerConnection
  <1>2. /\ Ctx \in Contexts /\ Ctx.sc = sc /\ e \in ScEvent /\ e.type = "LISTENER_CONNECTION"
        /\ inst \in Nat
    BY <1>1, Handled
  <1>3. ep \in EpIds /\ e.aux \in Slots
    BY <1>2, SMTT(30) DEF ScEvent
  <1>4. \/ Commit(refused) /\ inst' = inst
        \/ /\ lsn[ep].state = "OPENED" /\ inst < MaxInst /\ inst' = o
           /\ \E c \in ConnIds :
                /\ SC_InitNewConnection(c)
                /\ Commit(IF CanAdd(lsn[ep])
                          THEN [Accepted(c) EXCEPT !.lsn[ep] = AddConnection(@, c)]
                          ELSE SC_CloseSecureConnection(Accepted(c), c, FALSE, FALSE))
    BY ZenonT(30) DEF OnListenerConnection
  <1> HIDE DEF e
  <1>5. CASE Commit(refused) /\ inst' = inst
    <2>1. Event("CLOSE", e.aux, 0, NoBuf, 0) \in InputEvents
      BY <1>3, SocketsAssumption DEF InputEvents
    <2>2. Carries(Ctx, refused)
      BY <1>2, <2>1, ToSocketsType, AlikeCarries
    <2> HIDE DEF refused
    <2> QED BY <1>1, <1>5, <2>2, CarryKept
  <1>6. CASE /\ lsn[ep].state = "OPENED" /\ inst < MaxInst /\ inst' = o
             /\ \E c \in ConnIds :
                  /\ SC_InitNewConnection(c)
                  /\ Commit(IF CanAdd(lsn[ep])
                            THEN [Accepted(c) EXCEPT !.lsn[ep] = AddConnection(@, c)]
                            ELSE SC_CloseSecureConnection(Accepted(c), c, FALSE, FALSE))
    <2>1. PICK c \in ConnIds :
                  /\ SC_InitNewConnection(c)
                  /\ Commit(IF CanAdd(lsn[ep])
                            THEN [Accepted(c) EXCEPT !.lsn[ep] = AddConnection(@, c)]
                            ELSE SC_CloseSecureConnection(Accepted(c), c, FALSE, FALSE))
      BY <1>6, ZenonT(30)
    <2>2. sc[c].state = "SC_CLOSED"
      BY <2>1 DEF SC_InitNewConnection
    <2> DEFINE t == [sc[c] EXCEPT !.state = "TCP_INIT", !.isServerConnection = TRUE,
                       !.socketIndex = e.aux, !.serverEndpointConfigIdx = ep, !.owner = o]
               L == ToSockets(SC_StartConnectionEstablishTimer([Ctx EXCEPT !.sc[c] = t], c),
                              Event("ACCEPTED_CONNECTION", e.aux, c, NoBuf, o))
    <2>3. L = Accepted(c)
      BY <1>2
    <2>4. /\ t \in Entry /\ t.state = "TCP_INIT" /\ t.isServerConnection
          /\ t.serverEndpointConfigIdx = ep /\ t.owner = o
      <3>1. sc[c] \in ScRec
        BY <1>2, ContextFields DEF Arrays, Entry
      <3>2. o \in Owners /\ o # 0
        BY <1>2, <1>6, ScSocketsAssumption
      <3> HIDE DEF o, ep
      <3>3. /\ t \in ScRec /\ t.state = "TCP_INIT" /\ t.isServerConnection
            /\ t.serverEndpointConfigIdx = ep /\ t.owner = o
        BY <1>3, <3>1, <3>2 DEF ScRec, ScStates
      <3> HIDE DEF t
      <3> QED BY <1>3, <3>2, <3>3 DEF Entry
    <2> HIDE DEF t, Accepted, ep
    <2>5. Commit(IF CanAdd(lsn[ep])
                 THEN [L EXCEPT !.lsn[ep] = AddConnection(@, c)]
                 ELSE SC_CloseSecureConnection(L, c, FALSE, FALSE))
      <3> HIDE DEF L
      <3> QED BY <2>1, <2>3
    <2> DEFINE f == Event("ACCEPTED_CONNECTION", e.aux, c, NoBuf, o)
    <2>6. f \in InputEvents
      <3>1. o \in Owners
        BY <1>2, <1>6, ScSocketsAssumption
      <3> HIDE DEF o
      <3> QED BY <1>3, <3>1 DEF InputEvents
    <2>7. /\ L \in Contexts /\ L.lsn = Ctx.lsn /\ L.svcQ = Ctx.svcQ /\ Others(Ctx.sc, L.sc, c)
          /\ L.sc[c].state = "TCP_INIT" /\ L.sc[c].owner = t.owner
          /\ L.sc[c].isServerConnection = t.isServerConnection
          /\ L.sc[c].serverEndpointConfigIdx = t.serverEndpointConfigIdx
          /\ \A d \in ConnIds \ {c} : L.sc[d] = Ctx.sc[d]
      <3>1. L = ToSockets(SC_StartConnectionEstablishTimer([Ctx EXCEPT !.sc[c] = t], c), f)
        OBVIOUS
      <3> HIDE DEF f, L
      <3>2. t \in Entry /\ t.state = "TCP_INIT" /\ Ctx \in Contexts
        BY <1>2, <2>4
      <3> QED BY <2>6, <3>1, <3>2, BeginType
    <2> HIDE DEF L
    <2>8. /\ Ctx.lsn = lsn /\ Ctx.svcQ = svcQ /\ inst < MaxInst /\ inst' = inst + 1
          /\ lsn[ep].state = "OPENED" /\ ep \in EpIds
      BY <1>3, <1>6 DEF Ctx, ep
    <2>9. /\ L \in Contexts /\ L.lsn = lsn /\ L.svcQ = svcQ /\ Others(sc, L.sc, c)
          /\ L.sc[c].state = "TCP_INIT" /\ L.sc[c].owner = inst + 1
          /\ L.sc[c].isServerConnection /\ L.sc[c].serverEndpointConfigIdx = ep
          /\ \A d \in ConnIds \ {c} : L.sc[d] = sc[d]
      BY <1>2, <2>4, <2>7, <2>8
    <2> QED BY <1>1, <2>2, <2>5, <2>8, <2>9, AcceptedKept, ZenonT(60)
  <1> QED BY <1>4, <1>5, <1>6, ZenonT(60)

LEMMA HandlersKept ==
  ASSUME ScInv, SecureChannels
  PROVE  ScInv'
  BY CreatedKept, ConnectionKept, FailureKept, RcvBytesKept, TimeoutKept, ScConnectKept,
     DisconnectKept, AckKept, EpOpenKept, EpCloseKept, OpenedKept, ListenerConnectionKept
     DEF SecureChannels

-----------------------------------------------------------------------------
(* The other threads.                                                      *)

\* What a step that leaves the layer alone, but for its queues, finds.
LEMMA Found ==
  ASSUME ScInv
  PROVE  /\ Ctx \in Contexts /\ Ctx.sc = sc /\ Ctx.lsn = lsn /\ Ctx.svcQ = svcQ
         /\ Ctx.armed = armed /\ Ctx.pend = pend
         /\ sc \in Arrays /\ svcQ \in Seq(SvcEvent) /\ scQ \in Seq(ScEvent)
         /\ svc \in [ConnIds -> Owners] /\ asked \subseteq Owners
         /\ inst \in 0..MaxInst /\ inst \in Nat
         /\ Channels(sc, svcQ, scQ, svc, asked, inst) /\ \A ep \in EpIds : Agree(Ctx, ep)
         /\ LayerOK /\ SlotsKnown
  <1>1. /\ Ctx \in Contexts /\ scQ \in Seq(ScEvent) /\ LayerOK /\ SlotsKnown
        /\ svc \in [ConnIds -> Owners] /\ asked \subseteq Owners /\ inst \in 0..MaxInst
    BY DEF ScInv, Types, SlotsKnown
  <1>2. inst \in Nat
    BY <1>1, ScSocketsAssumption
  <1>3. /\ Ctx.sc = sc /\ Ctx.lsn = lsn /\ Ctx.svcQ = svcQ /\ Ctx.armed = armed /\ Ctx.pend = pend
    BY DEF Ctx
  <1>4. sc \in Arrays /\ svcQ \in Seq(SvcEvent)
    BY <1>1, <1>3, ContextFields
  <1> QED BY <1>1, <1>2, <1>3, <1>4 DEF ScInv

LEMMA SocketsStepKept ==
  ASSUME ScInv, SocketsStep
  PROVE  ScInv'
  <1>1. /\ SocketsThread \/ Network
        /\ UNCHANGED <<sc, lsn, armed, pend, svcQ, svc, asked, inst>>
    BY DEF SocketsStep, scVars
  <1>2. /\ Ctx \in Contexts /\ scQ \in Seq(ScEvent) /\ svc \in [ConnIds -> Owners]
        /\ asked \subseteq Owners /\ inst \in 0..MaxInst /\ LayerOK /\ SlotsKnown
        /\ Channels(sc, svcQ, scQ, svc, asked, inst) /\ \A ep \in EpIds : Agree(Ctx, ep)
    BY Found
  <1>3. LayerOK' /\ SlotsKnown' /\ SentKnown
    BY <1>1, <1>2, LayerType, LayerKnown
  <1>4. scQ' \in Seq(ScEvent) /\ Channels(sc, svcQ, scQ', svc, asked, inst)
    <2>1. CASE scQ' = scQ
      BY <1>2, <2>1
    <2>2. CASE scQ' # scQ
      <3>1. PICK e \in ScEvent : e.type \in OutputTypes /\ scQ' = Append(scQ, e)
        BY <1>3, <2>2 DEF SentKnown
      <3>2. e.type \notin AskTypes /\ e.type # "SC_CONNECT" /\ e.type # "SC_DISCONNECTED_ACK"
        BY <3>1 DEF OutputTypes, AskTypes
      <3> QED BY <1>2, <3>1, <3>2, AddOther
    <2> QED BY <2>1, <2>2
  <1>5. Ctx' = Ctx
    BY <1>1 DEF Ctx
  <1>6. Types'
    BY <1>1, <1>2, <1>3, <1>4, <1>5 DEF Types, SlotsKnown
  <1>7. Channels(sc, svcQ, scQ, svc, asked, inst)'
    BY <1>1, <1>4
  <1>8. (\A ep \in EpIds : Agree(Ctx, ep))'
    BY <1>2, <1>5
  <1> QED BY <1>6, <1>7, <1>8 DEF ScInv

LEMMA EnqueueNextKept ==
  ASSUME ScInv, EnqueueNext
  PROVE  ScInv'
  <1>1. /\ pend # <<>> /\ inQ' = Append(inQ, Head(pend)) /\ signal' = TRUE /\ pend' = Tail(pend)
        /\ UNCHANGED <<socks, raising, thr, scQ, sc, lsn, armed, svcQ, svc, asked, inst>>
    BY DEF EnqueueNext
  <1>2. /\ Ctx \in Contexts /\ scQ \in Seq(ScEvent) /\ svc \in [ConnIds -> Owners]
        /\ asked \subseteq Owners /\ inst \in 0..MaxInst /\ LayerOK /\ SlotsKnown /\ Ctx.pend = pend
        /\ Channels(sc, svcQ, scQ, svc, asked, inst) /\ \A ep \in EpIds : Agree(Ctx, ep)
    BY Found
  <1>3. pend \in Seq(InputEvents)
    BY <1>2 DEF Contexts
  <1>4. Head(pend) \in InputEvents /\ Tail(pend) \in Seq(InputEvents)
    BY <1>1, <1>3, ElemsTail, ElemsType
  <1>5. LayerOK'
    BY <1>1, <1>2, <1>4 DEF LayerOK
  <1>6. Ctx' \in Contexts /\ Ctx'.sc = Ctx.sc /\ Ctx'.lsn = Ctx.lsn
    BY <1>1, <1>2, <1>4 DEF Ctx, Contexts
  <1>7. SlotsKnown'
    BY <1>1, <1>2, SameKnown
  <1>8. Types'
    BY <1>1, <1>2, <1>5, <1>6, <1>7 DEF Types, SlotsKnown
  <1>9. Channels(sc, svcQ, scQ, svc, asked, inst)'
    BY <1>1, <1>2
  <1>10. (\A ep \in EpIds : Agree(Ctx, ep))'
    BY <1>2, <1>6 DEF Agree
  <1> QED BY <1>8, <1>9, <1>10 DEF ScInv

\* The timers and the services change the queues, and what the services hold.
LEMMA OutsideKept ==
  ASSUME ScInv, UNCHANGED <<socks, inQ, signal, raising, thr>>, UNCHANGED <<sc, lsn, pend>>,
         armed' \subseteq armed, svcQ' \in Seq(SvcEvent), scQ' \in Seq(ScEvent),
         svc' \in [ConnIds -> Owners], asked' \subseteq Owners, inst' \in 0..MaxInst,
         Channels(sc, svcQ', scQ', svc', asked', inst')
  PROVE  ScInv'
  <1> DEFINE K == [sc |-> sc, lsn |-> lsn, armed |-> armed', pend |-> pend, svcQ |-> svcQ']
  <1>1. /\ Ctx \in Contexts /\ Ctx.sc = sc /\ Ctx.lsn = lsn /\ Ctx.armed = armed /\ Ctx.pend = pend
        /\ \A ep \in EpIds : Agree(Ctx, ep)
    BY Found
  <1>2. K \in Contexts /\ Commit(K) /\ K.sc = sc /\ K.lsn = lsn /\ K.svcQ = svcQ'
    BY <1>1 DEF Contexts, Commit
  <1> HIDE DEF K
  <1>3. \A ep \in EpIds : Agree(K, ep)
    BY <1>1, <1>2 DEF Agree
  <1> QED BY <1>2, <1>3, CommitKept

\* An event made by Emit.
LEMMA EmittedEvent ==
  ASSUME NEW type \in ScEventTypes, NEW id \in Nat, NEW owner \in Owners,
         type \notin OutputTypes,
         type \in AskTypes \cup {"TIMER_SC_CONNECTION_TIMEOUT"} => id \in ConnIds,
         type \in {"EP_OPEN", "EP_CLOSE"} => id \in EpIds,
         Emit(type, id, 0, owner)
  PROVE  \E e \in ScEvent : /\ e.type = type /\ e.id = id /\ e.owner = owner
                            /\ scQ' = Append(scQ, e)
  <1> DEFINE e == Event(type, id, 0, NoBuf, owner)
  <1>1. /\ e.type = type /\ e.id = id /\ e.owner = owner
        /\ e \in [type : ScEventTypes, id : Nat, aux : Slots \cup {0}, buf : {NoBuf}, owner : Owners]
    BY DEF Event
  <1>2. type \notin {"CREATED", "CONNECTION", "RCV_BYTES", "LISTENER_OPENED", "LISTENER_CONNECTION",
                     "LISTENER_FAILURE"}
    BY DEF OutputTypes
  <1>3. scQ' = Append(scQ, e)
    BY DEF Emit
  <1> HIDE DEF e
  <1>4. e \in ScEvent
    BY <1>1, <1>2 DEF ScEvent
  <1> QED BY <1>1, <1>3, <1>4

\* The types that Emit is given by the timers and the services.
LEMMA UpperTypes ==
  /\ {"TIMER_SC_CONNECTION_TIMEOUT", "SC_CONNECT", "EP_OPEN", "EP_CLOSE"} \cup AskTypes
       \subseteq ScEventTypes \ OutputTypes
  /\ {"TIMER_SC_CONNECTION_TIMEOUT", "SC_CONNECT", "EP_OPEN", "EP_CLOSE"} \cap AskTypes = {}
  /\ AskTypes \cap {"SC_CONNECT", "EP_OPEN", "EP_CLOSE"} = {}
  BY DEF ScEventTypes, OutputTypes, AskTypes

LEMMA TimerKept ==
  ASSUME ScInv, NEW c \in ConnIds, NEW timer \in Owners, ConnectionTimerExpires(c, timer)
  PROVE  ScInv'
  <1>1. /\ UNCHANGED <<socks, inQ, signal, raising, thr>>
        /\ UNCHANGED <<sc, lsn, pend, svcQ, svc, asked, inst>>
        /\ armed' \subseteq armed /\ Emit("TIMER_SC_CONNECTION_TIMEOUT", c, 0, timer)
    BY DEF ConnectionTimerExpires
  <1>2. /\ svcQ \in Seq(SvcEvent) /\ scQ \in Seq(ScEvent)
        /\ svc \in [ConnIds -> Owners] /\ asked \subseteq Owners /\ inst \in 0..MaxInst
        /\ Channels(sc, svcQ, scQ, svc, asked, inst)
    BY Found
  <1>3. c \in Nat
    BY SocketsAssumption
  <1>4. PICK e \in ScEvent : e.type = "TIMER_SC_CONNECTION_TIMEOUT" /\ scQ' = Append(scQ, e)
    BY <1>1, <1>3, UpperTypes, EmittedEvent
  <1>5. scQ' \in Seq(ScEvent) /\ Channels(sc, svcQ, scQ', svc, asked, inst)
    BY <1>2, <1>4, UpperTypes, AddOther
  <1> QED BY <1>1, <1>2, <1>5, OutsideKept

LEMMA SvcConnectedKept ==
  ASSUME ScInv, SvcConnected
  PROVE  ScInv'
  <1> DEFINE h == Head(svcQ)
             B == asked \ {h.owner}
  <1>1. /\ svcQ # <<>> /\ h.type \in {"EP_CONNECTED", "SC_CONNECTED"} /\ svcQ' = Tail(svcQ)
        /\ UNCHANGED <<socks, inQ, signal, raising, thr>>
        /\ UNCHANGED <<sc, lsn, armed, pend, inst>> /\ asked' = B
    BY DEF SvcConnected, Told
  <1>2. /\ sc \in Arrays /\ svcQ \in Seq(SvcEvent) /\ scQ \in Seq(ScEvent)
        /\ svc \in [ConnIds -> Owners] /\ asked \subseteq Owners /\ inst \in 0..MaxInst
        /\ Channels(sc, svcQ, scQ, svc, asked, inst)
    BY Found
  <1>3. h \in Elems(svcQ) /\ h \in SvcEvent /\ h.type \in TellTypes
    BY <1>1, <1>2, ElemsTail, ElemsType DEF TellTypes
  <1>4. h.id \in ConnIds /\ h.owner \in Owners /\ h.id \in Nat
    BY <1>3, SocketsAssumption DEF SvcEvent
  <1>5. /\ Held(sc, h.id, h.owner)
        /\ \A q \in Elems(scQ) : q.type = "SC_DISCONNECTED_ACK" => q.id # h.id
    BY <1>2, <1>3 DEF Channels, TellsKept, AckSilent
  <1>6. Tail(svcQ) \in Seq(SvcEvent) /\ Channels(sc, Tail(svcQ), scQ, svc, B, inst)
    BY <1>1, <1>2, ToldTaken
  <1>7. B \subseteq Owners
    BY <1>2
  <1>8. CASE svc' = [svc EXCEPT ![h.id] = h.owner] /\ UNCHANGED scQ
    <2>1. svc' \in [ConnIds -> Owners]
      BY <1>2, <1>4, <1>8
    <2>2. Channels(sc, Tail(svcQ), scQ, [svc EXCEPT ![h.id] = h.owner], B, inst)
      <3> HIDE DEF h, B
      <3> QED BY <1>2, <1>4, <1>5, <1>6, HoldMove
    <2> HIDE DEF B, h
    <2>3. Channels(sc, svcQ', scQ', svc', asked', inst')
      BY <1>1, <1>8, <2>2
    <2> QED BY <1>1, <1>2, <1>6, <1>7, <1>8, <2>1, <2>3, OutsideKept
  <1>9. CASE Emit("SC_DISCONNECT", h.id, 0, h.owner) /\ UNCHANGED svc
    <2> HIDE DEF h, B
    <2>1. "SC_DISCONNECT" \in AskTypes
      BY DEF AskTypes
    <2>2. PICK e \in ScEvent : /\ e.type = "SC_DISCONNECT" /\ e.id = h.id /\ e.owner = h.owner
                               /\ scQ' = Append(scQ, e)
      BY <1>4, <1>9, <2>1, UpperTypes, EmittedEvent
    <2>3. scQ' \in Seq(ScEvent) /\ Channels(sc, Tail(svcQ), scQ', svc, B, inst)
      BY <1>2, <1>5, <1>6, <2>2, AddOther
    <2>4. Channels(sc, svcQ', scQ', svc', asked', inst')
      BY <1>1, <1>9, <2>3
    <2> QED BY <1>1, <1>2, <1>6, <1>7, <1>9, <2>3, <2>4, OutsideKept
  <1> QED BY <1>8, <1>9 DEF SvcConnected

LEMMA SvcConnectionTimeoutKept ==
  ASSUME ScInv, SvcConnectionTimeout
  PROVE  ScInv'
  <1> DEFINE h == Head(svcQ)
             B == asked \ {h.owner}
  <1>1. /\ svcQ # <<>> /\ h.type = "SC_CONNECTION_TIMEOUT" /\ svcQ' = Tail(svcQ)
        /\ UNCHANGED <<socks, inQ, signal, raising, thr>>
        /\ UNCHANGED <<sc, lsn, armed, pend, inst, svc, scQ>> /\ asked' = B
    BY DEF SvcConnectionTimeout, Told
  <1>2. /\ sc \in Arrays /\ svcQ \in Seq(SvcEvent) /\ scQ \in Seq(ScEvent)
        /\ svc \in [ConnIds -> Owners] /\ asked \subseteq Owners /\ inst \in 0..MaxInst
        /\ Channels(sc, svcQ, scQ, svc, asked, inst)
    BY Found
  <1>3. Tail(svcQ) \in Seq(SvcEvent) /\ Channels(sc, Tail(svcQ), scQ, svc, B, inst)
    BY <1>1, <1>2, ToldTaken
  <1>4. B \subseteq Owners
    BY <1>2
  <1> HIDE DEF B, h
  <1>5. Channels(sc, svcQ', scQ', svc', asked', inst')
    BY <1>1, <1>3
  <1> QED BY <1>1, <1>2, <1>3, <1>4, <1>5, OutsideKept

LEMMA SvcDisconnectedKept ==
  ASSUME ScInv, SvcDisconnected
  PROVE  ScInv'
  <1> DEFINE h == Head(svcQ)
  <1>1. /\ svcQ # <<>> /\ h.type = "SC_DISCONNECTED" /\ svcQ' = Tail(svcQ)
        /\ UNCHANGED <<socks, inQ, signal, raising, thr>>
        /\ UNCHANGED <<sc, lsn, armed, pend, inst, asked>>
        /\ svc' = [svc EXCEPT ![h.id] = 0] /\ Emit("SC_DISCONNECTED_ACK", h.id, 0, h.owner)
    BY DEF SvcDisconnected, Told
  <1>2. /\ sc \in Arrays /\ svcQ \in Seq(SvcEvent) /\ scQ \in Seq(ScEvent)
        /\ svc \in [ConnIds -> Owners] /\ asked \subseteq Owners /\ inst \in 0..MaxInst
        /\ Channels(sc, svcQ, scQ, svc, asked, inst)
    BY Found
  <1>3. h \in SvcEvent /\ h.type \in TellTypes
    BY <1>1, <1>2, ElemsTail, ElemsType DEF TellTypes
  <1>4. h.id \in ConnIds /\ h.owner \in Owners /\ h.id \in Nat
    BY <1>3, SocketsAssumption DEF SvcEvent
  <1> HIDE DEF h
  <1>5. "SC_DISCONNECTED_ACK" \in AskTypes
    BY DEF AskTypes
  <1>6. PICK e \in ScEvent : /\ e.type = "SC_DISCONNECTED_ACK" /\ e.id = h.id /\ e.owner = h.owner
                             /\ scQ' = Append(scQ, e)
    BY <1>1, <1>4, <1>5, UpperTypes, EmittedEvent
  <1>7. /\ Tail(svcQ) \in Seq(SvcEvent) /\ Append(scQ, e) \in Seq(ScEvent)
        /\ Channels(sc, Tail(svcQ), Append(scQ, e), [svc EXCEPT ![e.id] = 0], asked, inst)
    BY <1>1, <1>2, <1>6, EndMove DEF h
  <1>8. Channels(sc, svcQ', scQ', svc', asked', inst')
    BY <1>1, <1>6, <1>7
  <1>9. svc' \in [ConnIds -> Owners]
    BY <1>1, <1>2, SocketsAssumption
  <1> QED BY <1>1, <1>2, <1>6, <1>7, <1>8, <1>9, OutsideKept

LEMMA SvcConnectKept ==
  ASSUME ScInv, SvcConnect
  PROVE  ScInv'
  <1>1. /\ inst < MaxInst /\ inst' = inst + 1 /\ asked' = asked \cup {inst + 1}
        /\ UNCHANGED <<socks, inQ, signal, raising, thr>>
        /\ UNCHANGED <<sc, lsn, armed, pend, svcQ, svc>> /\ Emit("SC_CONNECT", 0, 0, inst + 1)
    BY DEF SvcConnect
  <1>2. /\ sc \in Arrays /\ svcQ \in Seq(SvcEvent) /\ scQ \in Seq(ScEvent)
        /\ svc \in [ConnIds -> Owners] /\ asked \subseteq Owners /\ inst \in Nat
        /\ Channels(sc, svcQ, scQ, svc, asked, inst)
    BY Found
  <1>3. inst + 1 \in 0..MaxInst /\ inst + 1 \in Owners
    BY <1>1, <1>2, ScSocketsAssumption
  <1>4. PICK e \in ScEvent : /\ e.type = "SC_CONNECT" /\ e.owner = inst + 1
                             /\ scQ' = Append(scQ, e)
    BY <1>1, <1>3, UpperTypes, EmittedEvent
  <1>5. /\ Append(scQ, e) \in Seq(ScEvent)
        /\ Channels(sc, svcQ, Append(scQ, e), svc, asked \cup {inst + 1}, inst + 1)
    BY <1>2, <1>4, AskMove
  <1>6. Channels(sc, svcQ', scQ', svc', asked', inst')
    BY <1>1, <1>4, <1>5
  <1> QED BY <1>1, <1>2, <1>3, <1>4, <1>5, <1>6, OutsideKept

LEMMA SvcRequestKept ==
  ASSUME ScInv, NEW type, NEW id, NEW o, SvcRequest(type, id, o),
         \/ /\ id \in ConnIds /\ svc[id] # 0 /\ o = svc[id]
            /\ type \in {"SC_DISCONNECT", "SC_SERVICE_SND_MSG"}
         \/ id \in EpIds /\ type \in {"EP_OPEN", "EP_CLOSE"} /\ o = 0
  PROVE  ScInv'
  <1>1. /\ UNCHANGED <<socks, inQ, signal, raising, thr>> /\ Emit(type, id, 0, o)
        /\ UNCHANGED <<sc, lsn, armed, pend, svcQ, svc, asked, inst>>
    BY DEF SvcRequest
  <1>2. /\ svcQ \in Seq(SvcEvent) /\ scQ \in Seq(ScEvent)
        /\ svc \in [ConnIds -> Owners] /\ asked \subseteq Owners /\ inst \in 0..MaxInst
        /\ Channels(sc, svcQ, scQ, svc, asked, inst)
    BY Found
  <1>3. CASE /\ id \in ConnIds /\ svc[id] # 0 /\ o = svc[id]
             /\ type \in {"SC_DISCONNECT", "SC_SERVICE_SND_MSG"}
    <2>1. id \in Nat /\ o \in Owners /\ type \in AskTypes /\ type # "SC_DISCONNECTED_ACK"
      BY <1>2, <1>3, SocketsAssumption DEF AskTypes
    <2>2. PICK e \in ScEvent : e.type = type /\ e.id = id /\ e.owner = o /\ scQ' = Append(scQ, e)
      BY <1>1, <1>3, <2>1, UpperTypes, EmittedEvent
    <2>3. Held(sc, id, o)
      BY <1>2, <1>3 DEF Channels, SvcKept
    <2>4. \A q \in Elems(scQ) : q.type = "SC_DISCONNECTED_ACK" => q.id # id
      BY <1>2, <1>3 DEF Channels, AckSilent
    <2>5. type # "SC_CONNECT"
      BY <1>3
    <2>6. scQ' \in Seq(ScEvent) /\ Channels(sc, svcQ, scQ', svc, asked, inst)
      BY <1>2, <2>1, <2>2, <2>3, <2>4, <2>5, AddOther
    <2> QED BY <1>1, <1>2, <2>6, OutsideKept
  <1>4. CASE id \in EpIds /\ type \in {"EP_OPEN", "EP_CLOSE"} /\ o = 0
    <2>1. id \in Nat /\ o \in Owners /\ type \notin AskTypes
      BY <1>4, SocketsAssumption DEF AskTypes
    <2>2. PICK e \in ScEvent : e.type = type /\ scQ' = Append(scQ, e)
      BY <1>1, <1>4, <2>1, UpperTypes, EmittedEvent
    <2>3. e.type # "SC_CONNECT" /\ e.type # "SC_DISCONNECTED_ACK" /\ e.type \notin AskTypes
      BY <1>4, <2>1, <2>2
    <2>4. scQ' \in Seq(ScEvent) /\ Channels(sc, svcQ, scQ', svc, asked, inst)
      BY <1>2, <2>2, <2>3, AddOther
    <2> QED BY <1>1, <1>2, <2>4, OutsideKept
  <1> QED BY <1>3, <1>4

-----------------------------------------------------------------------------
(* The invariant.                                                          *)

LEMMA ScInitKept == ScInit => ScInv
  <1> SUFFICES ASSUME ScInit PROVE ScInv
    OBVIOUS
  <1>1. ClosedSC \in Entry
    BY SocketsAssumption DEF ClosedSC, Entry, ScRec, ScStates
  <1>2. ClosedListener \in Listener /\ Places(ClosedListener) = {} /\ Once(ClosedListener)
    BY ClosedListenerType
  <1>3. /\ sc = [c \in ConnIds |-> ClosedSC] /\ lsn = [ep \in EpIds |-> ClosedListener]
        /\ armed = {} /\ pend = <<>> /\ svcQ = <<>> /\ scQ = <<>>
        /\ svc = [c \in ConnIds |-> 0] /\ asked = {} /\ inst = 0
    BY DEF ScInit, Init
  <1>4. /\ \A c \in ConnIds : sc[c] = ClosedSC /\ svc[c] = 0
        /\ ClosedSC.owner = 0 /\ ClosedSC.state = "SC_CLOSED" /\ ~ClosedSC.isServerConnection
    BY <1>3 DEF ClosedSC
  <1>5. scQ \in Seq(ScEvent) /\ svcQ \in Seq(SvcEvent) /\ Elems(scQ) = {} /\ Elems(svcQ) = {}
    BY <1>3 DEF Elems
  <1>6. Types
    <2>1. LayerOK /\ SlotsKnown
      <3>1. TypeOK
        BY InitType DEF ScInit
      <3>2. \A i \in Slots : socks[i] = FreeSlot
        BY DEF ScInit, Init
      <3> QED BY <3>1, <3>2, LayerTyped, FreeKnown DEF SlotsKnown
    <2>2. sc \in [ConnIds -> Entry] /\ lsn \in [EpIds -> Listener]
      BY <1>1, <1>2, <1>3
    <2>3. Ctx \in Contexts
      BY <1>3, <1>5, <2>2 DEF Ctx, Contexts
    <2>4. svc \in [ConnIds -> Owners] /\ inst \in 0..MaxInst /\ asked \subseteq Owners
      BY <1>3, SocketsAssumption, ScSocketsAssumption
    <2> QED BY <1>5, <2>1, <2>3, <2>4 DEF Types, SlotsKnown
  <1>7. Channels(sc, svcQ, scQ, svc, asked, inst)
    <2>1. OwnersKept(sc, inst)
      BY <1>3, <1>4 DEF OwnersKept
    <2>2. AsksKept(sc, scQ) /\ TellsKept(sc, svcQ) /\ SvcKept(sc, svc) /\ AckSilent(scQ, svcQ, svc)
      BY <1>4, <1>5 DEF AsksKept, TellsKept, SvcKept, AckSilent
    <2>3. Pairwise(scQ, AskOrder) /\ Pairwise(svcQ, TellOrder)
      BY <1>3 DEF Pairwise
    <2>4. ClosingKept(sc, scQ, svcQ) /\ NewOnes(sc, scQ, inst)
      BY <1>4, <1>5 DEF ClosingKept, Ending, NewOnes
    <2>5. ServersUnasked(sc, svcQ, asked, inst)
      BY <1>3, <1>4, <1>5 DEF ServersUnasked
    <2>6. Answers(sc, scQ, svcQ, asked)
      <3> SUFFICES ASSUME NEW o \in Owners \ {0}
                   PROVE  CountIn(scQ, {"SC_CONNECT"}, o) + Cardinality(Attempts(sc, o))
                            + CountIn(svcQ, AnswerTypes, o) = 0
        BY <1>3 DEF Answers
      <3>1. CountIn(scQ, {"SC_CONNECT"}, o) = 0 /\ CountIn(svcQ, AnswerTypes, o) = 0
        BY <1>5, CountFew
      <3>2. Attempts(sc, o) = {}
        BY <1>4 DEF Attempts
      <3>3. Cardinality(Attempts(sc, o)) = 0
        BY <3>2, FS_EmptySet
      <3> QED BY <3>1, <3>3
    <2> QED BY <2>1, <2>2, <2>3, <2>4, <2>5, <2>6 DEF Channels
  <1>8. ASSUME NEW ep \in EpIds PROVE Agree(Ctx, ep)
    <2>1. Ctx.sc = sc /\ Ctx.lsn[ep] = ClosedListener
      BY <1>3 DEF Ctx
    <2>2. OwnOf(sc, ep) = {}
      BY <1>4 DEF OwnOf
    <2> QED BY <1>2, <2>1, <2>2 DEF Agree
  <1> QED BY <1>6, <1>7, <1>8 DEF ScInv

\* The inductive invariant of the secure connections: the types, what is asked,
\* told and held, in which order, and the connections of the listeners.
THEOREM ScInvariant == ScSpec => []ScInv
  <1>1. ScInv /\ [ScNext]_vars => ScInv'
    <2> SUFFICES ASSUME ScInv, [ScNext]_vars PROVE ScInv'
      OBVIOUS
    <2>1. CASE SocketsStep
      BY <2>1, SocketsStepKept
    <2>2. CASE SecureChannels
      BY <2>2, HandlersKept
    <2>3. CASE EnqueueNext
      BY <2>3, EnqueueNextKept
    <2>4. CASE Services
      BY <2>4, SvcConnectedKept, SvcConnectionTimeoutKept, SvcDisconnectedKept, SvcConnectKept,
         SvcRequestKept DEF Services
    <2>5. ASSUME NEW c \in ConnIds, NEW timer \in Owners, ConnectionTimerExpires(c, timer)
          PROVE  ScInv'
      BY <2>5, TimerKept
    <2>6. CASE UNCHANGED vars
      <3>1. /\ UNCHANGED <<socks, inQ, signal, raising, thr>>
            /\ UNCHANGED <<scQ, sc, lsn, armed, pend, svcQ, svc, asked, inst>>
        BY <2>6 DEF vars, scVars
      <3>2. /\ svcQ \in Seq(SvcEvent) /\ scQ \in Seq(ScEvent)
            /\ svc \in [ConnIds -> Owners] /\ asked \subseteq Owners /\ inst \in 0..MaxInst
            /\ Channels(sc, svcQ, scQ, svc, asked, inst)
        BY Found
      <3>3. Channels(sc, svcQ', scQ', svc', asked', inst')
        BY <3>1, <3>2
      <3> QED BY <3>1, <3>2, <3>3, OutsideKept
    <2> QED BY <2>1, <2>2, <2>3, <2>4, <2>5, <2>6 DEF ScNext
  <1> QED BY <1>1, ScInitKept, PTL DEF ScSpec

\* Types: the array of connections, the listeners, the events in every queue and
\* the timers keep the types of their fields, and a free entry of
\* secureConnectionsArray is clean, whatever the network does.
THEOREM ScTyping == ScSpec => []ScTypeOK
  <1>1. ScInv => ScTypeOK
    <2> SUFFICES ASSUME ScInv PROVE ScTypeOK
      OBVIOUS
    <2>1. /\ Ctx \in Contexts /\ Ctx.sc = sc /\ Ctx.lsn = lsn /\ Ctx.armed = armed /\ Ctx.pend = pend
          /\ sc \in Arrays /\ scQ \in Seq(ScEvent) /\ svc \in [ConnIds -> Owners]
          /\ asked \subseteq Owners /\ LayerOK
      BY Found
    <2>2. \A c \in ConnIds : sc[c] \in Entry
      BY <2>1 DEF Arrays
    <2>3. \A c \in ConnIds :
            /\ sc[c].state \in ScStates
            /\ sc[c].isServerConnection \in BOOLEAN
            /\ sc[c].socketIndex \in Slots \cup {0}
            /\ sc[c].serverEndpointConfigIdx \in EpIds \cup {0}
            /\ sc[c].owner \in Owners /\ svc[c] \in Owners
            /\ sc[c].state = "SC_CLOSED" => sc[c] = ClosedSC
      BY <2>1, <2>2, EntryFields
    <2>4. \A ep \in EpIds : \A n \in ConnSlots : lsn[ep].conns[n] \in ConnIds \cup {0}
      BY <2>1 DEF Contexts, Listener, LsnRec
    <2>5. pend \in Seq(InputEvents) /\ inQ \in Seq(InputEvents) /\ armed \subseteq ConnIds \X Owners
      BY <2>1 DEF Contexts, LayerOK
    <2>6. /\ \A n \in 1..Len(inQ) : inQ[n] \in InputEvents
          /\ \A n \in 1..Len(pend) : pend[n] \in InputEvents
      BY <2>5
    <2>7. \A n \in 1..Len(scQ) : scQ[n] \in ScEvent
      BY <2>1
    <2>8. \A n \in 1..Len(scQ) : scQ[n].type \in ScEventTypes /\ scQ[n].owner \in Owners
      BY <2>7 DEF ScEvent
    <2> QED BY <2>1, <2>3, <2>4, <2>5, <2>6, <2>8 DEF ScTypeOK
  <1> QED BY <1>1, ScInvariant, PTL

\* A request of the services (SC_DISCONNECT, SC_SERVICE_SND_MSG) and their
\* acknowledgement, which carry an index only, are treated by the connection
\* they were meant for, however often indexes are used again.
THEOREM RequestsReachTheirOwner == ScSpec => []RequestsReachOwner
  <1>1. ScInv => RequestsReachOwner
    <2> SUFFICES ASSUME ScInv, NEW n \in 1..Len(scQ), scQ[n].type \in AskTypes
                 PROVE  sc[scQ[n].id].owner = scQ[n].owner
      BY DEF RequestsReachOwner, AskTypes
    <2>1. scQ \in Seq(ScEvent) /\ AsksKept(sc, scQ)
      BY Found DEF Channels
    <2>2. scQ[n] \in Elems(scQ)
      BY DEF Elems
    <2> QED BY <2>1, <2>2 DEF AsksKept, Held
  <1> QED BY <1>1, ScInvariant, PTL

\* A channel that the services hold is the one they were told of, and is
\* connected, or SC_DISCONNECTED is on its way to them.
THEOREM HeldChannelsLive == ScSpec => []ServicesHoldLiveChannels
  <1>1. ScInv => ServicesHoldLiveChannels
    <2> SUFFICES ASSUME ScInv, NEW c \in ConnIds, svc[c] # 0
                 PROVE  /\ sc[c].owner = svc[c]
                        /\ \/ sc[c].state = "SC_CONNECTED"
                           \/ In(svcQ, "SC_DISCONNECTED", svc[c])
      BY DEF ServicesHoldLiveChannels
    <2>1. /\ SvcKept(sc, svc) /\ AckSilent(scQ, svcQ, svc) /\ ClosingKept(sc, scQ, svcQ)
          /\ TellsKept(sc, svcQ)
      BY Found DEF Channels
    <2>2. sc[c].owner = svc[c] /\ sc[c].state \in {"SC_CONNECTED", "SC_CLOSING"}
      BY <2>1 DEF SvcKept, Held
    <2>3. ASSUME sc[c].state = "SC_CLOSING" PROVE In(svcQ, "SC_DISCONNECTED", svc[c])
      <3>1. Ending(scQ, svcQ, c)
        BY <2>1, <2>3 DEF ClosingKept
      <3>2. PICK e \in Elems(svcQ) : e.type = "SC_DISCONNECTED" /\ e.id = c
        BY <2>1, <3>1 DEF Ending, AckSilent
      <3>3. e.owner = svc[c]
        BY <2>1, <2>2, <3>2 DEF TellsKept, Held, TellTypes
      <3> QED BY <3>2, <3>3 DEF In, Elems
    <2> QED BY <2>2, <2>3
  <1> QED BY <1>1, ScInvariant, PTL

\* A client connection that the services asked for has exactly one answer to
\* come: the request SC_CONNECT, the attempt, or the answer in the queue of the
\* services; and no other connection has one.
THEOREM AnsweredOnce == ScSpec => []OneAnswer
  <1>1. ScInv => OneAnswer
    <2> SUFFICES ASSUME ScInv PROVE OneAnswer
      OBVIOUS
    <2>1. Answers(sc, scQ, svcQ, asked)
      BY Found DEF Channels
    <2> QED BY <2>1 DEF Answers, OneAnswer, Attempts, AnswerTypes
  <1> QED BY <1>1, ScInvariant, PTL

\* A listener has a place for each connection it created that still is, one
\* place each and no place for another: what EP_CLOSE closes is what there is.
THEOREM ListenersAgree == ScSpec => []ListenerKnowsConnections
  <1>1. ScInv => ListenerKnowsConnections
    <2> SUFFICES ASSUME ScInv PROVE ListenerKnowsConnections
      OBVIOUS
    <2>1. Ctx.sc = sc /\ Ctx.lsn = lsn /\ \A ep \in EpIds : Agree(Ctx, ep)
      BY Found
    <2> QED BY <2>1 DEF Agree, Places, OwnOf, Once, ListenerKnowsConnections
  <1> QED BY <1>1, ScInvariant, PTL

\* An index that is CLOSING is never lost and never released twice: either one
\* SC_DISCONNECTED is on its way to the services, or one acknowledgement is on
\* its way back.
THEOREM ClosingReleased == ScSpec => []ClosingIsReleased
  <1>1. ScInv => ClosingIsReleased
    <2> SUFFICES ASSUME ScInv, NEW c \in ConnIds, sc[c].state = "SC_CLOSING"
                 PROVE  CountIn(svcQ, {"SC_DISCONNECTED"}, sc[c].owner)
                          + CountIn(scQ, {"SC_DISCONNECTED_ACK"}, sc[c].owner) = 1
      BY DEF ClosingIsReleased
    <2> DEFINE o == sc[c].owner
               Up(e) == e.type = "SC_DISCONNECTED" /\ e.id = c
               Down(e) == e.type = "SC_DISCONNECTED_ACK" /\ e.id = c
    <2>1. sc \in Arrays /\ svcQ \in Seq(SvcEvent) /\ scQ \in Seq(ScEvent)
      BY Found
    <2>2. /\ OwnersKept(sc, inst) /\ AsksKept(sc, scQ) /\ TellsKept(sc, svcQ)
          /\ AckSilent(scQ, svcQ, svc) /\ Pairwise(scQ, AskOrder) /\ Pairwise(svcQ, TellOrder)
          /\ ClosingKept(sc, scQ, svcQ)
      BY Found DEF Channels
    <2>3. /\ \A e \in Elems(svcQ) : e \in SvcEvent
          /\ \A e \in Elems(scQ) : e \in ScEvent
          /\ \A n \in 1..Len(svcQ) : svcQ[n] \in Elems(svcQ)
          /\ \A n \in 1..Len(scQ) : scQ[n] \in Elems(scQ)
      BY <2>1, ElemsType
    <2>4. o # 0
      BY <2>1, EntryFields DEF Arrays
    <2>5. ASSUME NEW e \in Elems(svcQ)
          PROVE  Match(e, {"SC_DISCONNECTED"}, o) <=> Up(e)
      <3>1. e.type = "SC_DISCONNECTED" => e.id \in ConnIds /\ sc[e.id].owner = e.owner
        BY <2>2, <2>3 DEF SvcEvent, TellTypes, TellsKept, Held
      <3> QED BY <2>2, <2>4, <3>1 DEF Match, OwnersKept
    <2>6. ASSUME NEW e \in Elems(scQ)
          PROVE  Match(e, {"SC_DISCONNECTED_ACK"}, o) <=> Down(e)
      <3>1. e.type = "SC_DISCONNECTED_ACK" => e.id \in ConnIds /\ sc[e.id].owner = e.owner
        BY <2>2, <2>3 DEF ScEvent, AskTypes, AsksKept, Held
      <3> QED BY <2>2, <2>4, <3>1 DEF Match, OwnersKept
    <2>7. \A e \in Elems(scQ), f \in Elems(svcQ) : ~(Down(e) /\ Up(f))
      BY <2>2 DEF AckSilent, TellTypes
    <2>8. ASSUME NEW k \in 1..Len(svcQ), NEW n \in 1..Len(svcQ), Up(svcQ[k]), Up(svcQ[n])
          PROVE  n = k
      <3>1. ASSUME NEW i \in 1..Len(svcQ), NEW j \in 1..Len(svcQ), i < j, Up(svcQ[i]), Up(svcQ[j])
            PROVE  FALSE
        <4>1. <<svcQ[i], svcQ[j]>> \in TellOrder
          BY <2>2, <3>1 DEF Pairwise
        <4> QED BY <3>1, <4>1 DEF TellOrder, TellTypes
      <3>2. Len(svcQ) \in Nat
        BY <2>1
      <3> QED BY <2>8, <3>1, <3>2
    <2>9. ASSUME NEW k \in 1..Len(scQ), NEW n \in 1..Len(scQ), Down(scQ[k]), Down(scQ[n])
          PROVE  n = k
      <3>1. ASSUME NEW i \in 1..Len(scQ), NEW j \in 1..Len(scQ), i < j, Down(scQ[i]), Down(scQ[j])
            PROVE  FALSE
        <4>1. <<scQ[i], scQ[j]>> \in AskOrder
          BY <2>2, <3>1 DEF Pairwise
        <4> QED BY <3>1, <4>1 DEF AskOrder, AskTypes
      <3>2. Len(scQ) \in Nat
        BY <2>1
      <3> QED BY <2>9, <3>1, <3>2
    <2>10. \/ \E e \in Elems(svcQ) : Up(e)
           \/ \E e \in Elems(scQ) : Down(e)
      BY <2>2 DEF ClosingKept, Ending
    <2> HIDE DEF o, Up, Down
    <2>11. CASE \E e \in Elems(svcQ) : Up(e)
      <3>1. PICK k \in 1..Len(svcQ) : Up(svcQ[k])
        BY <2>11 DEF Elems
      <3>2. CountIn(svcQ, {"SC_DISCONNECTED"}, o) = 1
        <4>1. /\ Match(svcQ[k], {"SC_DISCONNECTED"}, o)
              /\ \A n \in 1..Len(svcQ) : Match(svcQ[n], {"SC_DISCONNECTED"}, o) => n = k
          BY <2>3, <2>5, <2>8, <3>1
        <4> QED BY <2>1, <4>1, CountFew
      <3>3. CountIn(scQ, {"SC_DISCONNECTED_ACK"}, o) = 0
        <4>1. \A e \in Elems(scQ) : ~Match(e, {"SC_DISCONNECTED_ACK"}, o)
          BY <2>6, <2>7, <2>11
        <4> QED BY <2>1, <4>1, CountFew
      <3> QED BY <3>2, <3>3 DEF o
    <2>12. CASE \E e \in Elems(scQ) : Down(e)
      <3>1. PICK k \in 1..Len(scQ) : Down(scQ[k])
        BY <2>12 DEF Elems
      <3>2. CountIn(scQ, {"SC_DISCONNECTED_ACK"}, o) = 1
        <4>1. /\ Match(scQ[k], {"SC_DISCONNECTED_ACK"}, o)
              /\ \A n \in 1..Len(scQ) : Match(scQ[n], {"SC_DISCONNECTED_ACK"}, o) => n = k
          BY <2>3, <2>6, <2>9, <3>1
        <4> QED BY <2>1, <4>1, CountFew
      <3>3. CountIn(svcQ, {"SC_DISCONNECTED"}, o) = 0
        <4>1. \A e \in Elems(svcQ) : ~Match(e, {"SC_DISCONNECTED"}, o)
          BY <2>5, <2>7, <2>12
        <4> QED BY <2>1, <4>1, CountFew
      <3> QED BY <3>2, <3>3 DEF o
    <2> QED BY <2>10, <2>11, <2>12
  <1> QED BY <1>1, ScInvariant, PTL

=============================================================================
