---------------------------- MODULE SocketsProofs ----------------------------
(***************************************************************************)
(* Proofs about the Sockets layer under the most general upper layer, for  *)
(* every number of slots, connections, messages and message sizes: the     *)
(* types and the wake-ups first, then the slots of socketsArray (the bytes *)
(* of a connection, the descriptors watched for writing, the places a      *)
(* listener counts, and the identity of a connection).                     *)
(***************************************************************************)
EXTENDS Sockets, TLAPS, FiniteSetTheorems, SequenceFacts

-----------------------------------------------------------------------------
(* Typing of the operators the actions are built from.                     *)

\* A free slot is a slot.
LEMMA FreeSlotType == FreeSlot \in Slot
  BY SocketsAssumption DEF FreeSlot, Slot, States, Slots, Fds

\* A slot after the upper connection has been given to it, and new slots.
LEMMA SlotUpdateType ==
  ASSUME NEW s \in Slot, NEW f \in Fds, NEW c \in Nat, NEW o \in Owners,
         NEW rest \in 0..(MaxAddrs - 1)
  PROVE  /\ [s EXCEPT !.connectionId = c, !.state = "CONNECTED", !.owner = o] \in Slot
         /\ [FreeSlot EXCEPT !.state = "LISTENING", !.fd = f, !.connectionId = c] \in Slot
         /\ [FreeSlot EXCEPT !.state = "CONNECTING", !.fd = f, !.connectionId = c,
                             !.nextAddrs = rest, !.net = "syn", !.owner = o] \in Slot
         /\ [s EXCEPT !.state = "CONNECTED", !.nextAddrs = 0] \in Slot
         /\ [s EXCEPT !.nextAddrs = rest, !.fd = f, !.net = "syn"] \in Slot
  <1>1. FreeSlot \in Slot
    BY FreeSlotType
  <1>2. 0 \in 0..(MaxAddrs - 1)
    BY SocketsAssumption
  <1>3. [s EXCEPT !.connectionId = c, !.state = "CONNECTED", !.owner = o] \in Slot
    BY DEF Slot, States
  <1>4. [FreeSlot EXCEPT !.state = "LISTENING", !.fd = f, !.connectionId = c] \in Slot
    BY <1>1 DEF Slot, States
  <1>5. [FreeSlot EXCEPT !.state = "CONNECTING", !.fd = f, !.connectionId = c,
                         !.nextAddrs = rest, !.net = "syn", !.owner = o] \in Slot
    BY <1>1 DEF Slot, States
  <1>6. [s EXCEPT !.state = "CONNECTED", !.nextAddrs = 0] \in Slot
    BY <1>2 DEF Slot, States
  <1>7. [s EXCEPT !.nextAddrs = rest, !.fd = f, !.net = "syn"] \in Slot
    BY DEF Slot
  <1> QED BY <1>3, <1>4, <1>5, <1>6, <1>7

\* The fields that an input event of each type carries.
LEMMA InputEventFields ==
  ASSUME NEW e \in InputEvents
  PROVE  /\ e.id \in Nat /\ e.aux \in Nat /\ e.owner \in Owners
         /\ e.type \in {"ACCEPTED_CONNECTION", "CLOSE_LISTENER"} => e.id \in Slots
         /\ e.type = "WRITE" => e.buf \in Msgs
  BY SocketsAssumption DEF InputEvents, Event, Slots

\* Closing a slot keeps the array well formed.
LEMMA CloseSocketType ==
  ASSUME NEW S \in [Slots -> Slot], NEW i \in Slots
  PROVE  CloseSocket(S, i) \in [Slots -> Slot]
  <1>1. ASSUME NEW j \in Slots, S[j].listenerConnections > 0
        PROVE  [S[j] EXCEPT !.listenerConnections = @ - 1] \in Slot
    <2>1. S[j] \in Slot /\ S[j].listenerConnections \in Nat
      BY DEF Slot
    <2>2. S[j].listenerConnections - 1 \in Nat
      BY <1>1, <2>1
    <2> QED BY <2>1, <2>2 DEF Slot
  <1> QED BY <1>1, FreeSlotType DEF CloseSocket

\* At most one event is sent up by a step, and it is well formed.
SentUp == scQ' = scQ \/ \E e \in OutputEvent : scQ' = Append(scQ, e)

LEMMA EmitType ==
  ASSUME NEW type \in OutputTypes, NEW id \in Nat, NEW aux \in Slots \cup {0},
         NEW owner \in Owners, Emit(type, id, aux, owner)
  PROVE  SentUp
  <1>1. Event(type, id, aux, NoBuf, owner) \in OutputEvent
    BY DEF Event, OutputEvent
  <1> QED BY <1>1 DEF Emit, SentUp

\* Writing k units of its queue keeps a slot well formed.
LEMMA TreatWriteBufferType ==
  ASSUME NEW s \in Slot, NEW k \in 0..Len(s.writeQueue)
  PROVE  TreatWriteBuffer(s, k) \in Slot
  <1> DEFINE q == s.writeQueue
  <1>1. q \in Seq(Unit) /\ s.wire \in Seq(Unit) /\ Len(q) \in Nat
    BY DEF Slot
  <1>2. SubSeq(q, k + 1, Len(q)) \in Seq(Unit) /\ SubSeq(q, 1, k) \in Seq(Unit)
    BY <1>1
  <1>3. s.wire \o SubSeq(q, 1, k) \in Seq(Unit)
    BY <1>1, <1>2
  <1>4. (k < Len(q)) \in BOOLEAN
    OBVIOUS
  <1> QED BY <1>2, <1>3, <1>4 DEF TreatWriteBuffer, Slot

\* Queueing a buffer keeps a slot well formed.
LEMMA EnqueuedType ==
  ASSUME NEW s \in Slot, NEW buf \in Msgs
  PROVE  /\ Enqueued(s, buf) \in Slot
         /\ Enqueued(s, buf).writeQueue = s.writeQueue \o Units(buf)
         /\ Units(buf) \in Seq(Unit) /\ Len(Units(buf)) = MsgLen
  <1>1. Units(buf) \in Seq(Unit) /\ Len(Units(buf)) = MsgLen
    BY SocketsAssumption DEF Units, Unit
  <1>2. s.writeQueue \o Units(buf) \in Seq(Unit) /\ s.given \o Units(buf) \in Seq(Unit)
    BY <1>1 DEF Slot
  <1> QED BY <1>1, <1>2 DEF Enqueued, Slot

-----------------------------------------------------------------------------
(* TypeOK is inductive.  What is said of the variables of the layer itself *)
(* (LayerOK) does not depend on what else the secure channel layer is      *)
(* sent, which is used where the two are put together.                     *)
LayerOK ==
  /\ socks \in [Slots -> Slot]
  /\ inQ \in Seq(InputEvents)
  /\ signal \in BOOLEAN
  /\ raising \in BOOLEAN
  /\ thr \in ThreadState
  /\ thr.pc = "except" => thr.idx \in Slots

LEMMA LayerTyped == TypeOK <=> LayerOK /\ scQ \in Seq(OutputEvent)
  BY DEF TypeOK, LayerOK

\* Reporting a failure and closing the slot.
LEMMA FailAndCloseType ==
  ASSUME LayerOK, NEW i \in Slots, FailAndClose(i)
  PROVE  socks' \in [Slots -> Slot] /\ SentUp
  <1>1. socks \in [Slots -> Slot]
    BY DEF LayerOK
  <1>2. socks[i].connectionId \in Nat /\ socks[i].owner \in Owners /\ i \in Slots \cup {0}
    BY <1>1 DEF Slot
  <1>3. "FAILURE" \in OutputTypes
    BY DEF OutputTypes
  <1> QED BY <1>1, <1>2, <1>3, EmitType, CloseSocketType DEF FailAndClose

\* INT_SOCKET_CLOSE.
LEMMA IntSocketCloseType ==
  ASSUME LayerOK, NEW i \in Slots, IntSocketClose(i)
  PROVE  socks' \in [Slots -> Slot] /\ SentUp
  <1>1. socks \in [Slots -> Slot]
    BY DEF LayerOK
  <1>2. socks[i].connectionId \in Nat /\ socks[i].owner \in Owners /\ i \in Slots \cup {0}
        /\ 0 \in Owners
    BY <1>1, SocketsAssumption DEF Slot
  <1>3. "FAILURE" \in OutputTypes /\ "LISTENER_FAILURE" \in OutputTypes
    BY DEF OutputTypes
  <1>4. socks' = CloseSocket(socks, i)
    BY DEF IntSocketClose
  <1>5. SentUp
    BY <1>1, <1>2, <1>3, EmitType DEF IntSocketClose
  <1> QED BY <1>1, <1>4, <1>5, CloseSocketType

\* What the treatment of an input event of any type leaves well formed.
LEMMA TreatType ==
  ASSUME LayerOK, NEW type, Treat(type)
  PROVE  /\ Head(inQ) \in InputEvents /\ Head(inQ).type = type
         /\ inQ' \in Seq(InputEvents)
         /\ UNCHANGED <<signal, raising, thr>>
  BY DEF LayerOK, Treat

\* The input events, one by one.
LEMMA TreatInputEventType ==
  ASSUME LayerOK, TreatInputEvent
  PROVE  LayerOK' /\ SentUp
  <1> DEFINE e == Head(inQ)
  <1>0. socks \in [Slots -> Slot]
    BY DEF LayerOK
  <1>1. SUFFICES /\ socks' \in [Slots -> Slot] /\ SentUp
                 /\ inQ' \in Seq(InputEvents) /\ UNCHANGED <<signal, raising, thr>>
    BY SMTT(30) DEF LayerOK
  <1>2. /\ e \in InputEvents /\ inQ' \in Seq(InputEvents)
        /\ UNCHANGED <<signal, raising, thr>>
    BY TreatType DEF TreatInputEvent, CreateListener, AcceptedConnection, CreateConnection,
                     CloseConnection, CloseListener, Write
  <1>3. /\ e.id \in Nat /\ e.aux \in Nat /\ e.owner \in Owners /\ 0 \in Owners
        /\ e.type \in {"ACCEPTED_CONNECTION", "CLOSE_LISTENER"} => e.id \in Slots
        /\ e.type = "WRITE" => e.buf \in Msgs
    BY <1>2, InputEventFields, SocketsAssumption
  <1>4. CASE CreateListener
    <2>1. ASSUME NEW i \in Slots, NEW f \in Fds
          PROVE  [FreeSlot EXCEPT !.state = "LISTENING", !.fd = f, !.connectionId = e.id] \in Slot
      BY <1>3, FreeSlotType DEF Slot, States
    <2>2. "LISTENER_OPENED" \in OutputTypes /\ "LISTENER_FAILURE" \in OutputTypes
      BY DEF OutputTypes
    <2>3. SentUp
      BY <1>0, <1>3, <1>4, <2>2, EmitType DEF CreateListener
    <2>4. socks' \in [Slots -> Slot]
      BY <1>0, <1>4, <2>1 DEF CreateListener
    <2> QED BY <1>2, <2>3, <2>4
  <1>5. CASE AcceptedConnection
    <2>1. e.id \in Slots /\ scQ' = scQ
      BY <1>3, <1>5, SMTT(30) DEF AcceptedConnection, Treat
    <2>2. [socks[e.id] EXCEPT !.connectionId = e.aux, !.state = "CONNECTED", !.owner = e.owner] \in Slot
      <3>1. PICK f \in Fds : TRUE
        BY SocketsAssumption DEF Fds
      <3>2. 0 \in 0..(MaxAddrs - 1)
        BY SocketsAssumption
      <3>3. socks[e.id] \in Slot /\ e.aux \in Nat /\ e.owner \in Owners
        BY <1>0, <1>3, <2>1
      <3> HIDE DEF e
      <3> QED BY <3>1, <3>2, <3>3, SlotUpdateType
    <2>3. \/ socks' = CloseSocket(socks, e.id)
          \/ socks' = [socks EXCEPT ![e.id] =
               [socks[e.id] EXCEPT !.connectionId = e.aux, !.state = "CONNECTED", !.owner = e.owner]]
      BY <1>0, <1>5, <2>1 DEF AcceptedConnection
    <2>4. socks' \in [Slots -> Slot]
      BY <1>0, <2>1, <2>2, <2>3, CloseSocketType
    <2> QED BY <1>0, <1>2, <2>1, <2>4 DEF SentUp
  <1>6. CASE CreateConnection
    <2>1. ASSUME NEW i \in Slots, NEW f \in Fds, NEW rest \in 0..(MaxAddrs - 1)
          PROVE  [FreeSlot EXCEPT !.state = "CONNECTING", !.fd = f, !.connectionId = e.id,
                                  !.nextAddrs = rest, !.net = "syn", !.owner = e.owner] \in Slot
      BY <1>3, FreeSlotType DEF Slot, States
    <2>2. "CREATED" \in OutputTypes /\ "FAILURE" \in OutputTypes
      BY DEF OutputTypes
    <2>3. SentUp
      BY <1>0, <1>3, <1>6, <2>2, EmitType DEF CreateConnection
    <2>4. socks' \in [Slots -> Slot]
      <3>1. CASE socks' = socks
        BY <1>0, <3>1
      <3>2. CASE \E i \in Slots, f \in Fds, rest \in 0..(MaxAddrs - 1) :
                   socks' = [socks EXCEPT ![i] =
                     [FreeSlot EXCEPT !.state = "CONNECTING", !.fd = f, !.connectionId = e.id,
                        !.nextAddrs = rest, !.net = "syn", !.owner = e.owner]]
        <4>1. PICK i \in Slots, f \in Fds, rest \in 0..(MaxAddrs - 1) :
                   socks' = [socks EXCEPT ![i] =
                     [FreeSlot EXCEPT !.state = "CONNECTING", !.fd = f, !.connectionId = e.id,
                        !.nextAddrs = rest, !.net = "syn", !.owner = e.owner]]
          BY <3>2
        <4> HIDE DEF e
        <4> QED BY <1>0, <2>1, <4>1
      <3> QED BY <1>6, <3>1, <3>2 DEF CreateConnection
    <2> QED BY <1>2, <2>3, <2>4
  <1>7. CASE CloseConnection
    BY <1>0, <1>2, <1>7, CloseSocketType DEF CloseConnection, CloseRequestValid, SentUp
  <1>8. CASE CloseListener
    BY <1>0, <1>2, <1>3, <1>8, CloseSocketType DEF CloseListener, Treat, SentUp
  <1>9. CASE Write
    <2> DEFINE i == e.id
               s == Enqueued(socks[i], e.buf)
    <2>1. e.buf \in Msgs
      BY <1>3, <1>9 DEF Write, Treat
    <2>2. CASE scQ' = scQ /\ socks' = socks
      BY <1>0, <1>2, <2>2 DEF SentUp
    <2>3. CASE i \in Slots
      <3>1. s \in Slot
        BY <1>0, <2>1, <2>3, EnqueuedType
      <3> HIDE DEF s
      <3>2. CASE FailAndClose(i)
        BY <1>2, <2>3, <3>2, FailAndCloseType
      <3>3. CASE scQ' = scQ /\ socks' = [socks EXCEPT ![i] = s]
        BY <1>0, <1>2, <2>3, <3>1, <3>3 DEF SentUp
      <3>4. CASE scQ' = scQ /\ \E k \in 0..Len(s.writeQueue) :
                   socks' = [socks EXCEPT ![i] = TreatWriteBuffer(s, k)]
        BY <1>0, <1>2, <2>3, <3>1, <3>4, TreatWriteBufferType DEF SentUp
      <3> QED BY <1>9, <2>2, <3>2, <3>3, <3>4 DEF Write, s
    <2> QED BY <1>9, <2>2, <2>3 DEF Write
  <1> QED BY <1>4, <1>5, <1>6, <1>7, <1>8, <1>9 DEF TreatInputEvent

\* The walk goes on after slot i.
LEMMA ScanOnType ==
  ASSUME LayerOK, NEW i \in Slots, ScanOn(i), thr.pc = "scan"
  PROVE  /\ thr' \in ThreadState
         /\ thr'.pc = "except" => thr'.idx \in Slots
  <1>1. i \in 1..(MaxSockets + 1) /\ i + 1 \in 1..(MaxSockets + 1)
    BY SocketsAssumption DEF Slots
  <1>2. thr \in ThreadState
    BY DEF LayerOK
  <1>3. CASE thr' = [thr EXCEPT !.pc = "except", !.idx = i]
    BY <1>1, <1>2, <1>3 DEF ThreadState
  <1>4. CASE thr' = [thr EXCEPT !.idx = i + 1] /\ thr.pc # "except"
    BY <1>1, <1>2, <1>4 DEF ThreadState
  <1> QED BY <1>3, <1>4 DEF ScanOn

\* The walk through the array, one step per network event.
LEMMA ScanType ==
  ASSUME LayerOK, NEW i \in Slots,
         \/ SocketConnected(i) \/ SocketConnectionAttemptFailed(i)
         \/ SocketReadyToRead(i) \/ SocketReadyToWrite(i)
         \/ ListenerConnectionAttempt(i) \/ UnexpectedWriteEvent(i) \/ NoReadWriteEvent(i)
  PROVE  LayerOK' /\ SentUp
  <1>0. socks \in [Slots -> Slot] /\ socks[i] \in Slot
    BY DEF LayerOK
  <1>1. SUFFICES socks' \in [Slots -> Slot] /\ SentUp
    <2>1. ScanOn(i) /\ thr.pc = "scan" /\ UNCHANGED <<inQ, signal, raising>>
      BY DEF SocketConnected, SocketConnectionAttemptFailed, SocketReadyToRead,
             SocketReadyToWrite, ListenerConnectionAttempt, UnexpectedWriteEvent,
             NoReadWriteEvent, Scanned
    <2> QED BY <1>1, <2>1, ScanOnType DEF LayerOK
  <1>2. socks[i].connectionId \in Nat /\ socks[i].owner \in Owners /\ 0 \in Owners
    BY <1>0, SocketsAssumption, SMTT(30) DEF Slot
  <1>3. ASSUME NEW f \in Fds, NEW rest \in 0..(MaxAddrs - 1)
        PROVE  /\ [socks[i] EXCEPT !.state = "CONNECTED", !.nextAddrs = 0] \in Slot
               /\ [socks[i] EXCEPT !.nextAddrs = rest, !.fd = f, !.net = "syn"] \in Slot
    BY <1>0, <1>2, SlotUpdateType
  <1>4. CASE SocketConnected(i)
    <2>1. PICK f \in Fds, rest \in 0..(MaxAddrs - 1) : TRUE
      BY SocketsAssumption DEF Fds
    <2>2. socks' = [socks EXCEPT ![i] = [socks[i] EXCEPT !.state = "CONNECTED", !.nextAddrs = 0]]
      BY <1>0, <1>4 DEF SocketConnected
    <2>3. socks' \in [Slots -> Slot]
      BY <1>0, <1>3, <2>1, <2>2
    <2>4. "CONNECTION" \in OutputTypes
      BY DEF OutputTypes
    <2>5. SentUp
      BY <1>0, <1>2, <1>4, <2>4, EmitType DEF SocketConnected
    <2> QED BY <2>3, <2>5
  <1>5. CASE SocketConnectionAttemptFailed(i)
    <2>1. CASE FailAndClose(i)
      BY <2>1, FailAndCloseType
    <2>2. CASE scQ' = scQ /\ \E rest \in 0..(MaxAddrs - 1), f \in Fds :
                 socks' = [socks EXCEPT ![i].nextAddrs = rest, ![i].fd = f, ![i].net = "syn"]
      <3>1. PICK rest \in 0..(MaxAddrs - 1), f \in Fds :
                 socks' = [socks EXCEPT ![i].nextAddrs = rest, ![i].fd = f, ![i].net = "syn"]
        BY <2>2
      <3>2. socks' = [socks EXCEPT ![i] =
                 [socks[i] EXCEPT !.nextAddrs = rest, !.fd = f, !.net = "syn"]]
        BY <1>0, <3>1
      <3> QED BY <1>0, <1>3, <2>2, <3>2 DEF SentUp
    <2> QED BY <1>5, <2>1, <2>2 DEF SocketConnectionAttemptFailed
  <1>6. CASE SocketReadyToRead(i)
    <2>1. CASE FailAndClose(i)
      BY <2>1, FailAndCloseType
    <2>2. CASE socks' = socks /\ scQ' = scQ
      BY <1>0, <2>2 DEF SentUp
    <2>3. CASE socks' = socks /\ Emit("RCV_BYTES", socks[i].connectionId, i, socks[i].owner)
      <3>1. "RCV_BYTES" \in OutputTypes
        BY DEF OutputTypes
      <3> QED BY <1>0, <1>2, <2>3, <3>1, EmitType
    <2> QED BY <1>6, <2>1, <2>2, <2>3 DEF SocketReadyToRead
  <1>7. CASE SocketReadyToWrite(i)
    <2> DEFINE s == [socks[i] EXCEPT !.isNotWritable = FALSE]
    <2>1. s \in Slot
      BY <1>0 DEF Slot
    <2> HIDE DEF s
    <2>2. scQ' = scQ
      BY <1>7 DEF SocketReadyToWrite
    <2>3. CASE socks' = socks
      BY <1>0, <2>2, <2>3 DEF SentUp
    <2>4. CASE \E k \in 0..Len(s.writeQueue) : socks' = [socks EXCEPT ![i] = TreatWriteBuffer(s, k)]
      BY <1>0, <2>1, <2>2, <2>4, TreatWriteBufferType DEF SentUp
    <2>5. CASE \E n \in 1..Len(s.writeQueue) :
                 socks' = [socks EXCEPT ![i] =
                    [s EXCEPT !.writeQueue = SubSeq(@, n + 1, Len(@))]]
      <3>1. ASSUME NEW n \in 1..Len(s.writeQueue)
            PROVE  [s EXCEPT !.writeQueue = SubSeq(@, n + 1, Len(@))] \in Slot
        <4>1. s.writeQueue \in Seq(Unit)
          BY <2>1 DEF Slot
        <4>2. SubSeq(s.writeQueue, n + 1, Len(s.writeQueue)) \in Seq(Unit)
          BY <4>1
        <4> QED BY <2>1, <4>2 DEF Slot
      <3> QED BY <1>0, <2>2, <2>5, <3>1 DEF SentUp
    <2> QED BY <1>7, <2>3, <2>4, <2>5 DEF SocketReadyToWrite, s
  <1>8. CASE ListenerConnectionAttempt(i)
    <2>1. CASE socks' = socks /\ scQ' = scQ
      BY <1>0, <2>1 DEF SentUp
    <2>2. CASE \E n \in Slots, f \in Fds :
                 /\ n # i
                 /\ socks' = [socks EXCEPT
                      ![n] = [FreeSlot EXCEPT !.state = "ACCEPTED", !.fd = f, !.net = "up",
                                !.isServerConnection = TRUE, !.listenerSocketIdx = i],
                      ![i].listenerConnections = @ + 1]
                 /\ Emit("LISTENER_CONNECTION", socks[i].connectionId, n, 0)
      <3>1. PICK n \in Slots, f \in Fds :
                 /\ n # i
                 /\ socks' = [socks EXCEPT
                      ![n] = [FreeSlot EXCEPT !.state = "ACCEPTED", !.fd = f, !.net = "up",
                                !.isServerConnection = TRUE, !.listenerSocketIdx = i],
                      ![i].listenerConnections = @ + 1]
                 /\ Emit("LISTENER_CONNECTION", socks[i].connectionId, n, 0)
        BY <2>2
      <3>2. [FreeSlot EXCEPT !.state = "ACCEPTED", !.fd = f, !.net = "up",
               !.isServerConnection = TRUE, !.listenerSocketIdx = i] \in Slot
        BY FreeSlotType DEF Slot, States
      <3>3. [socks[i] EXCEPT !.listenerConnections = @ + 1] \in Slot
        <4>1. socks[i].listenerConnections + 1 \in Nat
          BY <1>0 DEF Slot
        <4> QED BY <1>0, <4>1 DEF Slot
      <3>4. socks' \in [Slots -> Slot]
        <4> DEFINE A == [FreeSlot EXCEPT !.state = "ACCEPTED", !.fd = f, !.net = "up",
                           !.isServerConnection = TRUE, !.listenerSocketIdx = i]
                   B == [socks[i] EXCEPT !.listenerConnections = @ + 1]
        <4>1. socks' = [[socks EXCEPT ![n] = A] EXCEPT ![i] = B]
          <5>1. socks' = [[socks EXCEPT ![n] = A] EXCEPT ![i].listenerConnections = @ + 1]
            BY <3>1
          <5>2. [socks EXCEPT ![n] = A][i] = socks[i]
            BY <1>0, <3>1
          <5> QED BY <1>0, <5>1, <5>2
        <4>2. A \in Slot /\ B \in Slot
          BY <3>2, <3>3
        <4> HIDE DEF A, B
        <4> QED BY <1>0, <4>1, <4>2
      <3>5. "LISTENER_CONNECTION" \in OutputTypes
        BY DEF OutputTypes
      <3> QED BY <1>0, <1>2, <3>1, <3>4, <3>5, EmitType
    <2> QED BY <1>8, <2>1, <2>2 DEF ListenerConnectionAttempt, GetFreeSocket
  <1>9. CASE UnexpectedWriteEvent(i)
    BY <1>9, IntSocketCloseType DEF UnexpectedWriteEvent
  <1>10. CASE NoReadWriteEvent(i)
    BY <1>0, <1>10 DEF NoReadWriteEvent, SentUp
  <1> QED BY <1>4, <1>5, <1>6, <1>7, <1>8, <1>9, <1>10

\* select() reports descriptors of the array.
LEMMA SelectType ==
  ASSUME LayerOK, Select
  PROVE  LayerOK' /\ SentUp
  <1>1. PICK R \in SUBSET MayRead, W \in SUBSET MayWrite, X \in SUBSET MayExcept :
          thr' = [NothingReported("input") EXCEPT !.R = FdsOf(R), !.W = FdsOf(W), !.X = FdsOf(X)]
    BY DEF Select
  <1>2. R \subseteq Slots /\ W \subseteq Slots /\ X \subseteq Slots
    BY DEF MayRead, MayWrite, MayExcept, ReadWatch, WriteWatch
  <1>3. ASSUME NEW I \in SUBSET Slots
        PROVE  FdsOf(I) \subseteq Fds \cup {0}
    BY DEF LayerOK, Slot, FdsOf
  <1>4. 1 \in 1..(MaxSockets + 1)
    BY SocketsAssumption
  <1>5. thr' \in ThreadState /\ thr'.pc = "input"
    BY <1>1, <1>2, <1>3, <1>4 DEF NothingReported, ThreadState
  <1> QED BY <1>5 DEF LayerOK, Select, SentUp

\* The kernel and the peers.
LEMMA NetworkType ==
  ASSUME LayerOK, Network
  PROVE  LayerOK' /\ SentUp
  <1>1. PICK i \in Slots : NetworkUp(i) \/ NetworkDown(i)
    BY DEF Network
  <1>2. socks \in [Slots -> Slot] /\ socks[i] \in Slot
    BY DEF LayerOK
  <1>3. [socks[i] EXCEPT !.net = "up"] \in Slot /\ [socks[i] EXCEPT !.net = "down"] \in Slot
    BY <1>2 DEF Slot
  <1>4. \/ socks' = [socks EXCEPT ![i] = [socks[i] EXCEPT !.net = "up"]]
        \/ socks' = [socks EXCEPT ![i] = [socks[i] EXCEPT !.net = "down"]]
    BY <1>1, <1>2 DEF NetworkUp, NetworkDown
  <1>5. socks' \in [Slots -> Slot]
    BY <1>2, <1>3, <1>4
  <1> QED BY <1>1, <1>5 DEF LayerOK, NetworkUp, NetworkDown, SentUp

\* Every step of the thread, of the kernel and of the peers keeps the types.
LEMMA LayerType ==
  ASSUME LayerOK, SocketsThread \/ Network
  PROVE  LayerOK' /\ SentUp
  <1>1. CASE Select
    BY <1>1, SelectType
  <1>2. CASE TreatInputEvent
    BY <1>2, TreatInputEventType
  <1>3. CASE InputEventsTreated
    BY <1>3 DEF LayerOK, InputEventsTreated, ThreadState, SentUp
  <1>4. CASE SocketException
    <2>1. thr.pc = "except" /\ IntSocketClose(thr.idx)
      BY <1>4 DEF SocketException
    <2>2. thr.idx \in Slots
      BY <2>1 DEF LayerOK
    <2> QED
      <3>1. socks' \in [Slots -> Slot] /\ SentUp
        BY <2>1, <2>2, IntSocketCloseType
      <3>2. thr.idx + 1 \in 1..(MaxSockets + 1)
        BY <2>2, SocketsAssumption DEF Slots
      <3> QED BY <1>4, <3>1, <3>2 DEF LayerOK, SocketException, ThreadState
  <1>5. CASE ScanEnd
    <2>1. 1 \in 1..(MaxSockets + 1)
      BY SocketsAssumption
    <2>2. thr' \in ThreadState /\ thr'.pc = "select"
      BY <1>5, <2>1 DEF ScanEnd, NothingReported, ThreadState
    <2> QED BY <1>5, <2>2 DEF LayerOK, ScanEnd, SentUp
  <1>6. ASSUME NEW i \in Slots,
               \/ SocketConnected(i) \/ SocketConnectionAttemptFailed(i)
               \/ SocketReadyToRead(i) \/ SocketReadyToWrite(i)
               \/ ListenerConnectionAttempt(i) \/ UnexpectedWriteEvent(i) \/ NoReadWriteEvent(i)
        PROVE  LayerOK' /\ SentUp
    BY <1>6, ScanType
  <1>7. CASE Network
    BY <1>7, NetworkType
  <1> QED
    BY <1>1, <1>2, <1>3, <1>4, <1>5, <1>6, <1>7 DEF SocketsThread

\* Every step keeps the types.
LEMMA NextType ==
  ASSUME TypeOK, [Next]_socketsVars
  PROVE  TypeOK'
  <1>1. LayerOK /\ scQ \in Seq(OutputEvent)
    BY LayerTyped
  <1>2. CASE SocketsThread \/ Network
    <2>1. LayerOK' /\ SentUp
      BY <1>1, <1>2, LayerType
    <2>2. scQ' \in Seq(OutputEvent)
      BY <1>1, <2>1 DEF SentUp
    <2> QED BY <2>1, <2>2 DEF TypeOK, LayerOK
  <1>3. CASE InterruptForInputEvent
    BY <1>3 DEF TypeOK, InterruptForInputEvent
  <1>4. CASE Post
    BY <1>4 DEF TypeOK, Post, EnqueueEvents
  <1>5. CASE Take
    BY <1>5 DEF TypeOK, Take
  <1>6. CASE UNCHANGED socketsVars
    BY <1>6 DEF TypeOK, socketsVars
  <1> QED BY <1>2, <1>3, <1>4, <1>5, <1>6 DEF Next

LEMMA InitType ==
  ASSUME Init
  PROVE  TypeOK
  <1>1. 1 \in 1..(MaxSockets + 1)
    BY SocketsAssumption
  <1>2. thr \in ThreadState /\ thr.pc = "select"
    BY <1>1 DEF Init, NothingReported, ThreadState
  <1>3. socks \in [Slots -> Slot]
    BY FreeSlotType DEF Init
  <1>4. <<>> \in Seq(InputEvents) /\ <<>> \in Seq(OutputEvent)
    OBVIOUS
  <1> QED BY <1>2, <1>3, <1>4 DEF Init, TypeOK

\* The variables of the layer keep their types, whatever the upper layer posts
\* and the network does: in particular no count of a listener goes below zero
\* and no queue ever holds a malformed event.
THEOREM Typing == Spec => []TypeOK
  <1>1. Init => TypeOK
    BY InitType
  <1>2. TypeOK /\ [Next]_socketsVars => TypeOK'
    BY NextType
  <1> QED BY <1>1, <1>2, PTL DEF Spec

-----------------------------------------------------------------------------
(* Wake-ups.                                                               *)

\* No wake-up is lost: the byte is written after the event is queued and read
\* before the queue is emptied, so whatever the interleaving an event that
\* waits is announced, or is being treated.
THEOREM WakeupsKept == Spec => []NoLostWakeup
  <1>1. Init => NoLostWakeup
    BY DEF Init, NoLostWakeup
  <1>2. TypeOK /\ NoLostWakeup /\ [Next]_socketsVars => NoLostWakeup'
    <2> SUFFICES ASSUME TypeOK, NoLostWakeup, [Next]_socketsVars PROVE NoLostWakeup'
      OBVIOUS
    <2>1. CASE Select
      BY <2>1, SMTT(30) DEF NoLostWakeup, Select, NothingReported
    <2>2. CASE TreatInputEvent
      BY <2>2 DEF NoLostWakeup, TreatInputEvent, Treat, CreateListener, AcceptedConnection,
                  CreateConnection, CloseConnection, CloseListener, Write
    <2>3. CASE InputEventsTreated
      BY <2>3 DEF NoLostWakeup, InputEventsTreated
    <2>4. ASSUME thr.pc # "input", UNCHANGED <<inQ, signal, raising>>
          PROVE  NoLostWakeup'
      BY <2>4 DEF NoLostWakeup
    <2>5. CASE SocketException \/ ScanEnd
      BY <2>4, <2>5 DEF SocketException, ScanEnd
    <2>6. ASSUME NEW i \in Slots,
                 \/ SocketConnected(i) \/ SocketConnectionAttemptFailed(i)
                 \/ SocketReadyToRead(i) \/ SocketReadyToWrite(i)
                 \/ ListenerConnectionAttempt(i) \/ UnexpectedWriteEvent(i) \/ NoReadWriteEvent(i)
          PROVE  NoLostWakeup'
      <3>1. Scanned(i)
        BY <2>6 DEF SocketConnected, SocketConnectionAttemptFailed, SocketReadyToRead,
             SocketReadyToWrite, ListenerConnectionAttempt, UnexpectedWriteEvent, NoReadWriteEvent
      <3> QED BY <2>4, <3>1 DEF Scanned
    <2>7. CASE Network
      BY <2>7 DEF NoLostWakeup, Network, NetworkUp, NetworkDown
    <2>8. CASE InterruptForInputEvent
      BY <2>8 DEF NoLostWakeup, InterruptForInputEvent
    <2>9. CASE Post
      BY <2>9 DEF NoLostWakeup, Post, EnqueueEvents
    <2>10. CASE Take
      BY <2>10 DEF NoLostWakeup, Take
    <2>11. CASE UNCHANGED socketsVars
      BY <2>11 DEF NoLostWakeup, socketsVars
    <2> QED
      BY <2>1, <2>2, <2>3, <2>5, <2>6, <2>7, <2>8, <2>9, <2>10, <2>11 DEF Next, SocketsThread
  <1> QED BY <1>1, <1>2, Typing, PTL DEF Spec

-----------------------------------------------------------------------------
(* The slots. Whatever step is taken, a slot either does what SlotStep     *)
(* says or is released by CloseSocket; both facts are proved once          *)
(* (NextSlots), and the properties are then proved of one slot at a time.  *)

(* What a step may do to one slot.                                         *)

\* A slot is taken: it was free, and nothing of its past is left in it.
Opens(s, t) ==
  /\ s.state = "CLOSED" /\ t.state # "CLOSED" /\ t.state # "CONNECTED"
  /\ t.isNotWritable = FALSE /\ t.listenerConnections = 0
  /\ t.writeQueue = <<>> /\ t.given = <<>> /\ t.wire = <<>>

\* A connection goes on: its state, its upper connection, its address.
GoesOn(s, t) ==
  \/ \E c \in Nat, o \in Owners :
       /\ s.state = "ACCEPTED"
       /\ t = [s EXCEPT !.connectionId = c, !.state = "CONNECTED", !.owner = o]
  \/ /\ s.state = "CONNECTING"
     /\ \/ t = [s EXCEPT !.state = "CONNECTED", !.nextAddrs = 0]
        \/ \E f \in Fds, rest \in 0..(MaxAddrs - 1) :
             t = [s EXCEPT !.nextAddrs = rest, !.fd = f, !.net = "syn"]
  \/ s.net = "syn" /\ t = [s EXCEPT !.net = "up"]
  \/ s.net \in {"syn", "up"} /\ t = [s EXCEPT !.net = "down"]

\* Bytes are queued for a connection, or written to it.
Writes(s, t) ==
  /\ s.state = "CONNECTED"
  /\ \/ \E m \in Msgs : s.isNotWritable /\ t = Enqueued(s, m)
     \/ \E m \in Msgs : \E k \in 0..Len(Enqueued(s, m).writeQueue) :
          /\ ~s.isNotWritable /\ ~WriteFails(Enqueued(s, m))
          /\ t = TreatWriteBuffer(Enqueued(s, m), k)
     \/ \E k \in 0..Len(s.writeQueue) :
          ~WriteFails(s) /\ t = TreatWriteBuffer([s EXCEPT !.isNotWritable = FALSE], k)
     \/ \E n \in 1..Len(s.writeQueue) :
          /\ s.net = "down"
          /\ t = [s EXCEPT !.isNotWritable = FALSE,
                           !.writeQueue = SubSeq(@, n + 1, Len(@))]

\* Only the count of a listener changes.
Counts(s, t) ==
  /\ s.state = "LISTENING"
  /\ \/ s.listenerConnections > 0 /\ t = [s EXCEPT !.listenerConnections = @ - 1]
     \/ t = [s EXCEPT !.listenerConnections = @ + 1]

SlotStep(s, t) ==
  \/ t = s \/ t = FreeSlot
  \/ Opens(s, t) \/ GoesOn(s, t) \/ Writes(s, t) \/ Counts(s, t)

-----------------------------------------------------------------------------
(* Every step does so.                                                     *)

\* CloseSocket frees a slot and may lower the count of a listener.
LEMMA CloseSocketSlots ==
  ASSUME NEW S \in [Slots -> Slot], NEW i \in Slots, NEW j \in Slots
  PROVE  SlotStep(S[j], CloseSocket(S, i)[j])
  BY DEF CloseSocket, SlotStep, Counts

\* FailAndClose, INT_SOCKET_CLOSE.
LEMMA FailSlots ==
  ASSUME LayerOK, NEW i \in Slots, FailAndClose(i) \/ IntSocketClose(i), NEW j \in Slots
  PROVE  SlotStep(socks[j], socks'[j])
  <1>1. socks \in [Slots -> Slot] /\ socks' = CloseSocket(socks, i)
    BY DEF LayerOK, FailAndClose, IntSocketClose
  <1> QED BY <1>1, CloseSocketSlots

\* A slot that is replaced by a new one.
LEMMA OpensSlot ==
  ASSUME NEW s \in Slot, s.state = "CLOSED", NEW f, NEW c, NEW o, NEW rest, NEW l
  PROVE  /\ Opens(s, [FreeSlot EXCEPT !.state = "LISTENING", !.fd = f, !.connectionId = c])
         /\ Opens(s, [FreeSlot EXCEPT !.state = "CONNECTING", !.fd = f, !.connectionId = c,
                                      !.nextAddrs = rest, !.net = "syn", !.owner = o])
         /\ Opens(s, [FreeSlot EXCEPT !.state = "ACCEPTED", !.fd = f, !.net = "up",
                                      !.isServerConnection = TRUE, !.listenerSocketIdx = l])
  BY DEF Opens, FreeSlot

\* The input events.
LEMMA TreatInputEventSlots ==
  ASSUME LayerOK, TreatInputEvent, NEW j \in Slots
  PROVE  SlotStep(socks[j], socks'[j])
  <1> DEFINE e == Head(inQ)
  <1>0. socks \in [Slots -> Slot] /\ socks[j] \in Slot
    BY DEF LayerOK
  <1>1. e \in InputEvents
    BY TreatType DEF TreatInputEvent, CreateListener, AcceptedConnection, CreateConnection,
                     CloseConnection, CloseListener, Write
  <1>2. /\ e.id \in Nat /\ e.aux \in Nat /\ e.owner \in Owners
        /\ e.type \in {"ACCEPTED_CONNECTION", "CLOSE_LISTENER"} => e.id \in Slots
        /\ e.type = "WRITE" => e.buf \in Msgs
    BY <1>1, InputEventFields
  <1>3. CASE CreateListener
    <2>1. CASE socks' = socks
      BY <2>1 DEF SlotStep
    <2>2. CASE \E i \in Slots, f \in Fds :
                 /\ socks[i].state = "CLOSED"
                 /\ socks' = [socks EXCEPT ![i] =
                      [FreeSlot EXCEPT !.state = "LISTENING", !.fd = f, !.connectionId = e.id]]
      <3>1. PICK i \in Slots, f \in Fds :
                 /\ socks[i].state = "CLOSED"
                 /\ socks' = [socks EXCEPT ![i] =
                      [FreeSlot EXCEPT !.state = "LISTENING", !.fd = f, !.connectionId = e.id]]
        BY <2>2
      <3> HIDE DEF e
      <3>2. Opens(socks[i], [FreeSlot EXCEPT !.state = "LISTENING", !.fd = f, !.connectionId = e.id])
        BY <1>0, <3>1, OpensSlot
      <3> QED BY <1>0, <3>1, <3>2 DEF SlotStep
    <2> QED BY <1>3, <2>1, <2>2 DEF CreateListener, GetFreeSocket
  <1>4. CASE AcceptedConnection
    <2>1. e.id \in Slots
      BY <1>2, <1>4 DEF AcceptedConnection, Treat
    <2>2. CASE socks' = CloseSocket(socks, e.id)
      <3> HIDE DEF e
      <3> QED BY <1>0, <2>1, <2>2, CloseSocketSlots
    <2>3. CASE /\ socks[e.id].state = "ACCEPTED"
               /\ socks' = [socks EXCEPT ![e.id].connectionId = e.aux,
                                         ![e.id].state = "CONNECTED", ![e.id].owner = e.owner]
      <3> HIDE DEF e
      <3>1. socks'[j] = socks[j] \/ (e.id = j /\ socks'[j] =
                [socks[j] EXCEPT !.connectionId = e.aux, !.state = "CONNECTED", !.owner = e.owner])
        BY <1>0, <2>1, <2>3
      <3> QED BY <1>2, <2>3, <3>1 DEF SlotStep, GoesOn
    <2> QED BY <1>4, <2>2, <2>3 DEF AcceptedConnection
  <1>5. CASE CreateConnection
    <2>0. ASSUME NEW i \in Slots, GetFreeSocket(i)
          PROVE  socks[i].state = "CLOSED"
      BY <2>0 DEF GetFreeSocket
    <2>1. CASE socks' = socks
      BY <2>1 DEF SlotStep
    <2>2. CASE \E i \in Slots, f \in Fds, rest \in 0..(MaxAddrs - 1) :
                 /\ GetFreeSocket(i)
                 /\ socks' = [socks EXCEPT ![i] =
                      [FreeSlot EXCEPT !.state = "CONNECTING", !.fd = f, !.connectionId = e.id,
                                       !.nextAddrs = rest, !.net = "syn", !.owner = e.owner]]
      <3>1. PICK i \in Slots, f \in Fds, rest \in 0..(MaxAddrs - 1) :
                 /\ GetFreeSocket(i)
                 /\ socks' = [socks EXCEPT ![i] =
                      [FreeSlot EXCEPT !.state = "CONNECTING", !.fd = f, !.connectionId = e.id,
                                       !.nextAddrs = rest, !.net = "syn", !.owner = e.owner]]
        BY <2>2
      <3> HIDE DEF e
      <3>2. Opens(socks[i], [FreeSlot EXCEPT !.state = "CONNECTING", !.fd = f, !.connectionId = e.id,
                                !.nextAddrs = rest, !.net = "syn", !.owner = e.owner])
        BY <1>0, <2>0, <3>1, OpensSlot
      <3> QED BY <1>0, <3>1, <3>2 DEF SlotStep
    <2> QED BY <1>5, <2>1, <2>2 DEF CreateConnection
  <1>6. CASE CloseConnection
    BY <1>0, <1>6, CloseSocketSlots DEF CloseConnection, CloseRequestValid, SlotStep
  <1>7. CASE CloseListener
    <2>1. e.id \in Slots
      BY <1>2, <1>7 DEF CloseListener, Treat
    <2> QED BY <1>0, <1>7, <2>1, CloseSocketSlots DEF CloseListener, SlotStep
  <1>8. CASE Write
    <2> DEFINE i == e.id
               s == Enqueued(socks[i], e.buf)
    <2>1. e.buf \in Msgs
      BY <1>2, <1>8 DEF Write, Treat
    <2>2. CASE socks' = socks
      BY <2>2 DEF SlotStep
    <2>3. CASE i \in Slots /\ FailAndClose(i)
      BY <2>3, FailSlots
    <2>4. CASE /\ i \in Slots /\ socks[i].state = "CONNECTED" /\ s.isNotWritable
               /\ socks' = [socks EXCEPT ![i] = s]
      <3>1. socks[i] \in Slot /\ s.isNotWritable = socks[i].isNotWritable
        BY <1>0, <2>4, SMTT(30) DEF Enqueued, Slot
      <3>2. Writes(socks[i], s)
        BY <2>1, <2>4, <3>1 DEF Writes
      <3> HIDE DEF e, s
      <3> QED BY <1>0, <2>4, <3>2 DEF SlotStep
    <2>5. CASE /\ i \in Slots /\ socks[i].state = "CONNECTED"
               /\ ~s.isNotWritable /\ ~WriteFails(s)
               /\ \E k \in 0..Len(s.writeQueue) :
                    socks' = [socks EXCEPT ![i] = TreatWriteBuffer(s, k)]
      <3>1. PICK k \in 0..Len(s.writeQueue) : socks' = [socks EXCEPT ![i] = TreatWriteBuffer(s, k)]
        BY <2>5
      <3>2. socks[i] \in Slot /\ s.isNotWritable = socks[i].isNotWritable
        BY <1>0, <2>5, SMTT(30) DEF Enqueued, Slot
      <3>3. Writes(socks[i], TreatWriteBuffer(s, k))
        BY <2>1, <2>5, <3>1, <3>2 DEF Writes
      <3> HIDE DEF e, s
      <3> QED BY <1>0, <2>5, <3>1, <3>3 DEF SlotStep
    <2> QED BY <1>8, <2>2, <2>3, <2>4, <2>5 DEF Write
  <1> QED BY <1>3, <1>4, <1>5, <1>6, <1>7, <1>8, SMTT(30) DEF TreatInputEvent

\* The walk through the array.
LEMMA ScanSlots ==
  ASSUME LayerOK, NEW i \in Slots, NEW j \in Slots,
         \/ SocketConnected(i) \/ SocketConnectionAttemptFailed(i)
         \/ SocketReadyToRead(i) \/ SocketReadyToWrite(i)
         \/ ListenerConnectionAttempt(i) \/ UnexpectedWriteEvent(i) \/ NoReadWriteEvent(i)
  PROVE  SlotStep(socks[j], socks'[j])
  <1>0. socks \in [Slots -> Slot] /\ socks[i] \in Slot /\ socks[j] \in Slot
    BY DEF LayerOK
  <1>1. CASE SocketConnected(i)
    <2>1. /\ socks[i].state = "CONNECTING"
          /\ socks' = [socks EXCEPT ![i] = [socks[i] EXCEPT !.state = "CONNECTED", !.nextAddrs = 0]]
      BY <1>0, <1>1 DEF SocketConnected
    <2> QED BY <1>0, <2>1 DEF SlotStep, GoesOn
  <1>2. CASE SocketConnectionAttemptFailed(i)
    <2>1. CASE FailAndClose(i)
      BY <2>1, FailSlots
    <2>2. CASE /\ socks[i].state = "CONNECTING"
               /\ \E rest \in 0..(MaxAddrs - 1), f \in Fds :
                    socks' = [socks EXCEPT ![i].nextAddrs = rest, ![i].fd = f, ![i].net = "syn"]
      <3>1. PICK rest \in 0..(MaxAddrs - 1), f \in Fds :
                    socks' = [socks EXCEPT ![i].nextAddrs = rest, ![i].fd = f, ![i].net = "syn"]
        BY <2>2
      <3>2. socks' = [socks EXCEPT ![i] =
                 [socks[i] EXCEPT !.nextAddrs = rest, !.fd = f, !.net = "syn"]]
        BY <1>0, <3>1
      <3> QED BY <1>0, <2>2, <3>2 DEF SlotStep, GoesOn
    <2> QED BY <1>2, <2>1, <2>2 DEF SocketConnectionAttemptFailed
  <1>3. CASE SocketReadyToRead(i)
    <2>1. CASE FailAndClose(i)
      BY <2>1, FailSlots
    <2>2. CASE socks' = socks
      BY <2>2 DEF SlotStep
    <2> QED BY <1>3, <2>1, <2>2 DEF SocketReadyToRead
  <1>4. CASE SocketReadyToWrite(i)
    <2> DEFINE s == [socks[i] EXCEPT !.isNotWritable = FALSE]
    <2>1. CASE socks' = socks
      BY <2>1 DEF SlotStep
    <2>2. /\ socks[i].state = "CONNECTED"
          /\ s.writeQueue = socks[i].writeQueue /\ WriteFails(s) = WriteFails(socks[i])
          /\ WriteFails(s) => socks[i].net = "down"
      BY <1>0, <1>4 DEF SocketReadyToWrite, WriteFails, Slot
    <2>3. CASE ~WriteFails(s) /\ \E k \in 0..Len(s.writeQueue) :
                 socks' = [socks EXCEPT ![i] = TreatWriteBuffer(s, k)]
      <3>1. PICK k \in 0..Len(s.writeQueue) : socks' = [socks EXCEPT ![i] = TreatWriteBuffer(s, k)]
        BY <2>3
      <3>2. Writes(socks[i], TreatWriteBuffer(s, k))
        BY <2>2, <2>3 DEF Writes
      <3> HIDE DEF s
      <3> QED BY <1>0, <3>1, <3>2 DEF SlotStep
    <2>4. CASE WriteFails(s) /\ \E n \in 1..Len(s.writeQueue) :
                 socks' = [socks EXCEPT ![i] = [s EXCEPT !.writeQueue = SubSeq(@, n + 1, Len(@))]]
      <3>1. PICK n \in 1..Len(s.writeQueue) :
                 socks' = [socks EXCEPT ![i] = [s EXCEPT !.writeQueue = SubSeq(@, n + 1, Len(@))]]
        BY <2>4
      <3>2. [s EXCEPT !.writeQueue = SubSeq(@, n + 1, Len(@))]
              = [socks[i] EXCEPT !.isNotWritable = FALSE, !.writeQueue = SubSeq(@, n + 1, Len(@))]
        BY <2>2
      <3>3. Writes(socks[i], [s EXCEPT !.writeQueue = SubSeq(@, n + 1, Len(@))])
        BY <2>2, <2>4, <3>2 DEF Writes
      <3> HIDE DEF s
      <3> QED BY <1>0, <3>1, <3>3 DEF SlotStep
    <2> QED BY <1>4, <2>1, <2>3, <2>4 DEF SocketReadyToWrite
  <1>5. CASE ListenerConnectionAttempt(i)
    <2>1. CASE socks' = socks
      BY <2>1 DEF SlotStep
    <2>2. ASSUME NEW n \in Slots, GetFreeSocket(n)
          PROVE  socks[n].state = "CLOSED"
      BY <2>2 DEF GetFreeSocket
    <2>3. CASE \E n \in Slots, f \in Fds :
                 /\ socks[n].state = "CLOSED" /\ socks[i].state = "LISTENING"
                 /\ socks' = [socks EXCEPT
                      ![n] = [FreeSlot EXCEPT !.state = "ACCEPTED", !.fd = f, !.net = "up",
                                !.isServerConnection = TRUE, !.listenerSocketIdx = i],
                      ![i].listenerConnections = @ + 1]
      <3>1. PICK n \in Slots, f \in Fds :
                 /\ socks[n].state = "CLOSED" /\ socks[i].state = "LISTENING"
                 /\ socks' = [socks EXCEPT
                      ![n] = [FreeSlot EXCEPT !.state = "ACCEPTED", !.fd = f, !.net = "up",
                                !.isServerConnection = TRUE, !.listenerSocketIdx = i],
                      ![i].listenerConnections = @ + 1]
        BY <2>3
      <3> DEFINE A == [FreeSlot EXCEPT !.state = "ACCEPTED", !.fd = f, !.net = "up",
                         !.isServerConnection = TRUE, !.listenerSocketIdx = i]
                 B == [socks[i] EXCEPT !.listenerConnections = @ + 1]
      <3>2. Opens(socks[n], A) /\ n # i
        BY <1>0, <3>1, OpensSlot
      <3>3. socks'[i] = B /\ socks'[n] = A /\ (j # i /\ j # n => socks'[j] = socks[j])
        BY <1>0, <3>1, <3>2
      <3>4. Counts(socks[i], B)
        BY <3>1 DEF Counts
      <3> HIDE DEF A, B
      <3> QED BY <3>2, <3>3, <3>4 DEF SlotStep
    <2> QED BY <1>5, <2>1, <2>2, <2>3 DEF ListenerConnectionAttempt
  <1>6. CASE UnexpectedWriteEvent(i)
    BY <1>6, FailSlots DEF UnexpectedWriteEvent
  <1>7. CASE NoReadWriteEvent(i)
    BY <1>7 DEF NoReadWriteEvent, SlotStep
  <1> QED BY <1>1, <1>2, <1>3, <1>4, <1>5, <1>6, <1>7

\* Every step does to each slot what SlotStep allows.
LEMMA NextSlots ==
  ASSUME TypeOK, [Next]_socketsVars, NEW j \in Slots
  PROVE  SlotStep(socks[j], socks'[j])
  <1>0. LayerOK /\ socks \in [Slots -> Slot]
    BY LayerTyped DEF TypeOK
  <1>1. CASE socks' = socks
    BY <1>1 DEF SlotStep
  <1>2. CASE TreatInputEvent
    BY <1>0, <1>2, TreatInputEventSlots
  <1>3. CASE SocketException
    BY <1>0, <1>3, FailSlots DEF SocketException, TypeOK
  <1>4. ASSUME NEW i \in Slots,
               \/ SocketConnected(i) \/ SocketConnectionAttemptFailed(i)
               \/ SocketReadyToRead(i) \/ SocketReadyToWrite(i)
               \/ ListenerConnectionAttempt(i) \/ UnexpectedWriteEvent(i) \/ NoReadWriteEvent(i)
        PROVE  SlotStep(socks[j], socks'[j])
    BY <1>0, <1>4, ScanSlots
  <1>5. CASE Network
    <2>1. PICK i \in Slots : NetworkUp(i) \/ NetworkDown(i)
      BY <1>5 DEF Network
    <2>2. \/ socks[i].net = "syn" /\ socks' = [socks EXCEPT ![i] = [socks[i] EXCEPT !.net = "up"]]
          \/ /\ socks[i].net \in {"syn", "up"}
             /\ socks' = [socks EXCEPT ![i] = [socks[i] EXCEPT !.net = "down"]]
      BY <1>0, <2>1 DEF NetworkUp, NetworkDown
    <2> QED BY <1>0, <2>2 DEF SlotStep, GoesOn
  <1>6. CASE Select \/ InputEventsTreated \/ ScanEnd \/ InterruptForInputEvent \/ Post \/ Take
    BY <1>1, <1>6 DEF Select, InputEventsTreated, ScanEnd, InterruptForInputEvent, Post, Take
  <1>7. CASE UNCHANGED socketsVars
    BY <1>1, <1>7 DEF socketsVars
  <1> QED BY <1>2, <1>3, <1>4, <1>5, <1>6, <1>7 DEF Next, SocketsThread

-----------------------------------------------------------------------------
(* The inductive invariant, one slot at a time.                            *)

\* What was given has been written or waits in the queue (while the peer is
\* there), and what was written is a beginning of what was given.
Intact(s) ==
  /\ s.net # "down" => s.given = s.wire \o s.writeQueue
  /\ Len(s.wire) <= Len(s.given)
  /\ \A n \in 1..Len(s.wire) : s.wire[n] = s.given[n]

\* A slot: its bytes; select() watches it for writing exactly when it has
\* some to write; one that is not CONNECTED has none (a CONNECTING slot gets a
\* new peer, an ACCEPTED one an owner: nothing may be left from before); the
\* count of connections is that of a listener; a free slot is clean.
SlotSound(s) ==
  /\ Intact(s)
  /\ s.state = "CONNECTED" /\ s.net # "down" => (s.isNotWritable <=> s.writeQueue # <<>>)
  /\ s.state # "CONNECTED" =>
       s.given = <<>> /\ s.wire = <<>> /\ s.writeQueue = <<>> /\ s.isNotWritable = FALSE
  /\ s.state # "LISTENING" => s.listenerConnections = 0
  /\ s.state = "CLOSED" => s = FreeSlot

SlotsSound == \A i \in Slots : SlotSound(socks[i])

\* Writing k units moves them from the queue to the wire.
LEMMA WriteSound ==
  ASSUME NEW s \in Slot, NEW k \in 0..Len(s.writeQueue), Intact(s),
         s.state = "CONNECTED", ~WriteFails(s), s.listenerConnections = 0
  PROVE  SlotSound(TreatWriteBuffer(s, k))
  <1> DEFINE t == TreatWriteBuffer(s, k)
             q == s.writeQueue
             w == s.wire
             a == SubSeq(q, 1, k)
             b == SubSeq(q, k + 1, Len(q))
  <1>1. q \in Seq(Unit) /\ s.wire \in Seq(Unit) /\ s.given \in Seq(Unit) /\ Len(q) \in Nat
    BY DEF Slot
  <1>2. /\ t.wire = s.wire \o a /\ t.writeQueue = b
        /\ t.isNotWritable = (k < Len(q))
        /\ t.given = s.given /\ t.net = s.net /\ t.state = "CONNECTED"
        /\ t.listenerConnections = 0
    BY DEF TreatWriteBuffer, Slot
  <1>3. /\ a \in Seq(Unit) /\ b \in Seq(Unit) /\ Len(b) = Len(q) - k /\ Len(a) = k
        /\ (w \o a) \o b = w \o q
    <2>1. q \in Seq(Unit) /\ w \in Seq(Unit) /\ k \in 0..Len(q)
      BY <1>1
    <2> HIDE DEF q, w
    <2>2. (w \o a) \o b = w \o q
      BY <2>1, MoveSeq
    <2> QED BY <2>1, <2>2, SplitSeq, ZenonT(60)
  <1> HIDE DEF t, a, b, q
  <1>5. (t.writeQueue # <<>>) <=> (k < Len(q))
    BY <1>1, <1>2, <1>3, EmptySeq DEF q
  <1>6. CASE s.net # "down"
    <2>2. s.given = s.wire \o q
      BY <1>6 DEF Intact, q
    <2>3. s.given = t.wire \o t.writeQueue
      BY <1>2, <1>3, <2>2
    <2>4. t.wire \in Seq(Unit) /\ t.writeQueue \in Seq(Unit)
      BY <1>1, <1>2, <1>3, ConcatProperties
    <2>5. Len(t.wire) <= Len(t.given) /\ \A n \in 1..Len(t.wire) : t.wire[n] = t.given[n]
      <3>1. Len(t.wire) <= Len(t.wire \o t.writeQueue)
            /\ \A n \in 1..Len(t.wire) : (t.wire \o t.writeQueue)[n] = t.wire[n]
        BY <2>4, ConcatBegins
      <3> QED BY <1>2, <2>3, <3>1
    <2>6. Intact(t)
      BY <1>2, <2>3, <2>5 DEF Intact
    <2> QED BY <1>2, <1>5, <2>6 DEF SlotSound, t
  <1>7. CASE s.net = "down"
    <2>1. q = <<>> /\ k = 0
      BY <1>1, <1>7 DEF WriteFails, q
    <2>2. a = <<>>
      BY <1>3, <2>1, EmptySeq
    <2>3. t.wire = s.wire
      BY <1>1, <1>2, <2>2, ConcatEmptySeq
    <2>4. Intact(t)
      BY <1>2, <1>7, <2>3 DEF Intact
    <2> QED BY <1>2, <1>5, <1>7, <2>4 DEF SlotSound, t
  <1> QED BY <1>6, <1>7 DEF t

\* Queueing a buffer keeps what was given and what is to be written together.
LEMMA EnqueueIntact ==
  ASSUME NEW s \in Slot, NEW m \in Msgs, Intact(s)
  PROVE  /\ Intact(Enqueued(s, m)) /\ Enqueued(s, m) \in Slot
         /\ Enqueued(s, m).writeQueue # <<>>
         /\ Enqueued(s, m).state = s.state /\ Enqueued(s, m).net = s.net
         /\ Enqueued(s, m).isNotWritable = s.isNotWritable
         /\ Enqueued(s, m).listenerConnections = s.listenerConnections
  <1> DEFINE t == Enqueued(s, m)
  <1>1. /\ t \in Slot /\ t.writeQueue = s.writeQueue \o Units(m)
        /\ Units(m) \in Seq(Unit) /\ Len(Units(m)) = MsgLen
    BY EnqueuedType
  <1>2. s.writeQueue \in Seq(Unit) /\ s.wire \in Seq(Unit) /\ s.given \in Seq(Unit)
    BY DEF Slot
  <1>3. /\ t.given = s.given \o Units(m) /\ t.wire = s.wire /\ t.net = s.net
        /\ t.state = s.state /\ t.isNotWritable = s.isNotWritable
        /\ t.listenerConnections = s.listenerConnections
    BY DEF Enqueued, Slot
  <1> HIDE DEF t
  <1>4. t.writeQueue # <<>>
    BY <1>1, <1>2, SocketsAssumption
  <1>5. s.net # "down" => t.given = t.wire \o t.writeQueue
    <2>1. (s.wire \o s.writeQueue) \o Units(m) = s.wire \o (s.writeQueue \o Units(m))
      <3> DEFINE w == s.wire
                 q == s.writeQueue
                 u == Units(m)
      <3>1. w \in Seq(Unit) /\ q \in Seq(Unit) /\ u \in Seq(Unit)
        BY <1>1, <1>2
      <3> HIDE DEF w, q, u
      <3>2. (w \o q) \o u = w \o (q \o u)
        BY <3>1
      <3> QED BY <3>2 DEF w, q, u
    <2> QED BY <1>1, <1>3, <2>1 DEF Intact
  <1>6. Len(t.wire) <= Len(t.given) /\ \A n \in 1..Len(t.wire) : t.wire[n] = t.given[n]
    <2>1. Len(s.wire) <= Len(s.given) /\ \A n \in 1..Len(s.wire) : s.wire[n] = s.given[n]
      BY DEF Intact
    <2>2. /\ Len(s.wire) <= Len(s.given \o Units(m))
          /\ \A n \in 1..Len(s.wire) : s.wire[n] = (s.given \o Units(m))[n]
      BY <1>1, <1>2, <2>1, BeginsExtended
    <2> QED BY <1>3, <2>2
  <1> QED BY <1>1, <1>3, <1>4, <1>5, <1>6 DEF Intact, t

\* What a step does to a slot keeps it sound.
LEMMA SlotStepSound ==
  ASSUME NEW s \in Slot, NEW t, SlotSound(s), SlotStep(s, t)
  PROVE  SlotSound(t)
  <1>0. /\ s.writeQueue \in Seq(Unit) /\ s.wire \in Seq(Unit) /\ s.given \in Seq(Unit)
        /\ Intact(s)
    BY DEF Slot, SlotSound
  <1>1. CASE t = s
    BY <1>1
  <1>2. CASE t = FreeSlot
    BY <1>2 DEF SlotSound, Intact, FreeSlot
  <1>3. CASE Opens(s, t)
    BY <1>3 DEF SlotSound, Intact, Opens
  <1>4. CASE GoesOn(s, t)
    <2>1. /\ t.given = s.given /\ t.wire = s.wire /\ t.writeQueue = s.writeQueue
          /\ t.isNotWritable = s.isNotWritable
          /\ t.listenerConnections = s.listenerConnections
      BY <1>4 DEF GoesOn, Slot
    <2>2. /\ s.state # "CLOSED" /\ s.state # "LISTENING" => t.state \notin {"CLOSED", "LISTENING"}
          /\ \/ t.state = s.state /\ (t.net # "down" => s.net # "down")
             \/ t.state = "CONNECTED" /\ s.state \in {"ACCEPTED", "CONNECTING"}
             \/ t.state = s.state /\ s.state = "CONNECTING"
      BY <1>4 DEF GoesOn, Slot
    <2>3. Intact(t)
      BY <2>1, <2>2, ConcatEmptySeq, EmptySeq DEF SlotSound, Intact
    <2>4. t.state = "CONNECTED" /\ t.net # "down" => (t.isNotWritable <=> t.writeQueue # <<>>)
      BY <2>1, <2>2 DEF SlotSound
    <2>5. /\ t.state # "CONNECTED" => s.state # "CONNECTED"
          /\ t.state = "LISTENING" \/ s.state # "LISTENING"
          /\ t.state # "CLOSED"
      <3>1. s.net # "none" \/ s.state \in {"ACCEPTED", "CONNECTING"}
        BY <1>4 DEF GoesOn
      <3>2. s.state # "CLOSED"
        BY <3>1 DEF SlotSound, FreeSlot
      <3> QED BY <2>2, <3>2
    <2> QED BY <2>1, <2>3, <2>4, <2>5 DEF SlotSound
  <1>5. CASE Writes(s, t)
    <2>0. s.state = "CONNECTED" /\ s.listenerConnections = 0
      BY <1>5 DEF Writes, SlotSound
    <2>1. CASE \E m \in Msgs : s.isNotWritable /\ t = Enqueued(s, m)
      BY <1>0, <2>0, <2>1, EnqueueIntact DEF SlotSound
    <2>2. CASE \E m \in Msgs : \E k \in 0..Len(Enqueued(s, m).writeQueue) :
                 ~WriteFails(Enqueued(s, m)) /\ t = TreatWriteBuffer(Enqueued(s, m), k)
      BY <1>0, <2>0, <2>2, EnqueueIntact, WriteSound
    <2>3. CASE \E k \in 0..Len(s.writeQueue) :
                 ~WriteFails(s) /\ t = TreatWriteBuffer([s EXCEPT !.isNotWritable = FALSE], k)
      <3> DEFINE u == [s EXCEPT !.isNotWritable = FALSE]
      <3>1. /\ u \in Slot /\ u.writeQueue = s.writeQueue /\ u.state = s.state
            /\ u.listenerConnections = s.listenerConnections
            /\ Intact(u) /\ WriteFails(u) = WriteFails(s)
        BY <1>0 DEF Slot, Intact, WriteFails
      <3> HIDE DEF u
      <3>2. PICK k \in 0..Len(u.writeQueue) : ~WriteFails(u) /\ t = TreatWriteBuffer(u, k)
        BY <2>3, <3>1 DEF u
      <3> QED BY <2>0, <3>1, <3>2, WriteSound
    <2>4. CASE s.net = "down" /\ \E n \in 1..Len(s.writeQueue) :
                 t = [s EXCEPT !.isNotWritable = FALSE, !.writeQueue = SubSeq(@, n + 1, Len(@))]
      BY <1>0, <2>0, <2>4 DEF SlotSound, Intact, Slot
    <2> QED BY <1>5, <2>1, <2>2, <2>3, <2>4 DEF Writes
  <1>6. CASE Counts(s, t)
    BY <1>6 DEF SlotSound, Intact, Counts, Slot
  <1> QED BY <1>1, <1>2, <1>3, <1>4, <1>5, <1>6 DEF SlotStep

\* Every slot is sound at all times.
LEMMA SlotsSoundAlways == Spec => []SlotsSound
  <1>1. Init => SlotsSound
    <2>1. SlotSound(FreeSlot)
      BY ConcatEmptySeq, EmptySeq DEF SlotSound, Intact, FreeSlot
    <2> QED BY <2>1 DEF Init, SlotsSound
  <1>2. TypeOK /\ SlotsSound /\ [Next]_socketsVars => SlotsSound'
    <2> SUFFICES ASSUME TypeOK, SlotsSound, [Next]_socketsVars, NEW i \in Slots
                 PROVE  SlotSound(socks[i])'
      BY DEF SlotsSound
    <2>1. socks[i] \in Slot /\ SlotSound(socks[i])
      BY DEF TypeOK, SlotsSound
    <2>2. SlotStep(socks[i], socks'[i])
      BY NextSlots
    <2> QED BY <2>1, <2>2, SlotStepSound
  <1> QED BY <1>1, <1>2, Typing, PTL DEF Spec

\* The bytes of a connection go out in the order they were given, none lost,
\* none twice (StreamIntact), for every message size and however writes are
\* split between SOCKET_WRITE and the walk.
THEOREM StreamKept == Spec => []StreamIntact
  <1>1. SlotsSound => StreamIntact
    BY DEF SlotsSound, SlotSound, Intact, StreamIntact
  <1> QED BY <1>1, SlotsSoundAlways, PTL

\* A live connection has bytes queued exactly when select() watches it for
\* writing (PendingWriteWatched): isNotWritable and the queue never disagree.
THEOREM PendingWatched == Spec => []PendingWriteWatched
  <1>1. SlotsSound => PendingWriteWatched
    BY DEF SlotsSound, SlotSound, PendingWriteWatched
  <1> QED BY <1>1, SlotsSoundAlways, PTL

-----------------------------------------------------------------------------
(* Identity.                                                               *)

\* What a step does to a slot that stays open keeps its identity.
LEMMA SlotStepIdentity ==
  ASSUME NEW s \in Slot, NEW t, SlotSound(s), SlotStep(s, t),
         s.state # "CLOSED", t.state # "CLOSED"
  PROVE  /\ s.connectionId = t.connectionId \/ s.state = "ACCEPTED"
         /\ s.fd = t.fd \/ s.state = "CONNECTING"
         /\ Len(s.given) <= Len(t.given)
  <1>0. s.given \in Seq(Unit) /\ Len(s.given) \in Nat
    BY DEF Slot
  <1>1. CASE t = s
    BY <1>0, <1>1
  <1>2. CASE t = FreeSlot \/ Opens(s, t)
    BY <1>2 DEF FreeSlot, Opens
  <1>3. CASE GoesOn(s, t)
    <2>1. t.given = s.given
      BY <1>3 DEF GoesOn, Slot
    <2>2. s.connectionId = t.connectionId \/ s.state = "ACCEPTED"
      BY <1>3 DEF GoesOn, Slot
    <2>3. s.fd = t.fd \/ s.state = "CONNECTING"
      BY <1>3 DEF GoesOn, Slot
    <2> QED BY <1>0, <2>1, <2>2, <2>3
  <1>4. CASE Writes(s, t)
    <2>1. ASSUME NEW m \in Msgs
          PROVE  /\ Enqueued(s, m) \in Slot
                 /\ Enqueued(s, m).connectionId = s.connectionId /\ Enqueued(s, m).fd = s.fd
                 /\ Len(s.given) <= Len(Enqueued(s, m).given)
      <3>1. Units(m) \in Seq(Unit) /\ Enqueued(s, m) \in Slot
        BY EnqueuedType
      <3>2. /\ Enqueued(s, m).given = s.given \o Units(m)
            /\ Enqueued(s, m).connectionId = s.connectionId /\ Enqueued(s, m).fd = s.fd
        BY DEF Enqueued, Slot
      <3> QED BY <1>0, <3>1, <3>2
    <2>2. ASSUME NEW u \in Slot, NEW k
          PROVE  /\ TreatWriteBuffer(u, k).connectionId = u.connectionId
                 /\ TreatWriteBuffer(u, k).fd = u.fd /\ TreatWriteBuffer(u, k).given = u.given
      BY DEF TreatWriteBuffer, Slot
    <2>3. CASE \E m \in Msgs : t = Enqueued(s, m)
      BY <2>1, <2>3
    <2>4. CASE \E m \in Msgs : \E k \in 0..Len(Enqueued(s, m).writeQueue) :
                 t = TreatWriteBuffer(Enqueued(s, m), k)
      BY <2>1, <2>2, <2>4
    <2>5. CASE \E k \in 0..Len(s.writeQueue) :
                 t = TreatWriteBuffer([s EXCEPT !.isNotWritable = FALSE], k)
      <3> DEFINE u == [s EXCEPT !.isNotWritable = FALSE]
      <3>1. u \in Slot /\ u.given = s.given /\ u.fd = s.fd /\ u.connectionId = s.connectionId
        BY DEF Slot
      <3>2. PICK k : t = TreatWriteBuffer(u, k)
        BY <2>5
      <3> HIDE DEF u
      <3> QED BY <1>0, <2>2, <3>1, <3>2
    <2>6. CASE \E n \in 1..Len(s.writeQueue) :
                 t = [s EXCEPT !.isNotWritable = FALSE, !.writeQueue = SubSeq(@, n + 1, Len(@))]
      BY <1>0, <2>6 DEF Slot
    <2> QED BY <1>4, <2>3, <2>4, <2>5, <2>6 DEF Writes
  <1>5. CASE Counts(s, t)
    BY <1>0, <1>5 DEF Counts, Slot
  <1> QED BY <1>1, <1>2, <1>3, <1>4, <1>5 DEF SlotStep

\* A connection never changes its peer or its upper connection (IdentityKept):
\* a slot or a descriptor that is used again was closed first.
THEOREM IdentityAlways == Spec => IdentityKept
  <1> DEFINE Kept ==
        \A i \in Slots :
          socks[i].state # "CLOSED" /\ socks'[i].state # "CLOSED" =>
            /\ socks[i].connectionId = socks'[i].connectionId \/ socks[i].state = "ACCEPTED"
            /\ socks[i].fd = socks'[i].fd \/ socks[i].state = "CONNECTING"
            /\ Len(socks[i].given) <= Len(socks'[i].given)
  <1>1. TypeOK /\ SlotsSound /\ [Next]_socketsVars => [Kept]_socketsVars
    <2> SUFFICES ASSUME TypeOK, SlotsSound, [Next]_socketsVars PROVE Kept
      OBVIOUS
    <2>1. ASSUME NEW i \in Slots
          PROVE  SlotStep(socks[i], socks'[i]) /\ socks[i] \in Slot /\ SlotSound(socks[i])
      BY NextSlots DEF TypeOK, SlotsSound
    <2> QED BY <2>1, SlotStepIdentity
  <1> QED BY <1>1, Typing, SlotsSoundAlways, PTL DEF Spec, IdentityKept

-----------------------------------------------------------------------------
(* The connections a listener counts.                                      *)

\* The connections that were accepted by the listener of slot l.
AcceptedBy(S, l) == {i \in Slots : S[i].isServerConnection /\ S[i].listenerSocketIdx = l}

\* No accepted connection goes away and no count grows.
PlacesKept(S, T) ==
  \A i \in Slots :
    /\ S[i].isServerConnection =>
         T[i].isServerConnection /\ T[i].listenerSocketIdx = S[i].listenerSocketIdx
    /\ T[i].listenerConnections <= S[i].listenerConnections

\* A connection takes the free slot n and is counted by the listener l.
PlaceTaken(S, T, l, n) ==
  /\ n # l /\ S[n] = FreeSlot
  /\ T[n].isServerConnection /\ T[n].listenerSocketIdx = l /\ T[n].listenerConnections = 0
  /\ T[l] = [S[l] EXCEPT !.listenerConnections = @ + 1]
  /\ \A j \in Slots : j # n /\ j # l => T[j] = S[j]

\* One slot is replaced.
LEMMA UpdateKeepsPlaces ==
  ASSUME NEW S \in [Slots -> Slot], NEW i \in Slots, NEW t,
         S[i].isServerConnection =>
           t.isServerConnection /\ t.listenerSocketIdx = S[i].listenerSocketIdx,
         t.listenerConnections <= S[i].listenerConnections
  PROVE  PlacesKept(S, [S EXCEPT ![i] = t])
  <1>1. ASSUME NEW j \in Slots
        PROVE  S[j].listenerConnections \in Nat
    BY DEF Slot
  <1> QED BY <1>1 DEF PlacesKept

\* Every step keeps the places, closes a slot or takes a place.
LEMMA NextPlaces ==
  ASSUME TypeOK, SlotsSound, [Next]_socketsVars
  PROVE  \/ PlacesKept(socks, socks')
         \/ \E i \in Slots : socks' = CloseSocket(socks, i)
         \/ \E l, n \in Slots : PlaceTaken(socks, socks', l, n)
  <1> DEFINE e == Head(inQ)
  <1>0. /\ socks \in [Slots -> Slot]
        /\ \A i \in Slots : socks[i] \in Slot /\ SlotSound(socks[i])
        /\ \A i \in Slots : socks[i].listenerConnections \in Nat
    BY DEF TypeOK, SlotsSound, Slot
  <1>1. ASSUME socks' = socks
        PROVE  PlacesKept(socks, socks')
    BY <1>0, <1>1 DEF PlacesKept
  <1>2. ASSUME NEW i \in Slots, FailAndClose(i) \/ IntSocketClose(i)
        PROVE  \E n \in Slots : socks' = CloseSocket(socks, n)
    BY <1>2 DEF FailAndClose, IntSocketClose
  <1>3. ASSUME NEW i \in Slots, socks[i].state = "CLOSED"
        PROVE  socks[i] = FreeSlot
    BY <1>0, <1>3 DEF SlotSound
  <1>4. ASSUME NEW i \in Slots, socks[i].state = "CLOSED", NEW t,
               t.listenerConnections = 0, socks' = [socks EXCEPT ![i] = t]
        PROVE  PlacesKept(socks, socks')
    <2>1. socks[i].isServerConnection = FALSE /\ socks[i].listenerConnections = 0
      BY <1>3, <1>4 DEF FreeSlot
    <2>2. t.listenerConnections <= socks[i].listenerConnections
      BY <1>4, <2>1
    <2>3. PlacesKept(socks, [socks EXCEPT ![i] = t])
      BY <1>0, <2>1, <2>2, UpdateKeepsPlaces
    <2> QED BY <1>4, <2>3
  <1>5. ASSUME NEW i \in Slots, NEW t, socks' = [socks EXCEPT ![i] = t],
               t.isServerConnection = socks[i].isServerConnection,
               t.listenerSocketIdx = socks[i].listenerSocketIdx,
               t.listenerConnections = socks[i].listenerConnections
        PROVE  PlacesKept(socks, socks')
    <2>1. socks[i].listenerConnections \in Nat
      BY <1>0
    <2>2. t.listenerConnections <= socks[i].listenerConnections
      BY <1>5, <2>1
    <2>3. PlacesKept(socks, [socks EXCEPT ![i] = t])
      BY <1>0, <1>5, <2>2, UpdateKeepsPlaces
    <2> QED BY <1>5, <2>3
  <1>6. CASE TreatInputEvent
    <2>1. e \in InputEvents
      BY <1>6, LayerTyped, TreatType DEF TreatInputEvent, CreateListener, AcceptedConnection, CreateConnection,
                       CloseConnection, CloseListener, Write
    <2>2. e.type \in {"ACCEPTED_CONNECTION", "CLOSE_LISTENER"} => e.id \in Slots
      BY <2>1, InputEventFields
    <2>3. CASE CreateListener
      <3>1. CASE \E i \in Slots, f \in Fds :
                   /\ GetFreeSocket(i)
                   /\ socks' = [socks EXCEPT ![i] =
                        [FreeSlot EXCEPT !.state = "LISTENING", !.fd = f, !.connectionId = e.id]]
        <4>1. PICK i \in Slots, f \in Fds :
                   /\ GetFreeSocket(i)
                   /\ socks' = [socks EXCEPT ![i] =
                        [FreeSlot EXCEPT !.state = "LISTENING", !.fd = f, !.connectionId = e.id]]
          BY <3>1
        <4> DEFINE t == [FreeSlot EXCEPT !.state = "LISTENING", !.fd = f, !.connectionId = e.id]
        <4>2. socks[i].state = "CLOSED" /\ t.listenerConnections = 0
          BY <4>1 DEF GetFreeSocket, FreeSlot
        <4> HIDE DEF t
        <4> QED BY <1>4, <4>1, <4>2 DEF t
      <3> QED BY <1>1, <2>3, <3>1 DEF CreateListener
    <2>4. CASE AcceptedConnection
      <3>1. e.id \in Slots
        BY <2>2, <2>4 DEF AcceptedConnection, Treat
      <3>2. CASE socks' = CloseSocket(socks, e.id)
        BY <3>1, <3>2
      <3>3. CASE socks' = [socks EXCEPT ![e.id].connectionId = e.aux,
                                        ![e.id].state = "CONNECTED", ![e.id].owner = e.owner]
        <4> HIDE DEF e
        <4> DEFINE t == [socks[e.id] EXCEPT !.connectionId = e.aux,
                                  !.state = "CONNECTED", !.owner = e.owner]
        <4>1. socks' = [socks EXCEPT ![e.id] = t]
          BY <1>0, <3>1, <3>3
        <4>2. /\ t.isServerConnection = socks[e.id].isServerConnection
              /\ t.listenerSocketIdx = socks[e.id].listenerSocketIdx
              /\ t.listenerConnections = socks[e.id].listenerConnections
          BY <1>0, <3>1 DEF Slot
        <4> HIDE DEF t
        <4> QED BY <1>5, <3>1, <4>1, <4>2
      <3> QED BY <2>4, <3>2, <3>3 DEF AcceptedConnection
    <2>5. CASE CreateConnection
      <3>1. CASE \E i \in Slots, f \in Fds, rest \in 0..(MaxAddrs - 1) :
                   /\ GetFreeSocket(i)
                   /\ socks' = [socks EXCEPT ![i] =
                        [FreeSlot EXCEPT !.state = "CONNECTING", !.fd = f, !.connectionId = e.id,
                                         !.nextAddrs = rest, !.net = "syn", !.owner = e.owner]]
        <4>1. PICK i \in Slots, f \in Fds, rest \in 0..(MaxAddrs - 1) :
                   /\ GetFreeSocket(i)
                   /\ socks' = [socks EXCEPT ![i] =
                        [FreeSlot EXCEPT !.state = "CONNECTING", !.fd = f, !.connectionId = e.id,
                                         !.nextAddrs = rest, !.net = "syn", !.owner = e.owner]]
          BY <3>1
        <4> DEFINE t == [FreeSlot EXCEPT !.state = "CONNECTING", !.fd = f, !.connectionId = e.id,
                                         !.nextAddrs = rest, !.net = "syn", !.owner = e.owner]
        <4>2. socks[i].state = "CLOSED" /\ t.listenerConnections = 0
          BY <4>1 DEF GetFreeSocket, FreeSlot
        <4> HIDE DEF t
        <4> QED BY <1>4, <4>1, <4>2 DEF t
      <3> QED BY <1>1, <2>5, <3>1 DEF CreateConnection
    <2>6. CASE CloseConnection
      BY <1>1, <2>6 DEF CloseConnection, CloseRequestValid
    <2>7. CASE CloseListener
      BY <1>1, <2>2, <2>7 DEF CloseListener, Treat
    <2>8. CASE Write
      <3> DEFINE s == Enqueued(socks[e.id], e.buf)
      <3>1. CASE e.id \in Slots /\ FailAndClose(e.id)
        BY <1>2, <3>1
      <3>2. ASSUME e.id \in Slots
            PROVE  /\ s.isServerConnection = socks[e.id].isServerConnection
                   /\ s.listenerSocketIdx = socks[e.id].listenerSocketIdx
                   /\ s.listenerConnections = socks[e.id].listenerConnections
        BY <1>0, <3>2 DEF Slot, Enqueued
      <3>3. CASE e.id \in Slots /\ socks' = [socks EXCEPT ![e.id] = s]
        <4> HIDE DEF s
        <4> QED BY <1>5, <3>2, <3>3
      <3>4. CASE e.id \in Slots /\ \E k \in 0..Len(s.writeQueue) :
                   socks' = [socks EXCEPT ![e.id] = TreatWriteBuffer(s, k)]
        <4>1. PICK k \in 0..Len(s.writeQueue) :
                   socks' = [socks EXCEPT ![e.id] = TreatWriteBuffer(s, k)]
          BY <3>4
        <4> DEFINE t == TreatWriteBuffer(s, k)
        <4>2. /\ t.isServerConnection = s.isServerConnection
              /\ t.listenerSocketIdx = s.listenerSocketIdx
              /\ t.listenerConnections = s.listenerConnections
          BY <1>0, <3>4 DEF TreatWriteBuffer, Enqueued, Slot
        <4> HIDE DEF t, s
        <4> QED BY <1>5, <3>2, <3>4, <4>1, <4>2 DEF t
      <3> QED BY <1>1, <2>8, <3>1, <3>3, <3>4 DEF Write
    <2> QED BY <1>6, <2>3, <2>4, <2>5, <2>6, <2>7, <2>8 DEF TreatInputEvent
  <1>7. CASE SocketException
    BY <1>2, <1>7 DEF SocketException, TypeOK
  <1>8. ASSUME NEW i \in Slots, SocketConnected(i) \/ SocketConnectionAttemptFailed(i)
        PROVE  PlacesKept(socks, socks') \/ \E n \in Slots : socks' = CloseSocket(socks, n)
    <2>1. CASE FailAndClose(i)
      BY <1>2, <2>1
    <2>2. CASE \E t : /\ socks' = [socks EXCEPT ![i] = t]
                      /\ t.isServerConnection = socks[i].isServerConnection
                      /\ t.listenerSocketIdx = socks[i].listenerSocketIdx
                      /\ t.listenerConnections = socks[i].listenerConnections
      BY <1>5, <2>2
    <2>3. CASE socks' = [socks EXCEPT ![i].state = "CONNECTED", ![i].nextAddrs = 0]
      <3> DEFINE t == [socks[i] EXCEPT !.state = "CONNECTED", !.nextAddrs = 0]
      <3>1. /\ socks' = [socks EXCEPT ![i] = t]
            /\ t.isServerConnection = socks[i].isServerConnection
            /\ t.listenerSocketIdx = socks[i].listenerSocketIdx
            /\ t.listenerConnections = socks[i].listenerConnections
        BY <1>0, <2>3 DEF Slot
      <3> HIDE DEF t
      <3> QED BY <2>2, <3>1
    <2>4. CASE \E rest \in 0..(MaxAddrs - 1), f \in Fds :
                 socks' = [socks EXCEPT ![i].nextAddrs = rest, ![i].fd = f, ![i].net = "syn"]
      <3>1. PICK rest \in 0..(MaxAddrs - 1), f \in Fds :
                 socks' = [socks EXCEPT ![i].nextAddrs = rest, ![i].fd = f, ![i].net = "syn"]
        BY <2>4
      <3> DEFINE t == [socks[i] EXCEPT !.nextAddrs = rest, !.fd = f, !.net = "syn"]
      <3>2. /\ socks' = [socks EXCEPT ![i] = t]
            /\ t.isServerConnection = socks[i].isServerConnection
            /\ t.listenerSocketIdx = socks[i].listenerSocketIdx
            /\ t.listenerConnections = socks[i].listenerConnections
        BY <1>0, <3>1 DEF Slot
      <3> HIDE DEF t
      <3> QED BY <2>2, <3>2
    <2> QED BY <1>8, <2>1, <2>3, <2>4 DEF SocketConnected, SocketConnectionAttemptFailed
  <1>9. ASSUME NEW i \in Slots, \/ SocketReadyToRead(i) \/ UnexpectedWriteEvent(i)
                                 \/ NoReadWriteEvent(i)
        PROVE  PlacesKept(socks, socks') \/ \E n \in Slots : socks' = CloseSocket(socks, n)
    BY <1>1, <1>2, <1>9 DEF SocketReadyToRead, UnexpectedWriteEvent, NoReadWriteEvent
  <1>10. ASSUME NEW i \in Slots, SocketReadyToWrite(i)
         PROVE  PlacesKept(socks, socks')
    <2> DEFINE s == [socks[i] EXCEPT !.isNotWritable = FALSE]
    <2>1. CASE \E k \in 0..Len(s.writeQueue) :
                 socks' = [socks EXCEPT ![i] = TreatWriteBuffer(s, k)]
      <3>1. PICK k \in 0..Len(s.writeQueue) : socks' = [socks EXCEPT ![i] = TreatWriteBuffer(s, k)]
        BY <2>1
      <3> DEFINE t == TreatWriteBuffer(s, k)
      <3>2. /\ t.isServerConnection = socks[i].isServerConnection
            /\ t.listenerSocketIdx = socks[i].listenerSocketIdx
            /\ t.listenerConnections = socks[i].listenerConnections
        BY <1>0 DEF TreatWriteBuffer, Slot
      <3> HIDE DEF t
      <3> QED BY <1>5, <3>1, <3>2 DEF t
    <2>2. CASE \E n \in 1..Len(s.writeQueue) :
                 socks' = [socks EXCEPT ![i] = [s EXCEPT !.writeQueue = SubSeq(@, n + 1, Len(@))]]
      <3>1. PICK n \in 1..Len(s.writeQueue) :
                 socks' = [socks EXCEPT ![i] = [s EXCEPT !.writeQueue = SubSeq(@, n + 1, Len(@))]]
        BY <2>2
      <3> DEFINE t == [s EXCEPT !.writeQueue = SubSeq(@, n + 1, Len(@))]
      <3>2. /\ t.isServerConnection = socks[i].isServerConnection
            /\ t.listenerSocketIdx = socks[i].listenerSocketIdx
            /\ t.listenerConnections = socks[i].listenerConnections
        BY <1>0 DEF Slot
      <3> HIDE DEF t
      <3> QED BY <1>5, <3>1, <3>2 DEF t
    <2> QED BY <1>1, <1>10, <2>1, <2>2 DEF SocketReadyToWrite
  <1>11. ASSUME NEW l \in Slots, ListenerConnectionAttempt(l)
         PROVE  PlacesKept(socks, socks') \/ \E n \in Slots : PlaceTaken(socks, socks', l, n)
    <2>1. CASE \E n \in Slots, f \in Fds :
                 /\ GetFreeSocket(n)
                 /\ socks' = [socks EXCEPT
                      ![n] = [FreeSlot EXCEPT !.state = "ACCEPTED", !.fd = f, !.net = "up",
                                !.isServerConnection = TRUE, !.listenerSocketIdx = l],
                      ![l].listenerConnections = @ + 1]
      <3>1. PICK n \in Slots, f \in Fds :
                 /\ GetFreeSocket(n)
                 /\ socks' = [socks EXCEPT
                      ![n] = [FreeSlot EXCEPT !.state = "ACCEPTED", !.fd = f, !.net = "up",
                                !.isServerConnection = TRUE, !.listenerSocketIdx = l],
                      ![l].listenerConnections = @ + 1]
        BY <2>1
      <3> DEFINE t == [FreeSlot EXCEPT !.state = "ACCEPTED", !.fd = f, !.net = "up",
                         !.isServerConnection = TRUE, !.listenerSocketIdx = l]
                 u == [socks[l] EXCEPT !.listenerConnections = @ + 1]
      <3>2. socks[n] = FreeSlot /\ n # l
        BY <1>3, <1>11, <3>1 DEF GetFreeSocket, ListenerConnectionAttempt
      <3>3. t.isServerConnection /\ t.listenerSocketIdx = l /\ t.listenerConnections = 0
        BY DEF FreeSlot
      <3>4. socks'[n] = t /\ socks'[l] = u /\ \A j \in Slots : j # n /\ j # l => socks'[j] = socks[j]
        BY <1>0, <3>1, <3>2
      <3>5. PlaceTaken(socks, socks', l, n)
        <4> HIDE DEF t
        <4> QED BY <3>2, <3>3, <3>4 DEF PlaceTaken
      <3> QED BY <3>5
    <2> QED BY <1>1, <1>11, <2>1 DEF ListenerConnectionAttempt
  <1>12. CASE Network
    <2>1. PICK i \in Slots : NetworkUp(i) \/ NetworkDown(i)
      BY <1>12 DEF Network
    <2>2. PICK x : socks' = [socks EXCEPT ![i].net = x]
      BY <2>1 DEF NetworkUp, NetworkDown
    <2> DEFINE t == [socks[i] EXCEPT !.net = x]
    <2>3. /\ socks' = [socks EXCEPT ![i] = t]
          /\ t.isServerConnection = socks[i].isServerConnection
          /\ t.listenerSocketIdx = socks[i].listenerSocketIdx
          /\ t.listenerConnections = socks[i].listenerConnections
      BY <1>0, <2>2 DEF Slot
    <2> HIDE DEF t
    <2> QED BY <1>5, <2>3
  <1>13. CASE Select \/ InputEventsTreated \/ ScanEnd \/ InterruptForInputEvent \/ Post \/ Take
    BY <1>1, <1>13 DEF Select, InputEventsTreated, ScanEnd, InterruptForInputEvent, Post, Take
  <1>14. CASE UNCHANGED socketsVars
    BY <1>1, <1>14 DEF socketsVars
  <1> QED BY <1>6, <1>7, <1>8, <1>9, <1>10, <1>11, <1>12, <1>13, <1>14 DEF Next, SocketsThread

\* A listener counts at most the connections it accepted, after each of the
\* three kinds of steps.
LEMMA PlacesStep ==
  ASSUME TypeOK, SlotsSound, NoPhantomConnection, [Next]_socketsVars
  PROVE  NoPhantomConnection'
  <1> SUFFICES ASSUME NEW l \in Slots
               PROVE  socks'[l].listenerConnections <= Cardinality(AcceptedBy(socks', l))
    BY DEF NoPhantomConnection, AcceptedBy
  <1> DEFINE A == AcceptedBy(socks, l)
             B == AcceptedBy(socks', l)
  <1>0. /\ socks \in [Slots -> Slot]
        /\ \A i \in Slots : socks[i] \in Slot /\ SlotSound(socks[i])
        /\ \A i \in Slots : socks[i].listenerConnections \in Nat
    BY DEF TypeOK, SlotsSound, Slot
  <1>1. socks[l].listenerConnections <= Cardinality(A)
    BY DEF NoPhantomConnection, AcceptedBy
  <1>2. IsFiniteSet(Slots)
    BY FS_Interval, SocketsAssumption DEF Slots
  <1>3. A \subseteq Slots /\ B \subseteq Slots
    BY DEF AcceptedBy
  <1>4. /\ IsFiniteSet(A) /\ IsFiniteSet(B)
        /\ Cardinality(A) \in Nat /\ Cardinality(B) \in Nat
    BY <1>2, <1>3, FS_Subset, FS_CardinalityType
  <1>5. CASE PlacesKept(socks, socks')
    <2>1. A \subseteq B
      BY <1>5 DEF PlacesKept, AcceptedBy
    <2>2. Cardinality(A) <= Cardinality(B)
      BY <1>4, <2>1, FS_Subset
    <2>3. socks'[l].listenerConnections <= socks[l].listenerConnections
      BY <1>5 DEF PlacesKept
    <2>4. socks'[l].listenerConnections \in Nat
      BY NextType DEF TypeOK, Slot
    <2> HIDE DEF A, B
    <2> QED BY <1>0, <1>1, <1>4, <2>2, <2>3, <2>4 DEF B
  <1>6. ASSUME NEW i \in Slots, socks' = CloseSocket(socks, i)
        PROVE  socks'[l].listenerConnections <= Cardinality(B)
    <2>1. CASE l = i \/ socks[l].listenerConnections = 0
      <3>1. socks'[l].listenerConnections = 0
        BY <1>0, <1>6, <2>1 DEF CloseSocket, FreeSlot
      <3> QED BY <1>4, <3>1
    <2>2. CASE l # i /\ socks[l].listenerConnections # 0
      <3>1. socks[l].state = "LISTENING" /\ socks[l].listenerConnections > 0
        BY <1>0, <2>2 DEF SlotSound
      <3>2. ASSUME NEW j \in Slots, j # i
            PROVE  j \in A <=> j \in B
        <4>1. /\ socks'[j].isServerConnection = socks[j].isServerConnection
              /\ socks'[j].listenerSocketIdx = socks[j].listenerSocketIdx
          BY <1>0, <1>6, <3>2 DEF CloseSocket, Slot
        <4> QED BY <4>1 DEF AcceptedBy
      <3>3. i \notin B
        BY <1>6 DEF CloseSocket, FreeSlot, AcceptedBy
      <3>4. B = A \ {i}
        BY <1>3, <3>2, <3>3
      <3>5. CASE i \in A
        <4>1. Cardinality(B) = Cardinality(A) - 1
          BY <1>4, <3>4, <3>5, FS_RemoveElement
        <4>2. socks[i].isServerConnection /\ socks[i].listenerSocketIdx = l
          BY <3>5 DEF AcceptedBy
        <4>3. socks'[l].listenerConnections = socks[l].listenerConnections - 1
          BY <1>0, <1>6, <2>2, <3>1, <4>2 DEF CloseSocket, Slot
        <4> HIDE DEF A, B
        <4> QED BY <1>0, <1>1, <1>4, <4>1, <4>3
      <3>6. CASE i \notin A
        <4>1. B = A
          BY <3>4, <3>6
        <4>2. ~(socks[i].isServerConnection /\ socks[i].listenerSocketIdx = l)
          BY <3>6 DEF AcceptedBy
        <4>3. socks'[l] = socks[l]
          BY <1>6, <2>2, <4>2 DEF CloseSocket
        <4> HIDE DEF A, B
        <4> QED BY <1>1, <4>1, <4>3
      <3> QED BY <3>5, <3>6
    <2> QED BY <2>1, <2>2
  <1>7. ASSUME NEW m \in Slots, NEW n \in Slots, PlaceTaken(socks, socks', m, n)
        PROVE  socks'[l].listenerConnections <= Cardinality(B)
    <2>1. ASSUME NEW j \in Slots, j # n
          PROVE  j \in A <=> j \in B
      <3>1. /\ socks'[j].isServerConnection = socks[j].isServerConnection
            /\ socks'[j].listenerSocketIdx = socks[j].listenerSocketIdx
        <4>1. CASE j = m
          <5>1. socks'[m] = [socks[m] EXCEPT !.listenerConnections = socks[m].listenerConnections + 1]
            BY <1>7 DEF PlaceTaken
          <5>2. ASSUME NEW s \in Slot, NEW k, NEW t, t = [s EXCEPT !.listenerConnections = k]
                PROVE  /\ t.isServerConnection = s.isServerConnection
                       /\ t.listenerSocketIdx = s.listenerSocketIdx
            BY <5>2 DEF Slot
          <5> QED BY <1>0, <4>1, <5>1, <5>2
        <4>2. CASE j # m
          BY <1>7, <2>1, <4>2 DEF PlaceTaken
        <4> QED BY <4>1, <4>2
      <3> QED BY <3>1 DEF AcceptedBy
    <2>2. n \notin A
      BY <1>7 DEF PlaceTaken, FreeSlot, AcceptedBy
    <2>3. CASE l = m
      <3>1. n \in B
        BY <1>7, <2>3 DEF PlaceTaken, AcceptedBy
      <3>2. B = A \cup {n}
        BY <1>3, <2>1, <3>1
      <3>3. Cardinality(B) = Cardinality(A) + 1
        BY <1>4, <2>2, <3>2, FS_AddElement
      <3>4. socks'[l].listenerConnections = socks[l].listenerConnections + 1
        BY <1>0, <1>7, <2>3 DEF PlaceTaken, Slot
      <3> HIDE DEF A, B
      <3> QED BY <1>0, <1>1, <1>4, <3>3, <3>4
    <2>4. CASE l = n
      <3>1. socks'[l].listenerConnections = 0
        BY <1>7, <2>4 DEF PlaceTaken
      <3> QED BY <1>4, <3>1
    <2>5. CASE l # m /\ l # n
      <3>1. n \notin B
        BY <1>7, <2>5 DEF PlaceTaken, AcceptedBy
      <3>2. A = B
        BY <1>3, <2>1, <2>2, <3>1
      <3>3. socks'[l] = socks[l]
        BY <1>7, <2>5 DEF PlaceTaken
      <3> HIDE DEF A, B
      <3> QED BY <1>1, <3>2, <3>3
    <2> QED BY <2>3, <2>4, <2>5
  <1> QED BY <1>5, <1>6, <1>7, NextPlaces

\* A listener never counts more connections than it has
\* (NoPhantomConnection), for every size of socketsArray and every order of
\* closes: the place of a connection is given back when it closes, to the
\* listener its slot number names now (a listener closed and replaced there may
\* so count too few, never too many).
THEOREM NoPhantom == Spec => []NoPhantomConnection
  <1>1. Init => NoPhantomConnection
    <2> SUFFICES ASSUME Init, NEW l \in Slots
                 PROVE  socks[l].listenerConnections <= Cardinality(AcceptedBy(socks, l))
      BY DEF NoPhantomConnection, AcceptedBy
    <2>1. IsFiniteSet(AcceptedBy(socks, l))
      <3>1. IsFiniteSet(Slots)
        BY FS_Interval, SocketsAssumption DEF Slots
      <3>2. AcceptedBy(socks, l) \subseteq Slots
        BY DEF AcceptedBy
      <3> QED BY <3>1, <3>2, FS_Subset
    <2>2. Cardinality(AcceptedBy(socks, l)) \in Nat
      BY <2>1, FS_CardinalityType
    <2>3. socks[l].listenerConnections = 0
      BY DEF Init, FreeSlot
    <2> QED BY <2>2, <2>3
  <1>2. TypeOK /\ SlotsSound /\ NoPhantomConnection /\ [Next]_socketsVars => NoPhantomConnection'
    BY PlacesStep
  <1> QED BY <1>1, <1>2, Typing, SlotsSoundAlways, PTL DEF Spec
=============================================================================
