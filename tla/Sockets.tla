------------------------------- MODULE Sockets -------------------------------
(***************************************************************************)
(* The Sockets layer of the ClientServer stack (ClientServer/sockets/):    *)
(* the array of sockets, the queue of input events filled by the upper     *)
(* (secure channel) layer, and the one thread that multiplexes the         *)
(* operating system sockets with select().                                 *)
(*                                                                         *)
(* A round of the thread is: fill the descriptor sets from the array;      *)
(* block in select(); empty the signal socket; treat ALL the input events; *)
(* then walk through the array and treat the descriptors that select()     *)
(* reported, although the input events just treated may have closed        *)
(* sockets and opened others that were given the same descriptors.         *)
(*                                                                         *)
(* Spec puts the layer under the most general upper layer: one that posts  *)
(* any well-formed event at any time.  ScSockets puts the code of the      *)
(* secure channel layer on top of it.                                      *)
(***************************************************************************)
EXTENDS Naturals, Sequences, FiniteSets

CONSTANTS
  MaxSockets,      \* usable slots of socketsArray: SOPC_MAX_SOCKETS - 1 (slot 0 is never used)
  MaxConnections,  \* SOPC_MAX_SOCKETS_CONNECTIONS
  MaxAddrs,        \* bound: addresses a host name resolves to
  ConnIds,         \* secure connection indexes
  EpIds,           \* endpoint configuration indexes
  Owners,          \* identities of the upper connections (history only)
  Msgs,            \* message buffers the upper layer writes
  MsgLen,          \* size of a buffer, in units that a write can split
  Oob,             \* whether select() may report exceptions (urgent data)
  Blocking,        \* whether the kernel may refuse bytes for a while
  QueueBound,      \* bound: input events the general upper layer lets wait
  OutBound         \* bound: events that wait for the secure channel looper

ASSUME SocketsAssumption ==
  /\ MaxSockets \in Nat \ {0}
  /\ MaxConnections \in Nat \ {0}
  /\ MaxAddrs \in Nat \ {0}
  /\ MsgLen \in Nat \ {0}
  /\ QueueBound \in Nat
  /\ OutBound \in Nat
  /\ Oob \in BOOLEAN /\ Blocking \in BOOLEAN
  /\ ConnIds \subseteq Nat \ {0}
  /\ EpIds \subseteq Nat \ {0}
  /\ 0 \in Owners

VARIABLES
  socks,    \* socketsArray
  inQ,      \* socketsInputEventQueue
  signal,   \* a byte is waiting on the socket that interrupts select()
  raising,  \* the upper layer has queued an event and not written that byte yet
  thr,      \* where the sockets thread stands, and what select() reported
  scQ       \* queue of the looper of the secure channel layer

socketsVars == <<socks, inQ, signal, raising, thr, scQ>>

Slots == 1..MaxSockets
Fds   == 1..MaxSockets     \* one descriptor per open slot is enough
NoBuf == <<>>

States == {"CLOSED", "CONNECTING", "CONNECTED", "LISTENING", "ACCEPTED"}

(***************************************************************************)
(* An entry of socketsArray.  isUsed is left out: a handler that reserves  *)
(* a slot opens it or closes it before it returns, so that between two     *)
(* steps a slot is used iff its state is not CLOSED.  net is the state of  *)
(* the TCP connection as the kernel sees it: "syn" (connect() under way),  *)
(* "up", "down" (reset, closed by the peer, refused; it never recovers).   *)
(* owner, given and wire are history: the upper connection the slot        *)
(* serves, what was accepted for writing and what was put on the wire.     *)
(***************************************************************************)
FreeSlot ==
  [state |-> "CLOSED", fd |-> 0, connectionId |-> 0, isNotWritable |-> FALSE,
   writeQueue |-> <<>>, isServerConnection |-> FALSE, listenerSocketIdx |-> 0,
   listenerConnections |-> 0, nextAddrs |-> 0, net |-> "none", owner |-> 0,
   given |-> <<>>, wire |-> <<>>]

Units(buf) == [p \in 1..MsgLen |-> [buf |-> buf, part |-> p]]

Event(type, id, aux, buf, owner) ==
  [type |-> type, id |-> id, aux |-> aux, buf |-> buf, owner |-> owner]

InputTypes == {"CREATE_LISTENER", "ACCEPTED_CONNECTION", "CREATE_CONNECTION",
               "CLOSE", "CLOSE_LISTENER", "WRITE"}
OutputTypes == {"LISTENER_OPENED", "LISTENER_CONNECTION", "LISTENER_FAILURE",
                "CREATED", "CONNECTION", "FAILURE", "RCV_BYTES"}

\* Events as the callers of SOPC_Sockets_EnqueueEvent may form them.
InputEvents ==
  {Event("CREATE_LISTENER", ep, 0, NoBuf, 0) : ep \in EpIds}
    \cup {Event("ACCEPTED_CONNECTION", i, c, NoBuf, o) : i \in Slots, c \in ConnIds, o \in Owners}
    \cup {Event("CREATE_CONNECTION", c, 0, NoBuf, o) : c \in ConnIds, o \in Owners}
    \cup {Event("CLOSE", i, c, NoBuf, o) : i \in Slots \cup {0}, c \in ConnIds \cup {0}, o \in Owners}
    \cup {Event("CLOSE_LISTENER", i, ep, NoBuf, 0) : i \in Slots, ep \in EpIds}
    \cup {Event("WRITE", i, 0, m, o) : i \in Slots \cup {0}, m \in Msgs, o \in Owners}

-----------------------------------------------------------------------------
(* The internal context: allocation and release of the slots.              *)

\* GetFreeSocket returns the unused slot with the lowest index.
GetFreeSocket(i) ==
  /\ socks[i].state = "CLOSED"
  /\ \A j \in Slots : j < i => socks[j].state # "CLOSED"

\* The kernel gives the lowest descriptor that is not open.
LowestFd(f, S) ==
  /\ \A j \in Slots : S[j].fd # f
  /\ \A g \in Fds : g < f => \E j \in Slots : S[j].fd = g

\* Mutant: the count of the listener is not looked at before it is decremented.
CloseSocketUnderflow(S, i) ==
  [j \in Slots |->
     IF j = i THEN FreeSlot
     ELSE IF S[i].isServerConnection /\ j = S[i].listenerSocketIdx /\ S[j].state = "LISTENING"
     THEN [S[j] EXCEPT !.listenerConnections = @ - 1] ELSE S[j]]

\* Mutant: the place of a closed connection is not given back.
CloseSocketNoRelease(S, i) == [S EXCEPT ![i] = FreeSlot]

\* CloseSocket: closing an accepted connection gives its place back to the
\* listener found in the slot that accepted it.
CloseSocket(S, i) ==
  LET l == S[i].listenerSocketIdx
      release(j) == /\ S[i].isServerConnection /\ j = l
                    /\ S[j].state = "LISTENING" /\ S[j].listenerConnections > 0
  IN  [j \in Slots |->
        IF j = i THEN FreeSlot
        ELSE IF release(j) THEN [S[j] EXCEPT !.listenerConnections = @ - 1]
        ELSE S[j]]

Emit(type, id, aux, owner) ==
  /\ Len(scQ) < OutBound
  /\ scQ' = Append(scQ, Event(type, id, aux, NoBuf, owner))

\* SOCKET_FAILURE for the upper connection of slot i, and the slot is closed.
FailAndClose(i) ==
  /\ Emit("FAILURE", socks[i].connectionId, i, socks[i].owner)
  /\ socks' = CloseSocket(socks, i)

(***************************************************************************)
(* TreatWriteBuffer: write the queued buffers until the queue is empty or  *)
(* the kernel refuses more (isNotWritable, the rest of the current buffer  *)
(* goes back to the head of the queue with its position advanced).  On a   *)
(* dead connection the first write fails and its buffer is dropped.  s is  *)
(* the slot, k the number of units that the kernel takes.                  *)
(***************************************************************************)
WriteFails(s) == s.net = "down" /\ s.writeQueue # <<>>

\* The buffer at the head of queue q ends with its n-th unit.
HeadBuffer(q, n) ==
  /\ n \in 1..Len(q)
  /\ q[n].part = MsgLen
  /\ \A m \in 1..(n - 1) : q[m].part # MsgLen

Writable(s, k) ==
  /\ k \in 0..Len(s.writeQueue)
  /\ s.net = "syn" => k = 0
  /\ s.net # "syn" /\ ~Blocking => k = Len(s.writeQueue)

\* Mutant: the position of a buffer written in part is not advanced.
TreatWriteBufferNoAdvance(s, k) ==
  [s EXCEPT !.writeQueue = IF k < Len(@) THEN @ ELSE <<>>,
            !.isNotWritable = k < Len(s.writeQueue),
            !.wire = @ \o SubSeq(s.writeQueue, 1, k)]

\* Mutant: a blocked write is not remembered.
TreatWriteBufferNotBlocked(s, k) ==
  [s EXCEPT !.writeQueue = SubSeq(@, k + 1, Len(@)),
            !.wire = @ \o SubSeq(s.writeQueue, 1, k)]

TreatWriteBuffer(s, k) ==
  [s EXCEPT !.writeQueue = SubSeq(@, k + 1, Len(@)),
            !.isNotWritable = k < Len(s.writeQueue),
            !.wire = @ \o SubSeq(s.writeQueue, 1, k)]

-----------------------------------------------------------------------------
(* SOPC_SocketsEventMgr_Dispatcher: one action per input event.            *)

Treat(type) ==
  /\ thr.pc = "input"
  /\ inQ # <<>>
  /\ Head(inQ).type = type
  /\ inQ' = Tail(inQ)
  /\ UNCHANGED <<signal, raising, thr>>

\* The kernel refuses to bind the address of an endpoint twice.
AddressInUse(ep) ==
  \E j \in Slots : socks[j].state = "LISTENING" /\ socks[j].connectionId = ep

CreateListener ==
  LET e == Head(inQ) IN
  /\ Treat("CREATE_LISTENER")
  /\ \/ \E i \in Slots, f \in Fds :
          /\ GetFreeSocket(i) /\ LowestFd(f, socks)
          /\ ~AddressInUse(e.id)
          /\ socks' = [socks EXCEPT ![i] =
               [FreeSlot EXCEPT !.state = "LISTENING", !.fd = f, !.connectionId = e.id]]
          /\ Emit("LISTENER_OPENED", e.id, i, 0)
     \/ \* no slot, unknown address, or address already bound
        /\ Emit("LISTENER_FAILURE", e.id, 0, 0)
        /\ UNCHANGED socks

\* Mutant: the state of the slot is not checked.
AcceptedConnectionUnchecked ==
  LET e == Head(inQ) IN
  /\ Treat("ACCEPTED_CONNECTION")
  /\ socks' = [socks EXCEPT ![e.id].connectionId = e.aux, ![e.id].state = "CONNECTED"]
  /\ UNCHANGED scQ

AcceptedConnection ==
  LET e == Head(inQ) IN
  /\ Treat("ACCEPTED_CONNECTION")
  /\ socks' = IF socks[e.id].state = "ACCEPTED"
              THEN [socks EXCEPT ![e.id].connectionId = e.aux,
                                 ![e.id].state = "CONNECTED",
                                 ![e.id].owner = e.owner]
              ELSE CloseSocket(socks, e.id)
  /\ UNCHANGED scQ

\* CreateClientSocket: the addresses of the host are tried in turn until a
\* non blocking connect() starts; the others are kept for later attempts.
CreateConnection ==
  LET e == Head(inQ) IN
  /\ Treat("CREATE_CONNECTION")
  /\ \/ \E i \in Slots, f \in Fds, rest \in 0..(MaxAddrs - 1) :
          /\ GetFreeSocket(i) /\ LowestFd(f, socks)
          /\ socks' = [socks EXCEPT ![i] =
               [FreeSlot EXCEPT !.state = "CONNECTING", !.fd = f, !.connectionId = e.id,
                                !.nextAddrs = rest, !.net = "syn", !.owner = e.owner]]
          /\ Emit("CREATED", e.id, i, e.owner)
     \/ /\ Emit("FAILURE", e.id, 0, e.owner)
        /\ UNCHANGED socks

\* Mutant: the connection of the slot is not compared.
CloseRequestValidAnyConnection(e) ==
  /\ e.id \in Slots
  /\ socks[e.id].state \notin {"CLOSED", "LISTENING"}

\* Slot 0 is the index of a connection that has no socket yet: always CLOSED.
CloseRequestValid(e) ==
  /\ e.id \in Slots
  /\ socks[e.id].state \notin {"CLOSED", "LISTENING"}
  /\ socks[e.id].connectionId = e.aux

CloseConnection ==
  LET e == Head(inQ) IN
  /\ Treat("CLOSE")
  /\ socks' = IF CloseRequestValid(e) THEN CloseSocket(socks, e.id) ELSE socks
  /\ UNCHANGED scQ

CloseListener ==
  LET e == Head(inQ) IN
  /\ Treat("CLOSE_LISTENER")
  /\ socks' = IF socks[e.id].state = "LISTENING" /\ socks[e.id].connectionId = e.aux
              THEN CloseSocket(socks, e.id) ELSE socks
  /\ UNCHANGED scQ

\* The slot with the buffer queued behind the others, its position at 0.
Enqueued(s, buf) ==
  [s EXCEPT !.writeQueue = @ \o Units(buf), !.given = @ \o Units(buf)]

Write ==
  LET e == Head(inQ)
      i == e.id
      s == Enqueued(socks[i], e.buf)
  IN
  /\ Treat("WRITE")
  /\ \/ /\ i \in Slots => socks[i].state = "CLOSED"
        /\ UNCHANGED <<socks, scQ>>
     \/ /\ i \in Slots
        /\ socks[i].state = "CONNECTED"
        /\ s.isNotWritable
        /\ socks' = [socks EXCEPT ![i] = s]
        /\ UNCHANGED scQ
     \/ /\ i \in Slots
        /\ socks[i].state = "CONNECTED"
        /\ ~s.isNotWritable /\ ~WriteFails(s)
        /\ \E k \in 0..Len(s.writeQueue) :
             /\ Writable(s, k)
             /\ socks' = [socks EXCEPT ![i] = TreatWriteBuffer(s, k)]
        /\ UNCHANGED scQ
     \/ /\ i \in Slots
        /\ \/ socks[i].state = "CONNECTED" /\ ~s.isNotWritable /\ WriteFails(s)
           \/ socks[i].state \notin {"CONNECTED", "CLOSED"}
        /\ FailAndClose(i)

TreatInputEvent == \/ CreateListener \/ AcceptedConnection \/ CreateConnection
                   \/ CloseConnection \/ CloseListener \/ Write

-----------------------------------------------------------------------------
(* SOPC_SocketsNetworkEventMgr_TreatSocketsEvents: a round of the thread.  *)

Watched(i) == socks[i].state \in {"CONNECTED", "CONNECTING", "LISTENING"}
WriteWatched(i) ==
  \/ socks[i].state = "CONNECTING"
  \/ socks[i].state = "CONNECTED" /\ socks[i].isNotWritable

FdsOf(I) == {socks[i].fd : i \in I}

ReadWatch  == {i \in Slots : Watched(i) /\ ~WriteWatched(i)}
WriteWatch == {i \in Slots : Watched(i) /\ WriteWatched(i)}

\* What the kernel must report: a dead connection is readable and writable,
\* a connect() that has ended is writable.  What it may report: any other
\* watched descriptor, except a connect() still under way.
MayRead    == {i \in ReadWatch : socks[i].net # "syn"}
MustRead   == {i \in ReadWatch : socks[i].net = "down"}
MustWrite  == {i \in WriteWatch : \/ socks[i].net = "down"
                                  \/ socks[i].state = "CONNECTING" /\ socks[i].net = "up"}
MayWrite   == {i \in WriteWatch : socks[i].net # "syn"}
MayExcept  == {i \in Slots : Oob /\ socks[i].state = "CONNECTED" /\ socks[i].net = "up"}

NothingReported(pc) == [pc |-> pc, idx |-> 1, R |-> {}, W |-> {}, X |-> {}]

Select ==
  /\ thr.pc = "select"
  /\ \E R \in SUBSET MayRead, W \in SUBSET MayWrite, X \in SUBSET MayExcept :
       /\ MustRead \subseteq R /\ MustWrite \subseteq W
       /\ signal \/ R # {} \/ W # {} \/ X # {}
       /\ thr' = [NothingReported("input") EXCEPT !.R = FdsOf(R), !.W = FdsOf(W), !.X = FdsOf(X)]
  /\ signal' = FALSE          \* SOPC_Internal_ConsumeSigBytes
  /\ UNCHANGED <<socks, inQ, raising, scQ>>

\* Mutant: the walk begins before the queue is empty.
InputEventsTreatedEarly ==
  /\ thr.pc = "input"
  /\ thr' = [thr EXCEPT !.pc = "scan"]
  /\ UNCHANGED <<socks, inQ, signal, raising, scQ>>

InputEventsTreated ==
  /\ thr.pc = "input"
  /\ inQ = <<>>
  /\ thr' = [thr EXCEPT !.pc = "scan"]
  /\ UNCHANGED <<socks, inQ, signal, raising, scQ>>

\* A slot that select() reported something about, as the array is now.
Reported(i) == socks[i].state # "CLOSED" /\ socks[i].fd \in thr.R \cup thr.W \cup thr.X

\* The next reported slot of the walk through the array.
Scanned(i) ==
  /\ thr.pc = "scan"
  /\ thr.idx <= i
  /\ Reported(i)
  /\ \A j \in Slots : thr.idx <= j /\ j < i => ~Reported(j)
  /\ UNCHANGED <<inQ, signal, raising>>

\* After its read or write event, the exception of slot i is looked up with
\* the descriptor the slot holds now.
ScanOn(i) ==
  thr' = IF socks'[i].fd \in thr.X THEN [thr EXCEPT !.pc = "except", !.idx = i]
                                   ELSE [thr EXCEPT !.idx = i + 1]

IntSocketClose(i) ==
  /\ socks' = CloseSocket(socks, i)
  /\ IF socks[i].state = "LISTENING"
     THEN Emit("LISTENER_FAILURE", socks[i].connectionId, i, 0)
     ELSE Emit("FAILURE", socks[i].connectionId, i, socks[i].owner)

\* INT_SOCKET_CONNECTED: getsockopt(SO_ERROR) reports no error.
SocketConnected(i) ==
  /\ Scanned(i)
  /\ socks[i].state = "CONNECTING" /\ socks[i].fd \in thr.W /\ socks[i].net # "down"
  /\ socks' = [socks EXCEPT ![i].state = "CONNECTED", ![i].nextAddrs = 0]
  /\ Emit("CONNECTION", socks[i].connectionId, i, socks[i].owner)
  /\ ScanOn(i)

\* INT_SOCKET_CONNECTION_ATTEMPT_FAILED: the next address that accepts a
\* connect() is used; when there is none the connection has failed.
SocketConnectionAttemptFailed(i) ==
  /\ Scanned(i)
  /\ socks[i].state = "CONNECTING" /\ socks[i].fd \in thr.W /\ socks[i].net = "down"
  /\ \/ \E rest \in 0..(MaxAddrs - 1), f \in Fds :
          /\ rest < socks[i].nextAddrs
          /\ LowestFd(f, [socks EXCEPT ![i].fd = 0])
          /\ socks' = [socks EXCEPT ![i].nextAddrs = rest, ![i].fd = f, ![i].net = "syn"]
          /\ UNCHANGED scQ
     \/ FailAndClose(i)
  /\ ScanOn(i)

\* Mutant: the end of the connection is taken for "nothing to read".
SocketReadyToReadEofIgnored(i) ==
  /\ Scanned(i)
  /\ socks[i].state = "CONNECTED" /\ socks[i].fd \in thr.R
  /\ UNCHANGED <<socks, scQ>>
  /\ ScanOn(i)

\* INT_SOCKET_READY_TO_READ: bytes are read and handed over, or there is
\* nothing to read, or the read fails.
SocketReadyToRead(i) ==
  /\ Scanned(i)
  /\ socks[i].state = "CONNECTED" /\ socks[i].fd \in thr.R
  /\ \/ /\ socks[i].net = "up"
        /\ Emit("RCV_BYTES", socks[i].connectionId, i, socks[i].owner)
        /\ UNCHANGED socks
     \/ /\ socks[i].net # "down"
        /\ UNCHANGED <<socks, scQ>>
     \/ /\ socks[i].net = "down"
        /\ FailAndClose(i)
  /\ ScanOn(i)

\* INT_SOCKET_READY_TO_WRITE: the outcome of TreatWriteBuffer is not looked at.
SocketReadyToWrite(i) ==
  /\ Scanned(i)
  /\ socks[i].state = "CONNECTED" /\ socks[i].fd \in thr.W \ thr.R
  /\ LET s == [socks[i] EXCEPT !.isNotWritable = FALSE]
     IN  \/ /\ ~socks[i].isNotWritable
            /\ UNCHANGED socks
         \/ /\ socks[i].isNotWritable /\ ~WriteFails(s)
            /\ \E k \in 0..Len(s.writeQueue) :
                 /\ Writable(s, k)
                 /\ socks' = [socks EXCEPT ![i] = TreatWriteBuffer(s, k)]
         \/ /\ socks[i].isNotWritable /\ WriteFails(s)
            /\ \E n \in 1..Len(s.writeQueue) :
                 /\ HeadBuffer(s.writeQueue, n)
                 /\ socks' = [socks EXCEPT ![i] =
                      [s EXCEPT !.writeQueue = SubSeq(@, n + 1, Len(@))]]
  /\ UNCHANGED scQ
  /\ ScanOn(i)

\* INT_SOCKET_LISTENER_CONNECTION_ATTEMPT: at the limit, or without a free
\* slot, or when accept() fails, nothing changes.
ListenerConnectionAttempt(l) ==
  /\ Scanned(l)
  /\ socks[l].state = "LISTENING" /\ socks[l].fd \in thr.R
  /\ \/ \E i \in Slots, f \in Fds :
          /\ socks[l].listenerConnections < MaxConnections
          /\ GetFreeSocket(i) /\ LowestFd(f, socks)
          /\ socks' = [socks EXCEPT
               ![i] = [FreeSlot EXCEPT !.state = "ACCEPTED", !.fd = f, !.net = "up",
                         !.isServerConnection = TRUE, !.listenerSocketIdx = l],
               ![l].listenerConnections = @ + 1]
          /\ Emit("LISTENER_CONNECTION", socks[l].connectionId, i, 0)
     \/ UNCHANGED <<socks, scQ>>
  /\ ScanOn(l)

\* A descriptor reported writable now belongs to a slot that cannot be.
UnexpectedWriteEvent(i) ==
  /\ Scanned(i)
  /\ socks[i].state \in {"LISTENING", "ACCEPTED"} /\ socks[i].fd \in thr.W \ thr.R
  /\ IntSocketClose(i)
  /\ ScanOn(i)

\* Nothing to do for the slot but to look for an exception: an accepted
\* connection waits for the upper layer, a connecting one for its write event.
NoReadWriteEvent(i) ==
  /\ Scanned(i)
  /\ \/ socks[i].state = "CONNECTING" /\ socks[i].fd \notin thr.W
     \/ socks[i].state = "ACCEPTED" /\ socks[i].fd \in thr.R
     \/ socks[i].state # "CONNECTING" /\ socks[i].fd \notin thr.R \cup thr.W
  /\ UNCHANGED <<socks, scQ>>
  /\ ScanOn(i)

SocketException ==
  /\ thr.pc = "except"
  /\ IntSocketClose(thr.idx)
  /\ thr' = [thr EXCEPT !.pc = "scan", !.idx = @ + 1]
  /\ UNCHANGED <<inQ, signal, raising>>

ScanEnd ==
  /\ thr.pc = "scan"
  /\ \A j \in Slots : thr.idx <= j => ~Reported(j)
  /\ thr' = NothingReported("select")
  /\ UNCHANGED <<socks, inQ, signal, raising, scQ>>

SocketsThread ==
  \/ Select \/ TreatInputEvent \/ InputEventsTreated \/ SocketException \/ ScanEnd
  \/ \E i \in Slots : \/ SocketConnected(i) \/ SocketConnectionAttemptFailed(i)
                      \/ SocketReadyToRead(i) \/ SocketReadyToWrite(i)
                      \/ ListenerConnectionAttempt(i) \/ UnexpectedWriteEvent(i)
                      \/ NoReadWriteEvent(i)

-----------------------------------------------------------------------------
(* The kernel and the peers: a connect() succeeds, a connection dies.      *)
NetworkUp(i) ==
  /\ socks[i].net = "syn"
  /\ socks' = [socks EXCEPT ![i].net = "up"]
  /\ UNCHANGED <<inQ, signal, raising, thr, scQ>>

NetworkDown(i) ==
  /\ socks[i].net \in {"syn", "up"}
  /\ socks' = [socks EXCEPT ![i].net = "down"]
  /\ UNCHANGED <<inQ, signal, raising, thr, scQ>>

Network == \E i \in Slots : NetworkUp(i) \/ NetworkDown(i)

-----------------------------------------------------------------------------
(* SOPC_Sockets_EnqueueEvent: the event is queued, then a byte is written  *)
(* to the socket that interrupts select().                                 *)
EnqueueEvents(events) ==
  /\ ~raising
  /\ inQ' = inQ \o events
  /\ raising' = (events # <<>>)
  /\ UNCHANGED signal

\* Mutant: no byte is written.
InterruptForInputEventSkipped ==
  /\ raising
  /\ raising' = FALSE
  /\ UNCHANGED <<socks, inQ, signal, thr, scQ>>

InterruptForInputEvent ==
  /\ raising
  /\ raising' = FALSE
  /\ signal' = TRUE
  /\ UNCHANGED <<socks, inQ, thr, scQ>>

(***************************************************************************)
(* The most general upper layer.  A buffer belongs to one event or to one  *)
(* slot: the one it writes is held by nobody.                              *)
(***************************************************************************)
FreshBuffer(buf) ==
  /\ \A n \in 1..Len(inQ) : inQ[n].buf # buf
  /\ \A i \in Slots : \A n \in 1..Len(socks[i].given) : socks[i].given[n].buf # buf

Post ==
  /\ Len(inQ) < QueueBound
  /\ \E e \in InputEvents : /\ e.type = "WRITE" => FreshBuffer(e.buf)
                            /\ EnqueueEvents(<<e>>)
  /\ UNCHANGED <<socks, thr, scQ>>

Take ==
  /\ scQ # <<>>
  /\ scQ' = Tail(scQ)
  /\ UNCHANGED <<socks, inQ, signal, raising, thr>>

Init ==
  /\ socks = [i \in Slots |-> FreeSlot]
  /\ inQ = <<>>
  /\ signal = FALSE
  /\ raising = FALSE
  /\ thr = NothingReported("select")
  /\ scQ = <<>>

Next == SocketsThread \/ Network \/ InterruptForInputEvent \/ Post \/ Take

\* The threads of the process are scheduled: the one of this layer, and the
\* one above it, which writes the byte it owes and takes the events it is sent.
Fairness == WF_socketsVars(SocketsThread) /\ WF_socketsVars(InterruptForInputEvent)
            /\ WF_socketsVars(Take)

Spec == Init /\ [][Next]_socketsVars

FairSpec == Spec /\ Fairness

-----------------------------------------------------------------------------
(* Properties.                                                             *)

Unit == [buf : Msgs, part : 1..MsgLen]

Slot ==
  [state : States, fd : Fds \cup {0}, connectionId : Nat, isNotWritable : BOOLEAN,
   writeQueue : Seq(Unit), isServerConnection : BOOLEAN,
   listenerSocketIdx : Slots \cup {0}, listenerConnections : Nat,
   nextAddrs : 0..(MaxAddrs - 1), net : {"none", "syn", "up", "down"},
   owner : Owners, given : Seq(Unit), wire : Seq(Unit)]

OutputEvent ==
  [type : OutputTypes, id : Nat, aux : Slots \cup {0}, buf : {NoBuf}, owner : Owners]

ThreadState ==
  [pc : {"select", "input", "scan", "except"}, idx : 1..(MaxSockets + 1),
   R : SUBSET (Fds \cup {0}), W : SUBSET (Fds \cup {0}), X : SUBSET (Fds \cup {0})]

\* Types of the variables of the layer: the slots of socketsArray, the events
\* of its two queues, the descriptor sets kept between select() and the walk.
TypeOK ==
  /\ socks \in [Slots -> Slot]
  /\ inQ \in Seq(InputEvents)
  /\ signal \in BOOLEAN
  /\ raising \in BOOLEAN
  /\ thr \in ThreadState
  /\ thr.pc = "except" => thr.idx \in Slots
  /\ scQ \in Seq(OutputEvent)

\* No wake-up is lost (SOPC_Sockets_EnqueueEvent against ConsumeSigBytes and
\* the loop that empties the queue): an event that waits while the thread is
\* not emptying the queue is announced by a byte, written or about to be.
NoLostWakeup ==
  inQ # <<>> => signal \/ raising \/ thr.pc = "input"

\* Bytes go out in the order they were given, none lost, none twice, whatever
\* the partial writes and re-enqueues of TreatWriteBuffer, as long as the
\* connection lives; a connection that dies has sent a prefix.
StreamIntact ==
  \A i \in Slots :
    /\ socks[i].net # "down" => socks[i].given = socks[i].wire \o socks[i].writeQueue
    /\ Len(socks[i].wire) <= Len(socks[i].given)
    /\ \A n \in 1..Len(socks[i].wire) : socks[i].wire[n] = socks[i].given[n]

\* Data that waits for the kernel is waited for: a live connection has
\* queued bytes exactly when select() watches its descriptor for writing, so
\* neither its output nor (being out of the read set) its input can stall.
PendingWriteWatched ==
  \A i \in Slots :
    socks[i].state = "CONNECTED" /\ socks[i].net # "down" =>
      (socks[i].isNotWritable <=> socks[i].writeQueue # <<>>)

\* A listener never counts more connections than it has (the count is
\* decremented by CloseSocket on every path): when its connections are gone
\* it accepts again.
NoPhantomConnection ==
  \A l \in Slots :
    socks[l].listenerConnections <=
      Cardinality({i \in Slots : socks[i].isServerConnection /\ socks[i].listenerSocketIdx = l})

\* A step of the thread that reuses a slot or a descriptor closes what it
\* held first: a connection never changes its peer or its upper connection.
\* (ACCEPTED gets its upper connection; a failed attempt tries the next
\* address.)
IdentityKept ==
  [][\A i \in Slots :
       socks[i].state # "CLOSED" /\ socks'[i].state # "CLOSED" =>
         /\ socks[i].connectionId = socks'[i].connectionId \/ socks[i].state = "ACCEPTED"
         /\ socks[i].fd = socks'[i].fd \/ socks[i].state = "CONNECTING"
         /\ Len(socks[i].given) <= Len(socks'[i].given)]_socketsVars

\* "A requested client connection was established": a slot is CONNECTED, and
\* SOCKET_CONNECTION sent, only once connect() has ended.
ConnectedIsEstablished ==
  \A i \in Slots : socks[i].state = "CONNECTED" => socks[i].net # "syn"

\* Every event queued by the upper layer is treated: the thread gets back to
\* the loop that empties the queue.
EventsTreated == inQ # <<>> ~> thr.pc = "input"

\* A dead connection does not stay open: the attempt is given up or its
\* failure reported, also when the death is found while writing
\* (SocketReadyToWrite ignores it).  The loop that empties the queue ends
\* only when the upper layer pauses, hence the hypothesis.
DeadClosed ==
  []<>(thr.pc = "select") =>
    \A i \in Slots :
      socks[i].state \in {"CONNECTING", "CONNECTED"} /\ socks[i].net = "down"
        ~> socks[i].net # "down"
=============================================================================
