------------------------- MODULE SecureChannelProofs -------------------------
(***************************************************************************)
(* Proofs about a secure channel, for any number of calls, handles, tokens *)
(* and renewals, messages of any size and sequence numbers of any range:   *)
(* the types, the timers of the client and the requests it waits for; then *)
(* what goes between the two ends: each chunk follows the one before it,   *)
(* and the messages that the services get are the ones that were sent.     *)
(***************************************************************************)
EXTENDS SecureChannel, SequenceFacts

-----------------------------------------------------------------------------
(* Sequence numbers.                                                       *)

\* g gives the sequence numbers from sn on.
Numbers(sn, g, n) == g = [i \in 0..n |-> IF i = 0 THEN sn ELSE NextSN(g[i - 1])]

\* There is such a function, for any number of chunks.
LEMMA NumbersExist ==
  ASSUME NEW sn, NEW n \in Nat
  PROVE  \E g : Numbers(sn, g, n)
  <1> DEFINE T == {k \in Nat : \E g : Numbers(sn, g, k)}
  <1>1. 0 \in T
    <2>1. Numbers(sn, [i \in 0..0 |-> sn], 0)
      BY DEF Numbers
    <2> QED BY <2>1
  <1>2. ASSUME NEW k \in 0..(n - 1), k \in T PROVE k + 1 \in T
    <2>1. PICK g : Numbers(sn, g, k)
      BY <1>2
    <2> DEFINE h == [i \in 0..(k + 1) |-> IF i = k + 1 THEN NextSN(g[k]) ELSE g[i]]
    <2>2. k \in Nat
      OBVIOUS
    <2>3. \A i \in 0..k : g[i] = IF i = 0 THEN sn ELSE NextSN(g[i - 1])
      <3>1. g = [i \in 0..k |-> IF i = 0 THEN sn ELSE NextSN(g[i - 1])]
        BY <2>1 DEF Numbers
      <3> QED BY <3>1, Zenon
    <2>4. ASSUME NEW i \in 0..(k + 1)
          PROVE  h[i] = IF i = 0 THEN sn ELSE NextSN(h[i - 1])
      <3>1. CASE i = k + 1
        <4>1. i # 0 /\ i - 1 = k /\ k \in 0..(k + 1) /\ k # k + 1
          BY <2>2, <3>1
        <4>2. h[i] = NextSN(g[k]) /\ h[i - 1] = g[k]
          BY <3>1, <4>1
        <4> QED BY <4>1, <4>2
      <3>2. CASE i \in 0..k /\ i # 0
        <4>1. i # k + 1 /\ i - 1 # k + 1 /\ i - 1 \in 0..(k + 1)
          BY <2>2, <3>2
        <4>2. h[i] = g[i] /\ h[i - 1] = g[i - 1]
          BY <4>1
        <4> QED BY <2>3, <3>2, <4>2
      <3>3. CASE i = 0
        <4>1. 0 # k + 1 /\ 0 \in 0..k
          BY <2>2
        <4>2. h[i] = g[0]
          BY <3>3, <4>1
        <4> QED BY <2>3, <3>3, <4>1, <4>2
      <3> QED BY <2>2, <3>1, <3>2, <3>3
    <2>5. h = [i \in 0..(k + 1) |-> h[i]]
      OBVIOUS
    <2> HIDE DEF h
    <2>6. h = [i \in 0..(k + 1) |-> IF i = 0 THEN sn ELSE NextSN(h[i - 1])]
      BY <2>4, <2>5
    <2>7. Numbers(sn, h, k + 1)
      BY <2>6 DEF Numbers
    <2> QED BY <2>2, <2>7
  <1> HIDE DEF T
  <1>3. \A k \in 0..n : k \in T
    BY <1>1, <1>2, InductionTo
  <1>4. n \in 0..n
    OBVIOUS
  <1> QED BY <1>3, <1>4 DEF T

\* Two such functions give the same numbers.
LEMMA NumbersUnique ==
  ASSUME NEW sn, NEW n \in Nat, NEW m \in Nat, NEW g, NEW h, n <= m,
         Numbers(sn, g, n), Numbers(sn, h, m)
  PROVE  \A k \in 0..n : g[k] = h[k]
  <1> DEFINE T == {k \in Nat : k <= n => g[k] = h[k]}
  <1>1. \A i \in 0..n : g[i] = IF i = 0 THEN sn ELSE NextSN(g[i - 1])
    <2>1. g = [i \in 0..n |-> IF i = 0 THEN sn ELSE NextSN(g[i - 1])]
      BY DEF Numbers
    <2> QED BY <2>1, Zenon
  <1>2. \A i \in 0..m : h[i] = IF i = 0 THEN sn ELSE NextSN(h[i - 1])
    <2>1. h = [i \in 0..m |-> IF i = 0 THEN sn ELSE NextSN(h[i - 1])]
      BY DEF Numbers
    <2> QED BY <2>1, Zenon
  <1>3. 0 \in T
    <2>1. 0 \in 0..n /\ 0 \in 0..m
      OBVIOUS
    <2> QED BY <1>1, <1>2, <2>1
  <1>4. ASSUME NEW k \in 0..(n - 1), k \in T PROVE k + 1 \in T
    <2>1. k + 1 \in 0..n /\ k + 1 \in 0..m /\ k + 1 # 0 /\ (k + 1) - 1 = k /\ k + 1 \in Nat /\ k <= n
      OBVIOUS
    <2>2. g[k] = h[k]
      BY <1>4, <2>1
    <2>3. g[k + 1] = NextSN(g[k]) /\ h[k + 1] = NextSN(h[k])
      BY <1>1, <1>2, <2>1
    <2> QED BY <2>1, <2>2, <2>3
  <1> HIDE DEF T
  <1>5. \A k \in 0..n : k \in T
    BY <1>3, <1>4, InductionTo
  <1> QED BY <1>5 DEF T

\* What the recursion of SNAfter computes: n turns of NextSN
\* (SC_Chunks_EncodeSequenceNumber).
LEMMA SNAfterSteps ==
  ASSUME NEW sn, NEW n \in Nat
  PROVE  SNAfter(sn, 0) = sn /\ SNAfter(sn, n + 1) = NextSN(SNAfter(sn, n))
  <1>1. ASSUME NEW k \in Nat
        PROVE  \E g : Numbers(sn, g, k) /\ SNAfter(sn, k) = g[k]
    <2> DEFINE c == CHOOSE g : Numbers(sn, g, k)
    <2>1. Numbers(sn, c, k)
      BY NumbersExist
    <2>2. SNAfter(sn, k) = c[k]
      BY DEF SNAfter, Numbers
    <2> QED BY <2>1, <2>2
  <1>2. PICK z : Numbers(sn, z, 0) /\ SNAfter(sn, 0) = z[0]
    BY <1>1
  <1>3. z[0] = sn
    BY <1>2 DEF Numbers
  <1>4. PICK g : Numbers(sn, g, n) /\ SNAfter(sn, n) = g[n]
    BY <1>1
  <1>5. PICK h : Numbers(sn, h, n + 1) /\ SNAfter(sn, n + 1) = h[n + 1]
    BY <1>1
  <1>6. g[n] = h[n]
    <2>1. n + 1 \in Nat /\ n <= n + 1 /\ n \in 0..n
      OBVIOUS
    <2> QED BY <1>4, <1>5, <2>1, NumbersUnique
  <1>7. h[n + 1] = NextSN(h[n])
    <2>1. h = [i \in 0..(n + 1) |-> IF i = 0 THEN sn ELSE NextSN(h[i - 1])]
      BY <1>5 DEF Numbers
    <2>2. n + 1 \in 0..(n + 1) /\ n + 1 # 0 /\ (n + 1) - 1 = n
      OBVIOUS
    <2>3. \A i \in 0..(n + 1) : h[i] = IF i = 0 THEN sn ELSE NextSN(h[i - 1])
      BY <2>1, Zenon
    <2> QED BY <2>2, <2>3
  <1> QED BY <1>2, <1>3, <1>4, <1>5, <1>6, <1>7

\* A sequence number stays one that may be sent.
SNs == 1..SNMax

\* One turn.
LEMMA NextSNType ==
  ASSUME NEW sn \in SNs
  PROVE  NextSN(sn) \in SNs
  BY SecureChannelAssumption DEF NextSN, SNs

\* Any number of turns.
LEMMA SNAfterType ==
  ASSUME NEW sn \in SNs, NEW n \in Nat
  PROVE  SNAfter(sn, n) \in SNs
  <1> DEFINE T == {k \in Nat : SNAfter(sn, k) \in SNs}
  <1>1. 0 \in T
    BY SNAfterSteps
  <1>2. ASSUME NEW k \in 0..(n - 1), k \in T PROVE k + 1 \in T
    <2>1. k \in Nat /\ k + 1 \in Nat
      OBVIOUS
    <2>2. SNAfter(sn, k) \in SNs
      BY <1>2
    <2>3. SNAfter(sn, k + 1) = NextSN(SNAfter(sn, k))
      BY <2>1, SNAfterSteps
    <2> QED BY <2>1, <2>2, <2>3, NextSNType
  <1> HIDE DEF T
  <1>3. \A k \in 0..n : k \in T
    BY <1>1, <1>2, InductionTo
  <1>4. n \in 0..n
    OBVIOUS
  <1> QED BY <1>3, <1>4 DEF T

-----------------------------------------------------------------------------
(* Types.                                                                  *)

Token == [id : TokenIds \cup {0}, keys : Nat]
Body == [call : Calls \cup {0}, handle : Handles \cup {0}, part : Nat, of : Nat]

\* Chunks of the channel, and the error message that ends it.
Numbered == [type : {"MSG", "OPN", "CLO"}, isFinal : {"C", "F", "A"}, tok : Token, sn : SNs,
             id : Nat, body : Body]
ErrChunk == Chunk("ERR", "F", NoToken, 0, 0, NoBody)
Chunks == Numbered \cup {ErrChunk}

States == {"SC_CONNECTED", "SC_CONNECTED_RENEW", "SC_CLOSED"}
Connection ==
  [state : States, currentSecurityToken : Token, precedentSecurityToken : Token,
   serverNewSecuTokenActive : BOOLEAN, lastSNsent : SNs, lastSNreceived : SNs,
   intermediateChunks : Seq(Body), currentMsgRequestId : Nat]

Ctx == [id : Nat, handle : Handles \cup {0}, call : Calls \cup {0}, timeoutExpired : BOOLEAN]
Asked == [handle : Handles, call : Calls, chunks : Nat \ {0}]
EventTypes == {"SC_SERVICE_RCV_MSG", "SC_SND_FAILURE", "SC_REQUEST_TIMEOUT", "SC_DISCONNECTED"}
Events == [type : EventTypes, handle : Handles \cup {0}, call : Calls \cup {0}]
Todo == [id : Nat, handle : Handles \cup {0}, call : Calls \cup {0}]
Statuses == {"idle", "pending", "answered", "crossed", "failed", "timedout"}

ChanTypes ==
  /\ conn \in [Ends -> Connection]
  /\ \A p \in Ends : Len(conn[p].intermediateChunks) < MaxChunkCount
  /\ wire \in [Ends -> Seq(Chunks)]

ListTypes ==
  /\ clientNextReqId \in Nat
  /\ sentRequestIds \in Seq(Ctx)
  /\ running \subseteq Nat /\ posted \subseteq Nat
  /\ renewals \in Nat
  /\ refused \subseteq {"expired token", "protocol"} /\ torn \subseteq Ends

SvcTypes ==
  /\ toSc \in Seq(Asked) /\ toSvc \in Seq(Events)
  /\ context \in [Handles -> Calls \cup {0}] /\ cpt \in 0..MaxHandles
  /\ channel \in BOOLEAN
  /\ todo \subseteq Todo
  /\ status \in [Calls -> Statuses] /\ executed \in [Calls -> Nat]

Types == ChanTypes /\ ListTypes /\ SvcTypes

\* The two ends.
LEMMA EndsPeer ==
  /\ Client \in Ends /\ Server \in Ends /\ Client # Server
  /\ Peer(Client) = Server /\ Peer(Server) = Client
  /\ \A p \in Ends : p = Client \/ p = Server
  /\ \A p \in Ends : Peer(p) \in Ends /\ Peer(p) # p /\ Peer(Peer(p)) = p
  BY DEF Client, Server, Ends, Peer

\* What a chunk is made of.
LEMMA ChunkType ==
  ASSUME NEW type \in {"MSG", "OPN", "CLO"}, NEW fin \in {"C", "F", "A"}, NEW tok \in Token,
         NEW sn \in SNs, NEW id \in Nat, NEW body \in Body
  PROVE  Chunk(type, fin, tok, sn, id, body) \in Numbered
  BY DEF Chunk, Numbered

\* The parts of messages, and the absent ones.
LEMMA PartType ==
  /\ NoToken \in Token /\ NoBody \in Body /\ ErrChunk \in Chunks
  /\ \A call \in Calls \cup {0}, h \in Handles \cup {0}, i \in Nat, n \in Nat :
       Part(call, h, i, n) \in Body
  BY DEF NoToken, Token, NoBody, Body, Part, ErrChunk, Chunks

\* The token in use is one of the two of the connection.
LEMMA SendTokenType ==
  ASSUME ChanTypes, NEW p \in Ends
  PROVE  SendToken(p) \in Token
  BY DEF ChanTypes, SendToken, Connection

\* The chunks of a message, and the last one of an aborted message.
LEMMA MsgChunksType ==
  ASSUME ChanTypes, NEW p \in Ends, NEW id \in Nat, NEW call \in Calls \cup {0},
         NEW h \in Handles \cup {0}, NEW n \in Nat, NEW k \in Nat
  PROVE  /\ MsgChunks(p, id, call, h, n, k) \in Seq(Numbered)
         /\ Len(MsgChunks(p, id, call, h, n, k)) = k
         /\ \A i \in 1..k : MsgChunks(p, id, call, h, n, k)[i] =
              Chunk("MSG", IF i < n THEN "C" ELSE "F", SendToken(p),
                    SNAfter(conn[p].lastSNsent, i), id, Part(call, h, i, n))
         /\ AbortChunk(p, id, k) \in Numbered
  <1> DEFINE e(i) == Chunk("MSG", IF i < n THEN "C" ELSE "F", SendToken(p),
                           SNAfter(conn[p].lastSNsent, i), id, Part(call, h, i, n))
             m == [i \in 1..k |-> e(i)]
  <1>1. conn[p].lastSNsent \in SNs
    BY DEF ChanTypes, Connection
  <1>2. \A i \in 1..(k + 1) : SNAfter(conn[p].lastSNsent, i) \in SNs
    BY <1>1, SNAfterType
  <1>3. ASSUME NEW i \in 1..k PROVE e(i) \in Numbered
    <2>0. i \in Nat /\ i \in 1..(k + 1)
      OBVIOUS
    <2>1. Part(call, h, i, n) \in Body /\ SendToken(p) \in Token
      BY <2>0, PartType, SendTokenType
    <2> QED BY <1>2, <2>0, <2>1, ChunkType
  <1>4. AbortChunk(p, id, k) \in Numbered
    <2>1. k + 1 \in 1..(k + 1)
      OBVIOUS
    <2> QED BY <1>2, <2>1, PartType, SendTokenType, ChunkType DEF AbortChunk
  <1>5. MsgChunks(p, id, call, h, n, k) = m
    BY DEF MsgChunks
  <1> HIDE DEF e
  <1>6. m \in Seq(Numbered) /\ Len(m) = k /\ \A i \in 1..k : m[i] = e(i)
    <2>1. m \in [1..k -> Numbered]
      BY <1>3
    <2> QED BY <2>1
  <1> QED BY <1>4, <1>5, <1>6 DEF e

\* Chunks are put on the wire of p only.
LEMMA SendOnType ==
  ASSUME NEW w \in [Ends -> Seq(Chunks)], NEW p \in Ends, NEW m \in Seq(Chunks)
  PROVE  /\ SendOn(w, p, m) \in [Ends -> Seq(Chunks)]
         /\ SendOn(w, p, m)[p] = IF Open(Peer(p)) THEN w[p] \o m ELSE w[p]
         /\ SendOn(w, p, m)[Peer(p)] = w[Peer(p)]
  <1>1. w[p] \o m \in Seq(Chunks)
    OBVIOUS
  <1> QED BY <1>1, EndsPeer DEF SendOn

\* A connection that is closed, and one that has sent.
LEMMA ConnectionTypes ==
  ASSUME NEW r \in Connection, NEW n \in Nat
  PROVE  /\ ClosedEnd(r) \in Connection /\ Sent(r, n) \in Connection
         /\ ClosedEnd(r).intermediateChunks = <<>> /\ Len(ClosedEnd(r).intermediateChunks) = 0
         /\ Sent(r, n).intermediateChunks = r.intermediateChunks
         /\ [Sent(r, 1) EXCEPT !.state = "SC_CONNECTED_RENEW"] \in Connection
         /\ [Sent(r, 1) EXCEPT !.state = "SC_CONNECTED_RENEW"].intermediateChunks = r.intermediateChunks
  <1>1. NoToken \in Token /\ <<>> \in Seq(Body) /\ StartSN \in SNs
    BY PartType, SecureChannelAssumption DEF SNs
  <1>2. ClosedEnd(r) \in Connection /\ ClosedEnd(r).intermediateChunks = <<>>
    BY <1>1 DEF ClosedEnd, Connection, States
  <1>3. SNAfter(r.lastSNsent, n) \in SNs /\ SNAfter(r.lastSNsent, 1) \in SNs
    BY SNAfterType DEF Connection
  <1>4. Sent(r, n) \in Connection /\ Sent(r, n).intermediateChunks = r.intermediateChunks
    BY <1>3 DEF Sent, Connection
  <1>5. /\ [Sent(r, 1) EXCEPT !.state = "SC_CONNECTED_RENEW"] \in Connection
        /\ [Sent(r, 1) EXCEPT !.state = "SC_CONNECTED_RENEW"].intermediateChunks = r.intermediateChunks
    BY <1>3 DEF Sent, Connection, States
  <1> QED BY <1>2, <1>4, <1>5

\* The reports of a client that closes.
LEMMA PendingFailuresType ==
  ASSUME ListTypes
  PROVE  /\ PendingFailures \in Seq(Events)
         /\ \A e \in Elems(PendingFailures) :
              /\ e.type = "SC_SND_FAILURE" /\ e.handle \in Handles
              /\ \E m \in Elems(sentRequestIds) : m.handle # OPN /\ m.handle = e.handle /\ m.call = e.call
  <1> DEFINE X == {m \in Range(sentRequestIds) : m.handle # OPN}
             ctxs == Only(sentRequestIds, X)
             ev(m) == Event("SC_SND_FAILURE", m.handle, m.call)
             n == Len(ctxs)
             f == [i \in 1..n |-> ev(ctxs[i])]
  <1>1. ctxs \in Seq(Ctx \cap X)
    <2>1. sentRequestIds \in Seq(Ctx)
      BY DEF ListTypes
    <2> HIDE DEF X
    <2> QED BY <2>1, OnlyType
  <1>2. X \subseteq Elems(sentRequestIds) /\ \A m \in X : m.handle # OPN
    <2>0. sentRequestIds \in Seq(Ctx)
      BY DEF ListTypes
    <2>1. DOMAIN sentRequestIds = 1..Len(sentRequestIds)
      BY <2>0
    <2> QED BY <2>1 DEF Range, Elems
  <1>3. PendingFailures = f
    BY DEF PendingFailures
  <1> HIDE DEF X, ctxs
  <1>4. n \in Nat /\ \A i \in 1..n : ctxs[i] \in Ctx \cap X
    BY <1>1
  <1>5. \A m \in Ctx : ev(m) \in Events /\ ev(m).type = "SC_SND_FAILURE"
                       /\ ev(m).handle = m.handle /\ ev(m).call = m.call
                       /\ (m.handle # OPN => m.handle \in Handles)
    BY DEF Ctx, Event, Events, EventTypes, OPN
  <1> HIDE DEF ev, n
  <1>6. f \in [1..n -> Events]
    BY <1>4, <1>5
  <1>7. f \in Seq(Events) /\ Len(f) = n
    BY <1>4, <1>6
  <1>8. \A e \in Elems(f) : \E m \in Ctx \cap X : e = ev(m)
    BY <1>4, <1>7 DEF Elems
  <1> HIDE DEF f
  <1> QED BY <1>2, <1>3, <1>5, <1>7, <1>8

-----------------------------------------------------------------------------
(* The steps, one by one.                                                  *)

\* The client's channel takes a request of the services.
Pops(r) ==
  /\ toSc # <<>> /\ toSc' = Tail(toSc) /\ r = Head(toSc)
  /\ UNCHANGED <<posted, renewals, torn, refused, context, cpt, channel, todo, status, executed>>

\* An end takes a chunk.
ClientGets(c) ==
  /\ Open(Client) /\ wire[Server] # <<>> /\ c = Head(wire[Server])
  /\ UNCHANGED <<posted, renewals, toSc, context, cpt, channel, todo, status, executed>>

ServerGets(c) ==
  /\ Open(Server) /\ wire[Client] # <<>> /\ c = Head(wire[Client])
  /\ UNCHANGED <<clientNextReqId, sentRequestIds, running, posted, renewals,
                 toSc, toSvc, context, cpt, channel, status>>

\* An end closes, whatever for.  A request that could not be recorded is
\* taken, and reported, at the same time.
ClientCloses(ev, used, farewell) ==
  /\ Open(Client) /\ CloseClient(ev, used, farewell)
  /\ \/ toSc' = toSc /\ ev = <<>> /\ used = 0
     \/ /\ toSc # <<>> /\ toSc' = Tail(toSc) /\ used = 1 /\ "context" \in OutOfMemory
        /\ ev = <<Event("SC_SND_FAILURE", Head(toSc).handle, Head(toSc).call)>>
  /\ posted' \subseteq posted
  /\ refused' \subseteq refused \cup {"expired token", "protocol"}
  /\ UNCHANGED <<renewals, torn, context, cpt, channel, todo, status, executed>>

ServerCloses(farewell) ==
  /\ Open(Server) /\ CloseServer(farewell)
  /\ refused' \subseteq refused \cup {"expired token", "protocol"}
  /\ UNCHANGED <<clientNextReqId, sentRequestIds, running, posted, renewals, torn,
                 toSc, toSvc, context, cpt, channel, status, executed>>

\* The renewal timer comes: the renewal is asked, or nothing is done.
AsksRenewal ==
  /\ Renew \in posted /\ posted' = posted \ {Renew} /\ conn[Client].state = "SC_CONNECTED"
  /\ AskRenewal
  /\ UNCHANGED <<torn, refused, toSc, context, cpt, channel, todo, status, executed>>

LateRenewal ==
  /\ Renew \in posted /\ posted' = posted \ {Renew} /\ conn[Client].state # "SC_CONNECTED"
  /\ UNCHANGED <<renewals, wire, conn, sentRequestIds, running, clientNextReqId, svcVars,
                 torn, refused>>

\* The client takes the answer to a renewal.
TakesRenewal(c) ==
  /\ c.type = "OPN" /\ Accepted(Client, c)
  /\ wire' = Consumed(Server)
  /\ sentRequestIds' = OtherCtxs(c.id)
  /\ \/ /\ CtxOf(c.id).timeoutExpired
        /\ conn' = [conn EXCEPT ![Client] = AfterChunk(Client, c)]
        /\ running' = running \ {c.id}
     \/ /\ ~CtxOf(c.id).timeoutExpired /\ ExpectedOPN(Client, c)
        /\ conn' = [conn EXCEPT ![Client] =
             [AfterChunk(Client, c) EXCEPT
                !.state = "SC_CONNECTED",
                !.precedentSecurityToken = conn[Client].currentSecurityToken,
                !.currentSecurityToken = c.tok]]
        /\ running' = TimersAfterRenewal(c)
  /\ UNCHANGED <<clientNextReqId, toSvc, torn, refused>>

Step ==
  \/ \E c \in Calls, n \in Sizes : Request(c, n)
  \/ TreatServicesEvent
  \/ \E r : Pops(r) /\ RefuseRequest(r)
  \/ \E r : Pops(r) /\ SendRequest(r)
  \/ \E r : Pops(r) /\ r.chunks > 1 /\ UnrecordedRequest(r)
  \/ \E r : Pops(r) /\ \E k \in 0..(r.chunks - 1) : AbortRequest(r, k)
  \/ \E t \in running : TimerExpires(t)
  \/ AsksRenewal
  \/ LateRenewal
  \/ \E t \in posted : TreatRequestTimeout(t)
  \/ \E ev, used : \E farewell \in BOOLEAN : ClientCloses(ev, used, farewell)
  \/ \E c : ClientGets(c) /\ ClientChunk(c)
  \/ \E c : ClientGets(c) /\ ClientResponse(c)
  \/ \E c : ClientGets(c) /\ TakesRenewal(c)
  \/ \E farewell \in BOOLEAN : ServerCloses(farewell)
  \/ \E c : ServerGets(c) /\ ServerChunk(c)
  \/ \E c : ServerGets(c) /\ ServerRequest(c)
  \/ \E c : ServerGets(c) /\ ServerRenews(c)
  \/ \E q \in todo, n \in Sizes : Respond(q, n)

\* Every step is one of these.
LEMMA NextSteps ==
  ASSUME Types, Next
  PROVE  Step
  <1>0. toSc # <<>> => Head(toSc) \in Asked
    BY DEF Types, SvcTypes
  <1>1. CASE TreatRequest
    <2> DEFINE r == Head(toSc)
    <2>1. Pops(r) /\ r \in Asked
      BY <1>0, <1>1 DEF TreatRequest, Pops
    <2>2. RefuseRequest(r) \/ SendRequest(r) \/ UnrecordedRequest(r)
          \/ \E k \in 0..(r.chunks - 1) : AbortRequest(r, k)
      BY <1>1 DEF TreatRequest
    <2>3. CASE UnrecordedRequest(r)
      <3>1. r.chunks = 1 \/ r.chunks > 1
        BY <2>1 DEF Asked
      <3>2. CASE r.chunks = 1
        <4> DEFINE ev == <<Event("SC_SND_FAILURE", r.handle, r.call)>>
        <4>1. Open(Client) /\ CloseClient(ev, 1, TRUE) /\ "context" \in OutOfMemory
          <5>1. ~(r.chunks > 1)
            BY <3>2
          <5> HIDE DEF r, ev
          <5> QED BY <2>3, <5>1 DEF UnrecordedRequest, ev
        <4>2. ClientCloses(ev, 1, TRUE)
          BY <2>1, <4>1 DEF ClientCloses, Pops
        <4> QED BY <4>2 DEF Step
      <3> QED BY <2>1, <2>3, <3>1, <3>2 DEF Step
    <2> HIDE DEF r
    <2> QED BY <2>1, <2>2, <2>3 DEF Step
  <1>2. CASE TreatRenewTimer
    <2>1. CASE conn[Client].state = "SC_CONNECTED" /\ AskRenewal
      BY <1>2, <2>1 DEF TreatRenewTimer, AsksRenewal, Step
    <2>2. CASE conn[Client].state # "SC_CONNECTED"
      BY <1>2, <2>2 DEF TreatRenewTimer, LateRenewal, svcVars, Step
    <2>3. CASE /\ conn[Client].state = "SC_CONNECTED" /\ "buffer" \in OutOfMemory
               /\ CloseClient(<<>>, 0, TRUE) /\ UNCHANGED renewals
      <3>1. ClientCloses(<<>>, 0, TRUE)
        BY <1>2, <2>3 DEF TreatRenewTimer, ClientCloses, Open
      <3> QED BY <3>1 DEF Step
    <2> QED BY <1>2, <2>1, <2>2, <2>3 DEF TreatRenewTimer
  <1>3. CASE ClientReceive
    <2> DEFINE c == Head(wire[Server])
    <2>1. ClientGets(c)
      BY <1>3 DEF ClientReceive, ClientGets
    <2>2. ClientRefuses(c) \/ ClientError(c) \/ ClientChunk(c) \/ ClientResponse(c) \/ ClientRenewed(c)
      BY <1>3 DEF ClientReceive
    <2> HIDE DEF c
    <2>3. CASE ClientRefuses(c)
      <3>1. ClientCloses(<<>>, 0, TRUE)
        BY <2>1, <2>3 DEF ClientRefuses, Refuse, ClientCloses, ClientGets
      <3> QED BY <3>1 DEF Step
    <2>4. CASE ClientError(c)
      <3>1. ClientCloses(<<>>, 0, FALSE)
        BY <2>1, <2>4 DEF ClientError, ClientCloses, ClientGets
      <3> QED BY <3>1 DEF Step
    <2>5. CASE ClientRenewed(c)
      <3>1. CASE ~CtxOf(c.id).timeoutExpired /\ ~ExpectedOPN(Client, c)
        <4>1. ClientCloses(<<>>, 0, TRUE)
          BY <2>1, <2>5, <3>1 DEF ClientRenewed, ClientCloses, ClientGets
        <4> QED BY <4>1 DEF Step
      <3>2. CASE CtxOf(c.id).timeoutExpired \/ ExpectedOPN(Client, c)
        <4>1. TakesRenewal(c)
          BY <2>5, <3>2 DEF ClientRenewed, TakesRenewal
        <4> QED BY <2>1, <4>1 DEF Step
      <3> QED BY <3>1, <3>2
    <2> QED BY <2>1, <2>2, <2>3, <2>4, <2>5 DEF Step
  <1>4. CASE ServerReceive
    <2> DEFINE c == Head(wire[Client])
    <2>1. ServerGets(c)
      BY <1>4 DEF ServerReceive, ServerGets
    <2>2. ServerRefuses(c) \/ ServerClosed(c) \/ ServerChunk(c) \/ ServerRequest(c) \/ ServerRenews(c)
      BY <1>4 DEF ServerReceive
    <2> HIDE DEF c
    <2>3. CASE ServerRefuses(c)
      <3>1. ServerCloses(TRUE)
        BY <2>1, <2>3 DEF ServerRefuses, Refuse, ServerCloses, ServerGets
      <3> QED BY <3>1 DEF Step
    <2>4. CASE ServerClosed(c)
      <3>1. ServerCloses(FALSE)
        BY <2>1, <2>4 DEF ServerClosed, ServerCloses, ServerGets
      <3> QED BY <3>1 DEF Step
    <2> QED BY <2>1, <2>2, <2>3, <2>4 DEF Step
  <1>5. ASSUME NEW p \in Ending, NEW lost \in BOOLEAN, Disconnect(p, lost) PROVE Step
    <2>1. CASE p = Client /\ CloseClient(<<>>, 0, ~lost) /\ UNCHANGED todo
      <3>1. ClientCloses(<<>>, 0, ~lost)
        BY <1>5, <2>1 DEF Disconnect, ClientCloses
      <3>2. (~lost) \in BOOLEAN
        OBVIOUS
      <3> QED BY <3>1, <3>2 DEF Step
    <2>2. CASE /\ p = Server /\ CloseServer(~lost)
               /\ UNCHANGED <<sentRequestIds, running, clientNextReqId, toSvc>>
      <3>1. ServerCloses(~lost)
        BY <1>5, <2>2 DEF Disconnect, ServerCloses
      <3>2. (~lost) \in BOOLEAN
        OBVIOUS
      <3> QED BY <3>1, <3>2 DEF Step
    <2> QED BY <1>5, <2>1, <2>2 DEF Disconnect
  <1>6. \/ \E c \in Calls, n \in Sizes : Request(c, n)
        \/ TreatServicesEvent \/ TreatRequest
        \/ \E t \in running : TimerExpires(t)
        \/ TreatRenewTimer
        \/ \E t \in posted : TreatRequestTimeout(t)
        \/ ClientReceive \/ ServerReceive
        \/ \E q \in todo, n \in Sizes : Respond(q, n)
        \/ \E p \in Ending, lost \in BOOLEAN : Disconnect(p, lost)
    BY DEF Next
  <1> QED BY <1>1, <1>2, <1>3, <1>4, <1>5, <1>6 DEF Step

-----------------------------------------------------------------------------
(* What the steps do to the connections and to the wires.                  *)

\* p closes after it has sent m.
ClosesWith(p, m) ==
  /\ conn' = [conn EXCEPT ![p] = ClosedEnd(@)]
  /\ wire' = [SendOn(wire, p, m) EXCEPT ![Peer(p)] = <<>>]

\* p sends m, and its connection becomes r.
SendsAs(p, m, r) ==
  /\ conn' = [conn EXCEPT ![p] = r]
  /\ wire' = SendOn(wire, p, m)

\* p receives a chunk, and its connection becomes r.
ReceivesAs(p, r) ==
  /\ wire[Peer(p)] # <<>>
  /\ conn' = [conn EXCEPT ![p] = r]
  /\ wire' = Consumed(Peer(p))

\* p receives a chunk and sends m.
RepliesAs(p, m, r) ==
  /\ wire[Peer(p)] # <<>>
  /\ conn' = [conn EXCEPT ![p] = r]
  /\ wire' = SendOn(Consumed(Peer(p)), p, m)

\* p closes: the other end is left as it is.
LEMMA ClosesEffect ==
  ASSUME ChanTypes, NEW p \in Ends, NEW m \in Seq(Chunks), ClosesWith(p, m)
  PROVE  /\ ChanTypes'
         /\ conn'[p] = ClosedEnd(conn[p]) /\ conn'[Peer(p)] = conn[Peer(p)]
         /\ wire'[p] = (IF Open(Peer(p)) THEN wire[p] \o m ELSE wire[p])
         /\ wire'[Peer(p)] = <<>>
  <1> DEFINE w == SendOn(wire, p, m)
  <1>1. /\ w \in [Ends -> Seq(Chunks)]
        /\ w[p] = IF Open(Peer(p)) THEN wire[p] \o m ELSE wire[p]
    BY SendOnType DEF ChanTypes
  <1>2. ClosedEnd(conn[p]) \in Connection /\ Len(ClosedEnd(conn[p]).intermediateChunks) = 0
    BY ConnectionTypes DEF ChanTypes
  <1>3. <<>> \in Seq(Chunks)
    OBVIOUS
  <1>4. conn' = [conn EXCEPT ![p] = ClosedEnd(conn[p])] /\ wire' = [w EXCEPT ![Peer(p)] = <<>>]
    BY DEF ClosesWith
  <1> HIDE DEF w
  <1>5. /\ conn' \in [Ends -> Connection]
        /\ conn'[p] = ClosedEnd(conn[p]) /\ \A q \in Ends : q # p => conn'[q] = conn[q]
    BY <1>2, <1>4 DEF ChanTypes
  <1>6. wire' \in [Ends -> Seq(Chunks)] /\ wire'[p] = w[p] /\ wire'[Peer(p)] = <<>>
    BY <1>1, <1>3, <1>4, EndsPeer
  <1>7. \A q \in Ends : Len(conn'[q].intermediateChunks) < MaxChunkCount
    BY <1>2, <1>5, SecureChannelAssumption DEF ChanTypes
  <1> QED BY <1>1, <1>5, <1>6, <1>7, EndsPeer DEF ChanTypes

\* p sends.
LEMMA SendsEffect ==
  ASSUME ChanTypes, NEW p \in Ends, NEW m \in Seq(Chunks), NEW r \in Connection,
         r.intermediateChunks = conn[p].intermediateChunks, SendsAs(p, m, r)
  PROVE  /\ ChanTypes'
         /\ conn'[p] = r /\ conn'[Peer(p)] = conn[Peer(p)]
         /\ wire'[p] = (IF Open(Peer(p)) THEN wire[p] \o m ELSE wire[p])
         /\ wire'[Peer(p)] = wire[Peer(p)]
  <1>1. /\ conn' \in [Ends -> Connection]
        /\ conn'[p] = r /\ \A q \in Ends : q # p => conn'[q] = conn[q]
    BY DEF ChanTypes, SendsAs
  <1>2. /\ wire' \in [Ends -> Seq(Chunks)]
        /\ wire'[p] = (IF Open(Peer(p)) THEN wire[p] \o m ELSE wire[p])
        /\ wire'[Peer(p)] = wire[Peer(p)]
    BY SendOnType DEF ChanTypes, SendsAs
  <1>3. \A q \in Ends : Len(conn'[q].intermediateChunks) < MaxChunkCount
    BY <1>1 DEF ChanTypes
  <1> QED BY <1>1, <1>2, <1>3, EndsPeer DEF ChanTypes

\* p receives.
LEMMA ReceivesEffect ==
  ASSUME ChanTypes, NEW p \in Ends, NEW r \in Connection,
         Len(r.intermediateChunks) < MaxChunkCount, ReceivesAs(p, r)
  PROVE  /\ ChanTypes'
         /\ conn'[p] = r /\ conn'[Peer(p)] = conn[Peer(p)]
         /\ wire'[Peer(p)] = Tail(wire[Peer(p)])
         /\ wire'[p] = wire[p]
  <1>1. /\ conn' \in [Ends -> Connection]
        /\ conn'[p] = r /\ \A q \in Ends : q # p => conn'[q] = conn[q]
    BY DEF ChanTypes, ReceivesAs
  <1>2. wire[Peer(p)] \in Seq(Chunks) /\ Tail(wire[Peer(p)]) \in Seq(Chunks)
    BY EndsPeer DEF ChanTypes, ReceivesAs
  <1>3. /\ wire' \in [Ends -> Seq(Chunks)]
        /\ wire'[Peer(p)] = Tail(wire[Peer(p)])
        /\ wire'[p] = wire[p]
    BY <1>2, EndsPeer DEF ChanTypes, ReceivesAs, Consumed
  <1>4. \A q \in Ends : Len(conn'[q].intermediateChunks) < MaxChunkCount
    BY <1>1 DEF ChanTypes
  <1> QED BY <1>1, <1>3, <1>4, EndsPeer DEF ChanTypes

\* p receives and sends.
LEMMA RepliesEffect ==
  ASSUME ChanTypes, NEW p \in Ends, NEW m \in Seq(Chunks), NEW r \in Connection,
         Len(r.intermediateChunks) < MaxChunkCount, RepliesAs(p, m, r)
  PROVE  /\ ChanTypes'
         /\ conn'[p] = r /\ conn'[Peer(p)] = conn[Peer(p)]
         /\ wire'[Peer(p)] = Tail(wire[Peer(p)])
         /\ wire'[p] = (IF Open(Peer(p)) THEN wire[p] \o m ELSE wire[p])
  <1> DEFINE w == Consumed(Peer(p))
  <1>1. /\ conn' \in [Ends -> Connection]
        /\ conn'[p] = r /\ \A q \in Ends : q # p => conn'[q] = conn[q]
    BY DEF ChanTypes, RepliesAs
  <1>2. wire[Peer(p)] \in Seq(Chunks) /\ Tail(wire[Peer(p)]) \in Seq(Chunks)
    BY EndsPeer DEF ChanTypes, RepliesAs
  <1>3. /\ w \in [Ends -> Seq(Chunks)]
        /\ w[Peer(p)] = Tail(wire[Peer(p)])
        /\ w[p] = wire[p]
    BY <1>2, EndsPeer DEF ChanTypes, Consumed
  <1> HIDE DEF w
  <1>4. /\ wire' \in [Ends -> Seq(Chunks)]
        /\ wire'[p] = (IF Open(Peer(p)) THEN w[p] \o m ELSE w[p])
        /\ wire'[Peer(p)] = w[Peer(p)]
    BY <1>3, SendOnType DEF RepliesAs, w
  <1>5. \A q \in Ends : Len(conn'[q].intermediateChunks) < MaxChunkCount
    BY <1>1 DEF ChanTypes
  <1> QED BY <1>1, <1>3, <1>4, <1>5, EndsPeer DEF ChanTypes

\* The connection after a chunk.
LEMMA AfterChunkType ==
  ASSUME ChanTypes, NEW p \in Ends, NEW c \in Numbered, RoomForChunk(p, c)
  PROVE  /\ AfterChunk(p, c) \in Connection
         /\ Len(AfterChunk(p, c).intermediateChunks) < MaxChunkCount
         /\ AfterChunk(p, c).state = conn[p].state
         /\ AfterChunk(p, c).lastSNsent = conn[p].lastSNsent
         /\ AfterChunk(p, c).lastSNreceived = c.sn
         /\ AfterChunk(p, c).currentSecurityToken = conn[p].currentSecurityToken
         /\ AfterChunk(p, c).precedentSecurityToken = conn[p].precedentSecurityToken
         /\ AfterChunk(p, c).serverNewSecuTokenActive =
              (conn[p].serverNewSecuTokenActive
                 \/ (c.type # "OPN" /\ c.tok.id = conn[p].currentSecurityToken.id))
         /\ AfterChunk(p, c).intermediateChunks = TreatMsgMultiChunks(p, c)
         /\ AfterChunk(p, c).currentMsgRequestId = (IF c.isFinal = "C" THEN c.id ELSE 0)
         /\ Message(p, c) \in Seq(Body) /\ Message(p, c)[1] \in Body
  <1> DEFINE r == conn[p]
             t == TreatMsgMultiChunks(p, c)
             b == r.serverNewSecuTokenActive \/ (c.type # "OPN" /\ c.tok.id = r.currentSecurityToken.id)
             n == IF c.isFinal = "C" THEN c.id ELSE 0
  <1>1. r \in Connection /\ Len(r.intermediateChunks) < MaxChunkCount
    BY DEF ChanTypes
  <1>2. r.intermediateChunks \in Seq(Body) /\ c.body \in Body /\ c.sn \in SNs /\ n \in Nat
    BY <1>1 DEF Connection, Numbered
  <1>3. t \in Seq(Body) /\ Len(t) < MaxChunkCount
    BY <1>2, SecureChannelAssumption DEF TreatMsgMultiChunks, RoomForChunk
  <1>4. Message(p, c) \in Seq(Body) /\ Message(p, c)[1] \in Body
    <2>1. Message(p, c) \in Seq(Body) /\ Len(Message(p, c)) > 0
      BY <1>2 DEF Message
    <2>2. 1 \in 1..Len(Message(p, c))
      BY <2>1
    <2> QED BY <2>1, <2>2, ElementOfSeq
  <1>5. b \in BOOLEAN
    OBVIOUS
  <1>6. AfterChunk(p, c) = [r EXCEPT !.lastSNreceived = c.sn, !.serverNewSecuTokenActive = b,
                                     !.intermediateChunks = t, !.currentMsgRequestId = n]
    BY DEF AfterChunk
  <1> HIDE DEF r, t, b, n
  <1>7. /\ AfterChunk(p, c) \in Connection
        /\ AfterChunk(p, c).state = r.state
        /\ AfterChunk(p, c).lastSNsent = r.lastSNsent
        /\ AfterChunk(p, c).lastSNreceived = c.sn
        /\ AfterChunk(p, c).currentSecurityToken = r.currentSecurityToken
        /\ AfterChunk(p, c).precedentSecurityToken = r.precedentSecurityToken
        /\ AfterChunk(p, c).serverNewSecuTokenActive = b
        /\ AfterChunk(p, c).intermediateChunks = t
        /\ AfterChunk(p, c).currentMsgRequestId = n
    BY <1>1, <1>2, <1>3, <1>5, <1>6 DEF Connection
  <1> QED BY <1>3, <1>4, <1>7 DEF r, t, b, n

-----------------------------------------------------------------------------
(* Types are kept.                                                         *)

\* A sequence of chunks of the channel is one of chunks.
LEMMA NumberedSeq ==
  ASSUME NEW m \in Seq(Numbered)
  PROVE  m \in Seq(Chunks) /\ \A e \in Numbered : Append(m, e) \in Seq(Chunks) /\ <<e>> \in Seq(Chunks)
  <1>1. Numbered \subseteq Chunks
    BY DEF Chunks
  <1> HIDE DEF Numbered, Chunks
  <1>2. m \in Seq(Chunks)
    <2>1. DOMAIN m = 1..Len(m) /\ Len(m) \in Nat /\ \A i \in 1..Len(m) : m[i] \in Numbered
      BY ElementOfSeq
    <2>2. m = [i \in 1..Len(m) |-> m[i]]
      BY <2>1
    <2>3. m \in [1..Len(m) -> Chunks]
      BY <1>1, <2>1, <2>2
    <2> QED BY <2>1, <2>3
  <1> QED BY <1>1, <1>2

\* The elements that the list keeps when one is taken out, or put first.
LEMMA CtxTypes ==
  ASSUME ListTypes, NEW id \in Nat, \E i \in 1..Len(sentRequestIds) : sentRequestIds[i].id = id
  PROVE  /\ CtxIndex(id) \in 1..Len(sentRequestIds) /\ CtxOf(id) = sentRequestIds[CtxIndex(id)]
         /\ CtxOf(id) \in Ctx /\ CtxOf(id).id = id /\ CtxOf(id) \in Elems(sentRequestIds)
         /\ OtherCtxs(id) = Without(sentRequestIds, CtxIndex(id))
         /\ OtherCtxs(id) \in Seq(Ctx)
         /\ Elems(sentRequestIds) = Elems(OtherCtxs(id)) \cup {CtxOf(id)}
         /\ <<CtxOf(id)>> \o OtherCtxs(id) \in Seq(Ctx)
         /\ Elems(<<CtxOf(id)>> \o OtherCtxs(id)) = Elems(sentRequestIds)
  <1> DEFINE s == sentRequestIds
             k == CtxIndex(id)
  <1>0. s \in Seq(Ctx)
    BY DEF ListTypes
  <1>1. k \in 1..Len(s) /\ s[k].id = id
    BY DEF CtxIndex
  <1>2. CtxOf(id) = s[k] /\ OtherCtxs(id) = Without(s, k)
    BY DEF CtxOf, OtherCtxs, RemoveAt, Without
  <1> HIDE DEF s, k
  <1>3. s[k] \in Ctx /\ s[k] \in Elems(s)
    BY <1>0, <1>1, ElemsType
  <1>4. Without(s, k) \in Seq(Ctx) /\ Elems(s) = Elems(Without(s, k)) \cup {s[k]}
    BY <1>0, <1>1, WithoutSeq
  <1> DEFINE o == <<s[k]>>
  <1>5. o \in Seq(Ctx) /\ Elems(o) = {s[k]}
    BY <1>3, ElemsSmall
  <1> HIDE DEF o
  <1>6. o \o Without(s, k) \in Seq(Ctx) /\ Elems(o \o Without(s, k)) = Elems(o) \cup Elems(Without(s, k))
    BY <1>4, <1>5, ElemsConcat
  <1> QED BY <1>1, <1>2, <1>3, <1>4, <1>5, <1>6 DEF s, k, o

\* A timeout changes nothing but the mark.
LEMMA MarkExpiredType ==
  ASSUME ListTypes, NEW t
  PROVE  /\ MarkExpired(t) \in Seq(Ctx) /\ Len(MarkExpired(t)) = Len(sentRequestIds)
         /\ \A i \in 1..Len(sentRequestIds) :
              /\ MarkExpired(t)[i].id = sentRequestIds[i].id
              /\ MarkExpired(t)[i].handle = sentRequestIds[i].handle
              /\ MarkExpired(t)[i].call = sentRequestIds[i].call
              /\ MarkExpired(t)[i].timeoutExpired =
                   (sentRequestIds[i].timeoutExpired \/ sentRequestIds[i].id = t)
  <1> DEFINE s == sentRequestIds
             e(i) == [s[i] EXCEPT !.timeoutExpired = s[i].timeoutExpired \/ s[i].id = t]
  <1>0. s \in Seq(Ctx)
    BY DEF ListTypes
  <1> HIDE DEF s
  <1>1. s \in Seq(Ctx) /\ Len(s) \in Nat /\ \A i \in 1..Len(s) : s[i] \in Ctx
    BY <1>0
  <1>2. \A m \in Ctx : LET n == [m EXCEPT !.timeoutExpired = m.timeoutExpired \/ m.id = t]
                       IN  /\ n \in Ctx /\ n.id = m.id /\ n.handle = m.handle /\ n.call = m.call
                           /\ n.timeoutExpired = (m.timeoutExpired \/ m.id = t)
    BY DEF Ctx
  <1>3. \A i \in 1..Len(s) : /\ e(i) \in Ctx /\ e(i).id = s[i].id /\ e(i).handle = s[i].handle
                             /\ e(i).call = s[i].call
                             /\ e(i).timeoutExpired = (s[i].timeoutExpired \/ s[i].id = t)
    BY <1>1, <1>2
  <1>4. MarkExpired(t) = [i \in 1..Len(s) |-> e(i)]
    BY DEF MarkExpired, s
  <1> HIDE DEF e
  <1>5. MarkExpired(t) \in [1..Len(s) -> Ctx]
    BY <1>3, <1>4
  <1>6. MarkExpired(t) \in Seq(Ctx) /\ Len(MarkExpired(t)) = Len(s)
    BY <1>1, <1>5
  <1> QED BY <1>3, <1>4, <1>6 DEF s

\* The requests of the services that have timed out are reported.
LEMMA TimeoutEventsType ==
  ASSUME ListTypes, NEW t \in Nat
  PROVE  TimeoutEvents(t) \in Seq(Events)
  <1>1. CASE IsServicesRequest(t)
    <2>1. \E i \in 1..Len(sentRequestIds) : sentRequestIds[i].id = t
      BY <1>1 DEF IsServicesRequest
    <2>2. CtxOf(t) \in Ctx
      BY <2>1, CtxTypes
    <2>3. TimeoutEvent(t) \in Events
      BY <2>2 DEF TimeoutEvent, Event, Events, EventTypes, Ctx
    <2> QED BY <1>1, <2>3 DEF TimeoutEvents
  <1>2. CASE ~IsServicesRequest(t)
    BY <1>2 DEF TimeoutEvents
  <1> QED BY <1>1, <1>2

\* A handle that is given is free, and the last one looked at.
LEMMA FreshType ==
  ASSUME SvcTypes, NEW h \in FreshHandles
  PROVE  h \in Handles /\ context[h] = 0
  <1> DEFINE at(d) == (cpt + d) % (MaxHandles + 1)
  <1>1. PICK d \in 1..MaxHandles : h = at(d) /\ at(d) # 0 /\ context[at(d)] = 0
    BY DEF FreshHandles
  <1>2. MaxHandles \in Nat /\ MaxHandles > 0 /\ cpt \in Nat
    BY SecureChannelAssumption DEF SvcTypes
  <1>3. at(d) \in 0..MaxHandles
    BY <1>2
  <1> QED BY <1>1, <1>3, <1>2 DEF Handles

\* A request of the services.
LEMMA RequestTypes ==
  ASSUME Types, NEW c \in Calls, NEW n \in Sizes, Request(c, n)
  PROVE  Types'
  <1>1. ChanTypes' /\ ListTypes'
    BY DEF Request, chanVars, Types, ChanTypes, ListTypes
  <1>2. n \in Nat \ {0}
    BY SecureChannelAssumption
  <1>3. CASE FreshHandles = {} /\ status' = [status EXCEPT ![c] = "failed"]
             /\ UNCHANGED <<context, cpt, toSc>>
    <2>1. status' \in [Calls -> Statuses]
      BY <1>3 DEF Types, SvcTypes, Statuses
    <2> QED BY <1>1, <1>3, <2>1 DEF Request, Types, SvcTypes
  <1>4. ASSUME NEW h \in FreshHandles,
               context' = [context EXCEPT ![h] = c], cpt' = h,
               toSc' = Append(toSc, [handle |-> h, call |-> c, chunks |-> n]),
               status' = [status EXCEPT ![c] = "pending"]
        PROVE  SvcTypes'
    <2>1. h \in Handles
      BY FreshType DEF Types
    <2>2. [handle |-> h, call |-> c, chunks |-> n] \in Asked
      BY <1>2, <2>1 DEF Asked
    <2>3. toSc' \in Seq(Asked)
      BY <1>4, <2>2 DEF Types, SvcTypes
    <2>4. h \in 0..MaxHandles
      BY <2>1, SecureChannelAssumption DEF Handles
    <2>5. context' \in [Handles -> Calls \cup {0}] /\ status' \in [Calls -> Statuses]
      BY <1>4 DEF Types, SvcTypes, Statuses
    <2> QED BY <1>4, <2>3, <2>4, <2>5 DEF Types, SvcTypes, Request
  <1>5. ASSUME NEW h \in FreshHandles,
               context' = [context EXCEPT ![h] = c], cpt' = h, toSc' = toSc,
               status' = [status EXCEPT ![c] = "failed"]
        PROVE  SvcTypes'
    <2>1. h \in Handles
      BY FreshType DEF Types
    <2>2. h \in 0..MaxHandles
      BY <2>1, SecureChannelAssumption DEF Handles
    <2>3. context' \in [Handles -> Calls \cup {0}] /\ status' \in [Calls -> Statuses]
      BY <1>5 DEF Types, SvcTypes, Statuses
    <2> QED BY <1>5, <2>2, <2>3 DEF Types, SvcTypes, Request
  <1> QED BY <1>1, <1>3, <1>4, <1>5 DEF Request, Types

\* The services treat an event.
LEMMA ServicesTypes ==
  ASSUME Types, TreatServicesEvent
  PROVE  Types'
  <1>1. ChanTypes' /\ ListTypes'
    BY DEF TreatServicesEvent, chanVars, Types, ChanTypes, ListTypes
  <1>2. toSvc' \in Seq(Events)
    BY DEF TreatServicesEvent, Types, SvcTypes
  <1>3. context \in [Handles -> Calls \cup {0}] /\ status \in [Calls -> Statuses] /\ channel \in BOOLEAN
    BY DEF Types, SvcTypes
  <1>4. ASSUME NEW h, NEW result \in Statuses, Ended(h, result)
        PROVE  /\ context' \in [Handles -> Calls \cup {0}] /\ status' \in [Calls -> Statuses]
               /\ channel' \in BOOLEAN
    BY <1>3, <1>4 DEF Ended
  <1>5. /\ context' \in [Handles -> Calls \cup {0}] /\ status' \in [Calls -> Statuses]
        /\ channel' \in BOOLEAN
    <2> DEFINE e == Head(toSvc)
    <2>0. ServicesReceive(e) \/ ServicesFailure(e) \/ ServicesLost(e)
      BY DEF TreatServicesEvent
    <2> HIDE DEF e
    <2>1. CASE ServicesReceive(e)
      BY <1>4, <2>1 DEF ServicesReceive, Statuses
    <2>2. CASE ServicesFailure(e)
      BY <1>3, <1>4, <2>2 DEF ServicesFailure, Statuses
    <2>3. CASE ServicesLost(e)
      BY <1>3, <2>3 DEF ServicesLost, Statuses
    <2> QED BY <2>0, <2>1, <2>2, <2>3
  <1> QED BY <1>1, <1>2, <1>5 DEF TreatServicesEvent, Types, SvcTypes

\* A request that the channel takes.
LEMMA PopsType ==
  ASSUME Types, NEW r, Pops(r)
  PROVE  /\ r \in Asked /\ toSc' \in Seq(Asked)
         /\ Event("SC_SND_FAILURE", r.handle, r.call) \in Events
         /\ Append(toSvc, Event("SC_SND_FAILURE", r.handle, r.call)) \in Seq(Events)
  <1>1. r \in Asked /\ toSc' \in Seq(Asked)
    BY DEF Pops, Types, SvcTypes
  <1>2. Event("SC_SND_FAILURE", r.handle, r.call) \in Events
    BY <1>1 DEF Asked, Event, Events, EventTypes
  <1> QED BY <1>1, <1>2 DEF Types, SvcTypes

\* A request that comes when the channel is closed.
LEMMA RefuseTypes ==
  ASSUME Types, NEW r, Pops(r), RefuseRequest(r)
  PROVE  Types'
  <1>1. ChanTypes' /\ ListTypes'
    BY DEF Pops, RefuseRequest, Types, ChanTypes, ListTypes
  <1>2. toSc' \in Seq(Asked) /\ toSvc' \in Seq(Events)
    BY PopsType DEF RefuseRequest
  <1> QED BY <1>1, <1>2 DEF Pops, Types, SvcTypes

\* What the requests put on the wire.
SentWhole(r) == MsgChunks(Client, clientNextReqId, r.call, r.handle, r.chunks, r.chunks)
SentPart(r, k) ==
  Append(MsgChunks(Client, clientNextReqId, r.call, r.handle, r.chunks, k),
         AbortChunk(Client, clientNextReqId, k))
SentUnrecorded(r) ==
  Append(MsgChunks(Client, clientNextReqId, r.call, r.handle, r.chunks, r.chunks - 1),
         AbortChunk(Client, clientNextReqId + 1, r.chunks))

\* What is sent for a request is a sequence of chunks.
LEMMA SentTypes ==
  ASSUME ChanTypes, ListTypes, NEW r \in Asked
  PROVE  /\ SentWhole(r) \in Seq(Chunks) /\ SentUnrecorded(r) \in Seq(Chunks)
         /\ \A k \in Nat : SentPart(r, k) \in Seq(Chunks)
  <1>1. /\ Client \in Ends /\ clientNextReqId \in Nat /\ clientNextReqId + 1 \in Nat
        /\ r.call \in Calls \cup {0} /\ r.handle \in Handles \cup {0} /\ r.chunks \in Nat
        /\ r.chunks - 1 \in Nat
    <2>1. clientNextReqId \in Nat
      BY DEF ListTypes
    <2>2. r.call \in Calls \cup {0} /\ r.handle \in Handles \cup {0} /\ r.chunks \in Nat \ {0}
      BY DEF Asked
    <2> QED BY <2>1, <2>2, EndsPeer
  <1>2. \A k \in Nat : /\ MsgChunks(Client, clientNextReqId, r.call, r.handle, r.chunks, k) \in Seq(Numbered)
                       /\ AbortChunk(Client, clientNextReqId, k) \in Numbered
                       /\ AbortChunk(Client, clientNextReqId + 1, k) \in Numbered
    BY <1>1, MsgChunksType
  <1> QED BY <1>1, <1>2, NumberedSeq DEF SentWhole, SentPart, SentUnrecorded

\* What SendRequest does to the connection and the wire of the client.
LEMMA SendEffect ==
  ASSUME Types, NEW r, Pops(r), SendRequest(r)
  PROVE  /\ SendsAs(Client, SentWhole(r), Sent(conn[Client], r.chunks)) /\ r \in Asked
         /\ SentWhole(r) \in Seq(Chunks) /\ Sent(conn[Client], r.chunks) \in Connection
         /\ Sent(conn[Client], r.chunks).intermediateChunks = conn[Client].intermediateChunks
  <1>1. r \in Asked
    BY PopsType
  <1>2. SentWhole(r) \in Seq(Chunks)
    BY <1>1, SentTypes DEF Types
  <1>3. conn[Client] \in Connection /\ r.chunks \in Nat
    BY <1>1, EndsPeer DEF Types, ChanTypes, Asked
  <1> QED BY <1>1, <1>2, <1>3, ConnectionTypes DEF SendRequest, SendsAs, SentWhole

\* The same for AbortRequest.
LEMMA AbortEffect ==
  ASSUME Types, NEW r, Pops(r), NEW k \in 0..(r.chunks - 1), AbortRequest(r, k)
  PROVE  /\ SendsAs(Client, SentPart(r, k), Sent(conn[Client], k + 1)) /\ r \in Asked
         /\ SentPart(r, k) \in Seq(Chunks) /\ Sent(conn[Client], k + 1) \in Connection
         /\ Sent(conn[Client], k + 1).intermediateChunks = conn[Client].intermediateChunks
  <1>1. r \in Asked
    BY PopsType
  <1>2. conn[Client] \in Connection /\ k \in Nat /\ k + 1 \in Nat
    BY <1>1, EndsPeer DEF Types, ChanTypes, Asked
  <1>3. SentPart(r, k) \in Seq(Chunks)
    BY <1>1, <1>2, SentTypes DEF Types
  <1> QED BY <1>1, <1>2, <1>3, ConnectionTypes DEF AbortRequest, SendsAs, SentPart

\* The same for UnrecordedRequest, when it does not close the channel.
LEMMA UnrecordedEffect ==
  ASSUME Types, NEW r, Pops(r), r.chunks > 1, UnrecordedRequest(r)
  PROVE  /\ SendsAs(Client, SentUnrecorded(r), Sent(conn[Client], r.chunks + 1)) /\ r \in Asked
         /\ SentUnrecorded(r) \in Seq(Chunks) /\ Sent(conn[Client], r.chunks + 1) \in Connection
         /\ Sent(conn[Client], r.chunks + 1).intermediateChunks = conn[Client].intermediateChunks
         /\ clientNextReqId' = clientNextReqId + 2 /\ "context" \in OutOfMemory
         /\ toSvc' = Append(toSvc, Event("SC_SND_FAILURE", r.handle, r.call))
         /\ UNCHANGED <<sentRequestIds, running>>
  <1>1. r \in Asked
    BY PopsType
  <1>2. conn[Client] \in Connection /\ r.chunks + 1 \in Nat /\ r.chunks # 1
    BY <1>1, EndsPeer DEF Types, ChanTypes, Asked
  <1>3. SentUnrecorded(r) \in Seq(Chunks)
    BY <1>1, SentTypes DEF Types
  <1>4. /\ SendsAs(Client, SentUnrecorded(r), Sent(conn[Client], r.chunks + 1))
        /\ clientNextReqId' = clientNextReqId + 2 /\ "context" \in OutOfMemory
        /\ toSvc' = Append(toSvc, Event("SC_SND_FAILURE", r.handle, r.call))
        /\ UNCHANGED <<sentRequestIds, running>>
    BY <1>2 DEF UnrecordedRequest, SendsAs, SentUnrecorded
  <1> QED BY <1>1, <1>2, <1>3, <1>4, ConnectionTypes

\* The request that the client waits for.
LEMMA RequestCtxType ==
  ASSUME ListTypes, NEW h \in Handles \cup {0}, NEW c \in Calls \cup {0}
  PROVE  /\ RequestCtx(clientNextReqId, h, c) \in Ctx
         /\ Append(sentRequestIds, RequestCtx(clientNextReqId, h, c)) \in Seq(Ctx)
         /\ clientNextReqId + 1 \in Nat /\ clientNextReqId + 2 \in Nat
         /\ TimersWith(clientNextReqId) \subseteq Nat
  <1>1. clientNextReqId \in Nat /\ sentRequestIds \in Seq(Ctx) /\ running \subseteq Nat
    BY DEF ListTypes
  <1>2. RequestCtx(clientNextReqId, h, c) \in Ctx
    BY <1>1 DEF RequestCtx, Ctx
  <1> QED BY <1>1, <1>2 DEF TimersWith

\* SendRequest keeps the types.
LEMMA SendTypes ==
  ASSUME Types, NEW r, Pops(r), SendRequest(r)
  PROVE  Types'
  <1>1. ChanTypes'
    BY SendEffect, SendsEffect, EndsPeer DEF Types
  <1>2. r \in Asked /\ toSc' \in Seq(Asked)
    BY PopsType
  <1>3. r.handle \in Handles \cup {0} /\ r.call \in Calls \cup {0}
    BY <1>2 DEF Asked
  <1>4. ListTypes'
    BY <1>3, RequestCtxType DEF SendRequest, Pops, Types, ListTypes
  <1>5. SvcTypes'
    BY <1>2 DEF SendRequest, Pops, Types, SvcTypes
  <1> QED BY <1>1, <1>4, <1>5 DEF Types

\* AbortRequest keeps the types.
LEMMA AbortTypes ==
  ASSUME Types, NEW r, Pops(r), NEW k \in 0..(r.chunks - 1), AbortRequest(r, k)
  PROVE  Types'
  <1>1. ChanTypes'
    BY AbortEffect, SendsEffect, EndsPeer DEF Types
  <1>2. ListTypes'
    <2>1. clientNextReqId \in Nat /\ clientNextReqId' = clientNextReqId + 1
      BY DEF AbortRequest, Types, ListTypes
    <2>2. clientNextReqId' \in Nat
      BY <2>1
    <2> QED BY <2>2 DEF AbortRequest, Pops, Types, ListTypes
  <1>3. SvcTypes'
    BY PopsType DEF AbortRequest, Pops, Types, SvcTypes
  <1> QED BY <1>1, <1>2, <1>3 DEF Types

\* UnrecordedRequest keeps the types.
LEMMA UnrecordedTypes ==
  ASSUME Types, NEW r, Pops(r), r.chunks > 1, UnrecordedRequest(r)
  PROVE  Types'
  <1>1. ChanTypes'
    BY UnrecordedEffect, SendsEffect, EndsPeer DEF Types
  <1>2. ListTypes'
    <2>1. clientNextReqId \in Nat /\ clientNextReqId' = clientNextReqId + 2
      BY UnrecordedEffect DEF Types, ListTypes
    <2>2. clientNextReqId' \in Nat
      BY <2>1
    <2> QED BY <2>2, UnrecordedEffect DEF Pops, Types, ListTypes
  <1>3. SvcTypes'
    BY UnrecordedEffect, PopsType DEF Pops, Types, SvcTypes
  <1> QED BY <1>1, <1>2, <1>3 DEF Types

\* A timer that expires keeps the types.
LEMMA TimerTypes ==
  ASSUME Types, NEW t \in running, TimerExpires(t)
  PROVE  Types'
  <1>1. running \subseteq Nat /\ posted \subseteq Nat
    BY DEF Types, ListTypes
  <1>2. running' \subseteq Nat /\ posted' \subseteq Nat
    BY <1>1 DEF TimerExpires
  <1>3. ChanTypes' /\ ListTypes'
    BY <1>2 DEF TimerExpires, Types, ChanTypes, ListTypes
  <1>4. SvcTypes'
    BY DEF TimerExpires, svcVars, Types, SvcTypes
  <1> QED BY <1>3, <1>4 DEF Types

\* The request of a renewal.
AskChunk == Chunk("OPN", "F", NoToken, SNAfter(conn[Client].lastSNsent, 1), clientNextReqId, NoBody)
AskedEnd == [Sent(conn[Client], 1) EXCEPT !.state = "SC_CONNECTED_RENEW"]

\* What AskRenewal does to the connection and the wire of the client.
LEMMA AskEffect ==
  ASSUME Types, AsksRenewal
  PROVE  /\ SendsAs(Client, <<AskChunk>>, AskedEnd) /\ AskChunk \in Numbered
         /\ <<AskChunk>> \in Seq(Chunks) /\ AskedEnd \in Connection
         /\ AskedEnd.intermediateChunks = conn[Client].intermediateChunks
  <1>1. conn[Client] \in Connection /\ clientNextReqId \in Nat /\ conn[Client].lastSNsent \in SNs
    BY EndsPeer DEF Types, ChanTypes, ListTypes, Connection
  <1>2. SNAfter(conn[Client].lastSNsent, 1) \in SNs
    BY <1>1, SNAfterType
  <1>3. AskChunk \in Numbered
    BY <1>1, <1>2, PartType, ChunkType DEF AskChunk
  <1>4. <<AskChunk>> \in Seq(Chunks)
    <2>1. <<>> \in Seq(Numbered)
      OBVIOUS
    <2> QED BY <1>3, <2>1, NumberedSeq
  <1>5. SendsAs(Client, <<AskChunk>>, AskedEnd)
    BY DEF AsksRenewal, AskRenewal, SendsAs, AskChunk, AskedEnd
  <1> QED BY <1>1, <1>3, <1>4, <1>5, ConnectionTypes DEF AskedEnd

\* AskRenewal keeps the types.
LEMMA AskTypes ==
  ASSUME Types, AsksRenewal
  PROVE  Types'
  <1>1. ChanTypes'
    BY AskEffect, SendsEffect, EndsPeer DEF Types
  <1>2. OPN \in Handles \cup {0} /\ 0 \in Calls \cup {0}
    BY DEF OPN
  <1>3. renewals' \in Nat /\ posted' \subseteq Nat
    <2>1. renewals \in Nat /\ renewals' = renewals + 1 /\ posted \subseteq Nat
      BY DEF AsksRenewal, AskRenewal, Types, ListTypes
    <2> QED BY <2>1 DEF AsksRenewal
  <1>4. ListTypes'
    BY <1>2, <1>3, RequestCtxType DEF AsksRenewal, AskRenewal, Types, ListTypes
  <1>5. SvcTypes'
    BY DEF AsksRenewal, AskRenewal, Types, SvcTypes
  <1> QED BY <1>1, <1>4, <1>5 DEF Types

\* A renewal timer that comes too late keeps the types.
LEMMA LateTypes ==
  ASSUME Types, LateRenewal
  PROVE  Types'
  <1>1. posted' \subseteq Nat
    BY DEF LateRenewal, Types, ListTypes
  <1>2. ChanTypes' /\ ListTypes'
    BY <1>1 DEF LateRenewal, Types, ChanTypes, ListTypes
  <1>3. SvcTypes'
    BY DEF LateRenewal, svcVars, Types, SvcTypes
  <1> QED BY <1>2, <1>3 DEF Types

\* The timeout of a request keeps the types.
LEMMA TimeoutTypes ==
  ASSUME Types, NEW t \in posted, TreatRequestTimeout(t)
  PROVE  Types'
  <1>1. t \in Nat /\ posted' \subseteq Nat
    BY DEF TreatRequestTimeout, Types, ListTypes
  <1>2. sentRequestIds' \in Seq(Ctx)
    BY MarkExpiredType DEF TreatRequestTimeout, Types
  <1>3. toSvc' \in Seq(Events)
    <2>1. toSvc \in Seq(Events) /\ TimeoutEvents(t) \in Seq(Events)
      BY <1>1, TimeoutEventsType DEF Types, SvcTypes
    <2> QED BY <2>1 DEF TreatRequestTimeout
  <1>4. ChanTypes' /\ ListTypes'
    BY <1>1, <1>2 DEF TreatRequestTimeout, Types, ChanTypes, ListTypes
  <1>5. SvcTypes'
    BY <1>3 DEF TreatRequestTimeout, Types, SvcTypes
  <1> QED BY <1>4, <1>5 DEF Types

\* What an end sends last.
CloChunk(used) == Chunk("CLO", "F", SendToken(Client), SNAfter(conn[Client].lastSNsent, used + 1),
                        clientNextReqId, NoBody)
ClientLast(used, farewell) == IF farewell THEN <<CloChunk(used)>> ELSE <<>>
ServerLast(farewell) == IF farewell THEN <<ErrChunk>> ELSE <<>>

\* What CloseClient does to both wires and to the connection.
LEMMA ClientClosesEffect ==
  ASSUME Types, NEW ev, NEW used, NEW farewell \in BOOLEAN, ClientCloses(ev, used, farewell)
  PROVE  /\ ClosesWith(Client, ClientLast(used, farewell))
         /\ ClientLast(used, farewell) \in Seq(Chunks) /\ CloChunk(used) \in Numbered
         /\ ev \in Seq(Events) /\ used \in Nat
         /\ toSvc' = toSvc \o ev \o PendingFailures \o <<Event("SC_DISCONNECTED", 0, 0)>>
         /\ sentRequestIds' = <<>> /\ running' = {} /\ clientNextReqId' = 0
         /\ toSc' \in Seq(Asked)
  <1>1. CloseClient(ev, used, farewell)
    BY DEF ClientCloses
  <1>2. used \in Nat
    <2>1. used = 0 \/ used = 1
      BY DEF ClientCloses
    <2> QED BY <2>1
  <1>3. conn[Client] \in Connection /\ clientNextReqId \in Nat /\ conn[Client].lastSNsent \in SNs
    BY EndsPeer DEF Types, ChanTypes, ListTypes, Connection
  <1>4. SNAfter(conn[Client].lastSNsent, used + 1) \in SNs
    BY <1>2, <1>3, SNAfterType
  <1>5. CloChunk(used) \in Numbered
    BY <1>3, <1>4, PartType, SendTokenType, EndsPeer, ChunkType DEF CloChunk, Types
  <1>6. ClientLast(used, farewell) \in Seq(Chunks)
    <2>1. <<>> \in Seq(Numbered)
      OBVIOUS
    <2> QED BY <1>5, <2>1, NumberedSeq DEF ClientLast
  <1>7. toSc # <<>> => Head(toSc) \in Asked /\ Tail(toSc) \in Seq(Asked)
    BY DEF Types, SvcTypes
  <1>8. toSc # <<>> => Event("SC_SND_FAILURE", Head(toSc).handle, Head(toSc).call) \in Events
    BY <1>7 DEF Asked, Event, Events, EventTypes
  <1>9. ev \in Seq(Events) /\ toSc' \in Seq(Asked)
    <2> DEFINE f == <<Event("SC_SND_FAILURE", Head(toSc).handle, Head(toSc).call)>>
    <2>1. toSc # <<>> => f \in Seq(Events)
      BY <1>8
    <2>2. toSc \in Seq(Asked) /\ <<>> \in Seq(Events)
      BY DEF Types, SvcTypes
    <2>3. (toSc' = toSc /\ ev = <<>>) \/ (toSc # <<>> /\ toSc' = Tail(toSc) /\ ev = f)
      BY DEF ClientCloses
    <2> HIDE DEF f
    <2> QED BY <1>7, <2>1, <2>2, <2>3
  <1>10. ClosesWith(Client, ClientLast(used, farewell))
    BY <1>1, EndsPeer DEF CloseClient, ClosesWith, ClientLast, CloChunk
  <1>11. /\ toSvc' = toSvc \o ev \o PendingFailures \o <<Event("SC_DISCONNECTED", 0, 0)>>
         /\ sentRequestIds' = <<>> /\ running' = {} /\ clientNextReqId' = 0
    BY <1>1 DEF CloseClient
  <1> QED BY <1>2, <1>5, <1>6, <1>9, <1>10, <1>11

\* CloseClient keeps the types.
LEMMA ClientClosesTypes ==
  ASSUME Types, NEW ev, NEW used, NEW farewell \in BOOLEAN, ClientCloses(ev, used, farewell)
  PROVE  Types'
  <1>1. ChanTypes'
    BY ClientClosesEffect, ClosesEffect, EndsPeer DEF Types
  <1>2. posted' \subseteq Nat /\ refused' \subseteq {"expired token", "protocol"}
    BY DEF ClientCloses, Types, ListTypes
  <1>3. sentRequestIds' \in Seq(Ctx) /\ running' \subseteq Nat /\ clientNextReqId' \in Nat
    <2>1. sentRequestIds' = <<>> /\ running' = {} /\ clientNextReqId' = 0
      BY ClientClosesEffect
    <2> QED BY <2>1
  <1>4. ListTypes'
    BY <1>2, <1>3 DEF ClientCloses, Types, ListTypes
  <1>5. toSvc' \in Seq(Events)
    <2>1. toSvc \in Seq(Events) /\ ev \in Seq(Events) /\ PendingFailures \in Seq(Events)
      BY ClientClosesEffect, PendingFailuresType DEF Types, SvcTypes
    <2> DEFINE d == <<Event("SC_DISCONNECTED", 0, 0)>>
    <2>2. Event("SC_DISCONNECTED", 0, 0) \in Events
      BY DEF Event, Events, EventTypes
    <2>3. d \in Seq(Events)
      BY <2>2
    <2>4. toSvc' = toSvc \o ev \o PendingFailures \o d
      BY ClientClosesEffect
    <2> HIDE DEF d
    <2>5. toSvc \o ev \o PendingFailures \o d \in Seq(Events)
      BY <2>1, <2>3
    <2> QED BY <2>4, <2>5
  <1>6. SvcTypes'
    BY <1>5, ClientClosesEffect DEF ClientCloses, Types, SvcTypes
  <1> QED BY <1>1, <1>4, <1>6 DEF Types

\* What CloseServer does to both wires and to the connection.
LEMMA ServerClosesEffect ==
  ASSUME Types, NEW farewell \in BOOLEAN, ServerCloses(farewell)
  PROVE  /\ ClosesWith(Server, ServerLast(farewell)) /\ todo' = {}
         /\ ServerLast(farewell) \in Seq(Chunks)
  <1>1. CloseServer(farewell)
    BY DEF ServerCloses
  <1>2. ClosesWith(Server, ServerLast(farewell)) /\ todo' = {}
    BY <1>1, EndsPeer DEF CloseServer, ClosesWith, ServerLast, ErrChunk
  <1> QED BY <1>2, PartType DEF ServerLast

\* CloseServer keeps the types.
LEMMA ServerClosesTypes ==
  ASSUME Types, NEW farewell \in BOOLEAN, ServerCloses(farewell)
  PROVE  Types'
  <1>1. ChanTypes'
    BY ServerClosesEffect, ClosesEffect, EndsPeer DEF Types
  <1>2. refused' \subseteq {"expired token", "protocol"}
    BY DEF ServerCloses, Types, ListTypes
  <1>3. ListTypes'
    BY <1>2 DEF ServerCloses, Types, ListTypes
  <1>4. SvcTypes'
    BY ServerClosesEffect DEF ServerCloses, Types, SvcTypes
  <1> QED BY <1>1, <1>3, <1>4 DEF Types

\* A chunk that an end takes and accepts.
LEMMA GetsType ==
  ASSUME Types, NEW p \in Ends, NEW c, wire[Peer(p)] # <<>>, c = Head(wire[Peer(p)])
  PROVE  c \in Chunks /\ (c.type # "ERR" => c \in Numbered)
  <1>1. c \in Chunks
    BY EndsPeer DEF Types, ChanTypes
  <1>2. ErrChunk.type = "ERR"
    BY DEF ErrChunk, Chunk
  <1> QED BY <1>1, <1>2 DEF Chunks

\* An accepted chunk of the server is the answer to a request of the list.
LEMMA ClientGetsType ==
  ASSUME Types, NEW c, ClientGets(c), c.type # "ERR", Accepted(Client, c)
  PROVE  /\ c \in Numbered /\ c.id \in Nat
         /\ \E i \in 1..Len(sentRequestIds) : /\ sentRequestIds[i].id = c.id
                                              /\ (sentRequestIds[i].handle = OPN) <=> (c.type = "OPN")
  <1>1. c \in Numbered
    BY GetsType, EndsPeer DEF ClientGets
  <1> QED BY <1>1 DEF Numbered, Accepted, ExpectedId

\* The chunk the server receives is a numbered one.
LEMMA ServerGetsType ==
  ASSUME Types, NEW c, ServerGets(c), c.type # "ERR"
  PROVE  c \in Numbered /\ c.id \in Nat
  <1>1. c \in Numbered
    BY GetsType, EndsPeer DEF ServerGets
  <1> QED BY <1>1 DEF Numbered

\* What a chunk that the client keeps does to the connection and the wire.
LEMMA ClientChunkEffect ==
  ASSUME Types, NEW c, ClientGets(c), ClientChunk(c) \/ ClientResponse(c)
  PROVE  ReceivesAs(Client, AfterChunk(Client, c)) /\ c \in Numbered /\ RoomForChunk(Client, c)
  <1>1. Accepted(Client, c) /\ c.type # "ERR"
    BY DEF ClientChunk, ClientResponse
  <1>2. c \in Numbered
    BY <1>1, ClientGetsType
  <1>3. ReceivesAs(Client, AfterChunk(Client, c))
    BY EndsPeer DEF ClientChunk, ClientResponse, ReceivesAs, ClientGets
  <1> QED BY <1>1, <1>2, <1>3 DEF Accepted

\* The same at the server.
LEMMA ServerChunkEffect ==
  ASSUME Types, NEW c, ServerGets(c), ServerChunk(c) \/ ServerRequest(c)
  PROVE  ReceivesAs(Server, AfterChunk(Server, c)) /\ c \in Numbered /\ RoomForChunk(Server, c)
  <1>1. Accepted(Server, c) /\ c.type # "ERR"
    BY DEF ServerChunk, ServerRequest
  <1>2. c \in Numbered
    BY <1>1, ServerGetsType
  <1>3. ReceivesAs(Server, AfterChunk(Server, c))
    BY EndsPeer DEF ServerChunk, ServerRequest, ReceivesAs, ServerGets
  <1> QED BY <1>1, <1>2, <1>3 DEF Accepted

\* ClientChunk keeps the types.
LEMMA ClientChunkTypes ==
  ASSUME Types, NEW c, ClientGets(c), ClientChunk(c)
  PROVE  Types'
  <1>1. ChanTypes'
    BY ClientChunkEffect, AfterChunkType, ReceivesEffect, EndsPeer DEF Types
  <1>2. sentRequestIds' \in Seq(Ctx)
    <2>1. Accepted(Client, c) /\ c.type # "ERR"
      BY DEF ClientChunk
    <2>2. <<CtxOf(c.id)>> \o OtherCtxs(c.id) \in Seq(Ctx)
      BY <2>1, ClientGetsType, CtxTypes DEF Types
    <2> QED BY <2>2 DEF ClientChunk
  <1>3. ListTypes'
    BY <1>2 DEF ClientGets, ClientChunk, Types, ListTypes
  <1>4. SvcTypes'
    BY DEF ClientGets, ClientChunk, Types, SvcTypes
  <1> QED BY <1>1, <1>3, <1>4 DEF Types

\* ClientResponse keeps the types.
LEMMA ClientResponseTypes ==
  ASSUME Types, NEW c, ClientGets(c), ClientResponse(c)
  PROVE  Types'
  <1>0. Accepted(Client, c) /\ c.type # "ERR"
    BY DEF ClientResponse
  <1>1. ChanTypes'
    BY ClientChunkEffect, AfterChunkType, ReceivesEffect, EndsPeer DEF Types
  <1>2. OtherCtxs(c.id) \in Seq(Ctx) /\ CtxOf(c.id) \in Ctx
    BY <1>0, ClientGetsType, CtxTypes DEF Types
  <1>3. torn' \subseteq Ends
    <2> DEFINE m == Message(Client, c)
    <2>1. torn \subseteq Ends /\ torn' \in {torn, TornBy(Client, m)}
      BY DEF ClientResponse, Types, ListTypes
    <2> HIDE DEF m
    <2>2. TornBy(Client, m) \subseteq torn \cup {Client}
      BY DEF TornBy
    <2> QED BY <2>1, <2>2, EndsPeer
  <1>4. ListTypes'
    <2>1. running' \subseteq Nat /\ sentRequestIds' \in Seq(Ctx)
      BY <1>2 DEF ClientResponse, Types, ListTypes
    <2> QED BY <1>3, <2>1 DEF ClientGets, ClientResponse, Types, ListTypes
  <1>5. toSvc' \in Seq(Events)
    <2> DEFINE e == Event("SC_SERVICE_RCV_MSG", Message(Client, c)[1].handle, Message(Client, c)[1].call)
               f == Event("SC_SND_FAILURE", CtxOf(c.id).handle, CtxOf(c.id).call)
    <2>1. Message(Client, c)[1] \in Body
      BY ClientChunkEffect, AfterChunkType, EndsPeer DEF Types
    <2>2. e \in Events
      <3> DEFINE b == Message(Client, c)[1]
      <3>1. b \in Body
        BY <2>1
      <3> HIDE DEF b
      <3>2. Event("SC_SERVICE_RCV_MSG", b.handle, b.call) \in Events
        BY <3>1 DEF Event, Events, EventTypes, Body
      <3> QED BY <3>2 DEF b
    <2>3. f \in Events
      BY <1>2 DEF Event, Events, EventTypes, Ctx
    <2>4. toSvc \in Seq(Events)
      BY DEF Types, SvcTypes
    <2>5. toSvc' \in {toSvc, Append(toSvc, e), Append(toSvc, f)}
      <3>1. c.isFinal \in {"F", "A"}
        <4>1. c \in Numbered
          BY ClientChunkEffect
        <4>2. c.isFinal \in {"C", "F", "A"}
          BY <4>1 DEF Numbered
        <4> QED BY <4>2 DEF ClientResponse
      <3> QED BY <3>1 DEF ClientResponse
    <2> HIDE DEF e, f
    <2> QED BY <2>2, <2>3, <2>4, <2>5
  <1>6. SvcTypes'
    BY <1>5 DEF ClientGets, ClientResponse, Types, SvcTypes
  <1> QED BY <1>1, <1>4, <1>6 DEF Types

\* The connection of the client after the answer to a renewal.
RenewedEnd(c) ==
  [AfterChunk(Client, c) EXCEPT !.state = "SC_CONNECTED",
     !.precedentSecurityToken = conn[Client].currentSecurityToken,
     !.currentSecurityToken = c.tok]

\* What the answer to a renewal does to the connection and the wire.
LEMMA TakesEffect ==
  ASSUME Types, NEW c, ClientGets(c), TakesRenewal(c)
  PROVE  /\ c \in Numbered /\ RoomForChunk(Client, c)
         /\ \/ CtxOf(c.id).timeoutExpired /\ ReceivesAs(Client, AfterChunk(Client, c))
            \/ ~CtxOf(c.id).timeoutExpired /\ ReceivesAs(Client, RenewedEnd(c))
         /\ RenewedEnd(c) \in Connection
         /\ RenewedEnd(c).intermediateChunks = AfterChunk(Client, c).intermediateChunks
         /\ RenewedEnd(c).lastSNsent = AfterChunk(Client, c).lastSNsent
         /\ RenewedEnd(c).lastSNreceived = AfterChunk(Client, c).lastSNreceived
         /\ RenewedEnd(c).currentMsgRequestId = AfterChunk(Client, c).currentMsgRequestId
         /\ RenewedEnd(c).serverNewSecuTokenActive = AfterChunk(Client, c).serverNewSecuTokenActive
         /\ RenewedEnd(c).precedentSecurityToken = conn[Client].currentSecurityToken
         /\ RenewedEnd(c).currentSecurityToken = c.tok
         /\ RenewedEnd(c).state = "SC_CONNECTED"
  <1>1. Accepted(Client, c) /\ c.type # "ERR"
    BY DEF TakesRenewal
  <1>2. c \in Numbered /\ RoomForChunk(Client, c)
    BY <1>1, ClientGetsType DEF Accepted
  <1>3. \/ CtxOf(c.id).timeoutExpired /\ ReceivesAs(Client, AfterChunk(Client, c))
        \/ ~CtxOf(c.id).timeoutExpired /\ ReceivesAs(Client, RenewedEnd(c))
    BY EndsPeer DEF TakesRenewal, ReceivesAs, RenewedEnd, ClientGets
  <1> DEFINE r == AfterChunk(Client, c)
  <1>4. r \in Connection
    BY <1>2, AfterChunkType, EndsPeer DEF Types
  <1>5. c.tok \in Token /\ conn[Client].currentSecurityToken \in Token
    BY <1>2, EndsPeer DEF Numbered, Types, ChanTypes, Connection
  <1>6. RenewedEnd(c) = [r EXCEPT !.state = "SC_CONNECTED",
           !.precedentSecurityToken = conn[Client].currentSecurityToken,
           !.currentSecurityToken = c.tok]
    BY DEF RenewedEnd
  <1> HIDE DEF r
  <1>7. /\ RenewedEnd(c) \in Connection
        /\ RenewedEnd(c).intermediateChunks = r.intermediateChunks
        /\ RenewedEnd(c).lastSNsent = r.lastSNsent
        /\ RenewedEnd(c).lastSNreceived = r.lastSNreceived
        /\ RenewedEnd(c).currentMsgRequestId = r.currentMsgRequestId
        /\ RenewedEnd(c).serverNewSecuTokenActive = r.serverNewSecuTokenActive
        /\ RenewedEnd(c).precedentSecurityToken = conn[Client].currentSecurityToken
        /\ RenewedEnd(c).currentSecurityToken = c.tok
        /\ RenewedEnd(c).state = "SC_CONNECTED"
    BY <1>4, <1>5, <1>6 DEF Connection, States
  <1> QED BY <1>2, <1>3, <1>7 DEF r

\* The answer to a renewal keeps the types.
LEMMA TakesTypes ==
  ASSUME Types, NEW c, ClientGets(c), TakesRenewal(c)
  PROVE  Types'
  <1>0. Accepted(Client, c) /\ c.type # "ERR"
    BY DEF TakesRenewal
  <1>1. ChanTypes'
    <2>1. /\ AfterChunk(Client, c) \in Connection
          /\ Len(AfterChunk(Client, c).intermediateChunks) < MaxChunkCount
          /\ RenewedEnd(c) \in Connection
          /\ Len(RenewedEnd(c).intermediateChunks) < MaxChunkCount
      BY TakesEffect, AfterChunkType, EndsPeer DEF Types
    <2> QED BY <2>1, TakesEffect, ReceivesEffect, EndsPeer DEF Types
  <1>2. OtherCtxs(c.id) \in Seq(Ctx)
    BY <1>0, ClientGetsType, CtxTypes DEF Types
  <1>3. running' \subseteq Nat
    <2>1. running \subseteq Nat /\ Renew \in Nat
      BY DEF Types, ListTypes, Renew
    <2> QED BY <2>1 DEF TakesRenewal, TimersAfterRenewal
  <1>4. ListTypes'
    BY <1>2, <1>3 DEF ClientGets, TakesRenewal, Types, ListTypes
  <1>5. SvcTypes'
    BY DEF ClientGets, TakesRenewal, Types, SvcTypes
  <1> QED BY <1>1, <1>4, <1>5 DEF Types

\* ServerChunk keeps the types.
LEMMA ServerChunkTypes ==
  ASSUME Types, NEW c, ServerGets(c), ServerChunk(c)
  PROVE  Types'
  <1>1. ChanTypes'
    BY ServerChunkEffect, AfterChunkType, ReceivesEffect, EndsPeer DEF Types
  <1>2. ListTypes'
    BY DEF ServerGets, ServerChunk, Types, ListTypes
  <1>3. SvcTypes'
    BY DEF ServerGets, ServerChunk, Types, SvcTypes
  <1> QED BY <1>1, <1>2, <1>3 DEF Types

\* ServerRequest keeps the types.
LEMMA ServerRequestTypes ==
  ASSUME Types, NEW c, ServerGets(c), ServerRequest(c)
  PROVE  Types'
  <1> DEFINE m == Message(Server, c)
             b == m[1]
             q == [id |-> c.id, handle |-> b.handle, call |-> b.call]
  <1>1. ChanTypes'
    BY ServerChunkEffect, AfterChunkType, ReceivesEffect, EndsPeer DEF Types
  <1>2. b \in Body
    BY ServerChunkEffect, AfterChunkType, EndsPeer DEF Types
  <1>3. c.id \in Nat
    BY ServerChunkEffect DEF Numbered
  <1>4. /\ todo' = todo \cup {q} /\ executed' = [executed EXCEPT ![b.call] = @ + 1]
        /\ torn' = TornBy(Server, m)
    BY DEF ServerRequest
  <1> HIDE DEF b
  <1>5. q \in Todo
    BY <1>2, <1>3 DEF Todo, Body
  <1> HIDE DEF q, m
  <1>6. torn' \subseteq Ends
    <2>1. TornBy(Server, m) \subseteq torn \cup {Server}
      BY DEF TornBy
    <2> QED BY <1>4, <2>1, EndsPeer DEF Types, ListTypes
  <1>7. ListTypes'
    BY <1>6 DEF ServerGets, ServerRequest, Types, ListTypes
  <1>8. executed' \in [Calls -> Nat] /\ todo' \subseteq Todo
    <2>1. executed \in [Calls -> Nat] /\ todo \subseteq Todo
      BY DEF Types, SvcTypes
    <2> DEFINE k == b.call
               f == [executed EXCEPT ![k] = @ + 1]
    <2> HIDE DEF k
    <2>2. DOMAIN f = Calls /\ f = [x \in DOMAIN f |-> f[x]]
      BY <2>1
    <2>3. \A x \in Calls : f[x] = IF x = k THEN executed[x] + 1 ELSE executed[x]
      BY <2>1
    <2>4. \A x \in Calls : f[x] \in Nat
      BY <2>1, <2>3
    <2> HIDE DEF f
    <2>5. f \in [Calls -> Nat]
      BY <2>2, <2>4
    <2>6. executed' = f
      BY <1>4 DEF f, k
    <2> QED BY <1>4, <1>5, <2>1, <2>5, <2>6
  <1>9. SvcTypes'
    BY <1>8 DEF ServerGets, ServerRequest, Types, SvcTypes
  <1> QED BY <1>1, <1>7, <1>9 DEF Types

\* The server's answer to a renewal, and its connection after it.
NewToken(t) == [id |-> t, keys |-> conn[Server].currentSecurityToken.keys + 1]
GrantChunk(c, t) ==
  Chunk("OPN", "F", NewToken(t), SNAfter(conn[Server].lastSNsent, 1), c.id, NoBody)
GrantedEnd(c, t) ==
  [Sent(AfterChunk(Server, c), 1) EXCEPT
     !.precedentSecurityToken = conn[Server].currentSecurityToken,
     !.currentSecurityToken = NewToken(t), !.serverNewSecuTokenActive = FALSE]

\* What ServerRenews does to both wires and to the connection.
LEMMA RenewsEffect ==
  ASSUME Types, NEW c, ServerGets(c), ServerRenews(c)
  PROVE  /\ c \in Numbered /\ RoomForChunk(Server, c)
         /\ \E t \in TokenIds \ {conn[Server].currentSecurityToken.id} :
              /\ RepliesAs(Server, <<GrantChunk(c, t)>>, GrantedEnd(c, t))
              /\ GrantChunk(c, t) \in Numbered /\ <<GrantChunk(c, t)>> \in Seq(Chunks)
              /\ NewToken(t) \in Token
              /\ GrantedEnd(c, t) \in Connection
              /\ GrantedEnd(c, t).state = conn[Server].state
              /\ GrantedEnd(c, t).lastSNsent = SNAfter(conn[Server].lastSNsent, 1)
              /\ GrantedEnd(c, t).lastSNreceived = c.sn
              /\ GrantedEnd(c, t).currentSecurityToken = NewToken(t)
              /\ GrantedEnd(c, t).precedentSecurityToken = conn[Server].currentSecurityToken
              /\ GrantedEnd(c, t).serverNewSecuTokenActive = FALSE
              /\ GrantedEnd(c, t).intermediateChunks = TreatMsgMultiChunks(Server, c)
              /\ GrantedEnd(c, t).currentMsgRequestId = (IF c.isFinal = "C" THEN c.id ELSE 0)
  <1>1. Accepted(Server, c) /\ c.type # "ERR"
    BY DEF ServerRenews
  <1>2. c \in Numbered /\ c.id \in Nat /\ RoomForChunk(Server, c)
    BY <1>1, ServerGetsType DEF Accepted
  <1> DEFINE r == AfterChunk(Server, c)
  <1>3. /\ r \in Connection /\ r.state = conn[Server].state /\ r.lastSNsent = conn[Server].lastSNsent
        /\ r.lastSNreceived = c.sn
        /\ r.currentSecurityToken = conn[Server].currentSecurityToken
        /\ r.intermediateChunks = TreatMsgMultiChunks(Server, c)
        /\ r.currentMsgRequestId = (IF c.isFinal = "C" THEN c.id ELSE 0)
    BY <1>2, AfterChunkType, EndsPeer DEF Types
  <1>4. PICK t \in TokenIds \ {r.currentSecurityToken.id} :
          LET new == [id |-> t, keys |-> r.currentSecurityToken.keys + 1]
          IN  /\ conn' = [conn EXCEPT ![Server] =
                    [Sent(r, 1) EXCEPT !.precedentSecurityToken = r.currentSecurityToken,
                                       !.currentSecurityToken = new,
                                       !.serverNewSecuTokenActive = FALSE]]
              /\ wire' = SendOn(Consumed(Client), Server,
                                 <<Chunk("OPN", "F", new, SNAfter(r.lastSNsent, 1), c.id, NoBody)>>)
    BY DEF ServerRenews
  <1>5. conn[Server].currentSecurityToken \in Token /\ conn[Server].lastSNsent \in SNs
    BY EndsPeer DEF Types, ChanTypes, Connection
  <1>6. NewToken(t) \in Token
    BY <1>5 DEF NewToken, Token
  <1>7. SNAfter(conn[Server].lastSNsent, 1) \in SNs
    BY <1>5, SNAfterType
  <1>8. GrantChunk(c, t) \in Numbered
    BY <1>2, <1>6, <1>7, PartType, ChunkType DEF GrantChunk
  <1>9. <<GrantChunk(c, t)>> \in Seq(Chunks)
    <2>1. <<>> \in Seq(Numbered)
      OBVIOUS
    <2> QED BY <1>8, <2>1, NumberedSeq
  <1>10. RepliesAs(Server, <<GrantChunk(c, t)>>, GrantedEnd(c, t))
    BY <1>3, <1>4, EndsPeer DEF RepliesAs, ServerGets, GrantChunk, GrantedEnd, NewToken
  <1> HIDE DEF r
  <1> DEFINE s == Sent(r, 1)
  <1>11. /\ s \in Connection /\ s.state = r.state /\ s.lastSNsent = SNAfter(r.lastSNsent, 1)
         /\ s.lastSNreceived = r.lastSNreceived /\ s.intermediateChunks = r.intermediateChunks
         /\ s.currentMsgRequestId = r.currentMsgRequestId
    BY <1>3, <1>7 DEF Sent, Connection
  <1>12. GrantedEnd(c, t) = [s EXCEPT !.precedentSecurityToken = conn[Server].currentSecurityToken,
               !.currentSecurityToken = NewToken(t), !.serverNewSecuTokenActive = FALSE]
    BY DEF GrantedEnd, r
  <1> HIDE DEF s
  <1>13. /\ GrantedEnd(c, t) \in Connection
         /\ GrantedEnd(c, t).state = s.state
         /\ GrantedEnd(c, t).lastSNsent = s.lastSNsent
         /\ GrantedEnd(c, t).lastSNreceived = s.lastSNreceived
         /\ GrantedEnd(c, t).currentSecurityToken = NewToken(t)
         /\ GrantedEnd(c, t).precedentSecurityToken = conn[Server].currentSecurityToken
         /\ GrantedEnd(c, t).serverNewSecuTokenActive = FALSE
         /\ GrantedEnd(c, t).intermediateChunks = s.intermediateChunks
         /\ GrantedEnd(c, t).currentMsgRequestId = s.currentMsgRequestId
    BY <1>5, <1>6, <1>11, <1>12 DEF Connection
  <1>14. t \in TokenIds \ {conn[Server].currentSecurityToken.id}
    BY <1>3, <1>4
  <1> QED BY <1>2, <1>3, <1>6, <1>8, <1>9, <1>10, <1>11, <1>13, <1>14

\* ServerRenews keeps the types.
LEMMA RenewsTypes ==
  ASSUME Types, NEW c, ServerGets(c), ServerRenews(c)
  PROVE  Types'
  <1>1. ChanTypes'
    <2>1. PICK t : /\ RepliesAs(Server, <<GrantChunk(c, t)>>, GrantedEnd(c, t))
                   /\ <<GrantChunk(c, t)>> \in Seq(Chunks)
                   /\ GrantedEnd(c, t) \in Connection
                   /\ GrantedEnd(c, t).intermediateChunks = TreatMsgMultiChunks(Server, c)
      BY RenewsEffect
    <2>2. Len(TreatMsgMultiChunks(Server, c)) < MaxChunkCount
      BY RenewsEffect, AfterChunkType, EndsPeer DEF Types
    <2> QED BY <2>1, <2>2, RepliesEffect, EndsPeer DEF Types
  <1>2. ListTypes'
    BY DEF ServerGets, ServerRenews, Types, ListTypes
  <1>3. SvcTypes'
    BY DEF ServerGets, ServerRenews, Types, SvcTypes
  <1> QED BY <1>1, <1>2, <1>3 DEF Types

\* What the server sends for an answer: the whole of it, or a part and its abort.
WholeAnswer(q, n) == MsgChunks(Server, q.id, q.call, q.handle, n, n)
GivenUp(q, n, k) ==
  Append(MsgChunks(Server, q.id, q.call, q.handle, n, k), AbortChunk(Server, q.id, k))

\* What Respond does to the connection and the wire of the server.
LEMMA RespondEffect ==
  ASSUME Types, NEW q, NEW n \in Sizes, Respond(q, n)
  PROVE  /\ q \in Todo /\ n \in Nat \ {0}
         /\ \/ /\ n <= MaxChunkCount
               /\ SendsAs(Server, WholeAnswer(q, n), Sent(conn[Server], n))
               /\ WholeAnswer(q, n) \in Seq(Chunks)
            \/ \E k \in 0..(n - 1) :
                 /\ n > MaxChunkCount => k = 0
                 /\ n <= MaxChunkCount => n >= 2
                 /\ SendsAs(Server, GivenUp(q, n, k), Sent(conn[Server], k + 1))
                 /\ GivenUp(q, n, k) \in Seq(Chunks)
  <1>1. q \in Todo /\ n \in Nat /\ n \in Nat \ {0}
    BY SecureChannelAssumption DEF Respond, Types, SvcTypes
  <1>2. q.id \in Nat /\ q.handle \in Handles \cup {0} /\ q.call \in Calls \cup {0}
    BY <1>1 DEF Todo
  <1>3. ASSUME NEW k \in Nat
        PROVE  /\ MsgChunks(Server, q.id, q.call, q.handle, n, k) \in Seq(Numbered)
               /\ GivenUp(q, n, k) \in Seq(Chunks)
    <2>1. /\ MsgChunks(Server, q.id, q.call, q.handle, n, k) \in Seq(Numbered)
          /\ AbortChunk(Server, q.id, k) \in Numbered
      BY <1>1, <1>2, MsgChunksType, EndsPeer DEF Types
    <2> QED BY <2>1, NumberedSeq DEF GivenUp
  <1>4. WholeAnswer(q, n) \in Seq(Chunks)
    BY <1>1, <1>3, NumberedSeq DEF WholeAnswer
  <1>5. CASE /\ n <= MaxChunkCount
             /\ wire' = SendOn(wire, Server, MsgChunks(Server, q.id, q.call, q.handle, n, n))
             /\ conn' = [conn EXCEPT ![Server] = Sent(@, n)]
    <2>1. SendsAs(Server, WholeAnswer(q, n), Sent(conn[Server], n))
      BY <1>5 DEF SendsAs, WholeAnswer
    <2> QED BY <1>1, <1>4, <1>5, <2>1
  <1>6. ASSUME NEW k \in 0..(n - 1),
               \/ n > MaxChunkCount /\ k = 0
               \/ "buffer" \in OutOfMemory /\ n \in 2..MaxChunkCount,
               wire' = SendOn(wire, Server, Append(MsgChunks(Server, q.id, q.call, q.handle, n, k),
                                               AbortChunk(Server, q.id, k))),
               conn' = [conn EXCEPT ![Server] = Sent(@, k + 1)]
        PROVE  /\ n > MaxChunkCount => k = 0
               /\ n <= MaxChunkCount => n >= 2
               /\ SendsAs(Server, GivenUp(q, n, k), Sent(conn[Server], k + 1))
               /\ GivenUp(q, n, k) \in Seq(Chunks)
    <2>1. SendsAs(Server, GivenUp(q, n, k), Sent(conn[Server], k + 1))
      BY <1>6 DEF SendsAs, GivenUp
    <2>2. k \in Nat
      OBVIOUS
    <2>3. (n > MaxChunkCount => k = 0) /\ (n <= MaxChunkCount => n >= 2)
      BY <1>1, <1>6, SecureChannelAssumption
    <2> QED BY <1>3, <2>1, <2>2, <2>3
  <1> QED BY <1>1, <1>5, <1>6 DEF Respond

\* Respond keeps the types.
LEMMA RespondTypes ==
  ASSUME Types, NEW q, NEW n \in Sizes, Respond(q, n)
  PROVE  Types'
  <1>1. ChanTypes'
    <2>0. conn[Server] \in Connection
      BY EndsPeer DEF Types, ChanTypes
    <2>1. PICK m \in Seq(Chunks), k \in Nat : SendsAs(Server, m, Sent(conn[Server], k))
      BY RespondEffect
    <2>2. Sent(conn[Server], k) \in Connection
          /\ Sent(conn[Server], k).intermediateChunks = conn[Server].intermediateChunks
      BY <2>0, ConnectionTypes
    <2> QED BY <2>1, <2>2, SendsEffect, EndsPeer DEF Types
  <1>2. ListTypes'
    BY DEF Respond, Types, ListTypes
  <1>3. SvcTypes'
    BY DEF Respond, Types, SvcTypes
  <1> QED BY <1>1, <1>2, <1>3 DEF Types

\* The channel as it is found.
LEMMA InitTypes ==
  ASSUME Init
  PROVE  Types
  <1> DEFINE first == CHOOSE t \in TokenIds : TRUE
             second == CHOOSE t \in TokenIds : t # first
  <1>1. first \in TokenIds /\ second \in TokenIds /\ second # first
    <2>1. PICK s \in TokenIds, t \in TokenIds : s # t
      BY SecureChannelAssumption
    <2>2. first \in TokenIds
      BY <2>1
    <2> HIDE DEF first
    <2>3. \E u \in TokenIds : u # first
      BY <2>1
    <2> QED BY <2>2, <2>3
  <1>2. PICK used \in BOOLEAN : conn = [p \in Ends |->
         [state |-> "SC_CONNECTED",
          currentSecurityToken |-> [id |-> second, keys |-> 2],
          precedentSecurityToken |-> [id |-> first, keys |-> 1],
          serverNewSecuTokenActive |-> p = Client \/ used,
          lastSNsent |-> StartSN, lastSNreceived |-> StartSN,
          intermediateChunks |-> <<>>, currentMsgRequestId |-> 0]]
    BY DEF Init
  <1> HIDE DEF first, second
  <1>3. StartSN \in SNs /\ <<>> \in Seq(Body)
    BY SecureChannelAssumption DEF SNs
  <1>4. conn \in [Ends -> Connection] /\ \A p \in Ends : conn[p].intermediateChunks = <<>>
    BY <1>1, <1>2, <1>3 DEF Connection, Token, States
  <1>5. \A p \in Ends : Len(conn[p].intermediateChunks) < MaxChunkCount
    <2>1. Len(<<>>) = 0 /\ 0 < MaxChunkCount
      BY SecureChannelAssumption
    <2> QED BY <1>4, <2>1
  <1>6. wire \in [Ends -> Seq(Chunks)]
    BY DEF Init
  <1>7. ChanTypes
    BY <1>4, <1>5, <1>6 DEF ChanTypes
  <1>8. ListTypes
    BY DEF Init, ListTypes, Renew
  <1>9. SvcTypes
    BY SecureChannelAssumption DEF Init, SvcTypes, Statuses, Handles
  <1> QED BY <1>7, <1>8, <1>9 DEF Types

\* No step leaves the types.
LEMMA TypesStep ==
  ASSUME Types, [Next]_vars
  PROVE  Types'
  <1>1. CASE UNCHANGED vars
    <2>1. UNCHANGED <<conn, wire, clientNextReqId, sentRequestIds, running, posted, renewals,
                      torn, refused>>
      BY <1>1 DEF vars, chanVars
    <2>2. UNCHANGED <<toSc, toSvc, context, cpt, channel, todo, status, executed>>
      BY <1>1 DEF vars, svcVars
    <2> QED BY <2>1, <2>2 DEF Types, ChanTypes, ListTypes, SvcTypes
  <1>2. CASE Step
    BY <1>2, RequestTypes, ServicesTypes, RefuseTypes, SendTypes, UnrecordedTypes, AbortTypes,
       TimerTypes, AskTypes, LateTypes, TimeoutTypes, ClientClosesTypes, ClientChunkTypes,
       ClientResponseTypes, TakesTypes, ServerClosesTypes, ServerChunkTypes, ServerRequestTypes,
       RenewsTypes, RespondTypes DEF Step
  <1> QED BY <1>1, <1>2, NextSteps

\* Every state of the channel is well typed: what both ends hold, what is on
\* the wire and in the queues.
THEOREM WellTyped == Spec => []Types
  <1>1. Init => Types
    BY InitTypes
  <1>2. Types /\ [Next]_vars => Types'
    BY TypesStep
  <1> QED BY <1>1, <1>2, PTL DEF Spec

-----------------------------------------------------------------------------
(* Timers.                                                                 *)

\* Requests with two identifiers.
DistinctIds == {p \in Ctx \X Ctx : p[1].id # p[2].id}

ClientState == conn[Client].state
Waited == Elems(sentRequestIds)
Timers == running \cup posted

\* The identifier of the next request is new.
IdsPast ==
  Open(Client) =>
    /\ clientNextReqId > 0
    /\ \A t \in Timers : t < clientNextReqId
    /\ \A m \in Waited : m.id > 0 /\ m.id < clientNextReqId
IdsUnique == Pairwise(sentRequestIds, DistinctIds)
\* A timer either runs or has expired.
TimersApart == running \cap posted = {}
ClosedIsQuiet == ~Open(Client) => sentRequestIds = <<>> /\ running = {}
WaitedTimed == \A m \in Waited : ~m.timeoutExpired => m.id \in Timers
\* The renewal timer is there until it asks for the renewal.
RenewTimed ==
  /\ ClientState = "SC_CONNECTED" => Renew \in Timers
  /\ ClientState = "SC_CONNECTED_RENEW" => Renew \notin Timers

TimerInv ==
  IdsPast /\ IdsUnique /\ TimersApart /\ ClosedIsQuiet /\ WaitedTimed /\ RenewTimed

\* What a step may do to the state and the timers of the client.
Idle ==
  /\ ClientState' = ClientState
  /\ UNCHANGED <<sentRequestIds, running, posted>>
  /\ clientNextReqId' \in {clientNextReqId, clientNextReqId + 1, clientNextReqId + 2}
Waits(m) ==
  /\ Open(Client) /\ m.id = clientNextReqId /\ clientNextReqId' = clientNextReqId + 1
  /\ ~m.timeoutExpired /\ sentRequestIds' = Append(sentRequestIds, m)
  /\ running' = running \cup {m.id}
  /\ \/ ClientState' = ClientState /\ posted' = posted
     \/ ClientState' = "SC_CONNECTED_RENEW" /\ posted' = posted \ {Renew} /\ Renew \in posted
Settles(id) ==
  /\ Open(Client) /\ clientNextReqId' = clientNextReqId /\ posted' = posted
  /\ sentRequestIds' = OtherCtxs(id)
  /\ \/ ClientState' = ClientState /\ running' = running \ {id}
     \/ /\ ClientState = "SC_CONNECTED_RENEW" /\ ClientState' = "SC_CONNECTED"
        /\ running' = (running \ {id}) \cup {Renew}

\* The state is all there is to being open.
LEMMA OpenState ==
  ASSUME Types
  PROVE  /\ Open(Client) <=> ClientState # "SC_CLOSED"
         /\ ClientState \in States
  BY EndsPeer DEF Open, ClientState, Types, ChanTypes, Connection

\* Nothing happens to the timers.
LEMMA IdleTimers ==
  ASSUME Types, Types', TimerInv, Idle
  PROVE  TimerInv'
  <1>1. Open(Client)' <=> Open(Client)
    BY OpenState DEF Idle, Open, ClientState
  <1>2. Waited' = Waited /\ Timers' = Timers
    BY DEF Idle, Waited, Timers
  <1>3. IdsPast'
    <2>1. clientNextReqId \in Nat /\ Timers \subseteq Nat /\ \A m \in Waited : m.id \in Nat
      <3>1. Waited \subseteq Ctx
        BY ElemsType DEF Types, ListTypes, Waited
      <3> QED BY <3>1 DEF Types, ListTypes, Timers, Ctx
    <2>2. ASSUME Open(Client), NEW x \in Nat, x < clientNextReqId PROVE x < clientNextReqId'
      BY <2>1, <2>2 DEF Idle
    <2>3. ASSUME Open(Client) PROVE clientNextReqId' > 0
      BY <2>1, <2>3 DEF Idle, TimerInv, IdsPast
    <2> QED BY <1>1, <1>2, <2>1, <2>2, <2>3 DEF TimerInv, IdsPast
  <1>4. IdsUnique' /\ TimersApart' /\ ClosedIsQuiet'
    BY <1>1 DEF Idle, TimerInv, IdsUnique, TimersApart, ClosedIsQuiet
  <1>5. WaitedTimed' /\ RenewTimed'
    BY <1>2 DEF Idle, TimerInv, WaitedTimed, RenewTimed
  <1> QED BY <1>3, <1>4, <1>5 DEF TimerInv

\* A request is recorded and its timer started.
LEMMA WaitsTimers ==
  ASSUME Types, Types', TimerInv, NEW m \in Ctx, Waits(m)
  PROVE  TimerInv'
  <1>1. Open(Client) /\ Open(Client)'
    BY OpenState DEF Waits, Open, ClientState
  <1>2. sentRequestIds \in Seq(Ctx) /\ clientNextReqId \in Nat /\ Timers \subseteq Nat
    BY DEF Types, ListTypes, Timers
  <1>3. Waited' = Waited \cup {m} /\ Waited \subseteq Ctx
    BY <1>2, ElemsAppend, ElemsType DEF Waits, Waited
  <1>4. /\ m.id = clientNextReqId /\ clientNextReqId' = clientNextReqId + 1 /\ clientNextReqId > 0
        /\ \A t \in Timers : t < clientNextReqId
        /\ \A n \in Waited : n.id > 0 /\ n.id < clientNextReqId
    BY <1>1 DEF Waits, TimerInv, IdsPast
  <1>5. Timers' \subseteq Timers \cup {m.id} /\ m.id \in running' /\ Timers \ {Renew} \subseteq Timers'
    BY DEF Waits, Timers
  <1>6. \A n \in Waited : n.id \in Nat
    BY <1>3 DEF Ctx
  <1>7. IdsPast'
    <2>1. \A t \in Timers' : t < clientNextReqId'
      BY <1>2, <1>4, <1>5
    <2>2. \A n \in Waited' : n.id > 0 /\ n.id < clientNextReqId'
      BY <1>2, <1>3, <1>4, <1>6
    <2> QED BY <1>2, <1>4, <2>1, <2>2 DEF IdsPast
  <1>8. IdsUnique'
    <2>1. \A n \in Waited : <<n, m>> \in DistinctIds
      BY <1>3, <1>4, <1>6 DEF DistinctIds
    <2> QED BY <1>2, <2>1, PairwiseAppend DEF Waits, Waited, TimerInv, IdsUnique
  <1>10. TimersApart'
    <2>1. m.id \notin Timers
      BY <1>2, <1>4
    <2> QED BY <2>1 DEF Waits, Timers, TimerInv, TimersApart
  <1>11. ClosedIsQuiet'
    BY <1>1 DEF ClosedIsQuiet
  <1>12. WaitedTimed'
    <2>1. \A n \in Waited : n.id # Renew
      BY <1>4, <1>6 DEF Renew
    <2> QED BY <1>3, <1>5, <2>1 DEF TimerInv, WaitedTimed, Timers
  <1>13. RenewTimed'
    <2>1. m.id # Renew
      BY <1>2, <1>4 DEF Renew
    <2>2. CASE ClientState' = ClientState /\ posted' = posted
      BY <2>1, <2>2 DEF Waits, Timers, TimerInv, RenewTimed
    <2>3. CASE ClientState' = "SC_CONNECTED_RENEW" /\ posted' = posted \ {Renew} /\ Renew \in posted
      BY <2>1, <2>3 DEF Waits, Timers, TimerInv, RenewTimed, TimersApart
    <2> QED BY <2>2, <2>3 DEF Waits
  <1> QED BY <1>7, <1>8, <1>10, <1>11, <1>12, <1>13 DEF TimerInv

\* A request is ended and its timer stopped.
LEMMA SettlesTimers ==
  ASSUME Types, Types', TimerInv, NEW id \in Nat,
         \E i \in 1..Len(sentRequestIds) : sentRequestIds[i].id = id, Settles(id)
  PROVE  TimerInv'
  <1>1. Open(Client) /\ Open(Client)'
    BY OpenState DEF Settles, Open, ClientState
  <1>2. sentRequestIds \in Seq(Ctx) /\ clientNextReqId \in Nat /\ Timers \subseteq Nat
    BY DEF Types, ListTypes, Timers
  <1>3. /\ CtxIndex(id) \in 1..Len(sentRequestIds) /\ CtxOf(id) = sentRequestIds[CtxIndex(id)]
        /\ CtxOf(id).id = id /\ CtxOf(id) \in Waited
        /\ sentRequestIds' = Without(sentRequestIds, CtxIndex(id))
        /\ Waited = Waited' \cup {CtxOf(id)}
    BY CtxTypes DEF Types, Settles, Waited
  <1>4. IdsUnique'
    BY <1>2, <1>3, PairwiseWithout DEF TimerInv, IdsUnique
  <1>5. \A n \in Waited' : n.id # id
    <2>1. \A n \in Waited' : <<CtxOf(id), n>> \in DistinctIds \/ <<n, CtxOf(id)>> \in DistinctIds
      BY <1>2, <1>3, PairwiseOut DEF TimerInv, IdsUnique, Waited
    <2> QED BY <1>3, <2>1 DEF DistinctIds
  <1>6. id > 0 /\ id # Renew /\ clientNextReqId > 0 /\ clientNextReqId' = clientNextReqId
    BY <1>1, <1>3 DEF TimerInv, IdsPast, Renew, Settles
  <1>7. Timers' \subseteq Timers \cup {Renew} /\ Timers \ {id} \subseteq Timers'
    BY DEF Settles, Timers
  <1>8. IdsPast'
    <2>1. \A t \in Timers' : t < clientNextReqId'
      BY <1>1, <1>2, <1>6, <1>7 DEF TimerInv, IdsPast, Renew
    <2> QED BY <1>1, <1>3, <1>6, <2>1 DEF TimerInv, IdsPast
  <1>9. TimersApart'
    BY DEF TimerInv, TimersApart, RenewTimed, Settles, Timers
  <1>10. ClosedIsQuiet'
    BY <1>1 DEF ClosedIsQuiet
  <1>11. WaitedTimed'
    BY <1>3, <1>5, <1>7 DEF TimerInv, WaitedTimed
  <1>12. RenewTimed'
    BY <1>6 DEF TimerInv, RenewTimed, Settles, Timers
  <1> QED BY <1>4, <1>8, <1>9, <1>10, <1>11, <1>12 DEF TimerInv

\* A timer expires.
LEMMA ExpiryTimers ==
  ASSUME Types, TimerInv, NEW t \in running, TimerExpires(t)
  PROVE  TimerInv'
  <1>1. /\ Timers' = Timers /\ running' \cap posted' = running \cap posted
        /\ running' \subseteq running
    BY DEF TimerExpires, Timers, TimerInv, TimersApart
  <1>2. /\ Waited' = Waited /\ ClientState' = ClientState /\ (Open(Client)' <=> Open(Client))
        /\ UNCHANGED <<sentRequestIds, clientNextReqId>>
    BY DEF TimerExpires, Waited, ClientState, Open
  <1>3. IdsPast' /\ IdsUnique' /\ TimersApart' /\ ClosedIsQuiet'
    BY <1>1, <1>2 DEF TimerInv, IdsPast, IdsUnique, TimersApart, ClosedIsQuiet
  <1>4. WaitedTimed' /\ RenewTimed'
    BY <1>1, <1>2 DEF TimerInv, WaitedTimed, RenewTimed
  <1> QED BY <1>3, <1>4 DEF TimerInv

\* The renewal timer comes when there is nothing to renew.
LEMMA LateTimers ==
  ASSUME Types, TimerInv, LateRenewal
  PROVE  TimerInv'
  <1>1. /\ Waited' = Waited /\ ClientState' = ClientState /\ (Open(Client)' <=> Open(Client))
        /\ ClientState # "SC_CONNECTED"
        /\ UNCHANGED <<sentRequestIds, clientNextReqId, running>>
    BY DEF LateRenewal, Waited, ClientState, Open
  <1>2. /\ Timers' \subseteq Timers /\ Timers \ {Renew} \subseteq Timers'
        /\ posted' \subseteq posted
    BY DEF LateRenewal, Timers
  <1>3. IdsPast' /\ IdsUnique' /\ TimersApart' /\ ClosedIsQuiet'
    BY <1>1, <1>2 DEF TimerInv, IdsPast, IdsUnique, TimersApart, ClosedIsQuiet
  <1>4. WaitedTimed'
    <2>1. \A m \in Waited : m.id # Renew
      <3>1. \A m \in Waited : m.id \in Nat
        <4>1. Waited \subseteq Ctx
          BY ElemsType DEF Types, ListTypes, Waited
        <4> QED BY <4>1 DEF Ctx
      <3>2. ~Open(Client) => Waited = {}
        BY ElemsSmall DEF TimerInv, ClosedIsQuiet, Waited
      <3> QED BY <3>1, <3>2 DEF TimerInv, IdsPast, Renew
    <2> QED BY <1>1, <1>2, <2>1 DEF TimerInv, WaitedTimed
  <1>5. RenewTimed'
    BY <1>1, <1>2 DEF TimerInv, RenewTimed
  <1> QED BY <1>3, <1>4, <1>5 DEF TimerInv

\* n is m, marked if its timer t has expired.
Marked(m, n, t) ==
  /\ n.id = m.id /\ n.handle = m.handle /\ n.call = m.call
  /\ n.timeoutExpired = (m.timeoutExpired \/ m.id = t)

\* What a timeout leaves in the list.
LEMMA MarkedElems ==
  ASSUME ListTypes, NEW t
  PROVE  /\ \A n \in Elems(MarkExpired(t)) : \E m \in Elems(sentRequestIds) : Marked(m, n, t)
         /\ \A m \in Elems(sentRequestIds) : \E n \in Elems(MarkExpired(t)) : Marked(m, n, t)
  <1> DEFINE s == sentRequestIds
             k == MarkExpired(t)
  <1>1. /\ k \in Seq(Ctx) /\ Len(k) = Len(s) /\ s \in Seq(Ctx)
        /\ \A i \in 1..Len(s) : Marked(s[i], k[i], t)
    BY MarkExpiredType DEF ListTypes, Marked
  <1> HIDE DEF s, k
  <1>2. \A i \in 1..Len(s) : s[i] \in Elems(s) /\ k[i] \in Elems(k)
    BY <1>1 DEF Elems
  <1>3. \A n \in Elems(k) : \E i \in 1..Len(s) : n = k[i]
    BY <1>1 DEF Elems
  <1>4. \A m \in Elems(s) : \E i \in 1..Len(s) : m = s[i]
    BY <1>1 DEF Elems
  <1>5. \A n \in Elems(k) : \E m \in Elems(s) : Marked(m, n, t)
    BY <1>1, <1>2, <1>3
  <1>6. \A m \in Elems(s) : \E n \in Elems(k) : Marked(m, n, t)
    BY <1>1, <1>2, <1>4
  <1> QED BY <1>5, <1>6 DEF s, k

\* A request times out: it stays in the list.
LEMMA TimeoutTimers ==
  ASSUME Types, TimerInv, NEW t \in posted, TreatRequestTimeout(t)
  PROVE  TimerInv'
  <1>1. /\ ClientState' = ClientState /\ (Open(Client)' <=> Open(Client))
        /\ UNCHANGED <<clientNextReqId, running>> /\ sentRequestIds' = MarkExpired(t)
    BY DEF TreatRequestTimeout, ClientState, Open
  <1>2. /\ Timers' \subseteq Timers /\ Timers \ {t} \subseteq Timers'
        /\ posted' \subseteq posted /\ t # Renew
    BY DEF TreatRequestTimeout, Timers
  <1>3. \A n \in Waited' : \E m \in Waited :
           n.id = m.id /\ n.timeoutExpired = (m.timeoutExpired \/ m.id = t)
    BY <1>1, MarkedElems DEF Types, Waited, Marked
  <1>4. IdsPast' /\ TimersApart'
    BY <1>1, <1>2, <1>3 DEF TimerInv, IdsPast, TimersApart
  <1>5. IdsUnique'
    <2>1. /\ sentRequestIds' \in Seq(Ctx) /\ Len(sentRequestIds') = Len(sentRequestIds)
          /\ \A i \in 1..Len(sentRequestIds) : sentRequestIds'[i].id = sentRequestIds[i].id
      BY <1>1, MarkExpiredType DEF Types
    <2>2. \A i \in 1..Len(sentRequestIds) : sentRequestIds'[i] \in Ctx
      BY <2>1
    <2>3. ASSUME NEW i \in 1..Len(sentRequestIds), NEW j \in 1..Len(sentRequestIds), i < j
          PROVE  <<sentRequestIds'[i], sentRequestIds'[j]>> \in DistinctIds
      <3>1. <<sentRequestIds[i], sentRequestIds[j]>> \in DistinctIds
        BY <2>3 DEF TimerInv, IdsUnique, Pairwise
      <3>2. sentRequestIds[i].id # sentRequestIds[j].id
        BY <3>1 DEF DistinctIds
      <3>3. sentRequestIds'[i].id # sentRequestIds'[j].id
        BY <2>1, <3>2
      <3> QED BY <2>2, <3>3 DEF DistinctIds
    <2> QED BY <2>1, <2>3 DEF IdsUnique, Pairwise
  <1>6. ClosedIsQuiet'
    <2>1. ~Open(Client) => sentRequestIds' = <<>>
      <3>1. /\ sentRequestIds' \in Seq(Ctx) /\ Len(sentRequestIds') = Len(sentRequestIds)
        BY <1>1, MarkExpiredType DEF Types
      <3>2. ~Open(Client) => Len(sentRequestIds) = 0
        BY DEF TimerInv, ClosedIsQuiet
      <3>3. \A s \in Seq(Ctx) : Len(s) = 0 => s = <<>>
        OBVIOUS
      <3> QED BY <3>1, <3>2, <3>3
    <2> QED BY <1>1, <2>1 DEF TimerInv, ClosedIsQuiet
  <1>7. WaitedTimed'
    BY <1>2, <1>3 DEF TimerInv, WaitedTimed
  <1>8. RenewTimed'
    BY <1>1, <1>2 DEF TimerInv, RenewTimed
  <1> QED BY <1>4, <1>5, <1>6, <1>7, <1>8 DEF TimerInv

\* The client closes.
LEMMA ClientClosesTimers ==
  ASSUME Types, TimerInv, NEW ev, NEW used, NEW farewell \in BOOLEAN,
         ClientCloses(ev, used, farewell)
  PROVE  TimerInv'
  <1>1. sentRequestIds' = <<>> /\ running' = {}
    BY ClientClosesEffect
  <1>2. ClientState' = "SC_CLOSED" /\ ~Open(Client)'
    <2>1. conn'[Client] = ClosedEnd(conn[Client]) /\ conn[Client] \in Connection
      BY ClientClosesEffect, ClosesEffect, EndsPeer DEF Types, ChanTypes
    <2>2. ClosedEnd(conn[Client]).state = "SC_CLOSED"
      BY <2>1 DEF ClosedEnd, Connection
    <2> QED BY <2>1, <2>2 DEF ClientState, Open
  <1>3. Waited' = {}
    BY <1>1, ElemsSmall DEF Waited
  <1>4. IdsPast' /\ ClosedIsQuiet' /\ WaitedTimed' /\ RenewTimed'
    BY <1>1, <1>2, <1>3 DEF IdsPast, ClosedIsQuiet, WaitedTimed, RenewTimed
  <1>5. TimersApart' /\ IdsUnique'
    BY <1>1, PairwiseSmall DEF TimersApart, IdsUnique
  <1> QED BY <1>4, <1>5 DEF TimerInv

\* A part of a response: its request goes to the head of the list.
LEMMA ClientChunkTimers ==
  ASSUME Types, TimerInv, NEW c, ClientGets(c), ClientChunk(c)
  PROVE  TimerInv'
  <1>1. /\ c \in Numbered /\ c.id \in Nat
        /\ \E i \in 1..Len(sentRequestIds) : sentRequestIds[i].id = c.id
    <2>1. Accepted(Client, c) /\ c.type # "ERR"
      BY DEF ClientChunk
    <2> QED BY <2>1, ClientGetsType
  <1>2. /\ CtxIndex(c.id) \in 1..Len(sentRequestIds) /\ CtxOf(c.id) = sentRequestIds[CtxIndex(c.id)]
        /\ OtherCtxs(c.id) = Without(sentRequestIds, CtxIndex(c.id))
        /\ sentRequestIds \in Seq(Ctx) /\ OtherCtxs(c.id) \in Seq(Ctx) /\ CtxOf(c.id) \in Ctx
        /\ sentRequestIds' = <<CtxOf(c.id)>> \o OtherCtxs(c.id)
        /\ Waited' = Waited
    BY <1>1, CtxTypes DEF Types, ListTypes, ClientChunk, Waited
  <1>3. ClientState' = ClientState /\ (Open(Client)' <=> Open(Client)) /\ Open(Client)
    <2>1. conn'[Client] = AfterChunk(Client, c) /\ AfterChunk(Client, c).state = conn[Client].state
      BY ClientChunkEffect, AfterChunkType, ReceivesEffect, EndsPeer DEF Types
    <2> QED BY <2>1 DEF ClientState, Open, ClientGets
  <1>4. Timers' = Timers /\ UNCHANGED <<running, posted, clientNextReqId>>
    BY DEF ClientGets, ClientChunk, Timers
  <1>5. IdsUnique'
    <2> DEFINE m == CtxOf(c.id)
               o == OtherCtxs(c.id)
               a == <<m>>
    <2>1. Pairwise(o, DistinctIds)
      BY <1>2, PairwiseWithout DEF TimerInv, IdsUnique
    <2>2. \A e \in Elems(o) : <<m, e>> \in DistinctIds \/ <<e, m>> \in DistinctIds
      BY <1>2, PairwiseOut DEF TimerInv, IdsUnique
    <2>3. \A e \in Elems(o) : <<m, e>> \in DistinctIds
      BY <2>2 DEF DistinctIds
    <2>4. a \in Seq(Ctx) /\ Elems(a) = {m} /\ Pairwise(a, DistinctIds)
      BY <1>2, ElemsSmall, PairwiseSmall
    <2> HIDE DEF m, o, a
    <2>5. o \in Seq(Ctx)
      BY <1>2 DEF o
    <2>6. Pairwise(a \o o, DistinctIds)
      BY <2>1, <2>3, <2>4, <2>5, PairwiseConcat
    <2> QED BY <1>2, <2>6 DEF IdsUnique, a, m, o
  <1>6. IdsPast' /\ TimersApart' /\ ClosedIsQuiet'
    BY <1>2, <1>3, <1>4 DEF TimerInv, IdsPast, TimersApart, ClosedIsQuiet
  <1>7. WaitedTimed' /\ RenewTimed'
    BY <1>2, <1>3, <1>4 DEF TimerInv, WaitedTimed, RenewTimed
  <1> QED BY <1>5, <1>6, <1>7 DEF TimerInv

\* A step of the server's end does nothing to the client's.
LEMMA ServerIdle ==
  ASSUME Types,
         \/ \E farewell \in BOOLEAN : ServerCloses(farewell)
         \/ \E c : ServerGets(c) /\ (ServerChunk(c) \/ ServerRequest(c) \/ ServerRenews(c))
         \/ \E q \in todo, n \in Sizes : Respond(q, n)
  PROVE  /\ conn'[Client] = conn[Client]
         /\ UNCHANGED <<clientNextReqId, sentRequestIds, running, posted>>
  <1>1. UNCHANGED <<clientNextReqId, sentRequestIds, running, posted>>
    BY DEF ServerCloses, ServerGets, Respond
  <1>2. \E r : conn' = [conn EXCEPT ![Server] = r]
    BY DEF ServerCloses, CloseServer, ServerChunk, ServerRequest, ServerRenews, Respond
  <1> QED BY <1>1, <1>2, EndsPeer DEF Types, ChanTypes

\* The client sends, and stays as it is.
LEMMA SentState ==
  ASSUME Types, NEW m \in Seq(Chunks), NEW n \in Nat, SendsAs(Client, m, Sent(conn[Client], n))
  PROVE  ClientState' = ClientState
  <1>1. conn[Client] \in Connection
    BY EndsPeer DEF Types, ChanTypes
  <1>2. Sent(conn[Client], n).state = conn[Client].state
    BY <1>1 DEF Sent, Connection
  <1>3. conn'[Client] = Sent(conn[Client], n)
    BY <1>1, ConnectionTypes, SendsEffect, EndsPeer, ZenonT(60) DEF Types
  <1> QED BY <1>2, <1>3 DEF ClientState

\* Steps that the timers do not see.
LEMMA IdleSteps ==
  ASSUME Types,
         \/ \E c \in Calls, n \in Sizes : Request(c, n)
         \/ TreatServicesEvent
         \/ \E r : Pops(r) /\ RefuseRequest(r)
         \/ \E r : Pops(r) /\ r.chunks > 1 /\ UnrecordedRequest(r)
         \/ \E r : Pops(r) /\ \E k \in 0..(r.chunks - 1) : AbortRequest(r, k)
         \/ \E farewell \in BOOLEAN : ServerCloses(farewell)
         \/ \E c : ServerGets(c) /\ (ServerChunk(c) \/ ServerRequest(c) \/ ServerRenews(c))
         \/ \E q \in todo, n \in Sizes : Respond(q, n)
  PROVE  Idle
  <1>1. CASE (\E c \in Calls, n \in Sizes : Request(c, n)) \/ TreatServicesEvent
    BY <1>1 DEF Request, TreatServicesEvent, chanVars, Idle, ClientState
  <1>2. ASSUME NEW r, Pops(r), RefuseRequest(r) PROVE Idle
    BY <1>2 DEF Pops, RefuseRequest, Idle, ClientState
  <1>3. ASSUME NEW r, Pops(r), r.chunks > 1, UnrecordedRequest(r) PROVE Idle
    <2>1. r.chunks + 1 \in Nat
      BY <1>3, PopsType DEF Asked
    <2>2. ClientState' = ClientState
      BY <1>3, <2>1, UnrecordedEffect, SentState
    <2> QED BY <1>3, <2>2, UnrecordedEffect DEF Pops, Idle
  <1>4. ASSUME NEW r, Pops(r), NEW k \in 0..(r.chunks - 1), AbortRequest(r, k) PROVE Idle
    <2>1. k + 1 \in Nat
      BY <1>4, PopsType DEF Asked
    <2>2. ClientState' = ClientState
      BY <1>4, <2>1, AbortEffect, SentState
    <2> QED BY <1>4, <2>2 DEF Pops, AbortRequest, Idle
  <1>5. CASE \/ \E farewell \in BOOLEAN : ServerCloses(farewell)
             \/ \E c : ServerGets(c) /\ (ServerChunk(c) \/ ServerRequest(c) \/ ServerRenews(c))
             \/ \E q \in todo, n \in Sizes : Respond(q, n)
    BY <1>5, ServerIdle DEF Idle, ClientState
  <1> QED BY <1>1, <1>2, <1>3, <1>4, <1>5

\* Requests of the services and renewals are waited for.
LEMMA WaitsSteps ==
  ASSUME Types, (\E r : Pops(r) /\ SendRequest(r)) \/ AsksRenewal
  PROVE  \E m \in Ctx : Waits(m)
  <1>1. ASSUME NEW r, Pops(r), SendRequest(r) PROVE \E m \in Ctx : Waits(m)
    <2> DEFINE m == RequestCtx(clientNextReqId, r.handle, r.call)
    <2>1. r \in Asked /\ r.handle \in Handles \cup {0} /\ r.call \in Calls \cup {0} /\ r.chunks \in Nat
      BY <1>1, PopsType DEF Asked
    <2>2. m \in Ctx /\ m.id = clientNextReqId /\ ~m.timeoutExpired
      BY <2>1, RequestCtxType DEF Types, RequestCtx
    <2>3. ClientState' = ClientState
      BY <1>1, <2>1, SendEffect, SentState
    <2>4. Waits(m)
      BY <1>1, <2>2, <2>3 DEF Waits, SendRequest, Pops, TimersWith
    <2> QED BY <2>2, <2>4
  <1>2. ASSUME AsksRenewal PROVE \E m \in Ctx : Waits(m)
    <2> DEFINE m == RequestCtx(clientNextReqId, OPN, 0)
    <2>1. m \in Ctx /\ m.id = clientNextReqId /\ ~m.timeoutExpired
      BY RequestCtxType DEF Types, RequestCtx, OPN
    <2>2. ClientState' = "SC_CONNECTED_RENEW" /\ Open(Client)
      <3>1. conn[Client] \in Connection /\ conn'[Client] = AskedEnd
        BY <1>2, AskEffect, SendsEffect, EndsPeer DEF Types, ChanTypes
      <3>2. AskedEnd.state = "SC_CONNECTED_RENEW"
        BY <3>1 DEF AskedEnd, Sent, Connection
      <3> QED BY <1>2, <3>1, <3>2 DEF ClientState, AsksRenewal, Open
    <2>3. Waits(m)
      BY <1>2, <2>1, <2>2 DEF Waits, AsksRenewal, AskRenewal, TimersWith
    <2> QED BY <2>1, <2>3
  <1> QED BY <1>1, <1>2

\* An answer ends its request.
LEMMA SettlesSteps ==
  ASSUME Types, NEW c, ClientGets(c), ClientResponse(c) \/ TakesRenewal(c)
  PROVE  /\ Settles(c.id) /\ c.id \in Nat
         /\ \E i \in 1..Len(sentRequestIds) : sentRequestIds[i].id = c.id
  <1>1. Accepted(Client, c) /\ c.type # "ERR"
    BY DEF ClientResponse, TakesRenewal
  <1>2. c \in Numbered /\ c.id \in Nat /\ RoomForChunk(Client, c)
        /\ \E i \in 1..Len(sentRequestIds) : sentRequestIds[i].id = c.id
    BY <1>1, ClientGetsType DEF Accepted
  <1>3. AfterChunk(Client, c).state = conn[Client].state
    BY <1>2, AfterChunkType, EndsPeer DEF Types
  <1>4. CASE ClientResponse(c)
    <2>1. conn'[Client] = AfterChunk(Client, c)
      BY <1>4, ClientChunkEffect, AfterChunkType, ReceivesEffect, EndsPeer DEF Types
    <2> QED BY <1>2, <1>3, <1>4, <2>1 DEF Settles, ClientState, ClientGets, ClientResponse
  <1>5. CASE TakesRenewal(c)
    <2>1. /\ AfterChunk(Client, c) \in Connection /\ RenewedEnd(c) \in Connection
          /\ RenewedEnd(c).state = "SC_CONNECTED"
      BY <1>2, <1>5, TakesEffect, AfterChunkType, EndsPeer DEF Types
    <2>2. CASE CtxOf(c.id).timeoutExpired
      <3>1. conn'[Client] = AfterChunk(Client, c) /\ running' = running \ {c.id}
        BY <1>5, <2>1, <2>2, EndsPeer DEF TakesRenewal, Types, ChanTypes
      <3> QED BY <1>2, <1>3, <1>5, <3>1 DEF Settles, ClientState, ClientGets, TakesRenewal
    <2>3. CASE ~CtxOf(c.id).timeoutExpired
      <3>1. conn'[Client] = RenewedEnd(c) /\ running' = TimersAfterRenewal(c)
        BY <1>5, <2>1, <2>3, EndsPeer DEF TakesRenewal, Types, ChanTypes, RenewedEnd
      <3>2. conn[Client].state = "SC_CONNECTED_RENEW"
        BY <1>5, <2>3 DEF TakesRenewal, ExpectedOPN
      <3> QED BY <1>2, <1>5, <2>1, <3>1, <3>2
          DEF Settles, ClientState, ClientGets, TakesRenewal, TimersAfterRenewal
    <2> QED BY <2>2, <2>3
  <1> QED BY <1>2, <1>4, <1>5

\* The timers at first.
LEMMA InitTimers ==
  ASSUME Init
  PROVE  TimerInv
  <1>1. /\ clientNextReqId = 3 /\ sentRequestIds = <<>> /\ running = {Renew} /\ posted = {}
        /\ ClientState = "SC_CONNECTED" /\ Open(Client)
    BY EndsPeer DEF Init, ClientState, Open
  <1>2. Waited = {} /\ Timers = {Renew}
    BY <1>1, ElemsSmall DEF Waited, Timers
  <1>3. IdsUnique
    BY <1>1, PairwiseSmall DEF IdsUnique
  <1>4. IdsPast /\ TimersApart /\ ClosedIsQuiet /\ WaitedTimed /\ RenewTimed
    BY <1>1, <1>2 DEF IdsPast, TimersApart, ClosedIsQuiet, WaitedTimed, RenewTimed, Renew
  <1> QED BY <1>3, <1>4 DEF TimerInv

\* Every step keeps the timers in order.
LEMMA TimersStep ==
  ASSUME Types, TimerInv, [Next]_vars
  PROVE  TimerInv'
  <1>0. Types'
    BY TypesStep
  <1>1. CASE UNCHANGED vars
    <2>1. Idle
      BY <1>1 DEF vars, chanVars, Idle, ClientState
    <2> QED BY <1>0, <2>1, IdleTimers
  <1>2. CASE Idle
    BY <1>0, <1>2, IdleTimers
  <1>3. CASE \E m \in Ctx : Waits(m)
    BY <1>0, <1>3, WaitsTimers
  <1>4. CASE \E id \in Nat : /\ Settles(id)
                             /\ \E i \in 1..Len(sentRequestIds) : sentRequestIds[i].id = id
    BY <1>0, <1>4, SettlesTimers
  <1>5. CASE Step
    BY <1>2, <1>3, <1>4, <1>5, IdleSteps, WaitsSteps, SettlesSteps, ExpiryTimers, LateTimers,
       TimeoutTimers, ClientClosesTimers, ClientChunkTimers DEF Step
  <1> QED BY <1>1, <1>5, NextSteps

\* What the timers and the list of requests satisfy together.
THEOREM TimersInvariant == Spec => [](Types /\ TimerInv)
  <1>1. Init => Types /\ TimerInv
    BY InitTypes, InitTimers
  <1>2. (Types /\ TimerInv) /\ [Next]_vars => (Types /\ TimerInv)'
    BY TypesStep, TimersStep
  <1> QED BY <1>1, <1>2, PTL DEF Spec

\* Type invariant of a secure channel.
THEOREM TypesHold == Spec => []TypeOK
  <1>1. Types /\ TimerInv => TypeOK
    <2> SUFFICES ASSUME Types, TimerInv PROVE TypeOK
      OBVIOUS
    <2>1. ASSUME NEW p \in Ends
          PROVE  /\ conn[p].state \in {"SC_CONNECTED", "SC_CONNECTED_RENEW", "SC_CLOSED"}
                 /\ conn[p].lastSNsent \in 1..SNMax /\ conn[p].lastSNreceived \in 1..SNMax
                 /\ Len(conn[p].intermediateChunks) < MaxChunkCount
      BY DEF Types, ChanTypes, Connection, States, SNs
    <2> QED BY <2>1 DEF TypeOK, Types, ListTypes, SvcTypes, TimerInv, TimersApart
  <1> QED BY <1>1, TimersInvariant, PTL

\* A request the client waits for can always be ended by a timer
\* (SC_Client_StartRequestTimeout, TIMER_SC_REQUEST_TIMEOUT).
THEOREM RequestsTimed == Spec => []WaitedIsTimed
  <1>1. Types /\ TimerInv => WaitedIsTimed
    BY ElemsType DEF Types, ListTypes, TimerInv, WaitedTimed, WaitedIsTimed, Waited, Timers
  <1> QED BY <1>1, TimersInvariant, PTL

-----------------------------------------------------------------------------
(* What goes between the two ends.                                         *)

\* The requests can be recorded: without this the numbers have gaps.
NoGap == "context" \notin OutOfMemory

Carries(c) == c.type = "MSG" /\ c.isFinal # "A"
ChunkOK(c) ==
  /\ c.type # "MSG" => c.isFinal = "F"
  /\ Carries(c) => /\ c.body.part \in 1..c.body.of /\ c.body.of <= MaxChunkCount
                   /\ c.isFinal = IF c.body.part < c.body.of THEN "C" ELSE "F"

\* b may come after a: it goes on with the message of a, or begins another,
\* and it has the next sequence number.
Fits(a, b) ==
  /\ a.isFinal = "C" => /\ b.type = "MSG"
                        /\ Carries(b) => b.body = [a.body EXCEPT !.part = @ + 1]
  /\ a.isFinal # "C" /\ Carries(b) => b.body.part = 1
  /\ NoGap /\ b.type # "ERR" => b.sn = NextSN(a.sn)
  /\ NoGap /\ a.isFinal = "C" => b.id = a.id
Link == {e \in Chunks \X Chunks : Fits(e[1], e[2])}

\* The chunks that q keeps, and the chunk it took last, as far as the next one
\* depends on it.
Kept(q) == conn[q].intermediateChunks
LastKept(r) ==
  LET k == r.intermediateChunks
  IN  Chunk("MSG", IF k = <<>> THEN "F" ELSE "C", NoToken, r.lastSNreceived,
            r.currentMsgRequestId, IF k = <<>> THEN NoBody ELSE k[Len(k)])
Prev(q) == LastKept(conn[q])
LastSent(p) == LastOf(Prev(Peer(p)), wire[p])

\* The chunks of a message, from the first.
Parts(m) == \A i \in 1..Len(m) : m[i] = Part(m[1].call, m[1].handle, i, m[1].of)

\* What is on the way from p, and what the other end has taken of it.
DirInv(p) ==
  /\ ~Open(Peer(p)) => wire[p] = <<>>
  /\ Open(Peer(p)) =>
       /\ Follows(Prev(Peer(p)), wire[p], Link)
       /\ LastSent(p).isFinal # "C"
       /\ Open(p) /\ NoGap => LastSent(p).sn = conn[p].lastSNsent
       /\ \A x \in Elems(wire[p]) : ChunkOK(x)
       /\ Parts(Kept(Peer(p)))
       /\ Kept(Peer(p)) = <<>> => conn[Peer(p)].currentMsgRequestId = 0

\* p sends m after the chunk last, and its number becomes sn.
Continues(last, m, opened, sn) ==
  /\ Follows(last, m, Link)
  /\ LastOf(last, m).isFinal # "C"
  /\ opened /\ NoGap => LastOf(last, m).sn = sn
  /\ \A x \in Elems(m) : ChunkOK(x)

SameReceiver(q) ==
  /\ Kept(q)' = Kept(q) /\ (Open(q)' <=> Open(q))
  /\ conn'[q].lastSNreceived = conn[q].lastSNreceived
  /\ conn'[q].currentMsgRequestId = conn[q].currentMsgRequestId

\* The last chunk of a connection is a chunk.
LEMMA LastKeptType ==
  ASSUME NEW r \in Connection
  PROVE  LastKept(r) \in Numbered
  <1> DEFINE k == r.intermediateChunks
  <1>1. k \in Seq(Body) /\ r.lastSNreceived \in SNs /\ r.currentMsgRequestId \in Nat
    BY DEF Connection
  <1>2. k # <<>> => k[Len(k)] \in Body
    BY <1>1
  <1> QED BY <1>1, <1>2, PartType, ChunkType DEF LastKept

\* More is sent.
LEMMA DirAppend ==
  ASSUME ChanTypes, NEW p \in Ends, DirInv(p), SameReceiver(Peer(p)), NEW m \in Seq(Chunks),
         wire'[p] = (IF Open(Peer(p)) THEN wire[p] \o m ELSE wire[p]),
         Open(Peer(p)) => Continues(LastSent(p), m, Open(p)', conn'[p].lastSNsent)
  PROVE  DirInv(p)'
  <1> DEFINE q == Peer(p)
             prev == Prev(q)
             w == wire[p]
  <1>1. q \in Ends /\ w \in Seq(Chunks)
    BY EndsPeer DEF ChanTypes
  <1>2. prev' = prev /\ (Open(q)' <=> Open(q)) /\ Kept(q)' = Kept(q)
        /\ conn'[q].currentMsgRequestId = conn[q].currentMsgRequestId
    BY DEF SameReceiver, Prev, LastKept, Kept
  <1>3. CASE ~Open(q)
    BY <1>2, <1>3 DEF DirInv
  <1>4. CASE Open(q)
    <2>1. /\ Follows(prev, w, Link) /\ Follows(LastOf(prev, w), m, Link)
          /\ wire'[p] = w \o m /\ LastSent(p) = LastOf(prev, w)
      BY <1>4 DEF DirInv, Continues, LastSent
    <2>0. \A x \in Elems(w) : ChunkOK(x)
      BY <1>4 DEF DirInv
    <2> HIDE DEF prev, w
    <2>2. /\ Follows(prev, w \o m, Link)
          /\ LastOf(prev, w \o m) = LastOf(LastOf(prev, w), m)
      BY <1>1, <2>1, FollowsConcat
    <2>3. LastSent(p)' = LastOf(LastSent(p), m)
      BY <1>2, <2>1, <2>2 DEF LastSent, prev
    <2>4. Elems(w \o m) = Elems(w) \cup Elems(m)
      BY <1>1, ElemsConcat
    <2>5. \A x \in Elems(wire'[p]) : ChunkOK(x)
      BY <1>4, <2>0, <2>1, <2>4 DEF Continues
    <2>6. Follows(prev', wire'[p], Link)
      BY <1>2, <2>1, <2>2
    <2> QED BY <1>2, <1>4, <2>3, <2>5, <2>6 DEF DirInv, Continues, prev
  <1> QED BY <1>3, <1>4

\* Nothing is sent or received; the sender may close.
LEMMA DirStill ==
  ASSUME NEW p \in Ends, DirInv(p), SameReceiver(Peer(p)), wire'[p] = wire[p],
         Open(p)' => Open(p) /\ conn'[p].lastSNsent = conn[p].lastSNsent
  PROVE  DirInv(p)'
  <1> DEFINE q == Peer(p)
  <1>1. /\ Prev(q)' = Prev(q) /\ (Open(q)' <=> Open(q)) /\ Kept(q)' = Kept(q)
        /\ conn'[q].currentMsgRequestId = conn[q].currentMsgRequestId
    BY DEF SameReceiver, Prev, LastKept, Kept
  <1>2. LastSent(p)' = LastSent(p)
    BY <1>1 DEF LastSent
  <1> QED BY <1>1, <1>2 DEF DirInv

\* What may come after the chunk c may come after it was taken.
LEMMA FitsTaken ==
  ASSUME ChanTypes, NEW q \in Ends, NEW c \in Numbered, Kept(q)' = TreatMsgMultiChunks(q, c),
         conn'[q].lastSNreceived = c.sn,
         conn'[q].currentMsgRequestId = (IF c.isFinal = "C" THEN c.id ELSE 0)
  PROVE  /\ (Prev(q)').sn = c.sn /\ ((Prev(q)').isFinal = "C" <=> c.isFinal = "C")
         /\ \A x : Fits(c, x) => Fits(Prev(q)', x)
         /\ Kept(q)' = <<>> => conn'[q].currentMsgRequestId = 0
  <1>1. Kept(q) \in Seq(Body) /\ c.body \in Body
    BY DEF ChanTypes, Connection, Kept, Numbered
  <1> DEFINE k == Append(Kept(q), c.body)
  <1>2. k # <<>> /\ k[Len(k)] = c.body
    BY <1>1
  <1>3. Kept(q)' = IF c.isFinal = "C" THEN k ELSE <<>>
    BY DEF TreatMsgMultiChunks, Kept
  <1> HIDE DEF k
  <1>4. CASE c.isFinal = "C"
    <2>1. Prev(q)' = Chunk("MSG", "C", NoToken, c.sn, c.id, c.body)
      BY <1>2, <1>3, <1>4 DEF Prev, LastKept, Kept
    <2>2. /\ (Prev(q)').isFinal = "C" /\ (Prev(q)').sn = c.sn /\ (Prev(q)').id = c.id
          /\ (Prev(q)').body = c.body
      BY <2>1 DEF Chunk
    <2> QED BY <1>2, <1>3, <1>4, <2>2 DEF Fits
  <1>5. CASE c.isFinal # "C"
    <2>1. Prev(q)' = Chunk("MSG", "F", NoToken, c.sn, 0, NoBody)
      BY <1>3, <1>5 DEF Prev, LastKept, Kept
    <2>2. (Prev(q)').isFinal = "F" /\ (Prev(q)').sn = c.sn
      BY <2>1 DEF Chunk
    <2> QED BY <1>3, <1>5, <2>2 DEF Fits
  <1> QED BY <1>4, <1>5

\* The kept chunks are the first of a message.
LEMMA PartsTaken ==
  ASSUME ChanTypes, NEW q \in Ends, NEW c \in Numbered, Parts(Kept(q)), Fits(Prev(q), c),
         Carries(c)
  PROVE  /\ Parts(Message(q, c)) /\ Len(Message(q, c)) = c.body.part
         /\ Message(q, c)[1].of = c.body.of
  <1> DEFINE k == Kept(q)
             n == Len(k)
             m == Append(k, c.body)
  <1>0. Message(q, c) = m
    BY DEF Message, Kept
  <1>1. k \in Seq(Body) /\ c.body \in Body /\ n \in Nat
    BY DEF ChanTypes, Connection, Kept, Numbered
  <1>2. /\ Len(m) = n + 1 /\ m[n + 1] = c.body /\ \A i \in 1..n : m[i] = k[i]
    BY <1>1
  <1>3. \A b \in Body : b = Part(b.call, b.handle, b.part, b.of)
    BY DEF Body, Part
  <1>4. CASE k = <<>>
    <2>1. n = 0 /\ (Prev(q)).isFinal = "F"
      BY <1>4 DEF Prev, LastKept, Kept, Chunk
    <2>2. c.body.part = 1
      BY <2>1 DEF Fits
    <2>3. m[1] = c.body /\ Len(m) = 1
      BY <1>2, <2>1
    <2> HIDE DEF m
    <2>4. \A i \in 1..Len(m) : i = 1
      BY <2>3
    <2>5. m[1] = Part(m[1].call, m[1].handle, 1, m[1].of)
      BY <1>1, <1>3, <2>2, <2>3
    <2> QED BY <1>0, <2>2, <2>3, <2>4, <2>5 DEF Parts
  <1>5. CASE k # <<>>
    <2>1. n > 0 /\ n \in 1..n /\ 1 \in 1..n
      BY <1>1, <1>5
    <2>2. (Prev(q)).isFinal = "C" /\ (Prev(q)).body = k[n]
      BY <1>5 DEF Prev, LastKept, Kept, Chunk
    <2>3. c.body = [k[n] EXCEPT !.part = @ + 1]
      BY <2>2 DEF Fits
    <2>4. k[n] = Part(k[1].call, k[1].handle, n, k[1].of)
      BY <2>1 DEF Parts
    <2>5. c.body = Part(k[1].call, k[1].handle, n + 1, k[1].of)
      BY <2>3, <2>4 DEF Part
    <2>6. m[1] = k[1] /\ Len(m) = n + 1
      BY <1>2, <2>1
    <2>7. ASSUME NEW i \in 1..Len(m) PROVE m[i] = Part(m[1].call, m[1].handle, i, m[1].of)
      <3>1. CASE i \in 1..n
        BY <1>2, <2>6, <3>1 DEF Parts
      <3>2. CASE i = n + 1
        BY <1>2, <2>5, <2>6, <3>2
      <3> QED BY <1>1, <1>2, <3>1, <3>2
    <2>8. c.body.part = n + 1 /\ c.body.of = k[1].of
      BY <2>5 DEF Part
    <2> HIDE DEF m
    <2> QED BY <1>0, <2>6, <2>7, <2>8 DEF Parts
  <1> QED BY <1>4, <1>5

\* A chunk is taken.
LEMMA DirTake ==
  ASSUME ChanTypes, ChanTypes', NEW p \in Ends, DirInv(p), Open(Peer(p)), wire[p] # <<>>,
         NEW c \in Numbered, c = Head(wire[p]), wire'[p] = Tail(wire[p]),
         Kept(Peer(p))' = TreatMsgMultiChunks(Peer(p), c), Open(Peer(p))',
         conn'[Peer(p)].lastSNreceived = c.sn,
         conn'[Peer(p)].currentMsgRequestId = (IF c.isFinal = "C" THEN c.id ELSE 0),
         Open(p)' <=> Open(p), conn'[p].lastSNsent = conn[p].lastSNsent
  PROVE  DirInv(p)' /\ Fits(Prev(Peer(p)), c) /\ ChunkOK(c)
  <1> DEFINE q == Peer(p)
             w == wire[p]
             new == Prev(q)'
  <1>1. q \in Ends /\ w \in Seq(Chunks) /\ Tail(w) \in Seq(Chunks)
    BY EndsPeer DEF ChanTypes
  <1>2. /\ new.sn = c.sn /\ (new.isFinal = "C" <=> c.isFinal = "C")
        /\ \A x : Fits(c, x) => Fits(new, x)
        /\ Kept(q)' = <<>> => conn'[q].currentMsgRequestId = 0
    BY <1>1, FitsTaken
  <1>3. new \in Chunks
    <2>1. new \in Numbered
      BY <1>1, LastKeptType DEF Prev, ChanTypes
    <2> QED BY <2>1 DEF Chunks
  <1>4. Follows(Prev(q), w, Link) /\ \A x \in Elems(w) : ChunkOK(x)
    BY DEF DirInv
  <1>5. Elems(w) = {c} \cup Elems(Tail(w))
    BY <1>1, ElemsTail
  <1> HIDE DEF new, w
  <1>6. StandsFor(new, Head(w), Chunks, Link)
    <2>1. Head(w) = c
      BY DEF w
    <2> QED BY <1>2, <1>3, <2>1 DEF Link, StandsFor
  <1>7. /\ Follows(new, Tail(w), Link) /\ <<Prev(q), Head(w)>> \in Link
        /\ \/ LastOf(new, Tail(w)) = new /\ LastOf(Prev(q), w) = Head(w)
           \/ LastOf(new, Tail(w)) = LastOf(Prev(q), w)
    <2>1. w # <<>>
      BY DEF w
    <2>2. w \in Seq(Chunks) /\ Follows(Prev(q), w, Link)
      BY <1>1, <1>4
    <2> QED BY <1>6, <2>1, <2>2, FollowsTail
  <1>8. Fits(Prev(q), c) /\ ChunkOK(c)
    BY <1>4, <1>5, <1>7 DEF Link, w
  <1>9. LastSent(p)' = LastOf(new, Tail(w)) /\ LastSent(p) = LastOf(Prev(q), w)
    BY DEF LastSent, new, w
  <1>10. (LastSent(p)').isFinal # "C"
    BY <1>2, <1>7, <1>9 DEF DirInv, w
  <1>11. Open(p)' /\ NoGap => (LastSent(p)').sn = conn'[p].lastSNsent
    BY <1>2, <1>7, <1>9 DEF DirInv, w
  <1>12. Parts(Kept(q)')
    <2>1. CASE c.isFinal = "C"
      <3>1. Carries(c)
        BY <1>8, <2>1 DEF Carries, ChunkOK
      <3>2. Kept(q)' = Message(q, c)
        BY <2>1 DEF TreatMsgMultiChunks, Message
      <3> QED BY <1>1, <1>8, <3>1, <3>2, PartsTaken DEF DirInv
    <2>2. CASE c.isFinal # "C"
      BY <2>2 DEF TreatMsgMultiChunks, Parts
    <2> QED BY <2>1, <2>2
  <1>13. \A x \in Elems(wire'[p]) : ChunkOK(x)
    BY <1>4, <1>5 DEF w
  <1>14. Follows(Prev(q)', wire'[p], Link)
    BY <1>7 DEF new, w
  <1> QED BY <1>2, <1>8, <1>10, <1>11, <1>12, <1>13, <1>14 DEF DirInv

-----------------------------------------------------------------------------
(* What is sent.                                                           *)

\* m are chunks of request id that may come after last; sn is the last number.
InMessage(last, m, id, sn, whole) ==
  /\ Follows(last, m, Link) /\ \A x \in Elems(m) : ChunkOK(x)
  /\ LastOf(last, m) \in Chunks
  /\ LastOf(last, m).isFinal = "C" => ~whole /\ LastOf(last, m).id = id
  /\ NoGap => LastOf(last, m).sn = sn

\* The chunks of a message follow each other.
LEMMA MessageFollows ==
  ASSUME ChanTypes, NEW p \in Ends, NEW id \in Nat, NEW call \in Calls \cup {0},
         NEW h \in Handles \cup {0}, NEW n \in Nat \ {0}, NEW k \in 0..n,
         k = 0 \/ n <= MaxChunkCount,
         NEW last \in Chunks, last.isFinal # "C", NoGap => last.sn = conn[p].lastSNsent
  PROVE  InMessage(last, MsgChunks(p, id, call, h, n, k), id, SNAfter(conn[p].lastSNsent, k), k = n)
  <1> DEFINE m == MsgChunks(p, id, call, h, n, k)
             s == conn[p].lastSNsent
             e(i) == Chunk("MSG", IF i < n THEN "C" ELSE "F", SendToken(p),
                           SNAfter(s, i), id, Part(call, h, i, n))
  <1>1. k \in Nat /\ n \in Nat /\ k <= n
    OBVIOUS
  <1>2. m \in Seq(Numbered) /\ Len(m) = k /\ \A i \in 1..k : m[i] = e(i)
    <2>1. m \in Seq(Numbered)
      BY <1>1, MsgChunksType
    <2>3. Len(m) = k
      <3>1. m = [i \in 1..k |-> e(i)]
        BY DEF MsgChunks
      <3> HIDE DEF e
      <3>2. Len([i \in 1..k |-> e(i)]) = k
        BY <1>1
      <3> QED BY <3>1, <3>2
    <2>2. \A i \in 1..k : m[i] = e(i)
      BY DEF MsgChunks
    <2> QED BY <2>1, <2>2, <2>3
  <1>3. ASSUME NEW i \in 1..k
        PROVE  /\ m[i].type = "MSG" /\ m[i].isFinal = (IF i < n THEN "C" ELSE "F")
               /\ m[i].sn = SNAfter(s, i) /\ m[i].id = id /\ m[i].body = Part(call, h, i, n)
               /\ m[i].body.part = i /\ m[i].body.of = n /\ m[i] \in Chunks /\ m[i] \in Numbered
    <2>1. m[i] \in Numbered
      BY <1>2
    <2> QED BY <1>2, <2>1 DEF Chunk, Part, Chunks
  <1> HIDE DEF m, s
  <1>4. ASSUME NEW i \in 1..k PROVE ChunkOK(m[i]) /\ Carries(m[i])
    <2>1. Carries(m[i])
      BY <1>3 DEF Carries
    <2>2. i \in 1..n /\ n <= MaxChunkCount
      BY <1>1
    <2> QED BY <1>3, <2>1, <2>2 DEF ChunkOK
  <1>5. ASSUME NEW i \in 1..k PROVE SNAfter(s, i) = NextSN(SNAfter(s, i - 1))
    <2>1. i - 1 \in Nat /\ (i - 1) + 1 = i
      OBVIOUS
    <2> QED BY <2>1, SNAfterSteps
  <1>6. ASSUME NEW i \in 1..(k - 1) PROVE <<m[i], m[i + 1]>> \in Link
    <2>1. i \in 1..k /\ i + 1 \in 1..k /\ (i + 1) - 1 = i /\ i < n /\ i + 1 # 1
      BY <1>1
    <2>2. m[i].isFinal = "C" /\ m[i].id = id /\ m[i + 1].id = id /\ m[i + 1].type = "MSG"
      BY <1>3, <2>1
    <2>3. m[i + 1].body = [m[i].body EXCEPT !.part = @ + 1]
      <3>1. m[i + 1].body = Part(call, h, i + 1, n) /\ m[i].body = Part(call, h, i, n)
        BY <1>3, <2>1
      <3> QED BY <3>1 DEF Part
    <2>4. m[i + 1].sn = NextSN(m[i].sn)
      BY <1>3, <1>5, <2>1
    <2>5. Fits(m[i], m[i + 1])
      BY <2>2, <2>3, <2>4 DEF Fits
    <2> QED BY <1>3, <2>1, <2>5 DEF Link
  <1>7. k > 0 => <<last, m[1]>> \in Link
    <2> HAVE k > 0
    <2>1. 1 \in 1..k /\ 1 - 1 = 0
      BY <1>1
    <2>2. m[1].type = "MSG" /\ m[1].body.part = 1 /\ m[1].sn = SNAfter(s, 1)
      BY <1>3, <2>1
    <2>3. SNAfter(s, 1) = NextSN(s)
      <3>1. SNAfter(s, 1 - 1) = s
        BY <2>1, SNAfterSteps
      <3> QED BY <1>5, <2>1, <3>1
    <2>4. Fits(last, m[1])
      BY <2>2, <2>3 DEF Fits, s
    <2> QED BY <1>3, <2>1, <2>4 DEF Link
  <1>8. Follows(last, m, Link)
    <2>1. Linked(m, Link)
      BY <1>2, <1>6 DEF Linked
    <2>2. m # <<>> => k > 0
      BY <1>2, <1>1
    <2> QED BY <1>7, <2>1, <2>2 DEF Follows
  <1>9. \A x \in Elems(m) : ChunkOK(x)
    BY <1>2, <1>4 DEF Elems
  <1>10. CASE k = 0
    <2>1. m = <<>>
      BY <1>2, <1>10
    <2>2. LastOf(last, m) = last
      BY <2>1 DEF LastOf
    <2>3. SNAfter(s, k) = s
      BY <1>10, SNAfterSteps
    <2> QED BY <1>8, <1>9, <2>2, <2>3 DEF m, s, InMessage
  <1>11. CASE k > 0
    <2>1. m # <<>> /\ k \in 1..k
      BY <1>1, <1>2, <1>11
    <2>2. LastOf(last, m) = m[k]
      BY <1>2, <2>1 DEF LastOf
    <2>3. m[k] \in Chunks /\ m[k].id = id /\ m[k].sn = SNAfter(s, k) /\ (m[k].isFinal = "C" => k < n)
      BY <1>3, <2>1
    <2> QED BY <1>1, <1>8, <1>9, <1>11, <2>2, <2>3 DEF m, s, InMessage
  <1> QED BY <1>1, <1>10, <1>11

\* The whole of a message.
LEMMA WholeContinues ==
  ASSUME ChanTypes, NEW p \in Ends, NEW id \in Nat, NEW call \in Calls \cup {0},
         NEW h \in Handles \cup {0}, NEW n \in Nat \ {0}, n <= MaxChunkCount,
         NEW last \in Chunks, last.isFinal # "C", NoGap => last.sn = conn[p].lastSNsent,
         NEW opened \in BOOLEAN
  PROVE  Continues(last, MsgChunks(p, id, call, h, n, n), opened, SNAfter(conn[p].lastSNsent, n))
  <1>1. n \in 0..n /\ ~(n < n)
    OBVIOUS
  <1> DEFINE m == MsgChunks(p, id, call, h, n, n)
  <1>2. InMessage(last, m, id, SNAfter(conn[p].lastSNsent, n), n = n)
    BY <1>1, MessageFollows
  <1> HIDE DEF m
  <1>3. Continues(last, m, opened, SNAfter(conn[p].lastSNsent, n))
    BY <1>2 DEF Continues, InMessage
  <1> QED BY <1>3 DEF m

\* A part of a message and its abort; the abort may have other numbers when
\* numbers have gaps.
LEMMA AbortContinues ==
  ASSUME ChanTypes, NEW p \in Ends, NEW id \in Nat, NEW call \in Calls \cup {0},
         NEW h \in Handles \cup {0}, NEW n \in Nat \ {0}, NEW k \in 0..(n - 1),
         k = 0 \/ n <= MaxChunkCount,
         NEW last \in Chunks, last.isFinal # "C", NoGap => last.sn = conn[p].lastSNsent,
         NEW opened \in BOOLEAN, NEW aid \in Nat, NEW used \in Nat, NoGap => aid = id /\ used = k
  PROVE  Continues(last, Append(MsgChunks(p, id, call, h, n, k), AbortChunk(p, aid, used)), opened,
                   SNAfter(conn[p].lastSNsent, used + 1))
  <1> DEFINE m == MsgChunks(p, id, call, h, n, k)
             a == AbortChunk(p, aid, used)
             o == <<a>>
             z == LastOf(last, m)
  <1>1. k \in 0..n /\ k \in Nat /\ n \in Nat
    OBVIOUS
  <1>2. /\ Follows(last, m, Link) /\ \A x \in Elems(m) : ChunkOK(x)
        /\ z \in Chunks /\ (z.isFinal = "C" => z.id = id)
        /\ NoGap => z.sn = SNAfter(conn[p].lastSNsent, k)
    <2>1. InMessage(last, m, id, SNAfter(conn[p].lastSNsent, k), k = n)
      BY <1>1, MessageFollows
    <2> QED BY <2>1 DEF InMessage
  <1>3. m \in Seq(Numbered)
    BY <1>1, MsgChunksType
  <1>4. a \in Numbered
    BY <1>1, MsgChunksType
  <1>5. /\ a.type = "MSG" /\ a.isFinal = "A" /\ a.id = aid
        /\ a.sn = SNAfter(conn[p].lastSNsent, used + 1)
    BY DEF AbortChunk, Chunk
  <1>6. m \in Seq(Chunks) /\ a \in Chunks
    BY <1>3, <1>4, NumberedSeq DEF Chunks
  <1> HIDE DEF m, a
  <1>7. Fits(z, a)
    <2>1. NoGap => a.sn = NextSN(z.sn)
      BY <1>1, <1>2, <1>5, SNAfterSteps
    <2> QED BY <1>2, <1>5, <2>1 DEF Fits, Carries
  <1>8. Follows(z, o, Link) /\ LastOf(z, o) = a
    <2>1. <<z, a>> \in Link
      BY <1>2, <1>6, <1>7 DEF Link
    <2> QED BY <2>1, FollowsOne
  <1>9. o \in Seq(Chunks) /\ Append(m, a) = m \o o /\ Elems(o) = {a}
    BY <1>6, ElemsSmall
  <1> HIDE DEF o
  <1>10. Follows(last, m \o o, Link) /\ LastOf(last, m \o o) = a
    BY <1>2, <1>6, <1>8, <1>9, FollowsConcat
  <1>11. \A x \in Elems(m \o o) : ChunkOK(x)
    <2>1. ChunkOK(a)
      BY <1>5 DEF ChunkOK, Carries
    <2>2. Elems(m \o o) = Elems(m) \cup Elems(o)
      BY <1>6, <1>9, ElemsConcat
    <2> QED BY <1>2, <1>9, <2>1, <2>2
  <1>12. Continues(last, m \o o, opened, SNAfter(conn[p].lastSNsent, used + 1))
    BY <1>5, <1>10, <1>11 DEF Continues
  <1> QED BY <1>9, <1>12 DEF m, a

\* A single chunk of the channel's own.
LEMMA OneContinues ==
  ASSUME NEW last \in Chunks, last.isFinal # "C", NEW c \in Chunks, c.type # "MSG",
         c.isFinal = "F", NEW opened \in BOOLEAN, NEW sn,
         NoGap /\ c.type # "ERR" => c.sn = NextSN(last.sn),
         opened /\ NoGap => c.sn = sn
  PROVE  Continues(last, <<c>>, opened, sn)
  <1>1. Fits(last, c)
    BY DEF Fits, Carries
  <1>2. <<last, c>> \in Link
    BY <1>1 DEF Link
  <1>3. Follows(last, <<c>>, Link) /\ LastOf(last, <<c>>) = c
    BY <1>2, FollowsOne
  <1>4. ChunkOK(c) /\ Elems(<<c>>) = {c}
    BY ElemsSmall DEF ChunkOK, Carries
  <1> DEFINE o == <<c>>
  <1> HIDE DEF o
  <1>5. Follows(last, o, Link) /\ LastOf(last, o) = c /\ Elems(o) = {c}
    BY <1>3, <1>4 DEF o
  <1>6. Continues(last, o, opened, sn)
    BY <1>4, <1>5 DEF Continues
  <1> QED BY <1>6 DEF o

\* Nothing.
LEMMA NoneContinues ==
  ASSUME NEW last, last.isFinal # "C", NEW sn
  PROVE  Continues(last, <<>>, FALSE, sn)
  <1> DEFINE o == <<>>
  <1>1. Elems(o) = {} /\ Len(o) = 0
    BY ElemsSmall
  <1>2. LastOf(last, o) = last /\ Follows(last, o, Link)
    BY DEF LastOf, Follows, Linked
  <1> HIDE DEF o
  <1>3. Continues(last, o, FALSE, sn)
    BY <1>1, <1>2 DEF Continues
  <1> QED BY <1>3 DEF o

-----------------------------------------------------------------------------
(* Steps.                                                                  *)

\* Both directions.
Dirs == \A p \in Ends : DirInv(p)
\* The requests of a channel that is closed are forgotten.
TodoOpen == ~Open(Server) => todo = {}
StreamInv == Dirs /\ TodoOpen /\ torn = {}

\* The last chunk that was sent, when there is more to send.
LEMMA ReadyToSend ==
  ASSUME Types, NEW p \in Ends, DirInv(p), Open(Peer(p)), Open(p)
  PROVE  /\ LastSent(p) \in Chunks /\ LastSent(p).isFinal # "C"
         /\ NoGap => LastSent(p).sn = conn[p].lastSNsent
  <1> DEFINE v == Prev(Peer(p))
             w == wire[p]
  <1>1. v \in Numbered
    BY LastKeptType, EndsPeer DEF Types, ChanTypes, Prev
  <1>2. v \in Chunks /\ w \in Seq(Chunks)
    BY <1>1 DEF Chunks, Types, ChanTypes
  <1> HIDE DEF v, w
  <1>3. LastOf(v, w) \in Chunks
    <2>1. w # <<>> => w[Len(w)] \in Chunks
      BY <1>2
    <2> QED BY <1>2, <2>1 DEF LastOf
  <1> QED BY <1>3 DEF DirInv, LastSent, v, w

\* p sends.
LEMMA DirsSend ==
  ASSUME Types, Dirs, NEW p \in Ends, Open(p), NEW m \in Seq(Chunks), NEW r \in Connection,
         SendsAs(p, m, r), r.state # "SC_CLOSED",
         r.intermediateChunks = conn[p].intermediateChunks,
         r.lastSNreceived = conn[p].lastSNreceived,
         r.currentMsgRequestId = conn[p].currentMsgRequestId,
         Open(Peer(p)) => Continues(LastSent(p), m, TRUE, r.lastSNsent)
  PROVE  Dirs'
  <1>1. /\ ChanTypes' /\ conn'[p] = r /\ conn'[Peer(p)] = conn[Peer(p)]
        /\ wire'[p] = (IF Open(Peer(p)) THEN wire[p] \o m ELSE wire[p])
        /\ wire'[Peer(p)] = wire[Peer(p)]
    BY SendsEffect DEF Types
  <1>2. Open(p)' /\ SameReceiver(p) /\ SameReceiver(Peer(p))
    BY <1>1 DEF Open, SameReceiver, Kept
  <1>3. DirInv(p)'
    BY <1>1, <1>2, DirAppend DEF Types, Dirs
  <1>4. DirInv(Peer(p))'
    <2>1. Peer(p) \in Ends /\ Peer(Peer(p)) = p
      BY EndsPeer
    <2>2. Open(Peer(p))' => Open(Peer(p)) /\ conn'[Peer(p)].lastSNsent = conn[Peer(p)].lastSNsent
      BY <1>1 DEF Open
    <2> QED BY <1>1, <1>2, <2>1, <2>2, DirStill DEF Dirs
  <1> QED BY <1>3, <1>4, EndsPeer DEF Dirs

\* p closes.
LEMMA DirsClose ==
  ASSUME Types, Dirs, NEW p \in Ends, NEW m \in Seq(Chunks), ClosesWith(p, m),
         Open(Peer(p)) => Continues(LastSent(p), m, FALSE, StartSN)
  PROVE  Dirs' /\ ~Open(p)' /\ (Open(Peer(p))' <=> Open(Peer(p)))
  <1>1. /\ conn'[p] = ClosedEnd(conn[p]) /\ conn'[Peer(p)] = conn[Peer(p)]
        /\ wire'[p] = (IF Open(Peer(p)) THEN wire[p] \o m ELSE wire[p])
        /\ wire'[Peer(p)] = <<>>
    BY ClosesEffect DEF Types
  <1>2. ~Open(p)' /\ conn'[p].lastSNsent = StartSN
    <2>1. conn[p] \in Connection
      BY DEF Types, ChanTypes
    <2>2. ClosedEnd(conn[p]).state = "SC_CLOSED" /\ ClosedEnd(conn[p]).lastSNsent = StartSN
      BY <2>1 DEF ClosedEnd, Connection
    <2> QED BY <1>1, <2>2 DEF Open
  <1>3. SameReceiver(Peer(p)) /\ (Open(Peer(p))' <=> Open(Peer(p)))
    BY <1>1 DEF Open, SameReceiver, Kept
  <1>4. DirInv(p)'
    <2>1. Open(Peer(p)) => Continues(LastSent(p), m, Open(p)', conn'[p].lastSNsent)
      BY <1>2 DEF Continues
    <2> QED BY <1>1, <1>3, <2>1, DirAppend DEF Types, Dirs
  <1>5. DirInv(Peer(p))'
    BY <1>1, <1>2, EndsPeer DEF DirInv
  <1> QED BY <1>2, <1>3, <1>4, <1>5, EndsPeer DEF Dirs

\* What a connection becomes when the chunk c is taken, as far as the stream
\* is concerned.
TakenInto(p, c, r) ==
  /\ r.intermediateChunks = TreatMsgMultiChunks(p, c)
  /\ r.lastSNreceived = c.sn
  /\ r.currentMsgRequestId = (IF c.isFinal = "C" THEN c.id ELSE 0)
  /\ r.state # "SC_CLOSED"

\* p receives.
LEMMA DirsReceive ==
  ASSUME Types, Dirs, NEW p \in Ends, Open(p), NEW c \in Numbered, c = Head(wire[Peer(p)]),
         RoomForChunk(p, c), NEW r \in Connection, TakenInto(p, c, r),
         r.lastSNsent = conn[p].lastSNsent, ReceivesAs(p, r)
  PROVE  /\ Dirs' /\ Fits(Prev(p), c) /\ ChunkOK(c)
         /\ Open(p)' /\ (Open(Peer(p))' <=> Open(Peer(p)))
  <1> DEFINE q == Peer(p)
  <1>0. q \in Ends /\ Peer(q) = p /\ wire[q] # <<>>
    BY EndsPeer DEF ReceivesAs
  <1>1. Len(r.intermediateChunks) < MaxChunkCount
    BY AfterChunkType DEF Types, TakenInto
  <1>2. /\ ChanTypes' /\ conn'[p] = r /\ conn'[q] = conn[q]
        /\ wire'[q] = Tail(wire[q]) /\ wire'[p] = wire[p]
    BY <1>1, ReceivesEffect DEF Types
  <1>3. Open(p)' /\ (Open(q)' <=> Open(q)) /\ SameReceiver(q)
    BY <1>2 DEF Open, SameReceiver, Kept, TakenInto
  <1>4. DirInv(q)' /\ Fits(Prev(p), c) /\ ChunkOK(c)
    <2>1. /\ Kept(p)' = TreatMsgMultiChunks(p, c)
          /\ conn'[p].lastSNreceived = c.sn
          /\ conn'[p].currentMsgRequestId = (IF c.isFinal = "C" THEN c.id ELSE 0)
      BY <1>2 DEF Kept, TakenInto
    <2>2. ChanTypes /\ DirInv(q) /\ conn'[q].lastSNsent = conn[q].lastSNsent
      BY <1>0, <1>2 DEF Types, Dirs
    <2> QED BY <1>0, <1>2, <1>3, <2>1, <2>2, DirTake
  <1>5. DirInv(p)'
    BY <1>2, <1>3, DirStill DEF Dirs
  <1> QED BY <1>3, <1>4, <1>5, EndsPeer DEF Dirs

\* p receives and sends.
LEMMA DirsReply ==
  ASSUME Types, Dirs, NEW p \in Ends, Open(p), NEW c \in Numbered, c = Head(wire[Peer(p)]),
         RoomForChunk(p, c), NEW r \in Connection, TakenInto(p, c, r),
         NEW m \in Seq(Chunks), RepliesAs(p, m, r),
         Open(Peer(p)) => Continues(LastSent(p), m, TRUE, r.lastSNsent)
  PROVE  Dirs' /\ Open(p)' /\ (Open(Peer(p))' <=> Open(Peer(p)))
  <1> DEFINE q == Peer(p)
  <1>0. q \in Ends /\ Peer(q) = p /\ wire[q] # <<>>
    BY EndsPeer DEF RepliesAs
  <1>1. Len(r.intermediateChunks) < MaxChunkCount
    BY AfterChunkType DEF Types, TakenInto
  <1>2. /\ ChanTypes' /\ conn'[p] = r /\ conn'[q] = conn[q]
        /\ wire'[q] = Tail(wire[q])
        /\ wire'[p] = (IF Open(q) THEN wire[p] \o m ELSE wire[p])
    BY <1>1, RepliesEffect DEF Types
  <1>3. Open(p)' /\ (Open(q)' <=> Open(q)) /\ SameReceiver(q)
    BY <1>2 DEF Open, SameReceiver, Kept, TakenInto
  <1>4. DirInv(q)'
    <2>1. /\ Kept(p)' = TreatMsgMultiChunks(p, c)
          /\ conn'[p].lastSNreceived = c.sn
          /\ conn'[p].currentMsgRequestId = (IF c.isFinal = "C" THEN c.id ELSE 0)
      BY <1>2 DEF Kept, TakenInto
    <2>2. ChanTypes /\ DirInv(q) /\ conn'[q].lastSNsent = conn[q].lastSNsent
      BY <1>0, <1>2 DEF Types, Dirs
    <2> QED BY <1>0, <1>2, <1>3, <2>1, <2>2, DirTake
  <1>5. DirInv(p)'
    BY <1>2, <1>3, DirAppend DEF Types, Dirs
  <1> QED BY <1>3, <1>4, <1>5, EndsPeer DEF Dirs

\* A message that is complete is whole.
LEMMA WholeMessage ==
  ASSUME Types, NEW p \in Ends, NEW c \in Numbered, Parts(Kept(p)), Fits(Prev(p), c), ChunkOK(c),
         c.type = "MSG", c.isFinal = "F"
  PROVE  TornBy(p, Message(p, c)) = torn
  <1> DEFINE m == Message(p, c)
  <1>1. Carries(c)
    BY DEF Carries
  <1>2. Parts(m) /\ Len(m) = c.body.part /\ m[1].of = c.body.of
    BY <1>1, PartsTaken DEF Types
  <1>3. c.body.part = c.body.of
    <2>1. c.body.part \in 1..c.body.of /\ ~(c.body.part < c.body.of)
      BY <1>1 DEF ChunkOK
    <2>2. c.body.part \in Nat /\ c.body.of \in Nat
      BY DEF Numbered, Body
    <2> QED BY <2>1, <2>2
  <1> HIDE DEF m
  <1>4. m[1].of = Len(m)
    BY <1>2, <1>3
  <1>5. \A i \in 1..Len(m) : m[i] = Part(m[1].call, m[1].handle, i, Len(m))
    BY <1>2, <1>4 DEF Parts
  <1> QED BY <1>5 DEF TornBy, m

\* Steps that touch neither connections nor wires.
LEMMA QuietStream ==
  ASSUME StreamInv, UNCHANGED <<conn, wire, todo, torn>>
  PROVE  StreamInv'
  <1>1. ASSUME NEW p \in Ends PROVE DirInv(p)'
    <2>1. SameReceiver(Peer(p)) /\ wire'[p] = wire[p]
      BY DEF SameReceiver, Kept, Open
    <2>2. Open(p)' => Open(p) /\ conn'[p].lastSNsent = conn[p].lastSNsent
      BY DEF Open
    <2> QED BY <2>1, <2>2, DirStill DEF StreamInv, Dirs
  <1> QED BY <1>1 DEF StreamInv, Dirs, TodoOpen, Open

\* The client's end and the services leave the server's end open or closed.
LEMMA ClientStepTodo ==
  ASSUME StreamInv, Dirs', Open(Server)' <=> Open(Server), UNCHANGED <<todo, torn>>
  PROVE  StreamInv'
  BY DEF StreamInv, TodoOpen

\* A connection that has sent.
LEMMA SentEnd ==
  ASSUME Types, NEW p \in Ends, NEW n \in Nat
  PROVE  /\ Sent(conn[p], n) \in Connection /\ Sent(conn[p], n).state = conn[p].state
         /\ Sent(conn[p], n).intermediateChunks = conn[p].intermediateChunks
         /\ Sent(conn[p], n).lastSNreceived = conn[p].lastSNreceived
         /\ Sent(conn[p], n).currentMsgRequestId = conn[p].currentMsgRequestId
         /\ Sent(conn[p], n).lastSNsent = SNAfter(conn[p].lastSNsent, n)
         /\ Sent(conn[p], n).currentSecurityToken = conn[p].currentSecurityToken
         /\ Sent(conn[p], n).precedentSecurityToken = conn[p].precedentSecurityToken
         /\ Sent(conn[p], n).serverNewSecuTokenActive = conn[p].serverNewSecuTokenActive
  <1>1. conn[p] \in Connection
    BY DEF Types, ChanTypes
  <1>2. Sent(conn[p], n) \in Connection
    BY <1>1, ConnectionTypes
  <1> QED BY <1>1, <1>2 DEF Sent, Connection

\* p sends chunks of a message.
LEMMA MessageSent ==
  ASSUME Types, StreamInv, NEW p \in Ends, Open(p), NEW m \in Seq(Chunks), NEW n \in Nat,
         SendsAs(p, m, Sent(conn[p], n)),
         Open(Peer(p)) => Continues(LastSent(p), m, TRUE, SNAfter(conn[p].lastSNsent, n))
  PROVE  Dirs' /\ (Open(Peer(p))' <=> Open(Peer(p))) /\ Open(p)'
  <1>1. Dirs'
    BY SentEnd, DirsSend DEF StreamInv, Open
  <1>2. conn'[Peer(p)] = conn[Peer(p)] /\ conn'[p] = Sent(conn[p], n)
    BY SentEnd, SendsEffect DEF Types
  <1> QED BY <1>1, <1>2, SentEnd DEF Open

\* Requests of the client.
LEMMA RequestStream ==
  ASSUME Types, StreamInv, NEW r, Pops(r),
         \/ SendRequest(r)
         \/ r.chunks > 1 /\ UnrecordedRequest(r)
         \/ \E k \in 0..(r.chunks - 1) : AbortRequest(r, k)
  PROVE  StreamInv'
  <1>1. r \in Asked /\ r.call \in Calls \cup {0} /\ r.handle \in Handles \cup {0}
        /\ r.chunks \in Nat \ {0} /\ r.chunks - 1 \in Nat /\ clientNextReqId \in Nat
    <2>1. r \in Asked /\ clientNextReqId \in Nat
      BY PopsType DEF Types, ListTypes
    <2>2. r.call \in Calls /\ r.handle \in Handles /\ r.chunks \in Nat \ {0}
      BY <2>1 DEF Asked
    <2>3. r.chunks - 1 \in Nat
      BY <2>2
    <2> QED BY <2>1, <2>2, <2>3
  <1>2. Open(Client)
    BY DEF SendRequest, UnrecordedRequest, AbortRequest
  <1>3. Open(Server) => /\ LastSent(Client) \in Chunks /\ LastSent(Client).isFinal # "C"
                        /\ NoGap => LastSent(Client).sn = conn[Client].lastSNsent
    BY <1>2, ReadyToSend, EndsPeer DEF StreamInv, Dirs
  <1>4. CASE SendRequest(r)
    <2>1. Open(Server) => Continues(LastSent(Client), SentWhole(r), TRUE,
                                    SNAfter(conn[Client].lastSNsent, r.chunks))
      BY <1>1, <1>3, <1>4, WholeContinues, EndsPeer DEF SentWhole, SendRequest, Types
    <2>2. Dirs' /\ (Open(Server)' <=> Open(Server))
      BY <1>1, <1>2, <1>4, <2>1, SendEffect, MessageSent, EndsPeer
    <2> QED BY <1>4, <2>2, ClientStepTodo DEF Pops
  <1>5. CASE r.chunks > 1 /\ UnrecordedRequest(r)
    <2> DEFINE k == r.chunks - 1
               n == r.chunks
    <2>0. k \in 0..(n - 1) /\ n <= MaxChunkCount /\ ~NoGap /\ clientNextReqId + 1 \in Nat /\ n \in Nat
      BY <1>1, <1>5 DEF NoGap, UnrecordedRequest
    <2>1. Open(Server) => Continues(LastSent(Client), SentUnrecorded(r), TRUE,
                                    SNAfter(conn[Client].lastSNsent, n + 1))
      BY <1>1, <1>3, <2>0, AbortContinues, EndsPeer DEF SentUnrecorded, Types
    <2>2. Dirs' /\ (Open(Server)' <=> Open(Server))
      <3>1. n + 1 \in Nat
        BY <2>0
      <3>2. SendsAs(Client, SentUnrecorded(r), Sent(conn[Client], n + 1)) /\ SentUnrecorded(r) \in Seq(Chunks)
        BY <1>5, UnrecordedEffect
      <3> QED BY <1>2, <2>1, <3>1, <3>2, MessageSent, EndsPeer
    <2> QED BY <1>5, <2>2, ClientStepTodo DEF Pops
  <1>6. ASSUME NEW k \in 0..(r.chunks - 1), AbortRequest(r, k) PROVE StreamInv'
    <2>0. k \in Nat /\ k + 1 \in Nat /\ (k = 0 \/ r.chunks <= MaxChunkCount)
      BY <1>1, <1>6, SecureChannelAssumption DEF AbortRequest
    <2>1. Open(Server) => Continues(LastSent(Client), SentPart(r, k), TRUE,
                                    SNAfter(conn[Client].lastSNsent, k + 1))
      BY <1>1, <1>3, <2>0, AbortContinues, EndsPeer DEF SentPart, Types
    <2>2. Dirs' /\ (Open(Server)' <=> Open(Server))
      BY <1>1, <1>2, <1>6, <2>0, <2>1, AbortEffect, MessageSent, EndsPeer
    <2> QED BY <1>6, <2>2, ClientStepTodo DEF Pops
  <1> QED BY <1>4, <1>5, <1>6

\* The request of a renewal.
LEMMA AskStream ==
  ASSUME Types, StreamInv, AsksRenewal
  PROVE  StreamInv'
  <1>1. Open(Client)
    BY DEF AsksRenewal, Open
  <1>2. Open(Server) => /\ LastSent(Client) \in Chunks /\ LastSent(Client).isFinal # "C"
                        /\ NoGap => LastSent(Client).sn = conn[Client].lastSNsent
    BY <1>1, ReadyToSend, EndsPeer DEF StreamInv, Dirs
  <1>3. /\ AskedEnd.state # "SC_CLOSED"
        /\ AskedEnd.intermediateChunks = conn[Client].intermediateChunks
        /\ AskedEnd.lastSNreceived = conn[Client].lastSNreceived
        /\ AskedEnd.currentMsgRequestId = conn[Client].currentMsgRequestId
        /\ AskedEnd.lastSNsent = SNAfter(conn[Client].lastSNsent, 1)
    <2> DEFINE s == Sent(conn[Client], 1)
    <2>1. /\ s \in Connection /\ s.intermediateChunks = conn[Client].intermediateChunks
          /\ s.lastSNreceived = conn[Client].lastSNreceived
          /\ s.currentMsgRequestId = conn[Client].currentMsgRequestId
          /\ s.lastSNsent = SNAfter(conn[Client].lastSNsent, 1)
      BY SentEnd, EndsPeer
    <2>2. AskedEnd = [s EXCEPT !.state = "SC_CONNECTED_RENEW"]
      BY DEF AskedEnd
    <2> HIDE DEF s
    <2> QED BY <2>1, <2>2 DEF Connection
  <1>4. /\ AskChunk.type = "OPN" /\ AskChunk.isFinal = "F"
        /\ AskChunk.sn = SNAfter(conn[Client].lastSNsent, 1) /\ AskChunk \in Chunks
    BY AskEffect DEF AskChunk, Chunk, Chunks
  <1>5. SNAfter(conn[Client].lastSNsent, 1) = NextSN(conn[Client].lastSNsent)
    <2>1. 0 \in Nat /\ 0 + 1 = 1
      OBVIOUS
    <2> QED BY <2>1, SNAfterSteps
  <1>6. Open(Server) => Continues(LastSent(Client), <<AskChunk>>, TRUE, AskedEnd.lastSNsent)
    <2> HAVE Open(Server)
    <2>1. NoGap => AskChunk.sn = NextSN(LastSent(Client).sn)
      BY <1>2, <1>4, <1>5
    <2> QED BY <1>2, <1>3, <1>4, <2>1, OneContinues
  <1>7. Dirs'
    BY <1>1, <1>3, <1>6, AskEffect, DirsSend, EndsPeer DEF StreamInv
  <1>8. conn'[Server] = conn[Server]
    BY AskEffect, SendsEffect, EndsPeer DEF Types
  <1> QED BY <1>7, <1>8, ClientStepTodo DEF AsksRenewal, Open

\* The client closes.
LEMMA ClientClosesStream ==
  ASSUME Types, StreamInv, NEW ev, NEW used, NEW farewell \in BOOLEAN,
         ClientCloses(ev, used, farewell)
  PROVE  StreamInv'
  <1>1. Open(Client) /\ UNCHANGED <<todo, torn>>
    BY DEF ClientCloses
  <1>2. Open(Server) => /\ LastSent(Client) \in Chunks /\ LastSent(Client).isFinal # "C"
                        /\ NoGap => LastSent(Client).sn = conn[Client].lastSNsent
    BY <1>1, ReadyToSend, EndsPeer DEF StreamInv, Dirs
  <1>3. Open(Server) => Continues(LastSent(Client), ClientLast(used, farewell), FALSE, StartSN)
    <2> HAVE Open(Server)
    <2>1. CASE farewell
      <3>1. /\ CloChunk(used).type = "CLO" /\ CloChunk(used).isFinal = "F"
            /\ CloChunk(used).sn = SNAfter(conn[Client].lastSNsent, used + 1)
            /\ CloChunk(used) \in Chunks
        BY ClientClosesEffect DEF CloChunk, Chunk, Chunks
      <3>2. NoGap => CloChunk(used).sn = NextSN(LastSent(Client).sn)
        <4>1. NoGap => used = 0
          BY DEF ClientCloses, NoGap
        <4>2. SNAfter(conn[Client].lastSNsent, 0 + 1) = NextSN(conn[Client].lastSNsent)
          <5>1. 0 \in Nat
            OBVIOUS
          <5> QED BY <5>1, SNAfterSteps
        <4> QED BY <1>2, <3>1, <4>1, <4>2
      <3>3. Continues(LastSent(Client), <<CloChunk(used)>>, FALSE, StartSN)
        BY <1>2, <3>1, <3>2, OneContinues
      <3> QED BY <2>1, <3>3 DEF ClientLast
    <2>2. CASE ~farewell
      BY <1>2, <2>2, NoneContinues DEF ClientLast
    <2> QED BY <2>1, <2>2
  <1>4. Dirs' /\ (Open(Server)' <=> Open(Server))
    BY <1>3, ClientClosesEffect, DirsClose, EndsPeer DEF StreamInv
  <1> QED BY <1>1, <1>4, ClientStepTodo

\* The server closes.
LEMMA ServerClosesStream ==
  ASSUME Types, StreamInv, NEW farewell \in BOOLEAN, ServerCloses(farewell)
  PROVE  StreamInv'
  <1>1. Open(Server) /\ todo' = {} /\ torn' = torn
    BY ServerClosesEffect DEF ServerCloses
  <1>2. Open(Client) => LastSent(Server) \in Chunks /\ LastSent(Server).isFinal # "C"
    BY <1>1, ReadyToSend, EndsPeer DEF StreamInv, Dirs
  <1>3. Open(Client) => Continues(LastSent(Server), ServerLast(farewell), FALSE, StartSN)
    <2> HAVE Open(Client)
    <2>1. ErrChunk.type = "ERR" /\ ErrChunk.isFinal = "F" /\ ErrChunk \in Chunks
      BY PartType DEF ErrChunk, Chunk
    <2>2. Continues(LastSent(Server), <<ErrChunk>>, FALSE, StartSN)
      BY <1>2, <2>1, OneContinues
    <2>3. Continues(LastSent(Server), <<>>, FALSE, StartSN)
      BY <1>2, NoneContinues
    <2> QED BY <2>2, <2>3 DEF ServerLast
  <1>4. Dirs'
    BY <1>3, ServerClosesEffect, DirsClose, EndsPeer DEF StreamInv
  <1> QED BY <1>1, <1>4 DEF StreamInv, TodoOpen

\* The client takes a part of a response, a response or the answer to a
\* renewal.
LEMMA ClientTakesStream ==
  ASSUME Types, StreamInv, NEW c, ClientGets(c), ClientChunk(c) \/ ClientResponse(c) \/ TakesRenewal(c)
  PROVE  StreamInv'
  <1>1. Accepted(Client, c) /\ c.type # "ERR" /\ Open(Client) /\ c = Head(wire[Server]) /\ todo' = todo
    BY DEF ClientChunk, ClientResponse, TakesRenewal, ClientGets
  <1>2. c \in Numbered /\ RoomForChunk(Client, c)
    BY <1>1, ClientGetsType DEF Accepted
  <1>3. \E r \in Connection : /\ TakenInto(Client, c, r) /\ r.lastSNsent = conn[Client].lastSNsent
                              /\ ReceivesAs(Client, r)
    <2>0. conn[Client].state # "SC_CLOSED"
      BY <1>1 DEF Open
    <2>1. /\ AfterChunk(Client, c) \in Connection /\ TakenInto(Client, c, AfterChunk(Client, c))
          /\ AfterChunk(Client, c).lastSNsent = conn[Client].lastSNsent
      BY <1>2, <2>0, AfterChunkType, EndsPeer DEF Types, TakenInto
    <2>2. CASE ClientChunk(c) \/ ClientResponse(c)
      BY <2>1, <2>2, ClientChunkEffect
    <2>3. CASE TakesRenewal(c)
      <3>1. RenewedEnd(c) \in Connection /\ TakenInto(Client, c, RenewedEnd(c))
            /\ RenewedEnd(c).lastSNsent = conn[Client].lastSNsent
        BY <2>1, <2>3, TakesEffect DEF TakenInto
      <3> QED BY <2>1, <2>3, <3>1, TakesEffect
    <2> QED BY <2>2, <2>3
  <1>4. Dirs' /\ Fits(Prev(Client), c) /\ ChunkOK(c) /\ (Open(Server)' <=> Open(Server))
    BY <1>1, <1>2, <1>3, DirsReceive, EndsPeer DEF StreamInv
  <1>5. torn' = torn
    <2>1. Parts(Kept(Client))
      BY <1>1, EndsPeer DEF StreamInv, Dirs, DirInv
    <2>2. c.type = "MSG" /\ c.isFinal = "F" => TornBy(Client, Message(Client, c)) = torn
      BY <1>2, <1>4, <2>1, WholeMessage, EndsPeer
    <2> QED BY <2>2 DEF ClientChunk, ClientResponse, TakesRenewal
  <1> QED BY <1>1, <1>4, <1>5, ClientStepTodo

\* The server takes a part of a request, or a request.
LEMMA ServerTakesStream ==
  ASSUME Types, StreamInv, NEW c, ServerGets(c), ServerChunk(c) \/ ServerRequest(c)
  PROVE  StreamInv'
  <1>1. Accepted(Server, c) /\ c.type # "ERR" /\ Open(Server) /\ c = Head(wire[Client])
    BY DEF ServerChunk, ServerRequest, ServerGets
  <1>2. c \in Numbered /\ RoomForChunk(Server, c)
    BY <1>1, ServerGetsType DEF Accepted
  <1>3. /\ AfterChunk(Server, c) \in Connection /\ TakenInto(Server, c, AfterChunk(Server, c))
        /\ AfterChunk(Server, c).lastSNsent = conn[Server].lastSNsent
        /\ ReceivesAs(Server, AfterChunk(Server, c))
    BY <1>1, <1>2, AfterChunkType, ServerChunkEffect, EndsPeer DEF Types, TakenInto, Open
  <1>4. Dirs' /\ Fits(Prev(Server), c) /\ ChunkOK(c) /\ Open(Server)'
    BY <1>1, <1>2, <1>3, DirsReceive, EndsPeer DEF StreamInv
  <1>5. torn' = torn
    <2>1. Parts(Kept(Server))
      BY <1>1, EndsPeer DEF StreamInv, Dirs, DirInv
    <2>2. c.type = "MSG" /\ c.isFinal = "F" => TornBy(Server, Message(Server, c)) = torn
      BY <1>2, <1>4, <2>1, WholeMessage, EndsPeer
    <2> QED BY <2>2 DEF ServerChunk, ServerRequest
  <1> QED BY <1>4, <1>5 DEF StreamInv, TodoOpen

\* The server renews the token.
LEMMA ServerRenewsStream ==
  ASSUME Types, StreamInv, NEW c, ServerGets(c), ServerRenews(c)
  PROVE  StreamInv'
  <1>1. Open(Server) /\ c = Head(wire[Client]) /\ UNCHANGED <<todo, torn>>
    BY DEF ServerRenews, ServerGets
  <1>2. c \in Numbered /\ RoomForChunk(Server, c)
    BY RenewsEffect
  <1>3. PICK t : /\ RepliesAs(Server, <<GrantChunk(c, t)>>, GrantedEnd(c, t))
                 /\ GrantChunk(c, t) \in Numbered /\ <<GrantChunk(c, t)>> \in Seq(Chunks)
                 /\ GrantedEnd(c, t) \in Connection /\ TakenInto(Server, c, GrantedEnd(c, t))
                 /\ GrantedEnd(c, t).lastSNsent = SNAfter(conn[Server].lastSNsent, 1)
    BY <1>1, RenewsEffect DEF TakenInto, Open
  <1>4. Open(Client) => Continues(LastSent(Server), <<GrantChunk(c, t)>>, TRUE,
                                  SNAfter(conn[Server].lastSNsent, 1))
    <2> HAVE Open(Client)
    <2>1. /\ LastSent(Server) \in Chunks /\ LastSent(Server).isFinal # "C"
          /\ NoGap => LastSent(Server).sn = conn[Server].lastSNsent
      BY <1>1, ReadyToSend, EndsPeer DEF StreamInv, Dirs
    <2>2. /\ GrantChunk(c, t).type = "OPN" /\ GrantChunk(c, t).isFinal = "F"
          /\ GrantChunk(c, t).sn = SNAfter(conn[Server].lastSNsent, 1)
          /\ GrantChunk(c, t) \in Chunks
      BY <1>3 DEF GrantChunk, Chunk, Chunks
    <2>3. SNAfter(conn[Server].lastSNsent, 1) = NextSN(conn[Server].lastSNsent)
      <3>1. 0 \in Nat /\ 0 + 1 = 1
        OBVIOUS
      <3> QED BY <3>1, SNAfterSteps
    <2>4. NoGap => GrantChunk(c, t).sn = NextSN(LastSent(Server).sn)
      BY <2>1, <2>2, <2>3
    <2> QED BY <2>1, <2>2, <2>4, OneContinues
  <1>5. Dirs' /\ Open(Server)'
    BY <1>1, <1>2, <1>3, <1>4, DirsReply, EndsPeer DEF StreamInv
  <1> QED BY <1>1, <1>5 DEF StreamInv, TodoOpen

\* The server answers.
LEMMA RespondStream ==
  ASSUME Types, StreamInv, NEW q, NEW n \in Sizes, Respond(q, n)
  PROVE  StreamInv'
  <1>1. Open(Server) /\ todo' = todo \ {q} /\ torn' = torn
    BY DEF Respond, StreamInv, TodoOpen
  <1>2. Open(Client) => /\ LastSent(Server) \in Chunks /\ LastSent(Server).isFinal # "C"
                        /\ NoGap => LastSent(Server).sn = conn[Server].lastSNsent
    BY <1>1, ReadyToSend, EndsPeer DEF StreamInv, Dirs
  <1>3. q \in Todo /\ n \in Nat \ {0} /\ n \in Nat
    BY RespondEffect
  <1>4. q.id \in Nat /\ q.call \in Calls \cup {0} /\ q.handle \in Handles \cup {0}
    BY <1>3 DEF Todo
  <1>5. CASE /\ n <= MaxChunkCount /\ SendsAs(Server, WholeAnswer(q, n), Sent(conn[Server], n))
             /\ WholeAnswer(q, n) \in Seq(Chunks)
    <2>1. Open(Client) => Continues(LastSent(Server), WholeAnswer(q, n), TRUE,
                                    SNAfter(conn[Server].lastSNsent, n))
      BY <1>2, <1>3, <1>4, <1>5, WholeContinues, EndsPeer DEF WholeAnswer, Types
    <2>2. Dirs' /\ Open(Server)'
      BY <1>1, <1>3, <1>5, <2>1, MessageSent, EndsPeer
    <2> QED BY <1>1, <2>2 DEF StreamInv, TodoOpen
  <1>6. ASSUME NEW k \in 0..(n - 1), n > MaxChunkCount => k = 0,
               SendsAs(Server, GivenUp(q, n, k), Sent(conn[Server], k + 1)),
               GivenUp(q, n, k) \in Seq(Chunks)
        PROVE  StreamInv'
    <2>0. k \in Nat /\ k + 1 \in Nat /\ (k = 0 \/ n <= MaxChunkCount)
      BY <1>3, <1>6, SecureChannelAssumption
    <2>1. Open(Client) => Continues(LastSent(Server), GivenUp(q, n, k), TRUE,
                                    SNAfter(conn[Server].lastSNsent, k + 1))
      BY <1>2, <1>3, <1>4, <2>0, AbortContinues, EndsPeer DEF GivenUp, Types
    <2>2. Dirs' /\ Open(Server)'
      BY <1>1, <1>6, <2>0, <2>1, MessageSent, EndsPeer
    <2> QED BY <1>1, <2>2 DEF StreamInv, TodoOpen
  <1> QED BY <1>5, <1>6, RespondEffect

\* Nothing is on the way at first.
LEMMA InitStream ==
  ASSUME Init
  PROVE  StreamInv
  <1>0. Types
    BY InitTypes
  <1>1. \A p \in Ends : /\ wire[p] = <<>> /\ Open(p) /\ Kept(p) = <<>>
                        /\ conn[p].currentMsgRequestId = 0
                        /\ conn[p].lastSNsent = StartSN /\ conn[p].lastSNreceived = StartSN
    BY DEF Init, Open, Kept
  <1>2. ASSUME NEW p \in Ends PROVE DirInv(p)
    <2> DEFINE q == Peer(p)
               w == wire[p]
    <2>1. q \in Ends /\ w = <<>>
      BY <1>1, EndsPeer
    <2>2. Prev(q).isFinal = "F" /\ Prev(q).sn = StartSN
      BY <1>1, <2>1 DEF Prev, LastKept, Kept, Chunk
    <2>3. Elems(w) = {} /\ Len(w) = 0
      BY <2>1, ElemsSmall
    <2>4. LastSent(p) = Prev(q)
      BY <2>1 DEF LastSent, LastOf
    <2>5. Follows(Prev(q), w, Link)
      BY <2>1, <2>3 DEF Follows, Linked
    <2>6. Parts(Kept(q))
      BY <1>1, <2>1 DEF Parts
    <2> QED BY <1>1, <2>1, <2>2, <2>3, <2>4, <2>5, <2>6 DEF DirInv
  <1> QED BY <1>1, <1>2, EndsPeer DEF StreamInv, Dirs, TodoOpen, Init

\* Every step keeps the stream in order.
LEMMA StreamStep ==
  ASSUME Types, StreamInv, [Next]_vars
  PROVE  StreamInv'
  <1>1. CASE UNCHANGED vars
    BY <1>1, QuietStream DEF vars, chanVars, svcVars
  <1>2. CASE \/ \E c \in Calls, n \in Sizes : Request(c, n)
             \/ TreatServicesEvent
             \/ \E r : Pops(r) /\ RefuseRequest(r)
             \/ \E t \in running : TimerExpires(t)
             \/ LateRenewal
             \/ \E t \in posted : TreatRequestTimeout(t)
    <2>1. UNCHANGED <<conn, wire, todo, torn>>
      BY <1>2 DEF Request, TreatServicesEvent, Pops, RefuseRequest, TimerExpires, LateRenewal,
                  TreatRequestTimeout, chanVars, svcVars
    <2> QED BY <2>1, QuietStream
  <1>3. CASE Step
    BY <1>2, <1>3, RequestStream, AskStream, ClientClosesStream, ServerClosesStream,
       ClientTakesStream, ServerTakesStream, ServerRenewsStream, RespondStream DEF Step
  <1> QED BY <1>1, <1>3, NextSteps

\* The state of the stream, in both directions.
THEOREM StreamInvariant == Spec => [](Types /\ StreamInv)
  <1>1. Init => Types /\ StreamInv
    BY InitTypes, InitStream
  <1>2. (Types /\ StreamInv) /\ [Next]_vars => (Types /\ StreamInv)'
    BY TypesStep, StreamStep
  <1> QED BY <1>1, <1>2, PTL DEF Spec

\* A message that an end gives to its services is one that the other end sent,
\* whole: chunks of an aborted message, or of two messages, are never put
\* together (SC_Chunks_TreatMsgMultiChunks).
THEOREM MessagesArriveWhole == Spec => []MessagesWhole
  <1>1. StreamInv => MessagesWhole
    BY DEF StreamInv, MessagesWhole
  <1> QED BY <1>1, StreamInvariant, PTL
=============================================================================
