---------------------------- MODULE SecureChannel ----------------------------
(***************************************************************************)
(* An established secure channel, both ends: the chunks manager, the       *)
(* renewal of the security token, the requests a client waits for and the  *)
(* timers of both, and the client's services with their request handles.   *)
(* The stream below gives the chunks in order until one end closes it; how *)
(* a connection is made and its socket lost is the matter of ScSockets.    *)
(*                                                                         *)
(* The two ends run this code, so whatever a receiver refuses was sent by  *)
(* the other end in good faith.  Numbers that are reused (token            *)
(* identifiers, sequence numbers, request handles) have small ranges here, *)
(* so that they are used again; the key set of a token and the call a      *)
(* message is about are its identity, which no check but the signature     *)
(* reads.                                                                  *)
(***************************************************************************)
EXTENDS Naturals, Sequences, SequencesExt, FiniteSets, Lists

CONSTANTS
  Calls,          \* requests of the client's services, numbered from 1
  MaxHandles,     \* SOPC_MAX_PENDING_REQUESTS
  MaxChunkCount,  \* sendMaxChunkCount of one end, receiveMaxChunkCount of the other
  Sizes,          \* sizes of messages, in chunks
  TokenIds,       \* values of a token identifier
  SNMax,          \* UINT32_MAX, for the sequence numbers
  SNMargin,       \* 1024: how far from SNMax the sequence number restarts
  StartSN,        \* sequence number both ends have reached
  MaxRenewals,    \* bound: renewals of the token
  Ending,         \* ends that may close the channel, or lose the connection
  OutOfMemory     \* which allocations may fail: "buffer", "context"

ASSUME SecureChannelAssumption ==
  /\ IsFiniteSet(Calls) /\ Calls = 1..Cardinality(Calls)
  /\ MaxHandles \in Nat \ {0} /\ MaxChunkCount \in Nat \ {0}
  /\ Sizes \subseteq Nat \ {0}
  /\ 0 \notin TokenIds /\ \E s, t \in TokenIds : s # t
  /\ SNMax \in Nat /\ SNMargin \in 2..SNMax /\ StartSN \in 1..(SNMax - SNMargin + 1)
  /\ Ending \subseteq {"client", "server"}
  /\ OutOfMemory \subseteq {"buffer", "context"}

VARIABLES
  conn,       \* the SOPC_SecureConnection of each end
  clientNextReqId,
  sentRequestIds,   \* requests the client waits for, in the order of the list
  running,    \* timers of the client that run
  posted,     \* timers that have expired and whose event is in the queue
  wire,       \* chunks each end has sent, not yet received
  renewals,   \* renewals asked so far
  toSc,       \* requests of the client's services in the queue
  toSvc,      \* events for the client's services in the queue
  context,    \* client_requests_context: the call of each handle, 0 if free
  cpt,        \* last handle that was given
  channel,    \* the client's services hold the channel for connected
  todo,       \* requests the server's services have not answered
  status,     \* what the client's application was told of each call
  executed,   \* how many times each call reached the server's services
  torn,       \* history: ends whose services got a message that was not sent so
  refused     \* history: why a chunk was refused, if one was

chanVars == <<conn, clientNextReqId, sentRequestIds, running, posted, wire,
              renewals, torn, refused>>
svcVars == <<toSc, toSvc, context, cpt, channel, todo, status, executed>>
vars == <<chanVars, svcVars>>

Client == "client"
Server == "server"
Ends == {Client, Server}
Peer(p) == IF p = Client THEN Server ELSE Client

Handles == 1..MaxHandles
OPN == 0                 \* in place of a handle: the request is the channel's own
Renew == 0               \* in place of a request identifier: the renewal timer

\* A token is its identifier and the keys that were derived with it.
NoToken == [id |-> 0, keys |-> 0]

\* A channel whose token was renewed once; the client may or may not have used
\* the new token since.
Init ==
  /\ LET first == CHOOSE t \in TokenIds : TRUE
         second == CHOOSE t \in TokenIds : t # first
     IN \E used \in BOOLEAN : conn = [p \in Ends |->
         [state |-> "SC_CONNECTED",
          currentSecurityToken |-> [id |-> second, keys |-> 2],
          precedentSecurityToken |-> [id |-> first, keys |-> 1],
          serverNewSecuTokenActive |-> p = Client \/ used,
          lastSNsent |-> StartSN, lastSNreceived |-> StartSN,
          intermediateChunks |-> <<>>, currentMsgRequestId |-> 0]]
  /\ clientNextReqId = 3       \* 1 and 2 were requests of the channel
  /\ sentRequestIds = <<>> /\ running = {Renew} /\ posted = {}
  /\ wire = [p \in Ends |-> <<>>] /\ renewals = 0
  /\ toSc = <<>> /\ toSvc = <<>>
  /\ context = [h \in Handles |-> 0] /\ cpt = 0 /\ channel = TRUE
  /\ todo = {}
  /\ status = [c \in Calls |-> "idle"] /\ executed = [c \in Calls |-> 0]
  /\ torn = {} /\ refused = {}

Open(p) == conn[p].state # "SC_CLOSED"

-----------------------------------------------------------------------------
(* Sending.                                                                *)

\* Mutant: the number runs up to the maximum, as if the receiver took it.
NextSNLate(sn) == IF sn = SNMax THEN 0 ELSE sn + 1

\* SC_Chunks_EncodeSequenceNumber
NextSN(sn) == IF sn > SNMax - SNMargin THEN 1 ELSE sn + 1

SNAfter(sn, n) ==
  LET f[i \in 0..n] == IF i = 0 THEN sn ELSE NextSN(f[i - 1]) IN f[n]

\* Mutant: the server uses the new token as soon as it has made it.
SendTokenAtOnce(p) == conn[p].currentSecurityToken

\* The token of a symmetric message: the server goes on with the precedent
\* one until the client has used the new one.
SendToken(p) ==
  IF conn[p].serverNewSecuTokenActive THEN conn[p].currentSecurityToken
  ELSE conn[p].precedentSecurityToken

\* What the services put in a message: the call it is about, its handle; the
\* body of a chunk is a part of it.
Part(call, h, i, n) == [call |-> call, handle |-> h, part |-> i, of |-> n]
NoBody == Part(0, 0, 0, 0)

Chunk(type, isFinal, tok, sn, id, body) ==
  [type |-> type, isFinal |-> isFinal, tok |-> tok, sn |-> sn, id |-> id, body |-> body]

\* The chunks of a message cut in n, sent up to the k-th (k = n: all of it),
\* and the abort chunk that follows when the message cannot be completed.
MsgChunks(p, id, call, h, n, k) ==
  [i \in 1..k |-> Chunk("MSG", IF i < n THEN "C" ELSE "F", SendToken(p),
                        SNAfter(conn[p].lastSNsent, i), id, Part(call, h, i, n))]

AbortChunk(p, id, used) ==
  Chunk("MSG", "A", SendToken(p), SNAfter(conn[p].lastSNsent, used + 1), id, NoBody)

SendOn(w, p, chunks) ==
  [w EXCEPT ![p] = IF Open(Peer(p)) THEN @ \o chunks ELSE @]

Sent(r, n) == [r EXCEPT !.lastSNsent = SNAfter(@, n)]

-----------------------------------------------------------------------------
(* Closing.                                                                *)

ClosedEnd(r) ==
  [r EXCEPT !.state = "SC_CLOSED", !.currentSecurityToken = NoToken,
            !.precedentSecurityToken = NoToken, !.serverNewSecuTokenActive = TRUE,
            !.lastSNsent = StartSN, !.lastSNreceived = StartSN,
            !.intermediateChunks = <<>>, !.currentMsgRequestId = 0]

Event(type, h, call) == [type |-> type, handle |-> h, call |-> call]

\* SC_Client_ClearPendingRequest: each request that is not the channel's own
\* is reported, whether or not its timeout was.
PendingFailures ==
  LET ctxs == Only(sentRequestIds, {m \in Range(sentRequestIds) : m.handle # OPN})
  IN  [i \in 1..Len(ctxs) |-> Event("SC_SND_FAILURE", ctxs[i].handle, ctxs[i].call)]

\* The client closes, after it has posted the events ev; CloseSecureChannel is
\* sent first unless the connection is lost.  used: sequence numbers taken
\* since the last chunk that was sent.
CloseClient(ev, used, farewell) ==
  LET clo == Chunk("CLO", "F", SendToken(Client),
                   SNAfter(conn[Client].lastSNsent, used + 1), clientNextReqId, NoBody)
  IN  /\ conn' = [conn EXCEPT ![Client] = ClosedEnd(@)]
      /\ wire' = [SendOn(wire, Client, IF farewell THEN <<clo>> ELSE <<>>)
                    EXCEPT ![Server] = <<>>]
      /\ sentRequestIds' = <<>> /\ running' = {} /\ clientNextReqId' = 0
      /\ toSvc' = toSvc \o ev \o PendingFailures \o <<Event("SC_DISCONNECTED", 0, 0)>>

\* The server closes; an ERR message is sent first unless the socket is lost.
CloseServer(farewell) ==
  /\ conn' = [conn EXCEPT ![Server] = ClosedEnd(@)]
  /\ wire' = [SendOn(wire, Server, IF farewell
                                   THEN <<Chunk("ERR", "F", NoToken, 0, 0, NoBody)>>
                                   ELSE <<>>)
                EXCEPT ![Client] = <<>>]
  /\ todo' = {}

-----------------------------------------------------------------------------
(* The client's services.                                                  *)

\* request_handle_bs__client_fresh_req_handle: the handles after the last one
\* that was given, going round; that one itself is not looked at.
FreshHandles ==
  LET at(d) == (cpt + d) % (MaxHandles + 1)
      free(d) == at(d) # 0 /\ context[at(d)] = 0
  IN  {at(d) : d \in {d \in 1..MaxHandles : free(d) /\ \A b \in 1..(d - 1) : ~free(b)}}

\* service_mgr__local_client_discovery_service_request: the services ask for
\* a call whose message needs n chunks.  When the message cannot be encoded
\* (message_out_bs__encode_msg: it is larger than a message may be, or wrong)
\* the caller is told; the handle is forgotten before it is to be freed, so
\* that it stays in use.
Request(c, n) ==
  /\ channel
  /\ status[c] = "idle" /\ \A b \in 1..(c - 1) : status[b] # "idle"
  /\ \/ \E h \in FreshHandles :
          /\ context' = [context EXCEPT ![h] = c] /\ cpt' = h
          /\ \/ /\ toSc' = Append(toSc, [handle |-> h, call |-> c, chunks |-> n])
                /\ status' = [status EXCEPT ![c] = "pending"]
             \/ /\ status' = [status EXCEPT ![c] = "failed"]
                /\ UNCHANGED toSc
     \/ /\ FreshHandles = {}
        /\ status' = [status EXCEPT ![c] = "failed"]
        /\ UNCHANGED <<context, cpt, toSc>>
  /\ UNCHANGED <<chanVars, toSvc, channel, todo, executed>>

\* The handle h ends with result; nothing happens if it is free.
Ended(h, result) ==
  /\ status' = IF context[h] = 0 THEN status ELSE [status EXCEPT ![context[h]] = result]
  /\ context' = [context EXCEPT ![h] = 0]
  /\ UNCHANGED channel

\* service_mgr__client_receive_discovery_service_resp.  A response is matched
\* by the handle it carries; "crossed": it was the answer to another call.
ServicesReceive(e) ==
  /\ e.type = "SC_SERVICE_RCV_MSG"
  /\ Ended(e.handle, IF context[e.handle] = e.call THEN "answered" ELSE "crossed")

\* io_dispatch_mgr__snd_msg_failure, io_dispatch_mgr__client_request_timeout
ServicesFailure(e) ==
  /\ e.type \in {"SC_SND_FAILURE", "SC_REQUEST_TIMEOUT"}
  /\ IF channel THEN Ended(e.handle, IF e.type = "SC_SND_FAILURE" THEN "failed" ELSE "timedout")
     ELSE UNCHANGED <<status, context, channel>>

\* io_dispatch_mgr__secure_channel_lost
ServicesLost(e) ==
  /\ e.type = "SC_DISCONNECTED"
  /\ status' = [c \in Calls |-> IF \E h \in Handles : context[h] = c THEN "failed" ELSE status[c]]
  /\ context' = [h \in Handles |-> 0]
  /\ channel' = FALSE

TreatServicesEvent ==
  /\ toSvc # <<>> /\ toSvc' = Tail(toSvc)
  /\ LET e == Head(toSvc) IN ServicesReceive(e) \/ ServicesFailure(e) \/ ServicesLost(e)
  /\ UNCHANGED <<chanVars, toSc, cpt, todo, executed>>

-----------------------------------------------------------------------------
(* The client's channel: requests of the services, timers.                 *)

\* SC_SERVICE_SND_MSG without a channel.
RefuseRequest(r) ==
  /\ ~Open(Client)
  /\ toSvc' = Append(toSvc, Event("SC_SND_FAILURE", r.handle, r.call))
  /\ UNCHANGED <<conn, wire, clientNextReqId, sentRequestIds, running>>

\* SOPC_SLinkedList_FindFromId and SOPC_SLinkedList_RemoveFromId
CtxIndex(id) == CHOOSE i \in 1..Len(sentRequestIds) : sentRequestIds[i].id = id
CtxOf(id) == sentRequestIds[CtxIndex(id)]
OtherCtxs(id) == RemoveAt(sentRequestIds, CtxIndex(id))

\* The client waits for the answer to request id.
RequestCtx(id, h, c) == [id |-> id, handle |-> h, call |-> c, timeoutExpired |-> FALSE]

\* Mutant: no timer is started for the request.
TimersWithNot(id) == running

\* SC_Client_StartRequestTimeout
TimersWith(id) == running \cup {id}

\* The request goes whole: it is recorded, and its timer started, with the
\* final chunk.
SendRequest(r) ==
  /\ Open(Client) /\ r.chunks <= MaxChunkCount
  /\ wire' = SendOn(wire, Client, MsgChunks(Client, clientNextReqId, r.call, r.handle,
                                            r.chunks, r.chunks))
  /\ conn' = [conn EXCEPT ![Client] = Sent(@, r.chunks)]
  /\ sentRequestIds' = Append(sentRequestIds, RequestCtx(clientNextReqId, r.handle, r.call))
  /\ running' = TimersWith(clientNextReqId)
  /\ clientNextReqId' = clientNextReqId + 1
  /\ UNCHANGED toSvc

\* The request is too large, or the buffer of its k+1-th chunk cannot be had:
\* an abort chunk ends it and the services are told.
AbortRequest(r, k) ==
  /\ Open(Client)
  /\ \/ r.chunks > MaxChunkCount /\ k = 0
     \/ "buffer" \in OutOfMemory /\ r.chunks \in 2..MaxChunkCount
  /\ wire' = SendOn(wire, Client, Append(MsgChunks(Client, clientNextReqId, r.call, r.handle,
                                                   r.chunks, k),
                                         AbortChunk(Client, clientNextReqId, k)))
  /\ conn' = [conn EXCEPT ![Client] = Sent(@, k + 1)]
  /\ clientNextReqId' = clientNextReqId + 1
  /\ toSvc' = Append(toSvc, Event("SC_SND_FAILURE", r.handle, r.call))
  /\ UNCHANGED <<sentRequestIds, running>>

\* The final chunk is encoded and its request cannot be recorded: the chunk
\* is not sent though it took its numbers.  The abort chunk comes after it,
\* and needs the buffer of the message, which a message of one chunk has given
\* away: then the channel is closed.
UnrecordedRequest(r) ==
  /\ Open(Client) /\ r.chunks <= MaxChunkCount
  /\ "context" \in OutOfMemory
  /\ \/ /\ r.chunks = 1
        /\ CloseClient(<<Event("SC_SND_FAILURE", r.handle, r.call)>>, 1, TRUE)
     \/ /\ r.chunks > 1
        /\ wire' = SendOn(wire, Client,
                          Append(MsgChunks(Client, clientNextReqId, r.call, r.handle,
                                           r.chunks, r.chunks - 1),
                                 AbortChunk(Client, clientNextReqId + 1, r.chunks)))
        /\ conn' = [conn EXCEPT ![Client] = Sent(@, r.chunks + 1)]
        /\ clientNextReqId' = clientNextReqId + 2
        /\ toSvc' = Append(toSvc, Event("SC_SND_FAILURE", r.handle, r.call))
        /\ UNCHANGED <<sentRequestIds, running>>

TreatRequest ==
  /\ toSc # <<>> /\ toSc' = Tail(toSc)
  /\ LET r == Head(toSc)
     IN  \/ RefuseRequest(r) \/ SendRequest(r) \/ UnrecordedRequest(r)
         \/ \E k \in 0..(r.chunks - 1) : AbortRequest(r, k)
  /\ UNCHANGED <<posted, renewals, torn, refused,
                 context, cpt, channel, todo, status, executed>>

\* A timer expires: its event is posted.
TimerExpires(t) ==
  /\ t \in running
  /\ running' = running \ {t} /\ posted' = posted \cup {t}
  /\ UNCHANGED <<conn, clientNextReqId, sentRequestIds, wire, renewals,
                 torn, refused, svcVars>>

\* The renewal is asked, and waited for.
AskRenewal ==
  /\ renewals < MaxRenewals /\ renewals' = renewals + 1
  /\ wire' = SendOn(wire, Client, <<Chunk("OPN", "F", NoToken,
                                          SNAfter(conn[Client].lastSNsent, 1),
                                          clientNextReqId, NoBody)>>)
  /\ conn' = [conn EXCEPT ![Client] = [Sent(@, 1) EXCEPT !.state = "SC_CONNECTED_RENEW"]]
  /\ sentRequestIds' = Append(sentRequestIds, RequestCtx(clientNextReqId, OPN, 0))
  /\ running' = TimersWith(clientNextReqId)
  /\ clientNextReqId' = clientNextReqId + 1
  /\ UNCHANGED toSvc

\* TIMER_SC_CLIENT_OPN_RENEW; the channel is closed when the renewal cannot be
\* asked.
TreatRenewTimer ==
  /\ Renew \in posted /\ posted' = posted \ {Renew}
  /\ \/ conn[Client].state = "SC_CONNECTED" /\ AskRenewal
     \/ /\ conn[Client].state = "SC_CONNECTED" /\ "buffer" \in OutOfMemory
        /\ CloseClient(<<>>, 0, TRUE) /\ UNCHANGED renewals
     \/ /\ conn[Client].state # "SC_CONNECTED"
        /\ UNCHANGED <<renewals, wire, conn, sentRequestIds, running, clientNextReqId, toSvc>>
  /\ UNCHANGED <<torn, refused, toSc, context, cpt, channel, todo, status, executed>>

\* Mutant: the answer, if it comes, is not known for too late.
MarkExpiredNot(t) == sentRequestIds

\* The request stays in the list so that its answer is recognised, and ignored.
MarkExpired(t) ==
  [i \in 1..Len(sentRequestIds) |->
     [sentRequestIds[i] EXCEPT !.timeoutExpired = @ \/ sentRequestIds[i].id = t]]

\* The services wait for request t, which is not the channel's own.
IsServicesRequest(t) ==
  \E i \in 1..Len(sentRequestIds) : sentRequestIds[i].id = t /\ sentRequestIds[i].handle # OPN

TimeoutEvent(t) == Event("SC_REQUEST_TIMEOUT", CtxOf(t).handle, CtxOf(t).call)

\* Mutant: the request is looked up among those that have not timed out, once
\* it is marked.
TimeoutEventsAfterMark(t) ==
  IF /\ IsServicesRequest(t)
     /\ \E i \in 1..Len(sentRequestIds) :
          MarkExpired(t)[i].id = t /\ ~MarkExpired(t)[i].timeoutExpired
  THEN <<TimeoutEvent(t)>> ELSE <<>>

\* The services are told, unless the request is the channel's own.
TimeoutEvents(t) == IF IsServicesRequest(t) THEN <<TimeoutEvent(t)>> ELSE <<>>

\* TIMER_SC_REQUEST_TIMEOUT
TreatRequestTimeout(t) ==
  /\ t \in posted \ {Renew} /\ posted' = posted \ {t}
  /\ toSvc' = toSvc \o TimeoutEvents(t)
  /\ sentRequestIds' = MarkExpired(t)
  /\ UNCHANGED <<conn, clientNextReqId, running, wire, renewals, torn, refused,
                 toSc, context, cpt, channel, todo, status, executed>>

-----------------------------------------------------------------------------
(* Receiving.                                                              *)

\* SC_Chunks_CheckSymmetricSecurityHeader: the token that the identifier of
\* the chunk names, the current one first.
NamedToken(p, c) ==
  LET r == conn[p]
  IN  IF r.currentSecurityToken.id = c.tok.id THEN r.currentSecurityToken
      ELSE IF r.precedentSecurityToken.id = c.tok.id THEN r.precedentSecurityToken
      ELSE NoToken

\* The signature is checked with the keys of that token.
Signed(p, c) == c.type = "OPN" \/ (NamedToken(p, c) # NoToken /\ NamedToken(p, c).keys = c.tok.keys)

\* SC_Chunks_CheckSeqNumReceived
InSequence(p, c) ==
  LET last == conn[p].lastSNreceived
  IN  \/ c.type = "OPN"
      \/ last + 1 = c.sn
      \/ last > SNMax - SNMargin /\ c.sn < SNMargin

\* SC_Chunks_CheckSequenceHeaderRequestId
ExpectedId(p, c) ==
  /\ conn[p].currentMsgRequestId \in {0, c.id}
  /\ p = Client => \E i \in 1..Len(sentRequestIds) :
                     /\ sentRequestIds[i].id = c.id
                     /\ (sentRequestIds[i].handle = OPN) <=> (c.type = "OPN")

\* SC_Chunks_CheckMultiChunkContext
RoomForChunk(p, c) ==
  c.isFinal = "C" => Len(conn[p].intermediateChunks) + 1 < MaxChunkCount

\* onClientSideOpen, SC_ClientTransitionHelper_ReceiveOPN
ExpectedOPN(p, c) ==
  (p = Client /\ c.type = "OPN") =>
    /\ conn[Client].state = "SC_CONNECTED_RENEW"
    /\ c.tok.id # conn[Client].currentSecurityToken.id

Accepted(p, c) ==
  RoomForChunk(p, c) /\ Signed(p, c) /\ InSequence(p, c) /\ ExpectedId(p, c)

\* SC_Chunks_IsSecuTokenValid: the lifetime of the token may be over when the
\* chunk comes.  The channel ends then, so that no other chunk tells when.
MayHaveExpired(c) == c.type # "OPN"

\* Mutant: the chunks already received stay when the message is aborted.
TreatMsgMultiChunksNoClear(p, c) ==
  CASE c.isFinal = "C" -> Append(conn[p].intermediateChunks, c.body)
    [] c.isFinal = "A" -> conn[p].intermediateChunks
    [] OTHER           -> <<>>

\* SC_Chunks_TreatMsgMultiChunks: the chunks kept for the next one.
TreatMsgMultiChunks(p, c) ==
  IF c.isFinal = "C" THEN Append(conn[p].intermediateChunks, c.body) ELSE <<>>

\* What an accepted chunk leaves in the connection.
AfterChunk(p, c) ==
  [conn[p] EXCEPT
     !.lastSNreceived = c.sn,
     !.serverNewSecuTokenActive =
        @ \/ (c.type # "OPN" /\ c.tok.id = conn[p].currentSecurityToken.id),
     !.intermediateChunks = TreatMsgMultiChunks(p, c),
     !.currentMsgRequestId = IF c.isFinal = "C" THEN c.id ELSE 0]

\* The message that a final chunk completes.
Message(p, c) == Append(conn[p].intermediateChunks, c.body)

TornBy(p, m) ==
  IF \A i \in 1..Len(m) : m[i] = Part(m[1].call, m[1].handle, i, Len(m)) THEN torn
  ELSE torn \cup {p}

\* INT_SC_RCV_FAILURE
Refuse(p, c) ==
  /\ ~Accepted(p, c) \/ MayHaveExpired(c)
  /\ refused' = refused \cup {IF Accepted(p, c) THEN "expired token" ELSE "protocol"}

Consumed(p) == [wire EXCEPT ![p] = Tail(@)]

ClientRefuses(c) ==
  /\ c.type # "ERR"
  /\ Refuse(Client, c) /\ CloseClient(<<>>, 0, TRUE)
  /\ UNCHANGED torn

\* INT_SC_RCV_ERR
ClientError(c) ==
  /\ c.type = "ERR"
  /\ CloseClient(<<>>, 0, FALSE)
  /\ UNCHANGED <<torn, refused>>

\* A part of a response: its request is put back at the head of the list.
ClientChunk(c) ==
  /\ c.type = "MSG" /\ c.isFinal = "C" /\ Accepted(Client, c)
  /\ wire' = Consumed(Server)
  /\ conn' = [conn EXCEPT ![Client] = AfterChunk(Client, c)]
  /\ sentRequestIds' = <<CtxOf(c.id)>> \o OtherCtxs(c.id)
  /\ UNCHANGED <<running, clientNextReqId, toSvc, torn, refused>>

\* A response is complete, or given up by the server.
ClientResponse(c) ==
  /\ c.type = "MSG" /\ c.isFinal # "C" /\ Accepted(Client, c)
  /\ wire' = Consumed(Server)
  /\ conn' = [conn EXCEPT ![Client] = AfterChunk(Client, c)]
  /\ sentRequestIds' = OtherCtxs(c.id) /\ running' = running \ {c.id}
  /\ LET late == CtxOf(c.id).timeoutExpired
         msg == Message(Client, c)
     IN  /\ toSvc' = CASE late -> toSvc
                       [] c.isFinal = "F" /\ ~late ->
                            Append(toSvc, Event("SC_SERVICE_RCV_MSG", msg[1].handle, msg[1].call))
                       [] c.isFinal = "A" /\ ~late ->
                            Append(toSvc, Event("SC_SND_FAILURE", CtxOf(c.id).handle, CtxOf(c.id).call))
         /\ torn' = IF c.isFinal = "F" /\ ~late THEN TornBy(Client, msg) ELSE torn
  /\ UNCHANGED <<clientNextReqId, refused>>

\* Mutant: the renewal timer is started once, with the channel.
TimersAfterRenewalNot(c) == running \ {c.id}

\* SC_Client_StartOPNrenewTimer
TimersAfterRenewal(c) == (running \ {c.id}) \cup {Renew}

\* The answer to a renewal: dropped when its request has timed out, though the
\* server has changed its token.
ClientRenewed(c) ==
  /\ c.type = "OPN" /\ Accepted(Client, c)
  /\ \/ /\ CtxOf(c.id).timeoutExpired \/ ExpectedOPN(Client, c)
        /\ wire' = Consumed(Server)
        /\ sentRequestIds' = OtherCtxs(c.id)
        /\ IF CtxOf(c.id).timeoutExpired
           THEN /\ conn' = [conn EXCEPT ![Client] = AfterChunk(Client, c)]
                /\ running' = running \ {c.id}
           ELSE /\ conn' = [conn EXCEPT ![Client] =
                     [AfterChunk(Client, c) EXCEPT
                        !.state = "SC_CONNECTED",
                        !.precedentSecurityToken = conn[Client].currentSecurityToken,
                        !.currentSecurityToken = c.tok]]
                /\ running' = TimersAfterRenewal(c)
        /\ UNCHANGED <<clientNextReqId, toSvc, refused>>
     \/ /\ ~CtxOf(c.id).timeoutExpired /\ ~ExpectedOPN(Client, c)
        /\ refused' = refused \cup {"protocol"}
        /\ CloseClient(<<>>, 0, TRUE)
  /\ UNCHANGED torn

ClientReceive ==
  /\ Open(Client) /\ wire[Server] # <<>>
  /\ LET c == Head(wire[Server])
     IN  \/ ClientRefuses(c) \/ ClientError(c) \/ ClientChunk(c)
         \/ ClientResponse(c) \/ ClientRenewed(c)
  /\ UNCHANGED <<posted, renewals, toSc, context, cpt, channel, todo, status, executed>>

ServerRefuses(c) ==
  /\ Refuse(Server, c) /\ CloseServer(TRUE)
  /\ UNCHANGED <<executed, torn>>

ServerClosed(c) ==
  /\ c.type = "CLO" /\ Accepted(Server, c)
  /\ CloseServer(FALSE)
  /\ UNCHANGED <<executed, torn, refused>>

\* A part of a request, or its abort: nothing is told to the services.
ServerChunk(c) ==
  /\ c.type = "MSG" /\ c.isFinal # "F" /\ Accepted(Server, c)
  /\ wire' = Consumed(Client)
  /\ conn' = [conn EXCEPT ![Server] = AfterChunk(Server, c)]
  /\ UNCHANGED <<todo, executed, torn, refused>>

ServerRequest(c) ==
  /\ c.type = "MSG" /\ c.isFinal = "F" /\ Accepted(Server, c)
  /\ wire' = Consumed(Client)
  /\ conn' = [conn EXCEPT ![Server] = AfterChunk(Server, c)]
  /\ LET msg == Message(Server, c)
     IN  /\ todo' = todo \cup {[id |-> c.id, handle |-> msg[1].handle, call |-> msg[1].call]}
         /\ executed' = [executed EXCEPT ![msg[1].call] = @ + 1]
         /\ torn' = TornBy(Server, msg)
  /\ UNCHANGED refused

\* SC_ServerTransition_ScConnected_To_ScConnectedRenew and back: a token whose
\* identifier is not the current one of the connection, maybe the precedent.
ServerRenews(c) ==
  /\ c.type = "OPN" /\ Accepted(Server, c)
  /\ LET r == AfterChunk(Server, c)
     IN  \E t \in TokenIds \ {r.currentSecurityToken.id} :
           LET new == [id |-> t, keys |-> r.currentSecurityToken.keys + 1]
           IN  /\ conn' = [conn EXCEPT ![Server] =
                    [Sent(r, 1) EXCEPT !.precedentSecurityToken = r.currentSecurityToken,
                                       !.currentSecurityToken = new,
                                       !.serverNewSecuTokenActive = FALSE]]
               /\ wire' = SendOn(Consumed(Client), Server,
                                 <<Chunk("OPN", "F", new, SNAfter(r.lastSNsent, 1), c.id, NoBody)>>)
  /\ UNCHANGED <<todo, executed, torn, refused>>

ServerReceive ==
  /\ Open(Server) /\ wire[Client] # <<>>
  /\ LET c == Head(wire[Client])
     IN  ServerRefuses(c) \/ ServerClosed(c) \/ ServerChunk(c) \/ ServerRequest(c) \/ ServerRenews(c)
  /\ UNCHANGED <<clientNextReqId, sentRequestIds, running, posted, renewals,
                 toSc, toSvc, context, cpt, channel, status>>

\* The server's services answer a request with a message of n chunks; the
\* requests are answered in any order.
Respond(q, n) ==
  /\ q \in todo /\ todo' = todo \ {q}
  /\ \/ /\ n <= MaxChunkCount
        /\ wire' = SendOn(wire, Server, MsgChunks(Server, q.id, q.call, q.handle, n, n))
        /\ conn' = [conn EXCEPT ![Server] = Sent(@, n)]
     \/ \E k \in 0..(n - 1) :
        /\ \/ n > MaxChunkCount /\ k = 0
           \/ "buffer" \in OutOfMemory /\ n \in 2..MaxChunkCount
        /\ wire' = SendOn(wire, Server, Append(MsgChunks(Server, q.id, q.call, q.handle, n, k),
                                               AbortChunk(Server, q.id, k)))
        /\ conn' = [conn EXCEPT ![Server] = Sent(@, k + 1)]
  /\ UNCHANGED <<clientNextReqId, sentRequestIds, running, posted, renewals, torn,
                 refused, toSc, toSvc, context, cpt, channel, status, executed>>

-----------------------------------------------------------------------------
(* Ends of the channel that come from elsewhere.                           *)

\* SC_DISCONNECT, or the connection is lost.
Disconnect(p, lost) ==
  /\ Open(p)
  /\ \/ p = Client /\ CloseClient(<<>>, 0, ~lost) /\ UNCHANGED todo
     \/ /\ p = Server /\ CloseServer(~lost)
        /\ UNCHANGED <<sentRequestIds, running, clientNextReqId, toSvc>>
  /\ UNCHANGED <<posted, renewals, torn, refused, toSc, context, cpt, channel,
                 status, executed>>

Next ==
  \/ \E c \in Calls, n \in Sizes : Request(c, n)
  \/ TreatServicesEvent \/ TreatRequest
  \/ \E t \in running : TimerExpires(t)
  \/ TreatRenewTimer
  \/ \E t \in posted : TreatRequestTimeout(t)
  \/ ClientReceive \/ ServerReceive
  \/ \E q \in todo, n \in Sizes : Respond(q, n)
  \/ \E p \in Ending, lost \in BOOLEAN : Disconnect(p, lost)

Spec == Init /\ [][Next]_vars

\* The queues are served, the timers expire and the stream moves; the
\* server's services may well not answer.
FairSpec ==
  /\ Spec
  /\ WF_vars(TreatServicesEvent) /\ WF_vars(TreatRequest) /\ WF_vars(TreatRenewTimer)
  /\ WF_vars(ClientReceive) /\ WF_vars(ServerReceive)
  /\ WF_vars(\E t \in posted : TreatRequestTimeout(t))
  /\ WF_vars(\E t \in running \ {Renew} : TimerExpires(t))

-----------------------------------------------------------------------------
(* Properties.                                                             *)

\* Type invariant.
TypeOK ==
  /\ \A p \in Ends :
       /\ conn[p].state \in {"SC_CONNECTED", "SC_CONNECTED_RENEW", "SC_CLOSED"}
       /\ conn[p].lastSNsent \in 1..SNMax /\ conn[p].lastSNreceived \in 1..SNMax
       /\ Len(conn[p].intermediateChunks) < MaxChunkCount
  /\ running \cap posted = {}
  /\ context \in [Handles -> Calls \cup {0}]
  /\ refused \subseteq {"expired token", "protocol"}

\* Whatever renewals, timeouts, aborted messages and restarts of the numbers
\* come in between, an end never refuses a chunk of the other (token
\* identifier unknown or with other keys, sequence number, request identifier,
\* number of chunks: INT_SC_RCV_FAILURE) unless the token has expired.
PeerNeverRefused == "protocol" \notin refused

\* A message given to the services is the one that was sent, whole, and
\* nothing of an aborted one before it.
MessagesWhole == torn = {}

\* A request the client waits for can always be ended by a timer.
WaitedIsTimed ==
  \A i \in 1..Len(sentRequestIds) :
    ~sentRequestIds[i].timeoutExpired => sentRequestIds[i].id \in running \cup posted

\* A connected client channel always has its renewal ahead; the renewal that
\* is asked is waited for, unless it has timed out.
RenewalAhead ==
  /\ conn[Client].state = "SC_CONNECTED" => Renew \in running \cup posted
  /\ conn[Client].state = "SC_CONNECTED_RENEW" =>
       \/ \E i \in 1..Len(sentRequestIds) : sentRequestIds[i].handle = OPN
       \/ conn[Server].currentSecurityToken # conn[Client].currentSecurityToken

\* The handle h is on its way down, waited for, or about to be told free.
OnItsWay(h) ==
  \/ \E i \in 1..Len(toSc) : toSc[i].handle = h /\ toSc[i].call = context[h]
  \/ \E i \in 1..Len(sentRequestIds) :
       sentRequestIds[i].handle = h /\ sentRequestIds[i].call = context[h]
       /\ ~sentRequestIds[i].timeoutExpired
  \/ \E i \in 1..Len(toSvc) :
       toSvc[i].type = "SC_DISCONNECTED" \/ (toSvc[i].handle = h /\ toSvc[i].call = context[h])

\* A call that is waited for has a handle, and its handle is on its way: none
\* is lost between the services and the channel (request_handle_bs.c).  Any
\* other handle in use is that of a call refused when its message could not be
\* encoded.
HandlesAccounted ==
  /\ \A c \in Calls : status[c] = "pending" => \E h \in Handles : context[h] = c
  /\ \A h \in Handles : context[h] # 0 => OnItsWay(h) \/ status[context[h]] = "failed"

\* A handle in use is that of a call that is waited for: what
\* client_remove_req_handle is given is a handle in use, the one of the call
\* that has ended.
EndedHandlesFree ==
  \A h \in Handles : context[h] # 0 => status[context[h]] = "pending"

\* The channel and the handles together keep the abstract promise: a call is
\* executed at most once, answered only by its own answer, and ended once.
RPC == INSTANCE AtMostOnce WITH Calls <- Calls, status <- status, executed <- executed
CallsAtMostOnce == RPC!RpcSafety

\* And every call ends, whether the server's services answer it or not.
CallsEnd == RPC!RpcLiveness
=============================================================================
