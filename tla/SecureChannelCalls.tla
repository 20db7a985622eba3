-------------------------- MODULE SecureChannelCalls --------------------------
(***************************************************************************)
(* Proofs about the calls of the client's services and the renewal of the  *)
(* security token: the secure channel and the request handles together     *)
(* implement AtMostOnce, no handle is lost on the way, an end never        *)
(* refuses what the other sends, and the next renewal is always ahead.     *)
(***************************************************************************)
EXTENDS SecureChannelProofs, FiniteSetTheorems

-----------------------------------------------------------------------------
(* What is on the wires.                                                   *)

\* A step that leaves a wire alone, or takes from it, or cuts it.
LEMMA LessOnWire ==
  ASSUME ChanTypes, NEW p \in Ends, NEW w \in {wire[p], <<>>, Tail(wire[p])},
         w = Tail(wire[p]) => wire[p] # <<>>
  PROVE  Elems(w) \subseteq Elems(wire[p]) /\ \A R : Pairwise(wire[p], R) => Pairwise(w, R)
  <1>1. wire[p] \in Seq(Chunks)
    BY DEF ChanTypes
  <1>2. CASE w = wire[p]
    BY <1>2
  <1>3. CASE w = <<>>
    BY <1>3, ElemsSmall, PairwiseSmall
  <1>4. CASE w = Tail(wire[p])
    BY <1>1, <1>4, ElemsTail, PairwiseTail
  <1> QED BY <1>2, <1>3, <1>4

\* An end sends.
LEMMA SendsGains ==
  ASSUME ChanTypes, NEW p \in Ends, NEW m \in Seq(Chunks), NEW w,
         w = (IF Open(Peer(p)) THEN wire[p] \o m ELSE wire[p])
  PROVE  Elems(w) \subseteq Elems(wire[p]) \cup Elems(m)
  <1>1. wire[p] \in Seq(Chunks)
    BY DEF ChanTypes
  <1>2. Elems(wire[p] \o m) = Elems(wire[p]) \cup Elems(m)
    BY <1>1, ElemsConcat
  <1> QED BY <1>2

\* The chunks of a message are about its call.
About(x, id, call, h) ==
  /\ x.id = id /\ x.type = "MSG"
  /\ Carries(x) => x.body.call = call /\ x.body.handle = h

\* All the chunks of a message.
LEMMA MessageAbout ==
  ASSUME ChanTypes, NEW p \in Ends, NEW id \in Nat, NEW call \in Calls \cup {0},
         NEW h \in Handles \cup {0}, NEW n \in Nat, NEW k \in Nat
  PROVE  \A x \in Elems(MsgChunks(p, id, call, h, n, k)) :
           /\ About(x, id, call, h) /\ x.tok = SendToken(p)
           /\ Carries(x) /\ (x.isFinal = "F" => k >= n)
  <1> DEFINE m == MsgChunks(p, id, call, h, n, k)
             e(i) == Chunk("MSG", IF i < n THEN "C" ELSE "F", SendToken(p),
                           SNAfter(conn[p].lastSNsent, i), id, Part(call, h, i, n))
  <1>1. m = [i \in 1..k |-> e(i)]
    BY DEF MsgChunks
  <1>2. \A i \in 1..k : About(e(i), id, call, h) /\ Carries(e(i)) /\ e(i).tok = SendToken(p)
                        /\ (e(i).isFinal = "F" => k >= n)
    BY DEF About, Carries, Chunk, Part
  <1> HIDE DEF e
  <1>3. Elems(m) = {e(i) : i \in 1..k}
    <2>1. Len([i \in 1..k |-> e(i)]) = k
      OBVIOUS
    <2> QED BY <1>1, <2>1 DEF Elems
  <1> QED BY <1>2, <1>3

\* A message that is given up.
LEMMA AbortAbout ==
  ASSUME ChanTypes, NEW p \in Ends, NEW m \in Seq(Numbered), NEW aid \in Nat, NEW used \in Nat
  PROVE  /\ Elems(Append(m, AbortChunk(p, aid, used))) = Elems(m) \cup {AbortChunk(p, aid, used)}
         /\ AbortChunk(p, aid, used).id = aid /\ AbortChunk(p, aid, used).type = "MSG"
         /\ AbortChunk(p, aid, used).tok = SendToken(p)
         /\ ~Carries(AbortChunk(p, aid, used)) /\ AbortChunk(p, aid, used).isFinal = "A"
  <1>1. AbortChunk(p, aid, used) \in Numbered
    BY MsgChunksType
  <1>2. Elems(Append(m, AbortChunk(p, aid, used))) = Elems(m) \cup {AbortChunk(p, aid, used)}
    BY <1>1, ElemsAppend
  <1> QED BY <1>2 DEF AbortChunk, Chunk, Carries

-----------------------------------------------------------------------------
(* Request identifiers.                                                    *)

Same(a, b) == a.call = b.call /\ a.handle = b.handle

\* The identifiers in use are below the next one, and what goes with the
\* identifier of a request that is waited for is about it.
IdsBelow ==
  Open(Client) => /\ \A p \in Ends : \A x \in Elems(wire[p]) : x.id < clientNextReqId
                  /\ \A q \in todo : q.id < clientNextReqId
ChunksMatch ==
  \A m \in Waited, p \in Ends : \A x \in Elems(wire[p]) : Carries(x) /\ x.id = m.id => Same(x.body, m)
TodoMatch == \A m \in Waited : \A q \in todo : q.id = m.id => Same(q, m)
IdsInv == IdsBelow /\ ChunksMatch /\ TodoMatch

\* A new chunk, a new request of the server's services and a new request that
\* is waited for, after a step.
NewChunk(x) ==
  /\ Open(Client)' => x.id < clientNextReqId'
  /\ \A m \in Waited' : Carries(x) /\ x.id = m.id => Same(x.body, m)
NewTodo(q) ==
  /\ Open(Client)' => q.id < clientNextReqId'
  /\ \A m \in Waited' : q.id = m.id => Same(q, m)
OldCtx(n) == \E m \in Waited : m.id = n.id /\ Same(m, n)

\* What keeps the identifiers in order.
LEMMA IdsKept ==
  ASSUME Types, IdsInv,
         \A p \in Ends : \A x \in Elems(wire'[p]) : x \in Elems(wire[p]) \/ NewChunk(x),
         \A q \in todo' : q \in todo \/ NewTodo(q),
         Open(Client)' => Open(Client) /\ clientNextReqId <= clientNextReqId' /\ clientNextReqId' \in Nat,
         \A n \in Waited' : OldCtx(n) \/ (Open(Client) /\ n.id = clientNextReqId)
  PROVE  IdsInv'
  <1>0. clientNextReqId \in Nat
    BY DEF Types, ListTypes
  <1>2. ASSUME NEW i \in Nat, i < clientNextReqId, Open(Client)' PROVE i < clientNextReqId'
    BY <1>0, <1>2
  <1>3. \A p \in Ends : \A x \in Elems(wire[p]) : x.id \in Nat
    <2> SUFFICES ASSUME NEW p \in Ends, NEW x \in Elems(wire[p]) PROVE x.id \in Nat
      OBVIOUS
    <2>1. x \in Chunks
      BY ElemsType DEF Types, ChanTypes
    <2> QED BY <2>1 DEF Chunks, Numbered, ErrChunk, Chunk
  <1>4. \A q \in todo : q.id \in Nat
    BY DEF Types, SvcTypes, Todo
  <1>5. IdsBelow'
    <2> SUFFICES ASSUME Open(Client)'
                 PROVE  /\ \A p \in Ends : \A x \in Elems(wire'[p]) : x.id < clientNextReqId'
                        /\ \A q \in todo' : q.id < clientNextReqId'
      BY DEF IdsBelow
    <2>1. ASSUME NEW p \in Ends, NEW x \in Elems(wire'[p]) PROVE x.id < clientNextReqId'
      BY <1>2, <1>3 DEF IdsInv, IdsBelow, NewChunk
    <2>2. ASSUME NEW q \in todo' PROVE q.id < clientNextReqId'
      BY <1>2, <1>4 DEF IdsInv, IdsBelow, NewTodo
    <2> QED BY <2>1, <2>2
  <1>6. ChunksMatch'
    <2> SUFFICES ASSUME NEW n \in Waited', NEW p \in Ends, NEW x \in Elems(wire'[p]), Carries(x), x.id = n.id
                 PROVE  Same(x.body, n)
      BY DEF ChunksMatch
    <2>1. CASE NewChunk(x)
      BY <2>1 DEF NewChunk
    <2>2. CASE x \in Elems(wire[p])
      <3>1. CASE Open(Client) /\ n.id = clientNextReqId
        <4>1. x.id < clientNextReqId /\ x.id \in Nat
          BY <1>3, <2>2, <3>1 DEF IdsInv, IdsBelow
        <4> QED BY <1>0, <3>1, <4>1
      <3>2. CASE OldCtx(n)
        BY <2>2, <3>2 DEF OldCtx, IdsInv, ChunksMatch, Same
      <3> QED BY <3>1, <3>2
    <2> QED BY <2>1, <2>2
  <1>7. TodoMatch'
    <2> SUFFICES ASSUME NEW n \in Waited', NEW q \in todo', q.id = n.id PROVE Same(q, n)
      BY DEF TodoMatch
    <2>1. CASE NewTodo(q)
      BY <2>1 DEF NewTodo
    <2>2. CASE q \in todo
      <3>1. CASE Open(Client) /\ n.id = clientNextReqId
        <4>1. q.id < clientNextReqId /\ q.id \in Nat
          BY <1>4, <2>2, <3>1 DEF IdsInv, IdsBelow
        <4> QED BY <1>0, <3>1, <4>1
      <3>2. CASE OldCtx(n)
        BY <2>2, <3>2 DEF OldCtx, IdsInv, TodoMatch, Same
      <3> QED BY <3>1, <3>2
    <2> QED BY <2>1, <2>2
  <1> QED BY <1>5, <1>6, <1>7 DEF IdsInv

\* What a step may do to the list of requests and to the next identifier.
ListKept ==
  /\ Open(Client)' => Open(Client) /\ clientNextReqId <= clientNextReqId' /\ clientNextReqId' \in Nat
  /\ \A n \in Waited' : OldCtx(n) \/ (Open(Client) /\ n.id = clientNextReqId)

\* Every step does so.
LEMMA ListStep ==
  ASSUME Types, TimerInv, [Next]_vars
  PROVE  ListKept
  <1>0. Types' /\ clientNextReqId \in Nat /\ clientNextReqId' \in Nat
    BY TypesStep DEF Types, ListTypes
  <1>1. \A n \in Waited : OldCtx(n)
    BY DEF OldCtx, Same
  <1>2. CASE Idle
    <2>1. Waited' = Waited /\ (Open(Client)' <=> Open(Client))
      BY <1>2, OpenState DEF Idle, Waited, Open, ClientState
    <2>2. clientNextReqId <= clientNextReqId'
      BY <1>0, <1>2 DEF Idle
    <2> QED BY <1>0, <1>1, <2>1, <2>2 DEF ListKept
  <1>3. ASSUME NEW m \in Ctx, Waits(m) PROVE ListKept
    <2>1. Waited' = Waited \cup {m}
      <3>1. sentRequestIds \in Seq(Ctx) /\ sentRequestIds' = Append(sentRequestIds, m)
        BY <1>3 DEF Types, ListTypes, Waits
      <3> QED BY <3>1, ElemsAppend DEF Waited
    <2>2. Open(Client) /\ m.id = clientNextReqId /\ clientNextReqId <= clientNextReqId'
      BY <1>0, <1>3 DEF Waits
    <2> QED BY <1>0, <1>1, <2>1, <2>2 DEF ListKept
  <1>4. ASSUME NEW id \in Nat, Settles(id), \E i \in 1..Len(sentRequestIds) : sentRequestIds[i].id = id
        PROVE  ListKept
    <2>1. Waited' \subseteq Waited
      BY <1>4, CtxTypes DEF Types, Settles, Waited
    <2>2. Open(Client) /\ clientNextReqId <= clientNextReqId'
      BY <1>0, <1>4 DEF Settles
    <2> QED BY <1>0, <1>1, <2>1, <2>2 DEF ListKept
  <1>5. CASE \/ \E t \in running : TimerExpires(t)
             \/ LateRenewal \/ UNCHANGED vars
    <2>1. UNCHANGED <<conn, sentRequestIds, clientNextReqId>>
      BY <1>5 DEF TimerExpires, LateRenewal, vars, chanVars
    <2>2. Waited' = Waited /\ (Open(Client)' <=> Open(Client)) /\ clientNextReqId <= clientNextReqId'
      BY <1>0, <2>1 DEF Waited, Open
    <2> QED BY <1>0, <1>1, <2>2 DEF ListKept
  <1>6. ASSUME NEW t \in posted, TreatRequestTimeout(t) PROVE ListKept
    <2>1. UNCHANGED <<conn, clientNextReqId>> /\ sentRequestIds' = MarkExpired(t)
      BY <1>6 DEF TreatRequestTimeout
    <2>2. \A n \in Waited' : OldCtx(n)
      BY <2>1, MarkedElems DEF Types, Waited, Marked, OldCtx, Same
    <2>3. (Open(Client)' <=> Open(Client)) /\ clientNextReqId <= clientNextReqId'
      BY <1>0, <2>1 DEF Open
    <2> QED BY <1>0, <2>2, <2>3 DEF ListKept
  <1>7. ASSUME NEW ev, NEW used, NEW farewell \in BOOLEAN, ClientCloses(ev, used, farewell)
        PROVE  ListKept
    <2>1. Waited' = {}
      BY <1>7, ClientClosesEffect, ElemsSmall DEF Waited
    <2>2. ~Open(Client)'
      <3>1. conn'[Client] = ClosedEnd(conn[Client]) /\ conn[Client] \in Connection
        BY <1>7, ClientClosesEffect, ClosesEffect, EndsPeer DEF Types, ChanTypes
      <3> QED BY <3>1 DEF ClosedEnd, Connection, Open
    <2> QED BY <2>1, <2>2 DEF ListKept
  <1>8. ASSUME NEW c, ClientGets(c), ClientChunk(c) PROVE ListKept
    <2>1. c.id \in Nat /\ \E i \in 1..Len(sentRequestIds) : sentRequestIds[i].id = c.id
      <3>1. Accepted(Client, c) /\ c.type # "ERR"
        BY <1>8 DEF ClientChunk
      <3> QED BY <1>8, <3>1, ClientGetsType
    <2>2. Waited' = Waited
      BY <1>8, <2>1, CtxTypes DEF Types, ClientChunk, Waited
    <2>3. Open(Client) /\ clientNextReqId <= clientNextReqId'
      BY <1>0, <1>8 DEF ClientChunk, ClientGets
    <2> QED BY <1>0, <1>1, <2>2, <2>3 DEF ListKept
  <1>9. CASE \E m \in Ctx : Waits(m)
    BY <1>3, <1>9
  <1>10. CASE Step
    BY <1>2, <1>4, <1>5, <1>6, <1>7, <1>8, <1>9, <1>10, IdleSteps, WaitsSteps, SettlesSteps DEF Step
  <1> QED BY <1>5, <1>10, NextSteps

-----------------------------------------------------------------------------
(* Steps that carry nothing new.                                           *)

\* After the last chunk of a message nothing more is about its call.
FinalOnce ==
  {e \in Chunks \X Chunks : Carries(e[1]) /\ e[1].isFinal = "F" /\ Carries(e[2]) =>
                              e[2].body.call # e[1].body.call}

\* A chunk that carries nothing.
NoNews(x) == ~Carries(x) /\ (Open(Client)' => x.id < clientNextReqId')
QuietOn(p) ==
  /\ \A x \in Elems(wire'[p]) : x \in Elems(wire[p]) \/ NoNews(x)
  /\ Pairwise(wire[p], FinalOnce) => Pairwise(wire'[p], FinalOnce)

\* The wire of p loses chunks, or nothing.
LEMMA QuietLess ==
  ASSUME ChanTypes, NEW p \in Ends, wire'[p] \in {wire[p], <<>>, Tail(wire[p])},
         wire'[p] = Tail(wire[p]) => wire[p] # <<>> \/ wire'[p] = wire[p]
  PROVE  QuietOn(p)
  <1>1. CASE wire'[p] = wire[p]
    BY <1>1 DEF QuietOn
  <1>2. CASE wire'[p] # wire[p]
    <2> DEFINE w == wire'[p]
    <2>1. w \in {wire[p], <<>>, Tail(wire[p])} /\ (w = Tail(wire[p]) => wire[p] # <<>>)
      BY <1>2
    <2> HIDE DEF w
    <2>2. Elems(w) \subseteq Elems(wire[p]) /\ (Pairwise(wire[p], FinalOnce) => Pairwise(w, FinalOnce))
      BY <2>1, LessOnWire
    <2> QED BY <2>2 DEF QuietOn, w
  <1> QED BY <1>1, <1>2

\* The wire of p gets one chunk that carries nothing, or none.
LEMMA QuietMore ==
  ASSUME ChanTypes, NEW p \in Ends, NEW m \in Seq(Chunks), NEW x \in Chunks, NoNews(x),
         m = <<x>> \/ m = <<>>,
         wire'[p] = (IF Open(Peer(p)) THEN wire[p] \o m ELSE wire[p])
  PROVE  QuietOn(p)
  <1>1. wire[p] \in Seq(Chunks)
    BY DEF ChanTypes
  <1>2. Elems(m) \subseteq {x} /\ Pairwise(m, FinalOnce)
    <2>1. Elems(<<>>) = {} /\ Elems(<<x>>) = {x}
      BY ElemsSmall
    <2>2. Pairwise(<<>>, FinalOnce) /\ Pairwise(<<x>>, FinalOnce)
      BY PairwiseSmall
    <2>3. CASE m = <<x>>
      BY <2>1, <2>2, <2>3
    <2>4. CASE m = <<>>
      BY <2>1, <2>2, <2>4
    <2> QED BY <2>3, <2>4
  <1>3. Elems(wire[p] \o m) = Elems(wire[p]) \cup Elems(m)
    BY <1>1, ElemsConcat
  <1>4. Pairwise(wire[p], FinalOnce) => Pairwise(wire[p] \o m, FinalOnce)
    <2>1. \A d \in Elems(wire[p]), e \in Elems(m) : <<d, e>> \in FinalOnce
      BY <1>1, <1>2, ElemsType DEF FinalOnce, NoNews
    <2> QED BY <1>1, <1>2, <2>1, PairwiseConcat
  <1> QED BY <1>2, <1>3, <1>4 DEF QuietOn

QuietWires == QuietOn(Client) /\ QuietOn(Server)

\* Steps that leave the wires alone.
LEMMA StillWires ==
  ASSUME Types, UNCHANGED wire
  PROVE  QuietWires
  BY QuietLess, EndsPeer DEF Types, QuietWires

\* The client asks for a renewal.
LEMMA AskWires ==
  ASSUME Types, AsksRenewal
  PROVE  QuietWires /\ todo' = todo
  <1>1. /\ SendsAs(Client, <<AskChunk>>, AskedEnd) /\ AskChunk \in Numbered
        /\ <<AskChunk>> \in Seq(Chunks) /\ AskedEnd \in Connection
        /\ AskedEnd.intermediateChunks = conn[Client].intermediateChunks
    BY AskEffect
  <1>2. /\ wire'[Client] = (IF Open(Server) THEN wire[Client] \o <<AskChunk>> ELSE wire[Client])
        /\ wire'[Server] = wire[Server]
    BY <1>1, SendsEffect, EndsPeer DEF Types
  <1>3. NoNews(AskChunk) /\ AskChunk \in Chunks
    <2>1. AskChunk.id = clientNextReqId /\ AskChunk.type = "OPN"
      BY DEF AskChunk, Chunk
    <2>2. clientNextReqId < clientNextReqId'
      <3>1. clientNextReqId \in Nat /\ clientNextReqId' = clientNextReqId + 1
        BY DEF AsksRenewal, AskRenewal, Types, ListTypes
      <3> QED BY <3>1
    <2> QED BY <1>1, <2>1, <2>2 DEF NoNews, Carries, Chunks
  <1>4. QuietOn(Client)
    <2> DEFINE m == <<AskChunk>>
    <2>1. m \in Seq(Chunks) /\ (m = <<AskChunk>> \/ m = <<>>)
          /\ wire'[Client] = (IF Open(Peer(Client)) THEN wire[Client] \o m ELSE wire[Client])
      BY <1>1, <1>2, EndsPeer
    <2> HIDE DEF m
    <2> QED BY <1>3, <2>1, QuietMore, EndsPeer DEF Types
  <1>5. QuietOn(Server)
    BY <1>2, QuietLess, EndsPeer DEF Types
  <1> QED BY <1>4, <1>5 DEF QuietWires, AsksRenewal

\* The client closes.
LEMMA ClientClosesWires ==
  ASSUME Types, NEW ev, NEW used, NEW farewell \in BOOLEAN, ClientCloses(ev, used, farewell)
  PROVE  QuietWires /\ todo' = todo /\ ~Open(Client)'
  <1> DEFINE m == ClientLast(used, farewell)
  <1>1. ClosesWith(Client, m) /\ m \in Seq(Chunks) /\ CloChunk(used) \in Numbered
        /\ (m = <<CloChunk(used)>> \/ m = <<>>)
    BY ClientClosesEffect DEF ClientLast
  <1> HIDE DEF m
  <1>2. /\ wire'[Client] = (IF Open(Server) THEN wire[Client] \o m ELSE wire[Client])
        /\ wire'[Server] = <<>> /\ conn'[Client] = ClosedEnd(conn[Client]) /\ conn[Client] \in Connection
    BY <1>1, ClosesEffect, EndsPeer DEF Types, ChanTypes
  <1>3. ~Open(Client)'
    BY <1>2 DEF ClosedEnd, Connection, Open
  <1>4. NoNews(CloChunk(used)) /\ CloChunk(used) \in Chunks
    BY <1>1, <1>3 DEF NoNews, Carries, CloChunk, Chunk, Chunks
  <1>5. QuietOn(Client)
    BY <1>1, <1>2, <1>4, QuietMore, EndsPeer DEF Types
  <1>6. QuietOn(Server)
    <2>1. wire'[Server] = Tail(wire[Server]) => wire[Server] # <<>> \/ wire'[Server] = wire[Server]
      BY <1>2
    <2> QED BY <1>2, <2>1, QuietLess, EndsPeer DEF Types
  <1> QED BY <1>3, <1>5, <1>6 DEF QuietWires, ClientCloses

\* The server closes.
LEMMA ServerClosesWires ==
  ASSUME Types, TimerInv, NEW farewell \in BOOLEAN, ServerCloses(farewell)
  PROVE  QuietWires /\ todo' = {}
  <1> DEFINE m == ServerLast(farewell)
  <1>1. ClosesWith(Server, m) /\ m \in Seq(Chunks) /\ todo' = {}
        /\ (m = <<ErrChunk>> \/ m = <<>>)
    BY ServerClosesEffect DEF ServerLast
  <1> HIDE DEF m
  <1>2. /\ wire'[Server] = (IF Open(Client) THEN wire[Server] \o m ELSE wire[Server])
        /\ wire'[Client] = <<>> /\ conn'[Client] = conn[Client]
    BY <1>1, ClosesEffect, EndsPeer DEF Types
  <1>3. NoNews(ErrChunk) /\ ErrChunk \in Chunks
    <2>1. Open(Client)' => 0 < clientNextReqId'
      <3>1. clientNextReqId' = clientNextReqId /\ (Open(Client)' => Open(Client)) /\ clientNextReqId \in Nat
        BY <1>2 DEF ServerCloses, Open, Types, ListTypes
      <3>2. Open(Client) => clientNextReqId > 0
        BY DEF TimerInv, IdsPast
      <3> QED BY <3>1, <3>2
    <2> QED BY <2>1 DEF NoNews, Carries, ErrChunk, Chunk, Chunks
  <1>4. QuietOn(Server)
    BY <1>1, <1>2, <1>3, QuietMore, EndsPeer DEF Types
  <1>5. QuietOn(Client)
    <2>1. wire'[Client] = Tail(wire[Client]) => wire[Client] # <<>> \/ wire'[Client] = wire[Client]
      BY <1>2
    <2> QED BY <1>2, <2>1, QuietLess, EndsPeer DEF Types
  <1> QED BY <1>1, <1>4, <1>5 DEF QuietWires

\* A chunk of p is taken.
LEMMA TakenWires ==
  ASSUME Types, NEW p \in Ends, wire[p] # <<>>, wire' = Consumed(p)
  PROVE  QuietWires
  <1>1. wire'[p] = Tail(wire[p]) /\ \A q \in Ends : q # p => wire'[q] = wire[q]
    BY DEF Consumed, Types, ChanTypes
  <1>2. \A q \in Ends : QuietOn(q)
    <2> SUFFICES ASSUME NEW q \in Ends PROVE QuietOn(q)
      OBVIOUS
    <2> QED BY <1>1, QuietLess DEF Types
  <1> QED BY <1>2, EndsPeer DEF QuietWires

\* The server renews the token.
LEMMA RenewsWires ==
  ASSUME Types, IdsInv, NEW c, ServerGets(c), ServerRenews(c)
  PROVE  QuietWires /\ todo' = todo
  <1>1. PICK t : /\ RepliesAs(Server, <<GrantChunk(c, t)>>, GrantedEnd(c, t))
                 /\ GrantChunk(c, t) \in Numbered /\ <<GrantChunk(c, t)>> \in Seq(Chunks)
                 /\ GrantedEnd(c, t) \in Connection
                 /\ GrantedEnd(c, t).intermediateChunks = TreatMsgMultiChunks(Server, c)
                 /\ c \in Numbered /\ RoomForChunk(Server, c)
    BY RenewsEffect
  <1> DEFINE g == GrantChunk(c, t)
             m == <<g>>
  <1>2. /\ wire'[Server] = (IF Open(Client) THEN wire[Server] \o m ELSE wire[Server])
        /\ wire'[Client] = Tail(wire[Client]) /\ conn'[Client] = conn[Client]
    <2>1. Len(GrantedEnd(c, t).intermediateChunks) < MaxChunkCount
      BY <1>1, AfterChunkType, EndsPeer DEF Types
    <2> QED BY <1>1, <2>1, RepliesEffect, EndsPeer DEF Types
  <1>3. NoNews(g) /\ g \in Chunks
    <2>1. g.id = c.id /\ g.type = "OPN"
      BY DEF GrantChunk, Chunk
    <2>2. c \in Elems(wire[Client])
      BY ElemsTail, EndsPeer DEF ServerGets, Types, ChanTypes
    <2>3. Open(Client)' => c.id < clientNextReqId'
      BY <1>2, <2>2, EndsPeer DEF IdsInv, IdsBelow, ServerGets, Open
    <2> QED BY <1>1, <2>1, <2>3 DEF NoNews, Carries, Chunks
  <1>4. m \in Seq(Chunks) /\ (m = <<g>> \/ m = <<>>)
    BY <1>1
  <1> HIDE DEF g, m
  <1>5. QuietOn(Server)
    BY <1>2, <1>3, <1>4, QuietMore, EndsPeer DEF Types
  <1>6. QuietOn(Client)
    BY <1>2, QuietLess, EndsPeer DEF Types, ServerGets
  <1> QED BY <1>5, <1>6 DEF QuietWires, ServerRenews

\* Steps that carry nothing new.
QuietStep ==
  \/ UNCHANGED vars
  \/ \E c \in Calls, n \in Sizes : Request(c, n)
  \/ TreatServicesEvent
  \/ \E r : Pops(r) /\ RefuseRequest(r)
  \/ \E t \in running : TimerExpires(t)
  \/ AsksRenewal
  \/ LateRenewal
  \/ \E t \in posted : TreatRequestTimeout(t)
  \/ \E ev, used : \E farewell \in BOOLEAN : ClientCloses(ev, used, farewell)
  \/ \E c : ClientGets(c) /\ (ClientChunk(c) \/ ClientResponse(c) \/ TakesRenewal(c))
  \/ \E farewell \in BOOLEAN : ServerCloses(farewell)
  \/ \E c : ServerGets(c) /\ (ServerChunk(c) \/ ServerRenews(c))

\* All of them.
LEMMA QuietStepWires ==
  ASSUME Types, TimerInv, IdsInv, QuietStep
  PROVE  QuietWires /\ todo' \subseteq todo
  <1>1. CASE \/ UNCHANGED vars
             \/ \E c \in Calls, n \in Sizes : Request(c, n)
             \/ TreatServicesEvent
             \/ \E r : Pops(r) /\ RefuseRequest(r)
             \/ \E t \in running : TimerExpires(t)
             \/ LateRenewal
             \/ \E t \in posted : TreatRequestTimeout(t)
    <2>1. UNCHANGED <<wire, todo>>
      BY <1>1 DEF Request, TreatServicesEvent, Pops, RefuseRequest, TimerExpires, LateRenewal,
                  TreatRequestTimeout, vars, chanVars, svcVars
    <2> QED BY <2>1, StillWires
  <1>2. ASSUME NEW c, ClientGets(c), ClientChunk(c) \/ ClientResponse(c) \/ TakesRenewal(c)
        PROVE  QuietWires /\ todo' \subseteq todo
    <2>1. wire[Server] # <<>> /\ wire' = Consumed(Server) /\ todo' = todo
      BY <1>2 DEF ClientGets, ClientChunk, ClientResponse, TakesRenewal
    <2> QED BY <2>1, TakenWires, EndsPeer
  <1>3. ASSUME NEW c, ServerGets(c), ServerChunk(c)
        PROVE  QuietWires /\ todo' \subseteq todo
    <2>1. wire[Client] # <<>> /\ wire' = Consumed(Client) /\ todo' = todo
      BY <1>3 DEF ServerGets, ServerChunk
    <2> QED BY <2>1, TakenWires, EndsPeer
  <1> QED BY <1>1, <1>2, <1>3, AskWires, ClientClosesWires, ServerClosesWires, RenewsWires DEF QuietStep

-----------------------------------------------------------------------------
(* Executions.                                                             *)

DistinctCalls == {e \in Asked \X Asked : e[1].call # e[2].call}
Executed(c) == c \in Calls /\ executed[c] = 1
OnTheWay(c) == c \in Calls /\ executed[c] = 0 /\ status[c] # "idle"

\* A request in the queue is not sent yet, and one on the wire is not
\* executed yet.
RequestsNew ==
  \A r \in Elems(toSc) : /\ OnTheWay(r.call)
                         /\ \A x \in Elems(wire[Client]) : Carries(x) => x.body.call # r.call
RequestsApart == Pairwise(toSc, DistinctCalls)
ChunksNew == \A x \in Elems(wire[Client]) : Carries(x) => OnTheWay(x.body.call)
ChunksOnce == Pairwise(wire[Client], FinalOnce)
OnceAtMost == \A c \in Calls : executed[c] \in {0, 1} /\ (executed[c] = 1 => status[c] # "idle")
\* What is answered was executed.
AnswersDue ==
  /\ \A q \in todo : Executed(q.call)
  /\ \A x \in Elems(wire[Server]) : Carries(x) => Executed(x.body.call)
  /\ \A e \in Elems(toSvc) : e.type = "SC_SERVICE_RCV_MSG" => Executed(e.call)
ExecInv == RequestsNew /\ RequestsApart /\ ChunksNew /\ ChunksOnce /\ OnceAtMost /\ AnswersDue

StatusKept == \A c \in Calls : status[c] # "idle" => status'[c] # "idle"

\* Steps that execute nothing and send no part of a request.
LEMMA ExecKept ==
  ASSUME Types, ExecInv, executed' = executed, StatusKept, QuietOn(Client),
         toSc' = toSc \/ (toSc # <<>> /\ toSc' = Tail(toSc)),
         \A q \in todo' : Executed(q.call),
         \A x \in Elems(wire'[Server]) : Carries(x) => Executed(x.body.call),
         \A e \in Elems(toSvc') : e.type = "SC_SERVICE_RCV_MSG" => Executed(e.call)
  PROVE  ExecInv'
  <1>1. \A c : (Executed(c) => Executed(c)') /\ (OnTheWay(c) => OnTheWay(c)')
    BY DEF Executed, OnTheWay, StatusKept
  <1>2. \A x \in Elems(wire'[Client]) : Carries(x) => x \in Elems(wire[Client])
    BY DEF QuietOn, NoNews
  <1>3. Elems(toSc') \subseteq Elems(toSc) /\ RequestsApart'
    <2>1. toSc \in Seq(Asked)
      BY DEF Types, SvcTypes
    <2> QED BY <2>1, ElemsTail, PairwiseTail DEF ExecInv, RequestsApart
  <1>4. RequestsNew' /\ ChunksNew'
    BY <1>1, <1>2, <1>3 DEF ExecInv, RequestsNew, ChunksNew
  <1>5. ChunksOnce'
    BY DEF QuietOn, ExecInv, ChunksOnce
  <1>6. OnceAtMost' /\ AnswersDue'
    BY <1>1 DEF ExecInv, OnceAtMost, AnswersDue, StatusKept
  <1> QED BY <1>3, <1>4, <1>5, <1>6 DEF ExecInv

\* In a message, no chunk comes after the last.
LEMMA MessageOnce ==
  ASSUME ChanTypes, NEW p \in Ends, NEW id \in Nat, NEW call \in Calls \cup {0},
         NEW h \in Handles \cup {0}, NEW n \in Nat, NEW k \in Nat, k <= n
  PROVE  /\ Pairwise(MsgChunks(p, id, call, h, n, k), FinalOnce)
         /\ \A aid, used \in Nat :
              Pairwise(Append(MsgChunks(p, id, call, h, n, k), AbortChunk(p, aid, used)), FinalOnce)
  <1> DEFINE m == MsgChunks(p, id, call, h, n, k)
             e(i) == Chunk("MSG", IF i < n THEN "C" ELSE "F", SendToken(p),
                           SNAfter(conn[p].lastSNsent, i), id, Part(call, h, i, n))
  <1>1. m \in Seq(Numbered) /\ m \in Seq(Chunks)
    BY MsgChunksType, NumberedSeq
  <1>2. m = [i \in 1..k |-> e(i)] /\ Len(m) = k
    BY DEF MsgChunks
  <1>3. \A i \in 1..k : i < n => e(i).isFinal # "F"
    BY DEF Chunk
  <1> HIDE DEF e, m
  <1>4. \A i \in 1..k : m[i] = e(i) /\ m[i] \in Chunks
    BY <1>1, <1>2
  <1>5. ASSUME NEW i \in 1..Len(m), NEW j \in 1..Len(m), i < j
        PROVE  <<m[i], m[j]>> \in FinalOnce
    <2>1. i \in 1..k /\ j \in 1..k /\ i < n
      BY <1>2, <1>5
    <2> QED BY <1>3, <1>4, <2>1 DEF FinalOnce
  <1>6. Pairwise(m, FinalOnce)
    BY <1>5 DEF Pairwise
  <1>7. ASSUME NEW aid \in Nat, NEW used \in Nat
        PROVE  Pairwise(Append(m, AbortChunk(p, aid, used)), FinalOnce)
    <2>1. AbortChunk(p, aid, used) \in Chunks
      BY MsgChunksType DEF Chunks
    <2>2. ~Carries(AbortChunk(p, aid, used))
      BY DEF AbortChunk, Chunk, Carries
    <2>3. \A d \in Elems(m) : <<d, AbortChunk(p, aid, used)>> \in FinalOnce
      BY <1>1, <2>1, <2>2, ElemsType DEF FinalOnce
    <2> QED BY <1>1, <1>6, <2>1, <2>3, PairwiseAppend
  <1> QED BY <1>6, <1>7 DEF m

\* The client sends the chunks m of the request r.
SendsFor(r, m) ==
  /\ m \in Seq(Chunks) /\ Pairwise(m, FinalOnce)
  /\ wire'[Client] = (IF Open(Server) THEN wire[Client] \o m ELSE wire[Client])
  /\ wire'[Server] = wire[Server]
  /\ \A x \in Elems(m) : /\ clientNextReqId <= x.id /\ x.id < clientNextReqId' /\ x.id \in Nat
                         /\ Carries(x) => Same(x.body, r)

\* What a request sends is about it.
LEMMA RequestSends ==
  ASSUME Types, NEW r, Pops(r),
         \/ SendRequest(r)
         \/ r.chunks > 1 /\ UnrecordedRequest(r)
         \/ \E k \in 0..(r.chunks - 1) : AbortRequest(r, k)
  PROVE  (\E m : SendsFor(r, m)) /\ r \in Asked
  <1>0. /\ r \in Asked /\ r.call \in Calls \cup {0} /\ r.handle \in Handles \cup {0}
        /\ r.chunks \in Nat /\ r.chunks \in Nat \ {0} /\ clientNextReqId \in Nat
    <2>1. r \in Asked
      BY PopsType
    <2> QED BY <2>1 DEF Asked, Types, ListTypes
  <1> DEFINE id == clientNextReqId
  <1>a. \A n \in Nat, k \in Nat : \A x \in Elems(MsgChunks(Client, id, r.call, r.handle, n, k)) :
          x.id = id /\ Same(x.body, r)
    <2>1. \A n \in Nat, k \in Nat : \A x \in Elems(MsgChunks(Client, id, r.call, r.handle, n, k)) :
            About(x, id, r.call, r.handle) /\ Carries(x)
      BY <1>0, MessageAbout, EndsPeer DEF Types
    <2> QED BY <2>1 DEF About, Same
  <1>d. ASSUME NEW n \in Nat, NEW k \in Nat, NEW aid \in Nat, NEW used \in Nat,
               NEW x \in Elems(Append(MsgChunks(Client, id, r.call, r.handle, n, k),
                                      AbortChunk(Client, aid, used)))
        PROVE  (x.id = id /\ Same(x.body, r)) \/ (x.id = aid /\ ~Carries(x))
    <2> DEFINE m == MsgChunks(Client, id, r.call, r.handle, n, k)
               a == AbortChunk(Client, aid, used)
    <2>0. m \in Seq(Numbered)
      BY <1>0, MsgChunksType, EndsPeer DEF Types
    <2> HIDE DEF m
    <2>1. Elems(Append(m, a)) = Elems(m) \cup {a} /\ a.id = aid /\ ~Carries(a)
      BY <2>0, AbortAbout, EndsPeer DEF Types
    <2>2. \A y \in Elems(m) : y.id = id /\ Same(y.body, r)
      BY <1>a DEF m
    <2> QED BY <2>1, <2>2 DEF m
  <1>b. \A n \in Nat, k \in Nat : k <= n =>
          /\ Pairwise(MsgChunks(Client, id, r.call, r.handle, n, k), FinalOnce)
          /\ \A aid, used \in Nat :
              Pairwise(Append(MsgChunks(Client, id, r.call, r.handle, n, k), AbortChunk(Client, aid, used)), FinalOnce)
    BY <1>0, MessageOnce, EndsPeer DEF Types
  <1>c. ASSUME NEW m \in Seq(Chunks), NEW n \in Nat, SendsAs(Client, m, Sent(conn[Client], n))
        PROVE  /\ wire'[Client] = (IF Open(Server) THEN wire[Client] \o m ELSE wire[Client])
               /\ wire'[Server] = wire[Server]
    BY <1>c, SentEnd, SendsEffect, EndsPeer DEF Types
  <1>1. CASE SendRequest(r)
    <2>1. SendsAs(Client, SentWhole(r), Sent(conn[Client], r.chunks)) /\ SentWhole(r) \in Seq(Chunks)
      BY <1>1, SendEffect
    <2>2. clientNextReqId' = id + 1
      BY <1>1 DEF SendRequest
    <2>3. \A x \in Elems(SentWhole(r)) : x.id = id /\ Same(x.body, r)
      BY <1>0, <1>a DEF SentWhole
    <2>4. \A x \in Elems(SentWhole(r)) : id <= x.id /\ x.id < clientNextReqId' /\ x.id \in Nat
      BY <1>0, <2>2, <2>3
    <2>5. Pairwise(SentWhole(r), FinalOnce)
      <3>1. r.chunks <= r.chunks
        BY <1>0
      <3> QED BY <1>0, <1>b, <3>1 DEF SentWhole
    <2>6. SendsFor(r, SentWhole(r))
      BY <1>0, <1>c, <2>1, <2>3, <2>4, <2>5 DEF SendsFor
    <2> QED BY <1>0, <2>6
  <1>2. CASE r.chunks > 1 /\ UnrecordedRequest(r)
    <2>0. r.chunks - 1 \in Nat /\ r.chunks - 1 <= r.chunks /\ r.chunks + 1 \in Nat /\ id + 1 \in Nat
      BY <1>0
    <2>1. /\ SendsAs(Client, SentUnrecorded(r), Sent(conn[Client], r.chunks + 1))
          /\ SentUnrecorded(r) \in Seq(Chunks) /\ clientNextReqId' = id + 2
      BY <1>2, UnrecordedEffect
    <2>3. \A x \in Elems(SentUnrecorded(r)) :
             (x.id = id /\ Same(x.body, r)) \/ (x.id = id + 1 /\ ~Carries(x))
      BY <1>0, <1>d, <2>0, SMTT(20) DEF SentUnrecorded
    <2>4. \A x \in Elems(SentUnrecorded(r)) : id <= x.id /\ x.id < clientNextReqId' /\ x.id \in Nat
      BY <1>0, <2>1, <2>3
    <2>5. Pairwise(SentUnrecorded(r), FinalOnce)
      BY <1>0, <1>b, <2>0 DEF SentUnrecorded
    <2>6. SendsFor(r, SentUnrecorded(r))
      BY <1>c, <2>0, <2>1, <2>3, <2>4, <2>5 DEF SendsFor
    <2> QED BY <1>0, <2>6
  <1>3. ASSUME NEW k \in 0..(r.chunks - 1), AbortRequest(r, k) PROVE \E m : SendsFor(r, m)
    <2>0. k \in Nat /\ k <= r.chunks /\ k + 1 \in Nat
      BY <1>0
    <2>1. SendsAs(Client, SentPart(r, k), Sent(conn[Client], k + 1)) /\ SentPart(r, k) \in Seq(Chunks)
      BY <1>3, AbortEffect
    <2>2. clientNextReqId' = id + 1
      BY <1>3 DEF AbortRequest
    <2>3. \A x \in Elems(SentPart(r, k)) : x.id = id /\ (Carries(x) => Same(x.body, r))
      BY <1>0, <1>d, <2>0 DEF SentPart
    <2>4. \A x \in Elems(SentPart(r, k)) : id <= x.id /\ x.id < clientNextReqId' /\ x.id \in Nat
      BY <1>0, <2>2, <2>3
    <2>5. Pairwise(SentPart(r, k), FinalOnce)
      BY <1>0, <1>b, <2>0 DEF SentPart
    <2>6. SendsFor(r, SentPart(r, k))
      BY <1>c, <2>0, <2>1, <2>3, <2>4, <2>5 DEF SendsFor
    <2> QED BY <2>6
  <1> QED BY <1>0, <1>1, <1>2, <1>3

\* A response that the services get.
IsResponse(e) == e.type = "SC_SERVICE_RCV_MSG"

\* A request of the services is sent, whole or in part.
LEMMA RequestCalls ==
  ASSUME Types, TimerInv, IdsInv, ExecInv, ListKept, NEW r \in Asked, NEW m, Pops(r), SendsFor(r, m),
         Open(Client), \A n \in Waited' : n \in Waited \/ Same(r, n),
         \A e \in Elems(toSvc') : IsResponse(e) => e \in Elems(toSvc)
  PROVE  IdsInv' /\ ExecInv'
  <1>1. /\ toSc \in Seq(Asked) /\ wire[Client] \in Seq(Chunks) /\ m \in Seq(Chunks)
        /\ toSc # <<>> /\ toSc' = Tail(toSc) /\ r = Head(toSc)
        /\ UNCHANGED <<todo, status, executed>> /\ wire'[Server] = wire[Server]
    BY EndsPeer DEF Pops, SendsFor, Types, SvcTypes, ChanTypes
  <1>2. \A x \in Elems(wire'[Client]) : x \in Elems(wire[Client]) \/ x \in Elems(m)
    <2>1. wire'[Client] = (IF Open(Server) THEN wire[Client] \o m ELSE wire[Client])
      BY DEF SendsFor
    <2> QED BY <1>1, <2>1, SendsGains, EndsPeer DEF Types
  <1>3. \A x \in Elems(m) : NewChunk(x)
    <2> SUFFICES ASSUME NEW x \in Elems(m), NEW n \in Waited', x.id = n.id, Carries(x)
                 PROVE  Same(x.body, n)
      BY DEF NewChunk, SendsFor
    <2>1. Same(x.body, r) /\ clientNextReqId <= x.id /\ x.id \in Nat
      BY DEF SendsFor
    <2>2. CASE n \in Waited
      <3>1. n.id < clientNextReqId /\ clientNextReqId \in Nat
        BY <2>2 DEF TimerInv, IdsPast, Types, ListTypes
      <3> QED BY <2>1, <3>1
    <2>3. CASE Same(r, n)
      BY <2>1, <2>3 DEF Same
    <2> QED BY <2>2, <2>3
  <1>4. IdsInv'
    <2>1. \A p \in Ends : \A x \in Elems(wire'[p]) : x \in Elems(wire[p]) \/ NewChunk(x)
      BY <1>1, <1>2, <1>3, EndsPeer
    <2>2. \A q \in todo' : q \in todo \/ NewTodo(q)
      BY <1>1
    <2> QED BY <2>1, <2>2, IdsKept DEF ListKept
  <1>5. /\ r \in Elems(toSc) /\ OnTheWay(r.call) /\ Elems(toSc') \subseteq Elems(toSc) /\ RequestsApart'
        /\ \A s \in Elems(toSc') : s.call # r.call
    <2>1. Pairwise(toSc, DistinctCalls)
      BY DEF ExecInv, RequestsApart
    <2>2. Pairwise(Tail(toSc), DistinctCalls) /\ \A s \in Elems(Tail(toSc)) : <<r, s>> \in DistinctCalls
      BY <1>1, <2>1, PairwiseTail
    <2>3. r \in Elems(toSc) /\ Elems(Tail(toSc)) \subseteq Elems(toSc)
      BY <1>1, ElemsTail
    <2>4. OnTheWay(r.call)
      BY <2>3 DEF ExecInv, RequestsNew
    <2>5. \A s \in Elems(toSc') : s.call # r.call
      BY <1>1, <2>2 DEF DistinctCalls
    <2> QED BY <1>1, <2>2, <2>3, <2>4, <2>5 DEF RequestsApart
  <1>6. \A c : (Executed(c) <=> Executed(c)') /\ (OnTheWay(c) <=> OnTheWay(c)')
    BY <1>1 DEF Executed, OnTheWay
  <1>7. \A x \in Elems(m) : Carries(x) => x.body.call = r.call
    BY DEF SendsFor, Same
  <1>8. RequestsNew' /\ ChunksNew'
    BY <1>2, <1>5, <1>6, <1>7 DEF ExecInv, RequestsNew, ChunksNew
  <1>9. ChunksOnce'
    <2>1. \A d \in Elems(wire[Client]), e \in Elems(m) : <<d, e>> \in FinalOnce
      <3>1. Elems(wire[Client]) \subseteq Chunks /\ Elems(m) \subseteq Chunks
        BY <1>1, ElemsType
      <3>2. \A d \in Elems(wire[Client]) : Carries(d) => d.body.call # r.call
        BY <1>5 DEF ExecInv, RequestsNew
      <3> QED BY <1>7, <3>1, <3>2 DEF FinalOnce
    <2>2. Pairwise(wire[Client], FinalOnce) /\ Pairwise(m, FinalOnce)
      BY DEF ExecInv, ChunksOnce, SendsFor
    <2>3. Pairwise(wire[Client] \o m, FinalOnce)
      BY <1>1, <2>1, <2>2, PairwiseConcat
    <2> QED BY <2>2, <2>3 DEF ChunksOnce, SendsFor
  <1>10. OnceAtMost' /\ AnswersDue'
    BY <1>1, <1>6 DEF ExecInv, OnceAtMost, AnswersDue, IsResponse
  <1> QED BY <1>4, <1>5, <1>8, <1>9, <1>10 DEF ExecInv

\* The server answers with the chunks m.
AnswersWith(q, m) ==
  /\ m \in Seq(Chunks)
  /\ wire'[Server] = (IF Open(Client) THEN wire[Server] \o m ELSE wire[Server])
  /\ wire'[Client] = wire[Client] /\ (Open(Client)' => Open(Client))
  /\ \A x \in Elems(m) : x.id = q.id /\ (Carries(x) => Same(x.body, q))

\* What an answer sends is about its request.
LEMMA RespondSends ==
  ASSUME Types, NEW q, NEW n \in Sizes, Respond(q, n)
  PROVE  \E m : AnswersWith(q, m)
  <1>0. /\ q \in Todo /\ n \in Nat /\ n \in Nat \ {0}
        /\ q.id \in Nat /\ q.call \in Calls \cup {0} /\ q.handle \in Handles \cup {0}
    <2>1. q \in Todo /\ n \in Nat \ {0}
      BY RespondEffect
    <2> QED BY <2>1 DEF Todo
  <1>a. \A k \in Nat : \A x \in Elems(MsgChunks(Server, q.id, q.call, q.handle, n, k)) :
          x.id = q.id /\ Same(x.body, q)
    <2>1. \A k \in Nat : \A x \in Elems(MsgChunks(Server, q.id, q.call, q.handle, n, k)) :
            About(x, q.id, q.call, q.handle) /\ Carries(x)
      BY <1>0, MessageAbout, EndsPeer DEF Types
    <2> QED BY <2>1 DEF About, Same
  <1>b. ASSUME NEW m \in Seq(Chunks), NEW k \in Nat, SendsAs(Server, m, Sent(conn[Server], k)),
               \A x \in Elems(m) : x.id = q.id /\ (Carries(x) => Same(x.body, q))
        PROVE  AnswersWith(q, m)
    <2>1. /\ wire'[Server] = (IF Open(Client) THEN wire[Server] \o m ELSE wire[Server])
          /\ wire'[Client] = wire[Client] /\ conn'[Client] = conn[Client]
      BY <1>b, SentEnd, SendsEffect, EndsPeer DEF Types
    <2> QED BY <1>b, <2>1 DEF AnswersWith, Open
  <1>1. CASE SendsAs(Server, WholeAnswer(q, n), Sent(conn[Server], n)) /\ WholeAnswer(q, n) \in Seq(Chunks)
    BY <1>0, <1>1, <1>a, <1>b DEF WholeAnswer
  <1>2. ASSUME NEW k \in 0..(n - 1), SendsAs(Server, GivenUp(q, n, k), Sent(conn[Server], k + 1)),
               GivenUp(q, n, k) \in Seq(Chunks)
        PROVE  \E m : AnswersWith(q, m)
    <2> DEFINE m == MsgChunks(Server, q.id, q.call, q.handle, n, k)
               a == AbortChunk(Server, q.id, k)
    <2>0. k \in Nat /\ k + 1 \in Nat /\ m \in Seq(Numbered)
      <3>1. k \in Nat /\ k + 1 \in Nat
        BY <1>0
      <3> QED BY <1>0, <3>1, MsgChunksType, EndsPeer DEF Types
    <2>1. \A x \in Elems(m) : x.id = q.id /\ Same(x.body, q)
      BY <1>a, <2>0
    <2>2. GivenUp(q, n, k) = Append(m, a)
      BY DEF GivenUp
    <2> HIDE DEF m
    <2>3. Elems(Append(m, a)) = Elems(m) \cup {a} /\ a.id = q.id /\ ~Carries(a)
      BY <1>0, <2>0, AbortAbout, EndsPeer DEF Types
    <2>4. \A x \in Elems(GivenUp(q, n, k)) : x.id = q.id /\ (Carries(x) => Same(x.body, q))
      BY <2>1, <2>2, <2>3
    <2> QED BY <1>2, <1>b, <2>0, <2>4
  <1> QED BY <1>1, <1>2, RespondEffect

\* The server's services answer.
LEMMA RespondCalls ==
  ASSUME Types, IdsInv, ExecInv, ListKept, NEW q, NEW n \in Sizes, Respond(q, n)
  PROVE  IdsInv' /\ ExecInv'
  <1>1. PICK m : AnswersWith(q, m)
    BY RespondSends
  <1>2. /\ q \in todo /\ todo' = todo \ {q}
        /\ UNCHANGED <<clientNextReqId, sentRequestIds, toSc, toSvc, status, executed>>
        /\ wire'[Client] = wire[Client] /\ wire[Server] \in Seq(Chunks) /\ m \in Seq(Chunks)
    BY <1>1, EndsPeer DEF Respond, AnswersWith, Types, ChanTypes
  <1>3. \A x \in Elems(wire'[Server]) : x \in Elems(wire[Server]) \/ x \in Elems(m)
    <2>1. wire'[Server] = (IF Open(Client) THEN wire[Server] \o m ELSE wire[Server])
      BY <1>1 DEF AnswersWith
    <2> QED BY <1>2, <2>1, SendsGains, EndsPeer, ZenonT(60) DEF Types
  <1>4. \A x \in Elems(m) : NewChunk(x)
    <2>1. Waited' = Waited
      BY <1>2 DEF Waited
    <2>2. Open(Client)' => q.id < clientNextReqId'
      BY <1>1, <1>2 DEF IdsInv, IdsBelow, AnswersWith
    <2>3. \A w \in Waited : q.id = w.id => Same(q, w)
      BY <1>2 DEF IdsInv, TodoMatch
    <2> QED BY <1>1, <2>1, <2>2, <2>3 DEF NewChunk, AnswersWith, Same
  <1>5. IdsInv'
    <2>1. \A p \in Ends : \A x \in Elems(wire'[p]) : x \in Elems(wire[p]) \/ NewChunk(x)
      BY <1>2, <1>3, <1>4, EndsPeer
    <2>2. \A s \in todo' : s \in todo \/ NewTodo(s)
      BY <1>2
    <2> QED BY <2>1, <2>2, IdsKept DEF ListKept
  <1>6. \A x \in Elems(m) : Carries(x) => Executed(x.body.call)
    BY <1>1, <1>2 DEF AnswersWith, Same, ExecInv, AnswersDue
  <1>7. QuietOn(Client) /\ StatusKept
    BY <1>2 DEF QuietOn, StatusKept
  <1>8. /\ \A s \in todo' : Executed(s.call)
        /\ \A x \in Elems(wire'[Server]) : Carries(x) => Executed(x.body.call)
        /\ \A e \in Elems(toSvc') : e.type = "SC_SERVICE_RCV_MSG" => Executed(e.call)
    BY <1>2, <1>3, <1>6 DEF ExecInv, AnswersDue
  <1> QED BY <1>2, <1>5, <1>7, <1>8, ExecKept

\* The first chunk of a message is about the same as its last.
LEMMA TakenFirst ==
  ASSUME Types, StreamInv, NEW p \in Ends, Open(p), wire[Peer(p)] # <<>>, NEW c \in Numbered,
         c = Head(wire[Peer(p)]), Carries(c)
  PROVE  Same(Message(p, c)[1], c.body)
  <1> DEFINE m == Message(p, c)
  <1>1. DirInv(Peer(p)) /\ Peer(Peer(p)) = p /\ Peer(p) \in Ends
    BY EndsPeer DEF StreamInv, Dirs
  <1>2. Parts(Kept(p)) /\ Follows(Prev(p), wire[Peer(p)], Link)
    BY <1>1 DEF DirInv
  <1>3. Fits(Prev(p), c)
    <2>1. wire[Peer(p)][1] = c
      BY <1>1 DEF Types, ChanTypes
    <2>2. <<Prev(p), c>> \in Link
      BY <1>2, <2>1 DEF Follows
    <2> QED BY <2>2 DEF Link
  <1>4. Parts(m) /\ Len(m) = c.body.part
    BY <1>2, <1>3, PartsTaken DEF Types
  <1>5. m = Append(Kept(p), c.body) /\ Kept(p) \in Seq(Body) /\ c.body \in Body
    BY DEF Message, Kept, Types, ChanTypes, Connection, Numbered
  <1>6. Len(m) \in 1..Len(m) /\ m[Len(m)] = c.body
    BY <1>5
  <1> HIDE DEF m
  <1>7. c.body = Part(m[1].call, m[1].handle, Len(m), m[1].of)
    BY <1>4, <1>6 DEF Parts
  <1> QED BY <1>7 DEF Part, Same, m

\* The server's services get a request.
LEMMA ServerRequestCalls ==
  ASSUME Types, TimerInv, StreamInv, IdsInv, ExecInv, ListKept, NEW c, ServerGets(c), ServerRequest(c)
  PROVE  /\ IdsInv' /\ ExecInv' /\ OnTheWay(c.body.call)
         /\ executed' = [executed EXCEPT ![c.body.call] = 1] /\ status' = status
  <1>1. /\ Open(Server) /\ wire[Client] # <<>> /\ c = Head(wire[Client]) /\ wire' = Consumed(Client)
        /\ c.type = "MSG" /\ c.isFinal = "F"
        /\ UNCHANGED <<clientNextReqId, sentRequestIds, toSc, toSvc, status>>
    BY DEF ServerGets, ServerRequest
  <1>2. c \in Numbered /\ c.id \in Nat /\ Carries(c)
    BY <1>1, ServerGetsType DEF Carries
  <1>3. /\ wire[Client] \in Seq(Chunks) /\ wire'[Client] = Tail(wire[Client]) /\ wire'[Server] = wire[Server]
    BY <1>1, EndsPeer DEF Consumed, Types, ChanTypes
  <1>4. c \in Elems(wire[Client]) /\ Elems(wire'[Client]) \subseteq Elems(wire[Client])
    BY <1>1, <1>3, ElemsTail
  <1> DEFINE f == Message(Server, c)[1]
             q == [id |-> c.id, handle |-> f.handle, call |-> f.call]
  <1>5. Same(f, c.body)
    BY <1>1, <1>2, TakenFirst, EndsPeer
  <1>6. todo' = todo \cup {q} /\ executed' = [executed EXCEPT ![f.call] = @ + 1]
    BY DEF ServerRequest
  <1>7. q.id = c.id /\ q.call = f.call /\ q.handle = f.handle /\ Same(q, c.body)
    BY <1>5 DEF Same
  <1> HIDE DEF f, q
  <1>8. conn'[Client] = conn[Client] /\ (Open(Client)' <=> Open(Client)) /\ Waited' = Waited
    BY <1>1, ServerIdle DEF Open, Waited
  <1>9. IdsInv'
    <2>1. \A p \in Ends : \A x \in Elems(wire'[p]) : x \in Elems(wire[p]) \/ NewChunk(x)
      BY <1>3, <1>4, EndsPeer
    <2>2. NewTodo(q)
      <3>1. Open(Client)' => q.id < clientNextReqId'
        BY <1>1, <1>4, <1>7, <1>8, EndsPeer DEF IdsInv, IdsBelow
      <3>2. \A n \in Waited : q.id = n.id => Same(q, n)
        <4>1. \A n \in Waited : c.id = n.id => Same(c.body, n)
          BY <1>2, <1>4, EndsPeer DEF IdsInv, ChunksMatch
        <4> QED BY <1>7, <4>1 DEF Same
      <3> QED BY <1>8, <3>1, <3>2 DEF NewTodo
    <2>3. \A s \in todo' : s \in todo \/ NewTodo(s)
      BY <1>6, <2>2
    <2> QED BY <2>1, <2>3, IdsKept DEF ListKept
  <1> DEFINE k == c.body.call
  <1>10. OnTheWay(k) /\ f.call = k /\ q.call = k
    BY <1>2, <1>4, <1>5, <1>7 DEF ExecInv, ChunksNew, Same
  <1>11. executed' = [executed EXCEPT ![k] = 1] /\ executed \in [Calls -> Nat] /\ k \in Calls
    <2>1. executed[k] = 0 /\ k \in Calls /\ executed \in [Calls -> Nat]
      BY <1>10 DEF OnTheWay, Types, SvcTypes
    <2> QED BY <1>6, <1>10, <2>1
  <1> HIDE DEF k
  <1>12. /\ \A d : Executed(d) => Executed(d)'
         /\ Executed(k)'
         /\ \A d : OnTheWay(d) /\ d # k => OnTheWay(d)'
    BY <1>1, <1>11 DEF Executed, OnTheWay
  <1>13. /\ Pairwise(Tail(wire[Client]), FinalOnce)
         /\ \A x \in Elems(Tail(wire[Client])) : <<c, x>> \in FinalOnce
    BY <1>1, <1>3, PairwiseTail DEF ExecInv, ChunksOnce
  <1>14. \A x \in Elems(wire'[Client]) : Carries(x) => x.body.call # k
    BY <1>1, <1>2, <1>3, <1>13 DEF FinalOnce, k
  <1>15. \A r \in Elems(toSc) : r.call # k
    BY <1>2, <1>4 DEF ExecInv, RequestsNew, k
  <1>16. RequestsNew' /\ ChunksNew' /\ RequestsApart'
    BY <1>1, <1>4, <1>12, <1>14, <1>15 DEF ExecInv, RequestsNew, ChunksNew, RequestsApart
  <1>17. ChunksOnce'
    BY <1>3, <1>13 DEF ChunksOnce
  <1>18. AnswersDue'
    BY <1>1, <1>3, <1>6, <1>10, <1>12 DEF ExecInv, AnswersDue, k
  <1>19. OnceAtMost'
    BY <1>1, <1>10, <1>11 DEF ExecInv, OnceAtMost, OnTheWay, k
  <1> QED BY <1>1, <1>9, <1>10, <1>11, <1>16, <1>17, <1>18, <1>19 DEF ExecInv, k

-----------------------------------------------------------------------------
(* The list of requests as a set.                                          *)

\* An identifier is the identifier of one request.
LEMMA UniqueCtx ==
  ASSUME Types, TimerInv, NEW m \in Waited
  PROVE  /\ m \in Ctx /\ m.id \in Nat
         /\ \E i \in 1..Len(sentRequestIds) : sentRequestIds[i].id = m.id
         /\ CtxOf(m.id) = m
  <1>0. sentRequestIds \in Seq(Ctx)
    BY DEF Types, ListTypes
  <1>1. sentRequestIds \in Seq(Ctx) /\ Len(sentRequestIds) \in Nat
    BY <1>0
  <1>2. PICK i \in 1..Len(sentRequestIds) : m = sentRequestIds[i]
    BY DEF Waited, Elems
  <1>3. m \in Ctx /\ m.id \in Nat
    <2>1. m \in Ctx
      BY <1>1, <1>2
    <2> QED BY <2>1 DEF Ctx
  <1>4. CtxIndex(m.id) \in 1..Len(sentRequestIds) /\ CtxOf(m.id) = sentRequestIds[CtxIndex(m.id)]
        /\ CtxOf(m.id).id = m.id
    BY <1>2, <1>3, CtxTypes DEF Types
  <1> DEFINE j == CtxIndex(m.id)
  <1>5. \A a, b \in 1..Len(sentRequestIds) : a < b => sentRequestIds[a].id # sentRequestIds[b].id
    BY DEF TimerInv, IdsUnique, Pairwise, DistinctIds
  <1>6. ~(i < j) /\ ~(j < i)
    BY <1>2, <1>4, <1>5
  <1>7. i = j
    BY <1>1, <1>4, <1>6
  <1> QED BY <1>2, <1>3, <1>4, <1>7

\* The other requests.
LEMMA OthersWaited ==
  ASSUME Types, TimerInv, NEW id \in Nat, \E i \in 1..Len(sentRequestIds) : sentRequestIds[i].id = id,
         sentRequestIds' = OtherCtxs(id)
  PROVE  Waited' = Waited \ {CtxOf(id)} /\ CtxOf(id) \in Waited /\ CtxOf(id).id = id
  <1>1. /\ CtxIndex(id) \in 1..Len(sentRequestIds) /\ CtxOf(id) = sentRequestIds[CtxIndex(id)]
        /\ CtxOf(id).id = id /\ CtxOf(id) \in Waited
        /\ OtherCtxs(id) = Without(sentRequestIds, CtxIndex(id))
        /\ Waited = Waited' \cup {CtxOf(id)} /\ sentRequestIds \in Seq(Ctx)
    BY CtxTypes DEF Types, ListTypes, Waited
  <1>2. \A n \in Waited' : <<CtxOf(id), n>> \in DistinctIds \/ <<n, CtxOf(id)>> \in DistinctIds
    BY <1>1, PairwiseOut DEF TimerInv, IdsUnique, Waited
  <1>3. CtxOf(id) \notin Waited'
    BY <1>2 DEF DistinctIds
  <1> QED BY <1>1, <1>3

\* The timer of a request that has timed out is gone.
ExpiredOnce == \A m \in Waited : m.timeoutExpired => m.id \notin Timers

\* Every step keeps that.
LEMMA ExpiredStep ==
  ASSUME Types, TimerInv, ExpiredOnce, [Next]_vars
  PROVE  ExpiredOnce'
  <1>0. /\ Types' /\ clientNextReqId \in Nat
        /\ \A m \in Waited : m.id \in Nat /\ m.id # Renew /\ Open(Client) /\ m.id < clientNextReqId
    <2>1. \A m \in Waited : m.id \in Nat
      BY UniqueCtx
    <2>2. ~Open(Client) => Waited = {}
      BY ElemsSmall DEF TimerInv, ClosedIsQuiet, Waited
    <2>3. Open(Client) => \A m \in Waited : m.id # Renew /\ m.id < clientNextReqId
      BY <2>1 DEF TimerInv, IdsPast, Renew
    <2>4. Types' /\ clientNextReqId \in Nat
      BY TypesStep DEF Types, ListTypes
    <2> QED BY <2>1, <2>2, <2>3, <2>4
  <1>1. CASE \A n \in Waited' : n \in Waited /\ Timers' \subseteq Timers \cup {Renew}
    BY <1>0, <1>1 DEF ExpiredOnce
  <1>2. CASE Idle
    BY <1>1, <1>2 DEF Idle, Waited, Timers
  <1>3. ASSUME NEW m \in Ctx, Waits(m) PROVE ExpiredOnce'
    <2>1. Waited' = Waited \cup {m}
      <3>1. sentRequestIds \in Seq(Ctx) /\ sentRequestIds' = Append(sentRequestIds, m)
        BY <1>3 DEF Types, ListTypes, Waits
      <3> QED BY <3>1, ElemsAppend DEF Waited
    <2>2. m.id = clientNextReqId /\ ~m.timeoutExpired /\ Timers' \subseteq Timers \cup {m.id}
      BY <1>3 DEF Waits, Timers
    <2>3. \A n \in Waited : n.id # m.id
      BY <1>0, <2>2
    <2> QED BY <1>3, <2>1, <2>2, <2>3 DEF ExpiredOnce
  <1>4. ASSUME NEW id \in Nat, Settles(id), \E i \in 1..Len(sentRequestIds) : sentRequestIds[i].id = id
        PROVE  ExpiredOnce'
    <2>1. Waited' \subseteq Waited
      BY <1>4, OthersWaited DEF Settles
    <2>2. Timers' \subseteq Timers \cup {Renew}
      BY <1>4 DEF Settles, Timers
    <2> QED BY <1>1, <2>1, <2>2
  <1>5. CASE (\E t \in running : TimerExpires(t)) \/ LateRenewal \/ UNCHANGED vars
    BY <1>1, <1>5 DEF TimerExpires, LateRenewal, vars, chanVars, Waited, Timers
  <1>6. ASSUME NEW t \in posted, TreatRequestTimeout(t) PROVE ExpiredOnce'
    <2>1. sentRequestIds' = MarkExpired(t) /\ Timers' \subseteq Timers /\ t \notin Timers'
      BY <1>6 DEF TreatRequestTimeout, Timers, TimerInv, TimersApart
    <2>2. \A n \in Waited' : \E m \in Waited : n.id = m.id /\ n.timeoutExpired = (m.timeoutExpired \/ m.id = t)
      BY <2>1, MarkedElems DEF Types, Waited, Marked
    <2> QED BY <2>1, <2>2 DEF ExpiredOnce
  <1>7. ASSUME NEW ev, NEW used, NEW farewell \in BOOLEAN, ClientCloses(ev, used, farewell)
        PROVE  ExpiredOnce'
    <2>1. Waited' = {}
      BY <1>7, ClientClosesEffect, ElemsSmall DEF Waited
    <2> QED BY <2>1 DEF ExpiredOnce
  <1>8. ASSUME NEW c, ClientGets(c), ClientChunk(c) PROVE ExpiredOnce'
    <2>1. c.id \in Nat /\ \E i \in 1..Len(sentRequestIds) : sentRequestIds[i].id = c.id
      <3>1. Accepted(Client, c) /\ c.type # "ERR"
        BY <1>8 DEF ClientChunk
      <3> QED BY <1>8, <3>1, ClientGetsType
    <2>2. Waited' = Waited
      BY <1>8, <2>1, CtxTypes DEF Types, ClientChunk, Waited
    <2>3. Timers' = Timers
      BY <1>8 DEF ClientChunk, ClientGets, Timers
    <2> QED BY <1>1, <2>2, <2>3
  <1>9. CASE (\E r : Pops(r) /\ SendRequest(r)) \/ AsksRenewal
    BY <1>3, <1>9, WaitsSteps
  <1>10. CASE Step
    BY <1>2, <1>4, <1>5, <1>6, <1>7, <1>8, <1>9, <1>10, IdleSteps, SettlesSteps DEF Step
  <1> QED BY <1>5, <1>10, NextSteps

-----------------------------------------------------------------------------
(* The owners of the request handles.                                      *)

\* A request in the queue, on the list or told of, by its handle and call.
OwnerOf(x) == <<x.handle, x.call>>
Owners(S) == {OwnerOf(x) : x \in S}
Waiting == {m \in Waited : m.handle # OPN /\ ~m.timeoutExpired}
Down == Owners(Elems(toSc))
Wait == Owners(Waiting)
Up == Owners(Elems(toSvc))
IsLost(e) == e.type = "SC_DISCONNECTED"
IsNews(e) == e.type \in {"SC_SERVICE_RCV_MSG", "SC_REQUEST_TIMEOUT"}

Owns(o) ==
  o[1] \in Handles /\ o[2] \in Calls /\ context[o[1]] = o[2] /\ status[o[2]] = "pending"
DistinctOwners == {e \in Events \X Events : OwnerOf(e[1]) # OwnerOf(e[2])}
\* A response or a timeout comes before any other event of its handle could
\* free it; a failure may come again when the channel is closed.
NotBefore == {e \in Events \X Events : IsNews(e[2]) => ~IsLost(e[1]) /\ e[1].handle # e[2].handle}

\* The handles in use, and the calls: a call that is waited for has a handle; a
\* call that failed may have one too, that was not freed.
ContextSound ==
  /\ \A h \in Handles : context[h] # 0 => status[context[h]] \in {"pending", "failed"}
  /\ \A g, h \in Handles : context[g] = context[h] /\ context[g] # 0 => g = h
  /\ \A c \in Calls : status[c] = "pending" => \E h \in Handles : context[h] = c
ChannelKnown ==
  /\ Open(Client) => channel
  /\ ~channel => \A h \in Handles : context[h] = 0
\* The events for the services.
EventsSound ==
  /\ \A e \in Elems(toSvc) : IsNews(e) => Owns(OwnerOf(e))
  /\ \A e \in Elems(toSvc) : ~IsLost(e) => e.handle \in Handles
  /\ Pairwise(toSvc, NotBefore)
\* As long as the channel is open, what is on its way owns its handle, alone.
OneOwner ==
  Open(Client) =>
    /\ \A e \in Elems(toSvc) : ~IsLost(e)
    /\ \A o \in Down \cup Wait \cup Up : Owns(o)
    /\ Down \cap Wait = {} /\ Down \cap Up = {} /\ Wait \cap Up = {}
    /\ \A m, n \in Waiting : OwnerOf(m) = OwnerOf(n) => m = n
    /\ Pairwise(toSvc, DistinctOwners)
\* And a handle in use has an owner at any time, unless the services are about
\* to free it or its call has failed already.
Accounted ==
  \A h \in Handles : context[h] # 0 =>
    \/ \E e \in Elems(toSvc) : IsLost(e)
    \/ <<h, context[h]>> \in Down \cup Wait \cup Up
    \/ status[context[h]] = "failed"

OwnInv == ContextSound /\ ChannelKnown /\ EventsSound /\ OneOwner /\ Accounted

\* A request leaves the queue.
LEMMA PopsDown ==
  ASSUME Types, ExecInv, NEW r, Pops(r)
  PROVE  /\ Down = Down' \cup {OwnerOf(r)} /\ OwnerOf(r) \notin Down'
         /\ r \in Asked /\ UNCHANGED <<context, status, channel>>
  <1>1. toSc \in Seq(Asked) /\ toSc # <<>> /\ toSc' = Tail(toSc) /\ r = Head(toSc)
    BY DEF Types, SvcTypes, Pops
  <1>2. Elems(toSc) = {r} \cup Elems(toSc')
    BY <1>1, ElemsTail
  <1>3. \A s \in Elems(toSc') : s.call # r.call
    <2>1. \A s \in Elems(Tail(toSc)) : <<r, s>> \in DistinctCalls
      BY <1>1, PairwiseTail DEF ExecInv, RequestsApart
    <2> QED BY <1>1, <2>1 DEF DistinctCalls
  <1>4. OwnerOf(r) \notin Down'
    BY <1>3 DEF Down, Owners, OwnerOf
  <1>5. Down = Down' \cup {OwnerOf(r)}
    BY <1>2 DEF Down, Owners
  <1> QED BY <1>1, <1>4, <1>5 DEF Pops

\* An event is posted.
LEMMA EventAdded ==
  ASSUME Types, OwnInv, UNCHANGED <<context, status>>, NEW e \in Events, ~IsLost(e), e.handle \in Handles,
         toSvc' = Append(toSvc, e), IsNews(e) => Open(Client),
         Open(Client) => Owns(OwnerOf(e)) /\ OwnerOf(e) \notin Up
  PROVE  /\ Up' = Up \cup {OwnerOf(e)} /\ EventsSound' /\ Elems(toSvc) \subseteq Elems(toSvc')
         /\ Open(Client) => /\ \A d \in Elems(toSvc') : ~IsLost(d)
                            /\ Pairwise(toSvc', DistinctOwners)
  <1>1. toSvc \in Seq(Events) /\ Elems(toSvc) \subseteq Events
    BY ElemsType DEF Types, SvcTypes
  <1>2. Elems(toSvc') = Elems(toSvc) \cup {e}
    BY <1>1, ElemsAppend
  <1>3. Up' = Up \cup {OwnerOf(e)}
    BY <1>2 DEF Up, Owners
  <1>4. \A o : Owns(o)' <=> Owns(o)
    BY DEF Owns
  <1>5. Open(Client) => \A d \in Elems(toSvc) : OwnerOf(d) # OwnerOf(e) /\ Owns(OwnerOf(d)) /\ ~IsLost(d)
    BY DEF Up, Owners, OwnInv, OneOwner
  <1>6. Open(Client) => \A d \in Elems(toSvc) : d.handle # e.handle
    BY <1>5 DEF OwnerOf, Owns
  <1>7. Pairwise(toSvc', NotBefore)
    <2>1. \A d \in Elems(toSvc) : <<d, e>> \in NotBefore
      BY <1>1, <1>5, <1>6 DEF NotBefore
    <2> QED BY <1>1, <2>1, PairwiseAppend DEF OwnInv, EventsSound
  <1>8. Open(Client) => Pairwise(toSvc', DistinctOwners)
    <2> HAVE Open(Client)
    <2>1. \A d \in Elems(toSvc) : <<d, e>> \in DistinctOwners
      BY <1>1, <1>5 DEF DistinctOwners
    <2> QED BY <1>1, <2>1, PairwiseAppend DEF OwnInv, OneOwner
  <1>9. EventsSound'
    BY <1>2, <1>4, <1>7 DEF OwnInv, EventsSound
  <1> QED BY <1>2, <1>3, <1>5, <1>8, <1>9

\* The owners stay the same, wherever they are.
LEMMA OwnersMove ==
  ASSUME OwnInv, UNCHANGED <<context, status, channel>>, Open(Client)' <=> Open(Client),
         Down' \cup Wait' \cup Up' = Down \cup Wait \cup Up, EventsSound',
         Elems(toSvc) \subseteq Elems(toSvc'),
         Open(Client) =>
           /\ \A d \in Elems(toSvc') : ~IsLost(d)
           /\ Pairwise(toSvc', DistinctOwners)
           /\ Down' \cap Wait' = {} /\ Down' \cap Up' = {} /\ Wait' \cap Up' = {}
           /\ \A m, n \in Waiting' : OwnerOf(m) = OwnerOf(n) => m = n
  PROVE  OwnInv'
  <1>1. \A o : Owns(o)' <=> Owns(o)
    BY DEF Owns
  <1>2. ContextSound' /\ ChannelKnown'
    BY DEF OwnInv, ContextSound, ChannelKnown
  <1>3. OneOwner'
    BY <1>1 DEF OwnInv, OneOwner
  <1>4. Accounted'
    BY DEF OwnInv, Accounted
  <1> QED BY <1>2, <1>3, <1>4 DEF OwnInv

\* Nothing happens to the owners.
LEMMA OwnersStay ==
  ASSUME OwnInv, UNCHANGED <<context, status, channel, toSvc, toSc>>, Open(Client)' <=> Open(Client),
         Waiting' = Waiting
  PROVE  OwnInv'
  <1>1. Down' = Down /\ Wait' = Wait /\ Up' = Up /\ EventsSound' /\ Elems(toSvc') = Elems(toSvc)
    BY DEF Down, Wait, Up, EventsSound, OwnInv, Owns
  <1>2. Open(Client) => /\ \A d \in Elems(toSvc') : ~IsLost(d)
                        /\ Pairwise(toSvc', DistinctOwners)
                        /\ Down' \cap Wait' = {} /\ Down' \cap Up' = {} /\ Wait' \cap Up' = {}
                        /\ \A m, n \in Waiting' : OwnerOf(m) = OwnerOf(n) => m = n
    BY <1>1 DEF OwnInv, OneOwner
  <1> QED BY <1>1, <1>2, OwnersMove

\* A request goes from the queue to the list.
LEMMA OwnersSent ==
  ASSUME Types, ExecInv, OwnInv, NEW r, Pops(r), Open(Client), Open(Client)', toSvc' = toSvc, NEW m,
         Waiting' = Waiting \cup {m}, OwnerOf(m) = OwnerOf(r)
  PROVE  OwnInv'
  <1>1. /\ Down = Down' \cup {OwnerOf(r)} /\ OwnerOf(r) \notin Down'
        /\ UNCHANGED <<context, status, channel>>
    BY PopsDown
  <1>2. Wait' = Wait \cup {OwnerOf(r)} /\ Up' = Up /\ EventsSound' /\ Elems(toSvc') = Elems(toSvc)
    BY <1>1 DEF Wait, Owners, Up, EventsSound, OwnInv, Owns
  <1>3. /\ Down \cap Wait = {} /\ Down \cap Up = {} /\ Wait \cap Up = {}
        /\ \A a, b \in Waiting : OwnerOf(a) = OwnerOf(b) => a = b
        /\ \A d \in Elems(toSvc) : ~IsLost(d)
        /\ Pairwise(toSvc, DistinctOwners)
    BY DEF OwnInv, OneOwner
  <1>4. \A a \in Waiting : OwnerOf(a) # OwnerOf(r)
    BY <1>1, <1>3 DEF Wait, Owners
  <1>5. \A a, b \in Waiting' : OwnerOf(a) = OwnerOf(b) => a = b
    BY <1>3, <1>4
  <1>6. Down' \cap Wait' = {} /\ Down' \cap Up' = {} /\ Wait' \cap Up' = {}
    BY <1>1, <1>2, <1>3
  <1>7. Down' \cup Wait' \cup Up' = Down \cup Wait \cup Up
    BY <1>1, <1>2
  <1> QED BY <1>1, <1>2, <1>3, <1>5, <1>6, <1>7, OwnersMove

\* A request in the queue is refused: the services are told.
LEMMA OwnersRefused ==
  ASSUME Types, ExecInv, OwnInv, NEW r, Pops(r), Open(Client)' <=> Open(Client),
         Waiting' = Waiting, toSvc' = Append(toSvc, Event("SC_SND_FAILURE", r.handle, r.call))
  PROVE  OwnInv'
  <1> DEFINE e == Event("SC_SND_FAILURE", r.handle, r.call)
             o == OwnerOf(r)
  <1>1. /\ Down = Down' \cup {o} /\ o \notin Down'
        /\ r \in Asked /\ UNCHANGED <<context, status, channel>>
    BY PopsDown
  <1>2. /\ e \in Events /\ ~IsLost(e) /\ e.handle \in Handles /\ ~IsNews(e) /\ OwnerOf(e) = o
        /\ toSvc' = Append(toSvc, e)
    BY <1>1 DEF Event, Events, EventTypes, Asked, IsLost, IsNews, OwnerOf
  <1> HIDE DEF e, o
  <1>3. Open(Client) => /\ Down \cap Wait = {} /\ Down \cap Up = {} /\ Wait \cap Up = {}
                        /\ \A a, b \in Waiting : OwnerOf(a) = OwnerOf(b) => a = b
                        /\ Owns(o)
    BY <1>1 DEF OwnInv, OneOwner
  <1>4. Open(Client) => Owns(OwnerOf(e)) /\ OwnerOf(e) \notin Up
    BY <1>1, <1>2, <1>3
  <1>5. /\ Up' = Up \cup {o} /\ EventsSound' /\ Elems(toSvc) \subseteq Elems(toSvc')
        /\ Open(Client) => /\ \A d \in Elems(toSvc') : ~IsLost(d)
                           /\ Pairwise(toSvc', DistinctOwners)
    BY <1>1, <1>2, <1>4, EventAdded
  <1>6. Wait' = Wait
    BY DEF Wait
  <1>7. Down' \cup Wait' \cup Up' = Down \cup Wait \cup Up
    BY <1>1, <1>5, <1>6
  <1>8. Open(Client) => /\ Down' \cap Wait' = {} /\ Down' \cap Up' = {} /\ Wait' \cap Up' = {}
                        /\ \A a, b \in Waiting' : OwnerOf(a) = OwnerOf(b) => a = b
    BY <1>1, <1>3, <1>5, <1>6
  <1> QED BY <1>1, <1>5, <1>7, <1>8, OwnersMove

\* A request that is waited for ends: the services are told.
LEMMA OwnersSettled ==
  ASSUME Types, OwnInv, Open(Client), Open(Client)', UNCHANGED <<context, status, channel, toSc>>,
         NEW m \in Waiting, Waiting' = Waiting \ {m}, NEW e \in Events, OwnerOf(e) = OwnerOf(m),
         ~IsLost(e), toSvc' = Append(toSvc, e)
  PROVE  OwnInv'
  <1> DEFINE o == OwnerOf(m)
  <1>1. /\ Down \cap Wait = {} /\ Down \cap Up = {} /\ Wait \cap Up = {}
        /\ \A a, b \in Waiting : OwnerOf(a) = OwnerOf(b) => a = b
        /\ \A p \in Wait : Owns(p)
    BY DEF OwnInv, OneOwner
  <1>2. o \in Wait
    BY DEF Wait, Owners
  <1>3. Wait' = Wait \ {o}
    BY <1>1 DEF Wait, Owners
  <1>4. Owns(o) /\ o \notin Up /\ o \notin Down
    BY <1>1, <1>2
  <1>5. e.handle \in Handles
    BY <1>4 DEF Owns, OwnerOf
  <1>6. /\ Up' = Up \cup {o} /\ EventsSound' /\ Elems(toSvc) \subseteq Elems(toSvc')
        /\ \A d \in Elems(toSvc') : ~IsLost(d)
        /\ Pairwise(toSvc', DistinctOwners)
    BY <1>4, <1>5, EventAdded
  <1>7. Down' = Down
    BY DEF Down
  <1> HIDE DEF o
  <1>8. Down' \cup Wait' \cup Up' = Down \cup Wait \cup Up
    BY <1>2, <1>3, <1>6, <1>7
  <1>9. Down' \cap Wait' = {} /\ Down' \cap Up' = {} /\ Wait' \cap Up' = {}
    BY <1>1, <1>3, <1>4, <1>6, <1>7
  <1>10. \A a, b \in Waiting' : OwnerOf(a) = OwnerOf(b) => a = b
    BY <1>1
  <1> QED BY <1>6, <1>8, <1>9, <1>10, OwnersMove

-----------------------------------------------------------------------------
(* Steps of the client's services.                                         *)

\* 0 is no call.
LEMMA CallsPositive ==
  0 \notin Calls
  <1>1. Cardinality(Calls) \in Nat
    BY SecureChannelAssumption, FS_CardinalityType
  <1> QED BY <1>1, SecureChannelAssumption

\* A request of the services takes a handle.
LEMMA RequestOwners ==
  ASSUME Types, ExecInv, OwnInv, NEW c \in Calls, NEW n \in Sizes, Request(c, n)
  PROVE  OwnInv' /\ ExecInv'
  <1>0. /\ UNCHANGED <<conn, wire, toSvc, todo, executed, sentRequestIds, channel>> /\ channel
        /\ status[c] = "idle" /\ status \in [Calls -> Statuses] /\ context \in [Handles -> Calls \cup {0}]
        /\ toSc \in Seq(Asked) /\ c # 0
    BY CallsPositive DEF Request, chanVars, Types, SvcTypes
  <1>1. Waiting' = Waiting /\ Up' = Up /\ Wait' = Wait /\ (Open(Client)' <=> Open(Client))
        /\ Elems(toSvc') = Elems(toSvc)
    BY <1>0 DEF Waiting, Waited, Up, Wait, Open
  <1>2. \A h \in Handles : context[h] # c
    <2>1. \A h \in Handles : context[h] # 0 => status[context[h]] \in {"pending", "failed"}
      BY DEF OwnInv, ContextSound
    <2> QED BY <1>0, <2>1
  <1>3. executed[c] = 0
    BY <1>0 DEF ExecInv, OnceAtMost
  <1>4. /\ \A s \in Elems(toSc) : s.call # c
        /\ \A x \in Elems(wire[Client]) : Carries(x) => x.body.call # c
    BY <1>0 DEF ExecInv, RequestsNew, ChunksNew, OnTheWay
  <1>5. ASSUME NEW h \in FreshHandles, context' = [context EXCEPT ![h] = c],
               toSc' = Append(toSc, [handle |-> h, call |-> c, chunks |-> n]),
               status' = [status EXCEPT ![c] = "pending"]
        PROVE  OwnInv' /\ ExecInv'
    <2> DEFINE r == [handle |-> h, call |-> c, chunks |-> n]
    <2>1. h \in Handles /\ context[h] = 0
      BY <1>5, FreshType DEF Types
    <2>2. r \in Asked /\ r.handle = h /\ r.call = c /\ toSc' = Append(toSc, r)
      BY <1>5, <2>1, SecureChannelAssumption DEF Asked
    <2> HIDE DEF r
    <2>3. Elems(toSc') = Elems(toSc) \cup {r}
      BY <1>0, <2>2, ElemsAppend
    <2>4. /\ context'[h] = c /\ \A g \in Handles : g # h => context'[g] = context[g]
          /\ status'[c] = "pending" /\ \A d \in Calls : d # c => status'[d] = status[d]
      BY <1>0, <1>5, <2>1
    <2>5. Down' = Down \cup {<<h, c>>}
      BY <2>2, <2>3 DEF Down, Owners, OwnerOf
    <2>6. \A o : Owns(o) => Owns(o)' /\ o[1] # h
      BY <1>0, <2>1, <2>4, CallsPositive DEF Owns
    <2>7. Owns(<<h, c>>)'
      BY <2>1, <2>4 DEF Owns
    <2>8. ContextSound'
      <3>1. ASSUME NEW g \in Handles, context'[g] # 0
            PROVE  status'[context'[g]] \in {"pending", "failed"}
        <4>1. CASE g = h
          BY <2>4, <4>1
        <4>2. CASE g # h
          <5>1. context'[g] = context[g] /\ context[g] \in Calls /\ context[g] # c
            BY <1>0, <1>2, <2>4, <3>1, <4>2
          <5>2. status[context[g]] \in {"pending", "failed"}
            BY <3>1, <5>1 DEF OwnInv, ContextSound
          <5> QED BY <2>4, <5>1, <5>2
        <4> QED BY <4>1, <4>2
      <3>2. ASSUME NEW f \in Handles, NEW g \in Handles, context'[f] = context'[g], context'[f] # 0
            PROVE  f = g
        BY <1>2, <2>4, <3>2 DEF OwnInv, ContextSound
      <3>3. ASSUME NEW d \in Calls, status'[d] = "pending" PROVE \E g \in Handles : context'[g] = d
        <4>1. CASE d = c
          BY <2>1, <2>4, <4>1
        <4>2. CASE d # c
          <5>1. PICK g \in Handles : context[g] = d
            BY <2>4, <3>3, <4>2 DEF OwnInv, ContextSound
          <5>2. context'[g] = d
            BY <2>1, <2>4, <5>1, CallsPositive
          <5> QED BY <5>2
        <4> QED BY <4>1, <4>2
      <3> QED BY <3>1, <3>2, <3>3 DEF ContextSound
    <2>9. ChannelKnown'
      BY <1>0 DEF ChannelKnown
    <2>10. EventsSound'
      BY <1>0, <1>1, <2>6 DEF OwnInv, EventsSound
    <2>11. OneOwner'
      <3> SUFFICES ASSUME Open(Client)
                   PROVE  /\ \A e \in Elems(toSvc') : ~IsLost(e)
                          /\ \A o \in Down' \cup Wait' \cup Up' : Owns(o)'
                          /\ Down' \cap Wait' = {} /\ Down' \cap Up' = {} /\ Wait' \cap Up' = {}
                          /\ \A a, b \in Waiting' : OwnerOf(a) = OwnerOf(b) => a = b
                          /\ Pairwise(toSvc', DistinctOwners)
        BY <1>1 DEF OneOwner
      <3>1. \A o \in Down \cup Wait \cup Up : Owns(o)' /\ o # <<h, c>>
        BY <2>6 DEF OwnInv, OneOwner
      <3>2. /\ Down \cap Wait = {} /\ Down \cap Up = {} /\ Wait \cap Up = {}
            /\ \A e \in Elems(toSvc) : ~IsLost(e)
            /\ \A a, b \in Waiting : OwnerOf(a) = OwnerOf(b) => a = b
            /\ Pairwise(toSvc, DistinctOwners)
        BY DEF OwnInv, OneOwner
      <3> QED BY <1>0, <1>1, <2>5, <2>7, <3>1, <3>2
    <2>12. Accounted'
      <3> SUFFICES ASSUME NEW g \in Handles, g # h, context[g] # 0
                   PROVE  \/ \E e \in Elems(toSvc) : IsLost(e)
                          \/ <<g, context[g]>> \in Down \cup Wait \cup Up
                          \/ status'[context[g]] = "failed"
        BY <1>1, <2>4, <2>5 DEF Accounted
      <3>1. context[g] \in Calls /\ context[g] # c
        BY <1>0, <1>2
      <3> QED BY <2>4, <3>1 DEF OwnInv, Accounted
    <2>13. \A d : (Executed(d) => Executed(d)') /\ (OnTheWay(d) => OnTheWay(d)') 
      BY <1>0, <2>4 DEF Executed, OnTheWay
    <2>14. OnTheWay(c)'
      BY <1>0, <1>3, <2>4 DEF OnTheWay
    <2>15. RequestsNew' /\ ChunksNew' /\ ChunksOnce'
      BY <1>0, <1>4, <2>2, <2>3, <2>13, <2>14 DEF ExecInv, RequestsNew, ChunksNew, ChunksOnce
    <2>16. RequestsApart'
      <3>1. \A s \in Elems(toSc) : <<s, r>> \in DistinctCalls
        BY <1>0, <1>4, <2>2, ElemsType DEF DistinctCalls
      <3> QED BY <1>0, <2>2, <3>1, PairwiseAppend DEF ExecInv, RequestsApart
    <2>17. OnceAtMost' /\ AnswersDue'
      BY <1>0, <2>4, <2>13 DEF ExecInv, OnceAtMost, AnswersDue
    <2> QED BY <2>8, <2>9, <2>10, <2>11, <2>12, <2>15, <2>16, <2>17 DEF OwnInv, ExecInv
  <1>6. ASSUME status' = [status EXCEPT ![c] = "failed"], toSc' = toSc,
               \/ context' = context
               \/ \E h \in FreshHandles : context' = [context EXCEPT ![h] = c]
        PROVE  OwnInv' /\ ExecInv'
    <2>1. status'[c] = "failed" /\ \A d \in Calls : d # c => status'[d] = status[d]
      BY <1>0, <1>6
    <2>2. /\ \A g \in Handles : context'[g] = context[g] \/ (context[g] = 0 /\ context'[g] = c)
          /\ \A f, g \in Handles : context'[f] = c /\ context'[g] = c => f = g
      <3>1. CASE context' = context
        BY <1>2, <3>1
      <3>2. ASSUME NEW h \in FreshHandles, context' = [context EXCEPT ![h] = c]
            PROVE  <2>2!1 /\ <2>2!2
        <4>1. h \in Handles /\ context[h] = 0
          BY FreshType DEF Types
        <4>2. context'[h] = c /\ \A g \in Handles : g # h => context'[g] = context[g]
          BY <1>0, <3>2, <4>1
        <4> QED BY <1>2, <4>1, <4>2
      <3> QED BY <1>6, <3>1, <3>2
    <2>3. ContextSound'
      <3>1. ASSUME NEW g \in Handles, context'[g] # 0
            PROVE  status'[context'[g]] \in {"pending", "failed"}
        <4>1. CASE context'[g] = c
          BY <2>1, <4>1
        <4>2. CASE context'[g] # c
          <5>1. context'[g] = context[g] /\ context[g] \in Calls
            BY <1>0, <2>2, <3>1, <4>2
          <5> QED BY <2>1, <3>1, <4>2, <5>1 DEF OwnInv, ContextSound
        <4> QED BY <4>1, <4>2
      <3>2. ASSUME NEW f \in Handles, NEW g \in Handles, context'[f] = context'[g], context'[f] # 0
            PROVE  f = g
        BY <2>2, <3>2 DEF OwnInv, ContextSound
      <3>3. ASSUME NEW d \in Calls, status'[d] = "pending" PROVE \E g \in Handles : context'[g] = d
        <4>1. d # c /\ status[d] = "pending"
          BY <2>1, <3>3
        <4>2. PICK g \in Handles : context[g] = d
          BY <4>1 DEF OwnInv, ContextSound
        <4> QED BY <2>2, <4>2, CallsPositive
      <3> QED BY <3>1, <3>2, <3>3 DEF ContextSound
    <2>4. Down' = Down
      BY <1>6 DEF Down
    <2>5. \A o : Owns(o) => Owns(o)'
      BY <1>0, <2>1, <2>2, CallsPositive DEF Owns
    <2>6. Accounted'
      <3> SUFFICES ASSUME NEW g \in Handles, context'[g] # 0, context'[g] # c
                   PROVE  \/ \E e \in Elems(toSvc) : IsLost(e)
                          \/ <<g, context'[g]>> \in Down \cup Wait \cup Up
                          \/ status'[context'[g]] = "failed"
        BY <1>1, <2>1, <2>4 DEF Accounted
      <3>1. context'[g] = context[g] /\ context[g] \in Calls
        BY <1>0, <2>2
      <3> QED BY <2>1, <3>1 DEF OwnInv, Accounted
    <2>7. ChannelKnown' /\ EventsSound' /\ OneOwner'
      BY <1>0, <1>1, <2>4, <2>5 DEF OwnInv, ChannelKnown, EventsSound, OneOwner
    <2>8. StatusKept /\ QuietOn(Client)
      BY <1>0, <2>1 DEF StatusKept, QuietOn
    <2>9. ExecInv'
      BY <1>0, <1>6, <2>8, ExecKept DEF ExecInv, AnswersDue
    <2> QED BY <2>3, <2>6, <2>7, <2>9 DEF OwnInv
  <1> QED BY <1>5, <1>6 DEF Request

\* The services treat an event of the handle h, and free it.
LEMMA HandleFreed ==
  ASSUME Types, OwnInv, NEW e, toSvc # <<>>, e = Head(toSvc), toSvc' = Tail(toSvc),
         UNCHANGED <<conn, toSc, sentRequestIds, channel>>, ~IsLost(e),
         context' = [context EXCEPT ![e.handle] = 0],
         \A c \in Calls : IF c = context[e.handle] THEN status'[c] # "pending"
                          ELSE status'[c] = status[c]
  PROVE  OwnInv'
  <1> DEFINE h == e.handle
  <1>1. /\ toSvc \in Seq(Events) /\ e \in Elems(toSvc) /\ Elems(toSvc) = {e} \cup Elems(toSvc')
        /\ context \in [Handles -> Calls \cup {0}]
    BY ElemsTail DEF Types, SvcTypes
  <1>2. h \in Handles
    BY <1>1 DEF OwnInv, EventsSound
  <1>3. context'[h] = 0 /\ \A g \in Handles : g # h => context'[g] = context[g]
    BY <1>1, <1>2
  <1>4. ASSUME NEW o, Owns(o), o[1] # h PROVE Owns(o)'
    <2>1. o[1] \in Handles /\ o[2] \in Calls /\ context[o[1]] = o[2] /\ o[2] # context[h]
      BY <1>2, <1>4, CallsPositive DEF Owns, OwnInv, ContextSound
    <2> QED BY <1>3, <1>4, <2>1 DEF Owns
  <1>5. /\ Pairwise(toSvc', NotBefore)
        /\ \A d \in Elems(toSvc') : IsNews(d) => d.handle # h
    <2>1. /\ Pairwise(Tail(toSvc), NotBefore)
          /\ \A d \in Elems(Tail(toSvc)) : <<e, d>> \in NotBefore
      BY <1>1, PairwiseTail DEF OwnInv, EventsSound
    <2> QED BY <2>1 DEF NotBefore
  <1>6. Waiting' = Waiting /\ Wait' = Wait /\ Down' = Down /\ (Open(Client)' <=> Open(Client))
    BY DEF Waiting, Waited, Wait, Down, Open
  <1>7. Up = Up' \cup {OwnerOf(e)}
    BY <1>1 DEF Up, Owners
  <1>8. OwnerOf(e)[1] = h
    BY DEF OwnerOf
  <1>9. ContextSound'
    <2>1. ASSUME NEW g \in Handles, context'[g] # 0
          PROVE  /\ g # h /\ context'[g] = context[g] /\ context[g] \in Calls /\ context[g] # context[h]
                 /\ status'[context'[g]] = status[context[g]]
                 /\ status'[context'[g]] \in {"pending", "failed"}
      <3>1. g # h /\ context'[g] = context[g] /\ context[g] \in Calls
        BY <1>1, <1>3, <2>1
      <3>2. context[g] # context[h] /\ status[context[g]] \in {"pending", "failed"}
        BY <1>2, <2>1, <3>1 DEF OwnInv, ContextSound
      <3> QED BY <3>1, <3>2
    <2>2. ASSUME NEW f \in Handles, NEW g \in Handles, context'[f] = context'[g], context'[f] # 0
          PROVE  f = g
      BY <1>3, <2>2 DEF OwnInv, ContextSound
    <2>3. ASSUME NEW c \in Calls, status'[c] = "pending" PROVE \E g \in Handles : context'[g] = c
      <3>1. c # context[h] /\ status[c] = "pending"
        BY <2>3
      <3>2. PICK g \in Handles : context[g] = c
        BY <3>1 DEF OwnInv, ContextSound
      <3> QED BY <1>3, <3>1, <3>2
    <2> QED BY <2>1, <2>2, <2>3 DEF ContextSound
  <1>10. ChannelKnown'
    BY <1>2, <1>3, <1>6 DEF OwnInv, ChannelKnown
  <1>11. EventsSound'
    <2>1. ASSUME NEW d \in Elems(toSvc'), IsNews(d) PROVE Owns(OwnerOf(d))'
      <3>1. Owns(OwnerOf(d)) /\ OwnerOf(d)[1] # h
        BY <1>1, <1>5, <2>1 DEF OwnInv, EventsSound, OwnerOf
      <3> QED BY <1>4, <3>1
    <2>2. \A d \in Elems(toSvc') : ~IsLost(d) => d.handle \in Handles
      BY <1>1 DEF OwnInv, EventsSound
    <2> QED BY <1>5, <2>1, <2>2 DEF EventsSound
  <1>12. OneOwner'
    <2> SUFFICES ASSUME Open(Client)
                 PROVE  /\ \A d \in Elems(toSvc') : ~IsLost(d)
                        /\ \A o \in Down' \cup Wait' \cup Up' : Owns(o)'
                        /\ Down' \cap Wait' = {} /\ Down' \cap Up' = {} /\ Wait' \cap Up' = {}
                        /\ \A a, b \in Waiting' : OwnerOf(a) = OwnerOf(b) => a = b
                        /\ Pairwise(toSvc', DistinctOwners)
      BY <1>6 DEF OneOwner
    <2>1. /\ \A d \in Elems(toSvc) : ~IsLost(d)
          /\ \A o \in Down \cup Wait \cup Up : Owns(o)
          /\ Down \cap Wait = {} /\ Down \cap Up = {} /\ Wait \cap Up = {}
          /\ \A a, b \in Waiting : OwnerOf(a) = OwnerOf(b) => a = b
          /\ Pairwise(toSvc, DistinctOwners)
      BY DEF OwnInv, OneOwner
    <2>2. /\ Pairwise(toSvc', DistinctOwners)
          /\ \A d \in Elems(toSvc') : OwnerOf(d) # OwnerOf(e)
      <3>1. /\ Pairwise(Tail(toSvc), DistinctOwners)
            /\ \A d \in Elems(Tail(toSvc)) : <<e, d>> \in DistinctOwners
        BY <1>1, <2>1, PairwiseTail
      <3> QED BY <3>1 DEF DistinctOwners
    <2>3. OwnerOf(e) \notin Down \cup Wait \cup Up' /\ Owns(OwnerOf(e))
      BY <1>7, <2>1, <2>2 DEF Up, Owners
    <2>4. ASSUME NEW o \in Down \cup Wait \cup Up' PROVE Owns(o)'
      <3>1. Owns(o) /\ o # OwnerOf(e) /\ o = <<o[1], o[2]>>
        BY <1>7, <2>1, <2>3 DEF Down, Wait, Up, Owners, OwnerOf
      <3>2. o[1] # h
        BY <2>3, <3>1 DEF Owns, OwnerOf
      <3> QED BY <1>4, <3>1, <3>2
    <2> QED BY <1>1, <1>6, <1>7, <2>1, <2>2, <2>4
  <1>13. Accounted'
    <2> SUFFICES ASSUME NEW g \in Handles, context'[g] # 0
                 PROVE  \/ \E d \in Elems(toSvc') : IsLost(d)
                        \/ <<g, context'[g]>> \in Down' \cup Wait' \cup Up'
                        \/ status'[context'[g]] = "failed"
      BY DEF Accounted
    <2>1. /\ g # h /\ context'[g] = context[g] /\ <<g, context[g]>> # OwnerOf(e)
          /\ status'[context'[g]] = status[context[g]]
      <3>1. g # h /\ context'[g] = context[g] /\ context[g] \in Calls
        BY <1>1, <1>3
      <3>2. context[g] # context[h]
        BY <1>2, <3>1 DEF OwnInv, ContextSound
      <3> QED BY <1>8, <3>1, <3>2
    <2>2. \/ \E d \in Elems(toSvc) : IsLost(d)
          \/ <<g, context[g]>> \in Down \cup Wait \cup Up
          \/ status[context[g]] = "failed"
      BY <2>1 DEF OwnInv, Accounted
    <2> QED BY <1>1, <1>6, <1>7, <2>1, <2>2
  <1> QED BY <1>9, <1>10, <1>11, <1>12, <1>13 DEF OwnInv

\* What the services do with an event, seen from the calls.
RpcStep == RPC!RpcNext \/ UNCHANGED <<status, executed>>
Treated == OwnInv' /\ StatusKept /\ RpcStep

\* A response ends its call.
LEMMA ReceiveOwners ==
  ASSUME Types, ExecInv, OwnInv, NEW e, toSvc # <<>>, e = Head(toSvc), toSvc' = Tail(toSvc),
         UNCHANGED <<conn, toSc, sentRequestIds, executed>>, ServicesReceive(e)
  PROVE  Treated
  <1>1. e \in Elems(toSvc) /\ status \in [Calls -> Statuses]
    BY ElemsTail DEF Types, SvcTypes
  <1>2. e.type = "SC_SERVICE_RCV_MSG" /\ ~IsLost(e) /\ IsNews(e)
    BY DEF ServicesReceive, IsLost, IsNews
  <1>3. /\ e.handle \in Handles /\ e.call \in Calls /\ context[e.handle] = e.call /\ e.call # 0
        /\ status[e.call] = "pending"
    <2>1. Owns(OwnerOf(e))
      BY <1>1, <1>2 DEF OwnInv, EventsSound
    <2> QED BY <2>1, CallsPositive DEF Owns, OwnerOf
  <1>4. executed[e.call] = 1
    BY <1>1, <1>2 DEF ExecInv, AnswersDue, Executed
  <1>5. /\ status' = [status EXCEPT ![e.call] = "answered"]
        /\ context' = [context EXCEPT ![e.handle] = 0] /\ channel' = channel
    BY <1>3 DEF ServicesReceive, Ended
  <1>6. OwnInv'
    <2>1. \A c \in Calls : IF c = context[e.handle] THEN status'[c] # "pending"
                           ELSE status'[c] = status[c]
      BY <1>1, <1>3, <1>5
    <2> QED BY <1>2, <1>5, <2>1, HandleFreed
  <1>7. StatusKept
    BY <1>1, <1>5 DEF StatusKept
  <1>8. RPC!Answer(e.call)
    BY <1>3, <1>4, <1>5 DEF RPC!Answer
  <1> QED BY <1>3, <1>6, <1>7, <1>8 DEF Treated, RpcStep, RPC!RpcNext

\* A failure or a timeout ends the call of its handle, if it has one.
LEMMA FailureOwners ==
  ASSUME Types, OwnInv, NEW e, toSvc # <<>>, e = Head(toSvc), toSvc' = Tail(toSvc),
         UNCHANGED <<conn, toSc, sentRequestIds, executed>>, ServicesFailure(e)
  PROVE  Treated
  <1> DEFINE h == e.handle
             k == context[h]
  <1>1. /\ e \in Elems(toSvc) /\ status \in [Calls -> Statuses]
        /\ context \in [Handles -> Calls \cup {0}]
    BY ElemsTail DEF Types, SvcTypes
  <1>2. e.type \in {"SC_SND_FAILURE", "SC_REQUEST_TIMEOUT"} /\ ~IsLost(e) /\ h \in Handles
    BY <1>1 DEF ServicesFailure, IsLost, OwnInv, EventsSound
  <1>3. CASE ~channel \/ k = 0
    <2>1. k = 0
      BY <1>2, <1>3 DEF OwnInv, ChannelKnown
    <2>2. /\ context' = [context EXCEPT ![h] = 0]
          /\ UNCHANGED <<status, channel>>
      <3>1. [context EXCEPT ![h] = 0] = context
        BY <1>1, <1>2, <2>1
      <3> QED BY <2>1, <3>1 DEF ServicesFailure, Ended
    <2>3. \A c \in Calls : IF c = context[e.handle] THEN status'[c] # "pending"
                           ELSE status'[c] = status[c]
      BY <2>1, <2>2, CallsPositive
    <2>4. OwnInv'
      BY <1>2, <2>2, <2>3, HandleFreed
    <2> QED BY <2>2, <2>4 DEF Treated, StatusKept, RpcStep
  <1>4. CASE channel /\ k # 0
    <2>1. k \in Calls /\ status[k] \in {"pending", "failed"}
      BY <1>1, <1>2, <1>4 DEF OwnInv, ContextSound
    <2>0. e.type = "SC_REQUEST_TIMEOUT" => status[k] = "pending"
      <3>1. e.type = "SC_REQUEST_TIMEOUT" => Owns(OwnerOf(e))
        BY <1>1 DEF IsNews, OwnInv, EventsSound
      <3> QED BY <3>1 DEF Owns, OwnerOf
    <2>2. /\ context' = [context EXCEPT ![h] = 0] /\ channel' = channel
          /\ status' = [status EXCEPT ![k] = IF e.type = "SC_SND_FAILURE" THEN "failed" ELSE "timedout"]
      BY <1>4 DEF ServicesFailure, Ended
    <2> HIDE DEF k
    <2>3. OwnInv'
      <3>1. \A c \in Calls : IF c = k THEN status'[c] # "pending" ELSE status'[c] = status[c]
        BY <1>1, <2>1, <2>2
      <3> QED BY <1>2, <2>2, <3>1, HandleFreed DEF k
    <2>4. StatusKept
      BY <1>1, <2>1, <2>2 DEF StatusKept
    <2>5. RPC!TimeOut(k) \/ RPC!Fail({k}) \/ UNCHANGED <<status, executed>>
      <3>1. CASE e.type = "SC_SND_FAILURE" /\ status[k] = "pending"
        <4>1. status' = [c \in Calls |-> IF c \in {k} THEN "failed" ELSE status[c]]
          BY <1>1, <2>2, <3>1
        <4> QED BY <3>1, <4>1 DEF RPC!Fail
      <3>2. CASE e.type = "SC_SND_FAILURE" /\ status[k] = "failed"
        BY <1>1, <2>2, <3>2
      <3>3. CASE e.type # "SC_SND_FAILURE"
        BY <1>2, <2>0, <2>2, <3>3 DEF RPC!TimeOut
      <3> QED BY <2>1, <3>1, <3>2, <3>3
    <2> QED BY <2>1, <2>3, <2>4, <2>5 DEF Treated, RpcStep, RPC!RpcNext
  <1> QED BY <1>3, <1>4

\* The end of the channel ends every call that has a handle.
LEMMA LostOwners ==
  ASSUME Types, OwnInv, NEW e, toSvc # <<>>, e = Head(toSvc), toSvc' = Tail(toSvc),
         UNCHANGED <<conn, toSc, sentRequestIds, executed>>, ServicesLost(e)
  PROVE  Treated
  <1>1. /\ toSvc \in Seq(Events) /\ Elems(toSvc) = {e} \cup Elems(toSvc')
        /\ status \in [Calls -> Statuses] /\ context \in [Handles -> Calls \cup {0}]
    BY ElemsTail DEF Types, SvcTypes
  <1>2. IsLost(e) /\ ~Open(Client) /\ ~Open(Client)'
    BY <1>1 DEF ServicesLost, IsLost, OwnInv, OneOwner, Open
  <1>3. /\ Pairwise(toSvc', NotBefore)
        /\ \A d \in Elems(toSvc') : ~IsNews(d)
    <2>1. /\ Pairwise(Tail(toSvc), NotBefore)
          /\ \A d \in Elems(Tail(toSvc)) : <<e, d>> \in NotBefore
      BY <1>1, PairwiseTail DEF OwnInv, EventsSound
    <2> QED BY <1>2, <2>1 DEF NotBefore
  <1>4. \A h \in Handles : context'[h] = 0
    BY DEF ServicesLost
  <1>5. OwnInv'
    <2>1. EventsSound'
      BY <1>1, <1>3 DEF OwnInv, EventsSound
    <2>2. \A c \in Calls : status'[c] # "pending"
      BY DEF ServicesLost, OwnInv, ContextSound
    <2> QED BY <1>2, <1>4, <2>1, <2>2 DEF OwnInv, ContextSound, ChannelKnown, OneOwner, Accounted
  <1> DEFINE H == {c \in Calls : status[c] = "pending"}
  <1>6. status' = [c \in Calls |-> IF c \in H THEN "failed" ELSE status[c]]
    <2>1. ASSUME NEW c \in Calls
          PROVE  (IF \E h \in Handles : context[h] = c THEN "failed" ELSE status[c])
                   = IF c \in H THEN "failed" ELSE status[c]
      BY CallsPositive DEF OwnInv, ContextSound
    <2> QED BY <2>1 DEF ServicesLost
  <1>7. \A c \in H : status[c] = "pending"
    OBVIOUS
  <1>8. H \in SUBSET Calls
    OBVIOUS
  <1> HIDE DEF H
  <1>9. RPC!Fail(H)
    BY <1>6, <1>7 DEF RPC!Fail
  <1>10. StatusKept
    BY <1>6 DEF StatusKept
  <1> QED BY <1>5, <1>8, <1>9, <1>10 DEF Treated, RpcStep, RPC!RpcNext

\* Any event.
LEMMA EventOwners ==
  ASSUME Types, ExecInv, OwnInv, TreatServicesEvent
  PROVE  OwnInv' /\ ExecInv' /\ RpcStep
  <1> DEFINE e == Head(toSvc)
  <1>1. /\ toSvc # <<>> /\ toSvc' = Tail(toSvc) /\ UNCHANGED <<conn, toSc, sentRequestIds, executed, todo, wire>>
        /\ ServicesReceive(e) \/ ServicesFailure(e) \/ ServicesLost(e)
    BY DEF TreatServicesEvent, chanVars
  <1>2. Treated
    BY <1>1, ReceiveOwners, FailureOwners, LostOwners
  <1>3. Elems(toSvc') \subseteq Elems(toSvc)
    BY <1>1, ElemsTail DEF Types, SvcTypes
  <1>4. QuietOn(Client)
    BY <1>1 DEF QuietOn
  <1>5. ExecInv'
    BY <1>1, <1>2, <1>3, <1>4, ExecKept DEF Treated, ExecInv, AnswersDue
  <1> QED BY <1>2, <1>5 DEF Treated

-----------------------------------------------------------------------------
(* Steps of the channel.                                                   *)

\* Failures are posted.
LEMMA NoNewsPosted ==
  ASSUME NEW s \in Seq(Events), NEW t \in Seq(Events), \A e \in Elems(t) : ~IsNews(e)
  PROVE  /\ s \o t \in Seq(Events) /\ Elems(s \o t) = Elems(s) \cup Elems(t)
         /\ Pairwise(s, NotBefore) => Pairwise(s \o t, NotBefore)
  <1>1. Elems(s) \subseteq Events /\ Elems(t) \subseteq Events
    BY ElemsType
  <1>2. Pairwise(t, NotBefore)
    <2>1. ASSUME NEW i \in 1..Len(t), NEW j \in 1..Len(t) PROVE <<t[i], t[j]>> \in NotBefore
      <3>1. t[i] \in Elems(t) /\ t[j] \in Elems(t)
        BY DEF Elems
      <3> QED BY <1>1, <3>1 DEF NotBefore
    <2> QED BY <2>1 DEF Pairwise
  <1>3. \A d \in Elems(s), e \in Elems(t) : <<d, e>> \in NotBefore
    BY <1>1 DEF NotBefore
  <1> QED BY <1>2, <1>3, ElemsConcat, PairwiseConcat

\* The client closes: the handles wait for the last event.
LEMMA ClientClosesOwners ==
  ASSUME Types, OwnInv, NEW ev, NEW used, NEW farewell \in BOOLEAN, ClientCloses(ev, used, farewell)
  PROVE  OwnInv' /\ \A e \in Elems(toSvc') : IsNews(e) => e \in Elems(toSvc)
  <1> DEFINE lost == Event("SC_DISCONNECTED", 0, 0)
             s == toSvc \o ev
             t == s \o PendingFailures
  <1>1. /\ ev \in Seq(Events) /\ toSvc \in Seq(Events) /\ toSvc' = t \o <<lost>>
        /\ UNCHANGED <<context, channel, status>>
    BY ClientClosesEffect DEF Types, SvcTypes, ClientCloses
  <1>2. \A e \in Elems(ev) : ~IsNews(e) /\ ~IsLost(e) /\ e.handle \in Handles
    <2>1. CASE ev = <<>>
      BY <2>1, ElemsSmall
    <2>2. CASE toSc # <<>> /\ ev = <<Event("SC_SND_FAILURE", Head(toSc).handle, Head(toSc).call)>>
      <3>1. Head(toSc) \in Asked
        BY <2>2 DEF Types, SvcTypes
      <3>2. Head(toSc).handle \in Handles
        BY <3>1 DEF Asked
      <3> QED BY <2>2, <3>2, ElemsSmall DEF Event, IsNews, IsLost
    <2> QED BY <2>1, <2>2 DEF ClientCloses
  <1>3. PendingFailures \in Seq(Events)
        /\ \A e \in Elems(PendingFailures) : ~IsNews(e) /\ ~IsLost(e) /\ e.handle \in Handles
    BY PendingFailuresType DEF Types, IsNews, IsLost
  <1>4. lost \in Events /\ ~IsNews(lost) /\ IsLost(lost)
    BY DEF Event, Events, EventTypes, IsNews, IsLost
  <1> HIDE DEF lost
  <1>5. Pairwise(toSvc, NotBefore)
    BY DEF OwnInv, EventsSound
  <1>6. s \in Seq(Events) /\ Elems(s) = Elems(toSvc) \cup Elems(ev) /\ Pairwise(s, NotBefore)
    BY <1>1, <1>2, <1>5, NoNewsPosted
  <1> HIDE DEF s
  <1>7. t \in Seq(Events) /\ Elems(t) = Elems(s) \cup Elems(PendingFailures) /\ Pairwise(t, NotBefore)
    BY <1>3, <1>6, NoNewsPosted
  <1> HIDE DEF t
  <1>8. Elems(toSvc') = Elems(t) \cup {lost} /\ Pairwise(toSvc', NotBefore)
    <2> DEFINE u == <<lost>>
    <2>1. u \in Seq(Events) /\ Elems(u) = {lost} /\ toSvc' = t \o u
      BY <1>1, <1>4, ElemsSmall
    <2> HIDE DEF u
    <2>2. \A e \in Elems(u) : ~IsNews(e)
      BY <1>4, <2>1
    <2> QED BY <1>7, <2>1, <2>2, NoNewsPosted
  <1>9. ~Open(Client)'
    BY ClientClosesWires
  <1>10. \A e \in Elems(toSvc') : /\ IsNews(e) => e \in Elems(toSvc)
                                  /\ e \in Elems(toSvc) \/ e = lost \/ e.handle \in Handles
    BY <1>2, <1>3, <1>4, <1>6, <1>7, <1>8
  <1>11. EventsSound'
    BY <1>1, <1>4, <1>8, <1>10 DEF OwnInv, EventsSound, Owns
  <1>12. ContextSound' /\ ChannelKnown' /\ OneOwner'
    BY <1>1, <1>9 DEF OwnInv, ContextSound, ChannelKnown, OneOwner
  <1>13. Accounted'
    BY <1>4, <1>8 DEF Accounted
  <1> QED BY <1>10, <1>11, <1>12, <1>13 DEF OwnInv

\* The request that an accepted chunk answers.
LEMMA AnswerCtx ==
  ASSUME Types, TimerInv, NEW c, ClientGets(c), c.type # "ERR", Accepted(Client, c)
  PROVE  /\ CtxOf(c.id) \in Waited /\ CtxOf(c.id).id = c.id
         /\ CtxOf(c.id).handle = OPN <=> c.type = "OPN"
  <1>1. PICK i \in 1..Len(sentRequestIds) : /\ sentRequestIds[i].id = c.id
                                            /\ (sentRequestIds[i].handle = OPN) <=> (c.type = "OPN")
    BY ClientGetsType
  <1>2. sentRequestIds[i] \in Waited
    BY DEF Waited, Elems
  <1>3. CtxOf(c.id) = sentRequestIds[i]
    BY <1>1, <1>2, UniqueCtx
  <1> QED BY <1>1, <1>2, <1>3

\* A chunk that is kept closes nothing.
LEMMA ClientStaysOpen ==
  ASSUME Types, NEW c, ClientGets(c), ClientChunk(c) \/ ClientResponse(c) \/ TakesRenewal(c)
  PROVE  Open(Client) /\ Open(Client)'
  <1>1. CASE ClientResponse(c) \/ TakesRenewal(c)
    BY <1>1, SettlesSteps DEF Settles, ClientState, Open
  <1>2. CASE ClientChunk(c)
    <2>1. conn'[Client] = AfterChunk(Client, c) /\ AfterChunk(Client, c).state = conn[Client].state
      BY <1>2, ClientChunkEffect, AfterChunkType, ReceivesEffect, EndsPeer DEF Types
    <2> QED BY <2>1 DEF Open, ClientGets
  <1> QED BY <1>1, <1>2

\* Steps that no request of the services ends with.
LEMMA StillOwners ==
  ASSUME Types, TimerInv, OwnInv,
         \/ UNCHANGED vars
         \/ \E t \in running : TimerExpires(t)
         \/ AsksRenewal
         \/ LateRenewal
         \/ \E c : ClientGets(c) /\ ClientChunk(c)
         \/ \E c : ClientGets(c) /\ TakesRenewal(c)
         \/ \E farewell \in BOOLEAN : ServerCloses(farewell)
         \/ \E c : ServerGets(c) /\ (ServerChunk(c) \/ ServerRequest(c) \/ ServerRenews(c))
         \/ \E q \in todo, n \in Sizes : Respond(q, n)
  PROVE  OwnInv' /\ UNCHANGED <<toSvc, toSc, status>>
  <1>1. CASE UNCHANGED vars \/ (\E t \in running : TimerExpires(t)) \/ LateRenewal
    <2>1. UNCHANGED <<conn, sentRequestIds, context, status, channel, toSvc, toSc>>
      BY <1>1 DEF vars, chanVars, svcVars, TimerExpires, LateRenewal
    <2>2. Waiting' = Waiting /\ (Open(Client)' <=> Open(Client))
      BY <2>1 DEF Waiting, Waited, Open
    <2> QED BY <2>1, <2>2, OwnersStay
  <1>2. CASE \/ \E farewell \in BOOLEAN : ServerCloses(farewell)
             \/ \E c : ServerGets(c) /\ (ServerChunk(c) \/ ServerRequest(c) \/ ServerRenews(c))
             \/ \E q \in todo, n \in Sizes : Respond(q, n)
    <2>1. UNCHANGED <<sentRequestIds, context, status, channel, toSvc, toSc>>
      BY <1>2 DEF ServerCloses, ServerGets, Respond
    <2>2. conn'[Client] = conn[Client]
      BY <1>2, ServerIdle
    <2>3. Waiting' = Waiting /\ (Open(Client)' <=> Open(Client))
      BY <2>1, <2>2 DEF Waiting, Waited, Open
    <2> QED BY <2>1, <2>3, OwnersStay
  <1>3. CASE AsksRenewal
    <2>1. UNCHANGED <<context, status, channel, toSvc, toSc>>
          /\ sentRequestIds' = Append(sentRequestIds, RequestCtx(clientNextReqId, OPN, 0))
          /\ sentRequestIds \in Seq(Ctx)
      BY <1>3 DEF AsksRenewal, AskRenewal, Types, ListTypes
    <2>2. RequestCtx(clientNextReqId, OPN, 0).handle = OPN /\ RequestCtx(clientNextReqId, OPN, 0) \in Ctx
      BY RequestCtxType DEF RequestCtx, Types, OPN
    <2>3. Waited' = Waited \cup {RequestCtx(clientNextReqId, OPN, 0)}
      BY <2>1, <2>2, ElemsAppend DEF Waited
    <2>4. Waiting' = Waiting
      BY <2>2, <2>3 DEF Waiting
    <2>5. Open(Client) /\ Open(Client)'
      BY <1>3, WaitsSteps, OpenState DEF Waits, ClientState, Open, Types
    <2> QED BY <2>1, <2>4, <2>5, OwnersStay
  <1>4. ASSUME NEW c, ClientGets(c), ClientChunk(c)
        PROVE  OwnInv' /\ UNCHANGED <<toSvc, toSc, status>>
    <2>1. UNCHANGED <<context, status, channel, toSvc, toSc>> /\ Open(Client)
      BY <1>4 DEF ClientGets, ClientChunk
    <2>2. c.id \in Nat /\ \E i \in 1..Len(sentRequestIds) : sentRequestIds[i].id = c.id
      <3>1. Accepted(Client, c) /\ c.type # "ERR"
        BY <1>4 DEF ClientChunk
      <3> QED BY <1>4, <3>1, ClientGetsType
    <2>3. Waited' = Waited
      BY <1>4, <2>2, CtxTypes DEF Types, ClientChunk, Waited
    <2>4. Open(Client)'
      BY <1>4, ClientStaysOpen
    <2>5. Waiting' = Waiting
      BY <2>3 DEF Waiting
    <2> QED BY <2>1, <2>4, <2>5, OwnersStay
  <1>5. ASSUME NEW c, ClientGets(c), TakesRenewal(c)
        PROVE  OwnInv' /\ UNCHANGED <<toSvc, toSc, status>>
    <2>1. UNCHANGED <<context, status, channel, toSvc, toSc>> /\ Open(Client)
          /\ sentRequestIds' = OtherCtxs(c.id) /\ c.type = "OPN" /\ Accepted(Client, c)
      BY <1>5 DEF ClientGets, TakesRenewal
    <2>2. c.id \in Nat /\ \E i \in 1..Len(sentRequestIds) : sentRequestIds[i].id = c.id
      BY <1>5, <2>1, ClientGetsType
    <2>3. Waited' = Waited \ {CtxOf(c.id)}
      BY <2>1, <2>2, OthersWaited
    <2>4. CtxOf(c.id).handle = OPN
      BY <1>5, <2>1, AnswerCtx
    <2>5. Waiting' = Waiting
      BY <2>3, <2>4 DEF Waiting
    <2>6. Open(Client)'
      BY <1>5, ClientStaysOpen
    <2> QED BY <2>1, <2>5, <2>6, OwnersStay, SMTT(20)
  <1> QED BY <1>1, <1>2, <1>3, <1>4, <1>5

\* A request is sent whole, and waited for.
LEMMA SendOwners ==
  ASSUME Types, TimerInv, IdsInv, ExecInv, OwnInv, ListKept, NEW r, Pops(r), SendRequest(r)
  PROVE  OwnInv' /\ IdsInv' /\ ExecInv'
  <1> DEFINE n == RequestCtx(clientNextReqId, r.handle, r.call)
  <1>1. r \in Asked /\ (\E m : SendsFor(r, m))
    BY RequestSends
  <1>2. r.handle \in Handles /\ r.handle # OPN /\ r.call \in Calls
    <2>1. r.handle \in Handles /\ r.call \in Calls
      BY <1>1 DEF Asked
    <2> QED BY <2>1 DEF OPN, Handles
  <1>3. /\ n \in Ctx /\ n.handle = r.handle /\ n.call = r.call /\ ~n.timeoutExpired
        /\ OwnerOf(n) = OwnerOf(r) /\ Same(r, n)
    BY <1>2, RequestCtxType DEF RequestCtx, Types, OwnerOf, Same
  <1>4. Waited' = Waited \cup {n}
    <2>1. sentRequestIds \in Seq(Ctx) /\ sentRequestIds' = Append(sentRequestIds, n)
      BY DEF Types, ListTypes, SendRequest
    <2> QED BY <1>3, <2>1, ElemsAppend DEF Waited
  <1> HIDE DEF n
  <1>5. Waiting' = Waiting \cup {n}
    BY <1>2, <1>3, <1>4 DEF Waiting
  <1>6. Open(Client) /\ toSvc' = toSvc
    BY DEF SendRequest
  <1>7. Open(Client)'
    <2>1. ClientState' = ClientState
      BY <1>1, SendEffect, SentState DEF Asked
    <2> QED BY <1>6, <2>1 DEF ClientState, Open
  <1>8. OwnInv'
    BY <1>3, <1>5, <1>6, <1>7, OwnersSent
  <1>9. IdsInv' /\ ExecInv'
    BY <1>1, <1>3, <1>4, <1>6, RequestCalls
  <1> QED BY <1>8, <1>9

\* A request is aborted, and told of.
LEMMA AbortOwners ==
  ASSUME Types, TimerInv, IdsInv, ExecInv, OwnInv, ListKept, NEW r, Pops(r),
         \/ r.chunks > 1 /\ UnrecordedRequest(r)
         \/ \E k \in 0..(r.chunks - 1) : AbortRequest(r, k)
  PROVE  OwnInv' /\ IdsInv' /\ ExecInv'
  <1> DEFINE e == Event("SC_SND_FAILURE", r.handle, r.call)
  <1>1. r \in Asked /\ (\E m : SendsFor(r, m))
    BY RequestSends
  <1>2. Open(Client) /\ toSvc' = Append(toSvc, e) /\ sentRequestIds' = sentRequestIds
    <2>1. CASE r.chunks > 1 /\ UnrecordedRequest(r)
      <3>1. r.chunks # 1
        BY <1>1, <2>1 DEF Asked
      <3> QED BY <2>1, <3>1 DEF UnrecordedRequest
    <2>2. CASE \E k \in 0..(r.chunks - 1) : AbortRequest(r, k)
      BY <2>2 DEF AbortRequest
    <2> QED BY <2>1, <2>2
  <1>3. Waiting' = Waiting /\ Waited' = Waited
    BY <1>2 DEF Waiting, Waited
  <1>4. Open(Client)' <=> Open(Client)
    <2>1. Idle
      BY IdleSteps
    <2> QED BY <2>1 DEF Idle, ClientState, Open
  <1>5. OwnInv'
    BY <1>2, <1>3, <1>4, OwnersRefused
  <1>6. \A d \in Elems(toSvc') : IsResponse(d) => d \in Elems(toSvc)
    <2>1. e \in Events /\ ~IsResponse(e)
      BY <1>1 DEF Event, Events, EventTypes, Asked, IsResponse
    <2>2. toSvc \in Seq(Events)
      BY DEF Types, SvcTypes
    <2> HIDE DEF e
    <2> QED BY <1>2, <2>1, <2>2, ElemsAppend
  <1>7. IdsInv' /\ ExecInv'
    BY <1>1, <1>2, <1>3, <1>6, RequestCalls
  <1> QED BY <1>5, <1>7

\* A request finds the channel closed.
LEMMA RefuseOwners ==
  ASSUME Types, ExecInv, OwnInv, NEW r, Pops(r), RefuseRequest(r)
  PROVE  OwnInv' /\ \A d \in Elems(toSvc') : IsResponse(d) => d \in Elems(toSvc)
  <1> DEFINE e == Event("SC_SND_FAILURE", r.handle, r.call)
  <1>1. r \in Asked /\ toSvc' = Append(toSvc, e) /\ UNCHANGED <<conn, sentRequestIds>>
    BY PopsType DEF RefuseRequest
  <1>2. Waiting' = Waiting /\ (Open(Client)' <=> Open(Client))
    BY <1>1 DEF Waiting, Waited, Open
  <1>3. OwnInv'
    BY <1>1, <1>2, OwnersRefused
  <1>4. \A d \in Elems(toSvc') : IsResponse(d) => d \in Elems(toSvc)
    <2>1. e \in Events /\ ~IsResponse(e)
      BY <1>1 DEF Event, Events, EventTypes, Asked, IsResponse
    <2>2. toSvc \in Seq(Events)
      BY DEF Types, SvcTypes
    <2> HIDE DEF e
    <2> QED BY <1>1, <2>1, <2>2, ElemsAppend
  <1> QED BY <1>3, <1>4

\* A request times out: it is told of, and its answer not waited for.
LEMMA TimeoutOwners ==
  ASSUME Types, TimerInv, ExpiredOnce, OwnInv, NEW t \in posted, TreatRequestTimeout(t)
  PROVE  OwnInv' /\ \A d \in Elems(toSvc') : IsResponse(d) => d \in Elems(toSvc)
  <1>1. /\ UNCHANGED <<conn, context, status, channel, toSc>>
        /\ sentRequestIds' = MarkExpired(t) /\ toSvc' = toSvc \o TimeoutEvents(t)
        /\ t \in Nat /\ t \in Timers /\ toSvc \in Seq(Events)
    BY DEF TreatRequestTimeout, Types, ListTypes, SvcTypes, Timers
  <1>2. Open(Client)' <=> Open(Client)
    BY <1>1 DEF Open
  <1>3. /\ \A n \in Waited' : \E m \in Waited : Marked(m, n, t)
        /\ \A m \in Waited : \E n \in Waited' : Marked(m, n, t)
    BY <1>1, MarkedElems DEF Types, Waited
  <1>4. Waited \subseteq Ctx /\ Waited' \subseteq Ctx
    <2>1. sentRequestIds \in Seq(Ctx) /\ MarkExpired(t) \in Seq(Ctx)
      BY MarkExpiredType DEF Types, ListTypes
    <2> QED BY <1>1, <2>1, ElemsType DEF Waited
  <1>5. Waiting' = {m \in Waiting : m.id # t}
    <2>1. \A m \in Ctx, n \in Ctx : Marked(m, n, t) /\ ~n.timeoutExpired => m = n /\ m.id # t
      BY DEF Marked, Ctx
    <2>2. \A m \in Ctx, n \in Ctx : Marked(m, n, t) /\ ~m.timeoutExpired /\ m.id # t => m = n
      BY DEF Marked, Ctx
    <2> QED BY <1>3, <1>4, <2>1, <2>2 DEF Waiting
  <1>6. CASE IsServicesRequest(t)
    <2> DEFINE m == CtxOf(t)
               e == TimeoutEvent(t)
    <2>1. PICK i \in 1..Len(sentRequestIds) : sentRequestIds[i].id = t /\ sentRequestIds[i].handle # OPN
      BY <1>6 DEF IsServicesRequest
    <2>2. sentRequestIds[i] \in Waited
      BY DEF Waited, Elems
    <2>3. m \in Waited /\ m.id = t /\ m.handle # OPN /\ \A n \in Waited : n.id = t => n = m
      BY <2>1, <2>2, UniqueCtx
    <2>4. m \in Waiting /\ Waiting' = Waiting \ {m} /\ m \in Ctx
      BY <1>1, <1>4, <1>5, <2>3 DEF Waiting, ExpiredOnce
    <2>5. e \in Events /\ OwnerOf(e) = OwnerOf(m) /\ ~IsLost(e) /\ ~IsResponse(e)
      BY <2>4 DEF TimeoutEvent, Event, Events, EventTypes, Ctx, OwnerOf, IsLost, IsResponse
    <2>6. toSvc' = Append(toSvc, e)
      <3>1. toSvc' = toSvc \o <<e>>
        BY <1>1, <1>6 DEF TimeoutEvents
      <3> HIDE DEF e
      <3> QED BY <1>1, <2>5, <3>1
    <2>7. Open(Client)
      BY <2>3, ElemsSmall DEF TimerInv, ClosedIsQuiet, Waited
    <2> HIDE DEF m, e
    <2>8. OwnInv'
      BY <1>1, <1>2, <2>4, <2>5, <2>6, <2>7, OwnersSettled
    <2> QED BY <1>1, <2>5, <2>6, <2>8, ElemsAppend
  <1>7. CASE ~IsServicesRequest(t)
    <2>1. \A m \in Waiting : m.id # t
      <3>1. ASSUME NEW m \in Waited, m.id = t, m.handle # OPN PROVE FALSE
        <4>1. PICK i \in 1..Len(sentRequestIds) : m = sentRequestIds[i]
          BY DEF Waited, Elems
        <4> QED BY <1>7, <3>1, <4>1 DEF IsServicesRequest
      <3> QED BY <3>1 DEF Waiting
    <2>2. Waiting' = Waiting
      BY <1>5, <2>1
    <2>3. toSvc' = toSvc
      BY <1>1, <1>7 DEF TimeoutEvents
    <2>4. OwnInv'
      BY <1>1, <1>2, <2>2, <2>3, OwnersStay
    <2> QED BY <2>3, <2>4
  <1> QED BY <1>6, <1>7

\* A response comes: it is told of, unless it comes too late.
LEMMA ResponseOwners ==
  ASSUME Types, TimerInv, StreamInv, IdsInv, ExecInv, OwnInv, NEW c, ClientGets(c), ClientResponse(c)
  PROVE  OwnInv' /\ \A d \in Elems(toSvc') : IsResponse(d) => Executed(d.call)
  <1> DEFINE m == CtxOf(c.id)
             f == Message(Client, c)[1]
             answer == Event("SC_SERVICE_RCV_MSG", f.handle, f.call)
             failure == Event("SC_SND_FAILURE", m.handle, m.call)
  <1>1. /\ c.type = "MSG" /\ c.isFinal # "C" /\ Accepted(Client, c) /\ sentRequestIds' = OtherCtxs(c.id)
        /\ UNCHANGED <<context, status, channel, toSc>> /\ toSvc \in Seq(Events)
        /\ Open(Client) /\ wire[Server] # <<>> /\ c = Head(wire[Server])
    BY DEF ClientGets, ClientResponse, Types, SvcTypes
  <1>2. c \in Numbered /\ c.id \in Nat /\ \E i \in 1..Len(sentRequestIds) : sentRequestIds[i].id = c.id
    BY <1>1, ClientGetsType
  <1>3. m \in Waited /\ m.id = c.id /\ m.handle # OPN /\ m \in Ctx
    BY <1>1, AnswerCtx, UniqueCtx
  <1>4. Waited' = Waited \ {m}
    BY <1>1, <1>2, OthersWaited
  <1>5. Open(Client) /\ Open(Client)'
    BY ClientStaysOpen
  <1>6. toSvc' = IF m.timeoutExpired THEN toSvc ELSE Append(toSvc, IF c.isFinal = "F" THEN answer ELSE failure)
    <2>1. c.isFinal = "F" \/ c.isFinal = "A"
      BY <1>1, <1>2 DEF Numbered
    <2> QED BY <2>1 DEF ClientResponse
  <1>7. \A d \in Elems(toSvc) : IsResponse(d) => Executed(d.call)
    BY DEF ExecInv, AnswersDue, IsResponse
  <1>8. failure \in Events /\ OwnerOf(failure) = OwnerOf(m) /\ ~IsLost(failure) /\ ~IsResponse(failure)
    BY <1>3 DEF Event, Events, EventTypes, Ctx, OwnerOf, IsLost, IsResponse
  <1>9. ASSUME c.isFinal = "F"
        PROVE  answer \in Events /\ OwnerOf(answer) = OwnerOf(m) /\ ~IsLost(answer) /\ Executed(answer.call)
    <2>1. Carries(c) /\ c \in Elems(wire[Server])
      BY <1>1, <1>9, ElemsTail, EndsPeer DEF Carries, Types, ChanTypes
    <2>2. Same(f, c.body)
      BY <1>1, <1>2, <2>1, TakenFirst, EndsPeer
    <2>3. Same(c.body, m)
      BY <1>3, <2>1, EndsPeer DEF IdsInv, ChunksMatch
    <2>4. Executed(c.body.call)
      BY <2>1 DEF ExecInv, AnswersDue
    <2>5. f.handle = m.handle /\ f.call = m.call
      BY <2>2, <2>3 DEF Same
    <2> HIDE DEF f, m
    <2> QED BY <1>3, <2>3, <2>4, <2>5 DEF Event, Events, EventTypes, Ctx, OwnerOf, IsLost, Same
  <1> HIDE DEF m, f, answer, failure
  <1>10. CASE m.timeoutExpired
    <2>1. Waiting' = Waiting /\ toSvc' = toSvc
      BY <1>4, <1>6, <1>10 DEF Waiting
    <2> QED BY <1>1, <1>5, <1>7, <2>1, OwnersStay
  <1>11. CASE ~m.timeoutExpired
    <2> DEFINE e == IF c.isFinal = "F" THEN answer ELSE failure
    <2>1. m \in Waiting /\ Waiting' = Waiting \ {m} /\ toSvc' = Append(toSvc, e)
      BY <1>3, <1>4, <1>6, <1>11 DEF Waiting
    <2>2. e \in Events /\ OwnerOf(e) = OwnerOf(m) /\ ~IsLost(e) /\ (IsResponse(e) => Executed(e.call))
      BY <1>8, <1>9
    <2> HIDE DEF e
    <2>3. OwnInv'
      BY <1>1, <1>5, <2>1, <2>2, OwnersSettled
    <2> QED BY <1>1, <1>7, <2>1, <2>2, <2>3, ElemsAppend
  <1> QED BY <1>10, <1>11

-----------------------------------------------------------------------------
(* The calls, at every step.                                               *)

CallsInv == IdsInv /\ ExecInv /\ ExpiredOnce /\ OwnInv

\* At first nothing is on its way.
LEMMA InitCalls ==
  ASSUME Init
  PROVE  CallsInv /\ RPC!RpcInit
  <1>1. /\ sentRequestIds = <<>> /\ wire = [p \in Ends |-> <<>>] /\ toSc = <<>> /\ toSvc = <<>>
        /\ context = [h \in Handles |-> 0] /\ channel = TRUE /\ todo = {}
        /\ status = [c \in Calls |-> "idle"] /\ executed = [c \in Calls |-> 0]
    BY DEF Init
  <1>2. wire[Client] = <<>> /\ wire[Server] = <<>> /\ \A p \in Ends : wire[p] = <<>>
    BY <1>1, EndsPeer
  <1>3. Elems(<<>>) = {}
    BY ElemsSmall
  <1>4. Waited = {} /\ Waiting = {} /\ Down = {} /\ Up = {} /\ Wait = {}
    BY <1>1, <1>3 DEF Waited, Waiting, Down, Up, Wait, Owners
  <1>5. IdsInv /\ ExpiredOnce
    BY <1>1, <1>2, <1>3, <1>4 DEF IdsInv, IdsBelow, ChunksMatch, TodoMatch, ExpiredOnce
  <1>6. ExecInv
    <2>1. RequestsApart /\ ChunksOnce
      BY <1>1, <1>2, PairwiseSmall DEF RequestsApart, ChunksOnce
    <2>2. RequestsNew /\ ChunksNew /\ AnswersDue
      BY <1>1, <1>2, <1>3 DEF RequestsNew, ChunksNew, AnswersDue
    <2>3. OnceAtMost
      BY <1>1 DEF OnceAtMost
    <2> QED BY <2>1, <2>2, <2>3 DEF ExecInv
  <1>7. OwnInv
    <2>1. \A h \in Handles : context[h] = 0
      BY <1>1
    <2>2. Pairwise(toSvc, NotBefore) /\ Pairwise(toSvc, DistinctOwners)
      BY <1>1, PairwiseSmall
    <2>3. Elems(toSvc) = {}
      BY <1>1, <1>3
    <2>4. ContextSound /\ ChannelKnown /\ Accounted
      BY <1>1, <2>1 DEF ContextSound, ChannelKnown, Accounted
    <2>5. EventsSound /\ OneOwner
      BY <1>4, <2>2, <2>3 DEF EventsSound, OneOwner
    <2> QED BY <2>4, <2>5 DEF OwnInv
  <1> QED BY <1>1, <1>5, <1>6, <1>7 DEF CallsInv, RPC!RpcInit

\* Steps that carry nothing new keep the identifiers in order.
LEMMA QuietIds ==
  ASSUME Types, TimerInv, IdsInv, ListKept, QuietStep
  PROVE  IdsInv'
  <1>1. QuietWires /\ todo' \subseteq todo
    BY QuietStepWires
  <1>2. \A p \in Ends : \A x \in Elems(wire'[p]) : x \in Elems(wire[p]) \/ NewChunk(x)
    BY <1>1, EndsPeer DEF QuietWires, QuietOn, NoNews, NewChunk, Ends
  <1> QED BY <1>1, <1>2, IdsKept DEF ListKept

\* And they execute nothing.
LEMMA QuietExec ==
  ASSUME Types, TimerInv, IdsInv, ExecInv, QuietStep, executed' = executed, status' = status,
         toSc' = toSc \/ (toSc # <<>> /\ toSc' = Tail(toSc)),
         \A d \in Elems(toSvc') : IsResponse(d) => Executed(d.call)
  PROVE  ExecInv'
  <1>1. QuietWires /\ todo' \subseteq todo
    BY QuietStepWires
  <1>2. StatusKept /\ QuietOn(Client)
    BY <1>1 DEF StatusKept, QuietWires
  <1>3. \A x \in Elems(wire'[Server]) : Carries(x) => Executed(x.body.call)
    BY <1>1 DEF QuietWires, QuietOn, NoNews, ExecInv, AnswersDue
  <1>4. \A q \in todo' : Executed(q.call)
    BY <1>1 DEF ExecInv, AnswersDue
  <1> QED BY <1>2, <1>3, <1>4, ExecKept DEF IsResponse

\* A request of the services begins a call, or fails at once.
LEMMA RequestRpc ==
  ASSUME Types, NEW c \in Calls, NEW n \in Sizes, Request(c, n)
  PROVE  RpcStep
  <1>1. status[c] = "idle" /\ executed' = executed /\ status \in [Calls -> Statuses]
    BY DEF Request, Types, SvcTypes
  <1>2. CASE status' = [status EXCEPT ![c] = "pending"]
    <2>1. RPC!Issue(c)
      BY <1>1, <1>2 DEF RPC!Issue
    <2> QED BY <2>1 DEF RpcStep, RPC!RpcNext
  <1>3. CASE status' = [status EXCEPT ![c] = "failed"]
    <2>1. status' = [d \in Calls |-> IF d \in {c} THEN "failed" ELSE status[d]]
      BY <1>1, <1>3
    <2>2. RPC!Fail({c})
      BY <1>1, <2>1 DEF RPC!Fail
    <2> QED BY <2>2 DEF RpcStep, RPC!RpcNext
  <1> QED BY <1>2, <1>3 DEF Request

\* Every step of the channel keeps the calls in order, and is a step of the
\* abstract calls.
LEMMA CallsStep ==
  ASSUME Types, TimerInv, StreamInv, CallsInv, [Next]_vars
  PROVE  CallsInv' /\ RpcStep
  <1>0. IdsInv /\ ExecInv /\ ExpiredOnce /\ OwnInv /\ ListKept /\ ExpiredOnce'
    BY ListStep, ExpiredStep DEF CallsInv
  <1>1. \A d \in Elems(toSvc) : IsResponse(d) => Executed(d.call)
    BY <1>0 DEF ExecInv, AnswersDue, IsResponse
  <1> DEFINE Goal == OwnInv' /\ IdsInv' /\ ExecInv' /\ RpcStep
  <1>2. ASSUME NEW c \in Calls, NEW n \in Sizes, Request(c, n) PROVE Goal
    <2>1. QuietStep
      BY <1>2 DEF QuietStep
    <2> QED BY <1>0, <1>2, <2>1, QuietIds, RequestOwners, RequestRpc
  <1>3. ASSUME TreatServicesEvent PROVE Goal
    <2>1. QuietStep
      BY <1>3 DEF QuietStep
    <2> QED BY <1>0, <1>3, <2>1, QuietIds, EventOwners
  <1>4. ASSUME NEW r, Pops(r), RefuseRequest(r) PROVE Goal
    <2>1. QuietStep
      BY <1>4 DEF QuietStep
    <2>2. UNCHANGED <<executed, status>> /\ toSc # <<>> /\ toSc' = Tail(toSc)
      BY <1>4 DEF Pops
    <2>3. OwnInv' /\ \A d \in Elems(toSvc') : IsResponse(d) => d \in Elems(toSvc)
      BY <1>0, <1>4, RefuseOwners
    <2>4. IdsInv'
      BY <1>0, <2>1, QuietIds
    <2>5. ExecInv'
      BY <1>0, <1>1, <2>1, <2>2, <2>3, QuietExec
    <2> QED BY <2>2, <2>3, <2>4, <2>5 DEF RpcStep
  <1>5. ASSUME NEW r, Pops(r), SendRequest(r) PROVE Goal
    BY <1>0, <1>5, SendOwners DEF Pops, RpcStep
  <1>6. ASSUME NEW r, Pops(r),
               \/ r.chunks > 1 /\ UnrecordedRequest(r)
               \/ \E k \in 0..(r.chunks - 1) : AbortRequest(r, k)
        PROVE  Goal
    BY <1>0, <1>6, AbortOwners DEF Pops, RpcStep
  <1>7. ASSUME \/ UNCHANGED vars
               \/ \E t \in running : TimerExpires(t)
               \/ AsksRenewal
               \/ LateRenewal
               \/ \E c : ClientGets(c) /\ ClientChunk(c)
               \/ \E c : ClientGets(c) /\ TakesRenewal(c)
               \/ \E farewell \in BOOLEAN : ServerCloses(farewell)
               \/ \E c : ServerGets(c) /\ ServerChunk(c)
               \/ \E c : ServerGets(c) /\ ServerRenews(c)
        PROVE  Goal
    <2>1. QuietStep
      BY <1>7 DEF QuietStep
    <2>2. executed' = executed
      BY <1>7 DEF vars, svcVars, TimerExpires, AsksRenewal, LateRenewal, ClientGets, ServerCloses,
                  ServerChunk, ServerRenews
    <2>3. OwnInv' /\ UNCHANGED <<toSvc, toSc, status>>
      BY <1>0, <1>7, StillOwners
    <2>4. IdsInv'
      BY <1>0, <2>1, QuietIds
    <2>5. ExecInv'
      BY <1>0, <1>1, <2>1, <2>2, <2>3, QuietExec
    <2> QED BY <2>2, <2>3, <2>4, <2>5 DEF RpcStep
  <1>8. ASSUME NEW t \in posted, TreatRequestTimeout(t) PROVE Goal
    <2>1. QuietStep
      BY <1>8 DEF QuietStep
    <2>2. UNCHANGED <<executed, status, toSc>>
      BY <1>8 DEF TreatRequestTimeout
    <2>3. OwnInv' /\ \A d \in Elems(toSvc') : IsResponse(d) => d \in Elems(toSvc)
      BY <1>0, <1>8, TimeoutOwners
    <2>4. IdsInv'
      BY <1>0, <2>1, QuietIds
    <2>5. ExecInv'
      BY <1>0, <1>1, <2>1, <2>2, <2>3, QuietExec
    <2> QED BY <2>2, <2>3, <2>4, <2>5 DEF RpcStep
  <1>9. ASSUME NEW ev, NEW used, NEW farewell \in BOOLEAN, ClientCloses(ev, used, farewell) PROVE Goal
    <2>1. QuietStep
      BY <1>9 DEF QuietStep
    <2>2. UNCHANGED <<executed, status>> /\ (toSc' = toSc \/ (toSc # <<>> /\ toSc' = Tail(toSc)))
      BY <1>9 DEF ClientCloses
    <2>3. OwnInv' /\ \A d \in Elems(toSvc') : IsResponse(d) => d \in Elems(toSvc)
      BY <1>0, <1>9, ClientClosesOwners DEF IsNews, IsResponse
    <2>4. IdsInv'
      BY <1>0, <2>1, QuietIds
    <2>5. ExecInv'
      BY <1>0, <1>1, <2>1, <2>2, <2>3, QuietExec
    <2> QED BY <2>2, <2>3, <2>4, <2>5 DEF RpcStep
  <1>10. ASSUME NEW c, ClientGets(c), ClientResponse(c) PROVE Goal
    <2>1. QuietStep
      BY <1>10 DEF QuietStep
    <2>2. UNCHANGED <<executed, status, toSc>>
      BY <1>10 DEF ClientGets
    <2>3. OwnInv' /\ \A d \in Elems(toSvc') : IsResponse(d) => Executed(d.call)
      BY <1>0, <1>10, ResponseOwners
    <2>4. IdsInv'
      BY <1>0, <2>1, QuietIds
    <2>5. ExecInv'
      BY <1>0, <2>1, <2>2, <2>3, QuietExec
    <2> QED BY <2>2, <2>3, <2>4, <2>5 DEF RpcStep
  <1>11. ASSUME NEW c, ServerGets(c), ServerRequest(c) PROVE Goal
    <2>1. OwnInv'
      BY <1>0, <1>11, StillOwners
    <2>2. /\ IdsInv' /\ ExecInv' /\ OnTheWay(c.body.call)
          /\ executed' = [executed EXCEPT ![c.body.call] = 1] /\ status' = status
      BY <1>0, <1>11, ServerRequestCalls
    <2>3. c.body.call \in Calls /\ RPC!Execute(c.body.call)
      BY <2>2 DEF OnTheWay, RPC!Execute
    <2> QED BY <2>1, <2>2, <2>3 DEF RpcStep, RPC!RpcNext
  <1>12. ASSUME NEW q \in todo, NEW n \in Sizes, Respond(q, n) PROVE Goal
    <2>1. OwnInv'
      BY <1>0, <1>12, StillOwners
    <2>2. IdsInv' /\ ExecInv'
      BY <1>0, <1>12, RespondCalls
    <2>3. UNCHANGED <<status, executed>>
      BY <1>12 DEF Respond
    <2> QED BY <2>1, <2>2, <2>3 DEF RpcStep
  <1> HIDE DEF Goal
  <1>13. CASE Next
    <2>1. Step
      BY <1>13, NextSteps
    <2> QED BY <1>2, <1>3, <1>4, <1>5, <1>6, <1>7, <1>8, <1>9, <1>10, <1>11, <1>12, <2>1, <1>0
        DEF Step, Goal, CallsInv
  <1>14. CASE UNCHANGED vars
    BY <1>0, <1>7, <1>14 DEF Goal, CallsInv
  <1> QED BY <1>13, <1>14

-----------------------------------------------------------------------------
(* The theorems.                                                           *)

\* The inductive invariant of a secure channel and of the request handles of
\* its client: the types, the timers of the requests (TimerInv), the chunks
\* on the wires (StreamInv), and for the calls that what is on its way belongs
\* to the request of its identifier, is executed once, and that a handle in
\* use has exactly one owner (CallsInv).
THEOREM CallsInvariant == Spec => [](Types /\ TimerInv /\ StreamInv /\ CallsInv)
  <1>1. Init => Types /\ TimerInv /\ StreamInv /\ CallsInv
    BY InitTypes, InitTimers, InitStream, InitCalls
  <1>2. Types /\ TimerInv /\ StreamInv /\ CallsInv /\ [Next]_vars
        => (Types /\ TimerInv /\ StreamInv /\ CallsInv)'
    BY TypesStep, TimersStep, StreamStep, CallsStep
  <1> QED BY <1>1, <1>2, PTL DEF Spec

\* No handle is lost between the services and the channel: a call that is
\* waited for has one, and a handle in use is on its way down, waited for, or
\* about to be told free (the handles of request_handle_bs.c, the list
\* sentRequestIds of the connection and the events that the channel posts).
\* The one exception is the handle of a call that has failed, the one that
\* service_mgr.c does not free when a message cannot be encoded.
THEOREM HandlesNeverLost == Spec => []HandlesAccounted
  <1>1. Types /\ OwnInv => HandlesAccounted
    <2> SUFFICES ASSUME Types, OwnInv, NEW h \in Handles, context[h] # 0
                 PROVE  OnItsWay(h) \/ status[context[h]] = "failed"
      BY DEF HandlesAccounted, OwnInv, ContextSound
    <2> USE DEF OnItsWay
    <2>1. \A x : OwnerOf(x) = <<h, context[h]>> => x.handle = h /\ x.call = context[h]
      BY DEF OwnerOf
    <2>2. CASE \E e \in Elems(toSvc) : IsLost(e)
      BY <2>2 DEF Elems, IsLost
    <2>3. CASE <<h, context[h]>> \in Down
      <3>1. PICK r \in Elems(toSc) : OwnerOf(r) = <<h, context[h]>>
        BY <2>3 DEF Down, Owners
      <3> QED BY <2>1, <3>1 DEF Elems
    <2>4. CASE <<h, context[h]>> \in Wait
      <3>1. PICK m \in Waited : OwnerOf(m) = <<h, context[h]>> /\ ~m.timeoutExpired
        BY <2>4 DEF Wait, Owners, Waiting
      <3> QED BY <2>1, <3>1 DEF Waited, Elems
    <2>5. CASE <<h, context[h]>> \in Up
      <3>1. PICK e \in Elems(toSvc) : OwnerOf(e) = <<h, context[h]>>
        BY <2>5 DEF Up, Owners
      <3> QED BY <2>1, <3>1 DEF Elems
    <2> QED BY <2>2, <2>3, <2>4, <2>5 DEF OwnInv, Accounted
  <1> QED BY <1>1, CallsInvariant, PTL DEF CallsInv

\* The two ends of the channel and the request handles of the client together
\* implement the abstract calls: a request is executed at most once, it is
\* answered only by its own answer and only if it was executed, and it ends
\* once, whatever renewals, timeouts, aborted messages and losses of the
\* channel come in between.
THEOREM ChannelImplementsCalls == Spec => CallsAtMostOnce
  <1>1. Init => RPC!RpcInit
    BY InitCalls
  <1>2. Types /\ TimerInv /\ StreamInv /\ CallsInv /\ [Next]_vars => [RPC!RpcNext]_(RPC!rpcVars)
    BY CallsStep DEF RpcStep, RPC!rpcVars
  <1> QED BY <1>1, <1>2, CallsInvariant, PTL DEF Spec, CallsAtMostOnce, RPC!RpcSafety

-----------------------------------------------------------------------------
(* The requests that are waited for, and where they are.                   *)

\* A chunk of the client that asks for an answer.
Asks(y) == y.type = "OPN" \/ (y.type = "MSG" /\ y.isFinal = "F")
IsErr(x) == x.type = "ERR"

\* Some request that is waited for is that of the chunk x, of the same kind.
AwaitsOf(id, own) == \E m \in Waited : m.id = id /\ (m.handle = OPN <=> own)
Awaited ==
  Open(Client) =>
    /\ \A x \in Elems(wire[Server]) : ~IsErr(x) => AwaitsOf(x.id, x.type = "OPN")
    /\ \A y \in Elems(wire[Client]) : Asks(y) => AwaitsOf(y.id, y.type = "OPN")
    /\ \A q \in todo : AwaitsOf(q.id, FALSE)

\* A request is in one place: on its way to the server, with the services of
\* the server, or on its way back.
AskedOnce == {e \in Chunks \X Chunks : Asks(e[1]) /\ Asks(e[2]) => e[1].id # e[2].id}
AnsweredOnce ==
  {e \in Chunks \X Chunks : e[1].isFinal # "C" /\ ~IsErr(e[1]) /\ ~IsErr(e[2]) => e[1].id # e[2].id}
OnePlace ==
  /\ Pairwise(wire[Client], AskedOnce)
  /\ Pairwise(wire[Server], AnsweredOnce)
  /\ \A q, r \in todo : q.id = r.id => q = r
  /\ \A q \in todo, y \in Elems(wire[Client]) : Asks(y) => q.id # y.id
  /\ \A q \in todo, x \in Elems(wire[Server]) : ~IsErr(x) => q.id # x.id
  /\ \A x \in Elems(wire[Server]), y \in Elems(wire[Client]) : ~IsErr(x) /\ Asks(y) => x.id # y.id

PlaceInv == Awaited /\ OnePlace

-----------------------------------------------------------------------------
(* The tokens of both ends.                                                *)

Current(p) == conn[p].currentSecurityToken
Precedent(p) == conn[p].precedentSecurityToken
Active(p) == conn[p].serverNewSecuTokenActive
IsOPN(x) == x.type = "OPN"
TokensApart(p) ==
  /\ Current(p).id \in TokenIds /\ Precedent(p).id \in TokenIds
  /\ Current(p).id # Precedent(p).id

\* What the server can read of what comes.
AfterAsk == {e \in Chunks \X Chunks : IsOPN(e[1]) => ~IsOPN(e[2]) /\ e[2].tok = Current(Server)}
ServerTokens ==
  /\ \A y \in Elems(wire[Client]) : ~IsErr(y)
  /\ ~Open(Server) => Current(Server) = NoToken
  /\ Open(Server) =>
       /\ TokensApart(Server)
       /\ \A y \in Elems(wire[Client]) : ~IsOPN(y) => y.tok \in {Current(Server), Precedent(Server)}
       /\ Pairwise(wire[Client], AfterAsk)

\* What the client can.
AfterGrant ==
  {e \in Chunks \X Chunks : IsOPN(e[1]) => ~IsOPN(e[2]) /\ (~IsErr(e[2]) => e[2].tok = Current(Client))}
ClientTokens ==
  Open(Client) =>
    /\ TokensApart(Client) /\ Active(Client)
    /\ \A x \in Elems(wire[Server]) :
         /\ ~IsOPN(x) /\ ~IsErr(x) => x.tok \in {Current(Client), Precedent(Client)}
         /\ IsOPN(x) => x.tok.id # Current(Client).id /\ x.tok.id \in TokenIds
    /\ Pairwise(wire[Server], AfterGrant)

\* The two ends have the same tokens, or the client is one renewal behind.
InStep ==
  /\ Current(Client) = Current(Server) /\ Precedent(Client) = Precedent(Server)
  /\ \A x \in Elems(wire[Server]) : ~IsOPN(x)
Behind ==
  /\ Current(Client) = Precedent(Server) /\ ~Active(Server)
  /\ ClientState = "SC_CONNECTED_RENEW"
  /\ \A y \in Elems(wire[Client]) : ~IsOPN(y) /\ y.tok = Precedent(Server)
  /\ \A x \in Elems(wire[Server]) : IsOPN(x) => x.tok = Current(Server)
Together == Open(Client) /\ Open(Server) => InStep \/ Behind

\* The channel's own request.
OwnRequest ==
  Open(Client) =>
    /\ \A m, n \in Waited : m.handle = OPN /\ n.handle = OPN => m.id = n.id
    /\ \A m \in Waited : m.handle = OPN => ClientState = "SC_CONNECTED_RENEW"
    /\ ClientState = "SC_CONNECTED_RENEW" =>
         (\E m \in Waited : m.handle = OPN) \/ ~Open(Server) \/ Behind

TokenInv == ServerTokens /\ ClientTokens /\ Together /\ OwnRequest

-----------------------------------------------------------------------------
(* Where the requests are, from step to step.                              *)

\* The request m is still waited for after the step.
StillWaited(m) == \E n \in Waited' : n.id = m.id /\ n.handle = m.handle

\* No chunk and no request of the server's services has the identifier i.
Unused(i) ==
  /\ \A x \in Elems(wire[Server]) : ~IsErr(x) => x.id # i
  /\ \A y \in Elems(wire[Client]) : Asks(y) => y.id # i
  /\ \A q \in todo : q.id # i

\* A request that is waited for is so after the step.
LEMMA AwaitsKept ==
  ASSUME NEW id, NEW own, AwaitsOf(id, own), \A m \in Waited : m.id = id => StillWaited(m)
  PROVE  AwaitsOf(id, own)'
  BY DEF AwaitsOf, StillWaited

\* Nothing new is asked or answered.
LEMMA PlacesLess ==
  ASSUME PlaceInv,
         \A y \in Elems(wire'[Client]) : Asks(y) => y \in Elems(wire[Client]),
         \A x \in Elems(wire'[Server]) : ~IsErr(x) => x \in Elems(wire[Server]),
         Pairwise(wire'[Client], AskedOnce), Pairwise(wire'[Server], AnsweredOnce),
         todo' \subseteq todo,
         Open(Client)' => Open(Client) /\ \A m \in Waited : StillWaited(m) \/ Unused(m.id)'
  PROVE  PlaceInv'
  <1>1. OnePlace'
    BY DEF PlaceInv, OnePlace
  <1>2. ASSUME Open(Client)', NEW id, NEW own, AwaitsOf(id, own), ~Unused(id)'
        PROVE  AwaitsOf(id, own)'
    BY <1>2, AwaitsKept
  <1>3. Awaited'
    <2> SUFFICES ASSUME Open(Client)'
                 PROVE  /\ \A x \in Elems(wire'[Server]) : ~IsErr(x) => AwaitsOf(x.id, x.type = "OPN")'
                        /\ \A y \in Elems(wire'[Client]) : Asks(y) => AwaitsOf(y.id, y.type = "OPN")'
                        /\ \A q \in todo' : AwaitsOf(q.id, FALSE)'
      BY DEF Awaited
    <2>1. ASSUME NEW x \in Elems(wire'[Server]), ~IsErr(x) PROVE AwaitsOf(x.id, x.type = "OPN")'
      <3>1. AwaitsOf(x.id, x.type = "OPN")
        BY <2>1 DEF PlaceInv, Awaited
      <3>2. ~Unused(x.id)'
        BY <2>1 DEF Unused
      <3> QED BY <3>1, <3>2, <1>2
    <2>2. ASSUME NEW y \in Elems(wire'[Client]), Asks(y) PROVE AwaitsOf(y.id, y.type = "OPN")'
      <3>1. AwaitsOf(y.id, y.type = "OPN")
        BY <2>2 DEF PlaceInv, Awaited
      <3>2. ~Unused(y.id)'
        BY <2>2 DEF Unused
      <3> QED BY <3>1, <3>2, <1>2
    <2>3. ASSUME NEW q \in todo' PROVE AwaitsOf(q.id, FALSE)'
      <3>1. AwaitsOf(q.id, FALSE)
        BY <2>3 DEF PlaceInv, Awaited
      <3>2. ~Unused(q.id)'
        BY <2>3 DEF Unused
      <3> QED BY <3>1, <3>2, <1>2
    <2> QED BY <2>1, <2>2, <2>3
  <1> QED BY <1>1, <1>3 DEF PlaceInv

\* Something is asked with a new identifier.
LEMMA PlacesAsk ==
  ASSUME Types, IdsInv, PlaceInv, Open(Client), NEW m \in Seq(Chunks), NEW id, id = clientNextReqId,
         wire'[Client] = wire[Client] \o m, wire'[Server] = wire[Server], todo' = todo,
         Pairwise(m, AskedOnce),
         \A x \in Elems(m) : Asks(x) => x.id = id /\ AwaitsOf(id, x.type = "OPN")',
         \A n \in Waited : StillWaited(n)
  PROVE  PlaceInv'
  <1>1. wire[Client] \in Seq(Chunks) /\ wire[Server] \in Seq(Chunks) /\ clientNextReqId \in Nat
    BY EndsPeer DEF Types, ChanTypes, ListTypes
  <1>2. Elems(wire'[Client]) = Elems(wire[Client]) \cup Elems(m)
    BY <1>1, ElemsConcat
  <1>3. /\ \A x \in Elems(wire[Client]) : x.id # clientNextReqId
        /\ \A x \in Elems(wire[Server]) : x.id # clientNextReqId
        /\ \A q \in todo : q.id # clientNextReqId
    <2>1. \A i : i < clientNextReqId => i # clientNextReqId
      BY <1>1
    <2> QED BY <2>1, EndsPeer DEF IdsInv, IdsBelow
  <1>4. Pairwise(wire'[Client], AskedOnce)
    <2>1. \A d \in Elems(wire[Client]), e \in Elems(m) : <<d, e>> \in AskedOnce
      <3>1. Elems(wire[Client]) \subseteq Chunks /\ Elems(m) \subseteq Chunks
        BY <1>1, ElemsType
      <3> QED BY <1>3, <3>1 DEF AskedOnce
    <2>2. Pairwise(wire[Client], AskedOnce)
      BY DEF PlaceInv, OnePlace
    <2> QED BY <1>1, <2>1, <2>2, PairwiseConcat
  <1>5. OnePlace'
    BY <1>2, <1>3, <1>4 DEF PlaceInv, OnePlace
  <1>6. \A i, own : AwaitsOf(i, own) => AwaitsOf(i, own)'
    BY AwaitsKept
  <1>7. /\ \A x \in Elems(wire[Server]) : ~IsErr(x) => AwaitsOf(x.id, x.type = "OPN")
        /\ \A y \in Elems(wire[Client]) : Asks(y) => AwaitsOf(y.id, y.type = "OPN")
        /\ \A q \in todo : AwaitsOf(q.id, FALSE)
    BY DEF PlaceInv, Awaited
  <1>8. ASSUME NEW y \in Elems(wire'[Client]), Asks(y) PROVE AwaitsOf(y.id, y.type = "OPN")'
    <2>1. CASE y \in Elems(wire[Client])
      <3>1. AwaitsOf(y.id, y.type = "OPN")
        BY <1>7, <1>8, <2>1
      <3> QED BY <1>6, <3>1
    <2>2. CASE y \in Elems(m)
      <3>1. y.id = id /\ AwaitsOf(id, y.type = "OPN")'
        BY <1>8, <2>2
      <3> QED BY <3>1
    <2> QED BY <1>2, <1>8, <2>1, <2>2
  <1>9. Awaited'
    BY <1>6, <1>7, <1>8 DEF Awaited
  <1> QED BY <1>5, <1>9 DEF PlaceInv

\* The request of the chunk c comes to the services of the server.
LEMMA PlacesTaken ==
  ASSUME Types, PlaceInv, wire[Client] # <<>>, NEW c, c = Head(wire[Client]), Asks(c), c.type # "OPN",
         wire'[Client] = Tail(wire[Client]), wire'[Server] = wire[Server],
         NEW r, todo' = todo \cup {r}, r.id = c.id,
         Open(Client)' => Open(Client), \A n \in Waited : StillWaited(n)
  PROVE  PlaceInv'
  <1>1. wire[Client] \in Seq(Chunks)
    BY EndsPeer DEF Types, ChanTypes
  <1>2. c \in Elems(wire[Client]) /\ Elems(wire'[Client]) \subseteq Elems(wire[Client])
    BY <1>1, ElemsTail
  <1>3. Pairwise(wire'[Client], AskedOnce) /\ \A y \in Elems(wire'[Client]) : Asks(y) => y.id # c.id
    <2>1. Pairwise(wire[Client], AskedOnce)
      BY DEF PlaceInv, OnePlace
    <2>2. Pairwise(Tail(wire[Client]), AskedOnce) /\ \A y \in Elems(Tail(wire[Client])) : <<c, y>> \in AskedOnce
      BY <1>1, <2>1, PairwiseTail
    <2> QED BY <2>2 DEF AskedOnce
  <1>4. OnePlace'
    BY <1>2, <1>3 DEF PlaceInv, OnePlace
  <1>5. ASSUME NEW id, NEW own, AwaitsOf(id, own) PROVE AwaitsOf(id, own)'
    BY <1>5, AwaitsKept
  <1>6. Open(Client)' => AwaitsOf(c.id, FALSE)
    <2>1. Open(Client)' => AwaitsOf(c.id, c.type = "OPN")
      BY <1>2 DEF PlaceInv, Awaited
    <2> QED BY <2>1 DEF AwaitsOf
  <1>7. Awaited'
    <2> SUFFICES ASSUME Open(Client)'
                 PROVE  /\ \A x \in Elems(wire'[Server]) : ~IsErr(x) => AwaitsOf(x.id, x.type = "OPN")'
                        /\ \A y \in Elems(wire'[Client]) : Asks(y) => AwaitsOf(y.id, y.type = "OPN")'
                        /\ \A q \in todo' : AwaitsOf(q.id, FALSE)'
      BY DEF Awaited
    <2>1. ASSUME NEW x \in Elems(wire'[Server]), ~IsErr(x) PROVE AwaitsOf(x.id, x.type = "OPN")'
      <3>1. AwaitsOf(x.id, x.type = "OPN")
        BY <2>1 DEF PlaceInv, Awaited
      <3> QED BY <3>1, <1>5
    <2>2. ASSUME NEW y \in Elems(wire'[Client]), Asks(y) PROVE AwaitsOf(y.id, y.type = "OPN")'
      <3>1. AwaitsOf(y.id, y.type = "OPN")
        BY <1>2, <2>2 DEF PlaceInv, Awaited
      <3> QED BY <3>1, <1>5
    <2>3. ASSUME NEW q \in todo' PROVE AwaitsOf(q.id, FALSE)'
      <3>1. AwaitsOf(q.id, FALSE)
        BY <1>6, <2>3 DEF PlaceInv, Awaited
      <3> QED BY <3>1, <1>5
    <2> QED BY <2>1, <2>2, <2>3
  <1> QED BY <1>4, <1>7 DEF PlaceInv

\* A request of the channel's own is answered.
LEMMA PlacesGranted ==
  ASSUME Types, PlaceInv, wire[Client] # <<>>, NEW c, c = Head(wire[Client]), c.type = "OPN",
         wire'[Client] = Tail(wire[Client]), NEW g \in Chunks, g.type = "OPN", g.id = c.id,
         wire'[Server] = (IF Open(Client) THEN wire[Server] \o <<g>> ELSE wire[Server]),
         todo' = todo, Open(Client)' <=> Open(Client), \A n \in Waited : StillWaited(n)
  PROVE  PlaceInv'
  <1>1. wire[Client] \in Seq(Chunks) /\ wire[Server] \in Seq(Chunks) /\ Asks(c)
    BY EndsPeer DEF Types, ChanTypes, Asks
  <1>2. c \in Elems(wire[Client]) /\ Elems(wire'[Client]) \subseteq Elems(wire[Client])
    BY <1>1, ElemsTail
  <1>3. Pairwise(wire'[Client], AskedOnce) /\ \A y \in Elems(wire'[Client]) : Asks(y) => y.id # c.id
    <2>1. Pairwise(wire[Client], AskedOnce)
      BY DEF PlaceInv, OnePlace
    <2>2. Pairwise(Tail(wire[Client]), AskedOnce) /\ \A y \in Elems(Tail(wire[Client])) : <<c, y>> \in AskedOnce
      BY <1>1, <2>1, PairwiseTail
    <2> QED BY <1>1, <2>2 DEF AskedOnce
  <1>4. \A x \in Elems(wire'[Server]) : x \in Elems(wire[Server]) \/ (x = g /\ Open(Client))
    <2> DEFINE u == <<g>>
    <2>1. Elems(u) = {g} /\ u \in Seq(Chunks)
      BY ElemsSmall
    <2> HIDE DEF u
    <2>2. Elems(wire[Server] \o u) = Elems(wire[Server]) \cup Elems(u)
      BY <1>1, <2>1, ElemsConcat
    <2> QED BY <2>1, <2>2 DEF u
  <1>5. \A x \in Elems(wire[Server]) : ~IsErr(x) => x.id # c.id
    BY <1>1, <1>2 DEF PlaceInv, OnePlace
  <1>6. Pairwise(wire'[Server], AnsweredOnce)
    <2> DEFINE u == <<g>>
    <2>1. Elems(u) = {g} /\ u \in Seq(Chunks) /\ Pairwise(u, AnsweredOnce)
      BY ElemsSmall, PairwiseSmall
    <2> HIDE DEF u
    <2>2. \A d \in Elems(wire[Server]), e \in Elems(u) : <<d, e>> \in AnsweredOnce
      <3>1. Elems(wire[Server]) \subseteq Chunks
        BY <1>1, ElemsType
      <3> QED BY <1>5, <2>1, <3>1 DEF AnsweredOnce
    <2>3. Pairwise(wire[Server], AnsweredOnce)
      BY DEF PlaceInv, OnePlace
    <2>4. Pairwise(wire[Server] \o u, AnsweredOnce)
      BY <1>1, <2>1, <2>2, <2>3, PairwiseConcat
    <2> QED BY <2>3, <2>4 DEF u
  <1>7. /\ \A q, r \in todo' : q.id = r.id => q = r
        /\ \A q \in todo', y \in Elems(wire'[Client]) : Asks(y) => q.id # y.id
    BY <1>2 DEF PlaceInv, OnePlace
  <1>8. \A q \in todo', x \in Elems(wire'[Server]) : ~IsErr(x) => q.id # x.id
    <2>1. \A q \in todo : q.id # c.id
      BY <1>1, <1>2 DEF PlaceInv, OnePlace
    <2> QED BY <1>4, <2>1 DEF PlaceInv, OnePlace
  <1>9. \A x \in Elems(wire'[Server]), y \in Elems(wire'[Client]) : ~IsErr(x) /\ Asks(y) => x.id # y.id
    BY <1>2, <1>3, <1>4 DEF PlaceInv, OnePlace
  <1>10. OnePlace'
    BY <1>3, <1>6, <1>7, <1>8, <1>9 DEF OnePlace
  <1>11. ASSUME NEW id, NEW own, AwaitsOf(id, own) PROVE AwaitsOf(id, own)'
    BY <1>11, AwaitsKept
  <1>12. Awaited'
    <2> SUFFICES ASSUME Open(Client)'
                 PROVE  /\ \A x \in Elems(wire'[Server]) : ~IsErr(x) => AwaitsOf(x.id, x.type = "OPN")'
                        /\ \A y \in Elems(wire'[Client]) : Asks(y) => AwaitsOf(y.id, y.type = "OPN")'
                        /\ \A q \in todo' : AwaitsOf(q.id, FALSE)'
      BY DEF Awaited
    <2>1. ASSUME NEW x \in Elems(wire'[Server]), ~IsErr(x) PROVE AwaitsOf(x.id, x.type = "OPN")'
      <3>1. CASE x \in Elems(wire[Server])
        <4>1. AwaitsOf(x.id, x.type = "OPN")
          BY <2>1, <3>1 DEF PlaceInv, Awaited
        <4> QED BY <4>1, <1>11
      <3>2. CASE x = g
        <4>1. AwaitsOf(c.id, c.type = "OPN")
          BY <1>1, <1>2 DEF PlaceInv, Awaited
        <4>2. AwaitsOf(c.id, c.type = "OPN") <=> AwaitsOf(x.id, x.type = "OPN")
          BY <3>2 DEF AwaitsOf
        <4> QED BY <4>1, <4>2, <1>11
      <3> QED BY <1>4, <2>1, <3>1, <3>2
    <2>2. ASSUME NEW y \in Elems(wire'[Client]), Asks(y) PROVE AwaitsOf(y.id, y.type = "OPN")'
      <3>1. AwaitsOf(y.id, y.type = "OPN")
        BY <1>2, <2>2 DEF PlaceInv, Awaited
      <3> QED BY <3>1, <1>11
    <2>3. ASSUME NEW q \in todo' PROVE AwaitsOf(q.id, FALSE)'
      <3>1. AwaitsOf(q.id, FALSE)
        BY <2>3 DEF PlaceInv, Awaited
      <3> QED BY <3>1, <1>11
    <2> QED BY <2>1, <2>2, <2>3
  <1> QED BY <1>10, <1>12 DEF PlaceInv

\* A request is answered with the chunks m.
LEMMA PlacesAnswered ==
  ASSUME Types, PlaceInv, NEW r \in todo, todo' = todo \ {r}, NEW m \in Seq(Chunks),
         wire'[Client] = wire[Client],
         wire'[Server] = (IF Open(Client) THEN wire[Server] \o m ELSE wire[Server]),
         \A x \in Elems(m) : x.id = r.id /\ x.type = "MSG", Pairwise(m, AnsweredOnce),
         Open(Client)' <=> Open(Client), \A n \in Waited : StillWaited(n)
  PROVE  PlaceInv'
  <1>1. wire[Server] \in Seq(Chunks)
    BY EndsPeer DEF Types, ChanTypes
  <1>2. \A x \in Elems(wire'[Server]) : x \in Elems(wire[Server]) \/ (x \in Elems(m) /\ Open(Client))
    <2>1. Elems(wire[Server] \o m) = Elems(wire[Server]) \cup Elems(m)
      BY <1>1, ElemsConcat
    <2> QED BY <2>1
  <1>3. /\ \A x \in Elems(wire[Server]) : ~IsErr(x) => x.id # r.id
        /\ \A y \in Elems(wire[Client]) : Asks(y) => y.id # r.id
        /\ \A q \in todo' : q.id # r.id
    BY DEF PlaceInv, OnePlace
  <1>4. Pairwise(wire'[Server], AnsweredOnce)
    <2>1. \A d \in Elems(wire[Server]), e \in Elems(m) : <<d, e>> \in AnsweredOnce
      <3>1. Elems(wire[Server]) \subseteq Chunks /\ Elems(m) \subseteq Chunks
        BY <1>1, ElemsType
      <3> QED BY <1>3, <3>1 DEF AnsweredOnce
    <2>2. Pairwise(wire[Server], AnsweredOnce)
      BY DEF PlaceInv, OnePlace
    <2>3. Pairwise(wire[Server] \o m, AnsweredOnce)
      BY <1>1, <2>1, <2>2, PairwiseConcat
    <2> QED BY <2>2, <2>3
  <1>5. \A q \in todo', x \in Elems(wire'[Server]) : ~IsErr(x) => q.id # x.id
    BY <1>2, <1>3 DEF PlaceInv, OnePlace
  <1>6. \A x \in Elems(wire'[Server]), y \in Elems(wire'[Client]) : ~IsErr(x) /\ Asks(y) => x.id # y.id
    BY <1>2, <1>3 DEF PlaceInv, OnePlace
  <1>7. OnePlace'
    BY <1>4, <1>5, <1>6 DEF PlaceInv, OnePlace
  <1>8. ASSUME NEW id, NEW own, AwaitsOf(id, own) PROVE AwaitsOf(id, own)'
    BY <1>8, AwaitsKept
  <1>9. Awaited'
    <2> SUFFICES ASSUME Open(Client)'
                 PROVE  /\ \A x \in Elems(wire'[Server]) : ~IsErr(x) => AwaitsOf(x.id, x.type = "OPN")'
                        /\ \A y \in Elems(wire'[Client]) : Asks(y) => AwaitsOf(y.id, y.type = "OPN")'
                        /\ \A q \in todo' : AwaitsOf(q.id, FALSE)'
      BY DEF Awaited
    <2>1. ASSUME NEW x \in Elems(wire'[Server]), ~IsErr(x) PROVE AwaitsOf(x.id, x.type = "OPN")'
      <3>1. CASE x \in Elems(wire[Server])
        <4>1. AwaitsOf(x.id, x.type = "OPN")
          BY <2>1, <3>1 DEF PlaceInv, Awaited
        <4> QED BY <4>1, <1>8
      <3>2. CASE x \in Elems(m)
        <4>1. AwaitsOf(r.id, FALSE)
          BY DEF PlaceInv, Awaited
        <4>2. AwaitsOf(r.id, FALSE) <=> AwaitsOf(x.id, x.type = "OPN")
          <5>1. x.id = r.id /\ x.type = "MSG"
            BY <3>2
          <5> QED BY <5>1 DEF AwaitsOf
        <4> QED BY <4>1, <4>2, <1>8
      <3> QED BY <1>2, <2>1, <3>1, <3>2
    <2>2. ASSUME NEW y \in Elems(wire'[Client]), Asks(y) PROVE AwaitsOf(y.id, y.type = "OPN")'
      <3>1. AwaitsOf(y.id, y.type = "OPN")
        BY <2>2 DEF PlaceInv, Awaited
      <3> QED BY <3>1, <1>8
    <2>3. ASSUME NEW q \in todo' PROVE AwaitsOf(q.id, FALSE)'
      <3>1. AwaitsOf(q.id, FALSE)
        BY <2>3 DEF PlaceInv, Awaited
      <3> QED BY <3>1, <1>8
    <2> QED BY <2>1, <2>2, <2>3
  <1> QED BY <1>7, <1>9 DEF PlaceInv

-----------------------------------------------------------------------------
(* What the steps do to the tokens, the wires and the requests.            *)

\* An end keeps its state and its tokens.
SameTokens(p) ==
  /\ conn'[p].state = conn[p].state
  /\ Current(p)' = Current(p) /\ Precedent(p)' = Precedent(p) /\ Active(p)' = Active(p)

\* The list keeps its requests, or has the ones it had.
AllWaited == \A m \in Waited : StillWaited(m)
OnlyWaited(n) == \E m \in Waited : n.id = m.id /\ n.handle = m.handle

Gains(p, m) ==
  /\ m \in Seq(Chunks)
  /\ wire'[p] = (IF Open(Peer(p)) THEN wire[p] \o m ELSE wire[p])

\* Nothing of it changes.
Rests ==
  /\ SameTokens(Client) /\ SameTokens(Server) /\ UNCHANGED <<wire, todo>>
  /\ AllWaited /\ \A n \in Waited' : OnlyWaited(n)

\* The client sends a request of the services, or begins to; once it has sent
\* the last chunk it waits for the answer.
Requests(m, id) ==
  /\ Open(Client) /\ SameTokens(Client) /\ SameTokens(Server) /\ id = clientNextReqId
  /\ Gains(Client, m) /\ wire'[Server] = wire[Server] /\ todo' = todo
  /\ \A x \in Elems(m) : x.type = "MSG" /\ x.tok = SendToken(Client) /\ (x.isFinal = "F" => x.id = id)
  /\ Pairwise(m, AskedOnce) /\ AllWaited /\ \A n \in Waited' : OnlyWaited(n) \/ n.handle # OPN
  /\ \A x \in Elems(m) : x.isFinal = "F" => AwaitsOf(id, FALSE)'

\* The server answers a request.
Answers(q, m) ==
  /\ Open(Server) /\ SameTokens(Client) /\ SameTokens(Server)
  /\ q \in todo /\ todo' = todo \ {q}
  /\ Gains(Server, m) /\ wire'[Client] = wire[Client]
  /\ \A x \in Elems(m) : x.type = "MSG" /\ x.tok = SendToken(Server) /\ x.id = q.id
  /\ Pairwise(m, AnsweredOnce) /\ AllWaited /\ \A n \in Waited' : OnlyWaited(n)

\* Only the last chunk of a message is not followed by another.
Unfinished == {e \in Chunks \X Chunks : e[1].type = "MSG" /\ e[1].isFinal = "C"}

\* What is unfinished does not ask and does not answer.
LEMMA UnfinishedOnce ==
  ASSUME NEW m, Pairwise(m, Unfinished)
  PROVE  Pairwise(m, AskedOnce) /\ Pairwise(m, AnsweredOnce)
  <1>1. Unfinished \subseteq AskedOnce
    BY DEF Unfinished, AskedOnce, Asks
  <1>2. Unfinished \subseteq AnsweredOnce
    BY DEF Unfinished, AnsweredOnce
  <1> QED BY <1>1, <1>2 DEF Pairwise

\* The chunks of a message, and what follows them when it is given up.
LEMMA MessageUnfinished ==
  ASSUME ChanTypes, NEW p \in Ends, NEW id \in Nat, NEW call \in Calls \cup {0},
         NEW h \in Handles \cup {0}, NEW n \in Nat, NEW k \in Nat, k <= n
  PROVE  /\ Pairwise(MsgChunks(p, id, call, h, n, k), Unfinished)
         /\ k < n => \A aid, used \in Nat :
              Pairwise(Append(MsgChunks(p, id, call, h, n, k), AbortChunk(p, aid, used)), Unfinished)
         /\ k < n => \A d \in Elems(MsgChunks(p, id, call, h, n, k)) : d.isFinal = "C"
  <1> DEFINE m == MsgChunks(p, id, call, h, n, k)
             e(i) == Chunk("MSG", IF i < n THEN "C" ELSE "F", SendToken(p),
                           SNAfter(conn[p].lastSNsent, i), id, Part(call, h, i, n))
  <1>1. m \in Seq(Numbered) /\ m \in Seq(Chunks)
    BY MsgChunksType, NumberedSeq
  <1>2. m = [i \in 1..k |-> e(i)] /\ Len(m) = k
    BY DEF MsgChunks
  <1>3. \A i \in 1..k : i < n => e(i).isFinal = "C" /\ e(i).type = "MSG"
    BY DEF Chunk
  <1> HIDE DEF e, m
  <1>4. \A i \in 1..k : m[i] = e(i) /\ m[i] \in Chunks
    BY <1>1, <1>2
  <1>5. ASSUME NEW i \in 1..Len(m), NEW j \in 1..Len(m), i < j
        PROVE  <<m[i], m[j]>> \in Unfinished
    <2>1. i \in 1..k /\ j \in 1..k /\ i < n
      BY <1>2, <1>5
    <2> QED BY <1>3, <1>4, <2>1 DEF Unfinished
  <1>6. Pairwise(m, Unfinished)
    BY <1>5 DEF Pairwise
  <1>7. ASSUME k < n, NEW d \in Elems(m)
        PROVE  d \in Chunks /\ d.type = "MSG" /\ d.isFinal = "C"
    <2>1. \A i \in 1..k : i < n
      BY <1>7
    <2> QED BY <1>2, <1>3, <1>4, <1>7, <2>1 DEF Elems
  <1>8. ASSUME k < n, NEW aid \in Nat, NEW used \in Nat
        PROVE  Pairwise(Append(m, AbortChunk(p, aid, used)), Unfinished)
    <2>1. AbortChunk(p, aid, used) \in Chunks
      BY MsgChunksType DEF Chunks
    <2>2. \A d \in Elems(m) : <<d, AbortChunk(p, aid, used)>> \in Unfinished
      BY <1>7, <1>8, <2>1 DEF Unfinished
    <2> QED BY <1>1, <1>6, <2>1, <2>2, PairwiseAppend
  <1> QED BY <1>6, <1>7, <1>8 DEF m

\* An end that sends keeps its tokens, and so does the other.
LEMMA SentTokens ==
  ASSUME Types, NEW p \in Ends, NEW m \in Seq(Chunks), NEW n \in Nat, SendsAs(p, m, Sent(conn[p], n))
  PROVE  SameTokens(p) /\ SameTokens(Peer(p)) /\ Gains(p, m) /\ wire'[Peer(p)] = wire[Peer(p)]
  <1>1. /\ conn'[p] = Sent(conn[p], n) /\ conn'[Peer(p)] = conn[Peer(p)]
        /\ wire'[p] = (IF Open(Peer(p)) THEN wire[p] \o m ELSE wire[p])
        /\ wire'[Peer(p)] = wire[Peer(p)]
    BY SentEnd, SendsEffect DEF Types
  <1>2. SameTokens(p)
    BY <1>1, SentEnd DEF SameTokens, Current, Precedent, Active
  <1>3. SameTokens(Peer(p))
    BY <1>1 DEF SameTokens, Current, Precedent, Active
  <1> QED BY <1>1, <1>2, <1>3 DEF Gains

\* Requests are waited for as before.
LEMMA WaitedAsBefore ==
  ASSUME sentRequestIds' = sentRequestIds
  PROVE  AllWaited /\ \A n \in Waited' : OnlyWaited(n)
  <1>1. Waited' = Waited
    BY DEF Waited
  <1> QED BY <1>1 DEF AllWaited, StillWaited, OnlyWaited

\* Steps that change nothing of it.
LEMMA RestsSteps ==
  ASSUME Types,
         \/ UNCHANGED vars
         \/ \E c \in Calls, n \in Sizes : Request(c, n)
         \/ TreatServicesEvent
         \/ \E r : Pops(r) /\ RefuseRequest(r)
         \/ \E t \in running : TimerExpires(t)
         \/ LateRenewal
         \/ \E t \in posted : TreatRequestTimeout(t)
  PROVE  Rests
  <1>1. UNCHANGED <<conn, wire, todo>>
    BY DEF Request, TreatServicesEvent, Pops, RefuseRequest, TimerExpires, LateRenewal,
           TreatRequestTimeout, vars, chanVars, svcVars
  <1>2. SameTokens(Client) /\ SameTokens(Server)
    BY <1>1 DEF SameTokens, Current, Precedent, Active
  <1>3. CASE \E t \in posted : TreatRequestTimeout(t)
    <2>1. PICK t \in posted : sentRequestIds' = MarkExpired(t)
      BY <1>3 DEF TreatRequestTimeout
    <2>2. AllWaited /\ \A n \in Waited' : OnlyWaited(n)
      BY <2>1, MarkedElems DEF Types, Waited, Marked, AllWaited, StillWaited, OnlyWaited
    <2> QED BY <1>1, <1>2, <2>2 DEF Rests
  <1>4. CASE sentRequestIds' = sentRequestIds
    BY <1>1, <1>2, <1>4, WaitedAsBefore DEF Rests
  <1>5. (\E t \in posted : TreatRequestTimeout(t)) \/ sentRequestIds' = sentRequestIds
    BY DEF Request, TreatServicesEvent, RefuseRequest, TimerExpires, LateRenewal, vars, chanVars
  <1> QED BY <1>3, <1>4, <1>5

\* The chunks that p sends of message id, and a part of them.
Plain(p, id, m) ==
  /\ m \in Seq(Numbered) /\ Pairwise(m, Unfinished)
  /\ \A x \in Elems(m) : x.type = "MSG" /\ x.tok = SendToken(p) /\ x.id = id
Partial(p, m) ==
  /\ \A aid, used \in Nat : Pairwise(Append(m, AbortChunk(p, aid, used)), Unfinished)
  /\ \A x \in Elems(m) : x.isFinal = "C"

\* The chunks of a message.
LEMMA MessageChunks ==
  ASSUME Types, NEW p \in Ends, NEW call \in Calls \cup {0}, NEW h \in Handles \cup {0},
         NEW id \in Nat, NEW n \in Nat, NEW k \in Nat, k <= n
  PROVE  /\ Plain(p, id, MsgChunks(p, id, call, h, n, k))
         /\ k < n => Partial(p, MsgChunks(p, id, call, h, n, k))
  <1> DEFINE m == MsgChunks(p, id, call, h, n, k)
  <1>0. ChanTypes
    BY DEF Types
  <1>1. m \in Seq(Numbered)
    BY <1>0, MsgChunksType
  <1>2. \A x \in Elems(m) : About(x, id, call, h) /\ x.tok = SendToken(p) /\ Carries(x)
    BY <1>0, MessageAbout
  <1>3. Pairwise(m, Unfinished)
    BY <1>0, MessageUnfinished
  <1>4. k < n => \A aid, used \in Nat : Pairwise(Append(m, AbortChunk(p, aid, used)), Unfinished)
    BY <1>0, MessageUnfinished
  <1>5. k < n => \A x \in Elems(m) : x.isFinal = "C"
    BY <1>0, MessageUnfinished
  <1> HIDE DEF m
  <1>6. Plain(p, id, m) /\ (k < n => Partial(p, m))
    BY <1>1, <1>2, <1>3, <1>4, <1>5 DEF About, Carries, Plain, Partial
  <1> QED BY <1>6 DEF m

\* A request of the services, whole or in part.
LEMMA RequestMoves ==
  ASSUME Types, NEW r, Pops(r),
         \/ SendRequest(r)
         \/ r.chunks > 1 /\ UnrecordedRequest(r)
         \/ \E k \in 0..(r.chunks - 1) : AbortRequest(r, k)
  PROVE  \E m, id : Requests(m, id)
  <1>0. /\ r \in Asked /\ r.call \in Calls \cup {0} /\ r.handle \in Handles \cup {0} /\ r.handle # OPN
        /\ r.chunks \in Nat /\ r.chunks \in Nat \ {0} /\ clientNextReqId \in Nat
    <2>1. r \in Asked
      BY PopsType
    <2>2. r.call \in Calls /\ r.handle \in Handles /\ r.chunks \in Nat \ {0}
      BY <2>1 DEF Asked
    <2>3. r.handle # OPN
      BY <2>2, SecureChannelAssumption DEF Handles, OPN
    <2> QED BY <2>1, <2>2, <2>3 DEF Types, ListTypes
  <1>1. Open(Client) /\ todo' = todo
    BY DEF SendRequest, UnrecordedRequest, AbortRequest, Pops
  <1>2. PICK id \in Nat, n \in Nat, call \in Calls \cup {0}, h \in Handles \cup {0} :
          id = clientNextReqId /\ n = r.chunks /\ call = r.call /\ h = r.handle
    BY <1>0
  <1> DEFINE msg(k) == MsgChunks(Client, id, call, h, n, k)
  <1>3. \A k \in Nat : k <= n => Plain(Client, id, msg(k)) /\ (k < n => Partial(Client, msg(k)))
    BY MessageChunks, EndsPeer
  <1>4. ASSUME NEW k \in Nat, k < n, NEW aid \in Nat, NEW used \in Nat, NEW l \in Nat,
               SendsAs(Client, Append(msg(k), AbortChunk(Client, aid, used)), Sent(conn[Client], l)),
               Append(msg(k), AbortChunk(Client, aid, used)) \in Seq(Chunks), sentRequestIds' = sentRequestIds
        PROVE  \E m, i : Requests(m, i)
    <2> DEFINE s == msg(k)
               a == AbortChunk(Client, aid, used)
    <2>1. /\ s \in Seq(Numbered) /\ Pairwise(Append(s, a), Unfinished)
          /\ \A x \in Elems(s) : x.type = "MSG" /\ x.tok = SendToken(Client) /\ x.isFinal # "F"
      <3>1. k <= n
        BY <1>0, <1>4
      <3>2. Plain(Client, id, s) /\ Partial(Client, s)
        BY <1>3, <1>4, <3>1
      <3> HIDE DEF s, msg
      <3> QED BY <1>4, <3>2 DEF Plain, Partial
    <2>2. /\ SameTokens(Client) /\ SameTokens(Server) /\ Gains(Client, Append(s, a))
          /\ wire'[Server] = wire[Server]
      BY <1>4, SentTokens, EndsPeer
    <2> HIDE DEF s, msg
    <2>3. Elems(Append(s, a)) = Elems(s) \cup {a} /\ a.type = "MSG" /\ a.isFinal = "A" /\ a.tok = SendToken(Client)
      BY <2>1, AbortAbout, EndsPeer DEF Types
    <2>4. \A x \in Elems(Append(s, a)) : x.type = "MSG" /\ x.tok = SendToken(Client) /\ x.isFinal # "F"
      BY <2>1, <2>3
    <2>5. Pairwise(Append(s, a), AskedOnce) /\ AllWaited /\ \A x \in Waited' : OnlyWaited(x)
      BY <1>4, <2>1, UnfinishedOnce, WaitedAsBefore
    <2>6. Requests(Append(s, a), id)
      BY <1>1, <1>2, <2>2, <2>4, <2>5 DEF Requests
    <2> QED BY <2>6
  <1>5. CASE SendRequest(r)
    <2> DEFINE s == msg(n)
               c == RequestCtx(id, r.handle, r.call)
    <2>1. SendsAs(Client, s, Sent(conn[Client], n)) /\ s \in Seq(Chunks)
      BY <1>2, <1>5, SendEffect DEF SentWhole
    <2>2. /\ Pairwise(s, Unfinished)
          /\ \A x \in Elems(s) : x.type = "MSG" /\ x.tok = SendToken(Client) /\ x.id = id
      <3>1. n <= n
        OBVIOUS
      <3>2. Plain(Client, id, s)
        BY <1>3, <3>1
      <3> HIDE DEF s, msg
      <3> QED BY <3>2 DEF Plain
    <2>3. /\ SameTokens(Client) /\ SameTokens(Server) /\ Gains(Client, s)
          /\ wire'[Server] = wire[Server]
      BY <2>1, SentTokens, EndsPeer
    <2> HIDE DEF s, msg
    <2>4. Waited' = Waited \cup {c} /\ c.id = id /\ c.handle # OPN
      <3>1. sentRequestIds' = Append(sentRequestIds, c)
        BY <1>2, <1>5 DEF SendRequest
      <3>2. c \in Ctx /\ sentRequestIds \in Seq(Ctx)
        BY <1>0, <1>2, RequestCtxType DEF Types, ListTypes
      <3>3. c.id = id /\ c.handle # OPN
        BY <1>0 DEF RequestCtx
      <3> QED BY <3>1, <3>2, <3>3, ElemsAppend DEF Waited
    <2>5. AllWaited /\ \A y \in Waited' : OnlyWaited(y) \/ y.handle # OPN
      BY <2>4 DEF AllWaited, StillWaited, OnlyWaited
    <2>6. AwaitsOf(id, FALSE)'
      BY <2>4 DEF AwaitsOf
    <2>7. Pairwise(s, AskedOnce)
      BY <2>2, UnfinishedOnce
    <2>8. Requests(s, id)
      BY <1>1, <1>2, <2>2, <2>3, <2>5, <2>6, <2>7 DEF Requests
    <2> QED BY <2>8
  <1>6. CASE r.chunks > 1 /\ UnrecordedRequest(r)
    <2>1. n - 1 \in Nat /\ n - 1 < n /\ n + 1 \in Nat /\ id + 1 \in Nat
      BY <1>0, <1>2
    <2>2. /\ SendsAs(Client, SentUnrecorded(r), Sent(conn[Client], n + 1))
          /\ SentUnrecorded(r) \in Seq(Chunks) /\ sentRequestIds' = sentRequestIds
      BY <1>2, <1>6, UnrecordedEffect
    <2>3. SentUnrecorded(r) = Append(msg(n - 1), AbortChunk(Client, id + 1, n))
      BY <1>2 DEF SentUnrecorded
    <2> HIDE DEF msg
    <2> QED BY <1>0, <1>4, <2>1, <2>2, <2>3
  <1>7. ASSUME NEW k \in 0..(r.chunks - 1), AbortRequest(r, k) PROVE \E m, i : Requests(m, i)
    <2>1. k \in Nat /\ k < n /\ k + 1 \in Nat
      BY <1>0, <1>2
    <2>2. /\ SendsAs(Client, SentPart(r, k), Sent(conn[Client], k + 1))
          /\ SentPart(r, k) \in Seq(Chunks)
      BY <1>7, AbortEffect
    <2>3. SentPart(r, k) = Append(msg(k), AbortChunk(Client, id, k)) /\ sentRequestIds' = sentRequestIds
      BY <1>2, <1>7 DEF SentPart, AbortRequest
    <2> HIDE DEF msg
    <2> QED BY <1>0, <1>2, <1>4, <2>1, <2>2, <2>3
  <1> QED BY <1>5, <1>6, <1>7

\* The server answers, or gives up.
LEMMA AnswerMoves ==
  ASSUME Types, StreamInv, NEW q \in todo, NEW n \in Sizes, Respond(q, n)
  PROVE  \E m : Answers(q, m)
  <1>0. /\ q \in Todo /\ n \in Nat /\ n \in Nat \ {0} /\ n <= n
        /\ q.id \in Nat /\ q.call \in Calls \cup {0} /\ q.handle \in Handles \cup {0}
    <2>1. q \in Todo /\ n \in Nat \ {0}
      BY RespondEffect
    <2>2. n <= n
      BY <2>1
    <2> QED BY <2>1, <2>2 DEF Todo
  <1>1. Open(Server) /\ todo' = todo \ {q} /\ sentRequestIds' = sentRequestIds
    BY DEF StreamInv, TodoOpen, Respond
  <1> DEFINE msg(k) == MsgChunks(Server, q.id, q.call, q.handle, n, k)
  <1>3. ASSUME NEW k \in Nat, k <= n
        PROVE  /\ msg(k) \in Seq(Numbered) /\ Pairwise(msg(k), Unfinished)
               /\ k < n => \A aid, used \in Nat :
                    Pairwise(Append(msg(k), AbortChunk(Server, aid, used)), Unfinished)
               /\ \A x \in Elems(msg(k)) : x.type = "MSG" /\ x.tok = SendToken(Server) /\ x.id = q.id
    <2>1. msg(k) \in Seq(Numbered)
      BY <1>0, MsgChunksType, EndsPeer DEF Types
    <2>2. \A x \in Elems(msg(k)) : About(x, q.id, q.call, q.handle) /\ x.tok = SendToken(Server) /\ Carries(x)
      BY <1>0, MessageAbout, EndsPeer DEF Types
    <2>3. /\ Pairwise(msg(k), Unfinished)
          /\ k < n => \A aid, used \in Nat :
                    Pairwise(Append(msg(k), AbortChunk(Server, aid, used)), Unfinished)
      BY <1>0, <1>3, MessageUnfinished, EndsPeer DEF Types
    <2> QED BY <2>1, <2>2, <2>3 DEF About, Carries
  <1>4. ASSUME NEW m \in Seq(Chunks), NEW k \in Nat, SendsAs(Server, m, Sent(conn[Server], k)),
               Pairwise(m, Unfinished), \A x \in Elems(m) : x.type = "MSG" /\ x.tok = SendToken(Server) /\ x.id = q.id
        PROVE  Answers(q, m)
    <2>1. SameTokens(Server) /\ SameTokens(Client) /\ Gains(Server, m) /\ wire'[Client] = wire[Client]
      BY <1>4, SentTokens, EndsPeer
    <2>2. Pairwise(m, AnsweredOnce) /\ AllWaited /\ \A x \in Waited' : OnlyWaited(x)
      BY <1>1, <1>4, UnfinishedOnce, WaitedAsBefore
    <2> QED BY <1>1, <1>4, <2>1, <2>2 DEF Answers
  <1>5. CASE SendsAs(Server, WholeAnswer(q, n), Sent(conn[Server], n)) /\ WholeAnswer(q, n) \in Seq(Chunks)
    <2>1. WholeAnswer(q, n) = msg(n)
      BY DEF WholeAnswer
    <2> HIDE DEF msg
    <2> QED BY <1>0, <1>3, <1>4, <1>5, <2>1
  <1>6. ASSUME NEW k \in 0..(n - 1), SendsAs(Server, GivenUp(q, n, k), Sent(conn[Server], k + 1)),
               GivenUp(q, n, k) \in Seq(Chunks)
        PROVE  \E m : Answers(q, m)
    <2> DEFINE s == msg(k)
               a == AbortChunk(Server, q.id, k)
    <2>0. k \in Nat /\ k + 1 \in Nat /\ k < n /\ k <= n
      BY <1>0
    <2>1. /\ s \in Seq(Numbered) /\ Pairwise(Append(s, a), Unfinished)
          /\ \A x \in Elems(s) : x.type = "MSG" /\ x.tok = SendToken(Server) /\ x.id = q.id
      BY <1>0, <1>3, <2>0
    <2>2. GivenUp(q, n, k) = Append(s, a)
      BY DEF GivenUp
    <2> HIDE DEF s, msg
    <2>3. Elems(Append(s, a)) = Elems(s) \cup {a} /\ a.type = "MSG" /\ a.id = q.id /\ a.tok = SendToken(Server)
      BY <1>0, <2>0, <2>1, AbortAbout, EndsPeer DEF Types
    <2> QED BY <1>4, <1>6, <2>0, <2>1, <2>2, <2>3
  <1> QED BY <1>5, <1>6, RespondEffect

\* The wire of p gets the chunk a, or nothing.
GainsOne(p, a) ==
  /\ Elems(wire'[p]) \subseteq Elems(wire[p]) \cup {a}
  /\ \A R : Pairwise(wire[p], R) /\ (\A d \in Elems(wire[p]) : <<d, a>> \in R) => Pairwise(wire'[p], R)

\* A chunk alone is sent, or nothing.
LEMMA OneSent ==
  ASSUME Types, NEW p \in Ends, NEW a \in Chunks, NEW u \in {<<>>, <<a>>}, Gains(p, u)
  PROVE  GainsOne(p, a) /\ u \in Seq(Chunks) /\ \A R : Pairwise(u, R)
  <1>1. u \in Seq(Chunks) /\ Elems(u) \subseteq {a} /\ \A R : Pairwise(u, R)
    <2>1. u \in Seq(Chunks) /\ Elems(u) \subseteq {a}
      <3>1. Elems(<<>>) = {} /\ Elems(<<a>>) = {a} /\ <<>> \in Seq(Chunks) /\ <<a>> \in Seq(Chunks)
        BY ElemsSmall
      <3> QED BY <3>1, Zenon
    <2>2. ASSUME NEW R PROVE Pairwise(u, R)
      BY PairwiseSmall
    <2> QED BY <2>1, <2>2
  <1>2. wire[p] \in Seq(Chunks)
    BY DEF Types, ChanTypes
  <1>3. wire'[p] = wire[p] \/ wire'[p] = wire[p] \o u
    BY DEF Gains
  <1>4. CASE wire'[p] = wire[p]
    <2>1. Elems(wire'[p]) \subseteq Elems(wire[p]) \cup {a}
      BY <1>4
    <2>2. \A R : Pairwise(wire[p], R) => Pairwise(wire'[p], R)
      BY <1>4, Zenon
    <2> QED BY <1>1, <2>1, <2>2, Zenon DEF GainsOne
  <1>5. CASE wire'[p] = wire[p] \o u
    <2>1. Elems(wire'[p]) \subseteq Elems(wire[p]) \cup {a}
      BY <1>1, <1>2, <1>5, ElemsConcat
    <2>2. ASSUME NEW R, Pairwise(wire[p], R), \A d \in Elems(wire[p]) : <<d, a>> \in R
          PROVE  Pairwise(wire[p] \o u, R)
      <3>1. \A d \in Elems(wire[p]), e \in Elems(u) : <<d, e>> \in R
        BY <1>1, <2>2
      <3> QED BY <1>1, <1>2, <2>2, <3>1, PairwiseConcat
    <2>3. \A R : Pairwise(wire[p], R) /\ (\A d \in Elems(wire[p]) : <<d, a>> \in R) => Pairwise(wire[p] \o u, R)
      BY <2>2, Zenon
    <2> QED BY <1>1, <1>5, <2>1, <2>3, Zenon DEF GainsOne
  <1> QED BY <1>1, <1>3, <1>4, <1>5

\* The client asks for a renewal with the chunk a, and waits for the answer.
Asking(a, o) ==
  /\ ClientState = "SC_CONNECTED" /\ ClientState' = "SC_CONNECTED_RENEW"
  /\ Current(Client)' = Current(Client) /\ Precedent(Client)' = Precedent(Client)
  /\ Active(Client)' = Active(Client) /\ SameTokens(Server)
  /\ a \in Chunks /\ IsOPN(a) /\ a.id = clientNextReqId
  /\ Gains(Client, <<a>>) /\ wire'[Server] = wire[Server] /\ todo' = todo
  /\ Waited' = Waited \cup {o} /\ o.id = clientNextReqId /\ o.handle = OPN

\* The renewal timer, treated: a renewal is asked of the server, if it is still there.
LEMMA AskMoves ==
  ASSUME Types, AsksRenewal
  PROVE  \E a, o : Asking(a, o)
  <1> DEFINE o == RequestCtx(clientNextReqId, OPN, 0)
  <1>1. /\ conn'[Client] = AskedEnd /\ conn'[Server] = conn[Server]
        /\ wire'[Client] = (IF Open(Server) THEN wire[Client] \o <<AskChunk>> ELSE wire[Client])
        /\ wire'[Server] = wire[Server] /\ <<AskChunk>> \in Seq(Chunks) /\ AskChunk \in Chunks
    BY AskEffect, SendsEffect, EndsPeer DEF Types, Chunks
  <1>2. AskedEnd.state = "SC_CONNECTED_RENEW" /\ conn[Client].state = "SC_CONNECTED"
        /\ AskedEnd.currentSecurityToken = conn[Client].currentSecurityToken
        /\ AskedEnd.precedentSecurityToken = conn[Client].precedentSecurityToken
        /\ AskedEnd.serverNewSecuTokenActive = conn[Client].serverNewSecuTokenActive
    BY SentEnd, EndsPeer DEF AskedEnd, AsksRenewal, Connection
  <1>3. todo' = todo /\ sentRequestIds' = Append(sentRequestIds, o)
    BY DEF AsksRenewal, AskRenewal
  <1>4. o \in Ctx /\ sentRequestIds \in Seq(Ctx) /\ o.id = clientNextReqId /\ o.handle = OPN
    BY RequestCtxType DEF Types, ListTypes, RequestCtx, OPN
  <1>5. AskChunk.type = "OPN" /\ AskChunk.id = clientNextReqId
    BY DEF AskChunk, Chunk
  <1> HIDE DEF o
  <1>6. Waited' = Waited \cup {o}
    BY <1>3, <1>4, ElemsAppend DEF Waited
  <1>7. Gains(Client, <<AskChunk>>)
    BY <1>1, EndsPeer DEF Gains
  <1>8. Asking(AskChunk, o)
    BY <1>1, <1>2, <1>3, <1>4, <1>5, <1>6, <1>7
       DEF Asking, IsOPN, SameTokens, Current, Precedent, Active, ClientState
  <1> QED BY <1>8

\* The client closes.
ClientLeaves(a) ==
  /\ Open(Client) /\ ~Open(Client)' /\ SameTokens(Server) /\ todo' = todo
  /\ a \in Chunks /\ a.type = "CLO" /\ a.tok = SendToken(Client)
  /\ GainsOne(Client, a) /\ wire'[Server] = <<>>

\* The end of the client, whatever its cause.
LEMMA ClientLeavesMoves ==
  ASSUME Types, NEW ev, NEW used, NEW farewell \in BOOLEAN, ClientCloses(ev, used, farewell)
  PROVE  \E a : ClientLeaves(a)
  <1> DEFINE a == CloChunk(used)
             u == ClientLast(used, farewell)
  <1>1. ClosesWith(Client, u) /\ u \in Seq(Chunks) /\ a \in Chunks
    BY ClientClosesEffect DEF Chunks
  <1>2. a.type = "CLO" /\ a.tok = SendToken(Client) /\ u \in {<<>>, <<a>>}
    BY DEF CloChunk, Chunk, ClientLast
  <1>3. Open(Client) /\ todo' = todo
    BY DEF ClientCloses
  <1> HIDE DEF a, u
  <1>4. /\ conn'[Client] = ClosedEnd(conn[Client]) /\ conn'[Server] = conn[Server]
        /\ wire'[Client] = (IF Open(Server) THEN wire[Client] \o u ELSE wire[Client])
        /\ wire'[Server] = <<>>
    BY <1>1, ClosesEffect, EndsPeer DEF Types
  <1>5. GainsOne(Client, a)
    <2>1. Gains(Client, u)
      BY <1>1, <1>4, EndsPeer DEF Gains
    <2> QED BY <1>1, <1>2, <2>1, OneSent, EndsPeer
  <1>6. conn[Client] \in Connection
    BY EndsPeer DEF Types, ChanTypes
  <1>7. ~Open(Client)'
    BY <1>4, <1>6 DEF Open, ClosedEnd, Connection
  <1>8. SameTokens(Server)
    BY <1>4 DEF SameTokens, Current, Precedent, Active
  <1>9. ClientLeaves(a)
    BY <1>1, <1>2, <1>3, <1>4, <1>5, <1>7, <1>8 DEF ClientLeaves
  <1> QED BY <1>9

\* The server closes.
ServerLeaves ==
  /\ Open(Server) /\ ~Open(Server)' /\ SameTokens(Client) /\ todo' = {}
  /\ Current(Server)' = NoToken
  /\ GainsOne(Server, ErrChunk) /\ wire'[Client] = <<>>
  /\ AllWaited /\ \A n \in Waited' : OnlyWaited(n)

\* The end of the server, whatever its cause.
LEMMA ServerLeavesMoves ==
  ASSUME Types, NEW farewell \in BOOLEAN, ServerCloses(farewell)
  PROVE  ServerLeaves
  <1> DEFINE u == ServerLast(farewell)
  <1>1. ClosesWith(Server, u) /\ u \in Seq(Chunks) /\ ErrChunk \in Chunks /\ todo' = {}
    BY ServerClosesEffect DEF Chunks
  <1>2. u \in {<<>>, <<ErrChunk>>}
    BY DEF ServerLast
  <1>3. Open(Server) /\ sentRequestIds' = sentRequestIds
    BY DEF ServerCloses
  <1> HIDE DEF u
  <1>4. /\ conn'[Server] = ClosedEnd(conn[Server]) /\ conn'[Client] = conn[Client]
        /\ wire'[Server] = (IF Open(Client) THEN wire[Server] \o u ELSE wire[Server])
        /\ wire'[Client] = <<>>
    BY <1>1, ClosesEffect, EndsPeer DEF Types
  <1>5. GainsOne(Server, ErrChunk)
    <2>1. Gains(Server, u)
      BY <1>1, <1>4, EndsPeer DEF Gains
    <2> QED BY <1>1, <1>2, <2>1, OneSent, EndsPeer
  <1>6. conn[Server] \in Connection
    BY EndsPeer DEF Types, ChanTypes
  <1>7. ~Open(Server)' /\ Current(Server)' = NoToken
    BY <1>4, <1>6 DEF Open, ClosedEnd, Connection, Current
  <1>8. SameTokens(Client)
    BY <1>4 DEF SameTokens, Current, Precedent, Active
  <1> QED BY <1>1, <1>3, <1>4, <1>5, <1>7, <1>8, WaitedAsBefore DEF ServerLeaves

\* The client takes the chunk c.
ClientTakes(c) ==
  /\ Open(Client) /\ wire[Server] # <<>> /\ c = Head(wire[Server]) /\ c.type # "ERR"
  /\ wire'[Server] = Tail(wire[Server]) /\ wire'[Client] = wire[Client] /\ todo' = todo
  /\ SameTokens(Server) /\ (Active(Client) => Active(Client)')

\* A part of a response; the end of the request o; the renewal that o asked.
SameClient ==
  ClientState' = ClientState /\ Current(Client)' = Current(Client) /\ Precedent(Client)' = Precedent(Client)
ClientKeeps(c) == ClientTakes(c) /\ SameClient /\ Waited' = Waited
ClientEnds(c, o) ==
  /\ ClientTakes(c) /\ c.isFinal # "C"
  /\ o \in Waited /\ o.id = c.id /\ (o.handle = OPN <=> IsOPN(c)) /\ Waited' = Waited \ {o}
ClientSettles(c, o) == ClientEnds(c, o) /\ SameClient
ClientChanges(c, o) ==
  /\ ClientEnds(c, o) /\ IsOPN(c)
  /\ ClientState = "SC_CONNECTED_RENEW" /\ ClientState' = "SC_CONNECTED"
  /\ Current(Client)' = c.tok /\ Precedent(Client)' = Current(Client)

\* What an accepted chunk does to the client.
LEMMA ClientReceives ==
  ASSUME Types, NEW c \in Numbered, ClientGets(c), RoomForChunk(Client, c), NEW r \in Connection,
         Len(r.intermediateChunks) < MaxChunkCount, ReceivesAs(Client, r),
         r.serverNewSecuTokenActive = AfterChunk(Client, c).serverNewSecuTokenActive
  PROVE  ClientTakes(c) /\ conn'[Client] = r
  <1>1. /\ conn'[Client] = r /\ conn'[Server] = conn[Server]
        /\ wire'[Server] = Tail(wire[Server]) /\ wire'[Client] = wire[Client]
    BY ReceivesEffect, EndsPeer DEF Types
  <1>2. AfterChunk(Client, c).serverNewSecuTokenActive =
              (conn[Client].serverNewSecuTokenActive
                 \/ (c.type # "OPN" /\ c.tok.id = conn[Client].currentSecurityToken.id))
    BY AfterChunkType, EndsPeer DEF Types
  <1>3. Active(Client) => Active(Client)'
    BY <1>1, <1>2 DEF Active
  <1>4. SameTokens(Server)
    BY <1>1 DEF SameTokens, Current, Precedent, Active
  <1>5. c.type # "ERR"
    BY DEF Numbered
  <1> QED BY <1>1, <1>3, <1>4, <1>5 DEF ClientTakes, ClientGets

\* The request that an accepted chunk answers.
LEMMA ClientAnswered ==
  ASSUME Types, TimerInv, NEW c, ClientGets(c), c.type # "ERR", Accepted(Client, c)
  PROVE  LET o == CtxOf(c.id)
         IN  /\ o \in Waited /\ o.id = c.id /\ (o.handle = OPN <=> IsOPN(c))
             /\ sentRequestIds' = OtherCtxs(c.id) => Waited' = Waited \ {o}
  <1>1. /\ c \in Numbered /\ c.id \in Nat
        /\ \E i \in 1..Len(sentRequestIds) : /\ sentRequestIds[i].id = c.id
                                             /\ (sentRequestIds[i].handle = OPN) <=> (c.type = "OPN")
    BY ClientGetsType
  <1>2. PICK i \in 1..Len(sentRequestIds) : /\ sentRequestIds[i].id = c.id
                                            /\ (sentRequestIds[i].handle = OPN) <=> (c.type = "OPN")
    BY <1>1
  <1>3. sentRequestIds[i] \in Waited
    BY <1>2, ElemsType DEF Waited, Types, ListTypes
  <1>4. CtxOf(c.id) = sentRequestIds[i]
    BY <1>2, <1>3, UniqueCtx
  <1>5. sentRequestIds' = OtherCtxs(c.id) => Waited' = Waited \ {CtxOf(c.id)}
    BY <1>1, OthersWaited
  <1> QED BY <1>2, <1>3, <1>4, <1>5 DEF IsOPN

\* A part of a response at the client: it is kept, or an aborted message forgotten.
LEMMA ClientPartMoves ==
  ASSUME Types, TimerInv, NEW c, ClientGets(c), ClientChunk(c)
  PROVE  ClientKeeps(c)
  <1>1. ReceivesAs(Client, AfterChunk(Client, c)) /\ c \in Numbered /\ RoomForChunk(Client, c)
    BY ClientChunkEffect
  <1>2. /\ AfterChunk(Client, c) \in Connection
        /\ Len(AfterChunk(Client, c).intermediateChunks) < MaxChunkCount
        /\ AfterChunk(Client, c).state = conn[Client].state
        /\ AfterChunk(Client, c).currentSecurityToken = conn[Client].currentSecurityToken
        /\ AfterChunk(Client, c).precedentSecurityToken = conn[Client].precedentSecurityToken
    BY <1>1, AfterChunkType, EndsPeer DEF Types
  <1>3. ClientTakes(c) /\ conn'[Client] = AfterChunk(Client, c)
    BY <1>1, <1>2, ClientReceives
  <1>4. SameClient
    BY <1>2, <1>3 DEF SameClient, ClientState, Current, Precedent
  <1>5. Waited' = Waited
    <2>1. Accepted(Client, c) /\ sentRequestIds' = <<CtxOf(c.id)>> \o OtherCtxs(c.id) /\ c.type # "ERR"
      BY DEF ClientChunk
    <2>2. c.id \in Nat /\ \E i \in 1..Len(sentRequestIds) : sentRequestIds[i].id = c.id
      BY <2>1, ClientGetsType
    <2>3. Elems(<<CtxOf(c.id)>> \o OtherCtxs(c.id)) = Elems(sentRequestIds)
      BY <2>2, CtxTypes DEF Types
    <2> QED BY <2>1, <2>3 DEF Waited
  <1> QED BY <1>3, <1>4, <1>5 DEF ClientKeeps

\* The last chunk of a response: the request that it answers is no more waited for.
LEMMA ClientResponseMoves ==
  ASSUME Types, TimerInv, NEW c, ClientGets(c), ClientResponse(c)
  PROVE  \E o : ClientSettles(c, o)
  <1>1. ReceivesAs(Client, AfterChunk(Client, c)) /\ c \in Numbered /\ RoomForChunk(Client, c)
    BY ClientChunkEffect
  <1>2. /\ AfterChunk(Client, c) \in Connection
        /\ Len(AfterChunk(Client, c).intermediateChunks) < MaxChunkCount
        /\ AfterChunk(Client, c).state = conn[Client].state
        /\ AfterChunk(Client, c).currentSecurityToken = conn[Client].currentSecurityToken
        /\ AfterChunk(Client, c).precedentSecurityToken = conn[Client].precedentSecurityToken
    BY <1>1, AfterChunkType, EndsPeer DEF Types
  <1>3. ClientTakes(c) /\ conn'[Client] = AfterChunk(Client, c)
    BY <1>1, <1>2, ClientReceives
  <1>4. SameClient
    BY <1>2, <1>3 DEF SameClient, ClientState, Current, Precedent
  <1>5. c.isFinal # "C" /\ c.type # "ERR" /\ Accepted(Client, c) /\ sentRequestIds' = OtherCtxs(c.id)
    BY DEF ClientResponse
  <1>6. ClientSettles(c, CtxOf(c.id))
    BY <1>3, <1>4, <1>5, ClientAnswered DEF ClientSettles, ClientEnds
  <1> QED BY <1>6

\* The answer to a renewal: the new token is taken, unless the answer comes too late.
LEMMA TakesMoves ==
  ASSUME Types, TimerInv, StreamInv, NEW c, ClientGets(c), TakesRenewal(c)
  PROVE  \E o : ClientSettles(c, o) \/ ClientChanges(c, o)
  <1>1. /\ c \in Numbered /\ RoomForChunk(Client, c)
        /\ \/ CtxOf(c.id).timeoutExpired /\ ReceivesAs(Client, AfterChunk(Client, c))
           \/ ~CtxOf(c.id).timeoutExpired /\ ReceivesAs(Client, RenewedEnd(c))
        /\ RenewedEnd(c) \in Connection
        /\ RenewedEnd(c).intermediateChunks = AfterChunk(Client, c).intermediateChunks
        /\ RenewedEnd(c).serverNewSecuTokenActive = AfterChunk(Client, c).serverNewSecuTokenActive
        /\ RenewedEnd(c).precedentSecurityToken = conn[Client].currentSecurityToken
        /\ RenewedEnd(c).currentSecurityToken = c.tok
        /\ RenewedEnd(c).state = "SC_CONNECTED"
    BY TakesEffect
  <1>2. /\ AfterChunk(Client, c) \in Connection
        /\ Len(AfterChunk(Client, c).intermediateChunks) < MaxChunkCount
        /\ AfterChunk(Client, c).state = conn[Client].state
        /\ AfterChunk(Client, c).currentSecurityToken = conn[Client].currentSecurityToken
        /\ AfterChunk(Client, c).precedentSecurityToken = conn[Client].precedentSecurityToken
    BY <1>1, AfterChunkType, EndsPeer DEF Types
  <1>3. /\ IsOPN(c) /\ c.type # "ERR" /\ Accepted(Client, c) /\ sentRequestIds' = OtherCtxs(c.id)
        /\ ~CtxOf(c.id).timeoutExpired => conn[Client].state = "SC_CONNECTED_RENEW"
    BY DEF TakesRenewal, IsOPN, ExpectedOPN
  <1>4. c.isFinal # "C"
    <2>1. c \in Elems(wire[Server])
      BY ElemsTail, EndsPeer DEF ClientGets, Types, ChanTypes
    <2>2. ChunkOK(c)
      BY <2>1, EndsPeer DEF StreamInv, Dirs, DirInv, ClientGets
    <2> QED BY <1>3, <2>2 DEF ChunkOK, IsOPN
  <1>5. ASSUME ClientTakes(c) PROVE ClientEnds(c, CtxOf(c.id))
    BY <1>3, <1>4, <1>5, ClientAnswered DEF ClientEnds
  <1>6. CASE ReceivesAs(Client, AfterChunk(Client, c))
    <2>1. ClientTakes(c) /\ conn'[Client] = AfterChunk(Client, c)
      BY <1>1, <1>2, <1>6, ClientReceives
    <2>2. SameClient
      BY <1>2, <2>1 DEF SameClient, ClientState, Current, Precedent
    <2> QED BY <1>5, <2>1, <2>2 DEF ClientSettles
  <1>7. CASE ~CtxOf(c.id).timeoutExpired /\ ReceivesAs(Client, RenewedEnd(c))
    <2>1. ClientTakes(c) /\ conn'[Client] = RenewedEnd(c)
      BY <1>1, <1>2, <1>7, ClientReceives
    <2>2. ClientState = "SC_CONNECTED_RENEW" /\ ClientState' = "SC_CONNECTED"
          /\ Current(Client)' = c.tok /\ Precedent(Client)' = Current(Client)
      BY <1>1, <1>3, <1>7, <2>1 DEF ClientState, Current, Precedent
    <2> QED BY <1>3, <1>5, <2>1, <2>2 DEF ClientChanges
  <1> QED BY <1>1, <1>6, <1>7

\* The server takes the chunk c.
ServerTakes(c) ==
  /\ Open(Server) /\ Open(Server)' /\ wire[Client] # <<>> /\ c = Head(wire[Client]) /\ c \in Numbered
  /\ wire'[Client] = Tail(wire[Client]) /\ SameTokens(Client)
  /\ AllWaited /\ \A n \in Waited' : OnlyWaited(n)

\* A part of a request, or a request; a renewal, that the chunk g grants.
ServerKeeps(c) ==
  /\ ServerTakes(c) /\ c.type = "MSG" /\ wire'[Server] = wire[Server]
  /\ Current(Server)' = Current(Server) /\ Precedent(Server)' = Precedent(Server)
  /\ Active(Server)' = (Active(Server) \/ c.tok.id = Current(Server).id)
  /\ todo' = todo \/ (c.isFinal = "F" /\ \E r : todo' = todo \cup {r} /\ r.id = c.id)
ServerGrants(c, g) ==
  /\ ServerTakes(c) /\ IsOPN(c) /\ todo' = todo
  /\ g \in Chunks /\ IsOPN(g) /\ g.id = c.id /\ g.tok = Current(Server)'
  /\ wire'[Server] = (IF Open(Client) THEN wire[Server] \o <<g>> ELSE wire[Server])
  /\ Current(Server)'.id \in TokenIds \ {Current(Server).id}
  /\ Precedent(Server)' = Current(Server) /\ Active(Server)' = FALSE

\* A chunk of a request at the server, the last one or not.
LEMMA ServerKeepsMoves ==
  ASSUME Types, NEW c, ServerGets(c), ServerChunk(c) \/ ServerRequest(c)
  PROVE  ServerKeeps(c)
  <1> DEFINE r == AfterChunk(Server, c)
  <1>1. ReceivesAs(Server, r) /\ c \in Numbered /\ RoomForChunk(Server, c)
    BY ServerChunkEffect
  <1>2. /\ r \in Connection /\ Len(r.intermediateChunks) < MaxChunkCount
        /\ r.state = conn[Server].state
        /\ r.currentSecurityToken = conn[Server].currentSecurityToken
        /\ r.precedentSecurityToken = conn[Server].precedentSecurityToken
        /\ r.serverNewSecuTokenActive =
              (conn[Server].serverNewSecuTokenActive
                 \/ (c.type # "OPN" /\ c.tok.id = conn[Server].currentSecurityToken.id))
    BY <1>1, AfterChunkType, EndsPeer DEF Types
  <1>3. /\ conn'[Server] = r /\ conn'[Client] = conn[Client]
        /\ wire'[Client] = Tail(wire[Client]) /\ wire'[Server] = wire[Server]
    BY <1>1, <1>2, ReceivesEffect, EndsPeer DEF Types
  <1>4. c.type = "MSG" /\ sentRequestIds' = sentRequestIds
    BY DEF ServerChunk, ServerRequest, ServerGets
  <1>5. todo' = todo \/ (c.isFinal = "F" /\ \E q : todo' = todo \cup {q} /\ q.id = c.id)
    <2>1. CASE ServerChunk(c)
      BY <2>1 DEF ServerChunk
    <2>2. CASE ServerRequest(c)
      <3> DEFINE q == [id |-> c.id, handle |-> Message(Server, c)[1].handle, call |-> Message(Server, c)[1].call]
      <3>1. c.isFinal = "F" /\ todo' = todo \cup {q}
        BY <2>2 DEF ServerRequest
      <3>2. q.id = c.id
        OBVIOUS
      <3> QED BY <3>1, <3>2
    <2> QED BY <2>1, <2>2
  <1> HIDE DEF r
  <1>6. SameTokens(Client) /\ Open(Server)' /\ Open(Server)
    BY <1>2, <1>3 DEF SameTokens, Current, Precedent, Active, Open, ServerGets
  <1>7. ServerTakes(c)
    BY <1>1, <1>3, <1>4, <1>6, WaitedAsBefore DEF ServerTakes, ServerGets
  <1>8. /\ Current(Server)' = Current(Server) /\ Precedent(Server)' = Precedent(Server)
        /\ Active(Server)' = (Active(Server) \/ c.tok.id = Current(Server).id)
    BY <1>2, <1>3, <1>4 DEF Current, Precedent, Active
  <1> QED BY <1>3, <1>4, <1>5, <1>7, <1>8 DEF ServerKeeps

\* A request of renewal at the server: a token is drawn and sent.
LEMMA ServerGrantsMoves ==
  ASSUME Types, NEW c, ServerGets(c), ServerRenews(c)
  PROVE  \E g : ServerGrants(c, g)
  <1>1. PICK t \in TokenIds \ {conn[Server].currentSecurityToken.id} :
              /\ RepliesAs(Server, <<GrantChunk(c, t)>>, GrantedEnd(c, t))
              /\ GrantChunk(c, t) \in Numbered /\ <<GrantChunk(c, t)>> \in Seq(Chunks)
              /\ GrantedEnd(c, t) \in Connection
              /\ GrantedEnd(c, t).state = conn[Server].state
              /\ GrantedEnd(c, t).currentSecurityToken = NewToken(t)
              /\ GrantedEnd(c, t).precedentSecurityToken = conn[Server].currentSecurityToken
              /\ GrantedEnd(c, t).serverNewSecuTokenActive = FALSE
              /\ GrantedEnd(c, t).intermediateChunks = TreatMsgMultiChunks(Server, c)
    BY RenewsEffect
  <1>2. c \in Numbered /\ RoomForChunk(Server, c) /\ Len(TreatMsgMultiChunks(Server, c)) < MaxChunkCount
    <2>1. c \in Numbered /\ RoomForChunk(Server, c)
      BY RenewsEffect
    <2> QED BY <2>1, AfterChunkType, EndsPeer DEF Types
  <1> DEFINE g == GrantChunk(c, t)
             u == <<g>>
  <1>3. g \in Chunks /\ IsOPN(g) /\ g.id = c.id /\ g.tok = NewToken(t) /\ NewToken(t).id = t
    BY <1>1 DEF Chunks, GrantChunk, Chunk, IsOPN, NewToken
  <1>4. /\ conn'[Server] = GrantedEnd(c, t) /\ conn'[Client] = conn[Client]
        /\ wire'[Client] = Tail(wire[Client])
        /\ wire'[Server] = (IF Open(Client) THEN wire[Server] \o <<g>> ELSE wire[Server])
    <2> DEFINE e == GrantedEnd(c, t)
    <2>1. RepliesAs(Server, u, e) /\ u \in Seq(Chunks) /\ e \in Connection /\ Len(e.intermediateChunks) < MaxChunkCount
      BY <1>1, <1>2
    <2> HIDE DEF e, u
    <2>2. /\ conn'[Server] = e /\ conn'[Client] = conn[Client]
          /\ wire'[Client] = Tail(wire[Client])
          /\ wire'[Server] = (IF Open(Client) THEN wire[Server] \o u ELSE wire[Server])
      BY <2>1, RepliesEffect, EndsPeer DEF Types
    <2> QED BY <2>2 DEF e, u
  <1>5. IsOPN(c) /\ sentRequestIds' = sentRequestIds /\ todo' = todo
    BY DEF ServerRenews, ServerGets, IsOPN
  <1> HIDE DEF g, u
  <1>6. SameTokens(Client) /\ Open(Server)' /\ Open(Server)
    BY <1>1, <1>4 DEF SameTokens, Current, Precedent, Active, Open, ServerGets
  <1>7. ServerTakes(c)
    BY <1>2, <1>4, <1>5, <1>6, WaitedAsBefore DEF ServerTakes, ServerGets
  <1>8. /\ Current(Server)' = NewToken(t) /\ Precedent(Server)' = Current(Server) /\ Active(Server)' = FALSE
        /\ t \in TokenIds \ {Current(Server).id}
    BY <1>1, <1>4 DEF Current, Precedent, Active
  <1>9. ServerGrants(c, g)
    BY <1>3, <1>4, <1>5, <1>7, <1>8 DEF ServerGrants
  <1> QED BY <1>9

Move ==
  \/ Rests
  \/ \E m, id : Requests(m, id)
  \/ \E q, m : Answers(q, m)
  \/ \E a, o : Asking(a, o)
  \/ \E a : ClientLeaves(a)
  \/ ServerLeaves
  \/ \E c : ClientKeeps(c)
  \/ \E c, o : ClientSettles(c, o) \/ ClientChanges(c, o)
  \/ \E c : ServerKeeps(c)
  \/ \E c, g : ServerGrants(c, g)

\* Every step is one of these.
LEMMA StepMoves ==
  ASSUME Types, TimerInv, StreamInv, [Next]_vars
  PROVE  Move
  <1>1. Step \/ UNCHANGED vars
    BY NextSteps
  <1>2. CASE Rests \/ (\E m, id : Requests(m, id)) \/ (\E q, m : Answers(q, m)) \/ (\E a, o : Asking(a, o))
    BY <1>2 DEF Move
  <1>3. CASE (\E a : ClientLeaves(a)) \/ ServerLeaves \/ (\E c : ClientKeeps(c))
             \/ (\E c, o : ClientSettles(c, o) \/ ClientChanges(c, o))
    BY <1>3 DEF Move
  <1>4. CASE (\E c : ServerKeeps(c)) \/ (\E c, g : ServerGrants(c, g))
    BY <1>4 DEF Move
  <1>5. ASSUME \/ UNCHANGED vars
               \/ \E c \in Calls, n \in Sizes : Request(c, n)
               \/ TreatServicesEvent
               \/ \E r : Pops(r) /\ RefuseRequest(r)
               \/ \E t \in running : TimerExpires(t)
               \/ LateRenewal
               \/ \E t \in posted : TreatRequestTimeout(t)
        PROVE  Rests
    BY <1>5, RestsSteps
  <1>6. ASSUME NEW r, Pops(r),
               \/ SendRequest(r)
               \/ r.chunks > 1 /\ UnrecordedRequest(r)
               \/ \E k \in 0..(r.chunks - 1) : AbortRequest(r, k)
        PROVE  \E m, id : Requests(m, id)
    BY <1>6, RequestMoves
  <1>7. ASSUME NEW q \in todo, NEW n \in Sizes, Respond(q, n) PROVE \E m : Answers(q, m)
    BY <1>7, AnswerMoves
  <1>8. ASSUME NEW ev, NEW used, NEW farewell \in BOOLEAN, ClientCloses(ev, used, farewell)
        PROVE  \E a : ClientLeaves(a)
    BY <1>8, ClientLeavesMoves
  <1>9. ASSUME NEW farewell \in BOOLEAN, ServerCloses(farewell) PROVE ServerLeaves
    BY <1>9, ServerLeavesMoves
  <1>10. ASSUME NEW c, ClientGets(c), ClientChunk(c) PROVE ClientKeeps(c)
    BY <1>10, ClientPartMoves
  <1>11. ASSUME NEW c, ClientGets(c), ClientResponse(c) \/ TakesRenewal(c)
         PROVE  \E o : ClientSettles(c, o) \/ ClientChanges(c, o)
    BY <1>11, ClientResponseMoves, TakesMoves
  <1>12. ASSUME NEW c, ServerGets(c), ServerChunk(c) \/ ServerRequest(c) PROVE ServerKeeps(c)
    BY <1>12, ServerKeepsMoves
  <1>13. ASSUME NEW c, ServerGets(c), ServerRenews(c) PROVE \E g : ServerGrants(c, g)
    BY <1>13, ServerGrantsMoves
  <1>14. CASE UNCHANGED vars
    BY <1>2, <1>5, <1>14
  <1>15. CASE Step
    BY <1>2, <1>3, <1>4, <1>5, <1>6, <1>7, <1>8, <1>9, <1>10, <1>11, <1>12, <1>13, <1>15, AskMoves, Zenon
       DEF Step
  <1> QED BY <1>1, <1>14, <1>15

-----------------------------------------------------------------------------
(* The requests, move by move.                                             *)

\* What is taken from a wire.
LEMMA TailLess ==
  ASSUME Types, NEW p \in Ends, wire[p] # <<>>
  PROVE  /\ Head(wire[p]) \in Elems(wire[p]) /\ Head(wire[p]) \in Chunks
         /\ Elems(Tail(wire[p])) \subseteq Elems(wire[p]) /\ Elems(wire[p]) \subseteq Chunks
         /\ \A R : Pairwise(wire[p], R) =>
              Pairwise(Tail(wire[p]), R) /\ \A e \in Elems(Tail(wire[p])) : <<Head(wire[p]), e>> \in R
  <1>1. wire[p] \in Seq(Chunks)
    BY DEF Types, ChanTypes
  <1>2. Head(wire[p]) \in Elems(wire[p]) /\ Elems(Tail(wire[p])) \subseteq Elems(wire[p])
    BY <1>1, ElemsTail
  <1>3. Elems(wire[p]) \subseteq Chunks
    BY <1>1, ElemsType
  <1>4. ASSUME NEW R, Pairwise(wire[p], R)
        PROVE  Pairwise(Tail(wire[p]), R) /\ \A e \in Elems(Tail(wire[p])) : <<Head(wire[p]), e>> \in R
    BY <1>1, <1>4, PairwiseTail
  <1> QED BY <1>2, <1>3, <1>4, Zenon

\* The same list on the same wires, or shorter ones.
LEMMA RestsPlaces ==
  ASSUME PlaceInv, wire'[Client] = wire[Client], wire'[Server] = wire[Server], todo' = todo, AllWaited,
         Open(Client)' => Open(Client)
  PROVE  PlaceInv'
  <1>1. Pairwise(wire'[Client], AskedOnce) /\ Pairwise(wire'[Server], AnsweredOnce)
    BY DEF PlaceInv, OnePlace
  <1> QED BY <1>1, PlacesLess DEF AllWaited

\* A request is sent: its identifier is new, so it is in no other place.
LEMMA RequestsPlaces ==
  ASSUME Types, IdsInv, PlaceInv, NEW m, NEW id, Requests(m, id)
  PROVE  PlaceInv'
  <1>1. CASE Open(Server)
    <2>1. wire'[Client] = wire[Client] \o m /\ m \in Seq(Chunks) /\ wire'[Server] = wire[Server]
      BY <1>1, EndsPeer DEF Requests, Gains
    <2>2. \A x \in Elems(m) : Asks(x) => x.id = id /\ AwaitsOf(id, x.type = "OPN")'
      <3>1. ASSUME NEW x \in Elems(m), Asks(x) PROVE x.type = "MSG" /\ x.isFinal = "F"
        BY <3>1 DEF Requests, Asks
      <3>2. ASSUME NEW x \in Elems(m), Asks(x) PROVE x.id = id /\ AwaitsOf(id, FALSE)'
        BY <3>1, <3>2 DEF Requests
      <3>3. ASSUME NEW x, x.type = "MSG" PROVE (x.type = "OPN") = FALSE
        BY <3>3
      <3> QED BY <3>1, <3>2, <3>3
    <2>3. Pairwise(m, AskedOnce) /\ Open(Client) /\ id = clientNextReqId /\ todo' = todo
          /\ \A n \in Waited : StillWaited(n)
      BY DEF Requests, AllWaited
    <2> QED BY <2>1, <2>2, <2>3, PlacesAsk
  <1>2. CASE ~Open(Server)
    <2>1. wire'[Client] = wire[Client] /\ wire'[Server] = wire[Server] /\ todo' = todo /\ AllWaited /\ Open(Client)
      BY <1>2, EndsPeer DEF Requests, Gains
    <2> QED BY <2>1, RestsPlaces
  <1> QED BY <1>1, <1>2

\* So is a request of renewal.
LEMMA AskingPlaces ==
  ASSUME Types, IdsInv, PlaceInv, NEW a, NEW o, Asking(a, o)
  PROVE  PlaceInv'
  <1>1. Open(Client) /\ AllWaited /\ todo' = todo /\ wire'[Server] = wire[Server]
    BY DEF Asking, AllWaited, StillWaited, Open, ClientState
  <1>2. CASE Open(Server)
    <2> DEFINE u == <<a>>
    <2>1. u \in Seq(Chunks) /\ Elems(u) = {a} /\ Pairwise(u, AskedOnce)
      BY ElemsSmall, PairwiseSmall DEF Asking
    <2>2. wire'[Client] = wire[Client] \o u
      BY <1>2, EndsPeer DEF Asking, Gains
    <2> HIDE DEF u
    <2>3. PICK id : id = clientNextReqId
      OBVIOUS
    <2>4. a.id = id /\ AwaitsOf(id, TRUE)' /\ (a.type = "OPN") = TRUE
      BY <2>3 DEF Asking, AwaitsOf, IsOPN
    <2>5. \A x \in Elems(u) : Asks(x) => x.id = id /\ AwaitsOf(id, x.type = "OPN")'
      BY <2>1, <2>4
    <2> QED BY <1>1, <2>1, <2>2, <2>3, <2>5, PlacesAsk DEF AllWaited
  <1>3. CASE ~Open(Server)
    <2>1. wire'[Client] = wire[Client]
      BY <1>3, EndsPeer DEF Asking, Gains
    <2> QED BY <1>1, <2>1, RestsPlaces
  <1> QED BY <1>2, <1>3

\* An end leaves: what was on its way to it is gone, nothing is added but an error.
LEMMA LeavesPlaces ==
  ASSUME Types, PlaceInv, (\E a : ClientLeaves(a)) \/ ServerLeaves
  PROVE  PlaceInv'
  <1>1. ASSUME NEW a, ClientLeaves(a) PROVE PlaceInv'
    <2>1. /\ ~Open(Client)' /\ todo' = todo /\ GainsOne(Client, a) /\ Elems(wire'[Server]) = {}
          /\ Pairwise(wire'[Server], AnsweredOnce) /\ a \in Chunks /\ ~Asks(a)
      BY <1>1, ElemsSmall, PairwiseSmall DEF ClientLeaves, Asks
    <2>2. Pairwise(wire'[Client], AskedOnce)
      <3>1. Elems(wire[Client]) \subseteq Chunks
        BY ElemsType, EndsPeer DEF Types, ChanTypes
      <3>2. \A d \in Elems(wire[Client]) : <<d, a>> \in AskedOnce
        BY <2>1, <3>1 DEF AskedOnce
      <3> QED BY <2>1, <3>2 DEF GainsOne, PlaceInv, OnePlace
    <2>3. \A y \in Elems(wire'[Client]) : Asks(y) => y \in Elems(wire[Client])
      BY <2>1 DEF GainsOne
    <2> QED BY <2>1, <2>2, <2>3, PlacesLess
  <1>2. CASE ServerLeaves
    <2>1. /\ todo' = {} /\ GainsOne(Server, ErrChunk) /\ Elems(wire'[Client]) = {}
          /\ Pairwise(wire'[Client], AskedOnce) /\ AllWaited /\ (Open(Client)' => Open(Client))
      BY <1>2, ElemsSmall, PairwiseSmall DEF ServerLeaves, SameTokens, Open
    <2>2. ErrChunk \in Chunks /\ IsErr(ErrChunk)
      BY DEF Chunks, ErrChunk, Chunk, IsErr
    <2>3. Pairwise(wire'[Server], AnsweredOnce)
      <3>1. Elems(wire[Server]) \subseteq Chunks
        BY ElemsType, EndsPeer DEF Types, ChanTypes
      <3>2. \A d \in Elems(wire[Server]) : <<d, ErrChunk>> \in AnsweredOnce
        BY <2>2, <3>1 DEF AnsweredOnce
      <3> QED BY <2>1, <3>2 DEF GainsOne, PlaceInv, OnePlace
    <2>4. \A x \in Elems(wire'[Server]) : ~IsErr(x) => x \in Elems(wire[Server])
      BY <2>1, <2>2 DEF GainsOne
    <2> QED BY <2>1, <2>3, <2>4, PlacesLess DEF AllWaited
  <1> QED BY <1>1, <1>2

\* A part of a response leaves the wire.
LEMMA ClientKeepsPlaces ==
  ASSUME Types, PlaceInv, NEW c, ClientKeeps(c)
  PROVE  PlaceInv'
  <1>1. /\ wire[Server] # <<>> /\ wire'[Server] = Tail(wire[Server]) /\ wire'[Client] = wire[Client]
        /\ todo' = todo /\ Open(Client) /\ Waited' = Waited
    BY DEF ClientKeeps, ClientTakes
  <1>2. Elems(wire'[Server]) \subseteq Elems(wire[Server]) /\ Pairwise(wire'[Server], AnsweredOnce)
        /\ Pairwise(wire'[Client], AskedOnce)
    BY <1>1, TailLess, EndsPeer DEF PlaceInv, OnePlace
  <1>3. \A m \in Waited : StillWaited(m)
    BY <1>1 DEF StillWaited
  <1> QED BY <1>1, <1>2, <1>3, PlacesLess

\* The last chunk of a response leaves the wire together with the request waited for.
LEMMA ClientEndsPlaces ==
  ASSUME Types, TimerInv, PlaceInv, NEW c, NEW o, ClientEnds(c, o)
  PROVE  PlaceInv'
  <1>1. /\ wire[Server] # <<>> /\ wire'[Server] = Tail(wire[Server]) /\ wire'[Client] = wire[Client]
        /\ todo' = todo /\ Open(Client) /\ Waited' = Waited \ {o} /\ c = Head(wire[Server]) /\ ~IsErr(c)
        /\ c.isFinal # "C" /\ o.id = c.id
    BY DEF ClientEnds, ClientTakes, IsErr
  <1>2. Elems(wire'[Server]) \subseteq Elems(wire[Server]) /\ Pairwise(wire'[Server], AnsweredOnce)
        /\ Pairwise(wire'[Client], AskedOnce) /\ c \in Elems(wire[Server])
        /\ \A e \in Elems(wire'[Server]) : <<c, e>> \in AnsweredOnce
    BY <1>1, TailLess, EndsPeer DEF PlaceInv, OnePlace
  <1>3. Unused(o.id)'
    <2>1. \A x \in Elems(wire'[Server]) : ~IsErr(x) => x.id # c.id
      BY <1>1, <1>2 DEF AnsweredOnce
    <2>2. (\A y \in Elems(wire[Client]) : Asks(y) => y.id # c.id) /\ (\A q \in todo : q.id # c.id)
      BY <1>1, <1>2 DEF PlaceInv, OnePlace
    <2> QED BY <1>1, <2>1, <2>2 DEF Unused
  <1>4. \A m \in Waited : StillWaited(m) \/ Unused(m.id)'
    <2>1. ASSUME NEW m \in Waited, m # o PROVE StillWaited(m)
      BY <1>1, <2>1 DEF StillWaited
    <2> QED BY <1>3, <2>1
  <1> QED BY <1>1, <1>2, <1>4, PlacesLess

\* A chunk at the server: its request goes from the wire to the services.
LEMMA ServerKeepsPlaces ==
  ASSUME Types, PlaceInv, NEW c, ServerKeeps(c)
  PROVE  PlaceInv'
  <1>1. /\ wire[Client] # <<>> /\ wire'[Client] = Tail(wire[Client]) /\ wire'[Server] = wire[Server]
        /\ AllWaited /\ c = Head(wire[Client]) /\ c.type = "MSG" /\ (Open(Client)' => Open(Client))
        /\ todo' = todo \/ (c.isFinal = "F" /\ \E r : todo' = todo \cup {r} /\ r.id = c.id)
    BY DEF ServerKeeps, ServerTakes, SameTokens, Open
  <1>2. CASE todo' = todo
    <2>1. Elems(wire'[Client]) \subseteq Elems(wire[Client]) /\ Pairwise(wire'[Client], AskedOnce)
          /\ Pairwise(wire'[Server], AnsweredOnce)
      BY <1>1, TailLess, EndsPeer DEF PlaceInv, OnePlace
    <2> QED BY <1>1, <1>2, <2>1, PlacesLess DEF AllWaited
  <1>3. ASSUME NEW r, todo' = todo \cup {r}, r.id = c.id, c.isFinal = "F" PROVE PlaceInv'
    <2>1. Asks(c) /\ c.type # "OPN"
      BY <1>1, <1>3 DEF Asks
    <2> QED BY <1>1, <1>3, <2>1, PlacesTaken DEF AllWaited
  <1> QED BY <1>1, <1>2, <1>3

\* A request of renewal goes from one wire to the other.
LEMMA ServerGrantsPlaces ==
  ASSUME Types, PlaceInv, NEW c, NEW g, ServerGrants(c, g)
  PROVE  PlaceInv'
  <1>1. /\ wire[Client] # <<>> /\ wire'[Client] = Tail(wire[Client]) /\ AllWaited /\ c = Head(wire[Client])
        /\ (Open(Client)' <=> Open(Client)) /\ todo' = todo /\ c.type = "OPN" /\ g.type = "OPN"
        /\ g \in Chunks /\ g.id = c.id
        /\ wire'[Server] = (IF Open(Client) THEN wire[Server] \o <<g>> ELSE wire[Server])
    BY DEF ServerGrants, ServerTakes, SameTokens, Open, IsOPN
  <1> QED BY <1>1, PlacesGranted DEF AllWaited

\* A request goes from the services to the wire.
LEMMA AnswersPlaces ==
  ASSUME Types, PlaceInv, NEW q, NEW m, Answers(q, m)
  PROVE  PlaceInv'
  <1>1. /\ q \in todo /\ todo' = todo \ {q} /\ m \in Seq(Chunks) /\ wire'[Client] = wire[Client]
        /\ wire'[Server] = (IF Open(Client) THEN wire[Server] \o m ELSE wire[Server])
        /\ (\A x \in Elems(m) : x.id = q.id /\ x.type = "MSG") /\ Pairwise(m, AnsweredOnce)
        /\ (Open(Client)' <=> Open(Client)) /\ AllWaited
    BY EndsPeer DEF Answers, Gains, SameTokens, Open
  <1> QED BY <1>1, PlacesAnswered DEF AllWaited

\* Every step keeps the requests where they are waited for.
LEMMA PlacesStep ==
  ASSUME Types, TimerInv, StreamInv, IdsInv, PlaceInv, [Next]_vars
  PROVE  PlaceInv'
  <1>1. Move
    BY StepMoves
  <1>2. CASE Rests
    <2>1. /\ wire'[Client] = wire[Client] /\ wire'[Server] = wire[Server] /\ todo' = todo /\ AllWaited
          /\ Open(Client)' => Open(Client)
      BY <1>2 DEF Rests, SameTokens, Open
    <2> QED BY <2>1, RestsPlaces
  <1> QED BY <1>1, <1>2, RequestsPlaces, AnswersPlaces, AskingPlaces, LeavesPlaces, ClientKeepsPlaces,
            ClientEndsPlaces, ServerKeepsPlaces, ServerGrantsPlaces
         DEF Move, ClientSettles, ClientChanges

\* Nothing is asked at first.
LEMMA InitPlaces ==
  ASSUME Init
  PROVE  PlaceInv
  <1>1. wire[Client] = <<>> /\ wire[Server] = <<>> /\ todo = {}
    BY EndsPeer DEF Init
  <1>2. Elems(wire[Client]) = {} /\ Elems(wire[Server]) = {}
    BY <1>1, ElemsSmall
  <1>3. Pairwise(wire[Client], AskedOnce) /\ Pairwise(wire[Server], AnsweredOnce)
    BY <1>1, PairwiseSmall
  <1> QED BY <1>1, <1>2, <1>3 DEF PlaceInv, Awaited, OnePlace

-----------------------------------------------------------------------------
(* The tokens, move by move.                                               *)

\* What an end sends under, when the other is open.
LEMMA ClientToken ==
  ASSUME TokenInv, Open(Client)
  PROVE  /\ SendToken(Client) = Current(Client)
         /\ Open(Server) => /\ Current(Client) \in {Current(Server), Precedent(Server)}
                            /\ \A d \in Elems(wire[Client]) : IsOPN(d) => Current(Client) = Current(Server)
  BY DEF TokenInv, ClientTokens, Together, InStep, Behind, SendToken, Active, Current

\* The token the server sends with is one that the client holds; the newest one when an
\* answer of renewal is on its way.
LEMMA ServerToken ==
  ASSUME TokenInv, Open(Client), Open(Server)
  PROVE  /\ SendToken(Server) \in {Current(Client), Precedent(Client)}
         /\ \A d \in Elems(wire[Server]) : IsOPN(d) => SendToken(Server) = Current(Client)
  BY DEF TokenInv, Together, InStep, Behind, SendToken, Active, Current, Precedent

\* The channel's own request is on its way during a renewal only.
LEMMA OwnAsked ==
  ASSUME PlaceInv, TokenInv, Open(Client), NEW y \in Elems(wire[Client]), IsOPN(y)
  PROVE  ClientState = "SC_CONNECTED_RENEW" /\ \E m \in Waited : m.handle = OPN
  <1>1. AwaitsOf(y.id, y.type = "OPN")
    BY DEF PlaceInv, Awaited, Asks, IsOPN
  <1>2. PICK m \in Waited : m.handle = OPN
    BY <1>1 DEF AwaitsOf, IsOPN
  <1> QED BY <1>2 DEF TokenInv, OwnRequest

\* The sets of pairs change with the current tokens only.
LEMMA PairsKept ==
  /\ Current(Server)' = Current(Server) => AfterAsk' = AfterAsk
  /\ Current(Client)' = Current(Client) => AfterGrant' = AfterGrant
  BY DEF AfterAsk, AfterGrant

\* A state that is kept.
LEMMA SameState ==
  ASSUME NEW p, conn'[p].state = conn[p].state
  PROVE  Open(p)' <=> Open(p)
  BY DEF Open

\* Everything that is said of a shorter wire.
LEMMA ServerTokensLess ==
  ASSUME ServerTokens, conn'[Server].state = conn[Server].state,
         Current(Server)' = Current(Server), Precedent(Server)' = Precedent(Server),
         Elems(wire'[Client]) \subseteq Elems(wire[Client]),
         Pairwise(wire[Client], AfterAsk) => Pairwise(wire'[Client], AfterAsk)
  PROVE  ServerTokens'
  <1>1. (Open(Server)' <=> Open(Server)) /\ AfterAsk' = AfterAsk
    BY SameState, PairsKept
  <1> QED BY <1>1 DEF ServerTokens, TokensApart

\* The client can still read what is left on the wire.
LEMMA ClientTokensLess ==
  ASSUME ClientTokens, conn'[Client].state = conn[Client].state, Active(Client) => Active(Client)',
         Current(Client)' = Current(Client), Precedent(Client)' = Precedent(Client),
         Elems(wire'[Server]) \subseteq Elems(wire[Server]),
         Pairwise(wire[Server], AfterGrant) => Pairwise(wire'[Server], AfterGrant)
  PROVE  ClientTokens'
  <1>1. (Open(Client)' <=> Open(Client)) /\ AfterGrant' = AfterGrant
    BY SameState, PairsKept
  <1> QED BY <1>1 DEF ClientTokens, TokensApart

\* The own request, when nothing is added to the list.
LEMMA OwnLess ==
  ASSUME OwnRequest, conn'[Client].state = conn[Client].state, Open(Server)' => Open(Server),
         \A n \in Waited' : OnlyWaited(n) \/ n.handle # OPN,
         AllWaited \/ ~Open(Server)' \/ Behind', Behind /\ Open(Server)' => Behind'
  PROVE  OwnRequest'
  <1>1. Open(Client)' <=> Open(Client)
    BY SameState
  <1>2. ClientState' = ClientState
    BY DEF ClientState
  <1> QED BY <1>1, <1>2 DEF OwnRequest, OnlyWaited, AllWaited, StillWaited

\* Both ends as they were, on wires that are no longer.
LEMMA RestsTokens ==
  ASSUME Types, TokenInv, SameTokens(Client), SameTokens(Server), wire'[Client] = wire[Client],
         wire'[Server] = wire[Server], AllWaited, \A n \in Waited' : OnlyWaited(n)
  PROVE  TokenInv'
  <1>1. (Open(Client)' <=> Open(Client)) /\ (Open(Server)' <=> Open(Server))
    BY SameState DEF SameTokens
  <1>2. ServerTokens'
    BY ServerTokensLess DEF TokenInv, SameTokens
  <1>3. ClientTokens'
    BY ClientTokensLess DEF TokenInv, SameTokens
  <1>4. (InStep => InStep') /\ (Behind => Behind')
    BY DEF InStep, Behind, SameTokens, ClientState
  <1>5. Together'
    BY <1>1, <1>4 DEF TokenInv, Together
  <1>6. OwnRequest'
    BY <1>1, <1>4, OwnLess DEF TokenInv, SameTokens
  <1> QED BY <1>2, <1>3, <1>5, <1>6 DEF TokenInv

\* What the client adds to its wire can be read by the server.
LEMMA ServerTokensMore ==
  ASSUME Types, TokenInv, Open(Client), SameTokens(Server), NEW m \in Seq(Chunks),
         Open(Server) => wire'[Client] = wire[Client] \o m, ~Open(Server) => wire'[Client] = wire[Client],
         \A x \in Elems(m) : ~IsErr(x) /\ ~IsOPN(x) /\ x.tok = SendToken(Client)
  PROVE  /\ ServerTokens'
         /\ Elems(wire'[Client]) \subseteq Elems(wire[Client]) \cup Elems(m)
  <1>0. wire[Client] \in Seq(Chunks) /\ Elems(wire[Client]) \subseteq Chunks /\ Elems(m) \subseteq Chunks
    BY ElemsType, EndsPeer DEF Types, ChanTypes
  <1>1. (Open(Server)' <=> Open(Server)) /\ AfterAsk' = AfterAsk
    BY SameState, PairsKept DEF SameTokens
  <1>2. Elems(wire[Client] \o m) = Elems(wire[Client]) \cup Elems(m)
    BY <1>0, ElemsConcat
  <1>3. Elems(wire'[Client]) \subseteq Elems(wire[Client]) \cup Elems(m)
    BY <1>2
  <1>4. \A y \in Elems(wire'[Client]) : ~IsErr(y)
    BY <1>3 DEF TokenInv, ServerTokens
  <1>5. CASE ~Open(Server)
    BY <1>1, <1>3, <1>4, <1>5 DEF ServerTokens, TokenInv, SameTokens
  <1>6. CASE Open(Server)
    <2>1. \A x \in Elems(m) : x.tok \in {Current(Server), Precedent(Server)}
      BY <1>6, ClientToken
    <2>2. Pairwise(wire[Client] \o m, AfterAsk)
      <3>1. \A d \in Elems(wire[Client]), e \in Elems(m) : <<d, e>> \in AfterAsk
        BY <1>0, <1>6, ClientToken DEF AfterAsk
      <3>2. Pairwise(m, AfterAsk)
        <4>1. \A i, j \in 1..Len(m) : <<m[i], m[j]>> \in AfterAsk
          BY <1>0, ElemsType DEF AfterAsk
        <4> QED BY <4>1 DEF Pairwise
      <3>3. Pairwise(wire[Client], AfterAsk)
        BY <1>6 DEF TokenInv, ServerTokens
      <3> QED BY <1>0, <3>1, <3>2, <3>3, PairwiseConcat
    <2>3. TokensApart(Server)'
      BY <1>6 DEF TokenInv, ServerTokens, TokensApart, SameTokens
    <2>4. \A y \in Elems(wire'[Client]) : ~IsOPN(y) => y.tok \in {Current(Server), Precedent(Server)}
      BY <1>3, <1>6, <2>1 DEF TokenInv, ServerTokens
    <2>5. Current(Server)' = Current(Server) /\ Precedent(Server)' = Precedent(Server)
      BY DEF SameTokens
    <2>6. Pairwise(wire'[Client], AfterAsk')
      BY <1>1, <1>6, <2>2
    <2> QED BY <1>1, <1>3, <1>4, <1>6, <2>3, <2>4, <2>5, <2>6 DEF ServerTokens
  <1> QED BY <1>3, <1>5, <1>6

\* What the server adds to its wire can be read by the client.
LEMMA ClientTokensMore ==
  ASSUME Types, TokenInv, Open(Server), SameTokens(Client), NEW m \in Seq(Chunks),
         Open(Client) => wire'[Server] = wire[Server] \o m, ~Open(Client) => wire'[Server] = wire[Server],
         \A x \in Elems(m) : ~IsOPN(x) /\ x.tok = SendToken(Server)
  PROVE  /\ ClientTokens'
         /\ Elems(wire'[Server]) \subseteq Elems(wire[Server]) \cup Elems(m)
  <1>0. wire[Server] \in Seq(Chunks) /\ Elems(wire[Server]) \subseteq Chunks /\ Elems(m) \subseteq Chunks
    BY ElemsType, EndsPeer DEF Types, ChanTypes
  <1>1. (Open(Client)' <=> Open(Client)) /\ AfterGrant' = AfterGrant
    BY SameState, PairsKept DEF SameTokens
  <1>2. Elems(wire[Server] \o m) = Elems(wire[Server]) \cup Elems(m)
    BY <1>0, ElemsConcat
  <1>3. Elems(wire'[Server]) \subseteq Elems(wire[Server]) \cup Elems(m)
    BY <1>2
  <1>5. CASE ~Open(Client)
    BY <1>1, <1>3, <1>5 DEF ClientTokens
  <1>6. CASE Open(Client)
    <2>1. \A x \in Elems(m) : x.tok \in {Current(Client), Precedent(Client)}
      BY <1>6, ServerToken
    <2>2. Pairwise(wire[Server] \o m, AfterGrant)
      <3>1. \A d \in Elems(wire[Server]), e \in Elems(m) : <<d, e>> \in AfterGrant
        BY <1>0, <1>6, ServerToken DEF AfterGrant
      <3>2. Pairwise(m, AfterGrant)
        <4>1. \A i, j \in 1..Len(m) : <<m[i], m[j]>> \in AfterGrant
          BY <1>0, ElemsType DEF AfterGrant
        <4> QED BY <4>1 DEF Pairwise
      <3>3. Pairwise(wire[Server], AfterGrant)
        BY <1>6 DEF TokenInv, ClientTokens
      <3> QED BY <1>0, <3>1, <3>2, <3>3, PairwiseConcat
    <2>3. TokensApart(Client)' /\ Active(Client)'
      BY <1>6 DEF TokenInv, ClientTokens, TokensApart, SameTokens
    <2>4. \A x \in Elems(wire'[Server]) :
             /\ ~IsOPN(x) /\ ~IsErr(x) => x.tok \in {Current(Client), Precedent(Client)}
             /\ IsOPN(x) => x.tok.id # Current(Client).id /\ x.tok.id \in TokenIds
      BY <1>3, <1>6, <2>1 DEF TokenInv, ClientTokens
    <2>5. Current(Client)' = Current(Client) /\ Precedent(Client)' = Precedent(Client)
      BY DEF SameTokens
    <2>6. Pairwise(wire'[Server], AfterGrant')
      BY <1>1, <1>6, <2>2
    <2> QED BY <1>1, <1>3, <1>6, <2>3, <2>4, <2>5, <2>6 DEF ClientTokens
  <1> QED BY <1>3, <1>5, <1>6

\* A request goes under the token of the client, which the server holds.
LEMMA RequestsTokens ==
  ASSUME Types, TokenInv, NEW m, NEW id, Requests(m, id)
  PROVE  TokenInv'
  <1>0. /\ Open(Client) /\ SameTokens(Client) /\ SameTokens(Server) /\ m \in Seq(Chunks)
        /\ wire'[Server] = wire[Server] /\ AllWaited /\ \A n \in Waited' : OnlyWaited(n) \/ n.handle # OPN
        /\ Open(Server) => wire'[Client] = wire[Client] \o m
        /\ ~Open(Server) => wire'[Client] = wire[Client]
        /\ \A x \in Elems(m) : ~IsErr(x) /\ ~IsOPN(x) /\ x.tok = SendToken(Client)
    BY EndsPeer DEF Requests, Gains, IsErr, IsOPN
  <1>1. (Open(Client)' <=> Open(Client)) /\ (Open(Server)' <=> Open(Server))
    BY <1>0, SameState DEF SameTokens
  <1>2. ServerTokens' /\ Elems(wire'[Client]) \subseteq Elems(wire[Client]) \cup Elems(m)
    BY <1>0, ServerTokensMore
  <1>3. ClientTokens'
    BY <1>0, ClientTokensLess DEF TokenInv, SameTokens
  <1>4. InStep => InStep'
    BY <1>0 DEF InStep, SameTokens
  <1>5. Behind => Behind'
    BY <1>0, <1>2, ClientToken DEF Behind, SameTokens, ClientState
  <1>6. Together'
    BY <1>1, <1>4, <1>5 DEF TokenInv, Together
  <1>7. OwnRequest'
    BY <1>0, <1>1, <1>5, OwnLess DEF TokenInv, SameTokens
  <1> QED BY <1>2, <1>3, <1>6, <1>7 DEF TokenInv

\* A response goes under the token the server sends with, which the client holds.
LEMMA AnswersTokens ==
  ASSUME Types, TokenInv, NEW q, NEW m, Answers(q, m)
  PROVE  TokenInv'
  <1>0. /\ Open(Server) /\ SameTokens(Client) /\ SameTokens(Server) /\ m \in Seq(Chunks)
        /\ wire'[Client] = wire[Client] /\ AllWaited /\ \A n \in Waited' : OnlyWaited(n)
        /\ Open(Client) => wire'[Server] = wire[Server] \o m
        /\ ~Open(Client) => wire'[Server] = wire[Server]
        /\ \A x \in Elems(m) : ~IsOPN(x) /\ x.tok = SendToken(Server)
    BY EndsPeer DEF Answers, Gains, IsErr, IsOPN
  <1>1. (Open(Client)' <=> Open(Client)) /\ (Open(Server)' <=> Open(Server))
    BY <1>0, SameState DEF SameTokens
  <1>2. ClientTokens' /\ Elems(wire'[Server]) \subseteq Elems(wire[Server]) \cup Elems(m)
    BY <1>0, ClientTokensMore
  <1>3. ServerTokens'
    BY <1>0, ServerTokensLess DEF TokenInv, SameTokens
  <1>4. InStep => InStep'
    BY <1>0, <1>2 DEF InStep, SameTokens
  <1>5. Behind => Behind'
    BY <1>0, <1>2 DEF Behind, SameTokens, ClientState
  <1>6. Together'
    BY <1>1, <1>4, <1>5 DEF TokenInv, Together
  <1>7. OwnRequest'
    BY <1>0, <1>1, <1>5, OwnLess DEF TokenInv, SameTokens
  <1> QED BY <1>2, <1>3, <1>6, <1>7 DEF TokenInv

\* A renewal is asked only when both ends are in step.
LEMMA AskingTokens ==
  ASSUME Types, PlaceInv, TokenInv, NEW a, NEW o, Asking(a, o)
  PROVE  TokenInv'
  <1>0. /\ Open(Client) /\ Open(Client)' /\ SameTokens(Server) /\ (Open(Server)' <=> Open(Server))
        /\ wire'[Server] = wire[Server] /\ a \in Chunks /\ IsOPN(a) /\ ~IsErr(a) /\ GainsOne(Client, a)
        /\ Current(Client)' = Current(Client) /\ Precedent(Client)' = Precedent(Client)
        /\ Active(Client)' = Active(Client)
    <2>1. Gains(Client, <<a>>) /\ a \in Chunks /\ <<a>> \in {<<>>, <<a>>}
      BY DEF Asking
    <2>2. GainsOne(Client, a)
      BY <2>1, OneSent, EndsPeer
    <2> QED BY <2>2, SameState DEF Asking, SameTokens, IsOPN, IsErr, Open, ClientState
  <1>1. ClientState = "SC_CONNECTED" /\ ClientState' = "SC_CONNECTED_RENEW"
    BY DEF Asking
  <1>2. \A y \in Elems(wire[Client]) : ~IsOPN(y)
    BY <1>0, <1>1, OwnAsked
  <1>3. ServerTokens'
    <2>1. \A y \in Elems(wire'[Client]) : ~IsErr(y)
      BY <1>0 DEF GainsOne, TokenInv, ServerTokens
    <2>2. Pairwise(wire[Client], AfterAsk) => Pairwise(wire'[Client], AfterAsk)
      <3>1. Elems(wire[Client]) \subseteq Chunks
        BY ElemsType, EndsPeer DEF Types, ChanTypes
      <3>2. \A d \in Elems(wire[Client]) : <<d, a>> \in AfterAsk
        BY <1>0, <1>2, <3>1 DEF AfterAsk
      <3> QED BY <1>0, <3>2 DEF GainsOne
    <2>3. AfterAsk' = AfterAsk /\ Current(Server)' = Current(Server) /\ Precedent(Server)' = Precedent(Server)
      BY <1>0, PairsKept DEF SameTokens
    <2>4. \A y \in Elems(wire'[Client]) : ~IsOPN(y) => y \in Elems(wire[Client])
      BY <1>0 DEF GainsOne
    <2> QED BY <1>0, <2>1, <2>2, <2>3, <2>4 DEF TokenInv, ServerTokens, TokensApart
  <1>4. ClientTokens'
    BY <1>0, PairsKept DEF TokenInv, ClientTokens, TokensApart
  <1>5. Together'
    <2>1. ~Behind
      BY <1>1 DEF Behind
    <2>2. InStep => InStep'
      BY <1>0 DEF InStep, SameTokens
    <2> QED BY <1>0, <2>1, <2>2 DEF TokenInv, Together
  <1>6. OwnRequest'
    <2>1. \A m \in Waited : m.handle # OPN
      BY <1>0, <1>1 DEF TokenInv, OwnRequest
    <2>2. Waited' = Waited \cup {o} /\ o.handle = OPN
      BY DEF Asking
    <2> QED BY <1>1, <2>1, <2>2 DEF OwnRequest
  <1> QED BY <1>3, <1>4, <1>5, <1>6 DEF TokenInv

\* The end of the client leaves the tokens of the server alone.
LEMMA ClientLeavesTokens ==
  ASSUME Types, TokenInv, NEW a, ClientLeaves(a)
  PROVE  TokenInv'
  <1>0. /\ Open(Client) /\ ~Open(Client)' /\ SameTokens(Server) /\ (Open(Server)' <=> Open(Server))
        /\ a \in Chunks /\ ~IsOPN(a) /\ ~IsErr(a) /\ GainsOne(Client, a) /\ a.tok = Current(Client)
    BY SameState, ClientToken DEF ClientLeaves, IsOPN, IsErr, SameTokens
  <1>1. ServerTokens'
    <2>1. \A y \in Elems(wire'[Client]) : ~IsErr(y)
      BY <1>0 DEF GainsOne, TokenInv, ServerTokens
    <2>2. Open(Server) /\ Pairwise(wire[Client], AfterAsk) => Pairwise(wire'[Client], AfterAsk)
      <3>1. Elems(wire[Client]) \subseteq Chunks
        BY ElemsType, EndsPeer DEF Types, ChanTypes
      <3>2. Open(Server) => \A d \in Elems(wire[Client]) : <<d, a>> \in AfterAsk
        BY <1>0, <3>1, ClientToken DEF AfterAsk
      <3> QED BY <1>0, <3>2 DEF GainsOne
    <2>3. AfterAsk' = AfterAsk /\ Current(Server)' = Current(Server) /\ Precedent(Server)' = Precedent(Server)
      BY <1>0, PairsKept DEF SameTokens
    <2>4. \A y \in Elems(wire'[Client]) : y = a \/ y \in Elems(wire[Client])
      BY <1>0 DEF GainsOne
    <2>5. Open(Server) => a.tok \in {Current(Server), Precedent(Server)}
      BY <1>0, ClientToken
    <2> QED BY <1>0, <2>1, <2>2, <2>3, <2>4, <2>5 DEF TokenInv, ServerTokens, TokensApart
  <1> QED BY <1>0, <1>1 DEF TokenInv, ClientTokens, Together, OwnRequest

\* The end of the server leaves the tokens of the client alone.
LEMMA ServerLeavesTokens ==
  ASSUME Types, TokenInv, ServerLeaves
  PROVE  TokenInv'
  <1>0. /\ Open(Server) /\ ~Open(Server)' /\ SameTokens(Client) /\ (Open(Client)' <=> Open(Client))
        /\ Current(Server)' = NoToken /\ GainsOne(Server, ErrChunk) /\ Elems(wire'[Client]) = {}
        /\ AllWaited /\ \A n \in Waited' : OnlyWaited(n)
    BY SameState, ElemsSmall DEF ServerLeaves, SameTokens
  <1>1. ServerTokens'
    BY <1>0 DEF ServerTokens
  <1>2. ClientTokens'
    <2>0. ErrChunk \in Chunks /\ ~IsOPN(ErrChunk) /\ IsErr(ErrChunk)
      BY DEF Chunks, ErrChunk, Chunk, IsOPN, IsErr
    <2>1. Pairwise(wire[Server], AfterGrant) => Pairwise(wire'[Server], AfterGrant)
      <3>1. Elems(wire[Server]) \subseteq Chunks
        BY ElemsType, EndsPeer DEF Types, ChanTypes
      <3>2. \A d \in Elems(wire[Server]) : <<d, ErrChunk>> \in AfterGrant
        BY <2>0, <3>1 DEF AfterGrant
      <3> QED BY <1>0, <3>2 DEF GainsOne
    <2>2. AfterGrant' = AfterGrant
      BY <1>0, PairsKept DEF SameTokens
    <2>3. \A x \in Elems(wire'[Server]) : IsErr(x) \/ x \in Elems(wire[Server])
      BY <1>0, <2>0 DEF GainsOne
    <2>4. \A x : IsErr(x) => ~IsOPN(x)
      BY DEF IsErr, IsOPN
    <2> QED BY <1>0, <2>1, <2>2, <2>3, <2>4 DEF TokenInv, ClientTokens, TokensApart, SameTokens
  <1>3. OwnRequest'
    BY <1>0, OwnLess DEF TokenInv, SameTokens
  <1> QED BY <1>0, <1>1, <1>2, <1>3 DEF TokenInv, Together

\* The client takes a chunk and keeps its tokens.
LEMMA ClientStaysTokens ==
  ASSUME Types, TimerInv, TokenInv, NEW c,
         ClientKeeps(c) \/ \E o : ClientSettles(c, o)
  PROVE  TokenInv'
  <1>0. /\ ClientTakes(c) /\ SameClient /\ wire[Server] # <<>> /\ wire'[Server] = Tail(wire[Server])
        /\ wire'[Client] = wire[Client] /\ SameTokens(Server) /\ (Active(Client) => Active(Client)')
        /\ Waited' \subseteq Waited
    BY DEF ClientKeeps, ClientSettles, ClientEnds, ClientTakes
  <1>1. /\ c \in Elems(wire[Server]) /\ Elems(wire'[Server]) \subseteq Elems(wire[Server])
        /\ \A R : Pairwise(wire[Server], R) => Pairwise(wire'[Server], R)
    BY <1>0, TailLess, EndsPeer DEF ClientTakes
  <1>2. (Open(Client)' <=> Open(Client)) /\ (Open(Server)' <=> Open(Server))
        /\ conn'[Client].state = conn[Client].state
    BY <1>0, SameState DEF SameTokens, SameClient, ClientState
  <1>3. ServerTokens'
    BY <1>0, ServerTokensLess DEF TokenInv, SameTokens
  <1>4. ClientTokens'
    BY <1>0, <1>1, <1>2, ClientTokensLess DEF TokenInv, SameClient
  <1>5. (InStep => InStep') /\ (Behind => Behind')
    BY <1>0, <1>1 DEF InStep, Behind, SameTokens, SameClient
  <1>6. Together'
    BY <1>2, <1>5 DEF TokenInv, Together
  <1>7. OwnRequest'
    <2>1. \A n \in Waited' : OnlyWaited(n)
      BY <1>0 DEF OnlyWaited
    <2>2. CASE \A m \in Waited : m.handle = OPN => m \in Waited'
      <3>1. (\E m \in Waited : m.handle = OPN) => \E m \in Waited' : m.handle = OPN
        BY <2>2
      <3>2. ClientState' = ClientState
        BY <1>0 DEF SameClient
      <3> QED BY <1>2, <1>5, <2>1, <3>1, <3>2 DEF TokenInv, OwnRequest, OnlyWaited
    <2>3. CASE \E o \in Waited : o.handle = OPN /\ o \notin Waited'
      <3>1. IsOPN(c)
        BY <2>3 DEF ClientKeeps, ClientSettles, ClientEnds
      <3>2. Open(Server) => Behind
        BY <1>0, <1>1, <3>1 DEF TokenInv, Together, InStep, ClientTakes
      <3> QED BY <1>2, <1>5, <2>1, <3>2, OwnLess DEF TokenInv
    <2> QED BY <2>2, <2>3
  <1> QED BY <1>3, <1>4, <1>6, <1>7 DEF TokenInv

\* Nothing is a pair when nothing begins one.
LEMMA PairwiseNone ==
  ASSUME NEW R, NEW w \in Seq(Chunks), \A d, e \in Elems(w) : <<d, e>> \in R
  PROVE  Pairwise(w, R)
  <1>1. \A i \in 1..Len(w) : w[i] \in Elems(w)
    BY ElemsType
  <1> QED BY <1>1 DEF Pairwise

\* The client takes the new token: it is in step with the server again.
LEMMA ClientChangesTokens ==
  ASSUME Types, TimerInv, TokenInv, NEW c, NEW o, ClientChanges(c, o)
  PROVE  TokenInv'
  <1>0. /\ Open(Client) /\ Open(Client)' /\ wire[Server] # <<>> /\ wire'[Server] = Tail(wire[Server])
        /\ wire'[Client] = wire[Client] /\ SameTokens(Server) /\ (Active(Client) => Active(Client)')
        /\ c = Head(wire[Server]) /\ IsOPN(c) /\ o \in Waited /\ Waited' = Waited \ {o} /\ o.handle = OPN
        /\ ClientState' = "SC_CONNECTED" /\ Current(Client)' = c.tok /\ Precedent(Client)' = Current(Client)
    BY DEF ClientChanges, ClientEnds, ClientTakes, ClientState, Open
  <1>1. /\ c \in Elems(wire[Server]) /\ Elems(wire'[Server]) \subseteq Elems(wire[Server])
        /\ Elems(wire[Server]) \subseteq Chunks
        /\ \A e \in Elems(wire'[Server]) : <<c, e>> \in AfterGrant
    <2>1. Pairwise(wire[Server], AfterGrant)
      BY <1>0 DEF TokenInv, ClientTokens
    <2> QED BY <1>0, <2>1, TailLess, EndsPeer
  <1>2. \A e \in Elems(wire'[Server]) : ~IsOPN(e) /\ (~IsErr(e) => e.tok = Current(Client))
    BY <1>0, <1>1 DEF AfterGrant
  <1>3. Open(Server)' <=> Open(Server)
    BY <1>0, SameState DEF SameTokens
  <1>4. ServerTokens'
    BY <1>0, ServerTokensLess DEF TokenInv, SameTokens
  <1>5. ClientTokens'
    <2>1. TokensApart(Client)' /\ Active(Client)'
      BY <1>0, <1>1 DEF TokenInv, ClientTokens, TokensApart
    <2>2. Pairwise(wire'[Server], AfterGrant')
      <3>1. \A d, e \in Elems(wire'[Server]) : <<d, e>> \in AfterGrant'
        BY <1>1, <1>2 DEF AfterGrant
      <3>2. wire'[Server] \in Seq(Chunks)
        <4>1. wire[Server] \in Seq(Chunks)
          BY EndsPeer DEF Types, ChanTypes
        <4> QED BY <1>0, <4>1
      <3> QED BY <3>1, <3>2, PairwiseNone
    <2> QED BY <1>0, <1>2, <2>1, <2>2 DEF ClientTokens
  <1>6. Together'
    <2>1. Open(Server) => Behind
      BY <1>0, <1>1 DEF TokenInv, Together, InStep
    <2>2. Open(Server) => InStep'
      BY <1>0, <1>1, <1>2, <2>1 DEF InStep, Behind, SameTokens
    <2> QED BY <1>3, <2>2 DEF Together
  <1>7. OwnRequest'
    <2>1. \A m \in Waited' : m.handle # OPN
      <3>1. ASSUME NEW m \in Waited, m.handle = OPN PROVE m = o
        <4>1. m.id = o.id
          BY <1>0, <3>1 DEF TokenInv, OwnRequest
        <4> QED BY <1>0, <3>1, <4>1, UniqueCtx
      <3> QED BY <1>0, <3>1
    <2> QED BY <1>0, <2>1 DEF OwnRequest
  <1> QED BY <1>4, <1>5, <1>6, <1>7 DEF TokenInv

\* The server takes a chunk: the first one under its new token makes it use that token.
LEMMA ServerKeepsTokens ==
  ASSUME Types, TokenInv, NEW c, ServerKeeps(c)
  PROVE  TokenInv'
  <1>0. /\ Open(Server) /\ Open(Server)' /\ wire[Client] # <<>> /\ wire'[Client] = Tail(wire[Client])
        /\ wire'[Server] = wire[Server] /\ SameTokens(Client) /\ c = Head(wire[Client])
        /\ AllWaited /\ (\A n \in Waited' : OnlyWaited(n)) /\ ~IsOPN(c)
        /\ Current(Server)' = Current(Server) /\ Precedent(Server)' = Precedent(Server)
        /\ Active(Server)' = (Active(Server) \/ c.tok.id = Current(Server).id)
    BY DEF ServerKeeps, ServerTakes, IsOPN
  <1>1. /\ c \in Elems(wire[Client]) /\ Elems(wire'[Client]) \subseteq Elems(wire[Client])
        /\ \A R : Pairwise(wire[Client], R) => Pairwise(wire'[Client], R)
    BY <1>0, TailLess, EndsPeer
  <1>2. Open(Client)' <=> Open(Client)
    BY <1>0, SameState DEF SameTokens
  <1>3. ServerTokens'
    <2>1. AfterAsk' = AfterAsk
      BY <1>0, PairsKept
    <2> QED BY <1>0, <1>1, <2>1 DEF TokenInv, ServerTokens, TokensApart
  <1>4. ClientTokens'
    BY <1>0, ClientTokensLess DEF TokenInv, SameTokens
  <1>5. InStep => InStep'
    BY <1>0 DEF InStep, SameTokens
  <1>6. Behind => Behind'
    <2>1. Behind => c.tok = Precedent(Server)
      BY <1>1 DEF Behind
    <2>2. Precedent(Server).id # Current(Server).id
      BY <1>0 DEF TokenInv, ServerTokens, TokensApart
    <2>3. Behind => ~Active(Server)'
      BY <1>0, <2>1, <2>2 DEF Behind
    <2> QED BY <1>0, <1>1, <2>3 DEF Behind, SameTokens, ClientState
  <1>7. Together'
    BY <1>0, <1>2, <1>5, <1>6 DEF TokenInv, Together
  <1>8. OwnRequest'
    BY <1>0, <1>6, OwnLess DEF TokenInv, SameTokens
  <1> QED BY <1>3, <1>4, <1>7, <1>8 DEF TokenInv

\* The server takes a new token: the client, in step before, is one renewal behind.
LEMMA ServerGrantsTokens ==
  ASSUME Types, PlaceInv, TokenInv, NEW c, NEW g, ServerGrants(c, g)
  PROVE  TokenInv'
  <1>0. /\ Open(Server) /\ Open(Server)' /\ wire[Client] # <<>> /\ wire'[Client] = Tail(wire[Client])
        /\ SameTokens(Client) /\ c = Head(wire[Client]) /\ AllWaited /\ (\A n \in Waited' : OnlyWaited(n))
        /\ IsOPN(c) /\ g \in Chunks /\ IsOPN(g) /\ ~IsErr(g) /\ g.tok = Current(Server)'
        /\ Current(Server)'.id \in TokenIds /\ Current(Server)'.id # Current(Server).id
        /\ Precedent(Server)' = Current(Server) /\ Active(Server)' = FALSE
    BY DEF ServerGrants, ServerTakes, IsOPN, IsErr
  <1>1. GainsOne(Server, g) /\ (~Open(Client) => wire'[Server] = wire[Server])
    <2>1. Gains(Server, <<g>>) /\ <<g>> \in {<<>>, <<g>>}
      BY <1>0, EndsPeer DEF ServerGrants, Gains
    <2>2. GainsOne(Server, g)
      BY <1>0, <2>1, OneSent, EndsPeer
    <2> QED BY <2>2 DEF ServerGrants
  <1>2. Open(Client)' <=> Open(Client)
    BY <1>0, SameState DEF SameTokens
  <1>3. /\ c \in Elems(wire[Client]) /\ Elems(wire'[Client]) \subseteq Elems(wire[Client])
        /\ Elems(wire[Client]) \subseteq Chunks
        /\ \A e \in Elems(wire'[Client]) : <<c, e>> \in AfterAsk
    <2>1. Pairwise(wire[Client], AfterAsk)
      BY <1>0 DEF TokenInv, ServerTokens
    <2> QED BY <1>0, <2>1, TailLess, EndsPeer
  <1>4. \A e \in Elems(wire'[Client]) : ~IsOPN(e) /\ e.tok = Current(Server)
    BY <1>0, <1>3 DEF AfterAsk
  <1>5. ServerTokens'
    <2>1. TokensApart(Server)'
      BY <1>0 DEF TokenInv, ServerTokens, TokensApart
    <2>2. Pairwise(wire'[Client], AfterAsk')
      <3>1. \A d, e \in Elems(wire'[Client]) : <<d, e>> \in AfterAsk'
        BY <1>3, <1>4 DEF AfterAsk
      <3>2. wire'[Client] \in Seq(Chunks)
        <4>1. wire[Client] \in Seq(Chunks)
          BY EndsPeer DEF Types, ChanTypes
        <4> QED BY <1>0, <4>1
      <3> QED BY <3>1, <3>2, PairwiseNone
    <2>3. \A y \in Elems(wire'[Client]) : ~IsErr(y)
      BY <1>3 DEF TokenInv, ServerTokens
    <2> QED BY <1>0, <1>4, <2>1, <2>2, <2>3 DEF ServerTokens
  <1>6. Open(Client) => InStep /\ ClientState = "SC_CONNECTED_RENEW"
    <2>1. ~Behind
      BY <1>0, <1>3 DEF Behind
    <2> QED BY <1>0, <1>3, <2>1, OwnAsked DEF TokenInv, Together
  <1>7. ClientTokens'
    <2>1. CASE ~Open(Client)
      BY <1>2, <2>1 DEF ClientTokens
    <2>2. CASE Open(Client)
      <3>1. Pairwise(wire'[Server], AfterGrant)
        <4>1. Elems(wire[Server]) \subseteq Chunks
          BY ElemsType, EndsPeer DEF Types, ChanTypes
        <4>2. \A d \in Elems(wire[Server]) : <<d, g>> \in AfterGrant
          BY <1>0, <1>6, <2>2, <4>1 DEF AfterGrant, InStep
        <4>3. Pairwise(wire[Server], AfterGrant)
          BY <2>2 DEF TokenInv, ClientTokens
        <4> QED BY <1>1, <4>2, <4>3 DEF GainsOne
      <3>2. AfterGrant' = AfterGrant
        BY <1>0, PairsKept DEF SameTokens
      <3>3. g.tok.id # Current(Client).id /\ g.tok.id \in TokenIds
        BY <1>0, <1>6, <2>2 DEF InStep
      <3>4. \A x \in Elems(wire'[Server]) : x = g \/ x \in Elems(wire[Server])
        BY <1>1 DEF GainsOne
      <3> QED BY <1>0, <2>2, <3>1, <3>2, <3>3, <3>4 DEF TokenInv, ClientTokens, TokensApart, SameTokens
    <2> QED BY <2>1, <2>2
  <1>8. Open(Client) => Behind'
    <2>1. \A x \in Elems(wire'[Server]) : x = g \/ x \in Elems(wire[Server])
      BY <1>1 DEF GainsOne
    <2> QED BY <1>0, <1>4, <1>6, <2>1 DEF Behind, InStep, SameTokens, ClientState
  <1>9. Together'
    BY <1>2, <1>8 DEF Together
  <1>10. OwnRequest'
    <2>1. CASE Open(Client)
      BY <1>0, <1>8, <2>1, OwnLess DEF TokenInv, SameTokens
    <2>2. CASE ~Open(Client)
      BY <1>2, <2>2 DEF OwnRequest
    <2> QED BY <2>1, <2>2
  <1> QED BY <1>5, <1>7, <1>9, <1>10 DEF TokenInv

\* Every step keeps the two ends together.
LEMMA TokensStep ==
  ASSUME Types, TimerInv, StreamInv, PlaceInv, TokenInv, [Next]_vars
  PROVE  TokenInv'
  <1>1. Move
    BY StepMoves
  <1>2. CASE Rests
    BY <1>2, RestsTokens DEF Rests
  <1>3. CASE (\E m, id : Requests(m, id)) \/ (\E q, m : Answers(q, m)) \/ (\E a, o : Asking(a, o))
    BY <1>3, RequestsTokens, AnswersTokens, AskingTokens
  <1>4. CASE (\E a : ClientLeaves(a)) \/ ServerLeaves
    BY <1>4, ClientLeavesTokens, ServerLeavesTokens
  <1>5. CASE (\E c : ClientKeeps(c)) \/ (\E c, o : ClientSettles(c, o) \/ ClientChanges(c, o))
    BY <1>5, ClientStaysTokens, ClientChangesTokens
  <1>6. CASE (\E c : ServerKeeps(c)) \/ (\E c, g : ServerGrants(c, g))
    BY <1>6, ServerKeepsTokens, ServerGrantsTokens
  <1> QED BY <1>1, <1>2, <1>3, <1>4, <1>5, <1>6 DEF Move

\* The ends are together at first.
LEMMA InitTokens ==
  ASSUME Init
  PROVE  TokenInv
  <1>1. wire[Client] = <<>> /\ wire[Server] = <<>> /\ sentRequestIds = <<>>
    BY EndsPeer DEF Init
  <1>2. Elems(wire[Client]) = {} /\ Elems(wire[Server]) = {} /\ Waited = {}
    BY <1>1, ElemsSmall DEF Waited
  <1>3. Pairwise(wire[Client], AfterAsk) /\ Pairwise(wire[Server], AfterGrant)
    BY <1>1, PairwiseSmall
  <1> DEFINE first == CHOOSE t \in TokenIds : TRUE
             second == CHOOSE t \in TokenIds : t # first
  <1>4. first \in TokenIds /\ second \in TokenIds /\ second # first
    <2>1. first \in TokenIds
      BY SecureChannelAssumption
    <2> HIDE DEF first
    <2>2. \E t \in TokenIds : t # first
      BY SecureChannelAssumption
    <2> QED BY <2>1, <2>2
  <1>5. \A p \in Ends : /\ conn[p].state = "SC_CONNECTED" /\ Current(p) = [id |-> second, keys |-> 2]
                        /\ Precedent(p) = [id |-> first, keys |-> 1] /\ (p = Client => Active(p))
    <2>2. PICK used \in BOOLEAN : conn = [p \in Ends |->
         [state |-> "SC_CONNECTED",
          currentSecurityToken |-> [id |-> second, keys |-> 2],
          precedentSecurityToken |-> [id |-> first, keys |-> 1],
          serverNewSecuTokenActive |-> p = Client \/ used,
          lastSNsent |-> StartSN, lastSNreceived |-> StartSN,
          intermediateChunks |-> <<>>, currentMsgRequestId |-> 0]]
      BY DEF Init
    <2> HIDE DEF first, second
    <2> SUFFICES ASSUME NEW p \in Ends
                 PROVE  /\ conn[p].state = "SC_CONNECTED" /\ Current(p) = [id |-> second, keys |-> 2]
                        /\ Precedent(p) = [id |-> first, keys |-> 1] /\ (p = Client => Active(p))
      OBVIOUS
    <2>3. conn[p].state = "SC_CONNECTED" /\ conn[p].currentSecurityToken = [id |-> second, keys |-> 2]
      BY <2>2
    <2>4. conn[p].precedentSecurityToken = [id |-> first, keys |-> 1]
      BY <2>2
    <2>5. conn[p].serverNewSecuTokenActive = (p = Client \/ used)
      BY <2>2
    <2> QED BY <2>3, <2>4, <2>5 DEF Current, Precedent, Active
  <1> HIDE DEF first, second
  <1>6. \A p \in Ends : TokensApart(p) /\ Open(p)
    BY <1>4, <1>5 DEF TokensApart, Open
  <1>7. ServerTokens /\ ClientTokens
    BY <1>2, <1>3, <1>5, <1>6, EndsPeer DEF ServerTokens, ClientTokens
  <1>8. InStep /\ ClientState = "SC_CONNECTED"
    BY <1>2, <1>5, EndsPeer DEF InStep, ClientState
  <1> QED BY <1>2, <1>7, <1>8 DEF TokenInv, Together, OwnRequest

-----------------------------------------------------------------------------
(* What the other end sends is accepted.                                   *)

\* The next chunk goes on from what its receiver has taken.
LEMMA NextFits ==
  ASSUME Types, StreamInv, NEW p \in Ends, Open(p), wire[Peer(p)] # <<>>, NEW c, c = Head(wire[Peer(p)])
  PROVE  Fits(Prev(p), c) /\ ChunkOK(c) /\ c \in Elems(wire[Peer(p)])
  <1>1. Peer(p) \in Ends /\ Peer(Peer(p)) = p /\ wire[Peer(p)] \in Seq(Chunks)
    BY EndsPeer DEF Types, ChanTypes
  <1>2. DirInv(Peer(p))
    BY <1>1 DEF StreamInv, Dirs
  <1>3. Follows(Prev(p), wire[Peer(p)], Link) /\ \A x \in Elems(wire[Peer(p)]) : ChunkOK(x)
    BY <1>1, <1>2 DEF DirInv
  <1>4. c \in Elems(wire[Peer(p)])
    BY <1>1, ElemsTail
  <1>5. <<Prev(p), c>> \in Link
    BY <1>1, <1>3 DEF Follows
  <1> QED BY <1>3, <1>4, <1>5 DEF Link

\* There is room for it, and its numbers are the next ones.
LEMMA NumbersAccepted ==
  ASSUME Types, StreamInv, NoGap, NEW p \in Ends, Open(p), wire[Peer(p)] # <<>>,
         NEW c \in Numbered, c = Head(wire[Peer(p)])
  PROVE  RoomForChunk(p, c) /\ InSequence(p, c) /\ conn[p].currentMsgRequestId \in {0, c.id}
  <1>1. Fits(Prev(p), c) /\ ChunkOK(c)
    BY NextFits
  <1>2. conn[p] \in Connection /\ Parts(Kept(p)) /\ (Kept(p) = <<>> => conn[p].currentMsgRequestId = 0)
    <2>1. DirInv(Peer(p)) /\ Peer(Peer(p)) = p
      BY EndsPeer DEF StreamInv, Dirs
    <2> QED BY <2>1 DEF DirInv, Types, ChanTypes
  <1>3. /\ Prev(p).sn = conn[p].lastSNreceived /\ Prev(p).id = conn[p].currentMsgRequestId
        /\ Kept(p) # <<>> => Prev(p).isFinal = "C"
    BY DEF Prev, LastKept, Chunk, Kept
  <1>4. RoomForChunk(p, c)
    <2>1. CASE c.isFinal # "C"
      BY <2>1 DEF RoomForChunk
    <2>2. CASE c.isFinal = "C"
      <3>1. Carries(c)
        BY <1>1, <2>2 DEF ChunkOK, Carries
      <3>2. Len(Message(p, c)) = c.body.part
        BY <1>1, <1>2, <3>1, PartsTaken DEF Types
      <3>3. Len(Message(p, c)) = Len(conn[p].intermediateChunks) + 1
        <4>1. conn[p].intermediateChunks \in Seq(Body) /\ c.body \in Body
          BY <1>2 DEF Connection, Numbered
        <4> QED BY <4>1 DEF Message
      <3>4. c.body.part \in Nat /\ c.body.of \in Nat /\ c.body.of <= MaxChunkCount /\ c.body.part < c.body.of
        <4>1. c.body.part \in Nat /\ c.body.of \in Nat
          BY DEF Numbered, Body
        <4> QED BY <1>1, <2>2, <3>1, <4>1 DEF ChunkOK
      <3> QED BY <3>2, <3>3, <3>4, SecureChannelAssumption DEF RoomForChunk
    <2> QED BY <2>1, <2>2
  <1>5. InSequence(p, c)
    <2>1. c.sn = NextSN(conn[p].lastSNreceived)
      BY <1>1, <1>3 DEF Fits, Numbered
    <2>2. conn[p].lastSNreceived \in Nat /\ SNMargin > 1 /\ SNMargin \in Nat /\ SNMax \in Nat
      BY <1>2, SecureChannelAssumption DEF Connection, SNs
    <2> QED BY <2>1, <2>2 DEF InSequence, NextSN
  <1>6. conn[p].currentMsgRequestId \in {0, c.id}
    BY <1>1, <1>2, <1>3 DEF Fits
  <1> QED BY <1>4, <1>5, <1>6

\* The signature is checked with the token that it was made with.
LEMMA TokenAccepted ==
  ASSUME NEW p, TokensApart(p), NEW c, c.tok \in {Current(p), Precedent(p)}
  PROVE  Signed(p, c)
  <1>1. NamedToken(p, c) = c.tok /\ c.tok.id \in TokenIds
    BY DEF NamedToken, TokensApart, Current, Precedent
  <1>2. NoToken.id \notin TokenIds
    BY SecureChannelAssumption DEF NoToken
  <1> QED BY <1>1, <1>2 DEF Signed

\* What the client receives it waits for.
LEMMA ClientAccepts ==
  ASSUME Types, StreamInv, PlaceInv, TokenInv, NoGap, Open(Client), wire[Server] # <<>>,
         NEW c, c = Head(wire[Server]), c.type # "ERR"
  PROVE  Accepted(Client, c) /\ ExpectedOPN(Client, c)
  <1>0. c \in Numbered /\ c \in Elems(wire[Server]) /\ ~IsErr(c)
    BY GetsType, NextFits, EndsPeer DEF IsErr
  <1>1. RoomForChunk(Client, c) /\ InSequence(Client, c) /\ conn[Client].currentMsgRequestId \in {0, c.id}
    BY <1>0, NumbersAccepted, EndsPeer
  <1>2. PICK m \in Waited : m.id = c.id /\ (m.handle = OPN <=> c.type = "OPN")
    BY <1>0 DEF PlaceInv, Awaited, AwaitsOf
  <1>3. ExpectedId(Client, c)
    BY <1>1, <1>2 DEF ExpectedId, Waited, Elems
  <1>4. Signed(Client, c)
    <2>1. CASE IsOPN(c)
      BY <2>1 DEF Signed, IsOPN
    <2>2. CASE ~IsOPN(c)
      BY <1>0, <2>2, TokenAccepted DEF TokenInv, ClientTokens
    <2> QED BY <2>1, <2>2
  <1>5. ExpectedOPN(Client, c)
    BY <1>0, <1>2 DEF ExpectedOPN, TokenInv, OwnRequest, ClientTokens, IsOPN, Current, ClientState
  <1> QED BY <1>1, <1>3, <1>4, <1>5 DEF Accepted

\* The server can read what it receives.
LEMMA ServerAccepts ==
  ASSUME Types, StreamInv, TokenInv, NoGap, Open(Server), wire[Client] # <<>>,
         NEW c, c = Head(wire[Client])
  PROVE  Accepted(Server, c)
  <1>0. c \in Elems(wire[Client])
    BY NextFits, EndsPeer
  <1>1. c.type # "ERR"
    BY <1>0 DEF TokenInv, ServerTokens, IsErr
  <1>2. c \in Numbered
    BY <1>1, GetsType, EndsPeer
  <1>3. RoomForChunk(Server, c) /\ InSequence(Server, c) /\ conn[Server].currentMsgRequestId \in {0, c.id}
    BY <1>2, NumbersAccepted, EndsPeer
  <1>4. ExpectedId(Server, c)
    BY <1>3, EndsPeer DEF ExpectedId
  <1>5. Signed(Server, c)
    <2>1. CASE IsOPN(c)
      BY <2>1 DEF Signed, IsOPN
    <2>2. CASE ~IsOPN(c)
      BY <1>0, <2>2, TokenAccepted DEF TokenInv, ServerTokens
    <2> QED BY <2>1, <2>2
  <1> QED BY <1>3, <1>4, <1>5 DEF Accepted

\* Nothing is refused for the protocol.
LEMMA RefusedStep ==
  ASSUME Types, StreamInv, PlaceInv, TokenInv, NoGap, PeerNeverRefused, [Next]_vars
  PROVE  PeerNeverRefused'
  <1>1. CASE refused' = refused
    BY <1>1 DEF PeerNeverRefused
  <1>2. ASSUME NEW p, NEW c, Accepted(p, c), Refuse(p, c) PROVE PeerNeverRefused'
    BY <1>2 DEF Refuse, PeerNeverRefused
  <1>3. CASE ClientReceive
    <2> DEFINE c == Head(wire[Server])
    <2>1. /\ Open(Client) /\ wire[Server] # <<>>
          /\ ClientRefuses(c) \/ ClientError(c) \/ ClientChunk(c) \/ ClientResponse(c) \/ ClientRenewed(c)
      BY <1>3 DEF ClientReceive
    <2>2. c.type # "ERR" => Accepted(Client, c) /\ ExpectedOPN(Client, c)
      BY <2>1, ClientAccepts
    <2> HIDE DEF c
    <2>3. CASE ClientRefuses(c)
      BY <1>2, <2>2, <2>3 DEF ClientRefuses
    <2>4. CASE ClientError(c) \/ ClientChunk(c) \/ ClientResponse(c)
      BY <1>1, <2>4 DEF ClientError, ClientChunk, ClientResponse
    <2>5. CASE ClientRenewed(c)
      BY <1>1, <2>2, <2>5 DEF ClientRenewed
    <2> QED BY <2>1, <2>3, <2>4, <2>5
  <1>4. CASE ServerReceive
    <2> DEFINE c == Head(wire[Client])
    <2>1. /\ Open(Server) /\ wire[Client] # <<>>
          /\ ServerRefuses(c) \/ ServerClosed(c) \/ ServerChunk(c) \/ ServerRequest(c) \/ ServerRenews(c)
      BY <1>4 DEF ServerReceive
    <2>2. Accepted(Server, c)
      BY <2>1, ServerAccepts
    <2> HIDE DEF c
    <2>3. CASE ServerRefuses(c)
      BY <1>2, <2>2, <2>3 DEF ServerRefuses
    <2>4. CASE ServerClosed(c) \/ ServerChunk(c) \/ ServerRequest(c) \/ ServerRenews(c)
      BY <1>1, <2>4 DEF ServerClosed, ServerChunk, ServerRequest, ServerRenews
    <2> QED BY <2>1, <2>3, <2>4
  <1>5. CASE Next /\ ~ClientReceive /\ ~ServerReceive
    <2>1. refused' = refused
      BY <1>5 DEF Next, Request, TreatServicesEvent, TreatRequest, TimerExpires, TreatRenewTimer,
                  TreatRequestTimeout, Respond, Disconnect, chanVars
    <2> QED BY <1>1, <2>1
  <1>6. CASE UNCHANGED vars
    BY <1>1, <1>6 DEF vars, chanVars
  <1> QED BY <1>3, <1>4, <1>5, <1>6

-----------------------------------------------------------------------------
(* Theorems.                                                               *)

\* Where the requests are, and the tokens of the two ends.
THEOREM TokensInvariant == Spec => [](Types /\ TimerInv /\ StreamInv /\ PlaceInv /\ TokenInv)
  <1> DEFINE Base == Types /\ TimerInv /\ StreamInv /\ CallsInv
  <1>1. Init => PlaceInv /\ TokenInv
    BY InitPlaces, InitTokens
  <1>2. Base /\ PlaceInv /\ TokenInv /\ [Next]_vars => (PlaceInv /\ TokenInv)'
    BY PlacesStep, TokensStep DEF CallsInv
  <1>3. Base => Types /\ TimerInv /\ StreamInv
    OBVIOUS
  <1>4. Spec => []Base
    BY CallsInvariant
  <1> HIDE DEF Base
  <1> QED BY <1>1, <1>2, <1>3, <1>4, PTL DEF Spec

\* A connected client has its renewal ahead: its timer runs or is about to be
\* treated, or the renewal is asked and waited for, or the server has changed
\* its token (SC_Client_StartOPNrenewTimer, TIMER_SC_CLIENT_OPN_RENEW).
THEOREM RenewalNeverLost == Spec => []RenewalAhead
  <1>1. Types /\ TimerInv /\ TokenInv => RenewalAhead
    <2> SUFFICES ASSUME Types, TimerInv, TokenInv PROVE RenewalAhead
      OBVIOUS
    <2>1. ClientState = "SC_CONNECTED" => Renew \in running \cup posted
      BY DEF TimerInv, RenewTimed, Timers
    <2>2. ASSUME ClientState = "SC_CONNECTED_RENEW", \A m \in Waited : m.handle # OPN
          PROVE  Current(Server) # Current(Client)
      <3>0. Open(Client)
        BY <2>2 DEF Open, ClientState
      <3>1. TokensApart(Client)
        BY <3>0 DEF TokenInv, ClientTokens
      <3>2. CASE ~Open(Server)
        <4>1. NoToken.id \notin TokenIds
          BY SecureChannelAssumption DEF NoToken
        <4> QED BY <3>1, <3>2, <4>1 DEF TokenInv, ServerTokens, TokensApart
      <3>3. CASE Open(Server) /\ Behind
        BY <3>3 DEF TokenInv, ServerTokens, TokensApart, Behind
      <3> QED BY <2>2, <3>0, <3>2, <3>3 DEF TokenInv, OwnRequest
    <2>3. (\E m \in Waited : m.handle = OPN) => \E i \in 1..Len(sentRequestIds) : sentRequestIds[i].handle = OPN
      BY DEF Waited, Elems
    <2> QED BY <2>1, <2>2, <2>3 DEF RenewalAhead, ClientState, Current
  <1> QED BY <1>1, TokensInvariant, PTL

\* When the requests can be recorded, an end never refuses a chunk of the
\* other unless its token has expired: the token identifier, the keys, the
\* sequence number, the request identifier and the number of chunks are always
\* those that the receiver expects (INT_SC_RCV_FAILURE).
THEOREM NothingRefused == ASSUME NoGap PROVE Spec => []PeerNeverRefused
  <1> DEFINE Base == Types /\ TimerInv /\ StreamInv /\ PlaceInv /\ TokenInv
  <1>1. Init => PeerNeverRefused
    BY DEF Init, PeerNeverRefused
  <1>2. Base /\ PeerNeverRefused /\ [Next]_vars => PeerNeverRefused'
    BY RefusedStep
  <1>3. Spec => []Base
    BY TokensInvariant
  <1> HIDE DEF Base
  <1> QED BY <1>1, <1>2, <1>3, PTL DEF Spec
=============================================================================
