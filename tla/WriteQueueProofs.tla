-------------------------- MODULE WriteQueueProofs --------------------------
(***************************************************************************)
(* What the write queues promise, for every set of requests, every message *)
(* size and every limit.                                                   *)
(***************************************************************************)
EXTENDS WriteQueue, TotalsProofs

\* Zenon first, then SMT, with time for a slow machine.
USE ZenonT(6), SMTT(60), ZenonT(60)

----------------------------------------------------------------------------
(* Messages, events and places *)

\* The messages: what they weigh, and which are answers.
LEMMA MessageFacts ==
    /\ \A m \in Message : /\ m.kind \in Kinds /\ Size(m) \in Nat /\ Size(m) > 0
                          /\ m # NoMsg
                          /\ m.kind = "piece" => m.req \in Requests /\ m = PieceMsg(m.req)
    /\ \A kind \in Kinds \ {"piece"} : /\ Plain(kind) \in Message
                                       /\ \A r \in Requests : Plain(kind) # PieceMsg(r)
    /\ \A r \in Requests : PieceMsg(r) \in Message
  <1>1. \A kind \in Kinds : MessageSize[kind] \in Nat /\ MessageSize[kind] > 0
    BY WriteQueueAssumption
  <1>2. "piece" \in Kinds /\ "none" \notin Kinds
    BY DEF Kinds
  <1>3. ASSUME NEW kind \in Kinds \ {"piece"}
        PROVE  /\ Plain(kind) \in Message /\ Plain(kind).kind = kind
               /\ Plain(kind) # NoMsg
               /\ \A r \in Requests : Plain(kind) # PieceMsg(r)
    BY <1>2 DEF Message, Plain, NoMsg, PieceMsg
  <1>4. ASSUME NEW r \in Requests
        PROVE  /\ PieceMsg(r) \in Message /\ PieceMsg(r).kind = "piece"
               /\ PieceMsg(r).req = r /\ PieceMsg(r) # NoMsg
    BY DEF Message, NoMsg, PieceMsg
  <1>5. ASSUME NEW m \in Message
        PROVE  /\ m.kind \in Kinds /\ m # NoMsg
               /\ m.kind = "piece" => m.req \in Requests /\ m = PieceMsg(m.req)
    <2>1. (\E kind \in Kinds \ {"piece"} : m = Plain(kind)) \/ (\E r \in Requests : m = PieceMsg(r))
      BY DEF Message
    <2>. QED
      BY <1>2, <1>3, <1>4, <2>1
  <1>. QED
    BY <1>1, <1>3, <1>4, <1>5 DEF Size

\* The weights of the two sums.
LEMMA WeightFacts ==
    /\ MessageBytes \in [Message -> Nat] /\ AnswerBytes \in [Message -> Nat]
    /\ \A m \in Message : MessageBytes[m] = Size(m) /\ AnswerBytes[m] <= MessageBytes[m]
    /\ \A kind \in Kinds \ {"piece"} : AnswerBytes[Plain(kind)] = 0
    /\ \A r \in Requests : MessageBytes[PieceMsg(r)] = MessageSize["piece"]
    /\ MessageSize["piece"] \in Nat /\ MessageSize["piece"] > 0
  <1>1. \A m \in Message : Size(m) \in Nat
    BY MessageFacts
  <1>2. \A m \in Message : /\ MessageBytes[m] = Size(m)
                           /\ AnswerBytes[m] = IF m.kind = "piece" THEN Size(m) ELSE 0
    BY DEF MessageBytes, AnswerBytes
  <1>3. MessageBytes \in [Message -> Nat] /\ AnswerBytes \in [Message -> Nat]
    BY <1>1 DEF MessageBytes, AnswerBytes
  <1>4. ASSUME NEW kind \in Kinds \ {"piece"} PROVE AnswerBytes[Plain(kind)] = 0
    <2>1. Plain(kind) \in Message /\ Plain(kind).kind # "piece"
      BY MessageFacts DEF Plain
    <2>. QED
      BY <1>2, <2>1
  <1>5. ASSUME NEW r \in Requests PROVE MessageBytes[PieceMsg(r)] = MessageSize["piece"]
    <2>1. PieceMsg(r) \in Message
      BY MessageFacts
    <2>. QED
      BY <1>2, <2>1 DEF PieceMsg, Size
  <1>6. MessageSize["piece"] \in Nat /\ MessageSize["piece"] > 0
    BY WriteQueueAssumption DEF Kinds
  <1>. QED
    BY <1>1, <1>2, <1>3, <1>4, <1>5, <1>6

\* The events, by their type.
LEMMA EventFacts ==
    /\ \A c \in Ids : JoinedEvent(c) \in Event
    /\ \A c \in Ids, r \in Requests : RequestEvent(c, r) \in Event
    /\ \A c \in Ids, p \in Pieces : PieceEvent(c, p) \in Event
    /\ \A e \in Event : /\ e.peer \in Ids
                        /\ e.type = "Joined" => e = JoinedEvent(e.peer)
                        /\ e.type = "Request" => e.req \in Requests /\ e = RequestEvent(e.peer, e.req)
                        /\ e.type = "Piece" => e.piece \in Pieces
  <1>1. /\ \A c \in Ids : JoinedEvent(c) \in Event
        /\ \A c \in Ids, r \in Requests : RequestEvent(c, r) \in Event
        /\ \A c \in Ids, p \in Pieces : PieceEvent(c, p) \in Event
    BY DEF Event, JoinedEvent, RequestEvent, PieceEvent
  <1>2. ASSUME NEW e \in Event
        PROVE  /\ e.peer \in Ids
               /\ e.type = "Joined" => e = JoinedEvent(e.peer)
               /\ e.type = "Request" => e.req \in Requests /\ e = RequestEvent(e.peer, e.req)
               /\ e.type = "Piece" => e.piece \in Pieces
    BY DEF Event, JoinedEvent, RequestEvent
  <1>. QED
    BY <1>1, <1>2

\* remove_queued_piece() finds an answer that has not been begun, or there is none.
LEMMA QueuedPieceFacts ==
    ASSUME TypeOK, NEW c \in Ids, NEW r \in Requests
    PROVE  /\ QueuedPiece(c, r) # 0
                  => /\ QueuedPiece(c, r) \in 1 .. Len(writeBuffer[c])
                     /\ writeBuffer[c][QueuedPiece(c, r)] = PieceMsg(r)
                     /\ cursor[c] > 0 => QueuedPiece(c, r) > 1
           /\ QueuedPiece(c, r) = 0
                  => \A i \in 1 .. Len(writeBuffer[c]) :
                         writeBuffer[c][i] = PieceMsg(r) => i = 1 /\ cursor[c] > 0
  <1> DEFINE s == writeBuffer[c]
             n == Len(s)
             k == FirstRemovable(c)
             I == {i \in k .. n : s[i] = PieceMsg(r)}
  <1>1. n \in Nat /\ cursor[c] \in Nat
    BY DEF TypeOK
  <1>2. k \in {1, 2} /\ (cursor[c] > 0 <=> k = 2)
    BY <1>1 DEF FirstRemovable
  <1>3. QueuedPiece(c, r) = IF I # {} THEN Min(I) ELSE 0
    BY DEF QueuedPiece
  <1> HIDE DEF k
  <1>4. I \subseteq 1 .. n
    BY <1>1, <1>2
  <1>5. I # {} => Min(I) \in I
    BY <1>1, <1>4, MinMaxIn
  <1>6. CASE I # {}
    <2>1. QueuedPiece(c, r) \in I
      BY <1>3, <1>5, <1>6
    <2>. QED
      BY <1>1, <1>2, <2>1
  <1>7. CASE I = {}
    <2>1. QueuedPiece(c, r) = 0
      BY <1>3, <1>7
    <2>2. ASSUME NEW i \in 1 .. n, s[i] = PieceMsg(r) PROVE i = 1 /\ cursor[c] > 0
      <3>1. i \notin k .. n
        BY <1>7, <2>2
      <3>. QED
        BY <1>1, <1>2, <3>1
    <2>. QED
      BY <2>1, <2>2
  <1>. QED
    BY <1>6, <1>7

\* ... and so for a request of the batch.
LEMMA BatchedRequestFacts ==
    ASSUME TypeOK, NEW r \in Requests
    PROVE  /\ BatchedRequest(r) # 0 => /\ BatchedRequest(r) \in 1 .. Len(events)
                                       /\ events[BatchedRequest(r)] = RequestEvent(cur, r)
           /\ BatchedRequest(r) = 0 => \A i \in 1 .. Len(events) : events[i] # RequestEvent(cur, r)
  <1> DEFINE n == Len(events)
             I == {i \in 1 .. n : events[i] = RequestEvent(cur, r)}
  <1>1. n \in Nat
    BY DEF TypeOK
  <1>2. BatchedRequest(r) = IF I # {} THEN Max(I) ELSE 0
    BY DEF BatchedRequest
  <1>3. I # {} => Max(I) \in I
    BY <1>1, MinMaxIn
  <1>4. CASE I # {}
    <2>1. BatchedRequest(r) \in I
      BY <1>2, <1>3, <1>4
    <2>. QED
      BY <1>1, <2>1
  <1>5. CASE I = {}
    BY <1>2, <1>5
  <1>. QED
    BY <1>4, <1>5

----------------------------------------------------------------------------
(* The types *)

\* A sum of message sizes is a number.
LEMMA SizeOfAllType == \A ms \in Seq(Message) : SizeOfAll(ms) \in Nat
  BY WeightFacts, TotalType DEF SizeOfAll

\* enqueue() keeps the types.
LEMMA EnqueueType ==
    ASSUME TypeOK, NEW C, NEW ms \in Seq(Message), Enqueue(C, ms)
    PROVE  /\ writeBuffer' \in [Ids -> Seq(Message)]
           /\ cursor' \in [Ids -> Nat]
           /\ queuedBytes' \in [Ids -> Int]
  <1>1. SizeOfAll(ms) \in Nat
    BY SizeOfAllType
  <1>2. \A c \in Ids : writeBuffer[c] \o ms \in Seq(Message)
    BY DEF TypeOK
  <1>3. writeBuffer' \in [Ids -> Seq(Message)]
    BY <1>2 DEF TypeOK, Enqueue
  <1>4. queuedBytes' \in [Ids -> Int]
    BY <1>1 DEF TypeOK, Enqueue
  <1>5. cursor' \in [Ids -> Nat]
    BY DEF TypeOK, Enqueue
  <1>. QED
    BY <1>3, <1>4, <1>5

\* The messages queued at once are messages.
LEMMA MessagesQueued ==
    /\ \A kind \in Kinds \ {"piece"} : <<Plain(kind)>> \in Seq(Message)
    /\ \A r \in Requests : <<PieceMsg(r)>> \in Seq(Message)
    /\ <<>> \in Seq(Message)
    /\ <<Plain("bitfield"), Plain("unchoke")>> \o <<>> \in Seq(Message)
    /\ <<Plain("bitfield"), Plain("unchoke")>> \o <<Plain("interested")>> \in Seq(Message)
  <1>1. \A kind \in Kinds \ {"piece"} : Plain(kind) \in Message
    BY MessageFacts
  <1>2. \A r \in Requests : PieceMsg(r) \in Message
    BY MessageFacts
  <1>3. /\ "bitfield" \in Kinds \ {"piece"} /\ "unchoke" \in Kinds \ {"piece"}
        /\ "interested" \in Kinds \ {"piece"}
    BY DEF Kinds
  <1>4. /\ <<Plain("bitfield"), Plain("unchoke")>> \in Seq(Message)
        /\ <<Plain("interested")>> \in Seq(Message)
    BY <1>1, <1>3
  <1>. QED
    BY <1>1, <1>2, <1>4

\* A count of open requests that is changed stays a count.
LEMMA OwedType ==
    ASSUME NEW f \in [Ids -> [Requests -> Int]], NEW c \in Ids, NEW r \in Requests
    PROVE  /\ [f EXCEPT ![c][r] = @ - 1] \in [Ids -> [Requests -> Int]]
           /\ [f EXCEPT ![c][r] = @ + 1] \in [Ids -> [Requests -> Int]]
  <1>1. f[c][r] - 1 \in Int /\ f[c][r] + 1 \in Int
    OBVIOUS
  <1>. QED
    BY <1>1

\* Every step keeps the types.
LEMMA TypeStep == TypeOK /\ [Next]_vars => TypeOK'
  <1> SUFFICES ASSUME TypeOK, [Next]_vars PROVE TypeOK'
    OBVIOUS
  <1>k. {"handshake", "keepalive", "have", "request"} \subseteq Kinds \ {"piece"}
    BY DEF Kinds
  <1>i. Ids = 0 .. (MaxJoins - 1) /\ MaxJoins \in Nat
    BY WriteQueueAssumption DEF Ids
  <1>1. CASE Poll \/ EndHandshakes \/ EndSockets \/ EndDispatch \/ EndLoop \/ UNCHANGED vars
    BY <1>1 DEF Poll, EndHandshakes, EndSockets, EndDispatch, EndLoop, TypeOK, vars, queueVars,
                loopVars, peerView
  <1>2. ASSUME NEW inbound \in BOOLEAN, FinishHandshake(inbound) PROVE TypeOK'
    <2>1. nextId \in Ids /\ nextId + 1 \in 0 .. MaxJoins
      BY <1>i, <1>2 DEF FinishHandshake, TypeOK
    <2>2. /\ writeBuffer' \in [Ids -> Seq(Message)] /\ cursor' \in [Ids -> Nat]
          /\ queuedBytes' \in [Ids -> Int]
      <3>1. (IF inbound THEN <<Plain("handshake")>> ELSE <<>>) \in Seq(Message)
        BY <1>k, MessagesQueued
      <3>. QED
        BY <1>2, <3>1, EnqueueType DEF FinishHandshake
    <2>3. events' \in Seq(Event)
      <3>1. JoinedEvent(nextId) \in Event
        BY <2>1, EventFacts
      <3>. QED
        BY <1>2, <3>1 DEF FinishHandshake, TypeOK
    <2>. QED
      BY <1>2, <2>1, <2>2, <2>3 DEF FinishHandshake, TypeOK, peerView
  <1>3. ASSUME NEW c \in Ids, Visit(c) \/ SendFails(c) PROVE TypeOK'
    BY <1>3 DEF Visit, SendFails, TypeOK, queueVars, peerView
  <1>14. CASE ReadFails
    BY <1>14 DEF ReadFails, TypeOK, queueVars, peerView
  <1>4. ASSUME NEW c \in Ids, NEW n \in Chunk, SendSome(c, n) PROVE TypeOK'
    <2>1. n \in Nat
      BY WriteQueueAssumption DEF Chunk
    <2>2. writeBuffer[c] \in Seq(Message) /\ writeBuffer[c] # <<>>
      BY <1>4 DEF SendSome, TypeOK
    <2>3. Head(writeBuffer[c]) \in Message /\ Tail(writeBuffer[c]) \in Seq(Message)
      BY <2>2, HeadFirst
    <2>4. Size(Head(writeBuffer[c])) \in Nat
      BY <2>3, MessageFacts
    <2>5. /\ writeBuffer' \in [Ids -> Seq(Message)] /\ cursor' \in [Ids -> Nat]
          /\ queuedBytes' \in [Ids -> Int] /\ begun' \in [Ids -> Message \cup {NoMsg}]
      <3>1. CASE cursor[c] + n = Size(Head(writeBuffer[c]))
        <4>1. /\ writeBuffer' = [writeBuffer EXCEPT ![c] = Tail(@)]
              /\ queuedBytes' = [queuedBytes EXCEPT ![c] = @ - Size(Head(writeBuffer[c]))]
              /\ cursor' = [cursor EXCEPT ![c] = 0]
              /\ begun' = [begun EXCEPT ![c] = NoMsg]
          BY <1>4, <3>1 DEF SendSome
        <4>2. writeBuffer' \in [Ids -> Seq(Message)]
          BY <2>3, <4>1 DEF TypeOK
        <4>3. queuedBytes' \in [Ids -> Int]
          BY <2>4, <4>1 DEF TypeOK
        <4>4. cursor' \in [Ids -> Nat]
          BY <4>1 DEF TypeOK
        <4>5. begun' \in [Ids -> Message \cup {NoMsg}]
          BY <4>1 DEF TypeOK
        <4>. QED
          BY <4>2, <4>3, <4>4, <4>5
      <3>2. CASE cursor[c] + n # Size(Head(writeBuffer[c]))
        <4>1. /\ cursor' = [cursor EXCEPT ![c] = @ + n]
              /\ begun' = [begun EXCEPT ![c] = IF cursor[c] = 0 THEN Head(writeBuffer[c]) ELSE @]
              /\ UNCHANGED <<writeBuffer, queuedBytes>>
          BY <1>4, <3>2 DEF SendSome
        <4>2. cursor' \in [Ids -> Nat]
          BY <2>1, <4>1 DEF TypeOK
        <4>3. begun' \in [Ids -> Message \cup {NoMsg}]
          BY <2>3, <4>1 DEF TypeOK
        <4>. QED
          BY <4>1, <4>2, <4>3 DEF TypeOK
      <3>. QED
        BY <3>1, <3>2
    <2>6. owed' \in [Ids -> [Requests -> Int]]
      <3>1. CASE cursor[c] = 0 /\ Head(writeBuffer[c]).kind = "piece"
        <4>1. owed' = [owed EXCEPT ![c][Head(writeBuffer[c]).req] = @ - 1]
          BY <1>4, <3>1 DEF SendSome, Answered
        <4>2. Head(writeBuffer[c]).req \in Requests
          BY <2>3, <3>1, MessageFacts
        <4>. QED
          BY <4>1, <4>2, OwedType DEF TypeOK
      <3>2. CASE ~(cursor[c] = 0 /\ Head(writeBuffer[c]).kind = "piece")
        BY <1>4, <3>2 DEF SendSome, Answered, TypeOK
      <3>. QED
        BY <3>1, <3>2
    <2>. QED
      BY <1>4, <2>5, <2>6 DEF SendSome, TypeOK
  <1>5. ASSUME NEW r \in Requests, MsgRequest(r) PROVE TypeOK'
    <2>1. cur \in Ids
      BY <1>5 DEF MsgRequest, HandleMessage, TypeOK
    <2>2. events' \in Seq(Event) /\ owed' \in [Ids -> [Requests -> Int]]
      <3>1. RequestEvent(cur, r) \in Event
        BY <2>1, EventFacts
      <3>. QED
        <4>1. CASE amChoking[cur]
          BY <1>5, <4>1 DEF MsgRequest, TypeOK
        <4>2. CASE ~amChoking[cur]
          <5>1. /\ events' = Append(events, RequestEvent(cur, r))
                /\ owed' = [owed EXCEPT ![cur][r] = @ + 1]
            BY <1>5, <4>2 DEF MsgRequest
          <5>2. owed' \in [Ids -> [Requests -> Int]]
            BY <2>1, <5>1, OwedType DEF TypeOK
          <5>3. events' \in Seq(Event)
            BY <3>1, <5>1 DEF TypeOK
          <5>. QED
            BY <5>2, <5>3
        <4>. QED
          BY <4>1, <4>2
    <2>. QED
      BY <1>5, <2>1, <2>2 DEF MsgRequest, HandleMessage, TypeOK, queueVars
  <1>6. ASSUME NEW r \in Requests, MsgCancel(r) PROVE TypeOK'
    <2>1. cur \in Ids
      BY <1>6 DEF MsgCancel, HandleMessage, TypeOK
    <2>2. owed' \in [Ids -> [Requests -> Int]]
      BY <1>6, <2>1 DEF MsgCancel, TypeOK
    <2>3. /\ events' \in Seq(Event)
          /\ writeBuffer' \in [Ids -> Seq(Message)] /\ cursor' \in [Ids -> Nat]
          /\ queuedBytes' \in [Ids -> Int]
      <3>1. CASE BatchedRequest(r) # 0
        <4>1. RemoveAt(events, BatchedRequest(r)) \in Seq(Event)
          BY <3>1, BatchedRequestFacts, Removed DEF TypeOK
        <4>. QED
          BY <1>6, <3>1, <4>1 DEF MsgCancel, TypeOK, queueVars
      <3>2. CASE BatchedRequest(r) = 0 /\ QueuedPiece(cur, r) = 0
        BY <1>6, <3>2 DEF MsgCancel, RemoveQueuedPiece, TypeOK
      <3>3. CASE BatchedRequest(r) = 0 /\ QueuedPiece(cur, r) # 0
        <4>1. QueuedPiece(cur, r) \in 1 .. Len(writeBuffer[cur])
          BY <2>1, <3>3, QueuedPieceFacts
        <4>2. RemoveAt(writeBuffer[cur], QueuedPiece(cur, r)) \in Seq(Message)
          BY <2>1, <4>1, Removed DEF TypeOK
        <4>3. Size(PieceMsg(r)) \in Nat
          BY MessageFacts
        <4>. QED
          <5>1. /\ writeBuffer' = [writeBuffer EXCEPT ![cur] = RemoveAt(@, QueuedPiece(cur, r))]
                /\ queuedBytes' = [queuedBytes EXCEPT ![cur] = @ - Size(PieceMsg(r))]
                /\ UNCHANGED <<cursor, events>>
            BY <1>6, <3>3 DEF MsgCancel, RemoveQueuedPiece
          <5>2. writeBuffer' \in [Ids -> Seq(Message)]
            BY <2>1, <4>2, <5>1 DEF TypeOK
          <5>3. queuedBytes' \in [Ids -> Int]
            BY <2>1, <4>3, <5>1 DEF TypeOK
          <5>. QED
            BY <5>1, <5>2, <5>3 DEF TypeOK
      <3>. QED
        BY <3>1, <3>2, <3>3
    <2>. QED
      BY <1>6, <2>1, <2>2, <2>3 DEF MsgCancel, HandleMessage, TypeOK
  <1>7. ASSUME NEW p \in Pieces, MsgPiece(p) PROVE TypeOK'
    <2>1. cur \in Ids
      BY <1>7 DEF MsgPiece, HandleMessage, TypeOK
    <2>2. events' \in Seq(Event)
      <3>1. PieceEvent(cur, p) \in Event
        BY <2>1, EventFacts
      <3>. QED
        BY <1>7, <3>1 DEF MsgPiece, TypeOK
    <2>. QED
      BY <1>7, <2>1, <2>2 DEF MsgPiece, HandleMessage, TypeOK, queueVars
  <1>8. ASSUME NEW c \in Ids, DropPeer(c) PROVE TypeOK'
    <2>1. /\ writeBuffer' \in [Ids -> Seq(Message)] /\ cursor' \in [Ids -> Nat]
          /\ queuedBytes' \in [Ids -> Int]
      BY <1>8 DEF DropPeer, EmptyQueues, TypeOK
    <2>2. /\ conns' \subseteq Ids /\ amChoking' \in [Ids -> BOOLEAN]
          /\ begun' \in [Ids -> Message \cup {NoMsg}] /\ owed' \in [Ids -> [Requests -> Int]]
      BY <1>8 DEF DropPeer, Forget, TypeOK
    <2>. QED
      BY <1>8, <2>1, <2>2 DEF DropPeer, TypeOK
  <1>9. ASSUME NEW C \in SUBSET Ids, EndDrop(C) PROVE TypeOK'
    <2>1. /\ writeBuffer' \in [Ids -> Seq(Message)] /\ cursor' \in [Ids -> Nat]
          /\ queuedBytes' \in [Ids -> Int]
      BY <1>9, <1>k, MessagesQueued, EnqueueType DEF EndDrop
    <2>. QED
      BY <1>9, <2>1 DEF EndDrop, TypeOK, peerView
  <1>t. events # <<>> => /\ Head(events) \in Event /\ Tail(events) \in Seq(Event)
                         /\ Head(events).peer \in Ids
                         /\ Head(events).type = "Request" => Head(events).req \in Requests
                         /\ Head(events).type = "Piece" => Head(events).piece \in Pieces
    <2>1. events # <<>> => Head(events) \in Event /\ Tail(events) \in Seq(Event)
      BY HeadFirst DEF TypeOK
    <2>. QED
      BY <2>1, EventFacts
  <1>10. ASSUME DispatchJoined PROVE TypeOK'
    <2>1. /\ writeBuffer' \in [Ids -> Seq(Message)] /\ cursor' \in [Ids -> Nat]
          /\ queuedBytes' \in [Ids -> Int]
      <3>1. <<Plain("bitfield"), Plain("unchoke")>>
                \o (IF have = Pieces THEN <<>> ELSE <<Plain("interested")>>) \in Seq(Message)
        BY MessagesQueued
      <3>. QED
        BY <1>10, <3>1, EnqueueType DEF DispatchJoined
    <2>. QED
      BY <1>10, <1>t, <2>1 DEF DispatchJoined, Dispatch, TypeOK, loopVars, peerView
  <1>11. ASSUME OnRequest PROVE TypeOK'
    <2>1. /\ writeBuffer' \in [Ids -> Seq(Message)] /\ cursor' \in [Ids -> Nat]
          /\ queuedBytes' \in [Ids -> Int]
      <3>1. Head(events).req \in Requests
        BY <1>11, <1>t DEF OnRequest, Dispatch
      <3>2. <<PieceMsg(Head(events).req)>> \in Seq(Message)
        BY <3>1, MessagesQueued
      <3>. QED
        BY <1>11, <3>2, EnqueueType DEF OnRequest, TypeOK, queueVars
    <2>. QED
      BY <1>11, <1>t, <2>1 DEF OnRequest, Dispatch, TypeOK, loopVars, peerView
  <1>12. ASSUME NEW verified \in BOOLEAN, NEW banned \in SUBSET Ids, OnPiece(verified, banned)
         PROVE  TypeOK'
    <2> DEFINE told == IF verified THEN <<Plain("have")>> ELSE <<>>
    <2>1. told \in Seq(Message)
      BY <1>k, MessagesQueued
    <2>a. SizeOfAll(told) \in Nat
      BY <2>1, SizeOfAllType
    <2>b. ASSUME NEW t \in Seq(Message) PROVE \A c \in Ids : writeBuffer[c] \o t \in Seq(Message)
      BY DEF TypeOK
    <2>2. SizeOfAll(told) \in Nat /\ \A c \in Ids : writeBuffer[c] \o told \in Seq(Message)
      BY <2>1, <2>a, <2>b
    <2>3. /\ writeBuffer' \in [Ids -> Seq(Message)] /\ cursor' \in [Ids -> Nat]
          /\ queuedBytes' \in [Ids -> Int]
      BY <1>12, <2>2 DEF OnPiece, TypeOK
    <2>4. /\ conns' \subseteq Ids /\ amChoking' \in [Ids -> BOOLEAN]
          /\ begun' \in [Ids -> Message \cup {NoMsg}] /\ owed' \in [Ids -> [Requests -> Int]]
      BY <1>12 DEF OnPiece, Forget, TypeOK
    <2>5. have' \subseteq Pieces /\ events' \in Seq(Event)
      BY <1>12, <1>t DEF OnPiece, Dispatch, TypeOK
    <2>. QED
      BY <1>12, <2>3, <2>4, <2>5 DEF OnPiece, Dispatch, TypeOK, loopVars
  <1>13. ASSUME NEW c \in Ids, SendRequest(c) PROVE TypeOK'
    <2>1. /\ writeBuffer' \in [Ids -> Seq(Message)] /\ cursor' \in [Ids -> Nat]
          /\ queuedBytes' \in [Ids -> Int]
      BY <1>13, <1>k, MessagesQueued, EnqueueType DEF SendRequest
    <2>. QED
      BY <1>13, <2>1 DEF SendRequest, TypeOK, loopVars, peerView
  <1>. QED
    BY <1>1, <1>2, <1>3, <1>4, <1>5, <1>6, <1>7, <1>8, <1>9, <1>10, <1>11, <1>12,
       <1>13, <1>14 DEF Next

----------------------------------------------------------------------------
(* What a step does to one connection's queue *)

\* The messages that answer no request.
Other == {Plain(kind) : kind \in Kinds \ {"piece"}}

Kept(c) ==
    /\ writeBuffer'[c] = writeBuffer[c] /\ queuedBytes'[c] = queuedBytes[c]
    /\ cursor'[c] = cursor[c] /\ begun'[c] = begun[c]

Grown(c, ms) ==
    /\ writeBuffer'[c] = writeBuffer[c] \o ms
    /\ queuedBytes'[c] = queuedBytes[c] + SizeOfAll(ms)
    /\ cursor'[c] = cursor[c] /\ begun'[c] = begun[c]

Cancelled(c, r) ==
    /\ QueuedPiece(c, r) # 0
    /\ writeBuffer'[c] = RemoveAt(writeBuffer[c], QueuedPiece(c, r))
    /\ queuedBytes'[c] = queuedBytes[c] - Size(PieceMsg(r))
    /\ cursor'[c] = cursor[c] /\ begun'[c] = begun[c]

Sent(c) ==
    /\ writeBuffer[c] # <<>>
    /\ writeBuffer'[c] = Tail(writeBuffer[c])
    /\ queuedBytes'[c] = queuedBytes[c] - Size(Head(writeBuffer[c]))
    /\ cursor'[c] = 0 /\ begun'[c] = NoMsg

SentInPart(c) ==
    /\ writeBuffer[c] # <<>>
    /\ writeBuffer'[c] = writeBuffer[c] /\ queuedBytes'[c] = queuedBytes[c]
    /\ cursor'[c] \in 1 .. (Size(Head(writeBuffer[c])) - 1)
    /\ begun'[c] = IF cursor[c] = 0 THEN Head(writeBuffer[c]) ELSE begun[c]

Emptied(c) ==
    /\ writeBuffer'[c] = <<>> /\ queuedBytes'[c] = 0
    /\ cursor'[c] = 0 /\ begun'[c] = NoMsg

QueueStep(c) ==
    \/ Kept(c)
    \/ \E ms \in Seq(Other) : Grown(c, ms)
    \/ \E r \in Requests : Grown(c, <<PieceMsg(r)>>) /\ queuedBytes[c] < MaxQueuedBytes
    \/ \E r \in Requests : Cancelled(c, r)
    \/ Sent(c)
    \/ SentInPart(c)
    \/ Emptied(c)

\* enqueue() appends to the queues named and leaves the others.
LEMMA EnqueueFacts ==
    ASSUME TypeOK, NEW C, NEW ms, Enqueue(C, ms), begun' = begun, NEW c \in Ids
    PROVE  (c \in C /\ Grown(c, ms)) \/ (c \notin C /\ Kept(c))
  BY DEF TypeOK, Enqueue, Grown, Kept

\* The messages queued by the actions other than OnRequest.
LEMMA OthersQueued ==
    /\ \A kind \in Kinds \ {"piece"} : <<Plain(kind)>> \in Seq(Other)
    /\ <<>> \in Seq(Other)
    /\ <<Plain("bitfield"), Plain("unchoke")>> \o <<>> \in Seq(Other)
    /\ <<Plain("bitfield"), Plain("unchoke")>> \o <<Plain("interested")>> \in Seq(Other)
  <1>1. \A kind \in Kinds \ {"piece"} : Plain(kind) \in Other
    BY DEF Other
  <1>2. /\ "bitfield" \in Kinds \ {"piece"} /\ "unchoke" \in Kinds \ {"piece"}
        /\ "interested" \in Kinds \ {"piece"}
    BY DEF Kinds
  <1>3. Plain("bitfield") \in Other /\ Plain("unchoke") \in Other /\ Plain("interested") \in Other
    BY <1>1, <1>2
  <1> HIDE DEF Other
  <1>4. <<Plain("bitfield"), Plain("unchoke")>> \in Seq(Other) /\ <<Plain("interested")>> \in Seq(Other)
    BY <1>3
  <1>5. \A kind \in Kinds \ {"piece"} : <<Plain(kind)>> \in Seq(Other)
    BY <1>1
  <1>. QED
    BY <1>4, <1>5

\* send() takes the front message off its queue, or moves the cursor within it.
LEMMA SendSomeQueue ==
    ASSUME TypeOK, NEW c \in Ids, NEW d \in Ids, NEW n \in Chunk, SendSome(d, n)
    PROVE  IF c = d THEN Sent(c) \/ SentInPart(c) ELSE Kept(c)
  <1>1. n \in Nat /\ n > 0
    BY WriteQueueAssumption DEF Chunk
  <1>2. writeBuffer[d] \in Seq(Message) /\ writeBuffer[d] # <<>>
    BY DEF SendSome, TypeOK
  <1>3. Size(Head(writeBuffer[d])) \in Nat /\ cursor[d] \in Nat
    <2>1. Head(writeBuffer[d]) \in Message
      BY <1>2, HeadFirst
    <2>. QED
      BY <2>1, MessageFacts DEF TypeOK
  <1>4. cursor[d] + n <= Size(Head(writeBuffer[d]))
    BY DEF SendSome
  <1>5. CASE cursor[d] + n = Size(Head(writeBuffer[d]))
    <2>1. /\ writeBuffer' = [writeBuffer EXCEPT ![d] = Tail(@)]
          /\ queuedBytes' = [queuedBytes EXCEPT ![d] = @ - Size(Head(writeBuffer[d]))]
          /\ cursor' = [cursor EXCEPT ![d] = 0]
          /\ begun' = [begun EXCEPT ![d] = NoMsg]
      BY <1>5 DEF SendSome
    <2>. QED
      BY <1>2, <2>1 DEF TypeOK, Sent, Kept
  <1>6. CASE cursor[d] + n # Size(Head(writeBuffer[d]))
    <2>1. /\ cursor' = [cursor EXCEPT ![d] = @ + n]
          /\ begun' = [begun EXCEPT ![d] = IF cursor[d] = 0 THEN Head(writeBuffer[d]) ELSE @]
          /\ UNCHANGED <<writeBuffer, queuedBytes>>
      BY <1>6 DEF SendSome
    <2>2. c = d => cursor'[c] \in 1 .. (Size(Head(writeBuffer[c])) - 1)
      <3>1. c = d => cursor'[c] = cursor[c] + n
        BY <2>1 DEF TypeOK
      <3>. QED
        BY <1>1, <1>3, <1>4, <1>6, <3>1
    <2>. QED
      BY <1>2, <2>1, <2>2 DEF TypeOK, SentInPart, Kept
  <1>. QED
    BY <1>5, <1>6

\* Every step does one of these things to each queue.
LEMMA QueueSteps ==
    ASSUME TypeOK, [Next]_vars, NEW c \in Ids
    PROVE  QueueStep(c)
  <1>k. {"handshake", "keepalive", "have", "request"} \subseteq Kinds \ {"piece"}
    BY DEF Kinds
  <1>1. CASE UNCHANGED <<queueVars, begun>>
    BY <1>1 DEF queueVars, QueueStep, Kept
  <1>2. ASSUME NEW C, NEW ms \in Seq(Other), Enqueue(C, ms), begun' = begun PROVE QueueStep(c)
    BY <1>2, EnqueueFacts DEF QueueStep
  <1>3. CASE \/ Poll \/ EndHandshakes \/ EndSockets \/ EndDispatch \/ EndLoop \/ UNCHANGED vars
             \/ ReadFails
             \/ \E d \in Ids : Visit(d) \/ SendFails(d)
             \/ \E r \in Requests : MsgRequest(r)
             \/ \E p \in Pieces : MsgPiece(p)
    BY <1>1, <1>3 DEF Poll, EndHandshakes, EndSockets, EndDispatch, EndLoop, vars, ReadFails, Visit,
                      SendFails, MsgRequest, MsgPiece, HandleMessage, peerView
  <1>4. ASSUME NEW inbound \in BOOLEAN, FinishHandshake(inbound) PROVE QueueStep(c)
    <2>1. (IF inbound THEN <<Plain("handshake")>> ELSE <<>>) \in Seq(Other)
      BY <1>k, OthersQueued
    <2>. QED
      BY <1>2, <1>4, <2>1 DEF FinishHandshake, peerView
  <1>5. ASSUME NEW d \in Ids, NEW n \in Chunk, SendSome(d, n) PROVE QueueStep(c)
    BY <1>5, SendSomeQueue DEF QueueStep
  <1>6. ASSUME NEW r \in Requests, MsgCancel(r) PROVE QueueStep(c)
    <2>1. begun' = begun /\ cur \in Ids
      BY <1>6 DEF MsgCancel, HandleMessage, TypeOK
    <2>2. CASE UNCHANGED queueVars
      BY <1>1, <2>1, <2>2
    <2>3. CASE RemoveQueuedPiece(cur, r)
      <3>1. CASE QueuedPiece(cur, r) = 0
        BY <1>1, <2>1, <2>3, <3>1 DEF RemoveQueuedPiece, queueVars
      <3>2. CASE QueuedPiece(cur, r) # 0
        <4>1. /\ writeBuffer' = [writeBuffer EXCEPT ![cur] = RemoveAt(@, QueuedPiece(cur, r))]
              /\ queuedBytes' = [queuedBytes EXCEPT ![cur] = @ - Size(PieceMsg(r))]
              /\ UNCHANGED cursor
          BY <2>3, <3>2 DEF RemoveQueuedPiece
        <4>2. IF c = cur THEN Cancelled(c, r) ELSE Kept(c)
          BY <2>1, <3>2, <4>1 DEF TypeOK, Cancelled, Kept
        <4>. QED
          BY <4>2 DEF QueueStep
      <3>. QED
        BY <3>1, <3>2
    <2>. QED
      BY <1>6, <2>2, <2>3 DEF MsgCancel
  <1>7. ASSUME NEW d \in Ids, DropPeer(d) PROVE QueueStep(c)
    <2>1. IF c = d THEN Emptied(c) ELSE Kept(c)
      BY <1>7 DEF DropPeer, Forget, EmptyQueues, Emptied, Kept, TypeOK
    <2>. QED
      BY <2>1 DEF QueueStep
  <1>8. ASSUME NEW C \in SUBSET Ids, EndDrop(C) PROVE QueueStep(c)
    BY <1>2, <1>8, <1>k, OthersQueued DEF EndDrop, peerView
  <1>9. ASSUME DispatchJoined PROVE QueueStep(c)
    <2>1. <<Plain("bitfield"), Plain("unchoke")>>
              \o (IF have = Pieces THEN <<>> ELSE <<Plain("interested")>>) \in Seq(Other)
      BY OthersQueued
    <2>. QED
      BY <1>2, <1>9, <2>1 DEF DispatchJoined, peerView
  <1>10. ASSUME OnRequest PROVE QueueStep(c)
    <2> DEFINE e == Head(events)
    <2>1. e.req \in Requests /\ e.peer \in Ids /\ begun' = begun
      <3>1. events # <<>> /\ e.type = "Request" /\ begun' = begun
        BY <1>10 DEF OnRequest, Dispatch, peerView
      <3>2. e \in Event
        BY <3>1, HeadFirst DEF TypeOK
      <3>. QED
        BY <3>1, <3>2, EventFacts
    <2>2. CASE PieceOf[e.req] \in have /\ CanQueue(e.peer) /\ e.req \in Readable
      <3>1. Enqueue({e.peer}, <<PieceMsg(e.req)>>) /\ queuedBytes[e.peer] < MaxQueuedBytes
        BY <1>10, <2>2 DEF OnRequest, CanQueue
      <3>2. IF c = e.peer THEN Grown(c, <<PieceMsg(e.req)>>) ELSE Kept(c)
        BY <2>1, <3>1, EnqueueFacts
      <3>. QED
        BY <2>1, <3>1, <3>2 DEF QueueStep
    <2>3. CASE ~(PieceOf[e.req] \in have /\ CanQueue(e.peer) /\ e.req \in Readable)
      BY <1>1, <1>10, <2>1, <2>3 DEF OnRequest
    <2>. QED
      BY <2>2, <2>3
  <1>11. ASSUME NEW verified \in BOOLEAN, NEW banned \in SUBSET Ids, OnPiece(verified, banned)
         PROVE  QueueStep(c)
    <2> DEFINE told == IF verified THEN <<Plain("have")>> ELSE <<>>
    <2>1. told \in Seq(Other)
      BY <1>k, OthersQueued
    <2>2. c \in banned => Emptied(c)
      BY <1>11 DEF OnPiece, Forget, Emptied
    <2>3. c \notin banned => /\ cursor'[c] = cursor[c] /\ begun'[c] = begun[c]
                             /\ c \notin conns => /\ writeBuffer'[c] = writeBuffer[c]
                                                  /\ queuedBytes'[c] = queuedBytes[c]
                             /\ c \in conns => /\ writeBuffer'[c] = writeBuffer[c] \o told
                                               /\ queuedBytes'[c] = queuedBytes[c] + SizeOfAll(told)
      BY <1>11 DEF OnPiece, Forget
    <2>. QED
      BY <2>1, <2>2, <2>3 DEF QueueStep, Grown, Kept
  <1>12. ASSUME NEW d \in Ids, SendRequest(d) PROVE QueueStep(c)
    BY <1>2, <1>12, <1>k, OthersQueued DEF SendRequest, peerView
  <1>. QED
    BY <1>3, <1>4, <1>5, <1>6, <1>7, <1>8, <1>9, <1>10, <1>11, <1>12 DEF Next

----------------------------------------------------------------------------
(* The running count, the stream and the limit *)

\* The messages that answer no request are messages, and weigh nothing as answers.
LEMMA OtherFacts ==
    ASSUME NEW ms \in Seq(Other)
    PROVE  /\ ms \in Seq(Message)
           /\ Total(AnswerBytes, ms) = 0
           /\ \A r \in Requests : Occurrences(ms, PieceMsg(r)) = 0
  <1>1. Other \subseteq Message
    BY DEF Message, Other
  <1>2. ms \in Seq(Message)
    BY <1>1
  <1>3. \A i \in 1 .. Len(ms) : ms[i] \in Other
    OBVIOUS
  <1>4. \A m \in Other : AnswerBytes[m] = 0 /\ \A r \in Requests : m # PieceMsg(r)
    BY WeightFacts, MessageFacts DEF Other
  <1>5. Units(AnswerBytes, ms) = {}
    <2>1. ASSUME NEW i \in 1 .. Len(ms) PROVE {i} \X (1 .. AnswerBytes[ms[i]]) = {}
      BY <1>3, <1>4
    <2>. QED
      BY <2>1 DEF Units
  <1>6. Total(AnswerBytes, ms) = 0
    BY <1>5, FS_EmptySet DEF Total
  <1>7. ASSUME NEW r \in Requests PROVE Occurrences(ms, PieceMsg(r)) = 0
    <2>1. \A i \in 1 .. Len(ms) : ms[i] # PieceMsg(r)
      BY <1>3, <1>4
    <2>. QED
      BY <1>2, <2>1, OccurrencesFacts
  <1>. QED
    BY <1>2, <1>6, <1>7

\* The sum of a weight over a queue, after a step.
LEMMA QueueTotals ==
    ASSUME TypeOK, NEW c \in Ids, NEW w \in [Message -> Nat]
    PROVE  /\ Total(w, writeBuffer[c]) \in Nat
           /\ \A ms \in Seq(Message) :
                  Total(w, writeBuffer[c] \o ms) = Total(w, writeBuffer[c]) + Total(w, ms)
           /\ writeBuffer[c] # <<>> =>
                  /\ Head(writeBuffer[c]) \in Message
                  /\ Total(w, writeBuffer[c])
                         = Total(w, Tail(writeBuffer[c])) + w[Head(writeBuffer[c])]
                  /\ Total(w, Tail(writeBuffer[c])) \in Nat
           /\ \A r \in Requests : QueuedPiece(c, r) # 0 =>
                  LET s == RemoveAt(writeBuffer[c], QueuedPiece(c, r))
                  IN  /\ Total(w, writeBuffer[c]) = Total(w, s) + w[PieceMsg(r)]
                      /\ Total(w, s) \in Nat
           /\ Total(w, <<>>) = 0
  <1> DEFINE b == writeBuffer[c]
  <1>1. b \in Seq(Message)
    BY DEF TypeOK
  <1> HIDE DEF b
  <1>2. Total(w, b) \in Nat
    BY <1>1, TotalType
  <1>3. \A ms \in Seq(Message) : Total(w, b \o ms) = Total(w, b) + Total(w, ms)
    BY <1>1, TotalConcat
  <1>4. ASSUME b # <<>>
        PROVE  /\ Head(b) \in Message
               /\ Total(w, b) = Total(w, Tail(b)) + w[Head(b)]
               /\ Total(w, Tail(b)) \in Nat
    <2>1. Head(b) \in Message /\ Tail(b) \in Seq(Message)
      BY <1>1, <1>4, HeadFirst
    <2>2. Total(w, b) = Total(w, Tail(b)) + w[Head(b)]
      BY <1>1, <1>4, TotalTail
    <2>3. Total(w, Tail(b)) \in Nat
      BY <2>1, TotalType
    <2>. QED
      BY <2>1, <2>2, <2>3
  <1>5. ASSUME NEW r \in Requests, QueuedPiece(c, r) # 0
        PROVE  /\ Total(w, b) = Total(w, RemoveAt(b, QueuedPiece(c, r))) + w[PieceMsg(r)]
               /\ Total(w, RemoveAt(b, QueuedPiece(c, r))) \in Nat
    <2>1. QueuedPiece(c, r) \in 1 .. Len(b) /\ b[QueuedPiece(c, r)] = PieceMsg(r)
      BY <1>5, QueuedPieceFacts DEF b
    <2>2. RemoveAt(b, QueuedPiece(c, r)) \in Seq(Message)
      BY <1>1, <2>1, Removed
    <2>3. Total(w, b) = Total(w, RemoveAt(b, QueuedPiece(c, r))) + w[b[QueuedPiece(c, r)]]
      BY <1>1, <2>1, TotalErase
    <2>4. Total(w, RemoveAt(b, QueuedPiece(c, r))) \in Nat
      BY <2>2, TotalType
    <2>. QED
      BY <2>1, <2>3, <2>4
  <1>6. Total(w, <<>>) = 0
    <2>1. Units(w, <<>>) = {}
      BY DEF Units
    <2>. QED
      BY <2>1, FS_EmptySet DEF Total
  <1>. QED
    BY <1>2, <1>3, <1>4, <1>5, <1>6 DEF b

\* queued_bytes stays the size of what is queued.
LEMMA AgreeStep == TypeOK /\ QueuedBytesAgree /\ [Next]_vars => QueuedBytesAgree'
  <1> SUFFICES ASSUME TypeOK, QueuedBytesAgree, [Next]_vars, NEW c \in Ids
               PROVE  queuedBytes'[c] = Total(MessageBytes, writeBuffer'[c])
    BY DEF QueuedBytesAgree, SizeOfAll
  <1>w. MessageBytes \in [Message -> Nat]
    BY WeightFacts
  <1>a. queuedBytes[c] = Total(MessageBytes, writeBuffer[c])
    BY DEF QueuedBytesAgree, SizeOfAll
  <1>1. CASE Kept(c)
    BY <1>a, <1>1 DEF Kept
  <1>2. ASSUME NEW ms \in Seq(Message), Grown(c, ms)
        PROVE  queuedBytes'[c] = Total(MessageBytes, writeBuffer'[c])
    BY <1>a, <1>w, <1>2, QueueTotals DEF Grown, SizeOfAll
  <1>3. \A ms \in Seq(Other) : ms \in Seq(Message)
    BY OtherFacts
  <1>4. \A r \in Requests : <<PieceMsg(r)>> \in Seq(Message)
    BY MessagesQueued
  <1>5. ASSUME NEW r \in Requests, Cancelled(c, r)
        PROVE  queuedBytes'[c] = Total(MessageBytes, writeBuffer'[c])
    <2>1. MessageBytes[PieceMsg(r)] = Size(PieceMsg(r)) /\ Size(PieceMsg(r)) \in Nat
      BY MessageFacts, WeightFacts
    <2> DEFINE s == RemoveAt(writeBuffer[c], QueuedPiece(c, r))
    <2>2. /\ writeBuffer'[c] = s /\ queuedBytes'[c] = queuedBytes[c] - Size(PieceMsg(r))
          /\ QueuedPiece(c, r) # 0
      BY <1>5 DEF Cancelled
    <2>3. /\ Total(MessageBytes, writeBuffer[c]) = Total(MessageBytes, s) + MessageBytes[PieceMsg(r)]
          /\ Total(MessageBytes, s) \in Nat
      BY <1>w, <2>2, QueueTotals
    <2> HIDE DEF s
    <2>. QED
      BY <1>a, <2>1, <2>2, <2>3
  <1>6. CASE Sent(c)
    <2>1. /\ writeBuffer[c] # <<>> /\ writeBuffer'[c] = Tail(writeBuffer[c])
          /\ queuedBytes'[c] = queuedBytes[c] - Size(Head(writeBuffer[c]))
      BY <1>6 DEF Sent
    <2>2. /\ Head(writeBuffer[c]) \in Message /\ Total(MessageBytes, Tail(writeBuffer[c])) \in Nat
          /\ Total(MessageBytes, writeBuffer[c])
                 = Total(MessageBytes, Tail(writeBuffer[c])) + MessageBytes[Head(writeBuffer[c])]
      BY <1>w, <2>1, QueueTotals
    <2>3. /\ MessageBytes[Head(writeBuffer[c])] = Size(Head(writeBuffer[c]))
          /\ Size(Head(writeBuffer[c])) \in Nat
      BY <2>2, MessageFacts, WeightFacts
    <2>. QED
      BY <1>a, <2>1, <2>2, <2>3
  <1>7. CASE SentInPart(c)
    BY <1>a, <1>7 DEF SentInPart
  <1>8. CASE Emptied(c)
    BY <1>w, <1>8, QueueTotals DEF Emptied
  <1>. QED
    BY <1>1, <1>2, <1>3, <1>4, <1>5, <1>6, <1>7, <1>8, QueueSteps DEF QueueStep

\* The message a peer has begun to get stays in front of its queue.
LEMMA SyncStep ==
    ASSUME TypeOK, [Next]_vars, NEW c \in Ids, InSync(c)
    PROVE  InSync(c)'
  <1> DEFINE b == writeBuffer[c]
  <1>1. b \in Seq(Message) /\ cursor[c] \in Nat /\ begun[c] \in Message \cup {NoMsg}
    BY DEF TypeOK
  <1>2. b # <<>> => Head(b) = b[1] /\ Head(b) # NoMsg /\ Len(b) \in Nat
    BY <1>1, HeadFirst, MessageFacts
  <1>3. begun[c] # NoMsg => /\ b # <<>> /\ Head(b) = begun[c]
                            /\ cursor[c] \in 1 .. (Size(begun[c]) - 1)
    BY DEF InSync
  <1>4. begun[c] = NoMsg => cursor[c] = 0
    BY DEF InSync
  <1>5. ASSUME writeBuffer'[c] # <<>> \/ begun[c] = NoMsg,
               begun[c] # NoMsg => Head(writeBuffer'[c]) = Head(b),
               cursor'[c] = cursor[c], begun'[c] = begun[c]
        PROVE  InSync(c)'
    BY <1>3, <1>4, <1>5 DEF InSync, Size
  <1>6. CASE Kept(c)
    BY <1>3, <1>5, <1>6 DEF Kept
  <1>7. ASSUME NEW ms \in Seq(Message), Grown(c, ms) PROVE InSync(c)'
    <2>1. b # <<>> => b \o ms # <<>> /\ Head(b \o ms) = Head(b)
      BY <1>1
    <2>. QED
      BY <1>3, <1>5, <1>7, <2>1 DEF Grown
  <1>8. ASSUME NEW r \in Requests, Cancelled(c, r) PROVE InSync(c)'
    <2> DEFINE i == QueuedPiece(c, r)
    <2>1. i \in 1 .. Len(b) /\ (cursor[c] > 0 => i > 1)
      BY <1>8, QueuedPieceFacts DEF Cancelled
    <2>2. writeBuffer'[c] = RemoveAt(b, i) /\ cursor'[c] = cursor[c] /\ begun'[c] = begun[c]
      BY <1>8 DEF Cancelled
    <2> HIDE DEF i
    <2>3. CASE begun[c] # NoMsg
      <3>1. b # <<>> /\ i > 1 /\ Len(b) \in Nat /\ Len(b) >= 2
        BY <1>1, <1>2, <1>3, <2>1, <2>3
      <3>2. /\ RemoveAt(b, i) \in Seq(Message) /\ Len(RemoveAt(b, i)) = Len(b) - 1
            /\ RemoveAt(b, i)[1] = b[1]
        BY <1>1, <2>1, <3>1, Removed
      <3>3. RemoveAt(b, i) # <<>>
        BY <3>1, <3>2
      <3>4. Head(RemoveAt(b, i)) = RemoveAt(b, i)[1]
        BY <3>2, <3>3, HeadFirst
      <3>. QED
        BY <1>2, <1>5, <2>2, <3>1, <3>2, <3>3, <3>4
    <2>4. CASE begun[c] = NoMsg
      BY <1>5, <2>2, <2>4
    <2>. QED
      BY <2>3, <2>4
  <1>9. CASE Sent(c) \/ Emptied(c)
    BY <1>9 DEF Sent, Emptied, InSync
  <1>10. CASE SentInPart(c)
    <2>1. /\ b # <<>> /\ writeBuffer'[c] = b
          /\ cursor'[c] \in 1 .. (Size(Head(b)) - 1)
          /\ begun'[c] = IF cursor[c] = 0 THEN Head(b) ELSE begun[c]
      BY <1>10 DEF SentInPart
    <2>2. begun'[c] = Head(b)
      <3>1. cursor[c] # 0 => begun[c] # NoMsg
        BY <1>4
      <3>. QED
        BY <1>3, <2>1, <3>1
    <2>. QED
      BY <1>2, <2>1, <2>2 DEF InSync, Size
  <1>11. /\ \A ms \in Seq(Other) : ms \in Seq(Message)
         /\ \A r \in Requests : <<PieceMsg(r)>> \in Seq(Message)
    BY OtherFacts, MessagesQueued
  <1>. QED
    BY <1>6, <1>7, <1>8, <1>9, <1>10, <1>11, QueueSteps DEF QueueStep

\* The answers queued for one connection are within the limit and one message.
Limited(c) == Total(AnswerBytes, writeBuffer[c]) < MaxQueuedBytes + MessageSize["piece"]

\* ... and stay so: a queue that takes another answer is below the limit.
LEMMA LimitStep ==
    ASSUME TypeOK, QueuedBytesAgree, [Next]_vars, NEW c \in Ids, Limited(c)
    PROVE  Limited(c)'
  <1> DEFINE b == writeBuffer[c]
             a == Total(AnswerBytes, b)
             limit == MaxQueuedBytes + MessageSize["piece"]
  <1>1. /\ AnswerBytes \in [Message -> Nat] /\ MessageBytes \in [Message -> Nat]
        /\ \A m \in Message : AnswerBytes[m] \in Nat /\ AnswerBytes[m] <= MessageBytes[m]
    BY WeightFacts
  <1>2. MaxQueuedBytes \in Nat /\ MessageSize["piece"] \in Nat /\ MessageSize["piece"] > 0
    BY WriteQueueAssumption, WeightFacts
  <1>3. a \in Nat /\ a < limit
    BY <1>1, QueueTotals DEF Limited
  <1>4. a <= queuedBytes[c]
    <2>1. b \in Seq(Message)
      BY DEF TypeOK
    <2>2. Total(AnswerBytes, b) <= Total(MessageBytes, b)
      BY <1>1, <2>1, TotalMonotone
    <2>. QED
      BY <2>2 DEF QueuedBytesAgree, SizeOfAll
  <1>5. ASSUME writeBuffer'[c] = b PROVE Limited(c)'
    BY <1>5 DEF Limited
  <1>6. ASSUME NEW ms \in Seq(Other), Grown(c, ms) PROVE Limited(c)'
    <2>1. ms \in Seq(Message) /\ Total(AnswerBytes, ms) = 0
      BY OtherFacts
    <2>2. Total(AnswerBytes, b \o ms) = a + Total(AnswerBytes, ms)
      BY <1>1, <2>1, QueueTotals
    <2>3. Total(AnswerBytes, b \o ms) < limit
      BY <1>2, <1>3, <2>1, <2>2
    <2>4. writeBuffer'[c] = b \o ms
      BY <1>6 DEF Grown
    <2>. QED
      BY <2>3, <2>4 DEF Limited
  <1>7. ASSUME NEW r \in Requests, Grown(c, <<PieceMsg(r)>>), queuedBytes[c] < MaxQueuedBytes
        PROVE  Limited(c)'
    <2> DEFINE ms == <<PieceMsg(r)>>
    <2>1. PieceMsg(r) \in Message /\ ms \in Seq(Message)
      BY MessageFacts
    <2>2. Total(AnswerBytes, ms) = AnswerBytes[PieceMsg(r)]
      BY <1>1, <2>1, TotalOne
    <2>3. MessageBytes[PieceMsg(r)] = MessageSize["piece"]
      BY WeightFacts
    <2>4. AnswerBytes[PieceMsg(r)] \in Nat /\ AnswerBytes[PieceMsg(r)] <= MessageSize["piece"]
      BY <1>1, <2>1, <2>3
    <2>5. Total(AnswerBytes, b \o ms) = a + Total(AnswerBytes, ms)
      BY <1>1, <2>1, QueueTotals
    <2>6. writeBuffer'[c] = b \o ms
      BY <1>7 DEF Grown
    <2>7. queuedBytes[c] \in Int
      BY DEF TypeOK
    <2> HIDE DEF ms
    <2>8. Total(AnswerBytes, b \o ms) < limit
      BY <1>2, <1>3, <1>4, <1>7, <2>2, <2>4, <2>5, <2>7
    <2>. QED
      BY <2>6, <2>8 DEF Limited
  <1>8. ASSUME NEW r \in Requests, Cancelled(c, r) PROVE Limited(c)'
    <2> DEFINE t == RemoveAt(b, QueuedPiece(c, r))
    <2>1. QueuedPiece(c, r) # 0 /\ writeBuffer'[c] = t
      BY <1>8 DEF Cancelled
    <2>2. a = Total(AnswerBytes, t) + AnswerBytes[PieceMsg(r)] /\ Total(AnswerBytes, t) \in Nat
      BY <1>1, <2>1, QueueTotals
    <2>3. AnswerBytes[PieceMsg(r)] \in Nat
      BY <1>1, MessageFacts
    <2> HIDE DEF t
    <2>4. Total(AnswerBytes, t) < limit
      BY <1>2, <1>3, <2>2, <2>3
    <2>. QED
      BY <2>1, <2>4 DEF Limited
  <1>9. CASE Sent(c)
    <2>1. b # <<>> /\ writeBuffer'[c] = Tail(b)
      BY <1>9 DEF Sent
    <2>2. /\ Head(b) \in Message /\ Total(AnswerBytes, Tail(b)) \in Nat
          /\ a = Total(AnswerBytes, Tail(b)) + AnswerBytes[Head(b)]
      BY <1>1, <2>1, QueueTotals
    <2>3. Total(AnswerBytes, Tail(b)) < limit
      BY <1>1, <1>2, <1>3, <2>2
    <2>. QED
      BY <2>1, <2>3 DEF Limited
  <1>10. CASE Emptied(c)
    <2>1. writeBuffer'[c] = <<>> /\ Total(AnswerBytes, <<>>) = 0
      BY <1>1, <1>10, QueueTotals DEF Emptied
    <2>. QED
      BY <1>2, <2>1 DEF Limited
  <1>. QED
    BY <1>5, <1>6, <1>7, <1>8, <1>9, <1>10, QueueSteps DEF QueueStep, Kept, SentInPart

----------------------------------------------------------------------------
(* The connections and the batch *)

\* A connection's queue and the peer's view of it are left alone.
LEMMA LeftAlone ==
    ASSUME TypeOK, NothingLeft, conns \subseteq conns',
           \A c \in Ids \ conns' : Kept(c)
    PROVE  NothingLeft'
  BY DEF NothingLeft, Kept

\* Nothing is left of a connection that is gone, and ids are given out once.
LEMMA NothingLeftStep == TypeOK /\ NothingLeft /\ [Next]_vars => NothingLeft'
  <1> SUFFICES ASSUME TypeOK, NothingLeft, [Next]_vars PROVE NothingLeft'
    OBVIOUS
  <1>1. ASSUME UNCHANGED <<conns, queueVars, begun>> PROVE NothingLeft'
    BY <1>1 DEF queueVars, NothingLeft
  <1>2. ASSUME NEW C, NEW ms, Enqueue(C, ms), begun' = begun, conns \subseteq conns', C \subseteq conns'
        PROVE  NothingLeft'
    BY <1>2, EnqueueFacts, LeftAlone
  <1>3. CASE \/ Poll \/ EndHandshakes \/ EndSockets \/ EndDispatch \/ EndLoop \/ UNCHANGED vars
             \/ ReadFails
             \/ \E d \in Ids : Visit(d) \/ SendFails(d)
             \/ \E r \in Requests : MsgRequest(r)
             \/ \E p \in Pieces : MsgPiece(p)
    BY <1>1, <1>3 DEF Poll, EndHandshakes, EndSockets, EndDispatch, EndLoop, vars, ReadFails, Visit,
                      SendFails, MsgRequest, MsgPiece, HandleMessage, peerView
  <1>4. ASSUME NEW inbound \in BOOLEAN, FinishHandshake(inbound) PROVE NothingLeft'
    BY <1>2, <1>4 DEF FinishHandshake, peerView
  <1>5. ASSUME NEW d \in Ids, NEW n \in Chunk, SendSome(d, n) PROVE NothingLeft'
    <2>1. conns' = conns /\ writeBuffer[d] # <<>>
      BY <1>5 DEF SendSome
    <2>2. d \in conns
      BY <2>1 DEF NothingLeft
    <2>3. \A c \in Ids \ {d} : Kept(c)
      BY <1>5 DEF SendSome, Kept, TypeOK
    <2>. QED
      BY <2>1, <2>2, <2>3, LeftAlone
  <1>6. ASSUME NEW r \in Requests, MsgCancel(r) PROVE NothingLeft'
    <2>1. cur \in conns /\ conns' = conns /\ begun' = begun
      BY <1>6 DEF MsgCancel, HandleMessage
    <2>2. \A c \in Ids \ {cur} : Kept(c)
      BY <1>6, <2>1 DEF MsgCancel, RemoveQueuedPiece, queueVars, Kept, TypeOK
    <2>. QED
      BY <2>1, <2>2, LeftAlone
  <1>7. ASSUME NEW d \in Ids, DropPeer(d) PROVE NothingLeft'
    BY <1>7 DEF DropPeer, Forget, EmptyQueues, NothingLeft, TypeOK
  <1>8. ASSUME NEW C \in SUBSET Ids, EndDrop(C) PROVE NothingLeft'
    BY <1>2, <1>8 DEF EndDrop, Quiet, peerView
  <1>9. CASE DispatchJoined
    BY <1>2, <1>9 DEF DispatchJoined, peerView
  <1>10. CASE OnRequest
    BY <1>1, <1>2, <1>10 DEF OnRequest, CanQueue, peerView
  <1>11. ASSUME NEW verified \in BOOLEAN, NEW banned \in SUBSET Ids, OnPiece(verified, banned)
         PROVE  NothingLeft'
    BY <1>11 DEF OnPiece, Forget, NothingLeft
  <1>12. ASSUME NEW d \in Ids, SendRequest(d) PROVE NothingLeft'
    BY <1>2, <1>12 DEF SendRequest, peerView
  <1>. QED
    BY <1>3, <1>4, <1>5, <1>6, <1>7, <1>8, <1>9, <1>10, <1>11, <1>12 DEF Next

\* The events after a step, when none is added.
LEMMA BatchShrinks ==
    ASSUME TypeOK, BatchInOrder, nextId' = nextId, conns' \subseteq conns, fresh \subseteq fresh',
           phase' = phase,
           \/ events' = events
           \/ events # <<>> /\ events' = Tail(events)
           \/ \E k \in 1 .. Len(events) : events' = RemoveAt(events, k)
    PROVE  BatchInOrder'
  <1> DEFINE n == Len(events)
  <1>1. events \in Seq(Event) /\ n \in Nat
    BY DEF TypeOK
  <1>2. PICK f \in [1 .. Len(events') -> 1 .. n] :
            /\ \A i \in 1 .. Len(events') : events'[i] = events[f[i]]
            /\ \A i, j \in 1 .. Len(events') : i < j => f[i] < f[j]
    <2>1. CASE events' = events
      <3> DEFINE f == [i \in 1 .. n |-> i]
      <3>1. f \in [1 .. Len(events') -> 1 .. n]
        BY <2>1
      <3>. QED
        BY <2>1, <3>1
    <2>2. CASE events # <<>> /\ events' = Tail(events)
      <3>1. /\ Len(Tail(events)) = n - 1 /\ n > 0
            /\ \A i \in 1 .. (n - 1) : Tail(events)[i] = events[i + 1]
        BY <1>1, <2>2, HeadFirst
      <3> DEFINE f == [i \in 1 .. (n - 1) |-> i + 1]
      <3>2. f \in [1 .. (n - 1) -> 1 .. n]
        BY <1>1, <3>1
      <3>3. \A i \in 1 .. (n - 1) : f[i] = i + 1
        OBVIOUS
      <3>4. \A i, j \in 1 .. (n - 1) : i < j => f[i] < f[j]
        BY <1>1, <3>3
      <3> HIDE DEF f
      <3>5. \A i \in 1 .. (n - 1) : Tail(events)[i] = events[f[i]]
        BY <3>1, <3>3
      <3>. QED
        BY <2>2, <3>1, <3>2, <3>4, <3>5
    <2>3. ASSUME NEW k \in 1 .. n, events' = RemoveAt(events, k)
          PROVE  \E f \in [1 .. Len(events') -> 1 .. n] :
                     /\ \A i \in 1 .. Len(events') : events'[i] = events[f[i]]
                     /\ \A i, j \in 1 .. Len(events') : i < j => f[i] < f[j]
      <3>1. /\ Len(RemoveAt(events, k)) = n - 1
            /\ \A i \in 1 .. (n - 1) :
                   RemoveAt(events, k)[i] = IF i < k THEN events[i] ELSE events[i + 1]
        BY <1>1, Removed
      <3> DEFINE f == [i \in 1 .. (n - 1) |-> IF i < k THEN i ELSE i + 1]
      <3>2. f \in [1 .. (n - 1) -> 1 .. n]
        BY <1>1
      <3>3. \A i \in 1 .. (n - 1) : f[i] = IF i < k THEN i ELSE i + 1
        OBVIOUS
      <3>4. \A i, j \in 1 .. (n - 1) : i < j => f[i] < f[j]
        BY <1>1, <3>3
      <3> HIDE DEF f
      <3>5. \A i \in 1 .. (n - 1) : RemoveAt(events, k)[i] = events[f[i]]
        BY <3>1, <3>3
      <3>. QED
        BY <2>3, <3>1, <3>2, <3>4, <3>5
    <2>. QED
      BY <2>1, <2>2, <2>3
  <1>3. ASSUME NEW i \in 1 .. Len(events')
        PROVE  /\ events'[i].peer < nextId
               /\ phase \notin {"poll", "fill"}
               /\ phase = "handshakes" => events'[i].type = "Joined"
               /\ events'[i].type = "Joined" /\ phase # "dispatch" => events'[i].peer \in fresh
    <2>1. f[i] \in 1 .. n /\ events'[i] = events[f[i]]
      BY <1>2
    <2>. QED
      BY <2>1 DEF BatchInOrder
  <1>4. ASSUME NEW i \in 1 .. Len(events'), NEW j \in 1 .. Len(events'), i < j,
               events'[j].type = "Joined"
        PROVE  events'[i].type = "Joined" /\ events'[i].peer # events'[j].peer
    <2>1. /\ f[i] \in 1 .. n /\ f[j] \in 1 .. n /\ f[i] < f[j]
          /\ events'[i] = events[f[i]] /\ events'[j] = events[f[j]]
      BY <1>2, <1>4
    <2>. QED
      BY <1>4, <2>1 DEF BatchInOrder
  <1>5. \A c \in conns' : c < nextId
    BY DEF BatchInOrder
  <1>. QED
    BY <1>3, <1>4, <1>5 DEF BatchInOrder

\* The events after a step that adds one at the end.
LEMMA BatchGrows ==
    ASSUME TypeOK, BatchInOrder, NEW e, e \in Event, events' = Append(events, e),
           phase' = phase, phase \notin {"poll", "fill"},
           nextId' \in Nat, nextId <= nextId', fresh \subseteq fresh',
           e.peer < nextId', \A c \in conns' : c < nextId',
           phase = "handshakes" => e.type = "Joined",
           e.type = "Joined" => phase = "handshakes" /\ e.peer \in fresh' /\ e.peer = nextId
    PROVE  BatchInOrder'
  <1> DEFINE n == Len(events)
  <1>1. /\ n \in Nat /\ nextId \in Nat /\ events' \in Seq(Event) /\ Len(events') = n + 1
        /\ events'[n + 1] = e /\ \A i \in 1 .. n : events'[i] = events[i]
    BY DEF TypeOK
  <1>2. \A i \in 1 .. Len(events') : i = n + 1 \/ i \in 1 .. n
    BY <1>1
  <1>i. \A i \in 1 .. n : events[i].peer \in Int
    <2>1. \A i \in 1 .. n : events[i] \in Event
      BY DEF TypeOK
    <2>2. Ids \subseteq Int
      BY WriteQueueAssumption DEF Ids
    <2>. QED
      BY <2>1, <2>2, EventFacts
  <1>3. ASSUME NEW i \in 1 .. Len(events')
        PROVE  /\ events'[i].peer < nextId'
               /\ phase = "handshakes" => events'[i].type = "Joined"
               /\ events'[i].type = "Joined" /\ phase # "dispatch" => events'[i].peer \in fresh'
    <2>1. CASE i = n + 1
      BY <1>1, <2>1
    <2>2. CASE i \in 1 .. n
      <3>1. /\ events'[i] = events[i] /\ events[i].peer < nextId /\ events[i].peer \in Int
            /\ phase = "handshakes" => events[i].type = "Joined"
            /\ events[i].type = "Joined" /\ phase # "dispatch" => events[i].peer \in fresh
        BY <1>1, <1>i, <2>2 DEF BatchInOrder
      <3>2. events[i].peer < nextId'
        BY <1>1, <3>1
      <3>. QED
        BY <3>1, <3>2
    <2>. QED
      BY <1>2, <2>1, <2>2
  <1>4. ASSUME NEW i \in 1 .. Len(events'), NEW j \in 1 .. Len(events'), i < j,
               events'[j].type = "Joined"
        PROVE  events'[i].type = "Joined" /\ events'[i].peer # events'[j].peer
    <2>1. i \in 1 .. n
      BY <1>1, <1>4
    <2>2. events'[i] = events[i]
      BY <1>1, <2>1
    <2>3. CASE j = n + 1
      <3>1. phase = "handshakes" /\ events'[j] = e /\ e.peer = nextId
        BY <1>1, <1>4, <2>3
      <3>2. events[i].type = "Joined" /\ events[i].peer < nextId /\ events[i].peer \in Int
        BY <1>i, <2>1, <3>1 DEF BatchInOrder
      <3>3. events[i].peer # nextId
        BY <1>1, <3>2
      <3>. QED
        BY <2>2, <3>1, <3>2, <3>3
    <2>4. CASE j \in 1 .. n
      <3>1. events'[j] = events[j]
        BY <1>1, <2>4
      <3>. QED
        BY <1>4, <2>1, <2>2, <2>4, <3>1 DEF BatchInOrder
    <2>. QED
      BY <1>2, <2>3, <2>4
  <1>. QED
    BY <1>3, <1>4 DEF BatchInOrder

\* The joins of a batch come first, each once, whatever the order of the round.
LEMMA OrderStep == TypeOK /\ BatchInOrder /\ [Next]_vars => BatchInOrder'
  <1> SUFFICES ASSUME TypeOK, BatchInOrder, [Next]_vars PROVE BatchInOrder'
    OBVIOUS
  <1>n. nextId \in Nat /\ \A c \in conns : c \in Nat /\ c < nextId
    BY WriteQueueAssumption DEF TypeOK, Ids, BatchInOrder
  <1>1. CASE \/ UNCHANGED vars \/ ReadFails
             \/ \E c \in Ids : Visit(c) \/ SendFails(c) \/ SendRequest(c)
             \/ \E c \in Ids, k \in Chunk : SendSome(c, k)
             \/ \E c \in Ids : DropPeer(c)
    <2>1. /\ nextId' = nextId /\ conns' \subseteq conns /\ fresh \subseteq fresh' /\ phase' = phase
          /\ events' = events
      BY <1>1 DEF vars, loopVars, ReadFails, Visit, SendFails, SendRequest, SendSome, DropPeer, Forget
    <2>. QED
      BY <2>1, BatchShrinks
  <1>2. CASE Poll \/ EndLoop
    <2>1. phase \in {"poll", "fill"} /\ events' = events /\ conns' = conns /\ nextId' = nextId
      BY <1>2 DEF Poll, EndLoop
    <2>2. \A i \in 1 .. Len(events) : FALSE
      BY <2>1 DEF BatchInOrder
    <2>. QED
      BY <1>n, <2>1, <2>2 DEF BatchInOrder
  <1>3. CASE EndDispatch
    <2>1. events' = <<>> /\ conns' = conns /\ nextId' = nextId
      BY <1>3 DEF EndDispatch
    <2>2. \A i \in 1 .. Len(events') : FALSE
      BY <2>1
    <2>. QED
      BY <1>n, <2>1, <2>2 DEF BatchInOrder
  <1>4. CASE EndHandshakes \/ EndSockets \/ \E C \in SUBSET Ids : EndDrop(C)
    <2>1. /\ events' = events /\ conns' = conns /\ nextId' = nextId
          /\ phase' \notin {"poll", "fill", "handshakes"} /\ (phase' # "dispatch" => fresh' = fresh)
          /\ phase # "dispatch"
      BY <1>4 DEF EndHandshakes, EndSockets, EndDrop
    <2>. QED
      BY <2>1 DEF BatchInOrder
  <1>5. ASSUME NEW inbound \in BOOLEAN, FinishHandshake(inbound) PROVE BatchInOrder'
    <2>1. nextId \in Ids
      BY <1>5, WriteQueueAssumption DEF FinishHandshake, TypeOK, Ids
    <2>2. /\ JoinedEvent(nextId) \in Event
          /\ JoinedEvent(nextId).type = "Joined" /\ JoinedEvent(nextId).peer = nextId
      BY <2>1, EventFacts DEF JoinedEvent
    <2>3. /\ events' = Append(events, JoinedEvent(nextId)) /\ phase' = phase /\ phase = "handshakes"
          /\ nextId' = nextId + 1 /\ fresh' = fresh \cup {nextId} /\ conns' = conns \cup {nextId}
      BY <1>5 DEF FinishHandshake
    <2>4. nextId' \in Nat /\ nextId <= nextId' /\ nextId < nextId' /\ \A c \in conns' : c < nextId'
      BY <1>n, <2>3
    <2>. QED
      BY <2>2, <2>3, <2>4, BatchGrows
  <1>6. ASSUME NEW e \in Event, e.type # "Joined", HandleMessage, e.peer = cur,
               events' = Append(events, e)
        PROVE  BatchInOrder'
    <2>1. /\ phase' = phase /\ phase = "sockets" /\ nextId' = nextId /\ fresh' = fresh
          /\ conns' = conns /\ cur \in conns
      BY <1>6 DEF HandleMessage
    <2>2. nextId' \in Nat /\ nextId <= nextId' /\ e.peer < nextId' /\ \A c \in conns' : c < nextId'
      BY <1>6, <1>n, <2>1
    <2>. QED
      BY <1>6, <2>1, <2>2, BatchGrows
  <1>7. ASSUME NEW r \in Requests, MsgRequest(r) PROVE BatchInOrder'
    <2>1. cur \in Ids /\ HandleMessage
      BY <1>7 DEF MsgRequest, HandleMessage, TypeOK
    <2>2. /\ RequestEvent(cur, r) \in Event /\ RequestEvent(cur, r).type # "Joined"
          /\ RequestEvent(cur, r).peer = cur
      BY <2>1, EventFacts DEF RequestEvent
    <2>3. events' = events \/ events' = Append(events, RequestEvent(cur, r))
      BY <1>7 DEF MsgRequest
    <2>4. CASE events' = events
      BY <2>1, <2>4, BatchShrinks DEF HandleMessage
    <2>. QED
      BY <1>6, <2>1, <2>2, <2>3, <2>4
  <1>8. ASSUME NEW p \in Pieces, MsgPiece(p) PROVE BatchInOrder'
    <2>1. cur \in Ids /\ HandleMessage
      BY <1>8 DEF MsgPiece, HandleMessage, TypeOK
    <2>2. /\ PieceEvent(cur, p) \in Event /\ PieceEvent(cur, p).type # "Joined"
          /\ PieceEvent(cur, p).peer = cur
      BY <2>1, EventFacts DEF PieceEvent
    <2>3. events' = Append(events, PieceEvent(cur, p))
      BY <1>8 DEF MsgPiece
    <2>. QED
      BY <1>6, <2>1, <2>2, <2>3
  <1>9. ASSUME NEW r \in Requests, MsgCancel(r) PROVE BatchInOrder'
    <2>1. HandleMessage
      BY <1>9 DEF MsgCancel
    <2>2. events' = events \/ \E k \in 1 .. Len(events) : events' = RemoveAt(events, k)
      BY <1>9, BatchedRequestFacts DEF MsgCancel
    <2>. QED
      BY <2>1, <2>2, BatchShrinks DEF HandleMessage
  <1>10. CASE \/ DispatchJoined \/ OnRequest
              \/ \E verified \in BOOLEAN, banned \in SUBSET Ids : OnPiece(verified, banned)
    <2>1. /\ nextId' = nextId /\ conns' \subseteq conns /\ fresh \subseteq fresh' /\ phase' = phase
          /\ events # <<>> /\ events' = Tail(events)
      BY <1>10 DEF DispatchJoined, OnRequest, OnPiece, Dispatch, Forget, loopVars
    <2>. QED
      BY <2>1, BatchShrinks
  <1>. QED
    BY <1>1, <1>2, <1>3, <1>4, <1>5, <1>7, <1>8, <1>9, <1>10 DEF Next

----------------------------------------------------------------------------
(* The bitfield comes first *)

\* What was in a sequence that has lost an entry was in it before.
LEMMA RangeFacts ==
    ASSUME NEW S, NEW s \in Seq(S)
    PROVE  /\ s # <<>> => Range(Tail(s)) \subseteq Range(s)
           /\ \A i \in 1 .. Len(s) : Range(RemoveAt(s, i)) \subseteq Range(s)
  <1>1. Range(s) = {s[i] : i \in 1 .. Len(s)} /\ Len(s) \in Nat
    BY DEF Range
  <1>2. ASSUME s # <<>> PROVE Range(Tail(s)) \subseteq Range(s)
    <2> DEFINE t == Tail(s)
    <2>1. /\ t \in Seq(S) /\ Len(t) = Len(s) - 1
          /\ \A i \in 1 .. (Len(s) - 1) : t[i] = s[i + 1]
      BY <1>2, HeadFirst
    <2> HIDE DEF t
    <2>2. Range(t) = {t[i] : i \in 1 .. (Len(s) - 1)}
      BY <2>1 DEF Range
    <2>3. \A i \in 1 .. (Len(s) - 1) : t[i] \in Range(s)
      BY <1>1, <2>1
    <2>. QED
      BY <2>2, <2>3 DEF t
  <1>3. ASSUME NEW k \in 1 .. Len(s) PROVE Range(RemoveAt(s, k)) \subseteq Range(s)
    <2> DEFINE t == RemoveAt(s, k)
    <2>1. /\ t \in Seq(S) /\ Len(t) = Len(s) - 1
          /\ \A i \in 1 .. (Len(s) - 1) : t[i] = IF i < k THEN s[i] ELSE s[i + 1]
      BY Removed
    <2> HIDE DEF t
    <2>2. Range(t) = {t[i] : i \in 1 .. (Len(s) - 1)}
      BY <2>1 DEF Range
    <2>3. \A i \in 1 .. (Len(s) - 1) : t[i] \in Range(s)
      BY <1>1, <2>1
    <2>. QED
      BY <2>2, <2>3 DEF t
  <1>. QED
    BY <1>2, <1>3

\* The join of a connection is still to be looked at.
Joining(c) == \E i \in 1 .. Len(events) : events[i] = JoinedEvent(c)

\* A peer that is still joining has been sent nothing but our handshake.
LEMMA BitfieldStep ==
    ASSUME TypeOK, NothingLeft, BatchInOrder, BitfieldFirst, [Next]_vars
    PROVE  BitfieldFirst'
  <1> SUFFICES ASSUME NEW c \in conns', Joining(c)'
               PROVE  Range(writeBuffer'[c]) \subseteq {Plain("handshake")}
    BY DEF BitfieldFirst, Joining
  <1>b. c \in conns /\ Joining(c) => Range(writeBuffer[c]) \subseteq {Plain("handshake")}
    BY DEF BitfieldFirst, Joining
  <1>s. /\ events \in Seq(Event) /\ Len(events) \in Nat /\ conns \subseteq Ids
        /\ \A d \in Ids : writeBuffer[d] \in Seq(Message)
    BY DEF TypeOK
  <1>t. ASSUME events' = events \/ \E k \in 1 .. Len(events) : events' = RemoveAt(events, k)
        PROVE  Joining(c)
    <2>1. CASE events' = events
      BY <2>1 DEF Joining
    <2>2. ASSUME NEW k \in 1 .. Len(events), events' = RemoveAt(events, k) PROVE Joining(c)
      <3>1. /\ Len(events') = Len(events) - 1
            /\ \A j \in 1 .. (Len(events) - 1) :
                   events'[j] = IF j < k THEN events[j] ELSE events[j + 1]
        BY <1>s, <2>2, Removed
      <3>2. PICK i \in 1 .. (Len(events) - 1) : events'[i] = JoinedEvent(c)
        BY <3>1 DEF Joining
      <3>3. i \in 1 .. Len(events) /\ i + 1 \in 1 .. Len(events)
        BY <1>s
      <3>. QED
        BY <3>1, <3>2, <3>3 DEF Joining
    <2>. QED
      BY <1>t, <2>1, <2>2
  <1>a. ASSUME NEW e, events' = Append(events, e), e # JoinedEvent(c) PROVE Joining(c)
    <2>1. PICK i \in 1 .. (Len(events) + 1) : events'[i] = JoinedEvent(c)
      BY <1>a, <1>s DEF Joining
    <2>2. i # Len(events) + 1
      BY <1>a, <1>s, <2>1
    <2>3. i \in 1 .. Len(events) /\ events[i] = JoinedEvent(c)
      BY <1>a, <1>s, <2>1, <2>2
    <2>. QED
      BY <2>3 DEF Joining
  <1>1. CASE \/ UNCHANGED vars \/ Poll \/ EndHandshakes \/ EndSockets \/ EndDispatch \/ EndLoop
             \/ ReadFails
             \/ \E d \in Ids : Visit(d) \/ SendFails(d)
    <2>1. events' = events /\ conns' = conns /\ writeBuffer' = writeBuffer
      BY <1>1 DEF vars, Poll, EndHandshakes, EndSockets, EndDispatch, EndLoop, ReadFails, Visit,
         SendFails,
                  queueVars
    <2>. QED
      BY <1>b, <1>t, <2>1
  <1>2. CASE \/ \E r \in Requests : MsgRequest(r)
             \/ \E p \in Pieces : MsgPiece(p)
    <2>1. /\ conns' = conns /\ writeBuffer' = writeBuffer
          /\ \/ events' = events
             \/ \E r \in Requests : events' = Append(events, RequestEvent(cur, r))
             \/ \E p \in Pieces : events' = Append(events, PieceEvent(cur, p))
      BY <1>2 DEF MsgRequest, MsgPiece, HandleMessage, queueVars
    <2>2. /\ \A r \in Requests : RequestEvent(cur, r) # JoinedEvent(c)
          /\ \A p \in Pieces : PieceEvent(cur, p) # JoinedEvent(c)
      BY DEF RequestEvent, PieceEvent, JoinedEvent
    <2>3. Joining(c)
      BY <1>a, <1>t, <2>1, <2>2
    <2>. QED
      BY <1>b, <2>1, <2>3
  <1>3. ASSUME NEW inbound \in BOOLEAN, FinishHandshake(inbound)
        PROVE  Range(writeBuffer'[c]) \subseteq {Plain("handshake")}
    <2> DEFINE ms == IF inbound THEN <<Plain("handshake")>> ELSE <<>>
    <2>1. /\ events' = Append(events, JoinedEvent(nextId)) /\ conns' = conns \cup {nextId}
          /\ Enqueue({nextId}, ms)
      BY <1>3 DEF FinishHandshake
    <2>2. nextId \in Ids /\ nextId \notin conns
      BY <1>3, WriteQueueAssumption DEF FinishHandshake, TypeOK, BatchInOrder, Ids
    <2>3. CASE c = nextId
      <3>1. writeBuffer'[c] = writeBuffer[c] \o ms /\ writeBuffer[c] = <<>>
        BY <2>1, <2>2, <2>3 DEF Enqueue, NothingLeft
      <3>2. writeBuffer'[c] = ms
        BY <3>1
      <3>. QED
        BY <3>2 DEF Range
    <2>4. CASE c # nextId
      <3>1. c \in conns /\ c \in Ids /\ writeBuffer'[c] = writeBuffer[c]
        BY <1>s, <2>1, <2>4 DEF Enqueue
      <3>2. JoinedEvent(nextId) # JoinedEvent(c)
        BY <2>4 DEF JoinedEvent
      <3>. QED
        BY <1>a, <1>b, <2>1, <3>1, <3>2
    <2>. QED
      BY <2>3, <2>4
  <1>4. ASSUME NEW d \in Ids, NEW n \in Chunk, SendSome(d, n)
        PROVE  Range(writeBuffer'[c]) \subseteq {Plain("handshake")}
    <2>1. /\ events' = events /\ conns' = conns /\ writeBuffer[d] # <<>>
          /\ writeBuffer' = writeBuffer \/ writeBuffer' = [writeBuffer EXCEPT ![d] = Tail(@)]
      BY <1>4 DEF SendSome
    <2>2. writeBuffer'[c] = writeBuffer[c] \/ (c = d /\ writeBuffer'[c] = Tail(writeBuffer[c]))
      BY <2>1 DEF TypeOK
    <2>3. Range(writeBuffer'[c]) \subseteq Range(writeBuffer[c])
      BY <1>s, <2>1, <2>2, RangeFacts
    <2>. QED
      BY <1>b, <1>t, <2>1, <2>3
  <1>5. ASSUME NEW r \in Requests, MsgCancel(r)
        PROVE  Range(writeBuffer'[c]) \subseteq {Plain("handshake")}
    <2>1. /\ events' = events \/ \E k \in 1 .. Len(events) : events' = RemoveAt(events, k)
          /\ conns' = conns /\ cur \in Ids
      BY <1>5, BatchedRequestFacts DEF MsgCancel, HandleMessage, TypeOK
    <2>2. \/ writeBuffer' = writeBuffer
          \/ /\ QueuedPiece(cur, r) # 0
             /\ writeBuffer' = [writeBuffer EXCEPT ![cur] = RemoveAt(@, QueuedPiece(cur, r))]
      BY <1>5 DEF MsgCancel, RemoveQueuedPiece, queueVars
    <2>3. QueuedPiece(cur, r) # 0 => QueuedPiece(cur, r) \in 1 .. Len(writeBuffer[cur])
      BY <2>1, QueuedPieceFacts
    <2>4. \/ writeBuffer'[c] = writeBuffer[c]
          \/ \E k \in 1 .. Len(writeBuffer[c]) : writeBuffer'[c] = RemoveAt(writeBuffer[c], k)
      <3>1. CASE c = cur /\ QueuedPiece(cur, r) # 0
                /\ writeBuffer' = [writeBuffer EXCEPT ![cur] = RemoveAt(@, QueuedPiece(cur, r))]
        <4>1. writeBuffer'[c] = RemoveAt(writeBuffer[c], QueuedPiece(c, r))
          BY <2>1, <3>1 DEF TypeOK
        <4>. QED
          BY <2>3, <3>1, <4>1
      <3>2. CASE c # cur
        BY <2>1, <2>2, <3>2 DEF TypeOK
      <3>. QED
        BY <2>2, <3>1, <3>2
    <2>5. Range(writeBuffer'[c]) \subseteq Range(writeBuffer[c])
      BY <1>s, <2>1, <2>4, RangeFacts
    <2>. QED
      BY <1>b, <1>t, <2>1, <2>5
  <1>6. ASSUME NEW d \in Ids, DropPeer(d) PROVE Range(writeBuffer'[c]) \subseteq {Plain("handshake")}
    <2>1. events' = events /\ c \in conns /\ c # d /\ writeBuffer'[c] = writeBuffer[c]
      BY <1>6, <1>s DEF DropPeer, Forget, EmptyQueues
    <2>. QED
      BY <1>b, <1>t, <2>1
  <1>7. ASSUME NEW C \in SUBSET Ids, EndDrop(C)
        PROVE  Range(writeBuffer'[c]) \subseteq {Plain("handshake")}
    <2>1. events' = events /\ conns' = conns /\ phase = "drop" /\ C \subseteq conns \ fresh
      BY <1>7 DEF EndDrop, Quiet
    <2>2. Joining(c)
      BY <1>t, <2>1
    <2>3. c \in fresh
      BY <2>1, <2>2 DEF Joining, JoinedEvent, BatchInOrder
    <2>4. writeBuffer'[c] = writeBuffer[c]
      BY <1>7, <1>s, <2>1, <2>3 DEF EndDrop, Enqueue
    <2>. QED
      BY <1>b, <2>1, <2>2, <2>4
  <1>8. ASSUME NEW type, Dispatch(type), conns' \subseteq conns
        PROVE  /\ type = "Joined" /\ Joining(c) /\ c \in conns /\ c # Head(events).peer
    <2>1. events # <<>> /\ Head(events).type = type /\ events' = Tail(events)
      BY <1>8 DEF Dispatch
    <2>2. /\ Head(events) = events[1] /\ Len(events) \in Nat \ {0} /\ Len(events') = Len(events) - 1
          /\ \A j \in 1 .. (Len(events) - 1) : events'[j] = events[j + 1]
      BY <1>s, <2>1, HeadFirst
    <2>3. PICK i \in 1 .. (Len(events) - 1) : events'[i] = JoinedEvent(c)
      BY <2>2 DEF Joining
    <2>4. /\ i + 1 \in 1 .. Len(events) /\ 1 \in 1 .. Len(events) /\ 1 < i + 1
          /\ events[i + 1] = JoinedEvent(c)
      BY <2>2, <2>3
    <2>5. events[i + 1].type = "Joined" /\ events[i + 1].peer = c
      BY <2>4 DEF JoinedEvent
    <2>6. events[1].type = "Joined" /\ events[1].peer # c
      BY <2>4, <2>5 DEF BatchInOrder
    <2>. QED
      BY <1>8, <2>1, <2>2, <2>4, <2>6 DEF Joining
  <1>9. CASE DispatchJoined
    <2>1. Dispatch("Joined") /\ conns' = conns
      BY <1>9 DEF DispatchJoined
    <2>2. Joining(c) /\ c \in conns /\ c # Head(events).peer
      BY <1>8, <2>1
    <2>3. writeBuffer'[c] = writeBuffer[c]
      BY <1>9, <1>s, <2>2 DEF DispatchJoined, Enqueue
    <2>. QED
      BY <1>b, <2>2, <2>3
  <1>10. CASE OnRequest
    BY <1>8, <1>10 DEF OnRequest
  <1>11. ASSUME NEW verified \in BOOLEAN, NEW banned \in SUBSET Ids, OnPiece(verified, banned)
         PROVE  FALSE
    BY <1>8, <1>11 DEF OnPiece, Forget
  <1>12. ASSUME NEW d \in Ids, SendRequest(d) PROVE FALSE
    <2>1. phase = "fill" /\ events' = events
      BY <1>12 DEF SendRequest
    <2>2. Joining(c)
      BY <1>t, <2>1
    <2>. QED
      BY <2>1, <2>2 DEF Joining, BatchInOrder
  <1>. QED
    BY <1>1, <1>2, <1>3, <1>4, <1>5, <1>6, <1>7, <1>9, <1>10, <1>11, <1>12 DEF Next

----------------------------------------------------------------------------
(* Only what is wanted is served *)

\* The answer to r is the message a peer has begun to get.
Begun(c, r) == IF begun[c] = PieceMsg(r) THEN 1 ELSE 0

\* OnlyWantedServed, with the answers counted whole and the one begun taken off.
Covered(c, r) ==
    IF c \in conns
    THEN Occurrences(events, RequestEvent(c, r)) + Occurrences(writeBuffer[c], PieceMsg(r))
             <= owed[c][r] + Begun(c, r)
    ELSE owed[c][r] = 0

\* The answer that has been begun is one of those queued.
LEMMA BegunIsQueued ==
    ASSUME TypeOK, NEW c \in Ids, NEW r \in Requests, InSync(c)
    PROVE  /\ Begun(c, r) <= Occurrences(writeBuffer[c], PieceMsg(r))
           /\ Begun(c, r) \in {0, 1} /\ Occurrences(writeBuffer[c], PieceMsg(r)) \in Nat
           /\ Cardinality({i \in 1 .. Len(writeBuffer[c]) : /\ writeBuffer[c][i] = PieceMsg(r)
                                                            /\ i = 1 => begun[c] = NoMsg})
                  = Occurrences(writeBuffer[c], PieceMsg(r)) - Begun(c, r)
  <1> DEFINE b == writeBuffer[c]
             m == PieceMsg(r)
             I == {i \in 1 .. Len(b) : b[i] = m}
             J == {i \in 1 .. Len(b) : b[i] = m /\ (i = 1 => begun[c] = NoMsg)}
  <1>1. b \in Seq(Message) /\ Len(b) \in Nat
    BY DEF TypeOK
  <1>2. IsFiniteSet(I) /\ Cardinality(I) \in Nat
    <2>1. IsFiniteSet(1 .. Len(b))
      BY <1>1, FS_Interval
    <2>2. IsFiniteSet(I)
      BY <2>1, FS_Subset
    <2>. QED
      BY <2>2, FS_CardinalityType
  <1>3. Occurrences(b, m) = Cardinality(I)
    BY DEF Occurrences
  <1>4. m # NoMsg
    BY MessageFacts
  <1>5. CASE begun[c] = m
    <2>1. b # <<>> /\ Head(b) = m /\ begun[c] # NoMsg
      BY <1>4, <1>5 DEF InSync
    <2>2. 1 \in 1 .. Len(b) /\ b[1] = m
      BY <1>1, <2>1, HeadFirst
    <2> HIDE DEF m, b
    <2>3. 1 \in I
      BY <2>2
    <2>4. J = I \ {1}
      BY <2>1
    <2>5. Cardinality(I \ {1}) = Cardinality(I) - 1 /\ Cardinality(I \ {1}) \in Nat
      <3>1. /\ IsFiniteSet(I \ {1})
            /\ Cardinality(I \ {1}) = IF 1 \in I THEN Cardinality(I) - 1 ELSE Cardinality(I)
        BY <1>2, FS_RemoveElement
      <3>. QED
        BY <2>3, <3>1, FS_CardinalityType
    <2>6. Begun(c, r) = 1
      BY <1>5 DEF Begun, m
    <2>7. Cardinality(J) = Cardinality(I) - 1
      BY <2>4, <2>5
    <2>8. 1 <= Cardinality(I)
      BY <1>2, <2>5
    <2> HIDE DEF I, J
    <2>9. /\ Begun(c, r) <= Occurrences(b, m) /\ Begun(c, r) \in {0, 1} /\ Occurrences(b, m) \in Nat
          /\ Cardinality(J) = Occurrences(b, m) - Begun(c, r)
      BY <1>2, <1>3, <2>6, <2>7, <2>8
    <2>. QED
      BY <2>9 DEF m, b, J
  <1>6. CASE begun[c] # m
    <2>1. b # <<>> /\ b[1] = m => begun[c] = NoMsg
      <3>1. b # <<>> => Head(b) = b[1]
        BY <1>1, HeadFirst
      <3>. QED
        BY <1>6, <3>1 DEF InSync
    <2>2. J = I
      <3>1. \A i \in 1 .. Len(b) : b # <<>>
        BY <1>1
      <3> HIDE DEF m, b
      <3>. QED
        BY <2>1, <3>1
    <2>3. Begun(c, r) = 0
      BY <1>6 DEF Begun
    <2> HIDE DEF m, b
    <2>4. Cardinality(J) = Cardinality(I)
      BY <2>2
    <2> HIDE DEF I, J
    <2>5. /\ Begun(c, r) <= Occurrences(b, m) /\ Begun(c, r) \in {0, 1} /\ Occurrences(b, m) \in Nat
          /\ Cardinality(J) = Occurrences(b, m) - Begun(c, r)
      BY <1>2, <1>3, <2>3, <2>4
    <2>. QED
      BY <2>5 DEF m, b, J
  <1>. QED
    BY <1>5, <1>6

\* A step that leaves the requests and the answers of one connection as they are.
LEMMA CoveredSame ==
    ASSUME TypeOK, NEW c \in Ids, NEW r \in Requests, Covered(c, r),
           c \in conns' => c \in conns,
           c \in conns' => \/ Kept(c)
                           \/ \E ms \in Seq(Other) : Grown(c, ms),
           Occurrences(events', RequestEvent(c, r)) \in Nat,
           Occurrences(events, RequestEvent(c, r)) \in Nat,
           Occurrences(events', RequestEvent(c, r)) <= Occurrences(events, RequestEvent(c, r)),
           c \in conns' \/ c \notin conns => owed'[c][r] = owed[c][r],
           c \in conns /\ c \notin conns' => owed'[c][r] = 0
    PROVE  Covered(c, r)'
  <1> DEFINE m == PieceMsg(r)
             n == Occurrences(writeBuffer[c], m)
  <1>1. writeBuffer[c] \in Seq(Message)
    BY DEF TypeOK
  <1>2. n \in Nat
    BY <1>1, OccurrencesFacts
  <1>3. c \in conns' => Occurrences(writeBuffer'[c], m) = n /\ begun'[c] = begun[c]
    <2>1. ASSUME NEW ms \in Seq(Other), Grown(c, ms)
          PROVE  Occurrences(writeBuffer'[c], m) = n /\ begun'[c] = begun[c]
      <3>1. ms \in Seq(Message) /\ Occurrences(ms, m) = 0
        BY OtherFacts
      <3>2. Occurrences(writeBuffer[c] \o ms, m) = n + Occurrences(ms, m)
        <4> DEFINE b == writeBuffer[c]
        <4>1. b \in Seq(Message)
          BY <1>1
        <4> HIDE DEF b, m
        <4>2. \A t \in Seq(Message) : Occurrences(b \o t, m) = Occurrences(b, m) + Occurrences(t, m)
          BY <4>1, OccurrencesFacts
        <4>. QED
          BY <3>1, <4>2 DEF b
      <3>. QED
        BY <1>2, <2>1, <3>1, <3>2 DEF Grown
    <2>. QED
      BY <2>1 DEF Kept
  <1>4. owed[c][r] \in Int
    BY DEF TypeOK
  <1>5. CASE c \in conns'
    <2>1. Occurrences(events, RequestEvent(c, r)) + n <= owed[c][r] + Begun(c, r)
      BY <1>5 DEF Covered
    <2>2. owed'[c][r] = owed[c][r] /\ Begun(c, r)' = Begun(c, r) /\ Begun(c, r) \in Int
      BY <1>3, <1>5 DEF Begun, PieceMsg
    <2>3. Occurrences(events', RequestEvent(c, r)) + n <= owed'[c][r] + Begun(c, r)'
      BY <1>2, <1>4, <2>1, <2>2
    <2>. QED
      BY <1>3, <1>5, <2>3 DEF Covered, PieceMsg, RequestEvent
  <1>6. CASE c \notin conns'
    BY <1>6 DEF Covered
  <1>. QED
    BY <1>5, <1>6

\* The requests of a batch, counted, when it grows or shrinks.
LEMMA BatchCounts ==
    ASSUME TypeOK, NEW c \in Ids, NEW r \in Requests
    PROVE  LET e == RequestEvent(c, r)
               n == Occurrences(events, e)
           IN  /\ n \in Nat
               /\ \A f \in Event : events' = Append(events, f)
                      => Occurrences(events', e) = n + (IF f = e THEN 1 ELSE 0)
               /\ \A i \in 1 .. Len(events) : events' = RemoveAt(events, i)
                      => /\ Occurrences(events', e) \in Nat
                         /\ n = Occurrences(events', e) + (IF events[i] = e THEN 1 ELSE 0)
               /\ events # <<>> /\ events' = Tail(events)
                      => /\ Occurrences(events', e) \in Nat
                         /\ n = Occurrences(events', e) + (IF Head(events) = e THEN 1 ELSE 0)
  <1> DEFINE e == RequestEvent(c, r)
             n == Occurrences(events, e)
  <1>1. events \in Seq(Event)
    BY DEF TypeOK
  <1> HIDE DEF e
  <1>2. n \in Nat
    BY <1>1, OccurrencesFacts
  <1>3. ASSUME NEW f \in Event, events' = Append(events, f)
        PROVE  Occurrences(events', e) = n + (IF f = e THEN 1 ELSE 0)
    <2>1. events' = events \o <<f>>
      BY <1>1, <1>3, AppendIsConcat
    <2>2. \A t \in Seq(Event) : Occurrences(events \o t, e) = n + Occurrences(t, e)
      BY <1>1, OccurrencesFacts
    <2>3. <<f>> \in Seq(Event)
      OBVIOUS
    <2>4. Occurrences(<<f>>, e) = IF f = e THEN 1 ELSE 0
      <3>1. \A y \in Event : Occurrences(<<y>>, e) = IF y = e THEN 1 ELSE 0
        BY <1>1, OccurrencesFacts
      <3>. QED
        BY <3>1
    <2> DEFINE t == <<f>>
    <2> HIDE DEF t
    <2>5. Occurrences(events \o t, e) = n + Occurrences(t, e)
      BY <2>2, <2>3 DEF t
    <2>. QED
      BY <2>1, <2>4, <2>5 DEF t
  <1>4. ASSUME NEW i \in 1 .. Len(events), events' = RemoveAt(events, i)
        PROVE  /\ Occurrences(events', e) \in Nat
               /\ n = Occurrences(events', e) + (IF events[i] = e THEN 1 ELSE 0)
    <2>1. events' \in Seq(Event)
      BY <1>1, <1>4, Removed
    <2>2. Occurrences(events', e) \in Nat
      BY <2>1, OccurrencesFacts
    <2>. QED
      BY <1>1, <1>4, <2>2, OccurrencesFacts
  <1>5. ASSUME events # <<>>, events' = Tail(events)
        PROVE  /\ Occurrences(events', e) \in Nat
               /\ n = Occurrences(events', e) + (IF Head(events) = e THEN 1 ELSE 0)
    <2>1. events' \in Seq(Event)
      BY <1>1, <1>5, HeadFirst
    <2>2. Occurrences(events', e) \in Nat
      BY <2>1, OccurrencesFacts
    <2>. QED
      BY <1>1, <1>5, <2>2, OccurrencesFacts
  <1>. QED
    BY <1>2, <1>3, <1>4, <1>5 DEF e

\* The answers of a queue, counted, when it grows or shrinks.
LEMMA QueueCounts ==
    ASSUME TypeOK, NEW c \in Ids, NEW r \in Requests
    PROVE  LET b == writeBuffer[c]
               m == PieceMsg(r)
               n == Occurrences(b, m)
           IN  /\ n \in Nat
               /\ \A q \in Requests :
                      Occurrences(b \o <<PieceMsg(q)>>, m) = n + (IF q = r THEN 1 ELSE 0)
               /\ \A q \in Requests : QueuedPiece(c, q) # 0
                      => /\ Occurrences(RemoveAt(b, QueuedPiece(c, q)), m) \in Nat
                         /\ n = Occurrences(RemoveAt(b, QueuedPiece(c, q)), m)
                                    + (IF q = r THEN 1 ELSE 0)
               /\ b # <<>> => /\ Occurrences(Tail(b), m) \in Nat
                              /\ n = Occurrences(Tail(b), m) + (IF Head(b) = m THEN 1 ELSE 0)
  <1> DEFINE b == writeBuffer[c]
             m == PieceMsg(r)
             n == Occurrences(b, m)
  <1>1. b \in Seq(Message)
    BY DEF TypeOK
  <1>2. \A q \in Requests : /\ PieceMsg(q) = m <=> q = r
                            /\ PieceMsg(q) \in Message
    BY MessageFacts DEF PieceMsg
  <1>3. ASSUME NEW q \in Requests, QueuedPiece(c, q) # 0
        PROVE  QueuedPiece(c, q) \in 1 .. Len(b) /\ b[QueuedPiece(c, q)] = PieceMsg(q)
    BY <1>3, QueuedPieceFacts
  <1> HIDE DEF b, m
  <1>4. n \in Nat
    BY <1>1, OccurrencesFacts
  <1>5. ASSUME NEW q \in Requests
        PROVE  Occurrences(b \o <<PieceMsg(q)>>, m) = n + (IF q = r THEN 1 ELSE 0)
    <2> DEFINE t == <<PieceMsg(q)>>
    <2>1. t \in Seq(Message)
      BY <1>2
    <2>2. Occurrences(t, m) = IF PieceMsg(q) = m THEN 1 ELSE 0
      <3>1. \A y \in Message : Occurrences(<<y>>, m) = IF y = m THEN 1 ELSE 0
        BY <1>1, OccurrencesFacts
      <3>. QED
        BY <1>2, <3>1
    <2> HIDE DEF t
    <2>3. Occurrences(b \o t, m) = n + Occurrences(t, m)
      BY <1>1, <2>1, OccurrencesFacts
    <2>. QED
      BY <1>2, <2>2, <2>3 DEF t
  <1>6. ASSUME NEW q \in Requests, QueuedPiece(c, q) # 0
        PROVE  /\ Occurrences(RemoveAt(b, QueuedPiece(c, q)), m) \in Nat
               /\ n = Occurrences(RemoveAt(b, QueuedPiece(c, q)), m) + (IF q = r THEN 1 ELSE 0)
    <2> DEFINE i == QueuedPiece(c, q)
               t == RemoveAt(b, i)
    <2>1. i \in 1 .. Len(b) /\ (b[i] = m <=> q = r)
      BY <1>2, <1>3, <1>6
    <2> HIDE DEF i
    <2>2. t \in Seq(Message)
      BY <1>1, <2>1, Removed
    <2>3. n = Occurrences(t, m) + (IF b[i] = m THEN 1 ELSE 0)
      BY <1>1, <2>1, OccurrencesFacts
    <2>4. Occurrences(t, m) \in Nat
      BY <2>2, OccurrencesFacts
    <2>. QED
      BY <2>1, <2>3, <2>4 DEF i
  <1>7. ASSUME b # <<>>
        PROVE  /\ Occurrences(Tail(b), m) \in Nat
               /\ n = Occurrences(Tail(b), m) + (IF Head(b) = m THEN 1 ELSE 0)
    <2>1. Tail(b) \in Seq(Message)
      BY <1>1, <1>7, HeadFirst
    <2>2. Occurrences(Tail(b), m) \in Nat
      BY <2>1, OccurrencesFacts
    <2>. QED
      BY <1>1, <1>7, <2>2, OccurrencesFacts
  <1>. QED
    BY <1>4, <1>5, <1>6, <1>7 DEF b, m

\* The first bytes of an answer settle its request, the last take it off the queue.
LEMMA SendCovered ==
    ASSUME TypeOK, TypeOK', NEW c \in Ids, NEW r \in Requests, InSync(c), c \in conns, conns' = conns,
           events' = events, writeBuffer[c] # <<>>, Covered(c, r),
           owed' = Answered(c, Head(writeBuffer[c])),
           Sent(c) \/ SentInPart(c)
    PROVE  Covered(c, r)'
  <1> DEFINE front == Head(writeBuffer[c])
             m == PieceMsg(r)
             f == IF front = m THEN 1 ELSE 0
             E == Occurrences(events, RequestEvent(c, r))
             Q == Occurrences(writeBuffer[c], m)
  <1>1. front \in Message
    BY HeadFirst DEF TypeOK
  <1>2. front # NoMsg /\ (front.kind = "piece" => front.req \in Requests /\ front = PieceMsg(front.req))
    BY <1>1, MessageFacts
  <1>3. E \in Nat /\ Q \in Nat /\ owed[c][r] \in Int /\ f \in {0, 1} /\ Begun(c, r) \in {0, 1}
    BY BatchCounts, QueueCounts DEF TypeOK, Begun
  <1>4. E + Q <= owed[c][r] + Begun(c, r)
    BY DEF Covered
  <1>5. owed'[c][r] + f = owed[c][r] + Begun(c, r)
    <2>1. CASE cursor[c] = 0
      <3>1. Begun(c, r) = 0
        <4>1. begun[c] = NoMsg
          BY <2>1 DEF InSync
        <4>2. NoMsg # PieceMsg(r)
          BY MessageFacts
        <4>. QED
          BY <4>1, <4>2 DEF Begun
      <3>2. owed' = IF front.kind = "piece" THEN [owed EXCEPT ![c][front.req] = @ - 1] ELSE owed
        BY <2>1 DEF Answered
      <3>3. front = m <=> front.kind = "piece" /\ front.req = r
        BY <1>2 DEF PieceMsg
      <3>4. owed'[c][r] = IF front = m THEN owed[c][r] - 1 ELSE owed[c][r]
        BY <1>2, <3>2, <3>3 DEF TypeOK
      <3>. QED
        BY <1>3, <3>1, <3>4
    <2>2. CASE cursor[c] # 0
      <3>1. begun[c] = front
        BY <2>2 DEF InSync
      <3>2. owed' = owed
        BY <2>2 DEF Answered
      <3>. QED
        BY <3>1, <3>2 DEF Begun
    <2>. QED
      BY <2>1, <2>2
  <1>6. owed'[c][r] \in Int
    BY DEF TypeOK
  <1>7. CASE Sent(c)
    <2>1. writeBuffer'[c] = Tail(writeBuffer[c]) /\ begun'[c] = NoMsg
      BY <1>7 DEF Sent
    <2>2. Occurrences(Tail(writeBuffer[c]), m) \in Nat /\ Q = Occurrences(Tail(writeBuffer[c]), m) + f
      BY QueueCounts
    <2>3. Begun(c, r)' = 0
      <3>1. NoMsg # PieceMsg(r)
        BY MessageFacts
      <3>. QED
        BY <2>1, <3>1 DEF Begun
    <2> HIDE DEF E, Q, f
    <2>4. E + Occurrences(Tail(writeBuffer[c]), m) <= owed'[c][r] + Begun(c, r)'
      BY <1>3, <1>4, <1>5, <1>6, <2>2, <2>3
    <2>. QED
      BY <2>1, <2>4 DEF Covered, E
  <1>8. CASE SentInPart(c)
    <2>1. /\ writeBuffer'[c] = writeBuffer[c]
          /\ begun'[c] = IF cursor[c] = 0 THEN front ELSE begun[c]
      BY <1>8 DEF SentInPart
    <2>2. begun'[c] = front
      BY <2>1 DEF InSync
    <2>3. Begun(c, r)' = f
      BY <2>2 DEF Begun
    <2> HIDE DEF E, Q, f
    <2>4. E + Q <= owed'[c][r] + Begun(c, r)'
      BY <1>3, <1>4, <1>5, <1>6, <2>3
    <2>. QED
      BY <2>1, <2>4 DEF Covered, E, Q
  <1>. QED
    BY <1>7, <1>8

\* A cancel takes back one request of the batch or one queued answer, or finds that
\* the only answer left has been begun.
LEMMA CancelCovered ==
    ASSUME TypeOK, TypeOK', NEW c \in Ids, NEW r \in Requests, InSync(c), Covered(c, r),
           NEW q \in Requests, MsgCancel(q)
    PROVE  Covered(c, r)'
  <1> DEFINE E == Occurrences(events, RequestEvent(c, r))
             Q == Occurrences(writeBuffer[c], PieceMsg(r))
             f == IF c = cur /\ q = r THEN 1 ELSE 0
  <1>1. cur \in conns /\ cur \in Ids /\ conns' = conns /\ begun' = begun
    BY DEF MsgCancel, HandleMessage, TypeOK
  <1>2. owed' = [owed EXCEPT ![cur][q] = IF @ > 0 THEN @ - 1 ELSE 0]
    BY DEF MsgCancel
  <1>3. owed[c][r] \in Int /\ owed'[c][r] \in Int
    BY DEF TypeOK
  <1>4. /\ f = 0 => owed'[c][r] = owed[c][r]
        /\ f = 1 => owed'[c][r] = IF owed[c][r] > 0 THEN owed[c][r] - 1 ELSE 0
    <2>1. owed \in [Ids -> [Requests -> Int]]
      BY DEF TypeOK
    <2>2. owed' = [owed EXCEPT ![cur] = [owed[cur] EXCEPT ![q] =
                                            IF owed[cur][q] > 0 THEN owed[cur][q] - 1 ELSE 0]]
      BY <1>1, <1>2, <2>1
    <2>3. c # cur => owed'[c] = owed[c]
      BY <1>1, <2>1, <2>2
    <2>4. c = cur => owed'[c] = [owed[c] EXCEPT ![q] = IF owed[c][q] > 0 THEN owed[c][q] - 1 ELSE 0]
      BY <1>1, <2>1, <2>2
    <2>5. owed[c] \in [Requests -> Int]
      BY <2>1
    <2>. QED
      BY <2>3, <2>4, <2>5
  <1>5. E \in Nat /\ Q \in Nat /\ Begun(c, r) \in {0, 1} /\ Begun(c, r)' = Begun(c, r)
    BY <1>1, BatchCounts, QueueCounts DEF Begun
  <1>6. CASE c \notin conns
    <2>1. owed[c][r] = 0 /\ c # cur
      BY <1>1, <1>6 DEF Covered
    <2>. QED
      BY <1>1, <1>4, <1>6, <2>1 DEF Covered
  <1>7. CASE c \in conns
    <2>1. E + Q <= owed[c][r] + Begun(c, r)
      BY <1>7 DEF Covered
    <2> SUFFICES Occurrences(events', RequestEvent(c, r)) + Occurrences(writeBuffer'[c], PieceMsg(r))
                     <= owed'[c][r] + Begun(c, r)
      BY <1>1, <1>5, <1>7 DEF Covered
    <2>2. CASE BatchedRequest(q) # 0
      <3>1. /\ BatchedRequest(q) \in 1 .. Len(events)
            /\ events[BatchedRequest(q)] = RequestEvent(cur, q)
        BY <2>2, BatchedRequestFacts
      <3>2. events' = RemoveAt(events, BatchedRequest(q)) /\ writeBuffer' = writeBuffer
        BY <2>2 DEF MsgCancel, queueVars
      <3>3. RequestEvent(cur, q) = RequestEvent(c, r) <=> c = cur /\ q = r
        BY DEF RequestEvent
      <3>4. /\ Occurrences(events', RequestEvent(c, r)) \in Nat
            /\ E = Occurrences(events', RequestEvent(c, r)) + f
        BY <3>1, <3>2, <3>3, BatchCounts
      <3> HIDE DEF E, Q, f
      <3>5. f \in {0, 1}
        BY DEF f
      <3>6. Occurrences(events', RequestEvent(c, r)) + Q <= owed'[c][r] + Begun(c, r)
        BY <1>3, <1>4, <1>5, <2>1, <3>4, <3>5
      <3>. QED
        BY <3>2, <3>6 DEF Q
    <2>3. CASE BatchedRequest(q) = 0
      <3>1. RemoveQueuedPiece(cur, q) /\ events' = events
        BY <2>3 DEF MsgCancel
      <3>2. CASE QueuedPiece(cur, q) # 0
        <4>1. writeBuffer' = [writeBuffer EXCEPT ![cur] = RemoveAt(@, QueuedPiece(cur, q))]
          BY <3>1, <3>2 DEF RemoveQueuedPiece
        <4>2. /\ Occurrences(writeBuffer'[c], PieceMsg(r)) \in Nat
              /\ Q = Occurrences(writeBuffer'[c], PieceMsg(r)) + f
          <5>1. CASE c = cur
            <6>1. writeBuffer'[c] = RemoveAt(writeBuffer[c], QueuedPiece(c, q))
              BY <4>1, <5>1 DEF TypeOK
            <6>. QED
              BY <3>2, <5>1, <6>1, QueueCounts
          <5>2. CASE c # cur
            <6>1. writeBuffer'[c] = writeBuffer[c]
              BY <4>1, <5>2 DEF TypeOK
            <6>. QED
              BY <1>5, <5>2, <6>1
          <5>. QED
            BY <5>1, <5>2
        <4> HIDE DEF E, Q, f
        <4>3. f \in {0, 1}
          BY DEF f
        <4>4. E + Occurrences(writeBuffer'[c], PieceMsg(r)) <= owed'[c][r] + Begun(c, r)
          BY <1>3, <1>4, <1>5, <2>1, <4>2, <4>3
        <4>. QED
          BY <3>1, <4>4 DEF E
      <3>3. CASE QueuedPiece(cur, q) = 0
        <4>1. writeBuffer' = writeBuffer
          BY <3>1, <3>3 DEF RemoveQueuedPiece
        <4>2. CASE f = 0
          BY <1>4, <2>1, <3>1, <4>1, <4>2
        <4>3. CASE f = 1
          <5>1. c = cur /\ q = r
            BY <4>3
          <5>2. E = 0
            <6>1. \A i \in 1 .. Len(events) : events[i] # RequestEvent(c, r)
              BY <2>3, <5>1, BatchedRequestFacts
            <6>2. events \in Seq(Event)
              BY DEF TypeOK
            <6>. QED
              BY <6>1, <6>2, OccurrencesFacts
          <5>3. Q = Begun(c, r)
            <6> DEFINE J == {i \in 1 .. Len(writeBuffer[c]) : /\ writeBuffer[c][i] = PieceMsg(r)
                                                              /\ i = 1 => begun[c] = NoMsg}
            <6>1. Cardinality(J) = Q - Begun(c, r)
              BY BegunIsQueued
            <6>2. \A i \in 1 .. Len(writeBuffer[c]) :
                      writeBuffer[c][i] = PieceMsg(r) => i = 1 /\ cursor[c] > 0
              BY <3>3, <5>1, QueuedPieceFacts
            <6>3. cursor[c] > 0 => begun[c] # NoMsg
              BY DEF InSync
            <6>4. J = {}
              BY <6>2, <6>3
            <6>5. Cardinality(J) = 0
              BY <6>4, FS_EmptySet
            <6>. QED
              BY <1>5, <6>1, <6>5
          <5>4. owed'[c][r] >= 0
            BY <1>3, <1>4, <4>3
          <5> HIDE DEF E, Q, f
          <5>5. E + Q <= owed'[c][r] + Begun(c, r)
            BY <1>3, <1>5, <5>2, <5>3, <5>4
          <5>. QED
            BY <3>1, <4>1, <5>5 DEF E, Q
        <4>. QED
          BY <4>2, <4>3
      <3>. QED
        BY <3>2, <3>3
    <2>. QED
      BY <2>2, <2>3
  <1>. QED
    BY <1>6, <1>7

\* A request of the batch becomes at most one answer in the queue.
LEMMA RequestCovered ==
    ASSUME TypeOK, NEW c \in Ids, NEW r \in Requests, Covered(c, r), OnRequest
    PROVE  Covered(c, r)'
  <1> DEFINE e == Head(events)
             E == Occurrences(events, RequestEvent(c, r))
             Q == Occurrences(writeBuffer[c], PieceMsg(r))
             f == IF c = e.peer /\ r = e.req THEN 1 ELSE 0
  <1>1. /\ conns' = conns /\ begun' = begun /\ owed' = owed /\ events # <<>> /\ events' = Tail(events)
        /\ e.type = "Request"
    BY DEF OnRequest, Dispatch, peerView
  <1>2. e.peer \in Ids /\ e.req \in Requests /\ e = RequestEvent(e.peer, e.req)
    <2>1. e \in Event
      BY <1>1, HeadFirst DEF TypeOK
    <2>. QED
      BY <1>1, <2>1, EventFacts
  <1>3. E \in Nat /\ Q \in Nat /\ owed[c][r] \in Int /\ Begun(c, r) \in {0, 1}
        /\ Begun(c, r)' = Begun(c, r)
    BY <1>1, BatchCounts, QueueCounts DEF TypeOK, Begun
  <1>4. /\ Occurrences(events', RequestEvent(c, r)) \in Nat
        /\ E = Occurrences(events', RequestEvent(c, r)) + f
    <2>1. e = RequestEvent(c, r) <=> c = e.peer /\ r = e.req
      BY <1>2 DEF RequestEvent
    <2>. QED
      BY <1>1, <2>1, BatchCounts
  <1>5. \/ Occurrences(writeBuffer'[c], PieceMsg(r)) = Q
        \/ Occurrences(writeBuffer'[c], PieceMsg(r)) = Q + f
    <2>1. CASE Enqueue({e.peer}, <<PieceMsg(e.req)>>)
      <3>1. writeBuffer'[c] = IF c = e.peer THEN writeBuffer[c] \o <<PieceMsg(e.req)>>
                                            ELSE writeBuffer[c]
        BY <2>1 DEF Enqueue
      <3>2. Occurrences(writeBuffer[c] \o <<PieceMsg(e.req)>>, PieceMsg(r))
                = Q + IF e.req = r THEN 1 ELSE 0
        BY <1>2, QueueCounts
      <3>. QED
        BY <3>1, <3>2
    <2>2. CASE UNCHANGED queueVars
      BY <2>2 DEF queueVars
    <2>. QED
      BY <2>1, <2>2 DEF OnRequest
  <1>6. CASE c \in conns
    <2>1. E + Q <= owed[c][r] + Begun(c, r)
      BY <1>6 DEF Covered
    <2>2. f \in {0, 1}
      OBVIOUS
    <2> HIDE DEF E, Q, f
    <2>3. Occurrences(events', RequestEvent(c, r)) + Occurrences(writeBuffer'[c], PieceMsg(r))
              <= owed[c][r] + Begun(c, r)
      BY <1>3, <1>4, <1>5, <2>1, <2>2
    <2>. QED
      BY <1>1, <1>3, <1>6, <2>3 DEF Covered
  <1>7. CASE c \notin conns
    BY <1>1, <1>7 DEF Covered
  <1>. QED
    BY <1>6, <1>7

\* No step leaves a connection more answers to come than its peer waits for.
LEMMA CoveredStep ==
    ASSUME TypeOK, NothingLeft, BatchInOrder, [Next]_vars,
           NEW c \in Ids, NEW r \in Requests, InSync(c), Covered(c, r)
    PROVE  Covered(c, r)'
  <1> DEFINE x == RequestEvent(c, r)
             E == Occurrences(events, x)
  <1>t. TypeOK'
    BY TypeStep
  <1>e. E \in Nat /\ Occurrences(events', x) \in Nat
    <2>1. events \in Seq(Event) /\ events' \in Seq(Event)
      BY <1>t DEF TypeOK
    <2>2. \A s \in Seq(Event) : Occurrences(s, x) \in Nat
      BY OccurrencesFacts
    <2>. QED
      BY <2>1, <2>2
  <1> HIDE DEF E
  <1>s. ASSUME c \in conns' => c \in conns,
               c \in conns' => \/ Kept(c)
                               \/ \E ms \in Seq(Other) : Grown(c, ms),
               Occurrences(events', x) <= E,
               c \in conns' \/ c \notin conns => owed'[c][r] = owed[c][r],
               c \in conns /\ c \notin conns' => owed'[c][r] = 0
        PROVE  Covered(c, r)'
    BY <1>e, <1>s, CoveredSame DEF E
  <1>q. ASSUME NEW C, NEW ms \in Seq(Other), Enqueue(C, ms), UNCHANGED <<conns, peerView>>,
               Occurrences(events', x) <= E
        PROVE  Covered(c, r)'
    <2>1. Kept(c) \/ Grown(c, ms)
      BY <1>q, EnqueueFacts DEF peerView
    <2>. QED
      BY <1>q, <1>s, <2>1 DEF peerView
  <1>u. events' = events => Occurrences(events', x) <= E
    BY <1>e DEF E
  <1>d. ASSUME NEW type, Dispatch(type) PROVE Occurrences(events', x) <= E
    <2>1. events # <<>> /\ events' = Tail(events)
      BY <1>d DEF Dispatch
    <2>2. E = Occurrences(events', x) + IF Head(events) = x THEN 1 ELSE 0
      BY <2>1, BatchCounts DEF E
    <2>. QED
      BY <1>e, <2>2
  <1>a. ASSUME NEW f \in Event, events' = Append(events, f)
        PROVE  Occurrences(events', x) = E + IF f = x THEN 1 ELSE 0
    BY <1>a, BatchCounts DEF E
  <1>k. {"handshake", "keepalive", "have", "request"} \subseteq Kinds \ {"piece"}
    BY DEF Kinds
  <1>1. CASE \/ UNCHANGED vars \/ Poll \/ EndHandshakes \/ EndSockets \/ EndDispatch \/ EndLoop
             \/ ReadFails
             \/ \E d \in Ids : Visit(d) \/ SendFails(d)
    <2>1. events' = events /\ conns' = conns /\ UNCHANGED queueVars /\ UNCHANGED peerView
      BY <1>1 DEF vars, Poll, EndHandshakes, EndSockets, EndDispatch, EndLoop, ReadFails, Visit,
         SendFails
    <2>2. Kept(c) /\ owed' = owed
      BY <2>1 DEF queueVars, peerView, Kept
    <2>. QED
      BY <1>s, <1>u, <2>1, <2>2
  <1>2. ASSUME NEW inbound \in BOOLEAN, FinishHandshake(inbound) PROVE Covered(c, r)'
    <2> DEFINE ms == IF inbound THEN <<Plain("handshake")>> ELSE <<>>
    <2>1. /\ events' = Append(events, JoinedEvent(nextId)) /\ conns' = conns \cup {nextId}
          /\ Enqueue({nextId}, ms) /\ begun' = begun /\ owed' = owed
      BY <1>2 DEF FinishHandshake, peerView
    <2>2. nextId \in Ids /\ nextId \notin conns
      BY <1>2, WriteQueueAssumption DEF FinishHandshake, TypeOK, BatchInOrder, Ids
    <2>3. ms \in Seq(Other)
      BY <1>k, OthersQueued
    <2>4. JoinedEvent(nextId) # x /\ JoinedEvent(nextId) \in Event
      BY <2>2, EventFacts DEF JoinedEvent, RequestEvent
    <2>5. Occurrences(events', x) = E
      BY <1>a, <1>e, <2>1, <2>4
    <2>6. CASE c = nextId
      <3>1. /\ writeBuffer'[c] = writeBuffer[c] \o ms /\ writeBuffer[c] = <<>> /\ begun'[c] = NoMsg
            /\ owed'[c][r] = 0
        BY <2>1, <2>2, <2>6 DEF Enqueue, NothingLeft, Covered
      <3>2. writeBuffer'[c] = ms
        BY <2>3, <3>1
      <3>3. Occurrences(ms, PieceMsg(r)) = 0
        BY <2>3, OtherFacts
      <3>4. E = 0
        <4>1. \A i \in 1 .. Len(events) : events[i].peer < nextId
          BY DEF BatchInOrder
        <4>2. x.peer = nextId /\ ~(nextId < nextId)
          BY <2>2, <2>6 DEF RequestEvent, Ids
        <4>3. \A i \in 1 .. Len(events) : events[i] # x
          BY <4>1, <4>2
        <4>4. events \in Seq(Event)
          BY DEF TypeOK
        <4> HIDE DEF x
        <4>. QED
          BY <4>3, <4>4, OccurrencesFacts DEF E
      <3>5. Begun(c, r)' = 0
        BY <3>1, MessageFacts DEF Begun
      <3>. QED
        BY <2>1, <2>5, <2>6, <3>1, <3>2, <3>3, <3>4, <3>5 DEF Covered
    <2>7. CASE c # nextId
      <3>1. Kept(c)
        BY <2>1, <2>7, EnqueueFacts
      <3>. QED
        BY <1>e, <1>s, <2>1, <2>5, <2>7, <3>1
    <2>. QED
      BY <2>6, <2>7
  <1>3. ASSUME NEW d \in Ids, NEW n \in Chunk, SendSome(d, n) PROVE Covered(c, r)'
    <2>1. /\ conns' = conns /\ events' = events /\ writeBuffer[d] # <<>>
          /\ owed' = Answered(d, Head(writeBuffer[d]))
      BY <1>3 DEF SendSome
    <2>2. CASE c = d
      <3>1. c \in conns
        BY <2>1, <2>2 DEF NothingLeft
      <3>2. Sent(c) \/ SentInPart(c)
        BY <1>3, <2>2, SendSomeQueue
      <3>. QED
        BY <1>t, <2>1, <2>2, <3>1, <3>2, SendCovered
    <2>3. CASE c # d
      <3>1. Kept(c)
        BY <1>3, <2>3 DEF SendSome, Kept, TypeOK
      <3>2. owed'[c] = owed[c]
        BY <2>1, <2>3 DEF Answered, TypeOK
      <3>. QED
        BY <1>s, <1>u, <2>1, <3>1, <3>2
    <2>. QED
      BY <2>2, <2>3
  <1>4. ASSUME NEW q \in Requests, MsgRequest(q) PROVE Covered(c, r)'
    <2>1. conns' = conns /\ begun' = begun /\ UNCHANGED queueVars /\ cur \in Ids
      BY <1>4 DEF MsgRequest, HandleMessage, TypeOK
    <2>2. Kept(c)
      BY <2>1 DEF Kept, queueVars
    <2>3. CASE events' = events /\ owed' = owed
      BY <1>s, <1>u, <2>1, <2>2, <2>3
    <2>4. CASE events' = Append(events, RequestEvent(cur, q)) /\ owed' = [owed EXCEPT ![cur][q] = @ + 1]
      <3>1. RequestEvent(cur, q) = x <=> c = cur /\ q = r
        BY DEF RequestEvent
      <3>2. RequestEvent(cur, q) \in Event
        BY <2>1, EventFacts
      <3>3. Occurrences(events', x) = E + IF c = cur /\ q = r THEN 1 ELSE 0
        BY <1>a, <2>4, <3>1, <3>2
      <3>4. owed'[c][r] = owed[c][r] + IF c = cur /\ q = r THEN 1 ELSE 0
        BY <2>1, <2>4 DEF TypeOK
      <3>5. CASE c = cur /\ q = r
        <4>1. c \in conns /\ c \in conns'
          BY <1>4, <2>1, <3>5 DEF MsgRequest, HandleMessage
        <4>2. E + Occurrences(writeBuffer[c], PieceMsg(r)) <= owed[c][r] + Begun(c, r)
          BY <4>1 DEF Covered, E
        <4>3. /\ Begun(c, r) \in {0, 1} /\ Occurrences(writeBuffer[c], PieceMsg(r)) \in Nat
              /\ owed[c][r] \in Int
          BY QueueCounts DEF Begun, TypeOK
        <4>4. Occurrences(events', x) + Occurrences(writeBuffer[c], PieceMsg(r))
                  <= owed'[c][r] + Begun(c, r)
          BY <1>e, <3>3, <3>4, <3>5, <4>2, <4>3
        <4>5. writeBuffer'[c] = writeBuffer[c] /\ Begun(c, r)' = Begun(c, r)
          BY <2>2 DEF Kept, Begun
        <4>. QED
          BY <4>1, <4>4, <4>5 DEF Covered
      <3>6. CASE ~(c = cur /\ q = r)
        <4>1. owed'[c][r] = owed[c][r] /\ Occurrences(events', x) <= E
          <5>1. owed[c][r] \in Int
            BY DEF TypeOK
          <5>. QED
            BY <1>e, <3>3, <3>4, <3>6, <5>1
        <4>. QED
          BY <1>s, <2>1, <2>2, <4>1
      <3>. QED
        BY <3>5, <3>6
    <2>. QED
      BY <1>4, <2>3, <2>4 DEF MsgRequest
  <1>5. ASSUME NEW q \in Requests, MsgCancel(q) PROVE Covered(c, r)'
    BY <1>5, <1>t, CancelCovered
  <1>6. ASSUME NEW p \in Pieces, MsgPiece(p) PROVE Covered(c, r)'
    <2>1. /\ conns' = conns /\ begun' = begun /\ UNCHANGED queueVars /\ cur \in Ids /\ owed' = owed
          /\ events' = Append(events, PieceEvent(cur, p))
      BY <1>6 DEF MsgPiece, HandleMessage, TypeOK
    <2>2. Kept(c)
      BY <2>1 DEF Kept, queueVars
    <2>3. PieceEvent(cur, p) # x /\ PieceEvent(cur, p) \in Event
      BY <2>1, EventFacts DEF PieceEvent, RequestEvent
    <2>4. Occurrences(events', x) <= E
      BY <1>a, <1>e, <2>1, <2>3
    <2>. QED
      BY <1>s, <2>1, <2>2, <2>4
  <1>7. ASSUME NEW d \in Ids, DropPeer(d) PROVE Covered(c, r)'
    <2>1. events' = events /\ conns' = conns \ {d}
      BY <1>7 DEF DropPeer, Forget
    <2>2. CASE c = d
      <3>1. owed'[c][r] = 0
        BY <1>7, <2>2 DEF DropPeer, Forget
      <3>. QED
        BY <2>1, <2>2, <3>1 DEF Covered
    <2>3. CASE c # d
      <3>1. Kept(c) /\ owed'[c] = owed[c]
        BY <1>7, <2>3 DEF DropPeer, Forget, EmptyQueues, Kept
      <3>. QED
        BY <1>s, <1>u, <2>1, <2>3, <3>1
    <2>. QED
      BY <2>2, <2>3
  <1>8. ASSUME NEW C \in SUBSET Ids, EndDrop(C) PROVE Covered(c, r)'
    <2>1. <<Plain("keepalive")>> \in Seq(Other)
      BY <1>k, OthersQueued
    <2>. QED
      BY <1>8, <1>q, <1>u, <2>1 DEF EndDrop
  <1>9. CASE DispatchJoined
    <2>1. <<Plain("bitfield"), Plain("unchoke")>>
              \o (IF have = Pieces THEN <<>> ELSE <<Plain("interested")>>) \in Seq(Other)
      BY OthersQueued
    <2>2. Occurrences(events', x) <= E
      BY <1>9, <1>d DEF DispatchJoined
    <2>. QED
      BY <1>9, <1>q, <2>1, <2>2 DEF DispatchJoined
  <1>10. CASE OnRequest
    BY <1>10, RequestCovered
  <1>11. ASSUME NEW verified \in BOOLEAN, NEW banned \in SUBSET Ids, OnPiece(verified, banned)
         PROVE  Covered(c, r)'
    <2> DEFINE told == IF verified THEN <<Plain("have")>> ELSE <<>>
    <2>1. told \in Seq(Other)
      BY <1>k, OthersQueued
    <2>2. Occurrences(events', x) <= E /\ conns' = conns \ banned
      BY <1>11, <1>d DEF OnPiece, Forget
    <2>3. CASE c \in banned
      <3>1. owed'[c][r] = 0
        BY <1>11, <2>3 DEF OnPiece, Forget
      <3>. QED
        BY <2>2, <2>3, <3>1 DEF Covered
    <2>4. CASE c \notin banned
      <3>1. owed'[c] = owed[c] /\ (c \in conns => Grown(c, told))
        BY <1>11, <2>4 DEF OnPiece, Forget, Grown
      <3>. QED
        BY <1>s, <2>1, <2>2, <2>4, <3>1
    <2>. QED
      BY <2>3, <2>4
  <1>12. ASSUME NEW d \in Ids, SendRequest(d) PROVE Covered(c, r)'
    <2>1. <<Plain("request")>> \in Seq(Other)
      BY <1>k, OthersQueued
    <2>. QED
      BY <1>12, <1>q, <1>u, <2>1 DEF SendRequest
  <1>. QED
    BY <1>1, <1>2, <1>3, <1>4, <1>5, <1>6, <1>7, <1>8, <1>9, <1>10, <1>11, <1>12 DEF Next

----------------------------------------------------------------------------
(* The theorems *)

\* What every step keeps: the properties, for connections that are gone too, and
\* what they rest on.
ServeInv ==
    /\ TypeOK /\ NothingLeft /\ BatchInOrder
    /\ QueuedBytesAgree /\ BitfieldFirst
    /\ \A c \in Ids : InSync(c) /\ Limited(c)
    /\ \A c \in Ids, r \in Requests : Covered(c, r)

\* Before the first round there are no connections, messages or events.
LEMMA ServeInit == Init => ServeInv
  <1> SUFFICES ASSUME Init PROVE ServeInv
    OBVIOUS
  <1>1. TypeOK
    BY WriteQueueAssumption DEF Init, TypeOK, Ids
  <1>2. NothingLeft /\ BatchInOrder /\ BitfieldFirst
    BY DEF Init, NothingLeft, BatchInOrder, BitfieldFirst
  <1>3. ASSUME NEW c \in Ids
        PROVE  queuedBytes[c] = SizeOfAll(writeBuffer[c]) /\ InSync(c) /\ Limited(c)
    <2>1. writeBuffer[c] = <<>> /\ cursor[c] = 0 /\ queuedBytes[c] = 0 /\ begun[c] = NoMsg
      BY DEF Init
    <2>2. Total(MessageBytes, <<>>) = 0 /\ Total(AnswerBytes, <<>>) = 0
      BY <1>1, WeightFacts, QueueTotals
    <2>3. MaxQueuedBytes \in Nat /\ MessageSize["piece"] \in Nat /\ MessageSize["piece"] > 0
      BY WriteQueueAssumption, WeightFacts
    <2>. QED
      BY <2>1, <2>2, <2>3 DEF SizeOfAll, InSync, Limited
  <1>4. ASSUME NEW c \in Ids, NEW r \in Requests PROVE Covered(c, r)
    BY DEF Init, Covered
  <1>. QED
    BY <1>1, <1>2, <1>3, <1>4 DEF ServeInv, QueuedBytesAgree

\* ... and every step keeps it.
LEMMA ServeStep == ServeInv /\ [Next]_vars => ServeInv'
  <1> SUFFICES ASSUME ServeInv, [Next]_vars PROVE ServeInv'
    OBVIOUS
  <1>1. TypeOK /\ NothingLeft /\ BatchInOrder /\ QueuedBytesAgree /\ BitfieldFirst
    BY DEF ServeInv
  <1>2. TypeOK' /\ NothingLeft' /\ BatchInOrder' /\ QueuedBytesAgree' /\ BitfieldFirst'
    BY <1>1, TypeStep, NothingLeftStep, OrderStep, AgreeStep, BitfieldStep
  <1>3. ASSUME NEW c \in Ids PROVE InSync(c)' /\ Limited(c)'
    <2>1. InSync(c) /\ Limited(c)
      BY DEF ServeInv
    <2>. QED
      BY <1>1, <2>1, SyncStep, LimitStep
  <1>4. ASSUME NEW c \in Ids, NEW r \in Requests PROVE Covered(c, r)'
    <2>1. InSync(c) /\ Covered(c, r)
      BY DEF ServeInv
    <2>. QED
      BY <1>1, <2>1, CoveredStep
  <1>. QED
    BY <1>2, <1>3, <1>4 DEF ServeInv

\* The invariant of the write queues.
THEOREM ServeInvariant == Spec => []ServeInv
  BY ServeInit, ServeStep, PTL DEF Spec

\* queued_bytes is the size of what is queued, through every enqueue(), send() and
\* remove_queued_piece(): the limit it is compared with is a real one.
THEOREM CountsNeverDrift == Spec => []QueuedBytesAgree
  <1>1. ServeInv => QueuedBytesAgree
    BY DEF ServeInv
  <1>. QED
    BY <1>1, ServeInvariant, PTL

\* A message that has been begun is finished before another: a cancel never takes
\* it out of the queue.
THEOREM StreamsStayInSync == Spec => []StreamInSync
  <1>1. ServeInv => StreamInSync
    BY DEF ServeInv, StreamInSync, TypeOK
  <1>. QED
    BY <1>1, ServeInvariant, PTL

\* The answers queued for a peer stay within kMaxQueuedBytes and one message.
THEOREM ServesWithinLimit == Spec => []ServedWithinLimit
  <1>1. ServeInv => ServedWithinLimit
    BY DEF ServeInv, ServedWithinLimit, Limited, TypeOK
  <1>. QED
    BY <1>1, ServeInvariant, PTL

\* Nothing but our handshake goes out to a peer before our bitfield.
THEOREM BitfieldComesFirst == Spec => []BitfieldFirst
  <1>1. ServeInv => BitfieldFirst
    BY DEF ServeInv
  <1>. QED
    BY <1>1, ServeInvariant, PTL

\* A peer is never sent more answers than the requests it has made and not taken
\* back, wherever the cancel finds them: in the batch, in the queue or begun.
THEOREM ServesOnlyWanted == Spec => []OnlyWantedServed
  <1>1. ServeInv => OnlyWantedServed
    <2> SUFFICES ASSUME ServeInv, NEW c \in conns, NEW r \in Requests
                 PROVE  Forthcoming(c, r) <= owed[c][r]
      BY DEF OnlyWantedServed
    <2>1. TypeOK /\ c \in Ids
      BY DEF ServeInv, TypeOK
    <2>2. InSync(c) /\ Covered(c, r)
      BY <2>1 DEF ServeInv
    <2> DEFINE E == Occurrences(events, RequestEvent(c, r))
               Q == Occurrences(writeBuffer[c], PieceMsg(r))
    <2>3. E \in Nat /\ Q \in Nat /\ owed[c][r] \in Int /\ Begun(c, r) \in {0, 1}
      BY <2>1, BatchCounts, QueueCounts DEF TypeOK, Begun
    <2>4. Forthcoming(c, r) = E + (Q - Begun(c, r))
      BY <2>1, <2>2, BegunIsQueued DEF Forthcoming
    <2>5. E + Q <= owed[c][r] + Begun(c, r)
      BY <2>2 DEF Covered
    <2> HIDE DEF E, Q
    <2>. QED
      BY <2>3, <2>4, <2>5
  <1>. QED
    BY <1>1, ServeInvariant, PTL
=============================================================================
