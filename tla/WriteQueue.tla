----------------------------- MODULE WriteQueue -----------------------------
(***************************************************************************)
(* The write queues of the established connections                         *)
(* (src/runtime/managers/peer_manager.cpp) and the serving of blocks       *)
(* (Session::on_request() in src/runtime/session.cpp).  Messages are       *)
(* queued whole, go out one send() per connection and round, and may go    *)
(* out in part; a peer may take back a request while it is an event of the *)
(* batch, while its answer is queued, or too late.                         *)
(*                                                                         *)
(* What is said in the messages of the download side is in PeerWire and    *)
(* Session; here a message is its kind, its size and, for a piece message, *)
(* the request it answers.                                                 *)
(***************************************************************************)
EXTENDS Totals, FiniteSetsExt

CONSTANTS
    Pieces,          \* the piece indices
    Requests,        \* the requests peers make
    PieceOf,         \* the piece each asks for
    Readable,        \* the requests within their piece: read_block() does not throw
    NoRequest,       \* not a request
    MessageSize,     \* bytes of each kind of message
    MaxQueuedBytes,  \* kMaxQueuedBytes
    MaxJoins,        \* bound: connections promoted over a run
    MaxOwed,         \* bound: how often a peer may have each request open at a time
    MaxRead,         \* bound: events from one peer's messages in one round
    MaxOwn,          \* bound: our own requests queued on one connection
    NoPeer           \* no connection id

Kinds == {"handshake", "bitfield", "unchoke", "interested", "have", "request", "piece",
          "keepalive"}

Ids == 0 .. (MaxJoins - 1)

ASSUME WriteQueueAssumption ==
    /\ PieceOf \in [Requests -> Pieces]
    /\ Readable \subseteq Requests
    /\ NoRequest \notin Requests
    /\ MessageSize \in [Kinds -> Nat \ {0}]
    /\ MaxQueuedBytes \in Nat
    /\ MaxJoins \in Nat /\ MaxRead \in Nat /\ MaxOwn \in Nat
    /\ MaxOwed \in [Ids -> [Requests -> Nat]]
    /\ NoPeer \notin Ids

VARIABLES
    conns,        \* the keys of conns_
    nextId,       \* next_id_
    amChoking,    \* am_choking
    writeBuffer,  \* write_buffer
    cursor,       \* cursor: bytes of the front message already sent
    queuedBytes,  \* queued_bytes
    have,         \* the pieces we have
    phase,        \* where run() is
    todo,         \* connections of ids_ the socket loop has not come to
    cur,          \* the connection whose messages are being read
    toDrop,       \* to_drop
    fresh,        \* connections whose last_sent this call of handle_events() has set
    heard,        \* connections whose last_received it has set
    events,       \* the events still to be dispatched
    begun,        \* the message of which the peer has some bytes but not all
    owed          \* what the peer waits for: its requests less answers and cancels

queueVars == <<writeBuffer, cursor, queuedBytes>>
loopVars == <<phase, todo, cur, toDrop, fresh, heard>>
peerView == <<begun, owed>>
vars == <<conns, nextId, amChoking, queueVars, have, loopVars, events, peerView>>

Plain(kind) == [kind |-> kind, req |-> NoRequest]
PieceMsg(r) == [kind |-> "piece", req |-> r]
NoMsg == [kind |-> "none", req |-> NoRequest]

Message == {Plain(kind) : kind \in Kinds \ {"piece"}} \cup {PieceMsg(r) : r \in Requests}

\* The events of a batch.
JoinedEvent(c) == [type |-> "Joined", peer |-> c]
RequestEvent(c, r) == [type |-> "Request", peer |-> c, req |-> r]
PieceEvent(c, p) == [type |-> "Piece", peer |-> c, piece |-> p]

Event ==
    [type : {"Joined"}, peer : Ids]
        \cup [type : {"Request"}, peer : Ids, req : Requests]
        \cup [type : {"Piece"}, peer : Ids, piece : Pieces]

Size(m) == MessageSize[m.kind]
MessageBytes == [m \in Message |-> Size(m)]
SizeOfAll(ms) == Total(MessageBytes, ms)

Init ==
    /\ conns = {} /\ nextId = 0
    /\ amChoking = [c \in Ids |-> TRUE]
    /\ writeBuffer = [c \in Ids |-> <<>>]
    /\ cursor = [c \in Ids |-> 0]
    /\ queuedBytes = [c \in Ids |-> 0]
    /\ have \in SUBSET Pieces
    /\ phase = "poll" /\ todo = {} /\ cur = NoPeer /\ toDrop = {}
    /\ fresh = {} /\ heard = {}
    /\ events = <<>>
    /\ begun = [c \in Ids |-> NoMsg]
    /\ owed = [c \in Ids |-> [r \in Requests |-> 0]]

----------------------------------------------------------------------------
(* The queue of a connection *)

\* enqueue() of the messages ms on every connection of C.
Enqueue(C, ms) ==
    /\ writeBuffer' = [c \in Ids |-> IF c \in C THEN writeBuffer[c] \o ms ELSE writeBuffer[c]]
    /\ queuedBytes' = [c \in Ids |-> IF c \in C THEN queuedBytes[c] + SizeOfAll(ms)
                                                ELSE queuedBytes[c]]
    /\ UNCHANGED cursor

\* Faulty variant: the front message is not spared.
FirstRemovableAny(c) == 1

\* The front message stays once some of it has been sent.
FirstRemovable(c) == IF cursor[c] > 0 THEN 2 ELSE 1

\* The place of the piece message remove_queued_piece() takes out, or 0.
QueuedPiece(c, r) ==
    LET I == {i \in FirstRemovable(c) .. Len(writeBuffer[c]) : writeBuffer[c][i] = PieceMsg(r)}
    IN  IF I # {} THEN Min(I) ELSE 0

\* Faulty variant: the running count is not adjusted.
RemoveQueuedPieceUncounted(c, r) ==
    /\ writeBuffer' = IF QueuedPiece(c, r) = 0 THEN writeBuffer
                      ELSE [writeBuffer EXCEPT ![c] = RemoveAt(@, QueuedPiece(c, r))]
    /\ UNCHANGED <<queuedBytes, cursor>>

RemoveQueuedPiece(c, r) ==
    /\ IF QueuedPiece(c, r) = 0
       THEN UNCHANGED <<writeBuffer, queuedBytes>>
       ELSE /\ writeBuffer' = [writeBuffer EXCEPT ![c] = RemoveAt(@, QueuedPiece(c, r))]
            /\ queuedBytes' = [queuedBytes EXCEPT ![c] = @ - Size(PieceMsg(r))]
    /\ UNCHANGED cursor

\* What is left of a connection that drop() erases.
Forget(C) ==
    /\ conns' = conns \ C
    /\ amChoking' = [c \in Ids |-> c \in C \/ amChoking[c]]
    /\ begun' = [c \in Ids |-> IF c \in C THEN NoMsg ELSE begun[c]]
    /\ owed' = [c \in Ids |-> IF c \in C THEN [r \in Requests |-> 0] ELSE owed[c]]

EmptyQueues(C) ==
    /\ writeBuffer' = [c \in Ids |-> IF c \in C THEN <<>> ELSE writeBuffer[c]]
    /\ cursor' = [c \in Ids |-> IF c \in C THEN 0 ELSE cursor[c]]
    /\ queuedBytes' = [c \in Ids |-> IF c \in C THEN 0 ELSE queuedBytes[c]]

----------------------------------------------------------------------------
(* handle_events() *)

Poll ==
    /\ phase = "poll"
    /\ phase' = "handshakes"
    /\ todo' = conns
    /\ UNCHANGED <<conns, nextId, amChoking, queueVars, have, cur, toDrop, fresh, heard,
                   events, peerView>>

\* promote(); to an inbound peer we still owe our handshake, an outbound peer
\* has got it when the connection was made.
FinishHandshake(inbound) ==
    /\ phase = "handshakes"
    /\ nextId < MaxJoins
    /\ conns' = conns \cup {nextId}
    /\ nextId' = nextId + 1
    /\ fresh' = fresh \cup {nextId}
    /\ heard' = heard \cup {nextId}
    /\ events' = Append(events, JoinedEvent(nextId))
    /\ Enqueue({nextId}, IF inbound THEN <<Plain("handshake")>> ELSE <<>>)
    /\ UNCHANGED <<amChoking, have, phase, todo, cur, toDrop, peerView>>

EndHandshakes ==
    /\ phase = "handshakes"
    /\ phase' = "sockets"
    /\ UNCHANGED <<conns, nextId, amChoking, queueVars, have, todo, cur, toDrop, fresh,
                   heard, events, peerView>>

\* The loop comes to a connection with something to read and nothing sent.
Visit(c) ==
    /\ phase = "sockets"
    /\ c \in todo
    /\ cur' = c
    /\ todo' = todo \ {c}
    /\ UNCHANGED <<conns, nextId, amChoking, queueVars, have, phase, toDrop, fresh, heard,
                   events, peerView>>

\* The first byte of an answer settles the request it answers.
Answered(c, m) ==
    IF cursor[c] = 0 /\ m.kind = "piece"
    THEN [owed EXCEPT ![c][m.req] = @ - 1]
    ELSE owed

\* send() takes n bytes of the front message; the connection may then be read.
SendSome(c, n) ==
    LET front == Head(writeBuffer[c])
    IN  /\ phase = "sockets"
        /\ c \in todo
        /\ writeBuffer[c] # <<>>
        /\ cursor[c] + n <= Size(front)
        /\ fresh' = fresh \cup {c}
        /\ owed' = Answered(c, front)
        /\ IF cursor[c] + n = Size(front)
           THEN /\ writeBuffer' = [writeBuffer EXCEPT ![c] = Tail(@)]
                /\ queuedBytes' = [queuedBytes EXCEPT ![c] = @ - Size(front)]
                /\ cursor' = [cursor EXCEPT ![c] = 0]
                /\ begun' = [begun EXCEPT ![c] = NoMsg]
           ELSE /\ cursor' = [cursor EXCEPT ![c] = @ + n]
                /\ begun' = [begun EXCEPT ![c] = IF cursor[c] = 0 THEN front ELSE @]
                /\ UNCHANGED <<writeBuffer, queuedBytes>>
        /\ cur' = c
        /\ todo' = todo \ {c}
        /\ UNCHANGED <<conns, nextId, amChoking, have, phase, toDrop, heard, events>>

\* How many bytes one send() may take.
Chunk == UNION {1 .. MessageSize[kind] : kind \in Kinds}

SendFails(c) ==
    /\ phase = "sockets"
    /\ c \in todo
    /\ writeBuffer[c] # <<>>
    /\ toDrop' = toDrop \cup {c}
    /\ cur' = NoPeer
    /\ todo' = todo \ {c}
    /\ UNCHANGED <<conns, nextId, amChoking, queueVars, have, phase, fresh, heard, events,
                   peerView>>

ReadRoom == Len(SelectSeq(events, LAMBDA ev : ev.peer = cur)) < MaxRead

HandleMessage ==
    /\ phase = "sockets"
    /\ cur \in conns
    /\ heard' = heard \cup {cur}
    /\ UNCHANGED <<conns, nextId, amChoking, have, phase, todo, cur, toDrop, fresh, begun>>

\* A request; one from a peer we choke is ignored.
MsgRequest(r) ==
    /\ HandleMessage
    /\ ReadRoom
    /\ owed[cur][r] < MaxOwed[cur][r]
    /\ IF amChoking[cur]
       THEN UNCHANGED <<events, owed>>
       ELSE /\ events' = Append(events, RequestEvent(cur, r))
            /\ owed' = [owed EXCEPT ![cur][r] = @ + 1]
    /\ UNCHANGED queueVars

\* Faulty variant: any peer's request of this batch may be the one taken back.
BatchedRequestAny(r) ==
    LET I == {i \in 1 .. Len(events) : events[i].type = "Request" /\ events[i].req = r}
    IN  IF I # {} THEN Max(I) ELSE 0

\* The place of the request of this batch that a cancel takes back, or 0.
BatchedRequest(r) ==
    LET I == {i \in 1 .. Len(events) : events[i] = RequestEvent(cur, r)}
    IN  IF I # {} THEN Max(I) ELSE 0

\* A cancel takes back a request of this batch, or else a queued answer.
MsgCancel(r) ==
    /\ HandleMessage
    /\ owed' = [owed EXCEPT ![cur][r] = IF @ > 0 THEN @ - 1 ELSE 0]
    /\ IF BatchedRequest(r) # 0
       THEN events' = RemoveAt(events, BatchedRequest(r)) /\ UNCHANGED queueVars
       ELSE RemoveQueuedPiece(cur, r) /\ UNCHANGED events

\* The last block of a piece.
MsgPiece(p) ==
    /\ HandleMessage
    /\ ReadRoom
    /\ p \notin have
    /\ \A i \in 1 .. Len(events) : events[i].type = "Piece" => events[i].piece # p
    /\ events' = Append(events, PieceEvent(cur, p))
    /\ UNCHANGED <<queueVars, owed>>

ReadFails ==
    /\ phase = "sockets"
    /\ cur \in conns
    /\ toDrop' = toDrop \cup {cur}
    /\ cur' = NoPeer
    /\ UNCHANGED <<conns, nextId, amChoking, queueVars, have, phase, todo, fresh, heard,
                   events, peerView>>

EndSockets ==
    /\ phase = "sockets"
    /\ phase' = "drop"
    /\ cur' = NoPeer
    /\ todo' = {}
    /\ UNCHANGED <<conns, nextId, amChoking, queueVars, have, toDrop, fresh, heard, events,
                   peerView>>

\* drop() of a peer that failed, or of one that has long sent nothing.
DropPeer(c) ==
    /\ phase = "drop"
    /\ c \in toDrop \/ (toDrop = {} /\ c \in conns \ heard)
    /\ Forget({c})
    /\ EmptyQueues({c})
    /\ toDrop' = toDrop \ {c}
    /\ UNCHANGED <<nextId, have, phase, todo, cur, fresh, heard, events>>

\* Faulty variant: the time of the last send is not looked at.
QuietAny == {c \in conns : writeBuffer[c] = <<>>}

\* Connections a keep-alive may be due on.
Quiet == {c \in conns \ fresh : writeBuffer[c] = <<>>}

\* The keep-alives; how long a connection has been quiet is left open.
EndDrop(C) ==
    /\ phase = "drop"
    /\ toDrop = {}
    /\ C \subseteq Quiet
    /\ Enqueue(C, <<Plain("keepalive")>>)
    /\ phase' = "dispatch"
    /\ fresh' = {} /\ heard' = {}
    /\ UNCHANGED <<conns, nextId, amChoking, have, todo, cur, toDrop, events, peerView>>

----------------------------------------------------------------------------
(* dispatch() and the new requests *)

Dispatch(type) ==
    /\ phase = "dispatch"
    /\ events # <<>>
    /\ Head(events).type = type
    /\ events' = Tail(events)
    /\ UNCHANGED <<nextId, loopVars>>

\* greet(): every send ignores a connection that is gone.
DispatchJoined ==
    LET c == Head(events).peer
    IN  /\ Dispatch("Joined")
        /\ Enqueue({c} \cap conns,
                   <<Plain("bitfield"), Plain("unchoke")>>
                       \o (IF have = Pieces THEN <<>> ELSE <<Plain("interested")>>))
        /\ amChoking' = [amChoking EXCEPT ![c] = (c \notin conns)]
        /\ UNCHANGED <<conns, have, peerView>>

\* Faulty variant: a queue that has just reached the limit takes one more.
CanQueueAt(c) == c \in conns /\ queuedBytes[c] <= MaxQueuedBytes

CanQueue(c) == c \in conns /\ queuedBytes[c] < MaxQueuedBytes

\* on_request(): the four ways a request is ignored, or its answer queued.
OnRequest ==
    LET ev == Head(events)
    IN  /\ Dispatch("Request")
        /\ IF PieceOf[ev.req] \in have /\ CanQueue(ev.peer) /\ ev.req \in Readable
           THEN Enqueue({ev.peer}, <<PieceMsg(ev.req)>>)
           ELSE UNCHANGED queueVars
        /\ UNCHANGED <<conns, amChoking, have, peerView>>

\* on_piece() of the last block of a piece: a piece that verifies is announced
\* to every connection, and either verdict may ban some.
OnPiece(verified, banned) ==
    LET told == IF verified THEN <<Plain("have")>> ELSE <<>>
        Queued(c, gone, left, more) == IF c \in banned THEN gone
                                       ELSE IF c \in conns THEN more ELSE left
    IN  /\ Dispatch("Piece")
        /\ banned \subseteq conns
        /\ have' = IF verified THEN have \cup {Head(events).piece} ELSE have
        /\ Forget(banned)
        /\ writeBuffer' = [c \in Ids |->
               Queued(c, <<>>, writeBuffer[c], writeBuffer[c] \o told)]
        /\ queuedBytes' = [c \in Ids |->
               Queued(c, 0, queuedBytes[c], queuedBytes[c] + SizeOfAll(told))]
        /\ cursor' = [c \in Ids |-> IF c \in banned THEN 0 ELSE cursor[c]]

EndDispatch ==
    /\ phase = "dispatch"
    /\ events = <<>>
    /\ phase' = "fill"
    /\ UNCHANGED <<conns, nextId, amChoking, queueVars, have, todo, cur, toDrop, fresh,
                   heard, events, peerView>>

OwnRequests(c) == Len(SelectSeq(writeBuffer[c], LAMBDA m : m.kind = "request"))

\* send_request(), while there are pieces to ask for.
SendRequest(c) ==
    /\ phase = "fill"
    /\ c \in conns
    /\ have # Pieces
    /\ OwnRequests(c) < MaxOwn
    /\ Enqueue({c}, <<Plain("request")>>)
    /\ UNCHANGED <<conns, nextId, amChoking, have, loopVars, events, peerView>>

EndLoop ==
    /\ phase = "fill"
    /\ phase' = "poll"
    /\ UNCHANGED <<conns, nextId, amChoking, queueVars, have, todo, cur, toDrop, fresh,
                   heard, events, peerView>>

Next ==
    \/ Poll
    \/ \E inbound \in BOOLEAN : FinishHandshake(inbound)
    \/ EndHandshakes
    \/ \E c \in Ids : Visit(c)
    \/ \E c \in Ids, n \in Chunk : SendSome(c, n)
    \/ \E c \in Ids : SendFails(c)
    \/ \E r \in Requests : MsgRequest(r)
    \/ \E r \in Requests : MsgCancel(r)
    \/ \E p \in Pieces : MsgPiece(p)
    \/ ReadFails
    \/ EndSockets
    \/ \E c \in Ids : DropPeer(c)
    \/ \E C \in SUBSET Ids : EndDrop(C)
    \/ DispatchJoined
    \/ OnRequest
    \/ \E verified \in BOOLEAN, banned \in SUBSET Ids : OnPiece(verified, banned)
    \/ EndDispatch
    \/ \E c \in Ids : SendRequest(c)
    \/ EndLoop

Spec == Init /\ [][Next]_vars

----------------------------------------------------------------------------
\* The types, and a count of what a peer waits for that never wraps around.
TypeOK ==
    /\ conns \subseteq Ids /\ nextId \in 0 .. MaxJoins
    /\ amChoking \in [Ids -> BOOLEAN]
    /\ writeBuffer \in [Ids -> Seq(Message)]
    /\ cursor \in [Ids -> Nat]
    /\ queuedBytes \in [Ids -> Int]
    /\ have \subseteq Pieces
    /\ phase \in {"poll", "handshakes", "sockets", "drop", "dispatch", "fill"}
    /\ todo \subseteq Ids /\ cur \in Ids \cup {NoPeer}
    /\ toDrop \subseteq Ids /\ fresh \subseteq Ids /\ heard \subseteq Ids
    /\ events \in Seq(Event)
    /\ begun \in [Ids -> Message \cup {NoMsg}]
    /\ owed \in [Ids -> [Requests -> Int]]

\* The running count queued_bytes is the size of what is queued, so the limit it
\* is compared with is a real one and no subtraction can wrap it around.
QueuedBytesAgree == \A c \in Ids : queuedBytes[c] = SizeOfAll(writeBuffer[c])

InSync(c) ==
    IF begun[c] = NoMsg
    THEN cursor[c] = 0
    ELSE /\ writeBuffer[c] # <<>>
         /\ Head(writeBuffer[c]) = begun[c]
         /\ cursor[c] \in 1 .. (Size(begun[c]) - 1)

\* "removing the rest would desync the stream" (peer_manager.cpp): the message of
\* which a peer has the first bytes is the one whose next bytes it gets.
StreamInSync == \A c \in conns : InSync(c)

\* The answers a connection may still get: queued and not begun, or yet to be
\* looked at in this batch.
Forthcoming(c, r) ==
    Occurrences(events, RequestEvent(c, r))
        + Cardinality({i \in 1 .. Len(writeBuffer[c]) :
                           /\ writeBuffer[c][i] = PieceMsg(r)
                           /\ i = 1 => begun[c] = NoMsg})

\* "cancelled requests shouldn't be sent, unless they're already on their way"
\* (tests/swarm_test.py): a peer is never sent more answers than the requests it
\* has made and not taken back, in the batch, in the queue or across both.
OnlyWantedServed ==
    \A c \in conns, r \in Requests : Forthcoming(c, r) <= owed[c][r]

AnswerBytes == [m \in Message |-> IF m.kind = "piece" THEN Size(m) ELSE 0]

\* "once 4 MiB is queued, further requests are ignored" (README.md): however the
\* batches fall, the answers queued for a peer stay within the limit and one
\* message.
ServedWithinLimit ==
    \A c \in conns :
        Total(AnswerBytes, writeBuffer[c]) < MaxQueuedBytes + MessageSize["piece"]

\* A peer sees nothing of us between our handshake and our bitfield, whatever
\* else happens in the round it joins.
BitfieldFirst ==
    \A c \in conns :
        (\E i \in 1 .. Len(events) : events[i] = JoinedEvent(c))
            => Range(writeBuffer[c]) \subseteq {Plain("handshake")}

\* Where the events of a batch stand: they come from connections that were made,
\* the joins before all else and each once, and a connection whose join is still
\* to be looked at is fresh while keep-alives may be due.
BatchInOrder ==
    /\ \A c \in conns : c < nextId
    /\ \A i \in 1 .. Len(events) :
           /\ events[i].peer < nextId
           /\ phase \notin {"poll", "fill"}
           /\ phase = "handshakes" => events[i].type = "Joined"
           /\ events[i].type = "Joined" /\ phase # "dispatch" => events[i].peer \in fresh
    /\ \A i, j \in 1 .. Len(events) :
           i < j /\ events[j].type = "Joined"
               => events[i].type = "Joined" /\ events[i].peer # events[j].peer

\* Nothing is left of a connection that is gone.
NothingLeft ==
    \A c \in Ids \ conns : writeBuffer[c] = <<>> /\ cursor[c] = 0 /\ begun[c] = NoMsg
=============================================================================
