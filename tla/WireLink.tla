------------------------------ MODULE WireLink ------------------------------
(***************************************************************************)
(* One direction of a connection between two of these clients, byte by     *)
(* byte (src/runtime/managers/peer_manager.cpp): the sender's write_buffer *)
(* and cursor, the bytes TCP holds, and the receiver's handshake buffer,   *)
(* read_buffer and framer.  send() and recv() take as many bytes as they   *)
(* like, so a message, its length prefix and the handshake can each be cut *)
(* anywhere.  The sender accepted the connection, so its handshake is the  *)
(* first message it queues.                                                *)
(*                                                                         *)
(* The integers on the wire are Field bytes wide, and a byte has Base      *)
(* values: 4 and 256 in the code.  inFlight is a history variable: the     *)
(* messages queued, not taken back and not yet handled.  No guard reads it.*)
(***************************************************************************)
EXTENDS Integers, Totals

CONSTANTS
    Base,        \* values of a byte
    Field,       \* bytes of an integer on the wire
    MaxWord,     \* the largest integer of that size
    htonl(_),    \* an integer as the bytes that go on the wire
    ntohl(_),    \* the integer that such bytes stand for
    Handshake,   \* the bytes of the handshake
    MaxMessage,  \* the longest message extract_message() accepts
    PieceCount,  \* pieces of the torrent
    Bitfields,   \* what Bitfield::from_bytes() accepts for so many (module Bitfield)
    BlockSize,   \* kBlockSize
    ChunkSize,   \* bytes one recv() of an established connection may bring
    KernelSize,  \* bound: bytes TCP holds
    Outgoing,    \* the messages the sender may queue
    MaxSends     \* bound: messages queued over a run

MsgHave == 4
MsgBitfield == 5
MsgRequest == 6
MsgPiece == 7
MsgCancel == 8

Byte == 0 .. (Base - 1)
Word == 0 .. MaxWord

\* A message is its id, the integers that follow it and the data after those;
\* a keep-alive has no id.
NoId == Base
KeepAlive == [id |-> NoId, fields |-> <<>>, data |-> <<>>]
Malformed == [id |-> NoId, fields |-> <<>>, data |-> <<NoId>>]

FieldCount(id) ==
    CASE id = MsgHave -> 1
      [] id \in {MsgRequest, MsgCancel} -> 3
      [] id = MsgPiece -> 2
      [] OTHER -> 0

\* The values handle_message() throws for none of: an index in range, a block that
\* is not too large, a bitfield of the right size with clear spare bits.
RightValues(m) ==
    /\ m.id = MsgHave => m.fields[1] < PieceCount
    /\ m.id \in {MsgRequest, MsgCancel} => m.fields[3] <= BlockSize
    /\ m.id = MsgBitfield => m.data \in Bitfields

\* What the send_*() functions build: the integers the id calls for, data only
\* where the id has any, and no more bytes than a receiver accepts.  The handshake
\* made sure that both ends have the same torrent, so the values are right for both.
IsMessage(m) ==
    \/ m = KeepAlive
    \/ /\ m \in [id : Byte, fields : Seq(Word), data : Seq(Byte)]
       /\ Len(m.fields) = FieldCount(m.id)
       /\ m.id \in {MsgHave, MsgRequest, MsgCancel} => m.data = <<>>
       /\ 1 + Field * Len(m.fields) + Len(m.data) <= MaxMessage
       /\ RightValues(m)

ASSUME SizesAssumption ==
    /\ Base \in Nat /\ Base > MsgCancel
    /\ Field \in Nat \ {0}
    /\ MaxWord \in Nat /\ MaxMessage \in 0 .. MaxWord
    /\ PieceCount \in Nat /\ BlockSize \in Nat /\ Bitfields \subseteq Seq(Byte)
    /\ ChunkSize \in Nat \ {0} /\ KernelSize \in Nat \ {0} /\ MaxSends \in Nat

\* The library's promise.
ASSUME WordsAssumption ==
    /\ \A n \in Word : htonl(n) \in [1 .. Field -> Byte] /\ ntohl(htonl(n)) = n
    /\ htonl(0) = [i \in 1 .. Field |-> 0]

\* The handshake begins with 19 and "BitTorrent protocol": where a piece message
\* has its id, it has the letter T.
ASSUME HandshakeAssumption ==
    /\ Handshake \in Seq(Byte) /\ Handshake # <<>>
    /\ Len(Handshake) > Field => Handshake[Field + 1] # MsgPiece

ASSUME OutgoingAssumption == \A m \in Outgoing : IsMessage(m)

VARIABLES
    writeBuffer,  \* write_buffer
    cursor,       \* cursor
    queued,       \* messages queued so far
    kernel,       \* bytes sent and not yet read
    stage,        \* the receiver: "handshake", "open" or "dropped"
    buffer,       \* its handshake buffer
    readBuffer,   \* its read_buffer
    delivered,    \* the messages handle_message() has got
    inFlight      \* history: the messages on their way

senderVars == <<writeBuffer, cursor, queued>>
receiverVars == <<stage, buffer, readBuffer, delivered>>
vars == <<senderVars, kernel, receiverVars, inFlight>>

----------------------------------------------------------------------------
(* Integers and messages as bytes *)

FieldAt(bytes, i) == ntohl(SubSeq(bytes, i, i + Field - 1))

\* The integers one after the other; no message has more than three.
Fields(f) ==
    CASE Len(f) = 0 -> <<>>
      [] Len(f) = 1 -> htonl(f[1])
      [] Len(f) = 2 -> htonl(f[1]) \o htonl(f[2])
      [] OTHER -> htonl(f[1]) \o htonl(f[2]) \o htonl(f[3])

\* build_message() and its callers; a keep-alive is zero bytes.
Encode(m) ==
    LET body == Fields(m.fields) \o m.data
    IN  IF m = KeepAlive THEN [i \in 1 .. Field |-> 0]
        ELSE htonl(1 + Len(body)) \o <<m.id>> \o body

\* The checks on payload_len: exact where the message has no data.
RightLength(id, length) ==
    IF id \in {MsgHave, MsgRequest, MsgCancel}
    THEN length = FieldCount(id) * Field
    ELSE length >= FieldCount(id) * Field

\* What handle_message() reads in the bytes after the length prefix.
Decode(body) ==
    LET n == FieldCount(Head(body))
        m == [id     |-> Head(body),
              fields |-> [k \in 1 .. n |-> FieldAt(body, 2 + (k - 1) * Field)],
              data   |-> SubSeq(body, 2 + n * Field, Len(body))]
    IN  IF body = <<>> THEN KeepAlive
        ELSE IF RightLength(Head(body), Len(body) - 1) /\ RightValues(m) THEN m
        ELSE Malformed

\* extract_message() finds a message at the front of the buffer.
WholeMessage(bytes) ==
    /\ Len(bytes) >= Field
    /\ Len(bytes) >= Field + FieldAt(bytes, 1)

Absurd(bytes) == Len(bytes) >= Field /\ FieldAt(bytes, 1) > MaxMessage

----------------------------------------------------------------------------
Init ==
    /\ writeBuffer = <<Handshake>> /\ cursor = 0 /\ queued = 0
    /\ kernel = <<>>
    /\ stage = "handshake" /\ buffer = <<>> /\ readBuffer = <<>>
    /\ delivered = <<>> /\ inFlight = <<>>

Enqueue(m) ==
    /\ queued < MaxSends
    /\ writeBuffer' = Append(writeBuffer, Encode(m))
    /\ queued' = queued + 1
    /\ inFlight' = Append(inFlight, m)
    /\ UNCHANGED <<cursor, kernel, receiverVars>>

\* send() takes n bytes of the front message.
SendBytes(n) ==
    LET front == Head(writeBuffer)
    IN  /\ writeBuffer # <<>>
        /\ cursor + n <= Len(front)
        /\ Len(kernel) + n <= KernelSize
        /\ kernel' = kernel \o SubSeq(front, cursor + 1, cursor + n)
        /\ IF cursor + n = Len(front)
           THEN writeBuffer' = Tail(writeBuffer) /\ cursor' = 0
           ELSE cursor' = cursor + n /\ UNCHANGED writeBuffer
        /\ UNCHANGED <<queued, receiverVars, inFlight>>

\* A queued message is the piece message a cancel names.
IsPieceFor(bytes, index, begin, length) ==
    /\ Len(bytes) = 3 * Field + 1 + length
    /\ bytes[Field + 1] = MsgPiece
    /\ FieldAt(bytes, Field + 2) = index
    /\ FieldAt(bytes, 2 * Field + 2) = begin

\* The receiver takes a request back: the first such message goes, unless it is
\* the front one and its first bytes are with the peer already.
RemoveQueuedPiece(index, begin, length) ==
    LET first == IF cursor > 0 THEN 2 ELSE 1
    IN  \E at \in first .. Len(writeBuffer) :
            /\ IsPieceFor(writeBuffer[at], index, begin, length)
            /\ \A i \in first .. (at - 1) : ~IsPieceFor(writeBuffer[i], index, begin, length)
            /\ writeBuffer' = RemoveAt(writeBuffer, at)
            /\ inFlight' = RemoveAt(inFlight, (at + Len(inFlight)) - Len(writeBuffer))
            /\ UNCHANGED <<cursor, queued, kernel, receiverVars>>

\* Faulty variant: recv() fills the whole chunk, and what follows the handshake
\* is not passed on.
HandshakeRoomAny == Len(kernel)

\* recv() is capped at what is missing of the handshake.
HandshakeRoom == Len(Handshake) - Len(buffer)

\* More of the handshake has to come before it can be judged.
StillShort(bytes) == Len(bytes) < Len(Handshake)

RecvHandshake(n) ==
    LET bytes == buffer \o SubSeq(kernel, 1, n)
    IN  /\ stage = "handshake"
        /\ n <= Len(kernel) /\ n <= HandshakeRoom
        /\ kernel' = SubSeq(kernel, n + 1, Len(kernel))
        /\ buffer' = bytes
        /\ stage' = IF StillShort(bytes) THEN "handshake"
                    ELSE IF SubSeq(bytes, 1, Len(Handshake)) = Handshake THEN "open"
                    ELSE "dropped"
        /\ UNCHANGED <<senderVars, readBuffer, delivered, inFlight>>

\* The loop over extract_message() has another round.
MoreToHandle == Absurd(readBuffer) \/ WholeMessage(readBuffer)

\* recv() of n bytes.
RecvChunk(n) ==
    /\ stage = "open" /\ ~MoreToHandle
    /\ n <= Len(kernel) /\ n <= ChunkSize
    /\ kernel' = SubSeq(kernel, n + 1, Len(kernel))
    /\ readBuffer' = readBuffer \o SubSeq(kernel, 1, n)
    /\ UNCHANGED <<senderVars, stage, buffer, delivered, inFlight>>

\* handle_message() looks no further than the id: a request from a peer we choke, and
\* a bitfield that is not the first.
PassedOver(body, amChoking) ==
    /\ body # <<>>
    /\ \/ Head(body) = MsgRequest /\ amChoking
       \/ /\ Head(body) = MsgBitfield
          /\ \E i \in 1 .. Len(delivered) : delivered[i].id = MsgBitfield

\* One round of the loop: extract_message() and handle_message(), either of which
\* may throw.  am_choking belongs to the other direction, and may be either.
HandleMessage ==
    \E amChoking \in BOOLEAN :
        LET end  == Field + FieldAt(readBuffer, 1)
            body == SubSeq(readBuffer, Field + 1, end)
            msg  == Decode(body)
            fail == \/ Absurd(readBuffer)
                    \/ msg = Malformed /\ ~PassedOver(body, amChoking)
        IN  /\ stage = "open" /\ MoreToHandle
            /\ stage' = IF fail THEN "dropped" ELSE "open"
            /\ readBuffer' = IF Absurd(readBuffer) THEN readBuffer
                             ELSE SubSeq(readBuffer, end + 1, Len(readBuffer))
            /\ delivered' = IF fail THEN delivered ELSE Append(delivered, msg)
            /\ inFlight' = IF fail THEN inFlight ELSE SubSeq(inFlight, 2, Len(inFlight))
            /\ UNCHANGED <<senderVars, kernel, buffer>>

\* Everything has been said and heard.
Done ==
    /\ queued = MaxSends /\ writeBuffer = <<>> /\ kernel = <<>> /\ ~MoreToHandle
    /\ UNCHANGED vars

Next ==
    \/ \E m \in Outgoing : Enqueue(m)
    \/ \E n \in 1 .. KernelSize : SendBytes(n)
    \/ \E m \in Outgoing : m.id = MsgPiece
                           /\ RemoveQueuedPiece(m.fields[1], m.fields[2], Len(m.data))
    \/ \E n \in 1 .. KernelSize : RecvHandshake(n)
    \/ \E n \in 1 .. KernelSize : RecvChunk(n)
    \/ HandleMessage
    \/ Done

\* Both clients poll for ever, and a socket that can be written or read is.
Fairness ==
    /\ WF_vars(\E n \in 1 .. KernelSize : SendBytes(n))
    /\ WF_vars(HandleMessage \/ \E n \in 1 .. KernelSize : RecvHandshake(n) \/ RecvChunk(n))

Spec == Init /\ [][Next]_vars /\ Fairness

----------------------------------------------------------------------------
Channel == INSTANCE MessageChannel
               WITH Messages <- Outgoing,
                    Retractable <- {m \in Outgoing : m.id = MsgPiece},
                    queue <- inFlight

\* The queue, the cursor, the handshake and the framer together are a channel of
\* whole messages: however send() and recv() cut the bytes, and whenever requests are
\* taken back, the receiver handles exactly the messages queued and not taken back,
\* in order, and none is left behind.  So "the peer-wire framer never sees the 68
\* handshake bytes" (peer_manager.hpp), nor anything else it could not frame, and
\* handle_message() throws for no length, index, block size or bitfield: no client of
\* this kind is dropped for a protocol error.
ImplementsChannel == Channel!Spec
=============================================================================
