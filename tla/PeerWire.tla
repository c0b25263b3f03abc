----------------------------- MODULE PeerWire -----------------------------
(***************************************************************************)
(* The established connections of PeerManager                              *)
(* (src/runtime/managers/peer_manager.{hpp,cpp}) as the download sees      *)
(* them: conns_ with the fields of PeerConnection that handle_message()    *)
(* and Session read or write, banned_, next_id_ and piece_frequency_.      *)
(* An id outside conns has the fields promote() gives a new connection.    *)
(*                                                                         *)
(* Handshakes and the connection limits, and the write queues, are not     *)
(* here: a peer appears when promote() is reached, and a message we send   *)
(* counts as sent when it is queued.                                       *)
(***************************************************************************)
EXTENDS Swarm

CONSTANTS
    Bitfields,   \* the bitfields a peer may send
    HavePieces   \* the pieces a peer may announce with a have message

ASSUME PeerWireAssumption ==
    /\ Bitfields \subseteq SUBSET Pieces
    /\ HavePieces \subseteq Pieces

VARIABLES
    conns,           \* the keys of conns_
    peerHost,        \* peer.host
    hasPieces,       \* has_pieces
    gotBitfield,     \* got_bitfield
    peerChoking,     \* peer_choking
    snubbed,         \* snubbed
    pending,         \* pending: the requests in flight, oldest first
    nextId,          \* next_id_
    banned,          \* banned_
    pieceFrequency,  \* piece_frequency_, 16 bits wide
    told             \* pieces our bitfield and have messages gave the peer

peerVars == <<conns, peerHost, hasPieces, gotBitfield, peerChoking, snubbed, pending,
              nextId, banned, pieceFrequency, told>>

PeersTypeOK ==
    /\ conns \subseteq Ids
    /\ peerHost \in [Ids -> Hosts \cup {NoHost}]
    /\ hasPieces \in [Ids -> SUBSET Pieces]
    /\ gotBitfield \in [Ids -> BOOLEAN]
    /\ peerChoking \in [Ids -> BOOLEAN]
    /\ snubbed \in [Ids -> BOOLEAN]
    /\ pending \in [Ids -> Seq(Blocks)]
    /\ nextId \in 0 .. MaxJoins
    /\ banned \subseteq Hosts
    /\ pieceFrequency \in [Pieces -> Uint16]
    /\ told \in [Ids -> SUBSET Pieces]

PeersInit ==
    /\ conns = {}
    /\ peerHost = [c \in Ids |-> NoHost]
    /\ hasPieces = [c \in Ids |-> {}]
    /\ gotBitfield = [c \in Ids |-> FALSE]
    /\ peerChoking = [c \in Ids |-> TRUE]
    /\ snubbed = [c \in Ids |-> FALSE]
    /\ pending = [c \in Ids |-> <<>>]
    /\ nextId = 0
    /\ banned = {}
    /\ pieceFrequency = [p \in Pieces |-> 0]
    /\ told = [c \in Ids |-> {}]

----------------------------------------------------------------------------
\* Faulty variant: bans are not checked once a handshake is under way.
PromoteUnchecked(h) ==
    /\ nextId < MaxJoins
    /\ conns' = conns \cup {nextId}
    /\ peerHost' = [peerHost EXCEPT ![nextId] = h]
    /\ nextId' = nextId + 1
    /\ UNCHANGED <<hasPieces, gotBitfield, peerChoking, snubbed, pending, banned,
                   pieceFrequency, told>>

\* verify_handshake() passed and promote() adds the connection.
Promote(h) ==
    /\ nextId < MaxJoins
    /\ h \notin banned
    /\ conns' = conns \cup {nextId}
    /\ peerHost' = [peerHost EXCEPT ![nextId] = h]
    /\ nextId' = nextId + 1
    /\ UNCHANGED <<hasPieces, gotBitfield, peerChoking, snubbed, pending, banned,
                   pieceFrequency, told>>

\* choke: the requests in flight are discarded (the caller reports them).
RecvChoke(c) ==
    /\ peerChoking' = [peerChoking EXCEPT ![c] = TRUE]
    /\ pending' = [pending EXCEPT ![c] = <<>>]
    /\ UNCHANGED <<conns, peerHost, hasPieces, gotBitfield, snubbed, nextId, banned,
                   pieceFrequency, told>>

RecvUnchoke(c) ==
    /\ peerChoking' = [peerChoking EXCEPT ![c] = FALSE]
    /\ UNCHANGED <<conns, peerHost, hasPieces, gotBitfield, snubbed, pending, nextId,
                   banned, pieceFrequency, told>>

\* Faulty variant: a have message does not count towards the availability.
RecvHaveUncounted(c, p) ==
    /\ p \notin hasPieces[c]
    /\ hasPieces' = [hasPieces EXCEPT ![c] = @ \cup {p}]
    /\ UNCHANGED <<conns, peerHost, gotBitfield, peerChoking, snubbed, pending, nextId,
                   banned, pieceFrequency, told>>

RecvHave(c, p) ==
    /\ p \notin hasPieces[c]
    /\ hasPieces' = [hasPieces EXCEPT ![c] = @ \cup {p}]
    /\ pieceFrequency' = [pieceFrequency EXCEPT ![p] = Wrap16(@ + 1)]
    /\ UNCHANGED <<conns, peerHost, gotBitfield, peerChoking, snubbed, pending, nextId,
                   banned, told>>

\* The first bitfield replaces has_pieces; later ones are ignored.
RecvBitfield(c, bf) ==
    /\ ~gotBitfield[c]
    /\ gotBitfield' = [gotBitfield EXCEPT ![c] = TRUE]
    /\ hasPieces' = [hasPieces EXCEPT ![c] = bf]
    /\ pieceFrequency' = [p \in Pieces |-> IF p \in bf THEN Wrap16(pieceFrequency[p] + 1)
                                                      ELSE pieceFrequency[p]]
    /\ UNCHANGED <<conns, peerHost, peerChoking, snubbed, pending, nextId, banned, told>>

\* pending.erase(match).
Erase(s, i) == [j \in 1 .. (Len(s) - 1) |-> IF j < i THEN s[j] ELSE s[j + 1]]

\* A piece message that answers request i, the first that matches it; one that
\* answers no request in flight is ignored.
RecvPiece(c, i) ==
    /\ i \in 1 .. Len(pending[c])
    /\ \A j \in 1 .. (i - 1) : pending[c][j] # pending[c][i]
    /\ pending' = [pending EXCEPT ![c] = Erase(@, i)]
    /\ snubbed' = [snubbed EXCEPT ![c] = FALSE]
    /\ UNCHANGED <<conns, peerHost, hasPieces, gotBitfield, peerChoking, nextId, banned,
                   pieceFrequency, told>>

SendRequest(c, r) ==
    /\ pending' = [pending EXCEPT ![c] = Append(@, r)]
    /\ UNCHANGED <<conns, peerHost, hasPieces, gotBitfield, peerChoking, snubbed, nextId,
                   banned, pieceFrequency, told>>

\* Faulty variant: a peer whose requests time out is not snubbed.
TakeStaleUnsnubbed(c, n) ==
    /\ pending' = [pending EXCEPT ![c] = SubSeq(@, n + 1, Len(@))]
    /\ UNCHANGED <<conns, peerHost, hasPieces, gotBitfield, peerChoking, snubbed, nextId,
                   banned, pieceFrequency, told>>

\* take_stale() of n requests, and the snub Session sets.  Requests are in the
\* order they were sent, so the ones past the cutoff are a prefix.
TakeStale(c, n) ==
    /\ pending' = [pending EXCEPT ![c] = SubSeq(@, n + 1, Len(@))]
    /\ snubbed' = [snubbed EXCEPT ![c] = TRUE]
    /\ UNCHANGED <<conns, peerHost, hasPieces, gotBitfield, peerChoking, nextId, banned,
                   pieceFrequency, told>>

----------------------------------------------------------------------------
\* piece_frequency_ once the connections C are gone (apply_availability(-1)).
FrequencyWithout(C) ==
    [p \in Pieces |->
        Wrap16(pieceFrequency[p] + TwoTo16 - Cardinality({c \in C : p \in hasPieces[c]}))]

\* drop() of every connection in C; the caller gives banned' and the pieces
\* that have messages queued in the same step tell the others.
Drop(C, news) ==
    /\ conns' = conns \ C
    /\ peerHost' = [c \in Ids |-> IF c \in C THEN NoHost ELSE peerHost[c]]
    /\ hasPieces' = [c \in Ids |-> IF c \in C THEN {} ELSE hasPieces[c]]
    /\ gotBitfield' = [c \in Ids |-> IF c \in C THEN FALSE ELSE gotBitfield[c]]
    /\ peerChoking' = [c \in Ids |-> IF c \in C THEN TRUE ELSE peerChoking[c]]
    /\ snubbed' = [c \in Ids |-> IF c \in C THEN FALSE ELSE snubbed[c]]
    /\ pending' = [c \in Ids |-> IF c \in C THEN <<>> ELSE pending[c]]
    /\ pieceFrequency' = FrequencyWithout(C)
    /\ told' = [c \in Ids |-> IF c \in C THEN {}
                              ELSE IF c \in conns THEN told[c] \cup news ELSE told[c]]
    /\ UNCHANGED nextId

\* ban(): the connections of newly banned hosts, and the requests they held.
BannedConns(H) == {c \in conns : peerHost[c] \in H \ banned}

HeldBy(C) == UNION {Entries(pending[c]) : c \in C}

Ban(H, news) ==
    /\ banned' = banned \cup H
    /\ Drop(BannedConns(H), news)

\* Faulty variant: no bitfield is sent.
GreetSilently(c, have) == UNCHANGED peerVars

\* greet(): our bitfield goes out first.
Greet(c, have) ==
    /\ told' = [told EXCEPT ![c] = IF c \in conns THEN @ \cup have ELSE @]
    /\ UNCHANGED <<conns, peerHost, hasPieces, gotBitfield, peerChoking, snubbed, pending,
                   nextId, banned, pieceFrequency>>
=============================================================================
