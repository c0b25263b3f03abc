------------------------------ MODULE Session ------------------------------
(***************************************************************************)
(* The download: Session::run() (src/runtime/session.cpp) driving          *)
(* PieceManager, BanManager and the established connections of             *)
(* PeerManager.  Nothing runs concurrently; the hard part is that requests *)
(* and blocks change hands in batches.  handle_events() edits the pending  *)
(* lists at once but reports what happened as events, which are dispatched *)
(* only after every socket has been read, so between the two a block lives *)
(* in an event alone.                                                      *)
(*                                                                         *)
(* phase is the place in the loop body; the for-loops over the peers are   *)
(* several steps each, in any order (both maps are unordered).             *)
(***************************************************************************)
EXTENDS PieceManager, BanManager, PeerWire

CONSTANTS
    PipelineDepth,   \* kPipelineDepth
    MaxRead,         \* bound: events from one peer's messages in one round
    NoPeer           \* no connection id

ASSUME SessionAssumption ==
    /\ PipelineDepth \in Nat \ {0}
    /\ MaxRead \in Nat
    /\ NoPeer \notin Ids

VARIABLES
    phase,      \* where run() is
    todo,       \* connections the current loop has not come to
    cur,        \* the connection the current loop is at
    toDrop,     \* to_drop of handle_events()
    events,     \* the events still to be dispatched
    unchecked,  \* pieces the constructor has still to recheck
    disk,       \* the pieces stored, intact, in the files
    completed,  \* completed_
    notified    \* trackers_.on_download_complete() has been called

loopVars == <<phase, todo, cur, toDrop, events>>
diskVars == <<unchecked, disk, completed, notified>>
vars == <<pieceVars, banVars, peerVars, loopVars, diskVars>>

Phases == {"recheck", "poll", "handshakes", "read", "drop", "dispatch", "expire", "fill",
           "fillSnubbed", "stopped", "failed"}

Event ==
    [type : {"Joined"}, peer : Ids]
        \cup [type : {"Choke", "Dropped"}, peer : Ids, released : Seq(Blocks)]
        \cup [type : {"Piece"}, peer : Ids, block : Blocks, bytes : {"good", "bad"}]

LoopTypeOK ==
    /\ phase \in Phases
    /\ todo \subseteq Ids
    /\ cur \in Ids \cup {NoPeer}
    /\ toDrop \subseteq Ids
    /\ events \in Seq(Event)

DiskTypeOK ==
    /\ unchecked \subseteq Pieces
    /\ disk \subseteq Pieces
    /\ completed \in BOOLEAN
    /\ notified \in BOOLEAN

\* Every variable holds a value of its type: the 16-bit counters and the
\* connection ids stay in range, and a request in flight always names a block of
\* the torrent.
TypeOK == PiecesTypeOK /\ BansTypeOK /\ PeersTypeOK /\ LoopTypeOK /\ DiskTypeOK

----------------------------------------------------------------------------
\* The constructor: the files hold what an earlier run left.
Init ==
    /\ have = {} /\ haveCount = 0 /\ haveBytes = 0
    /\ active = {}
    /\ state = [r \in Blocks |-> "Missing"]
    /\ received = [p \in Pieces |-> 0]
    /\ data = [r \in Blocks |-> "blank"]
    /\ hosts = [c \in Ids |-> NoHost]
    /\ senders = [p \in Pieces |-> <<>>]
    /\ evidence = {}
    /\ evidenceData = [r \in Blocks |-> "blank"]
    /\ evidenceSenders = [p \in Pieces |-> <<>>]
    /\ PeersInit
    /\ phase = "recheck" /\ todo = {} /\ cur = NoPeer /\ toDrop = {} /\ events = <<>>
    /\ unchecked = Pieces
    /\ disk \in SUBSET Pieces
    /\ completed = FALSE /\ notified = FALSE

\* pieces_.recheck(p) with the bytes read back from disk.
Recheck(p) ==
    /\ phase = "recheck"
    /\ p \in unchecked
    /\ unchecked' = unchecked \ {p}
    /\ IF p \in disk
       THEN /\ have' = have \cup {p}
            /\ haveCount' = haveCount + 1
            /\ haveBytes' = haveBytes + PieceSize[p]
       ELSE UNCHANGED <<have, haveCount, haveBytes>>
    /\ UNCHANGED <<active, state, received, data, banVars, peerVars, loopVars, disk,
                   completed, notified>>

\* Faulty variant: completed_ keeps its default.
EndRecheckUnset ==
    /\ phase = "recheck"
    /\ unchecked = {}
    /\ phase' = "poll"
    /\ UNCHANGED <<pieceVars, banVars, peerVars, todo, cur, toDrop, events, diskVars>>

EndRecheck ==
    /\ phase = "recheck"
    /\ unchecked = {}
    /\ completed' = IsComplete
    /\ phase' = "poll"
    /\ UNCHANGED <<pieceVars, banVars, peerVars, todo, cur, toDrop, events, unchecked,
                   disk, notified>>

----------------------------------------------------------------------------
(* poll() and handle_events() *)

\* build_fds() takes the ids_ snapshot; peers promoted later are not in it.
Poll ==
    /\ phase = "poll"
    /\ phase' = "handshakes"
    /\ todo' = conns
    /\ UNCHANGED <<pieceVars, banVars, peerVars, cur, toDrop, events, diskVars>>

\* poll() fails for another reason than a signal: throw_errno(), which main() catches.
PollFails ==
    /\ phase = "poll"
    /\ phase' = "failed"
    /\ todo' = {}
    /\ UNCHANGED <<pieceVars, banVars, peerVars, cur, toDrop, events, diskVars>>

FinishHandshake(h) ==
    /\ phase = "handshakes"
    /\ events' = Append(events, [type |-> "Joined", peer |-> nextId])
    /\ Promote(h)
    /\ UNCHANGED <<pieceVars, banVars, phase, todo, cur, toDrop, diskVars>>

EndHandshakes ==
    /\ phase = "handshakes"
    /\ phase' = "read"
    /\ UNCHANGED <<pieceVars, banVars, peerVars, todo, cur, toDrop, events, diskVars>>

\* The read loop comes to a socket with something to read.
ReadFrom(c) ==
    /\ phase = "read"
    /\ c \in todo
    /\ cur' = c
    /\ todo' = todo \ {c}
    /\ UNCHANGED <<pieceVars, banVars, peerVars, phase, toDrop, events, diskVars>>

\* A socket is read once a round, so one round takes a bounded number of messages.
ReadRoom == Cardinality({i \in 1 .. Len(events) : events[i].peer = cur}) < MaxRead

\* handle_message() for a message of cur; all it shares is what it leaves alone.
HandleMessage ==
    /\ phase = "read"
    /\ cur \in conns
    /\ UNCHANGED <<pieceVars, banVars, phase, todo, cur, toDrop, diskVars>>

MsgChoke ==
    /\ HandleMessage
    /\ ReadRoom
    /\ events' = Append(events, [type |-> "Choke", peer |-> cur, released |-> pending[cur]])
    /\ RecvChoke(cur)

\* The Unchoke event is left out: dispatch() ignores it.
MsgUnchoke == HandleMessage /\ RecvUnchoke(cur) /\ UNCHANGED events

MsgHave(p) == HandleMessage /\ RecvHave(cur, p) /\ UNCHANGED events

MsgBitfield(bf) == HandleMessage /\ RecvBitfield(cur, bf) /\ UNCHANGED events

MsgPiece(i, bytes) ==
    /\ HandleMessage
    /\ ReadRoom
    /\ bytes = "bad" => peerHost[cur] \in Liars
    /\ RecvPiece(cur, i)
    /\ events' = Append(events, [type |-> "Piece", peer |-> cur,
                                 block |-> pending[cur][i], bytes |-> bytes])

\* The socket fails or closes, or the peer breaks the protocol.
ReadFails ==
    /\ phase = "read"
    /\ cur \in conns
    /\ toDrop' = toDrop \cup {cur}
    /\ cur' = NoPeer
    /\ UNCHANGED <<pieceVars, banVars, peerVars, phase, todo, events, diskVars>>

EndRead ==
    /\ phase = "read"
    /\ phase' = "drop"
    /\ cur' = NoPeer
    /\ UNCHANGED <<pieceVars, banVars, peerVars, todo, toDrop, events, diskVars>>

\* drop() of a peer that failed, or of one that has long sent nothing: a peer
\* still in todo had nothing to read in this round.
DropPeer(c) ==
    /\ phase = "drop"
    /\ c \in toDrop \/ (toDrop = {} /\ c \in todo)
    /\ events' = Append(events, [type |-> "Dropped", peer |-> c, released |-> pending[c]])
    /\ Drop({c}, {})
    /\ toDrop' = toDrop \ {c}
    /\ todo' = todo \ {c}
    /\ UNCHANGED <<pieceVars, banVars, banned, phase, cur, diskVars>>

EndDrop ==
    /\ phase = "drop"
    /\ toDrop = {}
    /\ phase' = "dispatch"
    /\ todo' = {}
    /\ UNCHANGED <<pieceVars, banVars, peerVars, cur, toDrop, events, diskVars>>

----------------------------------------------------------------------------
(* dispatch() of the first event left *)

DispatchJoined ==
    LET c == Head(events).peer
    IN  /\ phase = "dispatch"
        /\ events # <<>>
        /\ Head(events).type = "Joined"
        /\ events' = Tail(events)
        /\ IF c \in conns THEN OnJoin(c, peerHost[c]) ELSE UNCHANGED banVars
        /\ Greet(c, have)
        /\ UNCHANGED <<pieceVars, phase, todo, cur, toDrop, diskVars>>

DispatchReleased ==
    /\ phase = "dispatch"
    /\ events # <<>>
    /\ Head(events).type \in {"Choke", "Dropped"}
    /\ events' = Tail(events)
    /\ state' = Release(state, active, Entries(Head(events).released))
    /\ UNCHANGED <<have, haveCount, haveBytes, active, received, data, banVars, peerVars,
                   phase, todo, cur, toDrop, diskVars>>

\* on_piece() is about to get this status from on_block().
OnPiece(status) ==
    /\ phase = "dispatch"
    /\ events # <<>>
    /\ Head(events).type = "Piece"
    /\ BlockStatus(Head(events).block, Head(events).bytes) = status
    /\ events' = Tail(events)
    /\ UNCHANGED <<todo, cur, toDrop, unchecked, completed, notified>>

\* A rejected block changes nothing; any other is filed with its sender.
PieceNoVerdict ==
    LET ev == Head(events)
    IN  \E status \in {"Rejected", "Incomplete"} :
            /\ OnPiece(status)
            /\ IF status = "Rejected"
               THEN UNCHANGED <<pieceVars, banVars>>
               ELSE FileBlock(ev.block, ev.bytes) /\ OnBlock(ev.block, ev.peer)
            /\ UNCHANGED <<peerVars, phase, disk>>

\* The piece is stored and announced, and the evidence against it settled;
\* ban() dispatches the Dropped events of the banned peers on the spot.
PieceVerified ==
    LET ev == Head(events)
        p  == ev.block[1]
    IN  /\ OnPiece("PieceVerified")
        /\ PassPiece(ev.block)
        /\ state' = Release(Restarted(p), active \ {p}, HeldBy(BannedConns(VerifiedBans(p))))
        /\ disk' = disk \cup {p}
        /\ OnPieceVerified(p)
        /\ Ban(VerifiedBans(p), {p})
        /\ UNCHANGED phase

\* Faulty variant: the have messages go out before the write.
WriteFailsLate ==
    LET ev == Head(events)
    IN  /\ OnPiece("PieceVerified")
        /\ PassPiece(ev.block)
        /\ state' = Restarted(ev.block[1])
        /\ OnBlock(ev.block, ev.peer)
        /\ Ban({}, {ev.block[1]})
        /\ phase' = "failed"
        /\ UNCHANGED disk

\* write_piece() throws: only main() catches it, and the program ends.
WriteFails ==
    LET ev == Head(events)
    IN  /\ OnPiece("PieceVerified")
        /\ PassPiece(ev.block)
        /\ state' = Restarted(ev.block[1])
        /\ OnBlock(ev.block, ev.peer)
        /\ phase' = "failed"
        /\ UNCHANGED <<peerVars, disk>>

PieceFailed ==
    LET ev   == Head(events)
        p    == ev.block[1]
        bans == FailedBans(WithSender(senders[p], ev.block[2], ev.peer))
    IN  /\ OnPiece("PieceFailed")
        /\ FailPiece(ev.block, ev.bytes)
        /\ state' = Release(Restarted(p), active, HeldBy(BannedConns(bans)))
        /\ OnPieceFailed(ev.block, ev.peer, Filed(ev.block, ev.bytes))
        /\ Ban(bans, {})
        /\ UNCHANGED <<phase, disk>>

EndDispatch ==
    /\ phase = "dispatch"
    /\ events = <<>>
    /\ phase' = "expire"
    /\ todo' = conns
    /\ UNCHANGED <<pieceVars, banVars, peerVars, cur, toDrop, events, diskVars>>

----------------------------------------------------------------------------
(* The rest of the loop body *)

\* Requests older than kRequestTimeout go back to the pool.
Expire(c, n) ==
    /\ phase = "expire"
    /\ c \in todo
    /\ n \in 1 .. Len(pending[c])
    /\ state' = Release(state, active, {pending[c][i] : i \in 1 .. n})
    /\ TakeStale(c, n)
    /\ todo' = todo \ {c}
    /\ UNCHANGED <<have, haveCount, haveBytes, active, received, data, banVars, phase, cur,
                   toDrop, events, diskVars>>

\* Faulty variant: completed_ is set before it is tested.
EndExpireUnreported ==
    /\ phase = "expire"
    /\ phase' = "fill"
    /\ todo' = conns
    /\ completed' = (completed \/ IsComplete)
    /\ UNCHANGED <<pieceVars, banVars, peerVars, cur, toDrop, events, unchecked, disk, notified>>

\* The completion check comes between the timeouts and the new requests; the files
\* are synced before the trackers hear of it.
EndExpire ==
    /\ phase = "expire"
    /\ phase' = "fill"
    /\ todo' = conns
    /\ completed' = (completed \/ IsComplete)
    /\ notified' = (notified \/ (IsComplete /\ ~completed))
    /\ UNCHANGED <<pieceVars, banVars, peerVars, cur, toDrop, events, unchecked, disk>>

\* sync() throws: completed_ is set, the trackers are not told, and the program ends.
SyncFails ==
    /\ phase = "expire"
    /\ IsComplete /\ ~completed
    /\ phase' = "failed"
    /\ todo' = {}
    /\ completed' = TRUE
    /\ UNCHANGED <<pieceVars, banVars, peerVars, cur, toDrop, events, unchecked, disk, notified>>

PeerChoices(c) == PickChoices(hasPieces[c], pieceFrequency)

CanFill(c) ==
    /\ ~peerChoking[c] /\ ~snubbed[c]
    /\ Len(pending[c]) < PipelineDepth
    /\ PeerChoices(c) # {}

\* A peer the loop is at keeps getting requests while it can take one.
Fill(c, r) ==
    /\ phase = "fill"
    /\ IF cur \in conns THEN c = cur ELSE c \in todo
    /\ CanFill(c)
    /\ r \in PeerChoices(c)
    /\ PickBlock(r)
    /\ SendRequest(c, r)
    /\ cur' = c
    /\ todo' = todo \ {c}
    /\ UNCHANGED <<banVars, phase, toDrop, events, diskVars>>

NextFill ==
    /\ phase = "fill"
    /\ cur \in conns
    /\ ~CanFill(cur)
    /\ cur' = NoPeer
    /\ UNCHANGED <<pieceVars, banVars, peerVars, phase, todo, toDrop, events, diskVars>>

\* Faulty variant: the first loop stops early.
EndFillEarly ==
    /\ phase = "fill"
    /\ cur = NoPeer
    /\ phase' = "fillSnubbed"
    /\ todo' = conns
    /\ UNCHANGED <<pieceVars, banVars, peerVars, cur, toDrop, events, diskVars>>

\* Peers left in todo were passed over because they could take no request.
EndFill ==
    /\ phase = "fill"
    /\ cur = NoPeer
    /\ \A c \in todo : ~CanFill(c)
    /\ phase' = "fillSnubbed"
    /\ todo' = conns
    /\ UNCHANGED <<pieceVars, banVars, peerVars, cur, toDrop, events, diskVars>>

CanFillSnubbed(c) ==
    /\ ~peerChoking[c] /\ snubbed[c]
    /\ pending[c] = <<>>
    /\ PeerChoices(c) # {}

FillSnubbed(c, r) ==
    /\ phase = "fillSnubbed"
    /\ c \in todo
    /\ CanFillSnubbed(c)
    /\ r \in PeerChoices(c)
    /\ PickBlock(r)
    /\ SendRequest(c, r)
    /\ todo' = todo \ {c}
    /\ UNCHANGED <<banVars, phase, cur, toDrop, events, diskVars>>

EndLoop ==
    /\ phase = "fillSnubbed"
    /\ \A c \in todo : ~CanFillSnubbed(c)
    /\ phase' = "poll"
    /\ todo' = {}
    /\ UNCHANGED <<pieceVars, banVars, peerVars, cur, toDrop, events, diskVars>>

\* The shutdown flag is seen at the top of the loop.
Shutdown ==
    /\ phase = "poll"
    /\ phase' = "stopped"
    /\ UNCHANGED <<pieceVars, banVars, peerVars, todo, cur, toDrop, events, diskVars>>

Done == phase \in {"stopped", "failed"} /\ UNCHANGED vars

Next ==
    \/ \E p \in Pieces : Recheck(p)
    \/ EndRecheck
    \/ Poll
    \/ PollFails
    \/ \E h \in Hosts : FinishHandshake(h)
    \/ EndHandshakes
    \/ \E c \in Ids : ReadFrom(c)
    \/ MsgChoke
    \/ MsgUnchoke
    \/ \E p \in HavePieces : MsgHave(p)
    \/ \E bf \in Bitfields : MsgBitfield(bf)
    \/ \E i \in 1 .. PipelineDepth, bytes \in {"good", "bad"} : MsgPiece(i, bytes)
    \/ ReadFails
    \/ EndRead
    \/ \E c \in Ids : DropPeer(c)
    \/ EndDrop
    \/ DispatchJoined
    \/ DispatchReleased
    \/ PieceNoVerdict
    \/ PieceVerified
    \/ WriteFails
    \/ PieceFailed
    \/ EndDispatch
    \/ \E c \in Ids, n \in 1 .. PipelineDepth : Expire(c, n)
    \/ EndExpire
    \/ SyncFails
    \/ \E c \in Ids, r \in Blocks : Fill(c, r)
    \/ NextFill
    \/ EndFill
    \/ \E c \in Ids, r \in Blocks : FillSnubbed(c, r)
    \/ EndLoop
    \/ Shutdown
    \/ Done

Spec == Init /\ [][Next]_vars

----------------------------------------------------------------------------
(* Who holds a requested block *)

\* The blocks an event that is still to be dispatched stands for.
Carried(ev) ==
    IF ev.type = "Piece" THEN {ev.block}
    ELSE IF ev.type = "Joined" THEN {}
    ELSE Entries(ev.released)

\* No block is lost: a block marked Requested is in some peer's pending list, or
\* in an event about to be dispatched, so an answer, a choke, a drop, a ban or a
\* timeout will free it (release() in piece_manager.cpp relies on this).
NoBlockLost ==
    \A r \in Blocks :
        state[r] = "Requested" =>
            \/ \E c \in conns : r \in Entries(pending[c])
            \/ \E i \in 1 .. Len(events) : r \in Carried(events[i])

NoRepeats(s) == \A i, j \in 1 .. Len(s) : s[i] = s[j] => i = j

\* No block is held twice, and a held block is marked Requested: releasing one
\* holder's requests can never free a block somebody else is about to deliver
\* ("every Requested block being in exactly one peer's pending list").
NoBlockHeldTwice ==
    /\ \A c \in Ids : NoRepeats(pending[c])
    /\ \A c, d \in Ids : c # d => Entries(pending[c]) \cap Entries(pending[d]) = {}
    /\ \A i \in 1 .. Len(events), c \in Ids : Carried(events[i]) \cap Entries(pending[c]) = {}
    /\ \A i, j \in 1 .. Len(events) : i # j => Carried(events[i]) \cap Carried(events[j]) = {}
    /\ \A c \in Ids : \A r \in Entries(pending[c]) : state[r] = "Requested"
    /\ \A i \in 1 .. Len(events) : \A r \in Carried(events[i]) : state[r] = "Requested"

\* Every block a peer delivers in answer to a request is filed: on_block() never
\* rejects one, so no downloaded byte is thrown away.
NothingRejected ==
    phase = "dispatch" /\ events # <<>> /\ Head(events).type = "Piece" =>
        BlockStatus(Head(events).block, Head(events).bytes) # "Rejected"

\* What the rest of the client sees of a block.
PoolStatus == [r \in Blocks |-> IF r[1] \in have THEN "Have" ELSE state[r]]

Pool == INSTANCE BlockPool WITH status <- PoolStatus

\* pick_block(), release() and on_block() keep the promise of BlockPool whatever
\* the order of the events: a block is asked of one peer at a time, chokes, drops,
\* bans and timeouts give up requests and never data, only the verdict on a whole
\* piece discards what has been received, and a piece we have stays ours.
ImplementsPool == Pool!Spec

\* "Snubbed peers go second [...] so they only get blocks no healthy peer took"
\* (session.cpp): while they are served, no healthy peer could take a request.
SnubbedGetLeftovers ==
    phase = "fillSnubbed" => \A c \in conns : ~CanFill(c)

----------------------------------------------------------------------------
(* Who is banned *)

\* Only a host that sent a corrupt block is ever banned: neither a sole-sender
\* verdict nor the comparison with the evidence ever falls on an honest host.
OnlyLiarsBanned == banned \subseteq Liars

\* A banned host has no connection: ban() drops them all, and a handshake that
\* was under way when the ban fell is refused.
NoBannedConnection == \A c \in conns : peerHost[c] \notin banned

\* A failed attempt kept as evidence convicts somebody once the piece verifies:
\* it has a block that differs, with a sender whose host is on record (the
\* "every block of its failed attempt matches" branch is dead).
EvidenceConvicts == \A p \in evidence : VerifiedBans(p) # {}

\* The host that sent a received block stays on record, under the connection the
\* senders list names, whatever happened to the connection since.
SenderOnRecord ==
    \A r \in Blocks :
        state[r] = "Received" =>
            /\ r[2] < Len(senders[r[1]])
            /\ hosts[senders[r[1]][r[2] + 1]] \in Hosts
            /\ data[r] # "good" => hosts[senders[r[1]][r[2] + 1]] \in Liars

\* "a failed piece is kept as evidence and retried from one peer at a time"
\* (ban_manager.hpp): no two connections are asked for blocks of it at once.
RetryFromOnePeer ==
    \A p \in evidence, c, d \in conns :
        /\ \E r \in Entries(pending[c]) : r[1] = p
        /\ \E r \in Entries(pending[d]) : r[1] = p
        => c = d

----------------------------------------------------------------------------
(* What peers are told, and what is stored *)

\* Every peer knows exactly what we have: the bitfield of its greeting and the
\* have messages since add up to have_, and nothing goes out before the greeting.
PeersToldWhatWeHave ==
    phase # "failed" =>
        \A c \in conns :
            told[c] = IF \E i \in 1 .. Len(events) : events[i] = [type |-> "Joined", peer |-> c]
                      THEN {} ELSE have

\* A peer is never told of a piece that is not stored, even when a write fails.
ToldIsStored == \A c \in conns : told[c] \subseteq disk

\* The 16-bit availability counts never drop below the number of connected
\* peers that have the piece, so no departure can wrap one around.
FrequencyCoversPeers ==
    \A p \in Pieces : pieceFrequency[p] >= Cardinality({c \in conns : p \in hasPieces[c]})

\* "Piece rarity is calculated by summing the bitfields of connected peers"
\* (README.md of the repository).
FrequencyIsSumOfBitfields ==
    \A p \in Pieces : pieceFrequency[p] = Cardinality({c \in conns : p \in hasPieces[c]})

\* The trackers hear of a completion only if this run brought it about: never
\* after a start that finds every piece on disk.
NoCompletionOnResume ==
    [](phase = "recheck" /\ disk = Pieces => []~notified)

----------------------------------------------------------------------------
(* The inductive strengthenings the proofs use *)

JoinPending(c) == \E i \in 1 .. Len(events) : events[i] = [type |-> "Joined", peer |-> c]

\* The loops only come to connections that exist, and events are pending only
\* between handle_events() and the end of their dispatch.
LoopInv ==
    /\ todo \subseteq conns
    /\ toDrop \subseteq conns
    /\ cur \in conns \cup {NoPeer}
    /\ phase \notin {"read", "fill"} => cur = NoPeer
    /\ phase \in {"dispatch", "failed"} => todo = {}
    /\ phase \notin {"read", "drop"} => toDrop = {}
    /\ events # <<>> => phase \in {"handshakes", "read", "drop", "dispatch", "failed"}
    /\ \A c \in Ids : c \notin conns => pending[c] = <<>>

\* Blocks are in progress only in active pieces, which we do not have, and
\* received is the number of Received blocks.
PieceInv ==
    /\ have \cap active = {}
    /\ phase = "recheck" => active = {}
    /\ \A r \in Blocks : r[1] \notin active => state[r] = "Missing"
    /\ \A p \in Pieces :
          received[p] = Cardinality({b \in BlockIdx(p) : state[<<p, b>>] = "Received"})

\* BanManager knows the host of every connection, except that it learns of a
\* new one only when its Joined event is dispatched; a peer we read from is known.
JoinsRecorded ==
    /\ \A c \in Ids : c >= nextId => c \notin conns /\ hosts[c] = NoHost
    /\ \A c \in conns :
          /\ peerHost[c] \in Hosts
          /\ hosts[c] = peerHost[c] \/ (hosts[c] = NoHost /\ JoinPending(c))
    /\ phase \in {"handshakes", "read"} =>
          \A c \in todo \cup ({cur} \ {NoPeer}) : hosts[c] = peerHost[c]

\* A block waiting in an event has a sender on record, a liar if it is corrupt.
EventsAttributed ==
    \A i \in 1 .. Len(events) :
        events[i].type = "Piece" =>
            /\ hosts[events[i].peer] \in Hosts
            /\ events[i].bytes # "good" => hosts[events[i].peer] \in Liars

\* Evidence names a host for every block, a liar for every corrupt one, and has
\* at least one corrupt block.
EvidenceAttributed ==
    \A p \in evidence :
        /\ \A b \in BlockIdx(p) :
              /\ b < Len(evidenceSenders[p])
              /\ hosts[evidenceSenders[p][b + 1]] \in Hosts
              /\ evidenceData[<<p, b>>] # "good" => hosts[evidenceSenders[p][b + 1]] \in Liars
        /\ \E b \in BlockIdx(p) : evidenceData[<<p, b>>] # "good"

\* Everything the ban proofs need at once: attribution, the loop and piece
\* bookkeeping it rests on, and the two facts about banned hosts.
BanInv ==
    /\ LoopInv /\ PieceInv
    /\ JoinsRecorded /\ EventsAttributed /\ SenderOnRecord /\ EvidenceAttributed
    /\ OnlyLiarsBanned /\ NoBannedConnection

\* The Joined events come first and are about different connections, so nothing
\* is announced to a connection before its greeting, and each is greeted once.
JoinsFirst ==
    /\ phase = "handshakes" => \A i \in 1 .. Len(events) : events[i].type = "Joined"
    /\ \A i \in 1 .. Len(events) : events[i].type = "Joined" => events[i].peer < nextId
    /\ \A i, j \in 1 .. Len(events) :
          i < j /\ events[j].type = "Joined" =>
              events[i].type = "Joined" /\ events[i].peer # events[j].peer

\* What the two facts about told rest on.
ToldInv ==
    /\ phase = "recheck" => conns = {}
    /\ \A c \in Ids : c \notin conns => told[c] = {}
    /\ \A c \in conns : c < nextId
    /\ phase # "failed" => have \subseteq disk
    /\ JoinsFirst /\ PeersToldWhatWeHave /\ ToldIsStored

Having(p) == {c \in conns : p \in hasPieces[c]}

NoBitfieldYet == {c \in conns : ~gotBitfield[c]}

\* A count exceeds the peers that have the piece by at most one for every
\* connection that has ever sent its bitfield: the have messages before it count
\* twice, and the surplus outlives the connection.
FreqInv ==
    /\ \A c \in Ids : c \notin conns => hasPieces[c] = {} /\ ~gotBitfield[c]
    /\ \A c \in conns : c < nextId
    /\ FrequencyCoversPeers
    /\ \A p \in Pieces : pieceFrequency[p] + Cardinality(NoBitfieldYet)
                             <= nextId + Cardinality(Having(p))

\* What the constructor has found so far.
RecheckInv ==
    phase = "recheck" => /\ have = disk \ unchecked
                         /\ haveCount = Cardinality(have)
                         /\ ~notified

\* From a start that finds every piece on: the completion has been seen to.
ResumeInv ==
    /\ ~notified
    /\ IF phase = "recheck" THEN disk = Pieces ELSE completed

\* A connection the first loop has passed can take no request.
FillInv ==
    /\ phase = "fill" => \A c \in conns : c \in todo \/ c = cur \/ ~CanFill(c)
    /\ SnubbedGetLeftovers
=============================================================================
