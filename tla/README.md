# A TLA+ specification of torrent-peer

This directory specifies the BitTorrent client of this repository: TLA+ modules
translated from `src/`, TLC configurations that check them on small
instances, and theorems that TLAPS proves for every instance. `PROJECT.json`
maps every definition to the lines it models, and lists the runs, the hazards
and the findings in a form tools can read. Paths below are relative to
`src/runtime/` unless they begin with something else.

## 1. The system

One thread runs everything. `Session::run()` polls all sockets, lets
`PeerManager` and `TrackerManager` read them, dispatches what the peers said,
takes back requests that got no answer, checks for completion, and sends new
requests. The only other thread is the one that resolves a tracker's name.
The difficulty is therefore not locking but *batching*: `handle_events()`
changes the connections at once and reports what happened as a list of events,
and the other components learn of it only when the list is dispatched, after
every socket has been read. Around that, peers choke, disconnect, answer late
or answer with wrong bytes, the disk fails, and datagrams get lost.

| component | state | operations | what is hard | modelled by |
|---|---|---|---|---|
| Session (`session.cpp`) | `completed_`, place in the loop | recheck, the loop body, `dispatch`, `on_piece`, `on_request`, `ban`, `greet`, `shutdown_session` | order of the batch; a failing write in the middle of a verdict; completion against resume | `Session`; `WriteQueue` (serving), `TrackerManager` (shutdown), `DiskManager` (syncs) |
| PieceManager (`managers/piece_manager.cpp`) | `have_`, totals, `active_` with block states and data | `recheck`, `pick_block`, `on_block`, `release` | a block must be asked for once and lost never | `PieceManager`; abstractly `BlockPool` |
| BanManager (`managers/ban_manager.cpp`) | `hosts_`, `senders_`, `evidence_` | `on_join`, `on_block`, `on_piece_failed`, `on_piece_verified` | attribution to connections long gone | `BanManager` |
| PeerManager (`managers/peer_manager.cpp`), download side | `conns_`, `banned_`, `piece_frequency_` | messages, `send_request`, `drop`, `ban`, `promote`, broadcasts | requests in flight when a connection ends; 16-bit counts | `PeerWire` |
| PeerManager, write queues and serving | `write_buffer`, `cursor`, `queued_bytes` | enqueue, partial send, request, cancel, keep-alive, idle drop | cancelling while half sent; counts kept by hand | `WriteQueue` |
| PeerManager, dialling and accepting | `candidates_`, `known_`, `inbound_`, `outbound_` | `add_peers`, dial, accept, handshake, deadlines, `refill` | one limit for three sets; addresses forgotten and reused | `PeerPool` |
| PeerManager, framing | `read_buffer`, the handshake buffer | build, send, receive, extract, decode | bytes cut anywhere | `WireLink`; abstractly `MessageChannel` |
| TrackerManager (`managers/tracker_manager.cpp`) | a `TrackerSession` per tracker, two flags | `tick`, completion, shutdown | lossy network, timeouts, backoff, state changed under an announce in flight | `TrackerManager` |
| DiskManager (`managers/disk_manager.cpp`) | the files | open, reserve, write, read, sync | slices over files; power failure between write and sync | `DiskManager`; in `Session`, the set of stored pieces |
| bencode parser (`src/metainfo/parser.cpp`) | input, position | recursive descent | one encoding per value; the range of `info` | `Bencode` |
| torrent validation (`src/metainfo/torrent.cpp`) | none | `parse_torrent`, `validate_layout`, pieces | overflow, path collisions, the last piece | `Torrent` |
| `Bitfield`, `take_stale` (`src/core/`) | bytes; a list | set, get, from bytes; take a prefix | spare bits | `Bitfield` (elsewhere a set), `PeerWire` |
| command line, `main`, utilities | - | - | - | not modelled (section 6) |

## 2. The modules

```
Swarm            the torrent, the hosts, ids, bytes as blank/good/bad
 |- PieceManager   PieceManager
 |- BanManager     BanManager
 |- PeerWire       the established connections, download side
      |
   Session         run(): composes the three; implements BlockPool
      |- SessionLiveness           fairness and progress
      |- MCSession, MCLiveness     instances for TLC
      |- SessionBooks -> SessionProofs                     proofs

TrackerManager     |- TrackerLiveness     |- NetworkProofs
PeerPool           |- MCPeerPool          |- NetworkProofs
WriteQueue         |- MCWriteQueue        |- WriteQueueProofs
Totals             sums over sequences    |- TotalsProofs
DiskManager                               |- DiskManagerProofs
WireLink           |- MCWireLink          |- LinkProofs      implements MessageChannel
Torrent, Bitfield  |- MCInputs            |- FormatProofs
Bencode            |- MCInputs
```

`PieceManager`, `BanManager` and `PeerWire` each own variables and define
what their methods do to them; `Session` puts one or more of these together in
each action, as the code's handlers do. `phase` says where `run()` is: `recheck`,
`poll`, `handshakes`, `read`, `drop`, `dispatch`, `expire`, `fill`,
`fillSnubbed`, and `stopped` or `failed` at the end. A loop over peers is one
step per peer in any order, because both maps are unordered; `todo` holds the
peers it has not come to and `cur` the one it is at. Every message of the batch
is a step, so is every event dispatched. `on_piece()` is *one* step from
filing the block to the last ban (`PieceVerified`, `PieceFailed`), since nothing
can interrupt it; `WriteFails` is the same step cut short by the exception of
`write_piece()`. The other two exceptions that end the loop are `PollFails` and
`SyncFails`.

Abstractions:

- A request (piece, offset, length) is `<<piece, block>>`; the length is a
  function of the two. A piece message matches a request or is ignored.
- The bytes of a block are `good`, `bad`, or `blank` (a fresh buffer). A piece
  verifies iff all its blocks are good: SHA-1 has no collisions.
- A host is honest, or in `Liars` and may answer with good or bad bytes.
- `told` (what a peer has been told we have) and `silence` are history
  variables; `disk` is the set of pieces stored intact.
- Connection ids count up to the bound `MaxJoins`; the code's are 32-bit and are
  never reused.
- Messages that change nothing the model keeps (keep-alive, interested, late
  blocks) are stuttering steps. Requests from peers are in `WriteQueue`.
- `PartialPiece::owner` and BanManager's retry owner are never set by any caller and
  are left out (see the finding in section 4).

`TrackerManager` holds one record per tracker, with deadlines as the time left.
Time passes in `poll()` only. `tick()` is two passes, first over readable sockets,
then over timers. Transaction ids are taken to be distinct, so a
datagram either carries the id of the last request sent or an old one. Datagrams stay in
the network once sent: each may arrive any number of times, in any order, or
never. The trackers and the network are external; they are modelled by the
messages the code exchanges with them. The two flags are the whole connection to
the download: `Session`'s `notified` is `OnDownloadComplete` here.

`BlockPool` is what the rest of the client may rely on: one status per block, with no
peers, events or counters. `Session` is mapped to it by `PoolStatus` (the block's
state, or `Have` once its piece is verified), and `ImplementsPool` says that every
step of the session is one of the pool or leaves it alone.

`PeerPool` keeps the three tables of sockets as one *role* per socket, since a promotion moves a
socket from one table to another and an erased entry closes it. A round is the sequence of phases
of `run()` and `handle_events()`: pending handshakes, dials, connections, deadlines, accept,
refill, dispatch. Ages count ticks of the poll. What a handshake says, and so whether it
verifies, is the peer's choice. The connections a round reads are those `ids_` held when
it polled.

`WriteQueue` has the same loop seen from the sending side. A message is its kind and the
request it answers; a size per kind stands for the bytes. `cursor` counts what is gone of
the front message. A history variable keeps which requests a peer still wants, against
which the answers are held. The size of a queue is a sum over its messages, taken from `Totals`.

`WireLink` is one direction of a connection between two such clients, byte by byte: the
write queue and cursor, what TCP holds, the handshake buffer with its capped read, and the framer.
Encoding and decoding are translated, with the checks of `handle_message()` on lengths, piece
indices, block sizes and bitfields (the last as a set of byte strings, which module `Bitfield` is
about) and the two messages it passes over unread; `htonl()` and `ntohl()` are parameters of which only the
library's promise is assumed (a fixed number of bytes, all zero for 0, and back again), and the
run gives them two digits in base 10. One `recv()` is a step and so is every round of the
loop over `extract_message()`, between which the sender goes on. A history
variable, `inFlight`, holds the messages queued, not taken back and not yet handled: it
is the queue of `MessageChannel`, and no guard reads it.

`DiskManager` works on files of single bytes: the byte that belongs at offset g
is g + 1. The constructor opens and reserves one file per step and builds `files`, the list of
entries; the recheck then reads one piece after the other. `job` is the `read_block()` or
`write_piece()` under way: `index` and `done` are the variables of `for_each_slice()`, `part`
that of `pwrite_all()`, and `out` the bytes read. A read takes a slice per step. `pwrite()` takes any number of
bytes at a time; the process can be killed between two
calls; a power failure loses any part of what was not flushed.

`Bencode`, `Torrent` and `Bitfield` work on what they are given and on nothing else; the run
enumerates inputs. `Bencode` is a recursive descent as the code is, and lets the input grow only
while the parser asks for more. `Torrent` has three steps: the validation, each round of the
loop that adds lengths in unsigned 64-bit arithmetic (`Limit` is the largest signed number), and the
count of pieces. `std::ranges::sort()` leaves any order in which no path is less than one
before it. In `Bitfield` a byte is the set of its places that hold a one, so `|` is union and
`&` intersection.

Operators whose comment begins "Faulty variant" are plausible mistakes in the
definition that follows them. They are used by no specification; each is there to
confirm that a property notices when the definition is replaced by it.

## 3. What the runs check

`tlc -config <cfg> <module>`; sizes are distinct states.

| run | module, cfg | question | result |
|---|---|---|---|
| session_pool | MCSession, MCPool | requests and blocks change hands in batches of up to two events per peer, with chokes, drops, snubs, failing writes, any disk at start | holds, 1.8 M |
| session_bans | MCSession, MCBans | an honest and a lying host share a two-block piece, and fetch a second one, over connections that come and go | holds, 4.4 M |
| session_liveness | MCLiveness, MCLiveness | the download ends and is reported | holds, 21 k |
| tracker | TrackerLiveness, MCTracker | the tracker state machine over a bad network; the shutdown ends; the completion is heard | holds, 145 k |
| serving | MCWriteQueue, MCServe | two peers ask for blocks and take requests back while messages go out in parts | holds, 4.4 M |
| wire_link | MCWireLink, MCLink | the byte stream between two clients is a channel of messages | holds, 58 k |
| peer_pool | MCPeerPool, MCPeers | addresses queued, dialled, accepted, promoted, expired, dropped and banned | holds, 200 k |
| disk | DiskManager, MCDisk | every layout of small files, with partial writes, kills and power failures | holds, 211 k |
| inputs | MCInputs, MCInputs | the parser, the validation and the bitfield, over all bounded inputs | holds, 2.4 M |
| liar_stalls_download | MCLiveness, MCLiar | the README on the `bad-data` test | violated |
| completed_at_once | TrackerManager, MCCompleted | the README on `completed` | violated |
| known_addresses | MCPeerPool, MCKnown | two comments on `known_` | violated |

Properties of the download (`Session`, `SessionLiveness`):

- `NoBlockLost`, `NoBlockHeldTwice`, `NothingRejected`: a Requested block has exactly one
  holder, a pending list or an undispatched event; so `release()` never takes a
  block from somebody who will deliver it, and no answer is thrown away.
- `ImplementsPool`: seen from outside, a block goes from Missing to Requested to Received,
  back when it is released, and only a verdict on its whole piece discards or keeps
  received data.
- `SnubbedGetLeftovers`: while snubbed peers are served, no healthy peer could
  take a request.
- `OnlyLiarsBanned`, `NoBannedConnection`, `EvidenceConvicts`: bans hit only senders of
  corrupt blocks, hold against handshakes under way, and evidence never comes to nothing.
- `PeersToldWhatWeHave`, `ToldIsStored`: the greeting and the have messages add up,
  in every order of joining, verifying and leaving, and nothing is announced before it is
  written, also when the write fails.
- `FrequencyCoversPeers`: the availability counts can be too high (next section) but
  never so low that a departure wraps one.
- `DownloadCompletes`, `CompletionReported`, `NoCompletionOnResume`.

Properties of the trackers: `ReportedIsHeard` (a tracker is credited with an event only if it
heard it), `SocketOpenWhenUsed`, `OnlyStoppedInShutdown`, `SilentTrackersLeftAlone` (two
requests in the response time only if answered in between), `ShutdownEnds`, `CompletionHeard`,
and the type invariant, whose point is the bound on the retry counter that a shift uses.

Properties of the connections:

- `QueuedBytesAgree`, `StreamInSync`, `ServedWithinLimit` (`WriteQueue`): `queued_bytes` is
  what is queued, a message begun is finished whatever is cancelled around it, and served
  blocks stay within the limit.
- `OnlyWantedServed`, `BitfieldFirst`: a block goes only to a peer that has asked for it and
  not taken the request back, and nothing but the handshake precedes our bitfield.
- `ImplementsChannel` (`WireLink`): the messages handled are the messages queued and not
  taken back, in order and all of them, however the bytes are cut.
- `WithinLimits`, `NoAddressBlocked`, `BannedNotConnected`, `DialledOnce`, `PendingEnds`,
  `CandidatesDialled` (`PeerPool`): see the comments there.

Properties of disk and inputs:

- `StoredIsIntact`, `ReportedIsDurable` (`DiskManager`): what is vouched for is in place byte
  by byte, and read back right, after any kill or power failure and restart; a download reported
  as complete is in place and stays so through all of them.
- `AcceptsCanonical`, `InfoIsDelimited` (`Bencode`): the parser accepts the encodings of
  legal values and nothing else, and the info hash covers the right characters.
- `AcceptsSound`, `PiecesTile` (`Torrent`): validation accepts exactly the layouts that a
  definition with plain quantifiers and unbounded sums calls sound, and every byte of an
  accepted torrent is in exactly one piece.
- `IsItsPieces` (`Bitfield`): a bitfield's bytes are those of its pieces, however it came about.

**Bounds.** Two connections (`MaxJoins = 2`) are what a block changing hands, a shared
piece or a second connection of a host needs. In `session_pool` both belong to one
host, since only bans look at hosts. Two-block pieces give an attempt
two senders; a one-block second piece is shorter, as the last piece of a
torrent is. `MaxRead = 2` puts two events of one peer in a batch (a block and then a
choke, say); `session_bans` needs more states per block and takes 1. `PipelineDepth` is 2, or
1 where a piece must be larger than the pipeline (32 requests of 16 KiB in the code, so
any piece of more than 512 KiB is). The tracker's durations keep the order of the real ones
(response timeout < id lifetime <= minimum < default < maximum interval become 1, 2, 2, 3, 4);
the reply intervals are 0 (which stands for the default), one below the minimum and one
above the maximum; `MaxRetries` (8) is 1, so that the cap is met. Trackers do not
interact except through two flags, so one tracker is enough. In `serving` one of the two peers
may ask for the same block twice and for one that cannot be read, and two blocks reach the
limit. `peer_pool` has three
addresses on two hosts and more sockets than the limit; the ages are large enough that a
handshake may outlast a connect. `disk` takes every layout of up to three files, four
bytes and pieces of up to three, so that borders of files and pieces fall in every
order, with empty files among them. In `inputs` the alphabet has every kind of character the
parser tells apart; inputs grow to 11 characters, or 17 over the few that nested
dictionaries need. `Limit` is 7, so that sums of two lengths come to it, pass it and wrap.
`wire_link` queues up to three messages (a keep-alive, one integer, three, two and data, a
bitfield; the integers as large as the receiver accepts) over a line that holds fewer bytes than the longest has.

**Fairness.** The loop takes steps for ever: `poll()` has a timeout and every
inner loop is finite. For the download to complete at least one steady host must
connect, have every piece, unchoke and answer in time; other hosts may do as they
like with the requests they get, except alternate choke and unchoke for ever
(`<>[][NoReprieve]_vars`: any number of times is fine), since nothing in the code prevents
such a peer from being given the same block each time, and without this premise TLC finds just
that. In the run the other host has one connection: what a second one would add is
out of reach of the liveness check, and left to the safety runs. A request left unanswered is timed out (`TimesOut`): it grows
older in every round. For `ShutdownEnds` it is enough that the loop runs and the
clock advances. `CompletionHeard` also assumes that the client is left running and that of
endless attempts some lookup, send and reply succeeds; that is strong fairness of those
steps. `PeerPool` assumes that the loop goes on (`WF` of its steps) and that the clock advances
at some of its polls (`SF` of `Poll(1)`): nothing of the peers. `WireLink` assumes that a socket
which can be written or read is, in the end. `SessionLiveness` and `TrackerLiveness` state each
assumption.

## 4. Where the code and its documentation disagree

Three of these are runs of the list above:

- *A corrupt peer can stall the download.* A ban needs a failed piece with a sole sender,
  or a retry that passes. The `bad-data` test has pieces of 16 blocks, which fit in one
  pipeline of 32, and there both happen. With a piece larger than a pipeline the two peers
  can share every attempt, the corrupt share spoils each, and nothing is learnt from the
  second failure on. The counterexample has both peers answering for ever, and the
  shares falling so each time.
- *`completed` may wait for an interval.* A tracker with an announce in flight when
  the download finishes goes to rest with `completed` unsent. `CompletionHeard`
  shows that it does hear of it in the end.
- *An inbound connection can erase an address that is still in use.* `drop()` erases the
  address of every connection from `known_`. A peer that calls from the port it listens on,
  and hangs up, makes an address dialable that is queued, dialled or connected. `DialledOnce`
  therefore assumes that nobody calls from an address we may dial.

Three lesser ones have a configuration that TLC refutes in seconds:

- *Retries are not from one peer* (`MCSession`, `MCRetry.cfg`). `ban_manager.hpp` describes
  failed pieces as retried from one peer at a time. No caller sets an owner.
- *Rarity is not the sum of the bitfields* (`MCSession`, `MCRarity.cfg`) when a have message
  precedes the bitfield: the piece counts twice and the surplus outlives the connection.
- *There can be something to withdraw* (`TrackerManager`, `MCWithdraw.cfg`). A tracker whose
  reply to `started` is lost lists us, and is not told `stopped`, whatever the comment
  in `begin_shutdown()` says.

## 5. What is proved

The theorems hold for every torrent, set of hosts, pipeline depth, number of connections,
trackers, sockets, requests, message sizes, limits, layouts of files, widths of bytes and integers, and
lists of files, under the assumptions named in `Swarm`, `PeerWire`, `Session`, `TrackerManager`,
`PeerPool`, `WriteQueue`, `DiskManager`, `WireLink`, `Torrent` and `Bitfield` (finite sets, pieces of at
least one block, messages of at least one byte, `NoPeer` and `NoHost` outside their sets,
intervals in order, and what the link assumes of messages, below).

| module | theorems | state |
|---|---|---|
| SessionBooks | `TypeCorrect`, `RarityNeverWraps`, `ResumeNeverReported` | `[]TypeOK`, `[]FrequencyCoversPeers` up to the 32768th connection, `NoCompletionOnResume` |
| SessionProofs | `RequestsNeverLost`, `RequestsNeverShared`, `AnswersNeverRejected`, `SessionImplementsPool` | `[]NoBlockLost`, `[]NoBlockHeldTwice`, `[]NothingRejected`, `ImplementsPool` |
| | `PeersAreInformed`, `AnnouncedIsStored`, `SnubbedComeLast` | `[]PeersToldWhatWeHave`, `[]ToldIsStored`, `[]SnubbedGetLeftovers` |
| | `HonestHostsNeverBanned`, `BannedHostsGone`, `EvidenceAlwaysConvicts`, `SendersOnRecord` | `[]OnlyLiarsBanned`, `[]NoBannedConnection`, `[]EvidenceConvicts`, `[]SenderOnRecord` |
| NetworkProofs | `TrackerTypeCorrect`, `CreditIsEarned`, `SocketsMatchStates`, `ShutdownOnlyStops`, `SilenceRespected` | `[]TypeOK`, `[]ReportedIsHeard`, `[]SocketOpenWhenUsed`, `[]OnlyStoppedInShutdown`, `SilentTrackersLeftAlone` |
| | `PoolTypeCorrect`, `BannedStayOut`, `AddressesComeFree`, `LimitsHold`, `NoDoubleDial` | `[]PoolTypeOK`, `[]BannedNotConnected`, `[]NoAddressBlocked`, `[]WithinLimits`, `[]DialledOnce` if nobody calls from an address we may dial |
| WriteQueueProofs | `CountsNeverDrift`, `StreamsStayInSync`, `ServesWithinLimit`, `BitfieldComesFirst`, `ServesOnlyWanted` | `[]QueuedBytesAgree`, `[]StreamInSync`, `[]ServedWithinLimit`, `[]BitfieldFirst`, `[]OnlyWantedServed` |
| DiskManagerProofs | `DiskInvariant`, `VouchedForIsIntact`, `CompletedIsDurable` | `[]Inv`, `[]StoredIsIntact`, `[]ReportedIsDurable` |
| LinkProofs | `LinkIsChannel`, `FramerNeverFails` | the safety half of `ImplementsChannel`; `[](stage # "dropped")` |
| FormatProofs | `BitfieldIsItsPieces`, `TorrentsAreSound`, `TorrentsAreTiled` | `[]IsItsPieces`, `[]AcceptsSound`, `[]PiecesTile` |
| TotalsProofs | lemmas | what a sum and a count over a sequence become when it grows at the end, loses its head or an entry in the middle; how pieces of one length tile a range of bytes |

Few of these are inductive alone. Two invariants carry the bookkeeping of the download
(`SessionBooks`): `LoopInv` (the loops hold only connections that exist; events are
pending only until they are dispatched; a closed connection has no requests) and
`PieceInv` (blocks are in progress only in active pieces, and `received` counts
the Received blocks, so that a verdict falls only when all of them are there).

*Requests.* `Ledger` restates the three properties as one: every holder's list is
free of repeats, the lists of different holders are disjoint, and together they
are exactly the Requested blocks. Each action then moves blocks between two
holders (`LedgerMove`), takes a holder off (`LedgerSettle`) or adds one
block (`LedgerGrow`). The refinement of `BlockPool` follows from the same invariant:
what an event releases, or a ban takes back, is Requested, and the block an event
delivers is, too.

*Bans.* `BanInv` follows a block from its sender to the ban: a connection that is
read from has its host on record (`JoinsRecorded`), so has the sender of every
undispatched block (`EventsAttributed`), every received block (`SenderOnRecord`) and every
block of the evidence (`EvidenceAttributed`); a corrupt block's host is a
liar at each stage. A sole sender of a failed piece has then sent a bad block, and
a block of the evidence that differs from a verified piece is a bad one.

*Availability counts.* `FrequencyCoversPeers` is kept only while a 16-bit count cannot overflow.
A have message that precedes the bitfield makes a piece count twice and the surplus outlives the
connection, so `FreqInv` bounds each count by the connections ever made and those that have the
piece (a connection that may still send its bitfield leaves room for it). Below 32768
connections that is less than 65536. This is the reach of the code and not of the proof:
connection ids are 32 bits wide, and after enough such peers a count does wrap.
`ResumeNeverReported` needs that the recheck has found what it has read of the disk and counted it
right (`RecheckInv`), and that from such a start `completed_` is set before the first round
(`ResumeInv`).

*What peers are told.* `ToldInv` adds that Joined events come before all others of the
list, one for each connection (`JoinsFirst`), that a connection which is gone has been
told nothing, and that, but for a write that failed, what we have is stored. For the snubbed, `FillInv` says that when `fill()` has passed a
peer, its pipeline is full or `pick_block()` has nothing for it; a block given to one
peer takes a choice from the others and opens none (`StillCannot`), which rests on
`pick_block()` choosing exactly when there is something to choose (`NoChoice`).

*Trackers.* `TrackerInv` says of each tracker what its state owes to the network: a fresh
datagram carries the event in flight, a fresh reply means that the event was heard, and a
request without an answer leaves the timers at least the response time. Every step concerns
one tracker, or all alike, so the proof treats one record (`LocalStep`).
`BackoffAssumption`, that powers of two are positive numbers, is assumed because it takes
an induction that the provers cannot instantiate; TLC evaluates it.

*Write queues.* A queue changes in few ways (`QueueStep`: kept, grown by an answer or by other
messages, cancelled from, sent from, emptied), and `QueueSteps` shows once that every action does
one of these to each queue; the count, the stream and the limit are then followed through each.
The limit rests on the count, and the stream on `remove_queued_piece()` sparing a front message
that has been begun. `BitfieldFirst` needs `BatchInOrder` (the joins come before all else of a
batch, one for each connection, and a connection whose join is still to come is fresh while
keep-alives may be due) and `NothingLeft` (a new connection starts with an empty queue).
For `OnlyWantedServed`, `Covered` counts the answers queued whole and allows one more
for the one begun. A cancel then takes off one request of the batch, or one queued
answer, or finds none of either but the one begun (`CancelCovered`); the first bytes of an answer
trade the request for the begun message (`SendCovered`). `Totals` makes a sum the cardinality of
a set of units, which takes the place of an induction over the queue.

*The pool of connections.* Three of the properties are inductive with the types. `DialledOnce`
needs `DialInv`: addresses of callers and of dials are apart, and an address that is waiting
or dialled is known. The limits need the sizes of finite sets of sockets under the moves
that a round makes.

*The disk.* Each loop of the code over files, pieces or bytes is a sequence of steps of the model,
so the induction over data that the prover lacks becomes the induction over steps. Two facts about
the torrent come first: the pieces tile it (`PieceFacts`, from `Tiling`: pieces are disjoint, none is
empty, the last ends with the torrent), and a byte has one place, since the files before one of two files end
where it begins or earlier (`OnePlace`). The bytes before a file are a sum of `Totals`. `Inv` says of
the stored pieces what `StoredIsIntact` does (`StoredOK`) and adds:

- `FilesOK`: the entries of the files opened so far lie end to end from 0 to `cursor`, none is
  empty, and a file opened is at least as long as it should be. So `locate()` finds the one entry
  that contains an offset (`Located`) and the next slice starts where the next entry does
  (`SliceFacts`).
- `SliceOK`, `JobOK`, `OutOK`: a job is inside its piece, its next byte is in the entry it is at,
  and what it has read is what the files hold there. The recheck therefore vouches for exactly the
  intact pieces (`RecheckSays`).
- `WriteOK`: a write under way has put in place the bytes it has counted. With the last `pwrite()` the
  piece is intact (`PwriteEffect`), and since bytes have one place no other piece is disturbed.
- `RightOK`, `DurableOK`, `SafeOK`: a byte of a file is the right one or not there yet; what has
  been flushed is there, and of a reported download that is everything. Only bytes that are not
  flushed are lost in a power failure; so a reported download stays as it is.

*The link.* `LinkInv` says what the bytes on their way are. Take the *frames*: the handshake, until
it has been read, and then the encodings of `inFlight`. `write_buffer` holds the last of them
whole, and what the receiver has buffered, followed by what TCP holds, is the others end to end
and then the first `cursor` bytes of the next (`Line`, `Carries`; `Cuts` names the places where one frame
ends and the next begins). `Framed` and `Decoded` say that the frame of a message has its length
in front and that `handle_message()` makes the message of the rest. Then a length prefix at
the front of `read_buffer` is that of the oldest message in flight, and once that is there whole
it is what is handled (`LineMessage`); a read capped at what is missing of the handshake ends where
the handshake does (`LineOpen`); a message taken back is one of which nothing has been sent, and not
the handshake (`LineRemove`). So every step of the bytes is a step of the channel or none
(`LinkStep`), and nothing ever makes a client of this kind drop another for a protocol error.
What is assumed of messages is that each has the fields its id calls for, names no piece
past the last and no block above `kBlockSize`, carries a bitfield that `from_bytes()` accepts, and
fits the limit of `extract_message()`, 1 MiB. Both ends have the same torrent, so that is so for all that
this client sends but a bitfield of more than 8 388 600 pieces, which its own kind would refuse.

*Bitfields.* `BitfieldInv`: the bytes are `Packed(bits, marked)`, the bytes defined from the pieces by
quotient and remainder. Every place of every byte belongs to one number and back
(`PlaceFacts`, `PieceAtFacts`), so `set()` adds the one place of its piece, and a message whose
spare bits are clear says nothing of numbers that are no piece.

*Torrent files.* For the paths, `Neighbours`: if two of a sorted list collide, then so do two
neighbours, since whatever is sorted between a path and one that begins with it begins with
it too (`Between`). For the lengths, `TorrentInv` holds that the sum so far is the true one and within the
limit: two numbers up to the limit do not wrap an unsigned sum (`NoWrap`), so the comparison sees the true
next sum. It is right only because `validate_layout()` comes first and rejects negatives,
as the comment in `calculate_total_length()` says. The loop is a sequence of steps, and the sum one of `Totals`, so no
induction over the list is needed. That the quotient rounded up is the one count of pieces
that covers the bytes is `Counted`; `Tiling` then is the same fact about pieces that the disk rests on.

Only model-checked: the liveness properties (the prover has no fairness or
`ENABLED`), with them the half of `ImplementsChannel` that says that every message arrives; and
`Bencode`, whose properties say what a recursive descent computes for every
input, an induction over data.

## 6. Not modelled

- `main.cpp` and `src/cli/`: reading arguments, and a signal handler whose only effect is
  the flag that `Shutdown` and `BeginShutdown` read.
- `unique_fd`, `sha1`, logging, the peer id, the print functions and the status line: no
  state that anything depends on.
- `send_choke()`, `set_owner()`, `set_retry_owner()` and `release_retries()`, which no
  code calls, and `peer_interested`, which nothing reads.
- The layout of tracker packets, the parsing of tracker URLs, and the fields of a torrent
  that nothing checks.
- A partial write of our handshake on a fresh outbound connection. It is only
  logged by the code; the dial would then end by its deadline.
