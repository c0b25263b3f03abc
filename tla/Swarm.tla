------------------------------- MODULE Swarm -------------------------------
(***************************************************************************)
(* What every module of the download side shares: the torrent as the       *)
(* piece-level code sees it (src/core/types.hpp, src/metainfo/torrent.hpp) *)
(* and the peers around the client.                                        *)
(*                                                                         *)
(* A block request (piece_index, offset, length) is the pair <<p, b>> of a *)
(* piece and a block number: offset = b * kBlockSize, and the length is a  *)
(* function of the two.  The bytes of a block are abstracted to what the   *)
(* SHA-1 check and memcmp can tell apart.                                  *)
(***************************************************************************)
EXTENDS Naturals, Sequences, FiniteSets

CONSTANTS
    Pieces,       \* the piece indices
    BlockCount,   \* blocks of each piece
    PieceSize,    \* bytes of each piece
    Hosts,        \* the IP addresses peers connect from
    Liars,        \* the hosts that may answer with corrupt bytes
    NoHost,       \* not a host
    MaxJoins      \* bound: connections promoted over a run (ids 0..MaxJoins-1)

ASSUME SwarmAssumption ==
    /\ IsFiniteSet(Pieces)
    /\ BlockCount \in [Pieces -> Nat \ {0}]
    /\ PieceSize \in [Pieces -> Nat \ {0}]
    /\ IsFiniteSet(Hosts)
    /\ Liars \subseteq Hosts
    /\ NoHost \notin Hosts
    /\ MaxJoins \in Nat

BlockIdx(p) == 0 .. (BlockCount[p] - 1)

\* Every block of the torrent.
Blocks == UNION {{p} \X BlockIdx(p) : p \in Pieces}

\* Connection ids: PeerManager::next_id_ counts up and never reuses one.
Ids == 0 .. (MaxJoins - 1)

\* "blank" is a block of a freshly allocated (zero-filled) piece buffer.
Content == {"blank", "good", "bad"}

\* Unsigned 16-bit counters.
TwoTo16 == 65536

Uint16 == {n \in Nat : n < TwoTo16}

Wrap16(n) == n % TwoTo16

\* The entries of a vector of requests.
Entries(s) == {s[i] : i \in 1 .. Len(s)}
=============================================================================
