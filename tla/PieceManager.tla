--------------------------- MODULE PieceManager ---------------------------
(***************************************************************************)
(* PieceManager (src/runtime/managers/piece_manager.{hpp,cpp}): which      *)
(* pieces we have, and for every piece in progress the state of each of    *)
(* its blocks.  active_, a map from a piece to its PartialPiece, is kept   *)
(* as the set of its keys and one function per field; a piece outside      *)
(* active has the fields activate() gives a new PartialPiece.              *)
(*                                                                         *)
(* PartialPiece::owner is left out: set_owner() has no caller, so every    *)
(* piece stays open to every peer (see README.md).                         *)
(***************************************************************************)
EXTENDS Swarm

VARIABLES
    have,        \* have_: the verified pieces
    haveCount,   \* have_count_
    haveBytes,   \* have_bytes_
    active,      \* the keys of active_
    state,       \* states[b] of each active piece
    received,    \* received of each active piece
    data         \* data of each active piece, per block

pieceVars == <<have, haveCount, haveBytes, active, state, received, data>>

PiecesTypeOK ==
    /\ have \subseteq Pieces
    /\ haveCount \in Nat
    /\ haveBytes \in Nat
    /\ active \subseteq Pieces
    /\ state \in [Blocks -> {"Missing", "Requested", "Received"}]
    /\ received \in [Pieces -> Nat]
    /\ data \in [Blocks -> Content]

----------------------------------------------------------------------------
\* is_complete() compares counters, not bitfields.
IsComplete == haveCount = Cardinality(Pieces)

\* SHA-1 is taken to be collision free: a piece verifies iff every block is good.
Verify(p, bytes) == \A b \in BlockIdx(p) : bytes[<<p, b>>] = "good"

\* Faulty variant: a block is offered until it is received.
NextUnreceived(p) ==
    {r \in {p} \X BlockIdx(p) :
        /\ state[r] # "Received"
        /\ \A b \in BlockIdx(p) : b < r[2] => state[<<p, b>>] = "Received"}

\* The lowest-numbered Missing block of a piece: a singleton, or empty.
NextMissing(p) ==
    {r \in {p} \X BlockIdx(p) :
        /\ state[r] = "Missing"
        /\ \A b \in BlockIdx(p) : b < r[2] => state[<<p, b>>] # "Missing"}

\* What pick_block() may return to a peer with these pieces.  active_ is an
\* unordered map and ties between equally rare pieces are broken at random, so
\* any piece in progress with a Missing block, else any rarest new piece.
PickChoices(peerHas, availability) ==
    LET inProgress == UNION {NextMissing(p) : p \in active \cap peerHas}
        fresh      == (peerHas \ have) \ active
        rarest     == {p \in fresh : \A q \in fresh : availability[p] <= availability[q]}
    IN  IF inProgress # {} THEN inProgress
                           ELSE {<<p, 0>> : p \in rarest}

\* pick_block() hands out block r, activating its piece when it is new.
PickBlock(r) ==
    /\ active' = active \cup {r[1]}
    /\ state' = [state EXCEPT ![r] = "Requested"]
    /\ UNCHANGED <<have, haveCount, haveBytes, received, data>>

\* Faulty variant: released requests stay Requested.
ReleaseNothing(st, act, reqs) == st

\* Faulty variant: received blocks are given up as well.
ReleaseAll(st, act, reqs) ==
    [r \in Blocks |-> IF \E q \in reqs : q[1] = r[1] /\ r[1] \in act
                      THEN "Missing" ELSE st[r]]

\* release(): requested blocks of st that are still in progress go back to Missing.
Release(st, act, reqs) ==
    [r \in Blocks |-> IF r \in reqs /\ r[1] \in act /\ st[r] = "Requested"
                      THEN "Missing" ELSE st[r]]

----------------------------------------------------------------------------
\* Faulty variant: a block that ends where the piece ends is out of bounds.
BlockStatusShort(r, bytes) ==
    LET p == r[1]
    IN  IF p \in have \/ p \notin active \/ state[r] = "Received" \/ r[2] + 1 >= BlockCount[p]
        THEN "Rejected"
        ELSE IF received[p] + 1 < BlockCount[p] THEN "Incomplete" ELSE "PieceVerified"

\* on_block(): the status it returns for a block of the torrent.
BlockStatus(r, bytes) ==
    LET p == r[1]
    IN  IF p \in have \/ p \notin active \/ state[r] = "Received" THEN "Rejected"
        ELSE IF received[p] + 1 < BlockCount[p]                   THEN "Incomplete"
        ELSE IF Verify(p, [data EXCEPT ![r] = bytes])             THEN "PieceVerified"
        ELSE "PieceFailed"

\* Every status of on_block() but Rejected copies the bytes into the piece.
Filed(r, bytes) == [data EXCEPT ![r] = bytes]

\* The block states of piece p once its attempt is over.
Restarted(p) == [r \in Blocks |-> IF r[1] = p THEN "Missing" ELSE state[r]]

\* Incomplete: the piece still misses blocks.
FileBlock(r, bytes) ==
    /\ state' = [state EXCEPT ![r] = "Received"]
    /\ received' = [received EXCEPT ![r[1]] = @ + 1]
    /\ data' = Filed(r, bytes)
    /\ UNCHANGED <<have, haveCount, haveBytes, active>>

\* PieceFailed: every block is Missing again; the buffer keeps its bytes.  The
\* caller gives state', which the requests it releases afterwards also change.
FailPiece(r, bytes) ==
    /\ received' = [received EXCEPT ![r[1]] = 0]
    /\ data' = Filed(r, bytes)
    /\ UNCHANGED <<have, haveCount, haveBytes, active>>

PassPiece(r) ==
    LET p == r[1]
    IN  /\ active' = active \ {p}
        /\ received' = [received EXCEPT ![p] = 0]
        /\ data' = [x \in Blocks |-> IF x[1] = p THEN "blank" ELSE data[x]]
        /\ have' = have \cup {p}
        /\ haveCount' = haveCount + 1
        /\ haveBytes' = haveBytes + PieceSize[p]
=============================================================================
