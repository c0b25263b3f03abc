---------------------------- MODULE BanManager ----------------------------
(***************************************************************************)
(* BanManager (src/runtime/managers/ban_manager.{hpp,cpp}): who sent each  *)
(* block, the failed attempts kept as evidence, and the verdicts.          *)
(*                                                                         *)
(* A missing map entry is the empty sequence (senders_) or a piece outside *)
(* the set evidence (evidence_).  retry_owner_ is left out: its only       *)
(* writer, set_retry_owner(), has no caller, so the map is always empty.   *)
(***************************************************************************)
EXTENDS Swarm

VARIABLES
    hosts,            \* hosts_: connection id -> host, kept after it disconnects
    senders,          \* senders_: piece -> connection id per block
    evidence,         \* the keys of evidence_
    evidenceData,     \* evidence_[p].data, per block
    evidenceSenders   \* evidence_[p].senders

banVars == <<hosts, senders, evidence, evidenceData, evidenceSenders>>

BansTypeOK ==
    /\ hosts \in [Ids -> Hosts \cup {NoHost}]
    /\ senders \in [Pieces -> Seq(Ids)]
    /\ evidence \subseteq Pieces
    /\ evidenceData \in [Blocks -> Content]
    /\ evidenceSenders \in [Pieces -> Seq(Ids)]

----------------------------------------------------------------------------
OnJoin(id, h) ==
    /\ hosts' = [hosts EXCEPT ![id] = h]
    /\ UNCHANGED <<senders, evidence, evidenceData, evidenceSenders>>

\* on_block(): slot b of the piece's senders, which resize() grows with zeros
\* (and zero is a connection id).
WithSender(s, b, id) ==
    [i \in 1 .. (IF b + 1 > Len(s) THEN b + 1 ELSE Len(s)) |->
        IF i = b + 1 THEN id ELSE IF i <= Len(s) THEN s[i] ELSE 0]

\* on_piece_failed(): the hosts to ban when s lists the senders of the piece.
SoleSender(s) == \A i \in 1 .. Len(s) : s[i] = s[1]

\* Faulty variant: every peer that took part in a failed piece is banned.
FailedBansAll(s) == {hosts[s[i]] : i \in 1 .. Len(s)} \ {NoHost}

FailedBans(s) ==
    IF s # <<>> /\ SoleSender(s) THEN {hosts[s[1]]} \ {NoHost} ELSE {}

\* Faulty variant: the senders are cleared before the evidence copies them.
OnPieceFailedMoved(r, id, bytes) ==
    LET p == r[1]
        keep == ~SoleSender(WithSender(senders[p], r[2], id)) /\ p \notin evidence
    IN  /\ senders' = [senders EXCEPT ![p] = <<>>]
        /\ evidence' = IF keep THEN evidence \cup {p} ELSE evidence
        /\ evidenceData' = IF keep
                           THEN [x \in Blocks |-> IF x[1] = p THEN bytes[x] ELSE evidenceData[x]]
                           ELSE evidenceData
        /\ UNCHANGED <<hosts, evidenceSenders>>

\* on_block() followed by on_piece_failed(): the attempt's senders are
\* forgotten, and kept as evidence if there were several and none is kept yet.
OnPieceFailed(r, id, bytes) ==
    LET p == r[1]
        s == WithSender(senders[p], r[2], id)
        keep == ~SoleSender(s) /\ p \notin evidence
    IN  /\ senders' = [senders EXCEPT ![p] = <<>>]
        /\ evidence' = IF keep THEN evidence \cup {p} ELSE evidence
        /\ evidenceData' = IF keep
                           THEN [x \in Blocks |-> IF x[1] = p THEN bytes[x] ELSE evidenceData[x]]
                           ELSE evidenceData
        /\ evidenceSenders' = IF keep THEN [evidenceSenders EXCEPT ![p] = s]
                                      ELSE evidenceSenders
        /\ UNCHANGED hosts

\* on_piece_verified(): the hosts whose blocks of the failed attempt differ
\* from the verified piece, whose blocks are all good.
VerifiedBans(p) ==
    IF p \in evidence
    THEN {hosts[evidenceSenders[p][b + 1]] :
            b \in {x \in BlockIdx(p) : /\ x < Len(evidenceSenders[p])
                                       /\ evidenceData[<<p, x>>] # "good"}} \ {NoHost}
    ELSE {}

\* on_block() followed by on_piece_verified(): the piece is forgotten.
OnPieceVerified(p) ==
    /\ senders' = [senders EXCEPT ![p] = <<>>]
    /\ evidence' = evidence \ {p}
    /\ evidenceData' = [x \in Blocks |-> IF x[1] = p THEN "blank" ELSE evidenceData[x]]
    /\ evidenceSenders' = [evidenceSenders EXCEPT ![p] = <<>>]
    /\ UNCHANGED hosts

\* on_block() when the piece gets no verdict yet.
OnBlock(r, id) ==
    /\ senders' = [senders EXCEPT ![r[1]] = WithSender(@, r[2], id)]
    /\ UNCHANGED <<hosts, evidence, evidenceData, evidenceSenders>>
=============================================================================
