---------------------------- MODULE SessionBooks ----------------------------
(***************************************************************************)
(* What the other proofs about Session rest on, for every torrent and      *)
(* every swarm: its types, and the bookkeeping of the main loop and of     *)
(* PieceManager (LoopInv, PieceInv).  With it go two facts about numbers:  *)
(* the counters of RarityMap never wrap around, and a download that was    *)
(* complete when the client started is never reported.                     *)
(***************************************************************************)
EXTENDS Session, FiniteSetTheorems, TLAPS

\* Zenon first, then SMT, with time for a slow machine.
USE ZenonT(6), SMTT(60), ZenonT(60)

----------------------------------------------------------------------------
(* The types *)

\* A block is a piece and one of its block numbers.
LEMMA BlockParts ==
    /\ \A r \in Blocks : /\ r[1] \in Pieces
                         /\ r[2] \in BlockIdx(r[1])
                         /\ r[2] \in Nat
                         /\ r = <<r[1], r[2]>>
    /\ \A p \in Pieces : \A b \in BlockIdx(p) : <<p, b>> \in Blocks
    /\ \A p \in Pieces : 0 \in BlockIdx(p)
  BY SwarmAssumption DEF Blocks, BlockIdx

\* A block number below the length of a senders list has an entry there.
LEMMA SenderEntry ==
    ASSUME NEW S, NEW s \in Seq(S), NEW b \in Nat, b < Len(s)
    PROVE  b + 1 \in 1 .. Len(s) /\ s[b + 1] \in S
  <1>1. b + 1 \in 1 .. Len(s)
    OBVIOUS
  <1>. QED
    BY <1>1

\* There are finitely many connection ids.
LEMMA IdsFinite == IsFiniteSet(Ids)
  BY FS_Interval, SwarmAssumption DEF Ids

\* pending.erase() keeps the other requests.
LEMMA EraseType ==
    ASSUME NEW S, NEW s \in Seq(S), NEW i \in 1 .. Len(s)
    PROVE  /\ Erase(s, i) \in Seq(S)
           /\ Len(Erase(s, i)) = Len(s) - 1
           /\ \A j \in 1 .. (Len(s) - 1) :
                 Erase(s, i)[j] = IF j < i THEN s[j] ELSE s[j + 1]
  <1>1. Len(s) - 1 \in Nat
    OBVIOUS
  <1>2. Erase(s, i) \in [1 .. (Len(s) - 1) -> S]
    BY DEF Erase
  <1>3. Erase(s, i) \in Seq(S)
    BY <1>1, <1>2
  <1>. QED
    BY <1>1, <1>2, <1>3 DEF Erase

\* take_stale() leaves the requests behind the prefix it takes.
LEMMA TailType ==
    ASSUME NEW S, NEW s \in Seq(S), NEW n \in 1 .. Len(s)
    PROVE  /\ SubSeq(s, n + 1, Len(s)) \in Seq(S)
           /\ Len(SubSeq(s, n + 1, Len(s))) = Len(s) - n
           /\ \A j \in 1 .. (Len(s) - n) : SubSeq(s, n + 1, Len(s))[j] = s[n + j]
  OBVIOUS

\* Recording a sender keeps the list a list of connection ids, gives block b
\* its sender and leaves the slots of the other blocks alone.
LEMMA WithSenderType ==
    ASSUME NEW s \in Seq(Ids), NEW b \in Nat, NEW id \in Ids
    PROVE  /\ WithSender(s, b, id) \in Seq(Ids)
           /\ b < Len(WithSender(s, b, id))
           /\ Len(s) <= Len(WithSender(s, b, id))
           /\ WithSender(s, b, id)[b + 1] = id
           /\ \A i \in 1 .. Len(s) : i # b + 1 => WithSender(s, b, id)[i] = s[i]
  <1> DEFINE n == IF b + 1 > Len(s) THEN b + 1 ELSE Len(s)
  <1>1. n \in Nat /\ b + 1 <= n /\ Len(s) <= n
    OBVIOUS
  <1>2. 0 \in Ids
    BY SwarmAssumption DEF Ids
  <1>3. WithSender(s, b, id) \in [1 .. n -> Ids]
    BY <1>2 DEF WithSender
  <1>4. WithSender(s, b, id) \in Seq(Ids) /\ Len(WithSender(s, b, id)) = n
    BY <1>1, <1>3
  <1>. QED
    BY <1>1, <1>4 DEF WithSender

\* A block handed out is a block of the torrent that nobody holds.
LEMMA PickIsMissing ==
    ASSUME PiecesTypeOK,
           \A r \in Blocks : r[1] \notin active => state[r] = "Missing",
           NEW has \in SUBSET Pieces, NEW avail, NEW r \in PickChoices(has, avail)
    PROVE  r \in Blocks /\ state[r] = "Missing" /\ r[1] \notin have \ active
  <1>1. CASE r \in UNION {NextMissing(p) : p \in active \cap has}
    BY <1>1, BlockParts DEF NextMissing
  <1>2. CASE \E p \in (has \ have) \ active : r = <<p, 0>>
    BY <1>2, BlockParts
  <1>. QED
    BY <1>1, <1>2 DEF PickChoices

\* A counter that wraps around stays 16 bits wide.
LEMMA WrapType ==
    /\ TwoTo16 \in Nat /\ 0 \in Uint16
    /\ \A n \in Int : Wrap16(n) \in Uint16
    /\ \A n \in Uint16 : Wrap16(n + 1) \in Uint16
  BY SMTT(60) DEF Wrap16, Uint16, TwoTo16

\* ... and one that does not wrap around counts.
LEMMA WrapFits ==
    /\ \A n \in Nat : n < TwoTo16 => Wrap16(n) = n
    /\ \A n, k \in Nat : k <= n /\ n < TwoTo16 => Wrap16(n + TwoTo16 - k) = n - k
  BY SMTT(60) DEF Wrap16, TwoTo16

\* piece_frequency_ stays 16 bits wide when peers leave.
LEMMA FrequencyType ==
    ASSUME TypeOK, NEW C \in SUBSET Ids
    PROVE  FrequencyWithout(C) \in [Pieces -> Uint16]
  <1> SUFFICES ASSUME NEW p \in Pieces
               PROVE  Wrap16(pieceFrequency[p] + TwoTo16
                                 - Cardinality({c \in C : p \in hasPieces[c]})) \in Uint16
    BY DEF FrequencyWithout
  <1>1. Cardinality({c \in C : p \in hasPieces[c]}) \in Nat
    <2>1. {c \in C : p \in hasPieces[c]} \in SUBSET Ids
      OBVIOUS
    <2>. QED
      BY <2>1, IdsFinite, FS_Subset, FS_CardinalityType
  <1>2. pieceFrequency[p] \in Nat
    BY DEF TypeOK, PeersTypeOK, Uint16
  <1>. QED
    BY <1>1, <1>2, WrapType

\* drop() and ban() keep the connection table well typed.
LEMMA DropType ==
    ASSUME TypeOK, NEW C \in SUBSET Ids, NEW news \in SUBSET Pieces,
           Drop(C, news), banned' \subseteq Hosts
    PROVE  PeersTypeOK'
  <1>1. pieceFrequency' \in [Pieces -> Uint16]
    BY FrequencyType DEF Drop
  <1>2. /\ gotBitfield' \in [Ids -> BOOLEAN]
        /\ peerChoking' \in [Ids -> BOOLEAN]
        /\ snubbed' \in [Ids -> BOOLEAN]
    BY DEF TypeOK, PeersTypeOK, Drop
  <1>3. /\ conns' \subseteq Ids
        /\ peerHost' \in [Ids -> Hosts \cup {NoHost}]
        /\ hasPieces' \in [Ids -> SUBSET Pieces]
        /\ nextId' \in 0 .. MaxJoins
    BY DEF TypeOK, PeersTypeOK, Drop
  <1>4. pending' \in [Ids -> Seq(Blocks)]
    BY DEF TypeOK, PeersTypeOK, Drop
  <1>5. told' \in [Ids -> SUBSET Pieces]
    BY DEF TypeOK, PeersTypeOK, Drop
  <1>. QED
    BY <1>1, <1>2, <1>3, <1>4, <1>5 DEF PeersTypeOK

\* The hosts on_piece_failed() and on_piece_verified() name are hosts.
LEMMA BansAreHosts ==
    ASSUME TypeOK
    PROVE  /\ \A s \in Seq(Ids) : FailedBans(s) \subseteq Hosts
           /\ \A p \in Pieces : VerifiedBans(p) \subseteq Hosts
  <1>1. ASSUME NEW s \in Seq(Ids) PROVE FailedBans(s) \subseteq Hosts
    <2>1. CASE s # <<>>
      <3>1. s[1] \in Ids
        BY <2>1
      <3>. QED
        BY <3>1 DEF TypeOK, BansTypeOK, FailedBans
    <2>2. CASE s = <<>>
      BY <2>2 DEF FailedBans
    <2>. QED
      BY <2>1, <2>2
  <1>2. ASSUME NEW p \in Pieces PROVE VerifiedBans(p) \subseteq Hosts
    <2> SUFFICES ASSUME NEW b \in BlockIdx(p), b < Len(evidenceSenders[p])
                 PROVE  hosts[evidenceSenders[p][b + 1]] \in Hosts \cup {NoHost}
      BY DEF VerifiedBans
    <2>1. evidenceSenders[p] \in Seq(Ids) /\ b \in Nat
      BY BlockParts, SwarmAssumption DEF TypeOK, BansTypeOK, BlockIdx
    <2>2. evidenceSenders[p][b + 1] \in Ids
      BY <2>1
    <2>. QED
      BY <2>2 DEF TypeOK, BansTypeOK
  <1>. QED
    BY <1>1, <1>2

\* What the head of the event queue is, and what is left behind it.
LEMMA HeadEvent ==
    ASSUME TypeOK, events # <<>>
    PROVE  /\ Head(events) \in Event
           /\ Head(events) = events[1] /\ 1 \in 1 .. Len(events)
           /\ Tail(events) \in Seq(Event)
           /\ Len(Tail(events)) = Len(events) - 1
           /\ \A i \in 1 .. Len(Tail(events)) : i + 1 \in 1 .. Len(events)
                                              /\ Tail(events)[i] = events[i + 1]
           /\ Head(events).peer \in Ids
           /\ Head(events).type = "Piece" => /\ Head(events).block \in Blocks
                                             /\ Head(events).bytes \in {"good", "bad"}
           /\ Head(events).type \in {"Choke", "Dropped"} => Head(events).released \in Seq(Blocks)
  <1>1. events \in Seq(Event)
    BY DEF TypeOK, LoopTypeOK
  <1>2. Head(events) \in Event /\ Tail(events) \in Seq(Event)
    BY <1>1
  <1>. QED
    BY <1>1, <1>2 DEF Event

\* The initial state is well typed.
LEMMA TypeInit == Init => TypeOK
  <1> SUFFICES ASSUME Init PROVE TypeOK
    OBVIOUS
  <1>1. PiecesTypeOK
    BY DEF Init, PiecesTypeOK, Content
  <1>2. BansTypeOK
    BY DEF Init, BansTypeOK, Content
  <1>3. PeersTypeOK
    <2>1. nextId \in 0 .. MaxJoins
      BY SwarmAssumption DEF Init, PeersInit
    <2>2. pieceFrequency \in [Pieces -> Uint16]
      BY WrapType DEF Init, PeersInit
    <2>3. /\ gotBitfield \in [Ids -> BOOLEAN]
          /\ peerChoking \in [Ids -> BOOLEAN]
          /\ snubbed \in [Ids -> BOOLEAN]
      BY DEF Init, PeersInit
    <2>4. /\ conns \subseteq Ids
          /\ peerHost \in [Ids -> Hosts \cup {NoHost}]
          /\ hasPieces \in [Ids -> SUBSET Pieces]
          /\ pending \in [Ids -> Seq(Blocks)]
          /\ banned \subseteq Hosts
          /\ told \in [Ids -> SUBSET Pieces]
      BY DEF Init, PeersInit
    <2>. QED
      BY <2>1, <2>2, <2>3, <2>4 DEF PeersTypeOK
  <1>4. LoopTypeOK
    BY DEF Init, LoopTypeOK, Phases
  <1>5. DiskTypeOK
    <2>1. completed \in BOOLEAN /\ notified \in BOOLEAN
      BY DEF Init
    <2>. QED
      BY <2>1 DEF Init, DiskTypeOK
  <1>. QED
    BY <1>1, <1>2, <1>3, <1>4, <1>5 DEF TypeOK

\* The parts of the type invariant that a step leaves alone.
LEMMA TypeUnchanged ==
    ASSUME TypeOK
    PROVE  /\ UNCHANGED pieceVars => PiecesTypeOK'
           /\ UNCHANGED banVars => BansTypeOK'
           /\ UNCHANGED peerVars => PeersTypeOK'
           /\ UNCHANGED loopVars => LoopTypeOK'
           /\ UNCHANGED diskVars => DiskTypeOK'
  <1>1. UNCHANGED pieceVars => PiecesTypeOK'
    BY DEF TypeOK, PiecesTypeOK, pieceVars
  <1>2. UNCHANGED banVars => BansTypeOK'
    BY DEF TypeOK, BansTypeOK, banVars
  <1>3. UNCHANGED peerVars => PeersTypeOK'
    BY DEF TypeOK, PeersTypeOK, peerVars
  <1>4. UNCHANGED loopVars => LoopTypeOK'
    BY DEF TypeOK, LoopTypeOK, loopVars
  <1>5. UNCHANGED diskVars => DiskTypeOK'
    BY DEF TypeOK, DiskTypeOK, diskVars
  <1>. QED
    BY <1>1, <1>2, <1>3, <1>4, <1>5

\* Messages and requests keep the connection table well typed.
LEMMA WireType ==
    ASSUME TypeOK, NEW c \in Ids
    PROVE  /\ \A h \in Hosts : Promote(h) => PeersTypeOK'
           /\ RecvChoke(c) \/ RecvUnchoke(c) => PeersTypeOK'
           /\ \A p \in Pieces : RecvHave(c, p) => PeersTypeOK'
           /\ \A bf \in SUBSET Pieces : RecvBitfield(c, bf) => PeersTypeOK'
           /\ \A i \in Nat : RecvPiece(c, i) => PeersTypeOK'
           /\ \A r \in Blocks : SendRequest(c, r) => PeersTypeOK'
           /\ \A n \in 1 .. Len(pending[c]) : TakeStale(c, n) => PeersTypeOK'
           /\ Greet(c, have) => PeersTypeOK'
  <1> USE DEF TypeOK, PeersTypeOK
  <1>1. \A h \in Hosts : Promote(h) => PeersTypeOK'
    BY SwarmAssumption DEF Promote, Ids
  <1>2. RecvChoke(c) \/ RecvUnchoke(c) => PeersTypeOK'
    <2>1. ASSUME RecvChoke(c) PROVE PeersTypeOK'
      BY <2>1 DEF RecvChoke
    <2>2. ASSUME RecvUnchoke(c) PROVE PeersTypeOK'
      BY <2>2 DEF RecvUnchoke
    <2>. QED
      BY <2>1, <2>2
  <1>3. ASSUME NEW p \in Pieces, RecvHave(c, p) PROVE PeersTypeOK'
    <2>1. Wrap16(pieceFrequency[p] + 1) \in Uint16
      BY WrapType
    <2>2. pieceFrequency' \in [Pieces -> Uint16]
      BY <1>3, <2>1 DEF RecvHave
    <2>3. hasPieces' \in [Ids -> SUBSET Pieces]
      BY <1>3 DEF RecvHave
    <2>. QED
      BY <1>3, <2>2, <2>3 DEF RecvHave
  <1>4. ASSUME NEW bf \in SUBSET Pieces, RecvBitfield(c, bf) PROVE PeersTypeOK'
    <2>1. \A p \in Pieces : Wrap16(pieceFrequency[p] + 1) \in Uint16
      BY WrapType
    <2>. QED
      BY <1>4, <2>1 DEF RecvBitfield
  <1>5. ASSUME NEW i \in Nat, RecvPiece(c, i) PROVE PeersTypeOK'
    <2>1. Erase(pending[c], i) \in Seq(Blocks)
      BY <1>5, EraseType DEF RecvPiece
    <2>. QED
      BY <1>5, <2>1 DEF RecvPiece
  <1>6. ASSUME NEW r \in Blocks, SendRequest(c, r) PROVE PeersTypeOK'
    BY <1>6 DEF SendRequest
  <1>7. ASSUME NEW n \in 1 .. Len(pending[c]), TakeStale(c, n) PROVE PeersTypeOK'
    <2>1. SubSeq(pending[c], n + 1, Len(pending[c])) \in Seq(Blocks)
      BY TailType
    <2>. QED
      BY <1>7, <2>1 DEF TakeStale
  <1>8. Greet(c, have) => PeersTypeOK'
    BY DEF Greet, PiecesTypeOK
  <1>. QED
    BY <1>1, <1>2, <1>3, <1>4, <1>5, <1>6, <1>7, <1>8

\* The operations of PieceManager keep its state well typed.
LEMMA PieceOpsType ==
    ASSUME TypeOK, NEW r \in Blocks, NEW bytes \in {"good", "bad"}
    PROVE  /\ PickBlock(r) => PiecesTypeOK'
           /\ FileBlock(r, bytes) => PiecesTypeOK'
           /\ \A act, reqs : \A st \in [Blocks -> {"Missing", "Requested", "Received"}] :
                 Release(st, act, reqs) \in [Blocks -> {"Missing", "Requested", "Received"}]
           /\ Restarted(r[1]) \in [Blocks -> {"Missing", "Requested", "Received"}]
           /\ FailPiece(r, bytes) /\ state' \in [Blocks -> {"Missing", "Requested", "Received"}]
                 => PiecesTypeOK'
           /\ PassPiece(r) /\ state' \in [Blocks -> {"Missing", "Requested", "Received"}]
                 => PiecesTypeOK'
           /\ Filed(r, bytes) \in [Blocks -> Content]
  <1> USE DEF TypeOK, PiecesTypeOK, Content
  <1>1. PickBlock(r) => PiecesTypeOK'
    BY BlockParts DEF PickBlock
  <1>2. FileBlock(r, bytes) => PiecesTypeOK'
    BY BlockParts DEF FileBlock, Filed
  <1>3. ASSUME NEW st \in [Blocks -> {"Missing", "Requested", "Received"}], NEW act, NEW reqs
        PROVE  Release(st, act, reqs) \in [Blocks -> {"Missing", "Requested", "Received"}]
    BY DEF Release
  <1>4. Restarted(r[1]) \in [Blocks -> {"Missing", "Requested", "Received"}]
    BY DEF Restarted
  <1>5. ASSUME FailPiece(r, bytes), state' \in [Blocks -> {"Missing", "Requested", "Received"}]
        PROVE  PiecesTypeOK'
    BY <1>5, BlockParts DEF FailPiece, Filed
  <1>6. ASSUME PassPiece(r), state' \in [Blocks -> {"Missing", "Requested", "Received"}]
        PROVE  PiecesTypeOK'
    <2>1. r[1] \in Pieces /\ PieceSize[r[1]] \in Nat
      BY BlockParts, SwarmAssumption
    <2>2. data' \in [Blocks -> Content]
      BY <1>6 DEF PassPiece
    <2>. QED
      BY <1>6, <2>1, <2>2 DEF PassPiece
  <1>7. Filed(r, bytes) \in [Blocks -> Content]
    BY DEF Filed
  <1>. QED
    BY <1>1, <1>2, <1>3, <1>4, <1>5, <1>6, <1>7

\* The operations of BanManager keep its state well typed.
LEMMA BanOpsType ==
    ASSUME TypeOK, NEW r \in Blocks, NEW c \in Ids
    PROVE  /\ OnJoin(c, peerHost[c]) => BansTypeOK'
           /\ OnBlock(r, c) => BansTypeOK'
           /\ \A bytes \in [Blocks -> Content] : OnPieceFailed(r, c, bytes) => BansTypeOK'
           /\ OnPieceVerified(r[1]) => BansTypeOK'
  <1>1. r[1] \in Pieces /\ r[2] \in Nat
    BY BlockParts
  <1>2. WithSender(senders[r[1]], r[2], c) \in Seq(Ids)
    BY <1>1, WithSenderType DEF TypeOK, BansTypeOK
  <1> USE DEF TypeOK, BansTypeOK
  <1>3. OnJoin(c, peerHost[c]) => BansTypeOK'
    <2>1. peerHost[c] \in Hosts \cup {NoHost}
      BY DEF PeersTypeOK
    <2>. QED
      BY <2>1 DEF OnJoin
  <1>4. OnBlock(r, c) => BansTypeOK'
    BY <1>1, <1>2 DEF OnBlock
  <1>5. ASSUME NEW bytes \in [Blocks -> Content], OnPieceFailed(r, c, bytes)
        PROVE  BansTypeOK'
    <2>1. senders' \in [Pieces -> Seq(Ids)] /\ evidence' \subseteq Pieces /\ hosts' = hosts
      BY <1>1, <1>5 DEF OnPieceFailed
    <2>2. evidenceData' \in [Blocks -> Content]
      BY <1>5 DEF OnPieceFailed
    <2>3. evidenceSenders' \in [Pieces -> Seq(Ids)]
      BY <1>1, <1>2, <1>5 DEF OnPieceFailed
    <2>. QED
      BY <2>1, <2>2, <2>3
  <1>6. OnPieceVerified(r[1]) => BansTypeOK'
    BY <1>1 DEF OnPieceVerified, Content
  <1>. QED
    BY <1>3, <1>4, <1>5, <1>6

\* What on_piece() does to the queue, whatever the status.
LEMMA OnPieceFacts ==
    ASSUME TypeOK, NEW status, OnPiece(status)
    PROVE  /\ Head(events).block \in Blocks
           /\ Head(events).bytes \in {"good", "bad"}
           /\ Head(events).peer \in Ids
           /\ phase' \in Phases => LoopTypeOK'
           /\ disk' \subseteq Pieces => DiskTypeOK'
           /\ phase \in Phases
  <1>1. events # <<>> /\ Head(events).type = "Piece" /\ events' = Tail(events)
    BY DEF OnPiece
  <1>2. phase' \in Phases => LoopTypeOK'
    BY <1>1, HeadEvent DEF OnPiece, TypeOK, LoopTypeOK
  <1>3. disk' \subseteq Pieces => DiskTypeOK'
    BY DEF OnPiece, TypeOK, DiskTypeOK
  <1>4. phase \in Phases
    BY DEF TypeOK, LoopTypeOK
  <1>. QED
    BY <1>1, <1>2, <1>3, <1>4, HeadEvent

\* Every step keeps the state well typed.
LEMMA TypeStep == TypeOK /\ [Next]_vars => TypeOK'
  <1> SUFFICES ASSUME TypeOK, [Next]_vars PROVE TypeOK'
    OBVIOUS
  <1>a. conns \subseteq Ids
    BY DEF TypeOK, PeersTypeOK
  <1>1. ASSUME NEW p \in Pieces, Recheck(p) PROVE TypeOK'
    <2>1. PiecesTypeOK'
      <3>1. PieceSize[p] \in Nat
        BY SwarmAssumption
      <3>. QED
        BY <1>1, <3>1 DEF Recheck, TypeOK, PiecesTypeOK
    <2>2. DiskTypeOK'
      BY <1>1 DEF Recheck, TypeOK, DiskTypeOK
    <2>. QED
      BY <1>1, <2>1, <2>2, TypeUnchanged DEF Recheck, TypeOK
  <1>2. ASSUME EndRecheck PROVE TypeOK'
    <2>1. LoopTypeOK'
      BY <1>2 DEF EndRecheck, TypeOK, LoopTypeOK, Phases
    <2>2. DiskTypeOK'
      BY <1>2 DEF EndRecheck, TypeOK, DiskTypeOK, IsComplete
    <2>. QED
      BY <1>2, <2>1, <2>2, TypeUnchanged DEF EndRecheck, TypeOK
  <1>3. ASSUME Poll \/ EndHandshakes \/ EndRead \/ EndDrop \/ EndDispatch PROVE TypeOK'
    <2>1. LoopTypeOK'
      BY <1>3, <1>a DEF Poll, EndHandshakes, EndRead, EndDrop, EndDispatch, TypeOK,
         LoopTypeOK, Phases
    <2>. QED
      BY <1>3, <2>1, TypeUnchanged DEF Poll, EndHandshakes, EndRead, EndDrop, EndDispatch, TypeOK
  <1>4. ASSUME NextFill \/ EndFill \/ EndLoop \/ Shutdown \/ PollFails PROVE TypeOK'
    <2>1. LoopTypeOK'
      BY <1>4, <1>a DEF NextFill, EndFill, EndLoop, Shutdown,
         PollFails, TypeOK, LoopTypeOK, Phases
    <2>. QED
      BY <1>4, <2>1, TypeUnchanged DEF NextFill, EndFill, EndLoop, Shutdown, PollFails, TypeOK
  <1>5. ASSUME NEW h \in Hosts, FinishHandshake(h) PROVE TypeOK'
    <2>1. nextId \in Ids
      BY <1>5, SwarmAssumption DEF FinishHandshake, Promote, TypeOK, PeersTypeOK, Ids
    <2>2. [type |-> "Joined", peer |-> nextId] \in Event
      BY <2>1 DEF Event
    <2>3. LoopTypeOK'
      BY <1>5, <2>2 DEF FinishHandshake, TypeOK, LoopTypeOK
    <2>4. PeersTypeOK'
      BY <1>5, <2>1, WireType DEF FinishHandshake
    <2>. QED
      BY <1>5, <2>3, <2>4, TypeUnchanged DEF FinishHandshake, TypeOK
  <1>6. ASSUME (\E c \in Ids : ReadFrom(c)) \/ ReadFails PROVE TypeOK'
    <2>1. LoopTypeOK'
      BY <1>6, <1>a DEF ReadFrom, ReadFails, TypeOK, LoopTypeOK
    <2>. QED
      BY <1>6, <2>1, TypeUnchanged DEF ReadFrom, ReadFails, TypeOK
  <1>7. ASSUME HandleMessage, PeersTypeOK', events' \in Seq(Event) PROVE TypeOK'
    <2>1. LoopTypeOK'
      BY <1>7 DEF HandleMessage, TypeOK, LoopTypeOK
    <2>. QED
      BY <1>7, <2>1, TypeUnchanged DEF HandleMessage, TypeOK
  <1>b. HandleMessage => cur \in Ids /\ pending[cur] \in Seq(Blocks) /\ events \in Seq(Event)
    BY <1>a DEF HandleMessage, TypeOK, PeersTypeOK, LoopTypeOK
  <1>71. ASSUME MsgChoke PROVE TypeOK'
    <2>1. [type |-> "Choke", peer |-> cur, released |-> pending[cur]] \in Event
      BY <1>71, <1>b DEF MsgChoke, Event
    <2>. QED
      BY <1>71, <1>b, <2>1, <1>7, WireType DEF MsgChoke
  <1>72. ASSUME MsgUnchoke PROVE TypeOK'
    BY <1>72, <1>b, <1>7, WireType DEF MsgUnchoke
  <1>73. ASSUME NEW p \in HavePieces, MsgHave(p) PROVE TypeOK'
    BY <1>73, <1>b, <1>7, WireType, PeerWireAssumption DEF MsgHave
  <1>74. ASSUME NEW bf \in Bitfields, MsgBitfield(bf) PROVE TypeOK'
    BY <1>74, <1>b, <1>7, WireType, PeerWireAssumption DEF MsgBitfield
  <1>75. ASSUME NEW i \in 1 .. PipelineDepth, NEW bytes \in {"good", "bad"},
                MsgPiece(i, bytes)
         PROVE  TypeOK'
    <2>1. i \in 1 .. Len(pending[cur]) /\ i \in Nat
      BY <1>75, <1>b DEF MsgPiece, RecvPiece
    <2> DEFINE e == [type |-> "Piece", peer |-> cur, block |-> pending[cur][i], bytes |-> bytes]
    <2>2. HandleMessage /\ RecvPiece(cur, i) /\ events' = Append(events, e)
      BY <1>75 DEF MsgPiece
    <2>3. cur \in Ids /\ pending[cur] \in Seq(Blocks) /\ events \in Seq(Event)
      BY <2>2, <1>b
    <2>4. pending[cur][i] \in Blocks
      BY <2>1, <2>3
    <2>5. e \in Event
      BY <2>3, <2>4 DEF Event
    <2> HIDE DEF e
    <2>6. events' \in Seq(Event)
      BY <2>2, <2>3, <2>5
    <2>7. PeersTypeOK'
      BY <2>1, <2>2, <2>3, WireType
    <2>. QED
      BY <2>2, <2>6, <2>7, <1>7
  <1>8. ASSUME NEW c \in Ids, DropPeer(c) PROVE TypeOK'
    <2>1. PeersTypeOK'
      BY <1>8, DropType DEF DropPeer, TypeOK, PeersTypeOK
    <2>2. [type |-> "Dropped", peer |-> c, released |-> pending[c]] \in Event
      BY DEF Event, TypeOK, PeersTypeOK
    <2>3. LoopTypeOK'
      BY <1>8, <2>2 DEF DropPeer, TypeOK, LoopTypeOK
    <2>. QED
      BY <1>8, <2>1, <2>3, TypeUnchanged DEF DropPeer, TypeOK
  <1>9. ASSUME DispatchJoined PROVE TypeOK'
    <2>1. events # <<>> /\ events' = Tail(events) /\ Head(events).peer \in Ids
      BY <1>9, HeadEvent DEF DispatchJoined
    <2>2. LoopTypeOK'
      BY <1>9, <2>1, HeadEvent DEF DispatchJoined, TypeOK, LoopTypeOK
    <2>3. PeersTypeOK'
      BY <1>9, <2>1, WireType DEF DispatchJoined
    <2>4. BansTypeOK'
      <3>1. PICK c \in Ids : c = Head(events).peer
        BY <2>1
      <3>2. OnJoin(c, peerHost[c]) => BansTypeOK'
        <4>1. peerHost[c] \in Hosts \cup {NoHost}
          BY DEF TypeOK, PeersTypeOK
        <4>. QED
          BY <4>1 DEF OnJoin, TypeOK, BansTypeOK
      <3>. QED
        BY <1>9, <3>1, <3>2, TypeUnchanged DEF DispatchJoined
    <2>. QED
      BY <1>9, <2>2, <2>3, <2>4, TypeUnchanged DEF DispatchJoined, TypeOK
  <1>10. ASSUME DispatchReleased PROVE TypeOK'
    <2>1. LoopTypeOK'
      BY <1>10, HeadEvent DEF DispatchReleased, TypeOK, LoopTypeOK
    <2>2. PiecesTypeOK'
      BY <1>10 DEF DispatchReleased, Release, TypeOK, PiecesTypeOK
    <2>. QED
      BY <1>10, <2>1, <2>2, TypeUnchanged DEF DispatchReleased, TypeOK
  <1>11. ASSUME PieceNoVerdict PROVE TypeOK'
    <2>1. PICK status : OnPiece(status)
      BY <1>11 DEF PieceNoVerdict
    <2>2. LoopTypeOK' /\ DiskTypeOK'
      BY <1>11, <2>1, OnPieceFacts DEF PieceNoVerdict, TypeOK, DiskTypeOK
    <2>3. PiecesTypeOK' /\ BansTypeOK'
      BY <1>11, <2>1, OnPieceFacts, PieceOpsType, BanOpsType, TypeUnchanged
         DEF PieceNoVerdict
    <2>. QED
      BY <1>11, <2>2, <2>3, TypeUnchanged DEF PieceNoVerdict, TypeOK
  <1>12. ASSUME PieceVerified PROVE TypeOK'
    <2> DEFINE ev == Head(events)
               p  == ev.block[1]
    <2>1. /\ ev.block \in Blocks /\ ev.bytes \in {"good", "bad"} /\ p \in Pieces
          /\ LoopTypeOK' /\ (disk' \subseteq Pieces => DiskTypeOK')
      BY <1>12, OnPieceFacts, BlockParts DEF PieceVerified
    <2>2. DiskTypeOK'
      BY <1>12, <2>1 DEF PieceVerified, TypeOK, DiskTypeOK
    <2>3. state' \in [Blocks -> {"Missing", "Requested", "Received"}]
      BY <1>12, <2>1, PieceOpsType DEF PieceVerified
    <2>4. PiecesTypeOK'
      BY <1>12, <2>1, <2>3, PieceOpsType DEF PieceVerified
    <2>5. BansTypeOK'
      BY <1>12, <2>1, BanOpsType, OnPieceFacts DEF PieceVerified
    <2>6. PeersTypeOK'
      <3>1. Drop(BannedConns(VerifiedBans(p)), {p}) /\ banned' \subseteq Hosts
        BY <1>12, <2>1, BansAreHosts DEF PieceVerified, Ban, TypeOK, PeersTypeOK
      <3>. QED
        BY <2>1, <3>1, <1>a, DropType DEF BannedConns
    <2>. QED
      BY <2>1, <2>2, <2>4, <2>5, <2>6 DEF TypeOK
  <1>13. ASSUME WriteFails PROVE TypeOK'
    <2> DEFINE ev == Head(events)
    <2>1. /\ ev.block \in Blocks /\ ev.bytes \in {"good", "bad"} /\ ev.peer \in Ids
          /\ LoopTypeOK' /\ DiskTypeOK'
      BY <1>13, OnPieceFacts DEF WriteFails, Phases, TypeOK, DiskTypeOK
    <2>2. PiecesTypeOK'
      BY <1>13, <2>1, PieceOpsType DEF WriteFails
    <2>3. BansTypeOK'
      BY <1>13, <2>1, BanOpsType DEF WriteFails
    <2>. QED
      BY <1>13, <2>1, <2>2, <2>3, TypeUnchanged DEF WriteFails, TypeOK
  <1>14. ASSUME PieceFailed PROVE TypeOK'
    <2> DEFINE ev   == Head(events)
               p    == ev.block[1]
               s    == WithSender(senders[p], ev.block[2], ev.peer)
    <2>1. /\ ev.block \in Blocks /\ ev.bytes \in {"good", "bad"} /\ ev.peer \in Ids
          /\ p \in Pieces /\ ev.block[2] \in Nat
          /\ LoopTypeOK' /\ DiskTypeOK'
      BY <1>14, OnPieceFacts, BlockParts DEF PieceFailed, TypeOK, DiskTypeOK
    <2>2. s \in Seq(Ids)
      BY <2>1, WithSenderType DEF TypeOK, BansTypeOK
    <2>3. state' \in [Blocks -> {"Missing", "Requested", "Received"}]
      BY <1>14, <2>1, PieceOpsType DEF PieceFailed
    <2>4. PiecesTypeOK'
      BY <1>14, <2>1, <2>3, PieceOpsType DEF PieceFailed
    <2>5. BansTypeOK'
      BY <1>14, <2>1, BanOpsType, PieceOpsType DEF PieceFailed
    <2>6. PeersTypeOK'
      <3>1. Drop(BannedConns(FailedBans(s)), {}) /\ banned' \subseteq Hosts
        BY <1>14, <2>2, BansAreHosts DEF PieceFailed, Ban, TypeOK, PeersTypeOK
      <3>2. BannedConns(FailedBans(s)) \in SUBSET Ids
        BY <1>a DEF BannedConns
      <3> HIDE DEF s
      <3>. QED
        BY <3>1, <3>2, DropType
    <2>. QED
      BY <2>1, <2>4, <2>5, <2>6 DEF TypeOK
  <1>15. ASSUME NEW c \in Ids, NEW n \in 1 .. PipelineDepth, Expire(c, n) PROVE TypeOK'
    <2>1. PeersTypeOK'
      BY <1>15, WireType DEF Expire
    <2>2. PiecesTypeOK'
      BY <1>15 DEF Expire, Release, TypeOK, PiecesTypeOK
    <2>3. LoopTypeOK'
      BY <1>15 DEF Expire, TypeOK, LoopTypeOK
    <2>. QED
      BY <1>15, <2>1, <2>2, <2>3, TypeUnchanged DEF Expire, TypeOK
  <1>16. ASSUME EndExpire \/ SyncFails PROVE TypeOK'
    <2>1. LoopTypeOK'
      BY <1>16, <1>a DEF EndExpire, SyncFails, TypeOK, LoopTypeOK, Phases
    <2>2. DiskTypeOK'
      BY <1>16 DEF EndExpire, SyncFails, TypeOK, DiskTypeOK, IsComplete
    <2>. QED
      BY <1>16, <2>1, <2>2, TypeUnchanged DEF EndExpire, SyncFails, TypeOK
  <1>17. ASSUME NEW c \in Ids, NEW r \in Blocks, Fill(c, r) \/ FillSnubbed(c, r)
         PROVE  TypeOK'
    <2>1. PeersTypeOK'
      BY <1>17, WireType DEF Fill, FillSnubbed
    <2>2. PiecesTypeOK'
      BY <1>17, PieceOpsType DEF Fill, FillSnubbed
    <2>3. LoopTypeOK'
      BY <1>17 DEF Fill, FillSnubbed, TypeOK, LoopTypeOK
    <2>. QED
      BY <1>17, <2>1, <2>2, <2>3, TypeUnchanged DEF Fill, FillSnubbed, TypeOK
  <1>18. ASSUME UNCHANGED vars PROVE TypeOK'
    BY <1>18, TypeUnchanged DEF vars, TypeOK
  <1>. QED
    BY <1>1, <1>2, <1>3, <1>4, <1>5, <1>6, <1>71, <1>72, <1>73, <1>74, <1>75, <1>8, <1>9, <1>10,
       <1>11, <1>12, <1>13,
       <1>14, <1>15, <1>16, <1>17, <1>18 DEF Next, Done

\* The download never leaves its types: no counter, id or block number runs out
\* of range, for any torrent, any number of peers and any pipeline depth.
THEOREM TypeCorrect == Spec => []TypeOK
  BY TypeInit, TypeStep, PTL DEF Spec

----------------------------------------------------------------------------
(* The bookkeeping of the loop and of PieceManager *)

\* drop() leaves no request behind and keeps the other connections' lists.
LEMMA DropFacts ==
    ASSUME TypeOK, NEW C \in SUBSET Ids, NEW news, Drop(C, news)
    PROVE  /\ conns' = conns \ C
           /\ \A c \in Ids : pending'[c] = IF c \in C THEN <<>> ELSE pending[c]
           /\ \A c \in Ids : peerHost'[c] = IF c \in C THEN NoHost ELSE peerHost[c]
           /\ nextId' = nextId
  BY DEF Drop

\* Connections only disappear in the drop and dispatch phases, when no loop over
\* them is under way.
LEMMA LoopStep == TypeOK /\ LoopInv /\ [Next]_vars => LoopInv'
  <1> SUFFICES ASSUME TypeOK, LoopInv, [Next]_vars PROVE LoopInv'
    OBVIOUS
  <1> USE DEF LoopInv
  <1>a. conns \subseteq Ids /\ NoPeer \notin Ids /\ pending \in [Ids -> Seq(Blocks)]
    BY SessionAssumption DEF TypeOK, PeersTypeOK
  <1>1. ASSUME NEW p \in Pieces, Recheck(p) PROVE LoopInv'
    BY <1>1 DEF Recheck, loopVars, peerVars
  <1>2. ASSUME EndRecheck \/ Poll \/ EndHandshakes \/ EndRead PROVE LoopInv'
    BY <1>2 DEF EndRecheck, Poll, EndHandshakes, EndRead, peerVars
  <1>3. ASSUME EndDrop \/ EndDispatch \/ EndExpire \/ NextFill PROVE LoopInv'
    BY <1>3 DEF EndDrop, EndDispatch, EndExpire, NextFill, peerVars
  <1>4. ASSUME EndFill \/ EndLoop \/ Shutdown \/ PollFails \/ SyncFails PROVE LoopInv'
    BY <1>4 DEF EndFill, EndLoop, Shutdown, PollFails, SyncFails, peerVars
  <1>5. ASSUME NEW h \in Hosts, FinishHandshake(h) PROVE LoopInv'
    BY <1>5 DEF FinishHandshake, Promote
  <1>6. ASSUME NEW c \in Ids, ReadFrom(c) PROVE LoopInv'
    BY <1>6 DEF ReadFrom, peerVars
  <1>7. ASSUME ReadFails PROVE LoopInv'
    BY <1>7 DEF ReadFails, peerVars
  <1>8. ASSUME HandleMessage, conns' = conns,
               \A c \in Ids \ {cur} : pending'[c] = pending[c]
        PROVE  LoopInv'
    BY <1>8, <1>a DEF HandleMessage
  <1>9. ASSUME MsgChoke PROVE LoopInv'
    BY <1>8, <1>9, <1>a DEF MsgChoke, RecvChoke
  <1>10. ASSUME MsgUnchoke PROVE LoopInv'
    BY <1>8, <1>10, <1>a DEF MsgUnchoke, RecvUnchoke
  <1>11. ASSUME NEW p, MsgHave(p) PROVE LoopInv'
    BY <1>8, <1>11, <1>a DEF MsgHave, RecvHave
  <1>12. ASSUME NEW bf, MsgBitfield(bf) PROVE LoopInv'
    BY <1>8, <1>12, <1>a DEF MsgBitfield, RecvBitfield
  <1>13. ASSUME NEW i, NEW bytes, MsgPiece(i, bytes) PROVE LoopInv'
    BY <1>8, <1>13, <1>a DEF MsgPiece, RecvPiece
  <1>14. ASSUME NEW c \in Ids, DropPeer(c) PROVE LoopInv'
    <2>1. Drop({c}, {}) /\ phase = "drop"
      BY <1>14 DEF DropPeer
    <2>2. /\ conns' = conns \ {c}
          /\ \A d \in Ids : d \notin conns' => pending'[d] = <<>>
      BY <2>1, DropFacts
    <2>3. toDrop' = toDrop \ {c} /\ todo' = todo \ {c} /\ cur' = cur /\ phase' = phase
      BY <1>14 DEF DropPeer
    <2>. QED
      BY <2>1, <2>2, <2>3, <1>a
  <1>15. ASSUME DispatchJoined PROVE LoopInv'
    BY <1>15 DEF DispatchJoined, Greet
  <1>16. ASSUME DispatchReleased PROVE LoopInv'
    BY <1>16 DEF DispatchReleased, peerVars
  <1>17. ASSUME PieceNoVerdict \/ WriteFails PROVE LoopInv'
    BY <1>17 DEF PieceNoVerdict, WriteFails, OnPiece, peerVars
  <1>18. ASSUME NEW status, OnPiece(status), NEW H, NEW news, Ban(H, news), phase' = phase
         PROVE  LoopInv'
    <2>1. BannedConns(H) \in SUBSET Ids
      BY <1>a DEF BannedConns
    <2>2. Drop(BannedConns(H), news)
      BY <1>18 DEF Ban
    <2>3. phase = "dispatch" /\ todo' = todo /\ toDrop' = toDrop /\ cur' = cur
      BY <1>18 DEF OnPiece
    <2>. QED
      BY <1>18, <2>1, <2>2, <2>3, DropFacts, <1>a
  <1>19. ASSUME PieceVerified PROVE LoopInv'
    BY <1>18, <1>19 DEF PieceVerified
  <1>20. ASSUME PieceFailed PROVE LoopInv'
    BY <1>18, <1>20 DEF PieceFailed
  <1>21. ASSUME NEW c \in Ids, NEW n, Expire(c, n) PROVE LoopInv'
    BY <1>21, <1>a DEF Expire, TakeStale
  <1>22. ASSUME NEW c \in Ids, NEW r, Fill(c, r) PROVE LoopInv'
    BY <1>22, <1>a DEF Fill, SendRequest
  <1>23. ASSUME NEW c \in Ids, NEW r, FillSnubbed(c, r) PROVE LoopInv'
    BY <1>23, <1>a DEF FillSnubbed, SendRequest
  <1>24. ASSUME UNCHANGED vars PROVE LoopInv'
    BY <1>24 DEF vars, loopVars, peerVars
  <1>. QED
    BY <1>1, <1>2, <1>3, <1>4, <1>5, <1>6, <1>7, <1>9, <1>10, <1>11, <1>12, <1>13, <1>14,
       <1>15, <1>16, <1>17, <1>19, <1>20, <1>21, <1>22, <1>23, <1>24 DEF Next, Done

\* The Received blocks of a piece.
ReceivedOf(st, p) == {b \in BlockIdx(p) : st[<<p, b>>] = "Received"}

\* A piece has as many block numbers as blocks.
LEMMA BlockIdxFinite ==
    ASSUME NEW p \in Pieces
    PROVE  /\ IsFiniteSet(BlockIdx(p))
           /\ Cardinality(BlockIdx(p)) = BlockCount[p]
           /\ \A st : /\ IsFiniteSet(ReceivedOf(st, p))
                      /\ Cardinality(ReceivedOf(st, p)) \in Nat
                      /\ Cardinality(ReceivedOf(st, p)) = BlockCount[p]
                            => ReceivedOf(st, p) = BlockIdx(p)
  <1>1. BlockCount[p] \in Nat \ {0}
    BY SwarmAssumption
  <1>2. IsFiniteSet(BlockIdx(p)) /\ Cardinality(BlockIdx(p)) = BlockCount[p]
    <2>1. 0 \in Int /\ BlockCount[p] - 1 \in Int
      BY <1>1
    <2>2. \A n \in Int : /\ IsFiniteSet(0 .. n)
                         /\ Cardinality(0 .. n) = IF 0 > n THEN 0 ELSE n - 0 + 1
      BY FS_Interval
    <2> DEFINE n == BlockCount[p] - 1
    <2>3. /\ IsFiniteSet(BlockIdx(p))
          /\ Cardinality(BlockIdx(p)) = IF 0 > n THEN 0 ELSE n - 0 + 1
      BY <2>1, <2>2, Zenon DEF BlockIdx
    <2>. QED
      BY <1>1, <2>3
  <1>3. ASSUME NEW st
        PROVE  /\ IsFiniteSet(ReceivedOf(st, p))
               /\ Cardinality(ReceivedOf(st, p)) \in Nat
               /\ Cardinality(ReceivedOf(st, p)) = BlockCount[p]
                     => ReceivedOf(st, p) = BlockIdx(p)
    <2>1. ReceivedOf(st, p) \in SUBSET BlockIdx(p)
      BY DEF ReceivedOf
    <2>2. /\ IsFiniteSet(ReceivedOf(st, p))
          /\ Cardinality(BlockIdx(p)) = Cardinality(ReceivedOf(st, p))
                => BlockIdx(p) = ReceivedOf(st, p)
      BY <1>2, <2>1, FS_Subset
    <2>3. Cardinality(ReceivedOf(st, p)) \in Nat
      BY <2>2, FS_CardinalityType
    <2>. QED
      BY <1>2, <2>2, <2>3
  <1>. QED
    BY <1>2, <1>3

\* Releasing requests changes no Received block and receives none.
LEMMA ReleaseFacts ==
    ASSUME NEW st, NEW act, NEW reqs
    PROVE  \A r \in Blocks : /\ Release(st, act, reqs)[r] = "Received" <=> st[r] = "Received"
                             /\ Release(st, act, reqs)[r] # "Requested" \/ r \notin reqs
                                   \/ r[1] \notin act
                             /\ st[r] = "Missing" => Release(st, act, reqs)[r] = "Missing"
                             /\ r \notin reqs => Release(st, act, reqs)[r] = st[r]
  BY DEF Release

\* A block accepted without a verdict, or with one: what on_block() checked.
LEMMA StatusFacts ==
    ASSUME NEW r \in Blocks, NEW bytes
    PROVE  /\ BlockStatus(r, bytes) # "Rejected" =>
                 r[1] \in active /\ r[1] \notin have /\ state[r] # "Received"
           /\ BlockStatus(r, bytes) = "Incomplete" => received[r[1]] + 1 < BlockCount[r[1]]
           /\ BlockStatus(r, bytes) \in {"PieceVerified", "PieceFailed"} =>
                 ~(received[r[1]] + 1 < BlockCount[r[1]])
           /\ BlockStatus(r, bytes) = "PieceVerified" => Verify(r[1], Filed(r, bytes))
           /\ BlockStatus(r, bytes) = "PieceFailed" => ~Verify(r[1], Filed(r, bytes))
  BY DEF BlockStatus, Filed

\* When a piece gets its verdict, every block but the last was already received:
\* "by the time a piece gets a verdict, every slot has been written".
LEMMA VerdictComplete ==
    ASSUME TypeOK, PieceInv, NEW r \in Blocks, NEW bytes,
           BlockStatus(r, bytes) \in {"PieceVerified", "PieceFailed"}
    PROVE  \A b \in BlockIdx(r[1]) : b # r[2] => state[<<r[1], b>>] = "Received"
  <1> DEFINE p == r[1]
             R == ReceivedOf(state, p)
  <1>1. p \in Pieces /\ r[2] \in BlockIdx(p) /\ r = <<p, r[2]>>
    BY BlockParts
  <1>2. state[r] # "Received" /\ ~(received[p] + 1 < BlockCount[p])
    BY StatusFacts
  <1>3. received[p] = Cardinality(R) /\ received[p] \in Nat /\ BlockCount[p] \in Nat
    BY <1>1, SwarmAssumption DEF PieceInv, ReceivedOf, TypeOK, PiecesTypeOK
  <1>4. IsFiniteSet(R) /\ IsFiniteSet(BlockIdx(p)) /\ Cardinality(BlockIdx(p)) = BlockCount[p]
    BY <1>1, BlockIdxFinite
  <1>5. r[2] \notin R
    BY <1>1, <1>2 DEF ReceivedOf
  <1>6. Cardinality(R \cup {r[2]}) = received[p] + 1
    BY <1>3, <1>4, <1>5, FS_AddElement
  <1>7. R \cup {r[2]} \in SUBSET BlockIdx(p)
    BY <1>1 DEF ReceivedOf
  <1>8. Cardinality(R \cup {r[2]}) <= Cardinality(BlockIdx(p))
    BY <1>4, <1>7, FS_Subset
  <1>9. Cardinality(BlockIdx(p)) = Cardinality(R \cup {r[2]})
    BY <1>2, <1>3, <1>4, <1>6, <1>8
  <1>10. R \cup {r[2]} = BlockIdx(p)
    BY <1>4, <1>7, <1>9, FS_Subset
  <1>. QED
    BY <1>10 DEF ReceivedOf

\* A change of block states that touches no Received block of a piece keeps its count.
LEMMA CountKept ==
    ASSUME NEW st, NEW st2, NEW p \in Pieces,
           \A b \in BlockIdx(p) : st2[<<p, b>>] = "Received" <=> st[<<p, b>>] = "Received"
    PROVE  ReceivedOf(st2, p) = ReceivedOf(st, p)
  BY DEF ReceivedOf

\* PieceManager's bookkeeping survives every step.
LEMMA PieceStep == TypeOK /\ LoopInv /\ PieceInv /\ [Next]_vars => PieceInv'
  <1> SUFFICES ASSUME TypeOK, LoopInv, PieceInv, [Next]_vars PROVE PieceInv'
    OBVIOUS
  <1> DEFINE Counted(p) == received[p] = Cardinality(ReceivedOf(state, p))
             Quiet == phase' = phase \/ phase' # "recheck"
  <1>a. /\ have \cap active = {}
        /\ phase = "recheck" => active = {}
        /\ \A r \in Blocks : r[1] \notin active => state[r] = "Missing"
        /\ \A p \in Pieces : Counted(p)
    BY DEF PieceInv, ReceivedOf
  <1>b. ASSUME have' \cap active' = {},
               phase' = "recheck" => active' = {},
               \A r \in Blocks : r[1] \notin active' => state'[r] = "Missing",
               \A p \in Pieces : received'[p] = Cardinality(ReceivedOf(state', p))
        PROVE  PieceInv'
    BY <1>b DEF PieceInv, ReceivedOf
  <1>t. /\ state \in [Blocks -> {"Missing", "Requested", "Received"}]
        /\ received \in [Pieces -> Nat] /\ have \subseteq Pieces /\ active \subseteq Pieces
    BY DEF TypeOK, PiecesTypeOK
  <1>1. ASSUME UNCHANGED <<have, active, state, received>>, Quiet PROVE PieceInv'
    BY <1>1, <1>a, <1>b
  <1>2. ASSUME NEW p \in Pieces, Recheck(p) PROVE PieceInv'
    BY <1>2, <1>a, <1>b DEF Recheck, loopVars
  <1>3. ASSUME NEW st, NEW reqs, state' = Release(state, active, reqs),
               UNCHANGED <<have, active, received>>, Quiet
        PROVE  PieceInv'
    <2>1. \A p \in Pieces : ReceivedOf(state', p) = ReceivedOf(state, p)
      BY <1>3, ReleaseFacts, BlockParts, CountKept
    <2>2. \A r \in Blocks : state[r] = "Missing" => state'[r] = "Missing"
      BY <1>3, ReleaseFacts
    <2>. QED
      BY <1>3, <2>1, <2>2, <1>a, <1>b
  <1>4. ASSUME NEW c \in Ids, NEW r \in Blocks, Fill(c, r) \/ FillSnubbed(c, r)
        PROVE  PieceInv'
    <2>1. /\ r \in PeerChoices(c) /\ PickBlock(r) /\ phase' = phase
          /\ phase \in {"fill", "fillSnubbed"}
      BY <1>4 DEF Fill, FillSnubbed
    <2>2. state[r] = "Missing" /\ r[1] \notin have \ active
      BY <2>1, <1>a, PickIsMissing DEF PeerChoices, TypeOK, PeersTypeOK
    <2>3. /\ active' = active \cup {r[1]} /\ have' = have /\ received' = received
          /\ state' = [state EXCEPT ![r] = "Requested"]
      BY <2>1 DEF PickBlock
    <2>4. \A p \in Pieces : ReceivedOf(state', p) = ReceivedOf(state, p)
      BY <2>2, <2>3, <1>t, BlockParts, CountKept
    <2>. QED
      BY <2>1, <2>2, <2>3, <2>4, <1>a, <1>b, <1>t
  <1>5. ASSUME PieceNoVerdict PROVE PieceInv'
    <2> DEFINE ev == Head(events)
               q  == ev.block[1]
    <2>1. CASE UNCHANGED pieceVars
      BY <1>1, <1>5, <2>1 DEF PieceNoVerdict, pieceVars
    <2>2. CASE OnPiece("Incomplete") /\ FileBlock(ev.block, ev.bytes)
      <3>1. /\ ev.block \in Blocks /\ q \in Pieces /\ q \in active
            /\ ev.block = <<q, ev.block[2]>> /\ ev.block[2] \in BlockIdx(q)
            /\ state[ev.block] # "Received"
        BY <2>2, OnPieceFacts, StatusFacts, BlockParts DEF OnPiece
      <3>2. /\ state' = [state EXCEPT ![ev.block] = "Received"]
            /\ received' = [received EXCEPT ![q] = @ + 1]
            /\ have' = have /\ active' = active /\ phase' = phase
        BY <2>2, <1>5 DEF FileBlock, PieceNoVerdict
      <3>3. ReceivedOf(state', q) = ReceivedOf(state, q) \cup {ev.block[2]}
        BY <3>1, <3>2, <1>t, BlockParts DEF ReceivedOf
      <3>4. ev.block[2] \notin ReceivedOf(state, q)
        BY <3>1 DEF ReceivedOf
      <3>5. received'[q] = Cardinality(ReceivedOf(state', q))
        <4>1. IsFiniteSet(ReceivedOf(state, q))
          BY <3>1, BlockIdxFinite
        <4>2. Cardinality(ReceivedOf(state', q)) = Cardinality(ReceivedOf(state, q)) + 1
          BY <3>3, <3>4, <4>1, FS_AddElement
        <4>. QED
          BY <3>1, <3>2, <4>2, <1>a, <1>t
      <3>6. ASSUME NEW p \in Pieces, p # q
            PROVE  ReceivedOf(state', p) = ReceivedOf(state, p)
        <4>1. \A b \in BlockIdx(p) : <<p, b>> \in Blocks /\ <<p, b>> # ev.block
          BY <3>1, <3>6, BlockParts
        <4>2. \A b \in BlockIdx(p) : state'[<<p, b>>] = state[<<p, b>>]
          BY <3>2, <4>1, <1>t
        <4>. QED
          BY <4>2, CountKept
      <3>. QED
        BY <3>1, <3>2, <3>5, <3>6, <1>a, <1>b, <1>t
    <2>. QED
      BY <1>5, <2>1, <2>2 DEF PieceNoVerdict
  <1>6. ASSUME NEW q \in Pieces, NEW act, NEW reqs,
               state' = Release(Restarted(q), act, reqs) \/ state' = Restarted(q),
               received' = [received EXCEPT ![q] = 0]
        PROVE  /\ \A r \in Blocks : r[1] = q \/ state[r] = "Missing" => state'[r] = "Missing"
               /\ \A p \in Pieces : received'[p] = Cardinality(ReceivedOf(state', p))
    <2>1. /\ \A r \in Blocks : r[1] = q \/ state[r] = "Missing" => state'[r] = "Missing"
          /\ \A r \in Blocks : r[1] # q => (state'[r] = "Received" <=> state[r] = "Received")
      BY <1>6, ReleaseFacts DEF Restarted
    <2>2. \A b \in BlockIdx(q) : state'[<<q, b>>] # "Received"
      BY <2>1, BlockParts
    <2>3. ReceivedOf(state', q) = {}
      BY <2>2 DEF ReceivedOf
    <2>4. \A p \in Pieces : p # q => ReceivedOf(state', p) = ReceivedOf(state, p)
      BY <2>1, BlockParts, CountKept
    <2>. QED
      BY <1>6, <2>1, <2>3, <2>4, <1>a, <1>t, FS_EmptySet
  <1>7. ASSUME PieceVerified \/ WriteFails PROVE PieceInv'
    <2> DEFINE ev == Head(events)
               q  == ev.block[1]
    <2>1. ev.block \in Blocks /\ q \in Pieces /\ PassPiece(ev.block) /\ phase' # "recheck"
      BY <1>7, OnPieceFacts, BlockParts DEF PieceVerified, WriteFails, OnPiece
    <2>2. /\ active' = active \ {q} /\ have' = have \cup {q}
          /\ received' = [received EXCEPT ![q] = 0]
      BY <2>1 DEF PassPiece
    <2>3. /\ \A r \in Blocks : r[1] = q \/ state[r] = "Missing" => state'[r] = "Missing"
          /\ \A p \in Pieces : received'[p] = Cardinality(ReceivedOf(state', p))
      BY <1>6, <1>7, <2>1, <2>2 DEF PieceVerified, WriteFails
    <2>. QED
      BY <2>1, <2>2, <2>3, <1>a, <1>b
  <1>8. ASSUME PieceFailed PROVE PieceInv'
    <2> DEFINE ev == Head(events)
               q  == ev.block[1]
    <2>1. ev.block \in Blocks /\ q \in Pieces /\ FailPiece(ev.block, ev.bytes) /\ phase' # "recheck"
      BY <1>8, OnPieceFacts, BlockParts DEF PieceFailed, OnPiece
    <2>2. active' = active /\ have' = have /\ received' = [received EXCEPT ![q] = 0]
      BY <2>1 DEF FailPiece
    <2>3. /\ \A r \in Blocks : r[1] = q \/ state[r] = "Missing" => state'[r] = "Missing"
          /\ \A p \in Pieces : received'[p] = Cardinality(ReceivedOf(state', p))
      BY <1>6, <1>8, <2>1, <2>2 DEF PieceFailed
    <2>. QED
      BY <2>1, <2>2, <2>3, <1>a, <1>b
  <1>9. ASSUME DispatchReleased PROVE PieceInv'
    BY <1>3, <1>9 DEF DispatchReleased
  <1>10. ASSUME NEW c \in Ids, NEW n, Expire(c, n) PROVE PieceInv'
    BY <1>3, <1>10 DEF Expire
  <1>11. ASSUME EndRecheck \/ Poll \/ EndHandshakes \/ EndRead \/ EndDrop \/ EndDispatch
                \/ EndExpire \/ NextFill \/ EndFill \/ EndLoop \/ Shutdown
                \/ PollFails \/ SyncFails
         PROVE  PieceInv'
    BY <1>1, <1>11 DEF EndRecheck, Poll, EndHandshakes, EndRead, EndDrop, EndDispatch,
       EndExpire, NextFill, EndFill, EndLoop, Shutdown, PollFails, SyncFails, pieceVars
  <1>12. ASSUME (\E h \in Hosts : FinishHandshake(h)) \/ (\E c \in Ids : ReadFrom(c))
                \/ ReadFails \/ HandleMessage \/ (\E c \in Ids : DropPeer(c)) \/ DispatchJoined
         PROVE  PieceInv'
    BY <1>1, <1>12 DEF FinishHandshake, ReadFrom, ReadFails, HandleMessage, DropPeer,
       DispatchJoined, pieceVars
  <1>13. ASSUME UNCHANGED vars PROVE PieceInv'
    BY <1>1, <1>13 DEF vars, pieceVars, loopVars
  <1>. QED
    BY <1>2, <1>4, <1>5, <1>7, <1>8, <1>9, <1>10, <1>11, <1>12, <1>13
       DEF Next, Done, MsgChoke, MsgUnchoke, MsgHave, MsgBitfield, MsgPiece

\* The bookkeeping holds when the client starts.
LEMMA BooksInit == Init => LoopInv /\ PieceInv
  <1> SUFFICES ASSUME Init PROVE LoopInv /\ PieceInv
    OBVIOUS
  <1>1. LoopInv
    BY DEF Init, PeersInit, LoopInv
  <1>2. \A p \in Pieces : {b \in BlockIdx(p) : state[<<p, b>>] = "Received"} = {}
    BY BlockParts DEF Init
  <1>3. PieceInv
    BY <1>2, FS_EmptySet DEF Init, PieceInv
  <1>. QED
    BY <1>1, <1>3

----------------------------------------------------------------------------
(* The counters of RarityMap and the recheck *)

\* A set of connections that have joined is finite and no larger than next_id_.
LEMMA JoinedCount ==
    ASSUME TypeOK, FreqInv, NEW S, S \subseteq conns
    PROVE  IsFiniteSet(S) /\ Cardinality(S) \in Nat /\ Cardinality(S) <= nextId
  <1>1. nextId \in Nat /\ conns \subseteq Nat
    BY SwarmAssumption DEF TypeOK, PeersTypeOK, Ids
  <1>2. S \in SUBSET (0 .. (nextId - 1))
    BY <1>1 DEF FreqInv
  <1>3. IsFiniteSet(0 .. (nextId - 1)) /\ Cardinality(0 .. (nextId - 1)) <= nextId
    <2>1. 0 \in Int /\ nextId - 1 \in Int
      BY <1>1
    <2>2. /\ IsFiniteSet(0 .. (nextId - 1))
          /\ Cardinality(0 .. (nextId - 1)) = IF 0 > nextId - 1 THEN 0 ELSE nextId - 1 - 0 + 1
      BY <2>1, FS_Interval
    <2>. QED
      BY <1>1, <2>2
  <1>4. IsFiniteSet(S) /\ Cardinality(S) <= Cardinality(0 .. (nextId - 1))
    BY <1>2, <1>3, FS_Subset
  <1>5. Cardinality(S) \in Nat /\ Cardinality(0 .. (nextId - 1)) \in Nat
    BY <1>3, <1>4, FS_CardinalityType
  <1>. QED
    BY <1>1, <1>3, <1>4, <1>5

\* The counts and the two sets they are compared with, as numbers.
LEMMA CountTypes ==
    ASSUME TypeOK, FreqInv
    PROVE  /\ nextId \in Nat
           /\ IsFiniteSet(NoBitfieldYet) /\ Cardinality(NoBitfieldYet) \in Nat
           /\ \A p \in Pieces :
                 /\ IsFiniteSet(Having(p))
                 /\ Cardinality(Having(p)) \in Nat /\ Cardinality(Having(p)) <= nextId
                 /\ pieceFrequency[p] \in Nat /\ pieceFrequency[p] < TwoTo16
                 /\ Cardinality(Having(p)) <= pieceFrequency[p]
                 /\ pieceFrequency[p] + Cardinality(NoBitfieldYet) <= nextId + Cardinality(Having(p))
  <1>1. nextId \in Nat
    BY SwarmAssumption DEF TypeOK, PeersTypeOK
  <1>2. IsFiniteSet(NoBitfieldYet) /\ Cardinality(NoBitfieldYet) \in Nat
    BY JoinedCount DEF NoBitfieldYet
  <1>3. ASSUME NEW p \in Pieces
        PROVE  /\ IsFiniteSet(Having(p))
               /\ Cardinality(Having(p)) \in Nat /\ Cardinality(Having(p)) <= nextId
    BY JoinedCount DEF Having
  <1>4. \A p \in Pieces : pieceFrequency[p] \in Nat /\ pieceFrequency[p] < TwoTo16
    BY DEF TypeOK, PeersTypeOK, Uint16
  <1>5. \A p \in Pieces : Cardinality(Having(p)) <= pieceFrequency[p]
    BY <1>3, <1>4 DEF FreqInv, FrequencyCoversPeers, Having
  <1>. QED
    BY <1>1, <1>2, <1>3, <1>4, <1>5 DEF FreqInv

\* A step that leaves the connections and their pieces alone keeps the counts.
LEMMA FreqSame ==
    ASSUME FreqInv, UNCHANGED <<conns, hasPieces, gotBitfield, nextId, pieceFrequency>>
    PROVE  FreqInv'
  BY DEF FreqInv, FrequencyCoversPeers, Having, NoBitfieldYet

\* What is to be shown of the counts after a step, in numbers.
LEMMA FreqForm ==
    ASSUME TypeOK', nextId' \in Nat,
           \A c \in Ids : c \notin conns' => hasPieces'[c] = {} /\ ~gotBitfield'[c],
           \A c \in conns' : c < nextId',
           \A p \in Pieces : Cardinality(Having(p)') <= pieceFrequency'[p],
           \A p \in Pieces : pieceFrequency'[p] + Cardinality(NoBitfieldYet')
                                 <= nextId' + Cardinality(Having(p)'),
           \A p \in Pieces : Cardinality(Having(p)') \in Nat /\ pieceFrequency'[p] \in Nat
    PROVE  FreqInv'
  BY DEF FreqInv, FrequencyCoversPeers, Having

\* A new connection has no piece yet, and may still send its bitfield.
LEMMA FreqJoin ==
    ASSUME TypeOK, TypeOK', FreqInv, NEW h, Promote(h)
    PROVE  FreqInv'
  <1> DEFINE c == nextId
  <1>1. /\ c \in Ids /\ nextId' = c + 1 /\ conns' = conns \cup {c}
        /\ UNCHANGED <<hasPieces, gotBitfield, pieceFrequency>>
    BY SwarmAssumption DEF Promote, TypeOK, PeersTypeOK, Ids
  <1>2. c \notin conns /\ c \in Nat /\ conns \subseteq Ids /\ Ids \subseteq Nat
    BY SwarmAssumption DEF FreqInv, TypeOK, PeersTypeOK, Ids
  <1>3. hasPieces[c] = {} /\ ~gotBitfield[c]
    BY <1>1, <1>2 DEF FreqInv
  <1>4. \A p \in Pieces : Having(p)' = Having(p)
    BY <1>1, <1>3 DEF Having
  <1>5. NoBitfieldYet' = NoBitfieldYet \cup {c} /\ c \notin NoBitfieldYet
    BY <1>1, <1>2, <1>3 DEF NoBitfieldYet
  <1>6. Cardinality(NoBitfieldYet') = Cardinality(NoBitfieldYet) + 1
    <2>1. IsFiniteSet(NoBitfieldYet)
      BY CountTypes
    <2>. QED
      BY <1>5, <2>1, FS_AddElement
  <1>7. \A d \in Ids : d \notin conns' => hasPieces'[d] = {} /\ ~gotBitfield'[d]
    BY <1>1 DEF FreqInv
  <1>8. ASSUME NEW d \in conns' PROVE d < nextId'
    <2>1. d \in Nat /\ (d \in conns \/ d = c)
      BY <1>1, <1>2, <1>8
    <2>2. d \in conns => d < c
      BY DEF FreqInv
    <2> HIDE DEF c
    <2>. QED
      BY <1>1, <1>2, <2>1, <2>2
  <1> HIDE DEF c
  <1>9. \A p \in Pieces : /\ Cardinality(Having(p)') <= pieceFrequency'[p]
                          /\ pieceFrequency'[p] + Cardinality(NoBitfieldYet')
                                <= nextId' + Cardinality(Having(p)')
                          /\ Cardinality(Having(p)') \in Nat /\ pieceFrequency'[p] \in Nat
    BY <1>1, <1>4, <1>6, CountTypes DEF c
  <1>. QED
    BY <1>1, <1>2, <1>7, <1>8, <1>9, FreqForm

\* A have message for a new piece counts once.
LEMMA FreqHave ==
    ASSUME TypeOK, TypeOK', FreqInv, 2 * nextId < TwoTo16, NEW c \in conns, NEW p \in Pieces,
           RecvHave(c, p)
    PROVE  FreqInv'
  <1>1. /\ p \notin hasPieces[c]
        /\ hasPieces' = [hasPieces EXCEPT ![c] = @ \cup {p}]
        /\ pieceFrequency' = [pieceFrequency EXCEPT ![p] = Wrap16(@ + 1)]
        /\ UNCHANGED <<conns, gotBitfield, nextId>>
    BY DEF RecvHave
  <1>2. /\ hasPieces \in [Ids -> SUBSET Pieces] /\ conns \subseteq Ids
        /\ pieceFrequency \in [Pieces -> Uint16]
    BY DEF TypeOK, PeersTypeOK
  <1>3. NoBitfieldYet' = NoBitfieldYet
    BY <1>1 DEF NoBitfieldYet
  <1>4. Having(p)' = Having(p) \cup {c} /\ c \notin Having(p)
    BY <1>1, <1>2 DEF Having
  <1>5. \A q \in Pieces \ {p} : Having(q)' = Having(q) /\ pieceFrequency'[q] = pieceFrequency[q]
    BY <1>1, <1>2 DEF Having
  <1>6. Cardinality(Having(p)') = Cardinality(Having(p)) + 1
    <2>1. IsFiniteSet(Having(p))
      BY CountTypes
    <2>. QED
      BY <1>4, <2>1, FS_AddElement
  <1>7. pieceFrequency'[p] = pieceFrequency[p] + 1
    <2>1. pieceFrequency'[p] = Wrap16(pieceFrequency[p] + 1)
      BY <1>1, <1>2
    <2>2. pieceFrequency[p] \in Nat /\ pieceFrequency[p] + 1 < TwoTo16
      <3> DEFINE f == pieceFrequency[p]
                 h == Cardinality(Having(p))
                 b == Cardinality(NoBitfieldYet)
      <3>1. /\ nextId \in Nat /\ f \in Nat /\ h \in Nat /\ b \in Nat
            /\ h <= nextId /\ f + b <= nextId + h
        BY CountTypes
      <3>2. h + 1 <= nextId
        <4>1. Having(p)' \subseteq conns
          BY <1>1 DEF Having
        <4>2. h + 1 = Cardinality(Having(p)')
          BY <1>6
        <4>. QED
          BY <4>1, <4>2, JoinedCount
      <3>3. TwoTo16 \in Nat
        BY WrapType
      <3> HIDE DEF f, h, b
      <3>4. f + 1 < TwoTo16
        BY <3>1, <3>2, <3>3
      <3>. QED
        BY <3>1, <3>4 DEF f
    <2>. QED
      BY <2>1, <2>2, WrapFits
  <1>8. \A d \in Ids : d \notin conns' => hasPieces'[d] = {} /\ ~gotBitfield'[d]
    BY <1>1, <1>2 DEF FreqInv
  <1>9. \A d \in conns' : d < nextId'
    BY <1>1 DEF FreqInv
  <1>10. ASSUME NEW q \in Pieces
         PROVE  /\ Cardinality(Having(q)') <= pieceFrequency'[q]
                /\ pieceFrequency'[q] + Cardinality(NoBitfieldYet')
                       <= nextId' + Cardinality(Having(q)')
                /\ Cardinality(Having(q)') \in Nat /\ pieceFrequency'[q] \in Nat
    <2>1. CASE q = p
      BY <1>1, <1>3, <1>6, <1>7, <2>1, CountTypes
    <2>2. CASE q # p
      BY <1>1, <1>3, <1>5, <2>2, CountTypes
    <2>. QED
      BY <2>1, <2>2
  <1>. QED
    BY <1>1, <1>8, <1>9, <1>10, CountTypes, FreqForm

\* The bitfield counts for every piece in it, whether or not a have message has
\* counted it before, and uses up the connection's allowance.
LEMMA FreqBitfield ==
    ASSUME TypeOK, TypeOK', FreqInv, 2 * nextId < TwoTo16, NEW c \in conns, NEW bf \in SUBSET Pieces,
           RecvBitfield(c, bf)
    PROVE  FreqInv'
  <1>1. /\ ~gotBitfield[c]
        /\ gotBitfield' = [gotBitfield EXCEPT ![c] = TRUE]
        /\ hasPieces' = [hasPieces EXCEPT ![c] = bf]
        /\ pieceFrequency' = [p \in Pieces |-> IF p \in bf THEN Wrap16(pieceFrequency[p] + 1)
                                                          ELSE pieceFrequency[p]]
        /\ UNCHANGED <<conns, nextId>>
    BY DEF RecvBitfield
  <1>2. /\ hasPieces \in [Ids -> SUBSET Pieces] /\ conns \subseteq Ids
        /\ gotBitfield \in [Ids -> BOOLEAN]
    BY DEF TypeOK, PeersTypeOK
  <1>3. NoBitfieldYet' = NoBitfieldYet \ {c} /\ c \in NoBitfieldYet
    BY <1>1, <1>2 DEF NoBitfieldYet
  <1>4. Cardinality(NoBitfieldYet') = Cardinality(NoBitfieldYet) - 1
    <2>1. IsFiniteSet(NoBitfieldYet) /\ Cardinality(NoBitfieldYet) \in Nat
      BY CountTypes
    <2>2. Cardinality(NoBitfieldYet \ {c}) = Cardinality(NoBitfieldYet) - 1
      BY <1>3, <2>1, FS_RemoveElement
    <2>. QED
      BY <1>3, <2>2
  <1>5. \A d \in Ids : d \notin conns' => hasPieces'[d] = {} /\ ~gotBitfield'[d]
    BY <1>1, <1>2 DEF FreqInv
  <1>6. \A d \in conns' : d < nextId'
    BY <1>1 DEF FreqInv
  <1>7. Cardinality(NoBitfieldYet') \in Nat
    <2>1. IsFiniteSet(NoBitfieldYet) /\ Cardinality(NoBitfieldYet) \in Nat
      BY CountTypes
    <2>2. IsFiniteSet(NoBitfieldYet')
      BY <1>3, <2>1, FS_RemoveElement
    <2>. QED
      BY <2>2, FS_CardinalityType
  <1>8. ASSUME NEW p \in Pieces
        PROVE  /\ Cardinality(Having(p)') <= pieceFrequency'[p]
               /\ pieceFrequency'[p] + Cardinality(NoBitfieldYet')
                      <= nextId' + Cardinality(Having(p)')
               /\ Cardinality(Having(p)') \in Nat /\ pieceFrequency'[p] \in Nat
    <2>1. IsFiniteSet(Having(p)) /\ Cardinality(Having(p)) \in Nat
      BY CountTypes
    <2>2. CASE p \in bf
      <3>1. Having(p)' = Having(p) \cup {c}
        BY <1>1, <1>2, <2>2 DEF Having
      <3>2. \/ Cardinality(Having(p)') = Cardinality(Having(p))
            \/ Cardinality(Having(p)') = Cardinality(Having(p)) + 1
        BY <2>1, <3>1, FS_AddElement
      <3>3. pieceFrequency'[p] = Wrap16(pieceFrequency[p] + 1)
        BY <1>1, <2>2
      <3>4. pieceFrequency[p] + 1 < TwoTo16 /\ pieceFrequency[p] \in Nat
        BY <1>4, <1>7, CountTypes, WrapType
      <3>5. pieceFrequency'[p] = pieceFrequency[p] + 1
        BY <3>3, <3>4, WrapFits
      <3>. QED
        BY <1>1, <1>4, <3>2, <3>5, CountTypes
    <2>3. CASE p \notin bf
      <3>1. Having(p)' = Having(p) \ {c}
        BY <1>1, <1>2, <2>3 DEF Having
      <3>2. /\ IsFiniteSet(Having(p)')
            /\ \/ Cardinality(Having(p)') = Cardinality(Having(p))
               \/ Cardinality(Having(p)') = Cardinality(Having(p)) - 1
        <4> DEFINE H == Having(p)
        <4>1. IsFiniteSet(H)
          BY <2>1
        <4> HIDE DEF H
        <4>2. /\ IsFiniteSet(H \ {c})
              /\ Cardinality(H \ {c}) = IF c \in H THEN Cardinality(H) - 1 ELSE Cardinality(H)
          BY <4>1, FS_RemoveElement
        <4>. QED
          BY <3>1, <4>2 DEF H
      <3>3. Cardinality(Having(p)') \in Nat
        BY <3>2, FS_CardinalityType
      <3>4. pieceFrequency'[p] = pieceFrequency[p]
        BY <1>1, <2>3
      <3>. QED
        BY <1>1, <1>4, <3>2, <3>3, <3>4, CountTypes
    <2>. QED
      BY <2>2, <2>3
  <1>. QED
    BY <1>1, <1>5, <1>6, <1>8, CountTypes, FreqForm

\* A departure takes back what the connection's pieces had counted for.
LEMMA FreqDrop ==
    ASSUME TypeOK, TypeOK', FreqInv, NEW C \in SUBSET conns, NEW news, Drop(C, news)
    PROVE  FreqInv'
  <1>1. /\ conns' = conns \ C /\ nextId' = nextId
        /\ hasPieces' = [c \in Ids |-> IF c \in C THEN {} ELSE hasPieces[c]]
        /\ gotBitfield' = [c \in Ids |-> IF c \in C THEN FALSE ELSE gotBitfield[c]]
        /\ pieceFrequency' = FrequencyWithout(C)
    BY DEF Drop
  <1>2. hasPieces \in [Ids -> SUBSET Pieces] /\ conns \subseteq Ids
    BY DEF TypeOK, PeersTypeOK
  <1>3. \A c \in Ids : c \notin conns' => hasPieces'[c] = {} /\ ~gotBitfield'[c]
    BY <1>1, <1>2 DEF FreqInv
  <1>4. \A c \in conns' : c < nextId'
    BY <1>1 DEF FreqInv
  <1>5. Cardinality(NoBitfieldYet') \in Nat /\ Cardinality(NoBitfieldYet') <= Cardinality(NoBitfieldYet)
    <2>1. IsFiniteSet(NoBitfieldYet)
      BY CountTypes
    <2>2. NoBitfieldYet' \in SUBSET NoBitfieldYet
      BY <1>1, <1>2 DEF NoBitfieldYet
    <2>. QED
      BY <2>1, <2>2, FS_Subset, FS_CardinalityType
  <1>6. ASSUME NEW p \in Pieces
        PROVE  /\ Cardinality(Having(p)') <= pieceFrequency'[p]
               /\ pieceFrequency'[p] + Cardinality(NoBitfieldYet')
                      <= nextId' + Cardinality(Having(p)')
               /\ Cardinality(Having(p)') \in Nat /\ pieceFrequency'[p] \in Nat
    <2> DEFINE k == Cardinality(Having(p) \cap C)
    <2>1. IsFiniteSet(Having(p)) /\ Cardinality(Having(p)) \in Nat
      BY CountTypes
    <2>2. Having(p)' = Having(p) \ C /\ {c \in C : p \in hasPieces[c]} = Having(p) \cap C
      BY <1>1, <1>2 DEF Having
    <2>3. k \in Nat
      BY <2>1, FS_Intersection, FS_CardinalityType
    <2>4. /\ Cardinality(Having(p) \ C) = Cardinality(Having(p)) - k
          /\ Cardinality(Having(p) \ C) \in Nat
      BY <2>1, FS_Difference, FS_CardinalityType
    <2>5. pieceFrequency'[p] = Wrap16(pieceFrequency[p] + TwoTo16 - k)
      BY <1>1, <2>2 DEF FrequencyWithout
    <2> HIDE DEF k
    <2>6. pieceFrequency'[p] = pieceFrequency[p] - k
      <3>1. pieceFrequency[p] \in Nat /\ pieceFrequency[p] < TwoTo16 /\ k <= pieceFrequency[p]
        BY <2>3, <2>4, CountTypes
      <3>. QED
        BY <2>3, <2>5, <3>1, WrapFits
    <2>. QED
      BY <1>1, <1>5, <2>2, <2>3, <2>4, <2>6, CountTypes
  <1>. QED
    BY <1>1, <1>3, <1>4, <1>6, CountTypes, FreqForm

\* Every step keeps the counts, as long as they cannot have wrapped around.
LEMMA FreqStep ==
    TypeOK /\ TypeOK' /\ LoopInv /\ FreqInv /\ 2 * nextId < TwoTo16 /\ [Next]_vars => FreqInv'
  <1> SUFFICES ASSUME TypeOK, TypeOK', LoopInv, FreqInv, 2 * nextId < TwoTo16, [Next]_vars
               PROVE  FreqInv'
    OBVIOUS
  <1>1. ASSUME NEW h \in Hosts, FinishHandshake(h) PROVE FreqInv'
    BY <1>1, FreqJoin DEF FinishHandshake
  <1>2. ASSUME NEW p \in HavePieces, MsgHave(p) PROVE FreqInv'
    BY <1>2, FreqHave, PeerWireAssumption DEF MsgHave, HandleMessage
  <1>3. ASSUME NEW bf \in Bitfields, MsgBitfield(bf) PROVE FreqInv'
    BY <1>3, FreqBitfield, PeerWireAssumption DEF MsgBitfield, HandleMessage
  <1>4. ASSUME NEW c \in Ids, DropPeer(c) PROVE FreqInv'
    <2>1. Drop({c}, {}) /\ {c} \in SUBSET conns
      BY <1>4 DEF DropPeer, LoopInv
    <2>. QED
      BY <2>1, FreqDrop
  <1>5. ASSUME PieceVerified \/ PieceFailed PROVE FreqInv'
    <2>1. PICK H, news : Drop(BannedConns(H), news)
      BY <1>5 DEF PieceVerified, PieceFailed, Ban
    <2>2. BannedConns(H) \in SUBSET conns
      BY DEF BannedConns
    <2>. QED
      BY <2>1, <2>2, FreqDrop
  <1>6. ASSUME \/ \E p \in Pieces : Recheck(p)
               \/ EndRecheck \/ Poll \/ EndHandshakes \/ EndRead \/ EndDrop \/ EndDispatch
               \/ EndExpire \/ NextFill \/ EndFill \/ EndLoop \/ Shutdown
               \/ PollFails \/ SyncFails \/ ReadFails
               \/ \E c \in Ids : ReadFrom(c)
               \/ DispatchReleased \/ PieceNoVerdict \/ WriteFails
               \/ UNCHANGED vars
        PROVE  FreqInv'
    <2>1. UNCHANGED peerVars
      BY <1>6 DEF Recheck, EndRecheck, Poll, EndHandshakes, EndRead, EndDrop, EndDispatch,
         EndExpire, NextFill, EndFill, EndLoop, Shutdown,
         PollFails, SyncFails, ReadFails, ReadFrom, DispatchReleased,
         PieceNoVerdict, WriteFails, vars
    <2>. QED
      BY <2>1, FreqSame DEF peerVars
  <1>7. ASSUME MsgChoke \/ MsgUnchoke \/ DispatchJoined PROVE FreqInv'
    BY <1>7, FreqSame DEF MsgChoke, MsgUnchoke, DispatchJoined, RecvChoke, RecvUnchoke, Greet
  <1>8. ASSUME NEW i, NEW bytes, MsgPiece(i, bytes) PROVE FreqInv'
    BY <1>8, FreqSame DEF MsgPiece, RecvPiece
  <1>9. ASSUME NEW c, NEW n, Expire(c, n) PROVE FreqInv'
    BY <1>9, FreqSame DEF Expire, TakeStale
  <1>10. ASSUME NEW c, NEW r, Fill(c, r) \/ FillSnubbed(c, r) PROVE FreqInv'
    BY <1>10, FreqSame DEF Fill, FillSnubbed, SendRequest
  <1>. QED
    BY <1>1, <1>2, <1>3, <1>4, <1>5, <1>6, <1>7, <1>8, <1>9, <1>10 DEF Next, Done

\* next_id_ only counts up.
LEMMA IdsCountUp == TypeOK /\ [Next]_vars => nextId' \in Nat /\ nextId <= nextId'
  <1> SUFFICES ASSUME TypeOK, [Next]_vars PROVE nextId' \in Nat /\ nextId <= nextId'
    OBVIOUS
  <1>1. nextId \in Nat
    BY SwarmAssumption DEF TypeOK, PeersTypeOK
  <1>2. nextId' = nextId \/ nextId' = nextId + 1
    BY DEF Next, Done, Recheck, EndRecheck, Poll, FinishHandshake, Promote, EndHandshakes, ReadFrom,
       MsgChoke, MsgUnchoke, MsgHave, MsgBitfield, MsgPiece, RecvChoke, RecvUnchoke, RecvHave,
       RecvBitfield, RecvPiece, ReadFails, EndRead, DropPeer, Drop, EndDrop, DispatchJoined, Greet,
       DispatchReleased, PieceNoVerdict, PieceVerified, WriteFails, PieceFailed, Ban, EndDispatch,
       Expire, TakeStale, EndExpire, Fill, NextFill, EndFill, FillSnubbed, SendRequest, EndLoop,
       Shutdown, PollFails, SyncFails, vars, peerVars
  <1>. QED
    BY <1>1, <1>2

\* Up to the 32768th connection of a run no count of piece_frequency_ is below the
\* number of connected peers that have the piece, so no departure wraps one around.
\* The bound is the code's: each connection may leave a surplus of one behind, and
\* the counters are 16 bits wide.
THEOREM RarityNeverWraps == Spec => [](2 * nextId < TwoTo16 => FrequencyCoversPeers)
  <1> DEFINE J == 2 * nextId < TwoTo16 => FreqInv
  <1>1. Init => J
    <2> SUFFICES ASSUME Init PROVE FreqInv
      OBVIOUS
    <2>1. \A p \in Pieces : Having(p) = {} /\ pieceFrequency[p] = 0
      BY DEF Init, PeersInit, Having
    <2>2. NoBitfieldYet = {} /\ nextId = 0 /\ conns = {}
      BY DEF Init, PeersInit, NoBitfieldYet
    <2>3. \A c \in Ids : hasPieces[c] = {} /\ ~gotBitfield[c]
      BY DEF Init, PeersInit
    <2>. QED
      BY <2>1, <2>2, <2>3, FS_EmptySet DEF FreqInv, FrequencyCoversPeers, Having
  <1>2. TypeOK /\ TypeOK' /\ LoopInv /\ J /\ [Next]_vars => J'
    <2>1. TypeOK => nextId \in Nat
      BY SwarmAssumption DEF TypeOK, PeersTypeOK
    <2>2. TwoTo16 \in Nat
      BY WrapType
    <2>3. TypeOK /\ [Next]_vars /\ 2 * nextId' < TwoTo16 => 2 * nextId < TwoTo16
      BY <2>1, <2>2, IdsCountUp
    <2>. QED
      BY <2>3, FreqStep
  <1>3. J => (2 * nextId < TwoTo16 => FrequencyCoversPeers)
    BY DEF FreqInv
  <1> HIDE DEF J
  <1>. QED
    BY <1>1, <1>2, <1>3, TypeInit, TypeStep, BooksInit, LoopStep, PTL DEF Spec

\* The recheck counts the pieces it finds, and nobody is told of a completion
\* before it is over.
LEMMA RecheckStep == TypeOK /\ RecheckInv /\ [Next]_vars => RecheckInv'
  <1> SUFFICES ASSUME TypeOK, RecheckInv, [Next]_vars, phase' = "recheck" PROVE RecheckInv'
    BY DEF RecheckInv
  <1>1. (\E p \in Pieces : Recheck(p)) \/ UNCHANGED vars
    BY DEF Next, Done, EndRecheck, Poll, FinishHandshake, EndHandshakes, ReadFrom, MsgChoke,
       MsgUnchoke, MsgHave, MsgBitfield, MsgPiece, HandleMessage, ReadFails, EndRead, DropPeer,
       EndDrop, DispatchJoined, DispatchReleased, PieceNoVerdict, PieceVerified, WriteFails,
       PieceFailed, OnPiece, EndDispatch, Expire, EndExpire, Fill, NextFill, EndFill, FillSnubbed,
       EndLoop, Shutdown, PollFails, SyncFails
  <1>2. CASE UNCHANGED vars
    BY <1>2 DEF RecheckInv, vars, pieceVars, loopVars, diskVars
  <1>3. ASSUME NEW p \in Pieces, Recheck(p) PROVE RecheckInv'
    <2>1. /\ phase = "recheck" /\ p \in unchecked /\ unchecked' = unchecked \ {p}
          /\ disk' = disk /\ notified' = notified
          /\ IF p \in disk THEN have' = have \cup {p} /\ haveCount' = haveCount + 1
                           ELSE have' = have /\ haveCount' = haveCount
      BY <1>3 DEF Recheck
    <2>2. have = disk \ unchecked /\ haveCount = Cardinality(have) /\ ~notified
      BY <2>1 DEF RecheckInv
    <2>3. IsFiniteSet(have)
      BY FS_Subset, SwarmAssumption DEF TypeOK, PiecesTypeOK
    <2>4. CASE p \in disk
      <3>1. p \notin have /\ have' = have \cup {p}
        BY <2>1, <2>2, <2>4
      <3>2. Cardinality(have') = Cardinality(have) + 1
        BY <2>3, <3>1, FS_AddElement
      <3>. QED
        BY <2>1, <2>2, <2>4, <3>1, <3>2 DEF RecheckInv
    <2>5. CASE p \notin disk
      BY <2>1, <2>2, <2>5 DEF RecheckInv
    <2>. QED
      BY <2>4, <2>5
  <1>. QED
    BY <1>1, <1>2, <1>3

\* After a start that finds every piece, completed_ is set before the main loop
\* looks at it.
LEMMA ResumeStep == TypeOK /\ RecheckInv /\ ResumeInv /\ [Next]_vars => ResumeInv'
  <1> SUFFICES ASSUME TypeOK, RecheckInv, ResumeInv, [Next]_vars PROVE ResumeInv'
    OBVIOUS
  <1>1. ASSUME NEW p \in Pieces, Recheck(p) PROVE ResumeInv'
    BY <1>1 DEF Recheck, ResumeInv, loopVars
  <1>2. ASSUME EndRecheck PROVE ResumeInv'
    <2>1. phase = "recheck" /\ unchecked = {} /\ completed' = IsComplete
          /\ notified' = notified /\ phase' = "poll"
      BY <1>2 DEF EndRecheck
    <2>2. have = Pieces
      BY <2>1 DEF ResumeInv, RecheckInv
    <2>. QED
      BY <2>1, <2>2 DEF ResumeInv, RecheckInv, IsComplete
  <1>3. ASSUME EndExpire \/ SyncFails PROVE ResumeInv'
    BY <1>3 DEF EndExpire, SyncFails, ResumeInv
  <1>4. ASSUME phase # "recheck", phase' # "recheck", UNCHANGED <<completed, notified>>
        PROVE  ResumeInv'
    BY <1>4 DEF ResumeInv
  <1>5. ASSUME UNCHANGED vars PROVE ResumeInv'
    BY <1>5 DEF ResumeInv, vars, loopVars, diskVars
  <1>6. ASSUME MsgChoke \/ MsgUnchoke \/ (\E p \in HavePieces : MsgHave(p))
               \/ (\E bf \in Bitfields : MsgBitfield(bf))
               \/ \E i \in 1 .. PipelineDepth, bytes \in {"good", "bad"} : MsgPiece(i, bytes)
        PROVE  ResumeInv'
    <2>1. HandleMessage
      BY <1>6 DEF MsgChoke, MsgUnchoke, MsgHave, MsgBitfield, MsgPiece
    <2>. QED
      BY <1>4, <2>1 DEF HandleMessage, diskVars
  <1>7. ASSUME PieceNoVerdict \/ PieceVerified \/ WriteFails \/ PieceFailed PROVE ResumeInv'
    <2>1. phase = "dispatch" /\ UNCHANGED <<completed, notified>> /\ phase' \in {"dispatch", "failed"}
      BY <1>7 DEF PieceNoVerdict, PieceVerified, WriteFails, PieceFailed, OnPiece
    <2>. QED
      BY <1>4, <2>1
  <1>8. ASSUME Poll \/ EndHandshakes \/ ReadFails \/ EndRead \/ EndDrop \/ DispatchJoined
               \/ DispatchReleased \/ EndDispatch \/ NextFill \/ EndFill \/ EndLoop \/ Shutdown
               \/ PollFails
        PROVE  ResumeInv'
    BY <1>4, <1>8 DEF Poll, EndHandshakes, ReadFails, EndRead, EndDrop, DispatchJoined,
       DispatchReleased, EndDispatch, NextFill, EndFill, EndLoop, Shutdown, PollFails, diskVars
  <1>9. ASSUME NEW c, ReadFrom(c) \/ DropPeer(c) \/ (\E h : FinishHandshake(h))
               \/ (\E n : Expire(c, n)) \/ (\E r : Fill(c, r) \/ FillSnubbed(c, r))
        PROVE  ResumeInv'
    BY <1>4, <1>9 DEF ReadFrom, DropPeer, FinishHandshake, Expire, Fill, FillSnubbed, diskVars
  <1>. QED
    BY <1>1, <1>2, <1>3, <1>5, <1>6, <1>7, <1>8, <1>9 DEF Next, Done

\* A run that starts with every piece on disk never reports a completion to the
\* trackers: the constructor sets completed_ before the loop tests it.
THEOREM ResumeNeverReported == Spec => NoCompletionOnResume
  <1>1. Init => TypeOK /\ RecheckInv
    <2>1. Init => RecheckInv
      BY FS_EmptySet DEF Init, RecheckInv
    <2>. QED
      BY <2>1, TypeInit
  <1>2. RecheckInv /\ phase = "recheck" /\ disk = Pieces => ResumeInv
    BY DEF RecheckInv, ResumeInv
  <1>3. ResumeInv => ~notified
    BY DEF ResumeInv
  <1>. QED
    BY <1>1, <1>2, <1>3, TypeStep, RecheckStep, ResumeStep, PTL DEF Spec, NoCompletionOnResume
=============================================================================
