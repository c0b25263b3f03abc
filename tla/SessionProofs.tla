--------------------------- MODULE SessionProofs ---------------------------
(***************************************************************************)
(* What rests on the session's books: who holds a request, what the peers  *)
(* are told, and who is banned.                                            *)
(*                                                                         *)
(* Every requested block has exactly one holder: one place in one peer's   *)
(* pending list, or one event still to be dispatched.  release() in        *)
(* piece_manager.cpp relies on it, and pick_block() would never hand out a *)
(* Requested block that nobody holds.  A step does one of three things to  *)
(* the holders.  It moves requests of one peer from its pending list to a  *)
(* new event (LedgerMove), it gives up requests and events and settles the *)
(* state of their blocks (LedgerSettle), or it gives a Missing block to a  *)
(* peer (LedgerGrow).                                                      *)
(*                                                                         *)
(* Every peer that has been greeted knows of the pieces we have, all of    *)
(* them stored, and a snubbed peer gets only what no healthy one could     *)
(* take.                                                                   *)
(*                                                                         *)
(* No honest host is ever banned.  The argument: BanManager always knows   *)
(* which host sent each received block (SenderOnRecord), a piece gets a    *)
(* verdict only when every slot of its senders list has been written       *)
(* (VerdictComplete), and a failed piece holds a block that is not good.   *)
(* So a sole sender, or the sender of a block that differs from the        *)
(* verified piece, is a host that sent corrupt bytes.                      *)
(***************************************************************************)
EXTENDS SessionBooks, WellFoundedInduction

\* Zenon first, then SMT, with time for a slow machine.
USE ZenonT(6), SMTT(60), ZenonT(60)

----------------------------------------------------------------------------
(* Requests and their holders *)

\* What NoBlockLost and NoBlockHeldTwice say, with the holders of a block
\* ranging over all connection ids: one that is closed holds nothing.
Ledger ==
    /\ \A r \in Blocks :
          state[r] = "Requested" =>
              \/ \E c \in Ids : r \in Entries(pending[c])
              \/ \E i \in 1 .. Len(events) : r \in Carried(events[i])
    /\ NoBlockHeldTwice

\* An event stands for blocks of the torrent.
LEMMA CarriedBlocks ==
    ASSUME TypeOK, NEW i \in 1 .. Len(events)
    PROVE  Carried(events[i]) \subseteq Blocks
  <1>1. events[i] \in Event
    BY DEF TypeOK, LoopTypeOK
  <1>2. CASE events[i].type = "Joined"
    BY <1>2 DEF Carried
  <1>3. CASE events[i].type = "Piece"
    <2>1. events[i].block \in Blocks
      BY <1>1, <1>3 DEF Event
    <2>. QED
      BY <1>3, <2>1 DEF Carried
  <1>4. CASE events[i].type \notin {"Joined", "Piece"}
    <2>1. events[i].released \in Seq(Blocks)
      BY <1>1, <1>4 DEF Event
    <2>. QED
      BY <1>4, <2>1 DEF Carried, Entries
  <1>. QED
    BY <1>2, <1>3, <1>4

\* The two forms agree as long as closed connections hold nothing.
LEMMA LedgerForm ==
    ASSUME TypeOK, LoopInv
    PROVE  Ledger <=> NoBlockLost /\ NoBlockHeldTwice
  <1>1. conns \subseteq Ids /\ \A c \in Ids : c \notin conns => Entries(pending[c]) = {}
    BY DEF TypeOK, PeersTypeOK, LoopInv, Entries
  <1>2. Ledger => NoBlockLost
    BY <1>1 DEF Ledger, NoBlockLost
  <1>3. NoBlockLost /\ NoBlockHeldTwice => Ledger
    BY <1>1 DEF Ledger, NoBlockLost
  <1>. QED
    BY <1>2, <1>3 DEF Ledger

\* Requests of peer c move from its pending list to an event appended to the rest.
LEMMA LedgerMove ==
    ASSUME TypeOK, Ledger, NEW c \in Ids, NEW e, state' = state,
           events' = Append(events, e),
           \A d \in Ids : d # c => pending'[d] = pending[d],
           NoRepeats(pending'[c]),
           Entries(pending'[c]) \cup Carried(e) = Entries(pending[c]),
           Entries(pending'[c]) \cap Carried(e) = {}
    PROVE  Ledger'
  <1> DEFINE n == Len(events)
  <1>1. /\ n \in Nat /\ Len(events') = n + 1 /\ events'[n + 1] = e
        /\ \A i \in 1 .. n : events'[i] = events[i]
    BY DEF TypeOK, LoopTypeOK
  <1>2. \A d \in Ids : Entries(pending'[d]) \subseteq Entries(pending[d])
    OBVIOUS
  <1>3. \A i \in 1 .. Len(events') : \/ i \in 1 .. n /\ events'[i] = events[i]
                                     \/ i = n + 1 /\ events'[i] = e
    BY <1>1
  <1> HIDE DEF n
  <1>4. ASSUME NEW r \in Blocks, state'[r] = "Requested"
        PROVE  \/ \E d \in Ids : r \in Entries(pending'[d])
               \/ \E i \in 1 .. Len(events') : r \in Carried(events'[i])
    <2>1. CASE \E d \in Ids \ {c} : r \in Entries(pending[d])
      BY <2>1
    <2>2. CASE r \in Entries(pending[c])
      BY <2>2, <1>1
    <2>3. CASE \E i \in 1 .. Len(events) : r \in Carried(events[i])
      BY <2>3, <1>1 DEF n
    <2>. QED
      BY <1>4, <2>1, <2>2, <2>3 DEF Ledger
  <1>5. \A d \in Ids : NoRepeats(pending'[d])
    BY DEF Ledger, NoBlockHeldTwice
  <1>6. \A d1, d2 \in Ids : d1 # d2 => Entries(pending'[d1]) \cap Entries(pending'[d2]) = {}
    BY <1>2 DEF Ledger, NoBlockHeldTwice
  <1>7. ASSUME NEW i \in 1 .. Len(events'), NEW d \in Ids
        PROVE  Carried(events'[i]) \cap Entries(pending'[d]) = {}
    <2>1. CASE i \in 1 .. n /\ events'[i] = events[i]
      BY <2>1, <1>2 DEF Ledger, NoBlockHeldTwice, n
    <2>2. CASE i = n + 1 /\ events'[i] = e
      BY <2>2, <1>2 DEF Ledger, NoBlockHeldTwice
    <2>. QED
      BY <2>1, <2>2, <1>3
  <1>8. ASSUME NEW i \in 1 .. Len(events'), NEW j \in 1 .. Len(events'), i # j
        PROVE  Carried(events'[i]) \cap Carried(events'[j]) = {}
    <2>1. CASE i \in 1 .. n /\ events'[i] = events[i] /\ j \in 1 .. n /\ events'[j] = events[j]
      BY <2>1, <1>8 DEF Ledger, NoBlockHeldTwice, n
    <2>2. \A k \in 1 .. n : Carried(events[k]) \cap Carried(e) = {}
      BY DEF Ledger, NoBlockHeldTwice, n
    <2>. QED
      BY <2>1, <2>2, <1>3, <1>8
  <1>9. \A d \in Ids : \A r \in Entries(pending'[d]) : state'[r] = "Requested"
    BY <1>2 DEF Ledger, NoBlockHeldTwice
  <1>10. ASSUME NEW i \in 1 .. Len(events'), NEW r \in Carried(events'[i])
         PROVE  state'[r] = "Requested"
    <2>1. CASE i \in 1 .. n /\ events'[i] = events[i]
      BY <2>1, <1>10 DEF Ledger, NoBlockHeldTwice, n
    <2>2. CASE i = n + 1 /\ events'[i] = e
      BY <2>2, <1>10 DEF Ledger, NoBlockHeldTwice
    <2>. QED
      BY <2>1, <2>2, <1>3
  <1>. QED
    BY <1>4, <1>5, <1>6, <1>7, <1>8, <1>9, <1>10 DEF Ledger, NoBlockHeldTwice

\* Pending lists shrink, the first event may go, and the state of every block
\* agrees with who still holds it.
LEMMA LedgerSettle ==
    ASSUME TypeOK, Ledger,
           events' = events \/ (events # <<>> /\ events' = Tail(events)),
           \A d \in Ids : NoRepeats(pending'[d]) /\ Entries(pending'[d]) \subseteq Entries(pending[d]),
           \A d \in Ids : \A r \in Entries(pending'[d]) : state'[r] = "Requested",
           \A i \in 1 .. Len(events') : \A r \in Carried(events'[i]) : state'[r] = "Requested",
           \A r \in Blocks : state'[r] = "Requested" =>
               \/ \E d \in Ids : r \in Entries(pending'[d])
               \/ \E i \in 1 .. Len(events') : r \in Carried(events'[i])
    PROVE  Ledger'
  <1>1. PICK k \in {0, 1} :
           \A i \in 1 .. Len(events') : i + k \in 1 .. Len(events) /\ events'[i] = events[i + k]
    <2>1. CASE events' = events
      BY <2>1
    <2>2. CASE events # <<>> /\ events' = Tail(events)
      BY <2>2, HeadEvent
    <2>. QED
      BY <2>1, <2>2
  <1>2. \A d1, d2 \in Ids : d1 # d2 => Entries(pending'[d1]) \cap Entries(pending'[d2]) = {}
    BY DEF Ledger, NoBlockHeldTwice
  <1>3. ASSUME NEW i \in 1 .. Len(events'), NEW d \in Ids
        PROVE  Carried(events'[i]) \cap Entries(pending'[d]) = {}
    BY <1>1, <1>3 DEF Ledger, NoBlockHeldTwice
  <1>4. ASSUME NEW i \in 1 .. Len(events'), NEW j \in 1 .. Len(events'), i # j
        PROVE  Carried(events'[i]) \cap Carried(events'[j]) = {}
    <2>1. PICK x \in 1 .. Len(events) : x = i + k /\ events'[i] = events[x]
      BY <1>1
    <2>2. PICK y \in 1 .. Len(events) : y = j + k /\ events'[j] = events[y]
      BY <1>1
    <2>3. x # y
      BY <2>1, <2>2, <1>4
    <2>4. Carried(events[x]) \cap Carried(events[y]) = {}
      BY <2>3 DEF Ledger, NoBlockHeldTwice
    <2>. QED
      BY <2>1, <2>2, <2>4
  <1>. QED
    BY <1>2, <1>3, <1>4 DEF Ledger, NoBlockHeldTwice

\* A Missing block, which nobody holds, is requested from peer c.
LEMMA LedgerGrow ==
    ASSUME TypeOK, Ledger, NEW c \in Ids, NEW r \in Blocks, state[r] = "Missing",
           state' = [state EXCEPT ![r] = "Requested"], events' = events,
           pending' = [pending EXCEPT ![c] = Append(@, r)]
    PROVE  Ledger'
  <1>1. /\ \A d \in Ids : r \notin Entries(pending[d])
        /\ \A i \in 1 .. Len(events) : r \notin Carried(events[i])
    BY DEF Ledger, NoBlockHeldTwice
  <1>2. /\ pending \in [Ids -> Seq(Blocks)]
        /\ state \in [Blocks -> {"Missing", "Requested", "Received"}]
    BY DEF TypeOK, PeersTypeOK, PiecesTypeOK
  <1>3. \A d \in Ids : pending'[d] = IF d = c THEN Append(pending[c], r) ELSE pending[d]
    BY <1>2
  <1>4. /\ Entries(pending'[c]) = Entries(pending[c]) \cup {r}
        /\ NoRepeats(pending'[c])
    <2> DEFINE s == pending[c]
    <2>1. s \in Seq(Blocks) /\ NoRepeats(s) /\ pending'[c] = Append(s, r)
      BY <1>2, <1>3 DEF Ledger, NoBlockHeldTwice
    <2>2. \A i \in 1 .. Len(s) : s[i] # r
      BY <1>1 DEF Entries
    <2>3. /\ Len(Append(s, r)) = Len(s) + 1 /\ Append(s, r)[Len(s) + 1] = r /\ Len(s) \in Nat
          /\ \A i \in 1 .. Len(s) : Append(s, r)[i] = s[i]
      BY <2>1
    <2> HIDE DEF s
    <2>4. \A i \in 1 .. Len(Append(s, r)) : i \in 1 .. Len(s) \/ i = Len(s) + 1
      BY <2>3
    <2>5. NoRepeats(Append(s, r))
      BY <2>1, <2>2, <2>3, <2>4 DEF NoRepeats
    <2>6. Entries(Append(s, r)) = Entries(s) \cup {r}
      BY <2>3, <2>4 DEF Entries
    <2>. QED
      BY <2>1, <2>5, <2>6 DEF s
  <1>5. \A x \in Blocks : x # r => state'[x] = state[x]
    BY <1>2
  <1>6. ASSUME NEW x \in Blocks, state'[x] = "Requested"
        PROVE  \/ \E d \in Ids : x \in Entries(pending'[d])
               \/ \E i \in 1 .. Len(events') : x \in Carried(events'[i])
    <2>1. CASE x = r
      BY <2>1, <1>4
    <2>2. CASE x # r
      BY <2>2, <1>3, <1>4, <1>5, <1>6 DEF Ledger
    <2>. QED
      BY <2>1, <2>2
  <1>7. \A d1, d2 \in Ids : d1 # d2 => Entries(pending'[d1]) \cap Entries(pending'[d2]) = {}
    BY <1>1, <1>3, <1>4 DEF Ledger, NoBlockHeldTwice
  <1>8. ASSUME NEW i \in 1 .. Len(events'), NEW d \in Ids
        PROVE  Carried(events'[i]) \cap Entries(pending'[d]) = {}
    <2>1. Carried(events[i]) \cap Entries(pending[d]) = {} /\ r \notin Carried(events[i])
      BY <1>1 DEF Ledger, NoBlockHeldTwice
    <2>2. Entries(pending'[d]) \subseteq Entries(pending[d]) \cup {r}
      BY <1>3, <1>4
    <2>. QED
      BY <2>1, <2>2
  <1>9. \A x : state[x] = "Requested" => state'[x] = "Requested"
    BY <1>2
  <1>10. \A d \in Ids : \A x \in Entries(pending'[d]) : state'[x] = "Requested"
    BY <1>2, <1>3, <1>4, <1>9 DEF Ledger, NoBlockHeldTwice
  <1>11. /\ \A d \in Ids : NoRepeats(pending'[d])
         /\ \A i, j \in 1 .. Len(events') : i # j => Carried(events'[i]) \cap Carried(events'[j]) = {}
         /\ \A i \in 1 .. Len(events') : \A x \in Carried(events'[i]) : state'[x] = "Requested"
    BY <1>3, <1>4, <1>9 DEF Ledger, NoBlockHeldTwice
  <1>. QED
    BY <1>6, <1>7, <1>8, <1>10, <1>11 DEF Ledger, NoBlockHeldTwice

\* A held block belongs to a piece in progress, so on_block() takes it.
LEMMA HeldIsActive ==
    ASSUME TypeOK, PieceInv, Ledger, NEW r \in Blocks, state[r] = "Requested"
    PROVE  /\ r[1] \in active /\ r[1] \notin have
           /\ \A bytes : BlockStatus(r, bytes) # "Rejected"
  <1>1. r[1] \in active /\ r[1] \notin have /\ state[r] # "Received"
    BY BlockParts DEF PieceInv
  <1>. QED
    BY <1>1 DEF BlockStatus

\* The block of a Piece event is marked Requested until it is dispatched, and
\* nobody else holds it.
LEMMA HeadHeld ==
    ASSUME TypeOK, PieceInv, Ledger, NEW status, OnPiece(status)
    PROVE  /\ Head(events).block \in Blocks /\ state[Head(events).block] = "Requested"
           /\ status # "Rejected"
           /\ \A c \in Ids : Head(events).block \notin Entries(pending[c])
           /\ \A i \in 1 .. Len(events) : Head(events).block \in Carried(events[i]) => i = 1
  <1>1. /\ events # <<>> /\ Head(events) = events[1] /\ 1 \in 1 .. Len(events)
        /\ Head(events).block \in Blocks
        /\ Carried(Head(events)) = {Head(events).block}
    BY HeadEvent DEF OnPiece, Carried
  <1>2. state[Head(events).block] = "Requested"
    BY <1>1 DEF Ledger, NoBlockHeldTwice
  <1>3. status # "Rejected"
    BY <1>1, <1>2, HeldIsActive DEF OnPiece
  <1>4. \A c \in Ids : Head(events).block \notin Entries(pending[c])
    BY <1>1 DEF Ledger, NoBlockHeldTwice
  <1>5. \A i \in 1 .. Len(events) : Head(events).block \in Carried(events[i]) => i = 1
    BY <1>1 DEF Ledger, NoBlockHeldTwice
  <1>. QED
    BY <1>1, <1>2, <1>3, <1>4, <1>5

\* The event of a peer that is answered, choked or dropped takes over its requests.
LEMMA MoveStep ==
    ASSUME TypeOK, LoopInv, Ledger
    PROVE  /\ MsgChoke => Ledger'
           /\ \A c \in Ids : DropPeer(c) => Ledger'
           /\ \A i, bytes : MsgPiece(i, bytes) => Ledger'
           /\ \A h : FinishHandshake(h) => Ledger'
  <1>a. /\ pending \in [Ids -> Seq(Blocks)] /\ conns \subseteq Ids /\ NoPeer \notin Ids
        /\ Entries(<<>>) = {} /\ NoRepeats(<<>>)
        /\ \A c \in Ids : NoRepeats(pending[c])
    BY SessionAssumption DEF TypeOK, PeersTypeOK, Entries, NoRepeats, Ledger, NoBlockHeldTwice
  <1>1. ASSUME MsgChoke PROVE Ledger'
    <2>1. PICK c \in Ids : c = cur
      BY <1>1, <1>a DEF MsgChoke, HandleMessage
    <2> DEFINE e == [type |-> "Choke", peer |-> c, released |-> pending[c]]
    <2>2. events' = Append(events, e) /\ state' = state /\ pending' = [pending EXCEPT ![c] = <<>>]
      BY <1>1, <2>1 DEF MsgChoke, HandleMessage, RecvChoke, pieceVars
    <2>3. Carried(e) = Entries(pending[c])
      BY DEF Carried
    <2>. QED
      BY <2>2, <2>3, <1>a, LedgerMove
  <1>2. ASSUME NEW c \in Ids, DropPeer(c) PROVE Ledger'
    <2> DEFINE e == [type |-> "Dropped", peer |-> c, released |-> pending[c]]
    <2>1. events' = Append(events, e) /\ state' = state /\ Drop({c}, {})
      BY <1>2 DEF DropPeer, pieceVars
    <2>2. {c} \in SUBSET Ids
      OBVIOUS
    <2>3. \A d \in Ids : pending'[d] = IF d = c THEN <<>> ELSE pending[d]
      BY <2>1, <2>2, DropFacts
    <2>4. Carried(e) = Entries(pending[c])
      BY DEF Carried
    <2>. QED
      BY <2>1, <2>3, <2>4, <1>a, LedgerMove
  <1>3. ASSUME NEW i, NEW bytes, MsgPiece(i, bytes) PROVE Ledger'
    <2>1. PICK c \in Ids : c = cur
      BY <1>3, <1>a DEF MsgPiece, HandleMessage
    <2> DEFINE s == pending[c]
               e == [type |-> "Piece", peer |-> c, block |-> s[i], bytes |-> bytes]
    <2>2. events' = Append(events, e) /\ state' = state /\ i \in 1 .. Len(s)
          /\ pending' = [pending EXCEPT ![c] = Erase(s, i)]
      BY <1>3, <2>1 DEF MsgPiece, HandleMessage, RecvPiece, pieceVars
    <2>3. Carried(e) = {s[i]}
      BY DEF Carried
    <2>4. s \in Seq(Blocks) /\ NoRepeats(s) /\ Len(s) \in Nat
      BY <1>a
    <2>5. /\ Len(Erase(s, i)) = Len(s) - 1
          /\ \A j \in 1 .. (Len(s) - 1) : Erase(s, i)[j] = IF j < i THEN s[j] ELSE s[j + 1]
      BY <2>2, <2>4, EraseType
    <2>6. pending'[c] = Erase(s, i) /\ \A d \in Ids : d # c => pending'[d] = pending[d]
      BY <2>2, <1>a
    <2> HIDE DEF s, e
    <2>7. NoRepeats(Erase(s, i))
      <3> DEFINE k(j) == IF j < i THEN j ELSE j + 1
      <3>1. \A j \in 1 .. (Len(s) - 1) : k(j) \in 1 .. Len(s) /\ Erase(s, i)[j] = s[k(j)]
        BY <2>2, <2>4, <2>5
      <3>2. \A j1, j2 \in 1 .. (Len(s) - 1) : k(j1) = k(j2) => j1 = j2
        BY <2>2, <2>4
      <3> HIDE DEF k
      <3>. QED
        BY <3>1, <3>2, <2>4, <2>5 DEF NoRepeats
    <2>8. s[i] \notin Entries(Erase(s, i))
      BY <2>2, <2>4, <2>5 DEF NoRepeats, Entries
    <2>9. Entries(Erase(s, i)) \cup {s[i]} = Entries(s)
      <3>1. Entries(Erase(s, i)) \cup {s[i]} \subseteq Entries(s)
        BY <2>2, <2>4, <2>5 DEF Entries
      <3>2. ASSUME NEW j \in 1 .. Len(s), j # i PROVE s[j] \in Entries(Erase(s, i))
        <4>1. CASE j < i
          <5>1. j \in 1 .. (Len(s) - 1) /\ Erase(s, i)[j] = s[j]
            BY <4>1, <2>2, <2>4, <2>5
          <5>. QED
            BY <5>1, <2>5 DEF Entries
        <4>2. CASE j > i
          <5>1. j - 1 \in 1 .. (Len(s) - 1) /\ Erase(s, i)[j - 1] = s[j]
            BY <4>2, <2>2, <2>4, <2>5
          <5>. QED
            BY <5>1, <2>5 DEF Entries
        <4>. QED
          BY <4>1, <4>2, <3>2, <2>2, <2>4
      <3>. QED
        BY <3>1, <3>2 DEF Entries
    <2>. QED
      BY <2>2, <2>3, <2>6, <2>7, <2>8, <2>9, LedgerMove DEF s
  <1>4. ASSUME NEW h, FinishHandshake(h) PROVE Ledger'
    <2>1. PICK c \in Ids : c = nextId
      BY <1>4, SwarmAssumption DEF FinishHandshake, Promote, Ids, TypeOK, PeersTypeOK
    <2>2. events' = Append(events, [type |-> "Joined", peer |-> c]) /\ state' = state
          /\ pending' = pending
      BY <1>4, <2>1 DEF FinishHandshake, Promote, pieceVars
    <2>3. Carried([type |-> "Joined", peer |-> c]) = {}
      BY DEF Carried
    <2>. QED
      BY <2>2, <2>3, <1>a, LedgerMove
  <1>. QED
    BY <1>1, <1>2, <1>3, <1>4

\* Dispatching an event settles the blocks it carried: the requests of the other
\* holders are untouched.
LEMMA DispatchStep ==
    ASSUME TypeOK, LoopInv, PieceInv, Ledger
    PROVE  /\ DispatchJoined => Ledger'
           /\ DispatchReleased => Ledger'
           /\ PieceNoVerdict => Ledger'
  <1>a. /\ \A d \in Ids : NoRepeats(pending[d])
        /\ \A d \in Ids : \A r \in Entries(pending[d]) : state[r] = "Requested"
        /\ \A i \in 1 .. Len(events) : \A r \in Carried(events[i]) : state[r] = "Requested"
    BY DEF Ledger, NoBlockHeldTwice
  <1>b. ASSUME events # <<>>, events' = Tail(events)
        PROVE  /\ \A i \in 1 .. Len(events') :
                     /\ i + 1 \in 1 .. Len(events) /\ events'[i] = events[i + 1]
                     /\ Carried(events'[i]) \cap Carried(Head(events)) = {}
               /\ \A i \in 1 .. Len(events) :
                     i # 1 => \E j \in 1 .. Len(events') : events'[j] = events[i]
    <2>1. /\ Head(events) = events[1] /\ 1 \in 1 .. Len(events)
          /\ Len(events') = Len(events) - 1 /\ Len(events) \in Nat
          /\ \A i \in 1 .. Len(events') : i + 1 \in 1 .. Len(events) /\ events'[i] = events[i + 1]
      BY <1>b, HeadEvent DEF TypeOK, LoopTypeOK
    <2>2. ASSUME NEW i \in 1 .. Len(events')
          PROVE  Carried(events'[i]) \cap Carried(Head(events)) = {}
      <3>1. PICK x \in 1 .. Len(events) : x = i + 1 /\ events'[i] = events[x]
        BY <2>1
      <3>2. x # 1
        BY <3>1, <2>1
      <3>. QED
        BY <3>1, <3>2, <2>1 DEF Ledger, NoBlockHeldTwice
    <2>3. ASSUME NEW i \in 1 .. Len(events), i # 1
          PROVE  \E j \in 1 .. Len(events') : events'[j] = events[i]
      <3>1. PICK j \in 1 .. Len(events') : i = j + 1
        <4>1. i - 1 \in 1 .. Len(events') /\ i = (i - 1) + 1
          BY <2>1, <2>3
        <4>. QED
          BY <4>1
      <3>. QED
        BY <3>1, <2>1
    <2>. QED
      BY <2>1, <2>2, <2>3
  <1>c. ASSUME events # <<>>
        PROVE  /\ \A d \in Ids : Carried(Head(events)) \cap Entries(pending[d]) = {}
               /\ Head(events) = events[1] /\ 1 \in 1 .. Len(events)
    BY <1>c, HeadEvent DEF Ledger, NoBlockHeldTwice
  <1>1. ASSUME events # <<>>, events' = Tail(events), pending' = pending,
               \A r \in Blocks \ Carried(Head(events)) : state'[r] = state[r],
               \A r \in Carried(Head(events)) : state'[r] # "Requested"
        PROVE  Ledger'
    <2>1. \A d \in Ids : \A r \in Entries(pending[d]) : state'[r] = "Requested"
      <3>1. \A d \in Ids : Entries(pending[d]) \subseteq Blocks
        BY DEF TypeOK, PeersTypeOK, Entries
      <3>. QED
        BY <3>1, <1>1, <1>a, <1>c
    <2>2. ASSUME NEW i \in 1 .. Len(events'), NEW r \in Carried(events'[i])
          PROVE  state'[r] = "Requested"
      <3>1. PICK x \in 1 .. Len(events) : events'[i] = events[x]
        BY <1>1, <1>b
      <3>2. r \notin Carried(Head(events)) /\ state[r] = "Requested"
        BY <1>1, <1>a, <1>b, <3>1
      <3>3. r \in Blocks
        BY <3>1 DEF TypeOK, LoopTypeOK, Event, Carried, Entries
      <3>. QED
        BY <1>1, <3>2, <3>3
    <2>3. ASSUME NEW r \in Blocks, state'[r] = "Requested"
          PROVE  \/ \E d \in Ids : r \in Entries(pending'[d])
                 \/ \E i \in 1 .. Len(events') : r \in Carried(events'[i])
      <3>1. r \notin Carried(Head(events)) /\ state[r] = "Requested"
        BY <1>1, <2>3
      <3>2. CASE \E d \in Ids : r \in Entries(pending[d])
        BY <3>2, <1>1
      <3>3. CASE \E i \in 1 .. Len(events) : r \in Carried(events[i])
        <4>1. PICK i \in 1 .. Len(events) : r \in Carried(events[i])
          BY <3>3
        <4>2. i # 1
          BY <4>1, <3>1, <1>1, <1>c
        <4>. QED
          BY <4>1, <4>2, <1>1, <1>b
      <3>. QED
        BY <3>1, <3>2, <3>3 DEF Ledger
    <2>. QED
      BY <1>1, <1>a, <2>1, <2>2, <2>3, LedgerSettle
  <1>2. ASSUME DispatchJoined PROVE Ledger'
    BY <1>1, <1>2 DEF DispatchJoined, Greet, pieceVars, Carried
  <1>3. ASSUME DispatchReleased PROVE Ledger'
    <2> DEFINE K == Carried(Head(events))
    <2>1. /\ events # <<>> /\ events' = Tail(events) /\ pending' = pending
          /\ state' = Release(state, active, K)
      BY <1>3 DEF DispatchReleased, peerVars, Carried
    <2>2. \A r \in K : r \in Blocks
      BY <1>3, HeadEvent DEF DispatchReleased, Carried, Entries
    <2>3. \A r \in K : state[r] = "Requested" /\ r[1] \in active
      BY <2>1, <2>2, <1>a, <1>c, HeldIsActive
    <2>. QED
      BY <1>1, <2>1, <2>2, <2>3 DEF Release
  <1>4. ASSUME PieceNoVerdict PROVE Ledger'
    <2> DEFINE ev == Head(events)
    <2>1. OnPiece("Incomplete") /\ FileBlock(ev.block, ev.bytes) /\ pending' = pending
      BY <1>4, HeadHeld DEF PieceNoVerdict, peerVars
    <2>2. /\ Carried(ev) = {ev.block} /\ events # <<>> /\ events' = Tail(events)
          /\ state' = [state EXCEPT ![ev.block] = "Received"] /\ ev.block \in Blocks
      BY <2>1, OnPieceFacts DEF OnPiece, Carried, FileBlock
    <2>. QED
      BY <1>1, <2>1, <2>2 DEF TypeOK, PiecesTypeOK
  <1>. QED
    BY <1>2, <1>3, <1>4

\* A verdict settles every block of its piece at once.  Nobody else holds one of
\* them, because all the others had been received; and the requests of the peers
\* C it gets banned go back to the pool.
LEMMA Verdict ==
    ASSUME TypeOK, PieceInv, Ledger,
           NEW status \in {"PieceVerified", "PieceFailed"}, OnPiece(status),
           NEW C \in SUBSET Ids, NEW act,
           active \ {Head(events).block[1]} \subseteq act,
           \A d \in Ids : pending'[d] = IF d \in C THEN <<>> ELSE pending[d],
           \A r \in Blocks :
               state'[r] = Release(Restarted(Head(events).block[1]), act, HeldBy(C))[r]
    PROVE  Ledger'
  <1> DEFINE r == Head(events).block
             q == r[1]
  <1>a. /\ r \in Blocks /\ q \in Pieces /\ events # <<>> /\ events' = Tail(events)
        /\ BlockStatus(r, Head(events).bytes) = status
        /\ Carried(Head(events)) = {r}
    BY OnPieceFacts, BlockParts DEF OnPiece, Carried
  <1>b. /\ Head(events) = events[1] /\ Len(events') = Len(events) - 1 /\ Len(events) \in Nat
        /\ \A i \in 1 .. Len(events') : i + 1 \in 1 .. Len(events) /\ events'[i] = events[i + 1]
    <2>1. Len(events) \in Nat
      BY DEF TypeOK, LoopTypeOK
    <2>. QED
      BY <2>1, <1>a, HeadEvent
  <1>c. \A x \in Blocks : x[1] = q /\ x # r => state[x] = "Received"
    BY <1>a, BlockParts, VerdictComplete
  <1>d. /\ \A d \in Ids : Entries(pending[d]) \subseteq Blocks
        /\ \A i \in 1 .. Len(events) : Carried(events[i]) \subseteq Blocks
    <2>1. \A d \in Ids : Entries(pending[d]) \subseteq Blocks
      BY DEF TypeOK, PeersTypeOK, Entries
    <2>2. \A i \in 1 .. Len(events) : Carried(events[i]) \subseteq Blocks
      BY CarriedBlocks
    <2>. QED
      BY <2>1, <2>2
  <1>e. \A x \in Blocks :
           state'[x] = IF x \in HeldBy(C) /\ x[1] \in act /\ Restarted(q)[x] = "Requested"
                       THEN "Missing" ELSE IF x[1] = q THEN "Missing" ELSE state[x]
    BY DEF Release, Restarted
  <1>1. ASSUME NEW d \in Ids, NEW x \in Entries(pending'[d]) PROVE state'[x] = "Requested"
    <2>1. d \notin C /\ x \in Entries(pending[d])
      BY <1>1 DEF Entries
    <2>2. x \in Blocks /\ state[x] = "Requested" /\ x # r
      <3>1. x \in Blocks /\ state[x] = "Requested"
        BY <2>1, <1>d DEF Ledger, NoBlockHeldTwice
      <3>2. x # r
        BY <2>1, HeadHeld
      <3>. QED
        BY <3>1, <3>2
    <2>3. x \notin HeldBy(C)
      BY <2>1 DEF HeldBy, Ledger, NoBlockHeldTwice
    <2>. QED
      BY <2>2, <2>3, <1>c, <1>e
  <1>2. ASSUME NEW i \in 1 .. Len(events'), NEW x \in Carried(events'[i])
        PROVE  state'[x] = "Requested"
    <2>1. PICK j \in 1 .. Len(events) : j = i + 1 /\ events'[i] = events[j]
      BY <1>b
    <2>2. x \in Blocks /\ state[x] = "Requested"
      BY <2>1, <1>d DEF Ledger, NoBlockHeldTwice
    <2>3. x # r
      BY <2>1, HeadHeld
    <2>4. x \notin HeldBy(C)
      <3>1. \A d \in Ids : Carried(events[j]) \cap Entries(pending[d]) = {}
        BY DEF Ledger, NoBlockHeldTwice
      <3>. QED
        BY <2>1, <3>1 DEF HeldBy
    <2>. QED
      BY <2>2, <2>3, <2>4, <1>c, <1>e
  <1>3. ASSUME NEW x \in Blocks, state'[x] = "Requested"
        PROVE  \/ \E d \in Ids : x \in Entries(pending'[d])
               \/ \E i \in 1 .. Len(events') : x \in Carried(events'[i])
    <2>1. x[1] # q /\ state[x] = "Requested"
      BY <1>3, <1>e
    <2>2. x[1] \in active /\ x[1] \in act
      BY <2>1, HeldIsActive
    <2>3. x \notin HeldBy(C)
      BY <1>3, <1>e, <2>1, <2>2 DEF Restarted
    <2>4. CASE \E d \in Ids : x \in Entries(pending[d])
      BY <2>3, <2>4 DEF HeldBy
    <2>5. CASE \E i \in 1 .. Len(events) : x \in Carried(events[i])
      <3>1. PICK i \in 1 .. Len(events) : x \in Carried(events[i])
        BY <2>5
      <3>2. i # 1
        BY <3>1, <2>1, <1>a, <1>b
      <3>3. PICK j \in 1 .. Len(events') : i = j + 1
        <4>1. i - 1 \in 1 .. Len(events') /\ i = (i - 1) + 1
          BY <3>2, <1>b
        <4>. QED
          BY <4>1
      <3>. QED
        BY <3>1, <3>3, <1>b
    <2>. QED
      BY <2>1, <2>4, <2>5 DEF Ledger
  <1>4. \A d \in Ids : NoRepeats(pending'[d]) /\ Entries(pending'[d]) \subseteq Entries(pending[d])
    BY DEF Ledger, NoBlockHeldTwice, NoRepeats, Entries
  <1>. QED
    BY <1>a, <1>1, <1>2, <1>3, <1>4, LedgerSettle

\* All three endings of a piece keep the ledger.
LEMMA VerdictStep ==
    ASSUME TypeOK, PieceInv, Ledger
    PROVE  /\ PieceVerified => Ledger'
           /\ PieceFailed => Ledger'
           /\ WriteFails => Ledger'
  <1> DEFINE q == Head(events).block[1]
  <1>1. \A H, news : Ban(H, news) =>
           /\ BannedConns(H) \in SUBSET Ids
           /\ \A d \in Ids : pending'[d] = IF d \in BannedConns(H) THEN <<>> ELSE pending[d]
    <2> SUFFICES ASSUME NEW H, NEW news, Ban(H, news)
                 PROVE  /\ BannedConns(H) \in SUBSET Ids
                        /\ \A d \in Ids :
                              pending'[d] = IF d \in BannedConns(H) THEN <<>> ELSE pending[d]
      OBVIOUS
    <2>1. BannedConns(H) \in SUBSET Ids
      BY DEF BannedConns, TypeOK, PeersTypeOK
    <2>. QED
      BY <2>1, DropFacts DEF Ban
  <1>2. ASSUME PieceVerified PROVE Ledger'
    <2>1. /\ OnPiece("PieceVerified") /\ Ban(VerifiedBans(q), {q})
          /\ state' = Release(Restarted(q), active \ {q}, HeldBy(BannedConns(VerifiedBans(q))))
      BY <1>2 DEF PieceVerified
    <2>. QED
      BY <1>1, <2>1, Verdict
  <1>3. ASSUME PieceFailed PROVE Ledger'
    <2> DEFINE bans == FailedBans(WithSender(senders[q], Head(events).block[2], Head(events).peer))
    <2>1. /\ OnPiece("PieceFailed") /\ Ban(bans, {})
          /\ state' = Release(Restarted(q), active, HeldBy(BannedConns(bans)))
      BY <1>3 DEF PieceFailed
    <2> HIDE DEF bans
    <2>. QED
      BY <1>1, <2>1, Verdict
  <1>4. ASSUME WriteFails PROVE Ledger'
    <2>1. OnPiece("PieceVerified") /\ pending' = pending /\ state' = Restarted(q)
      BY <1>4 DEF WriteFails, peerVars
    <2>2. /\ HeldBy({}) = {} /\ {} \in SUBSET Ids
          /\ \A x \in Blocks : state'[x] = Release(Restarted(q), active, HeldBy({}))[x]
      BY <2>1 DEF HeldBy, Release
    <2>. QED
      BY <2>1, <2>2, Verdict
  <1>. QED
    BY <1>2, <1>3, <1>4

\* A timeout gives back exactly the requests it takes from the pending list.
LEMMA ExpireStep ==
    ASSUME TypeOK, PieceInv, Ledger, NEW c \in Ids, NEW n, Expire(c, n)
    PROVE  Ledger'
  <1> DEFINE s == pending[c]
             old == {s[i] : i \in 1 .. n}
  <1>a. /\ s \in Seq(Blocks) /\ n \in 1 .. Len(s) /\ Len(s) \in Nat /\ NoRepeats(s)
        /\ pending \in [Ids -> Seq(Blocks)]
    <2>1. pending \in [Ids -> Seq(Blocks)]
      BY DEF TypeOK, PeersTypeOK
    <2>2. s \in Seq(Blocks) /\ Len(s) \in Nat
      BY <2>1
    <2>3. n \in 1 .. Len(s)
      BY DEF Expire
    <2>4. NoRepeats(s)
      BY DEF Ledger, NoBlockHeldTwice
    <2>. QED
      BY <2>1, <2>2, <2>3, <2>4
  <1>b. /\ events' = events /\ state' = Release(state, active, old)
        /\ pending' = [pending EXCEPT ![c] = SubSeq(s, n + 1, Len(s))]
    BY DEF Expire, TakeStale
  <1> DEFINE t == SubSeq(s, n + 1, Len(s))
  <1>c. Len(t) = Len(s) - n /\ \A j \in 1 .. (Len(s) - n) : t[j] = s[n + j]
    BY <1>a, TailType
  <1>d. \A d \in Ids : pending'[d] = IF d = c THEN t ELSE pending[d]
    BY <1>a, <1>b
  <1> HIDE DEF s, t
  <1>1. /\ NoRepeats(t) /\ Entries(t) \subseteq Entries(s)
        /\ Entries(t) \cap old = {} /\ Entries(s) = Entries(t) \cup old
    <2>1. NoRepeats(t)
      <3> SUFFICES ASSUME NEW i \in 1 .. Len(t), NEW j \in 1 .. Len(t), t[i] = t[j] PROVE i = j
        BY DEF NoRepeats
      <3>1. i \in 1 .. (Len(s) - n) /\ j \in 1 .. (Len(s) - n)
        BY <1>c
      <3>2. s[n + i] = s[n + j]
        BY <1>c, <3>1
      <3>3. i \in Nat /\ j \in Nat /\ n \in Nat /\ n + i \in 1 .. Len(s) /\ n + j \in 1 .. Len(s)
        BY <1>a, <3>1
      <3>4. n + i = n + j
        BY <1>a, <3>2, <3>3 DEF NoRepeats
      <3>. QED
        BY <3>3, <3>4
    <2>2. \A j \in 1 .. Len(t) : n + j \in 1 .. Len(s) /\ n + j > n /\ t[j] = s[n + j]
      BY <1>a, <1>c
    <2>3. Entries(t) \subseteq Entries(s) /\ old \subseteq Entries(s)
      <3>1. \A j \in 1 .. Len(t) : t[j] \in Entries(s)
        BY <2>2 DEF Entries
      <3>2. \A i \in 1 .. n : i \in 1 .. Len(s)
        BY <1>a
      <3>. QED
        BY <3>1, <3>2 DEF Entries
    <2>4. ASSUME NEW i \in 1 .. n, NEW j \in 1 .. Len(t) PROVE s[i] # t[j]
      <3>1. i \in 1 .. Len(s) /\ n + j # i
        BY <1>a, <2>2
      <3>2. s[i] # s[n + j]
        BY <1>a, <2>2, <3>1 DEF NoRepeats
      <3>. QED
        BY <2>2, <3>2
    <2>5. Entries(t) \cap old = {}
      BY <2>4 DEF Entries
    <2>6. ASSUME NEW i \in 1 .. Len(s) PROVE s[i] \in Entries(t) \cup old
      <3>1. CASE i <= n
        BY <3>1, <1>a
      <3>2. CASE i > n
        <4>1. i - n \in 1 .. Len(t) /\ t[i - n] = s[i]
          BY <3>2, <1>a, <1>c
        <4>. QED
          BY <4>1 DEF Entries
      <3>. QED
        BY <3>1, <3>2, <1>a
    <2>7. Entries(s) \subseteq Entries(t) \cup old
      BY <2>6 DEF Entries
    <2>. QED
      BY <2>1, <2>3, <2>5, <2>7
  <1>2. \A d \in Ids : NoRepeats(pending'[d]) /\ Entries(pending'[d]) \subseteq Entries(pending[d])
    BY <1>d, <1>1 DEF Ledger, NoBlockHeldTwice, s
  <1>3. /\ \A d \in Ids : Entries(pending[d]) \subseteq Blocks
        /\ \A i \in 1 .. Len(events) : Carried(events[i]) \subseteq Blocks
    <2>1. \A d \in Ids : Entries(pending[d]) \subseteq Blocks
      BY <1>a DEF Entries
    <2>2. \A i \in 1 .. Len(events) : Carried(events[i]) \subseteq Blocks
      BY CarriedBlocks
    <2>. QED
      BY <2>1, <2>2
  <1> HIDE DEF old
  <1>4. \A x \in Blocks : x \notin old => state'[x] = state[x]
    BY <1>b DEF Release
  <1>5. ASSUME NEW d \in Ids, NEW x \in Entries(pending'[d]) PROVE state'[x] = "Requested"
    <2>1. x \in Entries(pending[d]) /\ x \in Blocks /\ state[x] = "Requested"
      BY <1>2, <1>3 DEF Ledger, NoBlockHeldTwice
    <2>2. x \notin old
      <3>1. CASE d = c
        BY <3>1, <1>d, <1>1
      <3>2. CASE d # c
        BY <3>2, <2>1, <1>1 DEF Ledger, NoBlockHeldTwice, s
      <3>. QED
        BY <3>1, <3>2
    <2>. QED
      BY <2>1, <2>2, <1>4
  <1>6. ASSUME NEW i \in 1 .. Len(events'), NEW x \in Carried(events'[i])
        PROVE  state'[x] = "Requested"
    <2>1. x \in Blocks /\ state[x] = "Requested"
      BY <1>b, <1>3 DEF Ledger, NoBlockHeldTwice
    <2>2. x \notin Entries(s)
      BY <1>b DEF Ledger, NoBlockHeldTwice, s
    <2>. QED
      BY <2>1, <2>2, <1>1, <1>4
  <1>7. ASSUME NEW x \in Blocks, state'[x] = "Requested"
        PROVE  \/ \E d \in Ids : x \in Entries(pending'[d])
               \/ \E i \in 1 .. Len(events') : x \in Carried(events'[i])
    <2>1. state[x] = "Requested"
      BY <1>7, <1>b DEF Release
    <2>2. x[1] \in active
      BY <2>1, HeldIsActive
    <2>3. x \notin old
      BY <1>7, <1>b, <2>1, <2>2 DEF Release
    <2>4. CASE \E d \in Ids : x \in Entries(pending[d])
      <3>1. PICK d \in Ids : x \in Entries(pending[d])
        BY <2>4
      <3>2. x \in Entries(pending'[d])
        BY <3>1, <2>3, <1>d, <1>1 DEF s
      <3>. QED
        BY <3>2
    <2>5. CASE \E i \in 1 .. Len(events) : x \in Carried(events[i])
      BY <2>5, <1>b
    <2>. QED
      BY <2>1, <2>4, <2>5 DEF Ledger
  <1>. QED
    BY <1>b, <1>2, <1>5, <1>6, <1>7, LedgerSettle

\* The ledger survives every step.
LEMMA LedgerStep == TypeOK /\ LoopInv /\ PieceInv /\ Ledger /\ [Next]_vars => Ledger'
  <1> SUFFICES ASSUME TypeOK, LoopInv, PieceInv, Ledger, [Next]_vars PROVE Ledger'
    OBVIOUS
  <1>1. ASSUME UNCHANGED <<state, pending, events>> PROVE Ledger'
    BY <1>1 DEF Ledger, NoBlockHeldTwice
  <1>2. ASSUME NEW c \in Ids, NEW r \in Blocks, Fill(c, r) \/ FillSnubbed(c, r) PROVE Ledger'
    <2>1. /\ r \in PickChoices(hasPieces[c], pieceFrequency) /\ PickBlock(r)
          /\ SendRequest(c, r) /\ events' = events
      BY <1>2 DEF Fill, FillSnubbed, PeerChoices
    <2>2. state[r] = "Missing"
      BY <2>1, PickIsMissing DEF TypeOK, PeersTypeOK, PieceInv
    <2>. QED
      BY <2>1, <2>2, LedgerGrow DEF PickBlock, SendRequest
  <1>3. ASSUME MsgUnchoke \/ (\E p : MsgHave(p)) \/ (\E bf : MsgBitfield(bf)) PROVE Ledger'
    BY <1>1, <1>3
       DEF MsgUnchoke, RecvUnchoke, MsgHave, RecvHave, MsgBitfield, RecvBitfield,
       HandleMessage, pieceVars
  <1>4. ASSUME (\E p \in Pieces : Recheck(p)) \/ (\E c \in Ids : ReadFrom(c)) \/ ReadFails
               \/ UNCHANGED vars
        PROVE  Ledger'
    BY <1>1, <1>4 DEF Recheck, ReadFrom, ReadFails, vars, pieceVars, peerVars, loopVars
  <1>5. ASSUME EndRecheck \/ Poll \/ EndHandshakes \/ EndRead \/ EndDrop \/ EndDispatch
               \/ EndExpire \/ NextFill \/ EndFill \/ EndLoop \/ Shutdown
               \/ PollFails \/ SyncFails
        PROVE  Ledger'
    BY <1>1, <1>5 DEF EndRecheck, Poll, EndHandshakes, EndRead, EndDrop, EndDispatch,
       EndExpire, NextFill, EndFill, EndLoop, Shutdown, PollFails, SyncFails, pieceVars, peerVars
  <1>. QED
    BY <1>2, <1>3, <1>4, <1>5, MoveStep, DispatchStep, VerdictStep, ExpireStep DEF Next, Done

\* Typing, the bookkeeping and the ledger hold in every reachable state.
LEMMA LedgerInvariant == Spec => [](TypeOK /\ LoopInv /\ PieceInv /\ Ledger)
  <1>1. Init => TypeOK /\ LoopInv /\ PieceInv /\ Ledger
    <2>1. Init => Ledger
      BY DEF Init, PeersInit, Ledger, NoBlockHeldTwice, NoRepeats, Entries
    <2>. QED
      BY <2>1, TypeInit, BooksInit
  <1>2. TypeOK /\ LoopInv /\ PieceInv /\ Ledger /\ [Next]_vars
          => (TypeOK /\ LoopInv /\ PieceInv /\ Ledger)'
    BY TypeStep, LoopStep, PieceStep, LedgerStep
  <1>. QED
    BY <1>1, <1>2, PTL DEF Spec

\* No requested block is ever lost: an answer, a choke, a drop, a ban or a
\* timeout always finds it again.
THEOREM RequestsNeverLost == Spec => []NoBlockLost
  <1>1. TypeOK /\ LoopInv /\ PieceInv /\ Ledger => NoBlockLost
    BY LedgerForm
  <1>. QED
    BY <1>1, LedgerInvariant, PTL

\* No block is ever held twice, which release() relies on: "every Requested block
\* being in exactly one peer's pending list".
THEOREM RequestsNeverShared == Spec => []NoBlockHeldTwice
  <1>1. TypeOK /\ LoopInv /\ PieceInv /\ Ledger => NoBlockHeldTwice
    BY LedgerForm
  <1>. QED
    BY <1>1, LedgerInvariant, PTL

\* on_block() takes every block that answers a request.
THEOREM AnswersNeverRejected == Spec => []NothingRejected
  <1>1. ASSUME TypeOK, PieceInv, Ledger PROVE NothingRejected
    <2> SUFFICES ASSUME events # <<>>, Head(events).type = "Piece"
                 PROVE  BlockStatus(Head(events).block, Head(events).bytes) # "Rejected"
      BY DEF NothingRejected
    <2>1. Head(events).block \in Blocks /\ Head(events) = events[1] /\ 1 \in 1 .. Len(events)
      BY <1>1, HeadEvent
    <2>2. state[Head(events).block] = "Requested"
      BY <1>1, <2>1 DEF Ledger, NoBlockHeldTwice, Carried
    <2>. QED
      BY <1>1, <2>1, <2>2, HeldIsActive
  <1>. QED
    BY <1>1, LedgerInvariant, PTL

----------------------------------------------------------------------------
(* The session implements BlockPool: seen through PoolStatus, every step   *)
(* of the loop is a step of the pool or changes nothing.  Requests being   *)
(* held once (Ledger) is what makes a verdict find the last block          *)
(* Requested and all the others Received.                                  *)

\* A block in progress is not one we have, so the pool sees its state.
LEMMA PoolFacts ==
    ASSUME TypeOK, PieceInv
    PROVE  /\ \A r \in Blocks : PoolStatus[r] = IF r[1] \in have THEN "Have" ELSE state[r]
           /\ \A r \in Blocks : state[r] # "Missing" => PoolStatus[r] = state[r]
           /\ \A r \in Blocks : r[1] \in active => PoolStatus[r] = state[r]
  BY DEF PoolStatus, PieceInv

\* recheck() of a piece finds all its blocks Missing.
LEMMA PoolFind ==
    ASSUME TypeOK, PieceInv, NEW p \in Pieces, Recheck(p)
    PROVE  [Pool!Next]_PoolStatus
  <1>1. CASE have' = have
    BY <1>1 DEF Recheck, PoolStatus
  <1>2. CASE have' = have \cup {p} /\ p \notin have
    <2> DEFINE r == <<p, 0>>
    <2>1. r \in Blocks /\ r[1] = p
      BY BlockParts
    <2>2. \A x \in Blocks : x[1] = p => PoolStatus[x] = "Missing"
      BY <1>2, PoolFacts DEF Recheck, PieceInv
    <2>3. \A x \in Blocks : PoolStatus'[x] = IF x[1] = p THEN "Have" ELSE PoolStatus[x]
      BY <1>2 DEF Recheck, PoolStatus
    <2>4. PoolStatus' = [x \in Blocks |-> IF x[1] = p THEN "Have" ELSE PoolStatus[x]]
      BY <2>3 DEF PoolStatus
    <2>5. Pool!Find(r)
      BY <2>1, <2>2, <2>4 DEF Pool!Find, Pool!Siblings
    <2>. QED
      BY <2>1, <2>5 DEF Pool!Next
  <1>. QED
    BY <1>1, <1>2 DEF Recheck

\* pick_block() hands out a Missing block.
LEMMA PoolRequest ==
    ASSUME TypeOK, PieceInv, NEW c \in Ids, NEW r \in Blocks, Fill(c, r) \/ FillSnubbed(c, r)
    PROVE  [Pool!Next]_PoolStatus
  <1>1. r \in PickChoices(hasPieces[c], pieceFrequency) /\ PickBlock(r)
    BY DEF Fill, FillSnubbed, PeerChoices
  <1>2. state[r] = "Missing" /\ r[1] \notin have
    BY <1>1, PickIsMissing DEF TypeOK, PeersTypeOK, PieceInv
  <1>3. state \in [Blocks -> {"Missing", "Requested", "Received"}]
    BY DEF TypeOK, PiecesTypeOK
  <1>4. \A x \in Blocks : PoolStatus'[x] = IF x = r THEN "Requested" ELSE PoolStatus[x]
    BY <1>1, <1>2, <1>3 DEF PickBlock, PoolStatus
  <1>5. PoolStatus' = [PoolStatus EXCEPT ![r] = "Requested"]
    BY <1>4 DEF PoolStatus
  <1>6. PoolStatus[r] = "Missing"
    BY <1>2 DEF PoolStatus
  <1>. QED
    BY <1>5, <1>6 DEF Pool!Next, Pool!Request

\* Chokes, drops and timeouts free requests and nothing else.
LEMMA PoolFree ==
    ASSUME TypeOK, PieceInv, NEW K, state' = Release(state, active, K), have' = have
    PROVE  [Pool!Next]_PoolStatus
  <1> DEFINE S == {r \in Blocks : r \in K /\ r[1] \in active /\ state[r] = "Requested"}
  <1>1. S \in SUBSET Blocks /\ \A r \in S : PoolStatus[r] = "Requested"
    BY PoolFacts
  <1>2. \A r \in Blocks : PoolStatus'[r] = IF r \in S THEN "Missing" ELSE PoolStatus[r]
    BY DEF PoolStatus, Release, PieceInv
  <1> HIDE DEF S
  <1>3. PoolStatus' = [r \in Blocks |-> IF r \in S THEN "Missing" ELSE PoolStatus[r]]
    BY <1>2 DEF PoolStatus
  <1>. QED
    BY <1>1, <1>3 DEF Pool!Next, Pool!Free

\* on_block() files the block of an answered request.
LEMMA PoolReceive ==
    ASSUME TypeOK, PieceInv, Ledger, PieceNoVerdict
    PROVE  [Pool!Next]_PoolStatus
  <1> DEFINE r == Head(events).block
  <1>1. OnPiece("Incomplete") /\ FileBlock(r, Head(events).bytes)
    BY HeadHeld DEF PieceNoVerdict
  <1>2. r \in Blocks /\ state[r] = "Requested"
    BY <1>1, HeadHeld
  <1>3. state' = [state EXCEPT ![r] = "Received"] /\ have' = have
    BY <1>1 DEF FileBlock
  <1> HIDE DEF r
  <1>4. PoolStatus[r] = "Requested" /\ r[1] \notin have
    BY <1>2, PoolFacts, HeldIsActive
  <1>5. state \in [Blocks -> {"Missing", "Requested", "Received"}]
    BY DEF TypeOK, PiecesTypeOK
  <1>6. \A x \in Blocks : PoolStatus'[x] = IF x = r THEN "Received" ELSE PoolStatus[x]
    BY <1>2, <1>3, <1>4, <1>5 DEF PoolStatus
  <1>7. PoolStatus' = [PoolStatus EXCEPT ![r] = "Received"]
    BY <1>6 DEF PoolStatus
  <1>. QED
    BY <1>2, <1>4, <1>7 DEF Pool!Next, Pool!Receive

\* A verdict takes the last block Requested and the others Received, and settles
\* them all; the requests K of the peers banned for it go back to the pool.
LEMMA PoolJudge ==
    ASSUME TypeOK, PieceInv, Ledger,
           NEW status \in {"PieceVerified", "PieceFailed"}, OnPiece(status),
           NEW act \in SUBSET active, NEW K,
           state' = Release(Restarted(Head(events).block[1]), act, K),
           have' \in {have, have \cup {Head(events).block[1]}}
    PROVE  [Pool!Next]_PoolStatus
  <1> DEFINE r == Head(events).block
             p == r[1]
             verdict == IF p \in have' THEN "Have" ELSE "Missing"
             S == {x \in Blocks : x \in K /\ x[1] \in act /\ x[1] # p /\ state[x] = "Requested"}
  <1>1. r \in Blocks /\ state[r] = "Requested"
    BY HeadHeld
  <1>2. PoolStatus[r] = "Requested" /\ p \notin have
    BY <1>1, PoolFacts, HeldIsActive
  <1>3. \A x \in Blocks : x[1] = p /\ x # r => state[x] = "Received"
    BY <1>1, BlockParts, VerdictComplete DEF OnPiece
  <1>4. \A x \in Pool!Siblings(r) : PoolStatus[x] = "Received"
    BY <1>3, PoolFacts DEF Pool!Siblings
  <1>5. S \in SUBSET Blocks /\ \A x \in S : PoolStatus[x] = "Requested"
    BY PoolFacts
  <1>6. ASSUME NEW x \in Blocks
        PROVE  PoolStatus'[x] = IF x[1] = p THEN verdict
                                ELSE IF x \in S THEN "Missing" ELSE PoolStatus[x]
    <2>1. CASE x[1] = p
      BY <2>1, <1>2 DEF PoolStatus, Release, Restarted
    <2>2. CASE x[1] # p
      <3>1. state'[x] = IF x \in S THEN "Missing" ELSE state[x]
        BY <2>2 DEF Release, Restarted
      <3>2. x[1] \in have' <=> x[1] \in have
        BY <2>2
      <3>3. x \in S => x[1] \notin have
        BY DEF PieceInv
      <3>. QED
        BY <2>2, <3>1, <3>2, <3>3 DEF PoolStatus
    <2>. QED
      BY <2>1, <2>2
  <1>7. verdict \in {"Missing", "Have"}
    OBVIOUS
  <1> HIDE DEF S, verdict
  <1>8. PoolStatus' = [x \in Blocks |-> IF x[1] = p THEN verdict
                                        ELSE IF x \in S THEN "Missing" ELSE PoolStatus[x]]
    BY <1>6 DEF PoolStatus
  <1> HIDE DEF r
  <1>9. Pool!Judge(r, verdict, S)
    BY <1>1, <1>2, <1>4, <1>5, <1>8 DEF Pool!Judge
  <1>. QED
    BY <1>1, <1>5, <1>7, <1>9 DEF Pool!Next

\* Every step of the session is a step of the pool, or one it does not see.
LEMMA PoolStep ==
    ASSUME TypeOK, PieceInv, Ledger, [Next]_vars
    PROVE  [Pool!Next]_PoolStatus
  <1> DEFINE q == Head(events).block[1]
  <1>1. ASSUME UNCHANGED <<state, have>> PROVE [Pool!Next]_PoolStatus
    BY <1>1 DEF PoolStatus
  <1>2. ASSUME DispatchReleased \/ (\E c \in Ids, n \in 1 .. PipelineDepth : Expire(c, n))
        PROVE  [Pool!Next]_PoolStatus
    BY <1>2, PoolFree DEF DispatchReleased, Expire
  <1>3. ASSUME PieceVerified PROVE [Pool!Next]_PoolStatus
    <2>1. /\ OnPiece("PieceVerified") /\ have' = have \cup {q} /\ active \ {q} \in SUBSET active
          /\ state' = Release(Restarted(q), active \ {q}, HeldBy(BannedConns(VerifiedBans(q))))
      BY <1>3 DEF PieceVerified, PassPiece
    <2>. QED
      BY <2>1, PoolJudge
  <1>4. ASSUME PieceFailed PROVE [Pool!Next]_PoolStatus
    <2> DEFINE bans == FailedBans(WithSender(senders[q], Head(events).block[2], Head(events).peer))
    <2>1. /\ OnPiece("PieceFailed") /\ have' = have
          /\ state' = Release(Restarted(q), active, HeldBy(BannedConns(bans)))
      BY <1>4 DEF PieceFailed, FailPiece
    <2> HIDE DEF bans
    <2>. QED
      BY <2>1, PoolJudge
  <1>5. ASSUME WriteFails PROVE [Pool!Next]_PoolStatus
    <2>1. OnPiece("PieceVerified") /\ have' = have \cup {q} /\ state' = Restarted(q)
      BY <1>5 DEF WriteFails, PassPiece
    <2>2. state' = Release(Restarted(q), active, {})
      BY <2>1 DEF Release, Restarted
    <2>. QED
      BY <2>1, <2>2, PoolJudge
  <1>6. ASSUME MsgChoke \/ MsgUnchoke \/ (\E p \in HavePieces : MsgHave(p))
               \/ (\E bf \in Bitfields : MsgBitfield(bf))
               \/ (\E i \in 1 .. PipelineDepth, bytes \in {"good", "bad"} : MsgPiece(i, bytes))
        PROVE  [Pool!Next]_PoolStatus
    BY <1>1, <1>6
       DEF MsgChoke, MsgUnchoke, MsgHave, MsgBitfield, MsgPiece, HandleMessage,
       pieceVars
  <1>7. ASSUME (\E h \in Hosts : FinishHandshake(h)) \/ (\E c \in Ids : ReadFrom(c) \/ DropPeer(c))
               \/ ReadFails \/ DispatchJoined \/ UNCHANGED vars
        PROVE  [Pool!Next]_PoolStatus
    BY <1>1, <1>7
       DEF FinishHandshake, ReadFrom, DropPeer, ReadFails, DispatchJoined, vars,
       pieceVars
  <1>8. ASSUME EndRecheck \/ Poll \/ EndHandshakes \/ EndRead \/ EndDrop \/ EndDispatch
               \/ EndExpire \/ NextFill \/ EndFill \/ EndLoop \/ Shutdown
               \/ PollFails \/ SyncFails
        PROVE  [Pool!Next]_PoolStatus
    BY <1>1, <1>8 DEF EndRecheck, Poll, EndHandshakes, EndRead, EndDrop, EndDispatch,
       EndExpire, NextFill, EndFill, EndLoop, Shutdown, PollFails, SyncFails, pieceVars
  <1>. QED
    BY <1>2, <1>3, <1>4, <1>5, <1>6, <1>7, <1>8, PoolFind, PoolRequest, PoolReceive
       DEF Next, Done

\* Whatever the torrent, the peers and the schedule, the session is a BlockPool:
\* no choke, drop, ban or timeout discards data, no block is asked for twice at a
\* time, and a piece is given up only by its own verdict.
THEOREM SessionImplementsPool == Spec => ImplementsPool
  <1>1. Init => Pool!Init
    BY DEF Init, Pool!Init, PoolStatus
  <1>2. TypeOK /\ LoopInv /\ PieceInv /\ Ledger /\ [Next]_vars => [Pool!Next]_PoolStatus
    BY PoolStep
  <1>. QED
    BY <1>1, <1>2, LedgerInvariant, PTL DEF Spec, ImplementsPool, Pool!Spec
----------------------------------------------------------------------------
(* What the peers are told *)

\* A step that only moves on in the loop tells nobody anything.
LEMMA ToldSame ==
    ASSUME TypeOK, ToldInv, UNCHANGED <<conns, told, nextId, have, disk, events>>,
           phase' = "recheck" => phase = "recheck",
           phase' = "handshakes" => phase = "handshakes" \/ events = <<>>,
           phase = "failed" => phase' = "failed"
    PROVE  ToldInv'
  BY DEF ToldInv, JoinsFirst, PeersToldWhatWeHave, ToldIsStored

\* An event about a message or a departure is reported.
LEMMA ToldReport ==
    ASSUME TypeOK, ToldInv, NEW e \in Event, e.type # "Joined", events' = Append(events, e),
           phase \in {"read", "drop"}, UNCHANGED <<phase, nextId, have, disk>>,
           conns' \subseteq conns,
           \A c \in Ids : told'[c] = IF c \in conns' THEN told[c] ELSE {}
    PROVE  ToldInv'
  <1> DEFINE n == Len(events)
  <1>1. /\ n \in Nat /\ Len(events') = n + 1 /\ events'[n + 1] = e
        /\ \A i \in 1 .. n : events'[i] = events[i]
    BY DEF TypeOK, LoopTypeOK
  <1> HIDE DEF n
  <1>2. \A i \in 1 .. Len(events') : \/ i \in 1 .. n /\ events'[i] = events[i]
                                     \/ i = n + 1 /\ events'[i] = e
    BY <1>1
  <1>3. JoinsFirst'
    <2>1. \A i \in 1 .. Len(events') : events'[i].type = "Joined" => events'[i].peer < nextId'
      BY <1>2 DEF ToldInv, JoinsFirst, n
    <2>2. ASSUME NEW i \in 1 .. Len(events'), NEW j \in 1 .. Len(events'), i < j,
                 events'[j].type = "Joined"
          PROVE  events'[i].type = "Joined" /\ events'[i].peer # events'[j].peer
      <3>1. j \in 1 .. n /\ events'[j] = events[j]
        BY <1>2, <2>2
      <3>2. i \in 1 .. n /\ events'[i] = events[i]
        BY <1>1, <1>2, <2>2, <3>1
      <3>. QED
        BY <2>2, <3>1, <3>2 DEF ToldInv, JoinsFirst, n
    <2>. QED
      BY <2>1, <2>2 DEF JoinsFirst
  <1>4. \A c : e # [type |-> "Joined", peer |-> c]
    OBVIOUS
  <1>5. ASSUME NEW c
        PROVE  (\E i \in 1 .. Len(events') : events'[i] = [type |-> "Joined", peer |-> c])
                 <=> \E i \in 1 .. Len(events) : events[i] = [type |-> "Joined", peer |-> c]
    BY <1>1, <1>2, <1>4 DEF n
  <1>6. conns \subseteq Ids
    BY DEF TypeOK, PeersTypeOK
  <1>7. PeersToldWhatWeHave'
    BY <1>5, <1>6 DEF ToldInv, PeersToldWhatWeHave
  <1>8. ToldIsStored'
    BY <1>6 DEF ToldInv, ToldIsStored
  <1>. QED
    BY <1>3, <1>7, <1>8 DEF ToldInv

\* The first event is taken from the queue.
LEMMA TailFacts ==
    ASSUME TypeOK, events # <<>>, events' = Tail(events)
    PROVE  /\ Head(events) = events[1] /\ 1 \in 1 .. Len(events)
           /\ \A i \in 1 .. Len(events') : i + 1 \in 1 .. Len(events) /\ events'[i] = events[i + 1]
           /\ \A i \in 1 .. Len(events) :
                 i # 1 => \E j \in 1 .. Len(events') : i = j + 1 /\ events'[j] = events[i]
  <1>1. events \in Seq(Event) /\ Len(events) \in Nat
    BY DEF TypeOK, LoopTypeOK
  <1>2. ASSUME NEW i \in 1 .. Len(events), i # 1
        PROVE  \E j \in 1 .. Len(events') : i = j + 1 /\ events'[j] = events[i]
    <2>1. i - 1 \in 1 .. Len(events') /\ i = (i - 1) + 1
      BY <1>1, <1>2, HeadEvent
    <2>. QED
      BY <2>1, HeadEvent
  <1>. QED
    BY <1>2, HeadEvent

\* What is left of the queue keeps its order.
LEMMA JoinsTail ==
    ASSUME TypeOK, JoinsFirst, events # <<>>, events' = Tail(events), phase' # "handshakes",
           nextId' = nextId
    PROVE  JoinsFirst'
  <1>1. \A i \in 1 .. Len(events') : i + 1 \in 1 .. Len(events) /\ events'[i] = events[i + 1]
    BY TailFacts
  <1>2. \A i, j \in 1 .. Len(events') : i < j => i + 1 < j + 1
    OBVIOUS
  <1>. QED
    BY <1>1, <1>2 DEF JoinsFirst

\* A block, a choke or a departure is dispatched when every greeting is out, so
\* the news of a piece reaches all peers there are.
LEMMA ToldDispatch ==
    ASSUME TypeOK, ToldInv, NEW news \in SUBSET Pieces,
           events # <<>>, Head(events).type # "Joined", events' = Tail(events),
           phase = "dispatch", UNCHANGED <<phase, nextId>>,
           have' = have \cup news, disk' = disk \cup news, conns' \subseteq conns,
           \A c \in Ids : told'[c] = IF c \in conns' THEN told[c] \cup news ELSE {}
    PROVE  ToldInv'
  <1>1. \A i \in 1 .. Len(events) : events[i].type # "Joined"
    <2>1. Head(events) = events[1] /\ 1 \in 1 .. Len(events) /\ Len(events) \in Nat
      BY HeadEvent DEF TypeOK, LoopTypeOK
    <2>2. \A i \in 1 .. Len(events) : i = 1 \/ 1 < i
      BY <2>1
    <2>. QED
      BY <2>1, <2>2 DEF ToldInv, JoinsFirst
  <1>2. \A i \in 1 .. Len(events') : events'[i].type # "Joined"
    BY <1>1, TailFacts
  <1>3. conns \subseteq Ids
    BY DEF TypeOK, PeersTypeOK
  <1>4. JoinsFirst'
    BY JoinsTail DEF ToldInv
  <1>5. \A c \in conns : told[c] = have
    <2>1. \A c : \A i \in 1 .. Len(events) : events[i] # [type |-> "Joined", peer |-> c]
      BY <1>1
    <2>. QED
      BY <2>1 DEF ToldInv, PeersToldWhatWeHave
  <1>6. PeersToldWhatWeHave'
    <2>1. \A c : \A i \in 1 .. Len(events') : events'[i] # [type |-> "Joined", peer |-> c]
      BY <1>2
    <2>. QED
      BY <2>1, <1>3, <1>5 DEF PeersToldWhatWeHave
  <1>7. ToldIsStored' /\ have' \subseteq disk'
    BY <1>3 DEF ToldInv, ToldIsStored
  <1>. QED
    BY <1>4, <1>6, <1>7 DEF ToldInv

\* greet() brings a new connection up to date.
LEMMA ToldGreet ==
    ASSUME TypeOK, ToldInv, DispatchJoined
    PROVE  ToldInv'
  <1> DEFINE c == Head(events).peer
  <1>1. /\ events # <<>> /\ events' = Tail(events) /\ Head(events).type = "Joined"
        /\ phase = "dispatch" /\ Greet(c, have) /\ UNCHANGED <<phase, have, disk>>
    BY DEF DispatchJoined, pieceVars, diskVars
  <1>2. c \in Ids /\ told \in [Ids -> SUBSET Pieces] /\ conns \subseteq Ids
    BY <1>1, HeadEvent DEF TypeOK, PeersTypeOK
  <1>3. /\ UNCHANGED <<conns, nextId>>
        /\ \A d \in Ids : told'[d] = IF d = c /\ d \in conns THEN told[d] \cup have ELSE told[d]
    BY <1>1, <1>2 DEF Greet
  <1>4. JoinsFirst'
    BY <1>1, <1>3, JoinsTail DEF ToldInv
  <1>5. \A i \in 1 .. Len(events') : events'[i] # [type |-> "Joined", peer |-> c]
    <2> SUFFICES ASSUME NEW i \in 1 .. Len(events'),
                        events'[i] = [type |-> "Joined", peer |-> c]
                 PROVE  FALSE
      OBVIOUS
    <2>1. /\ i + 1 \in 1 .. Len(events) /\ events[i + 1] = [type |-> "Joined", peer |-> c]
          /\ Head(events) = events[1] /\ 1 \in 1 .. Len(events)
      BY <1>1, TailFacts
    <2>2. events[i + 1].type = "Joined" /\ events[i + 1].peer = c /\ 1 < i + 1
      BY <2>1
    <2>. QED
      BY <2>1, <2>2 DEF ToldInv, JoinsFirst
  <1>6. ASSUME NEW d, d # c
        PROVE  (\E i \in 1 .. Len(events') : events'[i] = [type |-> "Joined", peer |-> d])
                 <=> \E i \in 1 .. Len(events) : events[i] = [type |-> "Joined", peer |-> d]
    <2>1. events[1] # [type |-> "Joined", peer |-> d]
      BY <1>1, <1>6, HeadEvent
    <2>. QED
      BY <1>1, <2>1, TailFacts
  <1>7. c \in conns => told[c] \subseteq have
    BY <1>1 DEF ToldInv, PeersToldWhatWeHave
  <1> HIDE DEF c
  <1>8. PeersToldWhatWeHave'
    <2> SUFFICES ASSUME NEW d \in conns, phase' # "failed"
                 PROVE  told'[d] = IF \E i \in 1 .. Len(events') :
                                         events'[i] = [type |-> "Joined", peer |-> d]
                                   THEN {} ELSE have
      BY <1>1, <1>3 DEF PeersToldWhatWeHave
    <2>1. CASE d = c
      BY <2>1, <1>2, <1>3, <1>5, <1>7
    <2>2. CASE d # c
      BY <2>2, <1>1, <1>2, <1>3, <1>6 DEF ToldInv, PeersToldWhatWeHave
    <2>. QED
      BY <2>1, <2>2
  <1>9. ToldIsStored'
    BY <1>1, <1>2, <1>3 DEF ToldInv, ToldIsStored
  <1>. QED
    BY <1>1, <1>2, <1>3, <1>4, <1>8, <1>9 DEF ToldInv

\* A new connection has been told nothing, and its greeting is queued.
LEMMA ToldJoin ==
    ASSUME TypeOK, ToldInv, NEW h, FinishHandshake(h)
    PROVE  ToldInv'
  <1> DEFINE n == Len(events)
             c == nextId
             e == [type |-> "Joined", peer |-> c]
  <1>1. /\ phase = "handshakes" /\ events' = Append(events, e) /\ conns' = conns \cup {c}
        /\ nextId' = c + 1 /\ UNCHANGED <<phase, have, disk, told>>
    BY DEF FinishHandshake, Promote, pieceVars, diskVars
  <1>2. /\ n \in Nat /\ Len(events') = n + 1 /\ events'[n + 1] = e
        /\ \A i \in 1 .. n : events'[i] = events[i]
    BY <1>1 DEF TypeOK, LoopTypeOK
  <1>3. conns \subseteq Ids /\ nextId \in Nat /\ Ids \subseteq Nat /\ c \in Ids
    BY SwarmAssumption DEF TypeOK, PeersTypeOK, FinishHandshake, Promote, Ids
  <1>4. \A i \in 1 .. n : events[i].type = "Joined" /\ events[i].peer < c /\ events[i].peer \in Nat
    <2>1. \A i \in 1 .. n : events[i] \in Event
      BY DEF TypeOK, LoopTypeOK
    <2>2. \A i \in 1 .. n : events[i].type = "Joined" /\ events[i].peer < c
      BY <1>1 DEF ToldInv, JoinsFirst
    <2>3. \A i \in 1 .. n : events[i].peer \in Ids
      BY <2>1 DEF Event
    <2>. QED
      BY <2>2, <2>3, <1>3
  <1>5. e.type = "Joined" /\ e.peer = c
    OBVIOUS
  <1>6. c \notin conns /\ told[c] = {}
    BY <1>3 DEF ToldInv
  <1> HIDE DEF n, e
  <1>7. \A i \in 1 .. Len(events') : \/ i \in 1 .. n /\ events'[i] = events[i]
                                     \/ i = n + 1 /\ events'[i] = e
    BY <1>2
  <1>8. JoinsFirst'
    <2>1. \A i \in 1 .. Len(events') : events'[i].type = "Joined" /\ events'[i].peer < c + 1
      BY <1>3, <1>4, <1>5, <1>7
    <2>2. ASSUME NEW i \in 1 .. Len(events'), NEW j \in 1 .. Len(events'), i < j
          PROVE  events'[i].peer # events'[j].peer
      <3>1. i \in 1 .. n /\ events'[i] = events[i]
        BY <1>2, <1>7, <2>2
      <3>2. CASE j \in 1 .. n /\ events'[j] = events[j]
        BY <2>2, <3>1, <3>2, <1>4 DEF ToldInv, JoinsFirst, n
      <3>3. CASE j = n + 1 /\ events'[j] = e
        BY <3>1, <3>3, <1>3, <1>4, <1>5
      <3>. QED
        BY <3>2, <3>3, <1>7
    <2>. QED
      BY <1>1, <2>1, <2>2 DEF JoinsFirst
  <1>9. ASSUME NEW d \in conns
        PROVE  (\E i \in 1 .. Len(events') : events'[i] = [type |-> "Joined", peer |-> d])
                 <=> \E i \in 1 .. Len(events) : events[i] = [type |-> "Joined", peer |-> d]
    <2>1. e # [type |-> "Joined", peer |-> d]
      BY <1>6 DEF e
    <2>. QED
      BY <1>2, <1>7, <2>1 DEF n
  <1>10. PeersToldWhatWeHave'
    <2>1. n + 1 \in 1 .. Len(events')
      BY <1>2
    <2>. QED
      BY <1>1, <1>2, <1>6, <1>9, <2>1 DEF ToldInv, PeersToldWhatWeHave, e
  <1>11. ToldIsStored' /\ \A d \in conns' : d < nextId'
    BY <1>1, <1>3, <1>6 DEF ToldInv, ToldIsStored
  <1>. QED
    BY <1>1, <1>8, <1>10, <1>11 DEF ToldInv

\* A write that fails ends the program before anybody is told of the piece.
LEMMA ToldFailure ==
    ASSUME TypeOK, ToldInv, WriteFails
    PROVE  ToldInv'
  <1>1. /\ events # <<>> /\ events' = Tail(events) /\ phase' = "failed"
        /\ UNCHANGED <<conns, told, nextId, disk>>
    BY DEF WriteFails, OnPiece, peerVars
  <1>2. JoinsFirst'
    BY <1>1, JoinsTail DEF ToldInv
  <1>. QED
    BY <1>1, <1>2 DEF ToldInv, PeersToldWhatWeHave, ToldIsStored

\* Every step keeps the peers informed.
LEMMA ToldStep == TypeOK /\ LoopInv /\ ToldInv /\ [Next]_vars => ToldInv'
  <1> SUFFICES ASSUME TypeOK, LoopInv, ToldInv, [Next]_vars PROVE ToldInv'
    OBVIOUS
  <1>a. told \in [Ids -> SUBSET Pieces] /\ conns \subseteq Ids
        /\ \A c \in Ids : told[c] = IF c \in conns THEN told[c] ELSE {}
    BY DEF TypeOK, PeersTypeOK, ToldInv
  <1>1. ASSUME NEW p \in Pieces, Recheck(p) PROVE ToldInv'
    <2>1. /\ phase = "recheck" /\ conns = {} /\ (have' = have \/ (p \in disk /\ have' = have \cup {p}))
          /\ UNCHANGED <<conns, told, nextId, disk, events, phase>>
      BY <1>1 DEF Recheck, ToldInv, peerVars, loopVars
    <2>. QED
      BY <2>1 DEF ToldInv, JoinsFirst, PeersToldWhatWeHave, ToldIsStored
  <1>2. ASSUME EndRecheck \/ Poll \/ EndHandshakes \/ EndRead \/ EndDrop \/ EndDispatch
               \/ EndExpire \/ NextFill \/ EndFill \/ EndLoop \/ Shutdown
               \/ PollFails \/ SyncFails
        PROVE  ToldInv'
    <2>1. UNCHANGED <<conns, told, nextId, have, disk, events>>
      BY <1>2 DEF EndRecheck, Poll, EndHandshakes, EndRead, EndDrop, EndDispatch, EndExpire,
         NextFill, EndFill, EndLoop, Shutdown, PollFails, SyncFails, pieceVars, peerVars, diskVars
    <2>2. /\ phase' # "recheck" /\ phase # "failed"
          /\ phase' = "handshakes" => phase = "handshakes" \/ events = <<>>
      BY <1>2
         DEF EndRecheck, Poll, EndHandshakes, EndRead, EndDrop, EndDispatch, EndExpire,
         NextFill, EndFill, EndLoop, Shutdown, PollFails, SyncFails, LoopInv
    <2>. QED
      BY <2>1, <2>2, ToldSame
  <1>3. ASSUME MsgUnchoke \/ (\E p : MsgHave(p)) \/ (\E bf : MsgBitfield(bf)) PROVE ToldInv'
    BY <1>3, ToldSame DEF MsgUnchoke, RecvUnchoke, MsgHave, RecvHave, MsgBitfield, RecvBitfield,
       HandleMessage, pieceVars, diskVars
  <1>4. ASSUME ReadFails \/ (\E c : ReadFrom(c)) \/ UNCHANGED vars PROVE ToldInv'
    BY <1>4, ToldSame DEF ReadFails, ReadFrom, vars, pieceVars, peerVars, diskVars, loopVars
  <1>5. ASSUME NEW c, (\E n : Expire(c, n)) \/ (\E r : Fill(c, r) \/ FillSnubbed(c, r))
        PROVE  ToldInv'
    <2>1. UNCHANGED <<conns, told, nextId, have, disk, events, phase>>
      BY <1>5 DEF Expire, Fill, FillSnubbed, TakeStale, SendRequest, PickBlock, diskVars
    <2>. QED
      BY <2>1, ToldSame
  <1>6. ASSUME MsgChoke \/ \E i \in 1 .. PipelineDepth, bytes \in {"good", "bad"} : MsgPiece(i, bytes)
        PROVE  ToldInv'
    <2>1. /\ phase = "read" /\ UNCHANGED <<phase, nextId, have, disk, conns, told>>
          /\ cur \in Ids
      BY <1>6, <1>a
         DEF MsgChoke, MsgPiece, RecvChoke, RecvPiece, HandleMessage, pieceVars, diskVars
    <2>2. pending[cur] \in Seq(Blocks)
      BY <2>1 DEF TypeOK, PeersTypeOK
    <2>3. \E e \in Event : e.type # "Joined" /\ events' = Append(events, e)
      <3>1. CASE MsgChoke
        <4> DEFINE e == [type |-> "Choke", peer |-> cur, released |-> pending[cur]]
        <4>1. e \in Event /\ e.type # "Joined"
          BY <2>1, <2>2 DEF Event
        <4>. QED
          BY <3>1, <4>1 DEF MsgChoke
      <3>2. CASE \E i \in 1 .. PipelineDepth, bytes \in {"good", "bad"} : MsgPiece(i, bytes)
        <4>1. PICK i \in 1 .. PipelineDepth, bytes \in {"good", "bad"} : MsgPiece(i, bytes)
          BY <3>2
        <4> DEFINE e == [type |-> "Piece", peer |-> cur, block |-> pending[cur][i], bytes |-> bytes]
        <4>2. e \in Event /\ e.type # "Joined"
          BY <2>1, <2>2, <4>1 DEF Event, MsgPiece, RecvPiece
        <4>. QED
          BY <4>1, <4>2 DEF MsgPiece
      <3>. QED
        BY <1>6, <3>1, <3>2
    <2>. QED
      BY <2>1, <2>3, <1>a, ToldReport
  <1>7. ASSUME NEW c \in Ids, DropPeer(c) PROVE ToldInv'
    <2> DEFINE e == [type |-> "Dropped", peer |-> c, released |-> pending[c]]
    <2>1. /\ phase = "drop" /\ UNCHANGED <<phase, nextId, have, disk>> /\ conns' = conns \ {c}
          /\ events' = Append(events, e)
          /\ told' = [d \in Ids |-> IF d \in {c} THEN {}
                                    ELSE IF d \in conns THEN told[d] \cup {} ELSE told[d]]
      BY <1>7 DEF DropPeer, Drop, pieceVars, diskVars
    <2>2. e \in Event /\ e.type # "Joined"
      BY DEF Event, TypeOK, PeersTypeOK
    <2>3. \A d \in Ids : told'[d] = IF d \in conns' THEN told[d] ELSE {}
      BY <2>1, <1>a
    <2> HIDE DEF e
    <2>. QED
      BY <2>1, <2>2, <2>3, ToldReport
  <1>8. ASSUME DispatchReleased \/ PieceNoVerdict PROVE ToldInv'
    <2>1. /\ events # <<>> /\ Head(events).type # "Joined" /\ events' = Tail(events)
          /\ phase = "dispatch" /\ UNCHANGED <<phase, nextId, have, disk, conns, told>>
      BY <1>8
         DEF DispatchReleased, PieceNoVerdict, OnPiece, FileBlock, pieceVars, peerVars,
         diskVars
    <2>2. {} \in SUBSET Pieces /\ have' = have \cup {} /\ disk' = disk \cup {}
          /\ \A c \in Ids : told'[c] = IF c \in conns' THEN told[c] \cup {} ELSE {}
      BY <2>1, <1>a
    <2>. QED
      BY <2>1, <2>2, ToldDispatch
  <1>9. ASSUME PieceVerified \/ PieceFailed PROVE ToldInv'
    <2>1. PICK news, H :
             /\ news \in SUBSET Pieces /\ have' = have \cup news /\ disk' = disk \cup news
             /\ Ban(H, news)
             /\ events # <<>> /\ Head(events).type # "Joined" /\ events' = Tail(events)
             /\ phase = "dispatch" /\ UNCHANGED phase
      <3>1. CASE PieceVerified
        <4>1. {Head(events).block[1]} \in SUBSET Pieces
          BY <3>1, OnPieceFacts, BlockParts DEF PieceVerified
        <4>. QED
          BY <3>1, <4>1 DEF PieceVerified, PassPiece, OnPiece
      <3>2. CASE PieceFailed
        <4>1. {} \in SUBSET Pieces /\ have' = have \cup {} /\ disk' = disk \cup {}
          BY <3>2 DEF PieceFailed, FailPiece
        <4>. QED
          BY <3>2, <4>1 DEF PieceFailed, OnPiece
      <3>. QED
        BY <1>9, <3>1, <3>2
    <2> DEFINE C == BannedConns(H)
    <2>2. /\ conns' = conns \ C /\ nextId' = nextId /\ C \subseteq conns
          /\ told' = [c \in Ids |-> IF c \in C THEN {}
                                    ELSE IF c \in conns THEN told[c] \cup news ELSE told[c]]
      BY <2>1 DEF Ban, Drop, BannedConns
    <2> HIDE DEF C
    <2>3. \A c \in Ids : told'[c] = IF c \in conns' THEN told[c] \cup news ELSE {}
      BY <2>2, <1>a
    <2>. QED
      BY <2>1, <2>2, <2>3, ToldDispatch
  <1>. QED
    BY <1>1, <1>2, <1>3, <1>4, <1>5, <1>6, <1>7, <1>8, <1>9, ToldJoin, ToldGreet, ToldFailure
       DEF Next, Done

\* At the start nobody is connected and nothing is known to be stored.
LEMMA ToldInit == Init => ToldInv /\ FillInv
  <1> SUFFICES ASSUME Init PROVE ToldInv /\ FillInv
    OBVIOUS
  <1>1. /\ phase = "recheck" /\ conns = {} /\ have = {} /\ events = <<>>
        /\ told = [c \in Ids |-> {}]
    BY DEF Init, PeersInit
  <1>. QED
    BY <1>1 DEF ToldInv, JoinsFirst, PeersToldWhatWeHave, ToldIsStored, FillInv,
       SnubbedGetLeftovers

\* The facts about told hold throughout, with the bookkeeping they rest on.
LEMMA ToldInvariant == Spec => [](TypeOK /\ LoopInv /\ ToldInv)
  BY TypeInit, TypeStep, BooksInit, LoopStep, ToldInit, ToldStep, PTL DEF Spec

\* Every connected peer has been told of every piece we have, by the greeting or by
\* a Have message, unless its greeting is still queued: no verified piece slips
\* between a new peer's bitfield and the Have messages that follow it.
THEOREM PeersAreInformed == Spec => []PeersToldWhatWeHave
  <1>1. ToldInv => PeersToldWhatWeHave
    BY DEF ToldInv
  <1>. QED
    BY <1>1, ToldInvariant, PTL

\* No peer is told of a piece before the piece is on disk, so a request that the
\* message invites can be served.
THEOREM AnnouncedIsStored == Spec => []ToldIsStored
  <1>1. ToldInv => ToldIsStored
    BY DEF ToldInv
  <1>. QED
    BY <1>1, ToldInvariant, PTL

----------------------------------------------------------------------------
(* The two loops of fill_pipelines() *)

\* A set of numbers that is not empty has a least element.
LEMMA Least ==
    ASSUME NEW S, S \subseteq Nat, S # {}
    PROVE  \E x \in S : \A y \in S : x <= y
  <1> DEFINE R == OpToRel(<, Nat)
  <1>1. IsWellFoundedOn(R, Nat)
    BY NatLessThanWellFounded
  <1>2. \A y \in Nat, x \in Nat : y < x => <<y, x>> \in R
    BY DEF OpToRel
  <1> HIDE DEF R
  <1>3. PICK x \in S : \A y \in S : ~(<<y, x>> \in R)
    BY <1>1, WFMin
  <1>4. ASSUME NEW y \in S PROVE x <= y
    <2>1. x \in Nat /\ y \in Nat /\ ~(<<y, x>> \in R)
      BY <1>3
    <2>2. y < x => <<y, x>> \in R
      BY <1>2, <2>1
    <2>. QED
      BY <2>1, <2>2
  <1>. QED
    BY <1>4

\* Nothing is left to ask a peer with these pieces for.
Exhausted(has) ==
    /\ \A p \in active \cap has : \A b \in BlockIdx(p) : state[<<p, b>>] # "Missing"
    /\ has \subseteq have \cup active

\* pick_block() comes back empty exactly when nothing is left.
ChoicesExact ==
    \A has \in SUBSET Pieces : PickChoices(has, pieceFrequency) = {} <=> Exhausted(has)

\* ... in every state of the types.
LEMMA NoChoice == TypeOK => ChoicesExact
  <1> SUFFICES ASSUME TypeOK, NEW has \in SUBSET Pieces
               PROVE  PickChoices(has, pieceFrequency) = {} <=> Exhausted(has)
    BY DEF ChoicesExact
  <1> DEFINE inProgress == UNION {NextMissing(p) : p \in active \cap has}
             fresh == (has \ have) \ active
             rarest == {p \in fresh : \A q \in fresh : pieceFrequency[p] <= pieceFrequency[q]}
  <1>1. PickChoices(has, pieceFrequency) = {} <=> inProgress = {} /\ rarest = {}
    <2>1. PickChoices(has, pieceFrequency)
            = IF inProgress # {} THEN inProgress ELSE {<<p, 0>> : p \in rarest}
      BY DEF PickChoices
    <2>2. rarest # {} => {<<p, 0>> : p \in rarest} # {}
      OBVIOUS
    <2>3. rarest = {} => {<<p, 0>> : p \in rarest} = {}
      OBVIOUS
    <2> HIDE DEF inProgress, rarest
    <2>. QED
      BY <2>1, <2>2, <2>3
  <1>2. ASSUME fresh # {} PROVE rarest # {}
    <2> DEFINE S == {pieceFrequency[p] : p \in fresh}
    <2>1. S \subseteq Nat /\ S # {}
      BY <1>2 DEF TypeOK, PeersTypeOK, Uint16
    <2>2. PICK x \in S : \A y \in S : x <= y
      BY <2>1, Least
    <2>. QED
      BY <2>2
  <1>3. ASSUME NEW p \in active \cap has, NEW b \in BlockIdx(p), state[<<p, b>>] = "Missing"
        PROVE  inProgress # {}
    <2> DEFINE S == {d \in BlockIdx(p) : state[<<p, d>>] = "Missing"}
    <2>1. S \subseteq Nat /\ S # {}
      BY <1>3, SwarmAssumption DEF BlockIdx
    <2>2. PICK x \in S : \A y \in S : x <= y
      BY <2>1, Least
    <2>3. \A y \in BlockIdx(p) : y \in Nat
      BY <2>1, SwarmAssumption DEF BlockIdx
    <2>4. <<p, x>> \in NextMissing(p)
      BY <2>2, <2>3 DEF NextMissing
    <2>. QED
      BY <2>4
  <1>4. ASSUME \A p \in active \cap has : \A b \in BlockIdx(p) : state[<<p, b>>] # "Missing"
        PROVE  inProgress = {}
    BY <1>4 DEF NextMissing
  <1>5. fresh = {} <=> has \subseteq have \cup active
    OBVIOUS
  <1>6. fresh = {} => rarest = {}
    OBVIOUS
  <1> HIDE DEF inProgress, fresh, rarest
  <1>. QED
    BY <1>1, <1>2, <1>3, <1>4, <1>5, <1>6 DEF Exhausted

\* A peer that can take no request still cannot when another peer has got one.
LEMMA StillCannot ==
    ASSUME TypeOK, NEW c \in Ids, NEW r \in PeerChoices(c), PickBlock(r), SendRequest(c, r),
           NEW d \in Ids \ {c}, ~CanFill(d), TypeOK'
    PROVE  ~CanFill(d)'
  <1>1. /\ hasPieces' = hasPieces /\ peerChoking' = peerChoking /\ snubbed' = snubbed
        /\ pieceFrequency' = pieceFrequency /\ pending'[d] = pending[d]
        /\ have' = have /\ active' = active \cup {r[1]}
        /\ state' = [state EXCEPT ![r] = "Requested"]
    BY DEF PickBlock, SendRequest, TypeOK, PeersTypeOK
  <1>2. hasPieces[d] \in SUBSET Pieces /\ hasPieces[c] \in SUBSET Pieces
    BY DEF TypeOK, PeersTypeOK
  <1>3. ASSUME PeerChoices(d) = {} PROVE PeerChoices(d)' = {}
    <2>1. Exhausted(hasPieces[d])
      BY <1>2, <1>3, NoChoice DEF PeerChoices, ChoicesExact
    <2>2. r[1] \in active \/ r[1] \notin hasPieces[d]
      <3>1. CASE r \in UNION {NextMissing(p) : p \in active \cap hasPieces[c]}
        BY <3>1 DEF NextMissing
      <3>2. CASE \E p \in (hasPieces[c] \ have) \ active : r = <<p, 0>>
        BY <2>1, <3>2 DEF Exhausted
      <3>. QED
        BY <3>1, <3>2 DEF PeerChoices, PickChoices
    <2>3. \A p \in active' \cap hasPieces[d] : p \in active
      BY <1>1, <2>2
    <2>4. ASSUME NEW p \in active, p \in hasPieces[d], NEW b \in BlockIdx(p)
          PROVE  state'[<<p, b>>] # "Missing"
      BY <1>1, <1>2, <2>1, <2>4, BlockParts DEF Exhausted, TypeOK, PiecesTypeOK
    <2>5. Exhausted(hasPieces[d])'
      BY <1>1, <2>1, <2>3, <2>4 DEF Exhausted
    <2>6. ChoicesExact'
      BY NoChoice, PTL
    <2>. QED
      BY <1>1, <1>2, <2>5, <2>6 DEF PeerChoices, ChoicesExact
  <1>. QED
    BY <1>1, <1>3 DEF CanFill

\* The first loop leaves behind only connections that can take no request.
LEMMA FillStep == TypeOK /\ LoopInv /\ FillInv /\ [Next]_vars => FillInv'
  <1> SUFFICES ASSUME TypeOK, LoopInv, FillInv, [Next]_vars PROVE FillInv'
    OBVIOUS
  <1>a. TypeOK' /\ LoopInv' /\ conns \subseteq Ids /\ NoPeer \notin Ids
    BY TypeStep, LoopStep, SessionAssumption DEF TypeOK, PeersTypeOK
  <1>1. ASSUME NEW c \in Ids, NEW r \in Blocks, Fill(c, r) PROVE FillInv'
    <2>1. /\ phase = "fill" /\ phase' = "fill" /\ conns' = conns /\ cur' = c
          /\ todo' = todo \ {c} /\ r \in PeerChoices(c) /\ PickBlock(r) /\ SendRequest(c, r)
          /\ cur \in conns => c = cur
      BY <1>1 DEF Fill, SendRequest
    <2>2. ASSUME NEW d \in conns, d \notin todo', d # c PROVE ~CanFill(d)'
      <3>1. ~CanFill(d)
        BY <2>1, <2>2 DEF FillInv
      <3>. QED
        BY <1>a, <2>1, <2>2, <3>1, StillCannot
    <2>. QED
      BY <2>1, <2>2 DEF FillInv, SnubbedGetLeftovers
  <1>2. ASSUME NEW c \in Ids, NEW r \in Blocks, FillSnubbed(c, r) PROVE FillInv'
    <2>1. /\ phase = "fillSnubbed" /\ phase' = "fillSnubbed" /\ conns' = conns
          /\ r \in PeerChoices(c) /\ PickBlock(r) /\ SendRequest(c, r)
          /\ snubbed[c] /\ snubbed' = snubbed
      BY <1>2 DEF FillSnubbed, SendRequest, CanFillSnubbed
    <2>2. ~CanFill(c)'
      BY <2>1 DEF CanFill
    <2>3. ASSUME NEW d \in conns, d # c PROVE ~CanFill(d)'
      <3>1. ~CanFill(d)
        BY <2>1 DEF FillInv, SnubbedGetLeftovers
      <3>. QED
        BY <1>a, <2>1, <2>3, <3>1, StillCannot
    <2>. QED
      BY <2>1, <2>2, <2>3 DEF FillInv, SnubbedGetLeftovers
  <1>3. ASSUME NextFill \/ EndFill \/ UNCHANGED vars PROVE FillInv'
    <2>1. UNCHANGED <<pieceVars, peerVars, todo>> \/ (EndFill /\ UNCHANGED <<pieceVars, peerVars>>)
      BY <1>3 DEF NextFill, EndFill, vars, loopVars
    <2>2. /\ conns' = conns /\ hasPieces' = hasPieces /\ peerChoking' = peerChoking
          /\ snubbed' = snubbed /\ pending' = pending /\ pieceFrequency' = pieceFrequency
          /\ have' = have /\ active' = active /\ state' = state
      BY <2>1 DEF pieceVars, peerVars
    <2>3. \A d \in Ids : Exhausted(hasPieces[d])' <=> Exhausted(hasPieces[d])
      BY <2>2 DEF Exhausted
    <2>4. ChoicesExact /\ ChoicesExact'
      BY <1>a, NoChoice, PTL
    <2>5. \A d \in Ids : CanFill(d)' <=> CanFill(d)
      <3>1. \A d \in Ids : hasPieces[d] \in SUBSET Pieces
        BY DEF TypeOK, PeersTypeOK
      <3>2. \A d \in Ids : PeerChoices(d)' = {} <=> PeerChoices(d) = {}
        BY <2>2, <2>3, <2>4, <3>1 DEF PeerChoices, ChoicesExact
      <3>. QED
        BY <2>2, <3>2 DEF CanFill
    <2>. QED
      BY <1>3, <1>a, <2>2, <2>5 DEF NextFill, EndFill, vars, loopVars, FillInv, SnubbedGetLeftovers
  <1>4. ASSUME phase' \notin {"fill", "fillSnubbed"} PROVE FillInv'
    BY <1>4 DEF FillInv, SnubbedGetLeftovers
  <1>5. ASSUME EndExpire PROVE FillInv'
    BY <1>5 DEF EndExpire, peerVars, FillInv, SnubbedGetLeftovers
  <1>6. ASSUME \/ \E p \in Pieces : Recheck(p)
               \/ EndRecheck \/ Poll \/ EndHandshakes \/ EndRead \/ EndDrop \/ EndDispatch
               \/ EndLoop \/ Shutdown
               \/ PollFails \/ SyncFails \/ MsgChoke \/ MsgUnchoke \/ ReadFails
               \/ \E h \in Hosts : FinishHandshake(h)
               \/ \E c \in Ids : ReadFrom(c) \/ DropPeer(c)
               \/ \E p \in HavePieces : MsgHave(p)
               \/ \E bf \in Bitfields : MsgBitfield(bf)
               \/ \E i \in 1 .. PipelineDepth, bytes \in {"good", "bad"} : MsgPiece(i, bytes)
               \/ DispatchJoined \/ DispatchReleased \/ PieceNoVerdict \/ PieceVerified
               \/ WriteFails \/ PieceFailed
               \/ \E c \in Ids, n \in 1 .. PipelineDepth : Expire(c, n)
        PROVE  phase' \notin {"fill", "fillSnubbed"}
    BY <1>6
       DEF Recheck, EndRecheck, Poll, EndHandshakes, EndRead, EndDrop, EndDispatch, EndLoop,
       Shutdown, PollFails, SyncFails, MsgChoke, MsgUnchoke, ReadFails, FinishHandshake, ReadFrom,
       DropPeer, MsgHave,
       MsgBitfield, MsgPiece, HandleMessage, DispatchJoined, DispatchReleased, PieceNoVerdict,
       PieceVerified, WriteFails, PieceFailed, OnPiece, Expire, loopVars
  <1>. QED
    BY <1>1, <1>2, <1>3, <1>4, <1>5, <1>6 DEF Next, Done

\* A snubbed peer is asked only for what no other peer can take: when the second
\* loop of fill_pipelines() runs, no peer that answers in time has room for a block
\* it could be given.
THEOREM SnubbedComeLast == Spec => []SnubbedGetLeftovers
  <1>1. FillInv => SnubbedGetLeftovers
    BY DEF FillInv
  <1>2. Init => TypeOK /\ LoopInv /\ FillInv
    BY TypeInit, BooksInit, ToldInit
  <1>. QED
    BY <1>1, <1>2, TypeStep, LoopStep, FillStep, PTL DEF Spec

----------------------------------------------------------------------------
(* Who is banned *)

\* The hosts a failed attempt bans sent one of its corrupt blocks, and the
\* attempt, kept as evidence, names a host for every block.
LEMMA FailedAttempt ==
    ASSUME TypeOK, PieceInv, SenderOnRecord,
           NEW r \in Blocks, NEW bytes \in {"good", "bad"}, NEW id \in Ids,
           BlockStatus(r, bytes) = "PieceFailed",
           hosts[id] \in Hosts, bytes # "good" => hosts[id] \in Liars
    PROVE  LET s == WithSender(senders[r[1]], r[2], id)
               d == Filed(r, bytes)
           IN  /\ \A b \in BlockIdx(r[1]) :
                     /\ b < Len(s)
                     /\ hosts[s[b + 1]] \in Hosts
                     /\ d[<<r[1], b>>] # "good" => hosts[s[b + 1]] \in Liars
               /\ \E b \in BlockIdx(r[1]) : d[<<r[1], b>>] # "good"
               /\ FailedBans(s) \subseteq Liars
  <1> DEFINE p == r[1]
             s == WithSender(senders[p], r[2], id)
             d == Filed(r, bytes)
  <1>1. /\ p \in Pieces /\ r[2] \in BlockIdx(p) /\ r[2] \in Nat /\ r = <<p, r[2]>>
        /\ \A b \in BlockIdx(p) : <<p, b>> \in Blocks /\ b \in Nat
    BY BlockParts
  <1>2. senders[p] \in Seq(Ids) /\ data \in [Blocks -> Content]
    BY <1>1 DEF TypeOK, BansTypeOK, PiecesTypeOK
  <1>3. /\ s \in Seq(Ids) /\ r[2] < Len(s) /\ Len(senders[p]) <= Len(s) /\ s[r[2] + 1] = id
        /\ \A i \in 1 .. Len(senders[p]) : i # r[2] + 1 => s[i] = senders[p][i]
    BY <1>1, <1>2, WithSenderType
  <1>4. \A b \in BlockIdx(p) : b # r[2] => state[<<p, b>>] = "Received"
    BY VerdictComplete
  <1>5. ASSUME NEW b \in BlockIdx(p)
        PROVE  /\ b < Len(s)
               /\ hosts[s[b + 1]] \in Hosts
               /\ d[<<p, b>>] # "good" => hosts[s[b + 1]] \in Liars
    <2>1. CASE b = r[2]
      BY <2>1, <1>1, <1>2, <1>3 DEF Filed
    <2>2. CASE b # r[2]
      <3>1. /\ b < Len(senders[p])
            /\ hosts[senders[p][b + 1]] \in Hosts
            /\ data[<<p, b>>] # "good" => hosts[senders[p][b + 1]] \in Liars
        <4>1. PICK x \in Blocks : x = <<p, b>> /\ x[1] = p /\ x[2] = b
          BY <1>1
        <4>2. state[x] = "Received"
          BY <4>1, <2>2, <1>4
        <4>. QED
          BY <4>1, <4>2 DEF SenderOnRecord
      <3>2. s[b + 1] = senders[p][b + 1]
        <4>1. b + 1 \in 1 .. Len(senders[p]) /\ b + 1 # r[2] + 1
          BY <3>1, <2>2, <1>1, <1>2
        <4>. QED
          BY <4>1, <1>3
      <3>3. d[<<p, b>>] = data[<<p, b>>]
        BY <2>2, <1>1, <1>2 DEF Filed
      <3>. QED
        BY <3>1, <3>2, <3>3, <1>1, <1>2, <1>3
    <2>. QED
      BY <2>1, <2>2
  <1>6. PICK bad \in BlockIdx(p) : d[<<p, bad>>] # "good"
    BY StatusFacts DEF Verify
  <1>7. FailedBans(s) \subseteq Liars
    <2> SUFFICES ASSUME SoleSender(s) PROVE hosts[s[1]] \in Liars
      BY DEF FailedBans
    <2>1. bad < Len(s) /\ bad \in Nat /\ hosts[s[bad + 1]] \in Liars
      BY <1>1, <1>5, <1>6
    <2>2. s[bad + 1] = s[1]
      BY <2>1, <1>3 DEF SoleSender
    <2>. QED
      BY <2>1, <2>2
  <1>. QED
    BY <1>5, <1>6, <1>7

\* What a ban does to the connections: those of the banned hosts are gone.
LEMMA BanFacts ==
    ASSUME TypeOK, NEW H, NEW news, Ban(H, news)
    PROVE  /\ conns' \subseteq conns /\ nextId' = nextId
           /\ \A c \in conns' : peerHost'[c] = peerHost[c] /\ peerHost[c] \notin H \ banned
           /\ banned' = banned \cup H
  <1>1. BannedConns(H) \in SUBSET Ids
    BY DEF BannedConns, TypeOK, PeersTypeOK
  <1>2. Drop(BannedConns(H), news) /\ banned' = banned \cup H
    BY DEF Ban
  <1>3. conns \subseteq Ids
    BY DEF TypeOK, PeersTypeOK
  <1>4. /\ conns' = conns \ BannedConns(H) /\ nextId' = nextId
        /\ \A c \in Ids : peerHost'[c] = IF c \in BannedConns(H) THEN NoHost ELSE peerHost[c]
    BY <1>1, <1>2, DropFacts
  <1>. QED
    BY <1>2, <1>3, <1>4 DEF BannedConns

\* Dispatching an event keeps every other Joined event.
LEMMA JoinPendingTail ==
    ASSUME TypeOK, events # <<>>, events' = Tail(events), NEW c, JoinPending(c),
           Head(events) # [type |-> "Joined", peer |-> c]
    PROVE  JoinPending(c)'
  <1>1. PICK i \in 1 .. Len(events) : events[i] = [type |-> "Joined", peer |-> c]
    BY DEF JoinPending
  <1>2. i # 1
    BY <1>1, HeadEvent
  <1>3. events \in Seq(Event)
    BY DEF TypeOK, LoopTypeOK
  <1>4. i - 1 \in 1 .. Len(Tail(events)) /\ Tail(events)[i - 1] = events[i]
    BY <1>2, <1>3, HeadEvent
  <1>. QED
    BY <1>1, <1>4 DEF JoinPending

\* Reporting an event keeps every Joined event.
LEMMA JoinPendingAppend ==
    ASSUME TypeOK, NEW e \in Event, events' = Append(events, e), NEW c, JoinPending(c)
    PROVE  JoinPending(c)'
  <1>1. events \in Seq(Event)
    BY DEF TypeOK, LoopTypeOK
  <1>. QED
    BY <1>1 DEF JoinPending

\* Once BanManager has the host of a connection it keeps it, and it learns the
\* host of every connection before the first block from it is dispatched.
LEMMA JoinsStep ==
    TypeOK /\ LoopInv /\ JoinsRecorded /\ [Next]_vars
      => JoinsRecorded' /\ \A c \in Ids : hosts[c] \in Hosts => hosts'[c] = hosts[c]
  <1> SUFFICES ASSUME TypeOK, LoopInv, JoinsRecorded, [Next]_vars
               PROVE  JoinsRecorded' /\ \A c \in Ids : hosts[c] \in Hosts => hosts'[c] = hosts[c]
    OBVIOUS
  <1> DEFINE Goal == JoinsRecorded' /\ \A c \in Ids : hosts[c] \in Hosts => hosts'[c] = hosts[c]
  <1>a. /\ conns \subseteq Ids /\ NoPeer \notin Ids /\ nextId \in Nat
        /\ peerHost \in [Ids -> Hosts \cup {NoHost}] /\ hosts \in [Ids -> Hosts \cup {NoHost}]
        /\ NoHost \notin Hosts /\ MaxJoins \in Nat
        /\ todo \subseteq conns /\ cur \in conns \cup {NoPeer}
    BY SessionAssumption, SwarmAssumption DEF TypeOK, PeersTypeOK, BansTypeOK, LoopInv
  <1>1. ASSUME UNCHANGED <<hosts, nextId, conns, peerHost, events>>,
               phase' \notin {"handshakes", "read"}
        PROVE  Goal
    BY <1>1 DEF JoinsRecorded, JoinPending
  <1>2. ASSUME UNCHANGED <<hosts, nextId, conns, peerHost, events, phase>>,
               todo' \subseteq todo, cur' \in todo \cup {cur, NoPeer}
        PROVE  Goal
    BY <1>2 DEF JoinsRecorded, JoinPending
  <1>3. ASSUME Poll PROVE Goal
    <2>1. events = <<>> /\ cur = NoPeer
      BY <1>3 DEF Poll, LoopInv
    <2>2. \A c \in conns : ~JoinPending(c)
      BY <2>1 DEF JoinPending
    <2>. QED
      BY <1>3, <2>1, <2>2, <1>a DEF Poll, banVars, peerVars, JoinsRecorded, JoinPending
  <1>4. ASSUME EndHandshakes PROVE Goal
    BY <1>4 DEF EndHandshakes, banVars, peerVars, JoinsRecorded, JoinPending
  <1>5. ASSUME NEW h \in Hosts, FinishHandshake(h) PROVE Goal
    <2> PICK n \in Nat : n = nextId
      BY <1>a
    <2>1. n \in Ids /\ n \notin conns /\ hosts[n] = NoHost
      BY <1>5, <1>a DEF FinishHandshake, Promote, Ids, JoinsRecorded
    <2>2. [type |-> "Joined", peer |-> n] \in Event
      BY <2>1 DEF Event
    <2>3. events \in Seq(Event) /\ events' = Append(events, [type |-> "Joined", peer |-> n])
      BY <1>5 DEF FinishHandshake, TypeOK, LoopTypeOK
    <2>4. JoinPending(n)'
      <3>1. /\ Len(events') = Len(events) + 1 /\ Len(events) \in Nat
            /\ events'[Len(events) + 1] = [type |-> "Joined", peer |-> n]
        BY <2>2, <2>3
      <3>2. \E i \in 1 .. Len(events') : events'[i] = [type |-> "Joined", peer |-> n]
        BY <3>1
      <3>. QED
        BY <3>2 DEF JoinPending
    <2>5. \A c : JoinPending(c) => JoinPending(c)'
      BY <2>2, <2>3, JoinPendingAppend
    <2>6. /\ conns' = conns \cup {n} /\ nextId' = n + 1 /\ hosts' = hosts
          /\ peerHost' = [peerHost EXCEPT ![n] = h]
          /\ phase' = phase /\ todo' = todo /\ cur' = cur
      BY <1>5 DEF FinishHandshake, Promote, banVars
    <2>7. \A c \in Ids : c # n => peerHost'[c] = peerHost[c]
      BY <2>6, <1>a
    <2>8. peerHost'[n] = h
      BY <2>6, <2>1, <1>a
    <2>9. \A c \in Ids : c >= nextId' => c \notin conns' /\ hosts'[c] = NoHost
      BY <2>6, <1>a DEF JoinsRecorded, Ids
    <2>10. \A c \in conns' :
              /\ peerHost'[c] \in Hosts
              /\ hosts'[c] = peerHost'[c] \/ (hosts'[c] = NoHost /\ JoinPending(c)')
      BY <2>1, <2>4, <2>5, <2>6, <2>7, <2>8, <1>a DEF JoinsRecorded
    <2>11. phase' \in {"handshakes", "read"} =>
              \A c \in todo' \cup ({cur'} \ {NoPeer}) : hosts'[c] = peerHost'[c]
      BY <2>1, <2>6, <2>7, <1>a DEF JoinsRecorded
    <2>. QED
      BY <2>6, <2>9, <2>10, <2>11 DEF JoinsRecorded
  <1>6. ASSUME UNCHANGED <<hosts, nextId, conns, peerHost, phase, todo, cur>>,
               \A c : JoinPending(c) => JoinPending(c)'
        PROVE  Goal
    BY <1>6, <1>a DEF JoinsRecorded
  <1>7. ASSUME HandleMessage, UNCHANGED <<nextId, conns, peerHost>>,
               events' = events \/ \E e \in Event : events' = Append(events, e)
        PROVE  Goal
    <2>1. \A c : JoinPending(c) => JoinPending(c)'
      <3>1. CASE events' = events
        BY <3>1 DEF JoinPending
      <3>2. CASE \E e \in Event : events' = Append(events, e)
        BY <3>2, JoinPendingAppend
      <3>. QED
        BY <1>7, <3>1, <3>2
    <2>. QED
      BY <1>6, <1>7, <2>1 DEF HandleMessage, banVars
  <1>8. ASSUME MsgChoke PROVE Goal
    <2>1. cur \in Ids
      BY <1>8, <1>a DEF MsgChoke, HandleMessage
    <2>2. [type |-> "Choke", peer |-> cur, released |-> pending[cur]] \in Event
      BY <2>1 DEF TypeOK, PeersTypeOK, Event
    <2>. QED
      BY <1>7, <1>8, <2>2 DEF MsgChoke, RecvChoke
  <1>9. ASSUME NEW i, NEW bytes \in {"good", "bad"}, MsgPiece(i, bytes) PROVE Goal
    <2>1. cur \in Ids
      BY <1>9, <1>a DEF MsgPiece, HandleMessage
    <2>2. pending[cur][i] \in Blocks
      BY <1>9, <2>1 DEF TypeOK, PeersTypeOK, MsgPiece, RecvPiece
    <2>3. [type |-> "Piece", peer |-> cur, block |-> pending[cur][i], bytes |-> bytes] \in Event
      BY <2>1, <2>2 DEF Event
    <2>. QED
      BY <1>7, <1>9, <2>3 DEF MsgPiece, RecvPiece
  <1>10. ASSUME MsgUnchoke \/ (\E p : MsgHave(p)) \/ (\E bf : MsgBitfield(bf)) PROVE Goal
    BY <1>7, <1>10 DEF MsgUnchoke, RecvUnchoke, MsgHave, RecvHave, MsgBitfield, RecvBitfield
  <1>11. ASSUME hosts' = hosts, nextId' = nextId, conns' \subseteq conns,
                \A c \in conns' : peerHost'[c] = peerHost[c],
                phase' \notin {"handshakes", "read"},
                \A c \in conns' : JoinPending(c) => JoinPending(c)'
         PROVE  Goal
    BY <1>11, <1>a DEF JoinsRecorded
  <1>12. ASSUME NEW c \in Ids, DropPeer(c) PROVE Goal
    <2>1. [type |-> "Dropped", peer |-> c, released |-> pending[c]] \in Event
      BY DEF TypeOK, PeersTypeOK, Event
    <2>2. \A d : JoinPending(d) => JoinPending(d)'
      BY <1>12, <2>1, JoinPendingAppend DEF DropPeer
    <2>3. {c} \in SUBSET Ids /\ Drop({c}, {})
      BY <1>12 DEF DropPeer
    <2>4. conns' = conns \ {c} /\ nextId' = nextId /\ \A d \in conns' : peerHost'[d] = peerHost[d]
      BY <2>3, <1>a, DropFacts
    <2>. QED
      BY <1>11, <1>12, <2>2, <2>4 DEF DropPeer, banVars
  <1>13. ASSUME events # <<>>, Head(events).type # "Joined", events' = Tail(events)
         PROVE  \A c : JoinPending(c) => JoinPending(c)'
    <2>1. \A c : Head(events) # [type |-> "Joined", peer |-> c]
      BY <1>13
    <2>. QED
      BY <1>13, <2>1, JoinPendingTail
  <1>14. ASSUME DispatchReleased PROVE Goal
    BY <1>11, <1>13, <1>14 DEF DispatchReleased, banVars, peerVars
  <1>15. ASSUME NEW status, OnPiece(status)
         PROVE  \A c : JoinPending(c) => JoinPending(c)'
    BY <1>13, <1>15 DEF OnPiece
  <1>16. ASSUME PieceNoVerdict PROVE Goal
    <2>1. PICK status : OnPiece(status)
      BY <1>16 DEF PieceNoVerdict
    <2>2. hosts' = hosts /\ UNCHANGED peerVars /\ phase' = "dispatch"
      BY <1>16 DEF PieceNoVerdict, OnPiece, OnBlock, banVars
    <2>. QED
      BY <1>11, <1>15, <2>1, <2>2 DEF peerVars
  <1>17. ASSUME WriteFails PROVE Goal
    BY <1>11, <1>15, <1>17 DEF WriteFails, OnBlock, peerVars
  <1>18. ASSUME PieceVerified PROVE Goal
    <2>1. OnPiece("PieceVerified") /\ hosts' = hosts /\ phase' = "dispatch"
      BY <1>18 DEF PieceVerified, OnPieceVerified, OnPiece
    <2>2. PICK H, news : Ban(H, news)
      BY <1>18 DEF PieceVerified
    <2>. QED
      BY <1>11, <1>15, <2>1, <2>2, BanFacts
  <1>19. ASSUME PieceFailed PROVE Goal
    <2>1. OnPiece("PieceFailed") /\ hosts' = hosts /\ phase' = "dispatch"
      BY <1>19 DEF PieceFailed, OnPieceFailed, OnPiece
    <2>2. PICK H, news : Ban(H, news)
      BY <1>19 DEF PieceFailed
    <2>. QED
      BY <1>11, <1>15, <2>1, <2>2, BanFacts
  <1>20. ASSUME DispatchJoined PROVE Goal
    <2> PICK n \in Ids : n = Head(events).peer
      BY <1>20, HeadEvent DEF DispatchJoined
    <2>1. /\ phase' = "dispatch" /\ UNCHANGED <<nextId, conns, peerHost>>
          /\ events # <<>> /\ events' = Tail(events)
          /\ n \in conns => hosts' = [hosts EXCEPT ![n] = peerHost[n]]
          /\ n \notin conns => hosts' = hosts
      BY <1>20 DEF DispatchJoined, OnJoin, Greet, banVars
    <2>2. \A c \in Ids : c # n => hosts'[c] = hosts[c]
      BY <2>1, <1>a
    <2>3. \A c \in Ids : c # n /\ JoinPending(c) => JoinPending(c)'
      <3>1. \A c \in Ids : c # n => Head(events) # [type |-> "Joined", peer |-> c]
        OBVIOUS
      <3>. QED
        BY <2>1, <3>1, JoinPendingTail
    <2>4. n \in conns => hosts'[n] = peerHost[n] /\ (hosts[n] = NoHost \/ hosts[n] = peerHost[n])
      BY <2>1, <1>a DEF JoinsRecorded
    <2>5. n \notin conns => hosts'[n] = hosts[n]
      BY <2>1
    <2>6. \A c \in Ids : hosts[c] \in Hosts => hosts'[c] = hosts[c]
      BY <2>2, <2>4, <2>5, <1>a
    <2>7. \A c \in Ids : c >= nextId' => c \notin conns' /\ hosts'[c] = NoHost
      BY <2>1, <2>2, <2>4, <2>5, <1>a DEF JoinsRecorded
    <2>8. \A c \in conns' :
              /\ peerHost'[c] \in Hosts
              /\ hosts'[c] = peerHost'[c] \/ (hosts'[c] = NoHost /\ JoinPending(c)')
      BY <2>1, <2>2, <2>3, <2>4, <1>a DEF JoinsRecorded
    <2>. QED
      BY <2>1, <2>6, <2>7, <2>8 DEF JoinsRecorded
  <1>21. ASSUME NEW c \in Ids, NEW n, Expire(c, n) PROVE Goal
    BY <1>1, <1>21 DEF Expire, TakeStale, banVars
  <1>22. ASSUME NEW c \in Ids, NEW r, Fill(c, r) \/ FillSnubbed(c, r) PROVE Goal
    BY <1>1, <1>22 DEF Fill, FillSnubbed, SendRequest, banVars
  <1>23. ASSUME NEW p, Recheck(p) PROVE Goal
    BY <1>1, <1>23 DEF Recheck, banVars, peerVars, loopVars
  <1>24. ASSUME EndRecheck \/ EndRead \/ EndDrop \/ EndDispatch PROVE Goal
    BY <1>1, <1>24 DEF EndRecheck, EndRead, EndDrop, EndDispatch, banVars, peerVars
  <1>25. ASSUME EndExpire \/ NextFill \/ EndFill \/ EndLoop \/ Shutdown
                \/ PollFails \/ SyncFails PROVE Goal
    BY <1>1, <1>25 DEF EndExpire, NextFill, EndFill, EndLoop, Shutdown,
       PollFails, SyncFails, banVars, peerVars
  <1>26. ASSUME NEW c \in Ids, ReadFrom(c) PROVE Goal
    BY <1>2, <1>26 DEF ReadFrom, banVars, peerVars
  <1>27. ASSUME ReadFails PROVE Goal
    BY <1>2, <1>27 DEF ReadFails, banVars, peerVars
  <1>28. ASSUME UNCHANGED vars PROVE Goal
    BY <1>2, <1>28 DEF vars, banVars, peerVars, loopVars
  <1>. QED
    BY <1>3, <1>4, <1>5, <1>8, <1>9, <1>10, <1>12, <1>14, <1>16, <1>17, <1>18, <1>19, <1>20,
       <1>21, <1>22, <1>23, <1>24, <1>25, <1>26, <1>27, <1>28 DEF Next, Done

\* A block read from a peer is attributed to a host the moment it becomes an
\* event, and stays so until it is dispatched.
LEMMA EventsStep ==
    ASSUME TypeOK, LoopInv, JoinsRecorded, EventsAttributed, [Next]_vars,
           \A c \in Ids : hosts[c] \in Hosts => hosts'[c] = hosts[c]
    PROVE  EventsAttributed'
  <1> DEFINE Attributed(ev) == ev.type = "Piece" => /\ ev.peer \in Ids
                                                    /\ hosts[ev.peer] \in Hosts
                                                    /\ ev.bytes # "good" => hosts[ev.peer] \in Liars
  <1>a. \A i \in 1 .. Len(events) : Attributed(events[i])
    BY DEF EventsAttributed, TypeOK, LoopTypeOK, Event
  <1>b. ASSUME \A i \in 1 .. Len(events') : Attributed(events'[i]) PROVE EventsAttributed'
    BY <1>b, SwarmAssumption DEF EventsAttributed
  <1>c. events \in Seq(Event) /\ conns \subseteq Ids /\ NoPeer \notin Ids
    BY SessionAssumption DEF TypeOK, LoopTypeOK, PeersTypeOK
  <1>1. ASSUME events' = events PROVE EventsAttributed'
    BY <1>1, <1>a, <1>b
  <1>2. ASSUME events # <<>>, events' = Tail(events) PROVE EventsAttributed'
    BY <1>2, <1>a, <1>b, HeadEvent
  <1>3. ASSUME NEW e, events' = Append(events, e), Attributed(e) PROVE EventsAttributed'
    BY <1>3, <1>a, <1>b, <1>c
  <1>4. ASSUME NEW i, NEW bytes \in {"good", "bad"}, MsgPiece(i, bytes)
        PROVE  EventsAttributed'
    <2>1. cur \in conns /\ cur \in Ids /\ phase = "read"
      BY <1>4, <1>c DEF MsgPiece, HandleMessage
    <2>2. hosts[cur] = peerHost[cur] /\ peerHost[cur] \in Hosts
      BY <2>1, <1>c DEF JoinsRecorded
    <2> DEFINE e == [type |-> "Piece", peer |-> cur, block |-> pending[cur][i], bytes |-> bytes]
    <2>3. events' = Append(events, e) /\ (bytes = "bad" => peerHost[cur] \in Liars)
      BY <1>4 DEF MsgPiece
    <2>4. Attributed(e)
      BY <2>1, <2>2, <2>3
    <2>. QED
      BY <1>3, <2>3, <2>4
  <1>5. ASSUME MsgChoke PROVE EventsAttributed'
    BY <1>3, <1>5 DEF MsgChoke
  <1>6. ASSUME NEW h, FinishHandshake(h) PROVE EventsAttributed'
    BY <1>3, <1>6 DEF FinishHandshake
  <1>7. ASSUME NEW c, DropPeer(c) PROVE EventsAttributed'
    BY <1>3, <1>7 DEF DropPeer
  <1>8. ASSUME MsgUnchoke \/ (\E p : MsgHave(p)) \/ (\E bf : MsgBitfield(bf))
        PROVE  EventsAttributed'
    BY <1>1, <1>8 DEF MsgUnchoke, MsgHave, MsgBitfield
  <1>9. ASSUME DispatchJoined \/ DispatchReleased \/ (\E status : OnPiece(status))
        PROVE  EventsAttributed'
    BY <1>2, <1>9 DEF DispatchJoined, DispatchReleased, OnPiece
  <1>10. ASSUME PieceNoVerdict \/ PieceVerified \/ WriteFails \/ PieceFailed
         PROVE  EventsAttributed'
    BY <1>9, <1>10 DEF PieceNoVerdict, PieceVerified, WriteFails, PieceFailed
  <1>11. ASSUME EndRecheck \/ Poll \/ EndHandshakes \/ EndRead \/ EndDrop \/ EndDispatch
         PROVE  EventsAttributed'
    BY <1>1, <1>11 DEF EndRecheck, Poll, EndHandshakes, EndRead, EndDrop, EndDispatch
  <1>12. ASSUME EndExpire \/ NextFill \/ EndFill \/ EndLoop \/ Shutdown
                \/ PollFails \/ SyncFails \/ ReadFails
         PROVE  EventsAttributed'
    BY <1>1, <1>12 DEF EndExpire, NextFill, EndFill, EndLoop, Shutdown,
       PollFails, SyncFails, ReadFails
  <1>13. ASSUME NEW c, NEW r, Expire(c, r) \/ Fill(c, r) \/ FillSnubbed(c, r) \/ ReadFrom(c)
         PROVE  EventsAttributed'
    BY <1>1, <1>13 DEF Expire, Fill, FillSnubbed, ReadFrom
  <1>14. ASSUME (\E p : Recheck(p)) \/ UNCHANGED vars PROVE EventsAttributed'
    BY <1>1, <1>14 DEF Recheck, vars, loopVars
  <1>. QED
    BY <1>4, <1>5, <1>6, <1>7, <1>8, <1>9, <1>10, <1>11, <1>12, <1>13, <1>14 DEF Next, Done

\* A step that receives no block and leaves the received ones alone keeps their
\* senders on record.
LEMMA SenderKept ==
    ASSUME TypeOK, SenderOnRecord,
           \A c \in Ids : hosts[c] \in Hosts => hosts'[c] = hosts[c],
           \A r \in Blocks : state'[r] = "Received" =>
               /\ state[r] = "Received" /\ data'[r] = data[r]
               /\ senders'[r[1]] = senders[r[1]]
    PROVE  SenderOnRecord'
  <1> SUFFICES ASSUME NEW r \in Blocks, state'[r] = "Received"
               PROVE  /\ r[2] < Len(senders'[r[1]])
                      /\ hosts'[senders'[r[1]][r[2] + 1]] \in Hosts
                      /\ data'[r] # "good" => hosts'[senders'[r[1]][r[2] + 1]] \in Liars
    BY DEF SenderOnRecord
  <1>1. state[r] = "Received" /\ data'[r] = data[r] /\ senders'[r[1]] = senders[r[1]]
    OBVIOUS
  <1>2. /\ r[2] < Len(senders[r[1]])
        /\ hosts[senders[r[1]][r[2] + 1]] \in Hosts
        /\ data[r] # "good" => hosts[senders[r[1]][r[2] + 1]] \in Liars
    BY <1>1 DEF SenderOnRecord
  <1>3. senders[r[1]] \in Seq(Ids) /\ r[2] \in Nat
    BY BlockParts DEF TypeOK, BansTypeOK
  <1>4. senders[r[1]][r[2] + 1] \in Ids
    BY <1>2, <1>3, SenderEntry
  <1>. QED
    BY <1>1, <1>2, <1>4

\* SenderOnRecord survives every step: on_block() writes the slot in the same
\* call that receives the block, and only a verdict clears the list.
LEMMA SenderStep ==
    ASSUME TypeOK, LoopInv, PieceInv, EventsAttributed, SenderOnRecord, [Next]_vars,
           \A c \in Ids : hosts[c] \in Hosts => hosts'[c] = hosts[c]
    PROVE  SenderOnRecord'
  <1>a. state \in [Blocks -> {"Missing", "Requested", "Received"}] /\ data \in [Blocks -> Content]
        /\ senders \in [Pieces -> Seq(Ids)]
    BY DEF TypeOK, PiecesTypeOK, BansTypeOK
  <1>1. ASSUME UNCHANGED <<state, data, senders>> PROVE SenderOnRecord'
    BY <1>1, SenderKept
  <1>2. ASSUME NEW act, NEW reqs, state' = Release(state, act, reqs), UNCHANGED <<data, senders>>
        PROVE  SenderOnRecord'
    BY <1>2, ReleaseFacts, SenderKept
  <1>3. ASSUME NEW c, NEW r, Fill(c, r) \/ FillSnubbed(c, r) PROVE SenderOnRecord'
    <2>1. state' = [state EXCEPT ![r] = "Requested"] /\ UNCHANGED <<data, senders>>
      BY <1>3 DEF Fill, FillSnubbed, PickBlock, banVars
    <2>. QED
      BY <2>1, <1>a, SenderKept
  <1>4. ASSUME NEW q \in Pieces, NEW act, NEW reqs,
               state' = Release(Restarted(q), act, reqs) \/ state' = Restarted(q),
               \A r \in Blocks : r[1] # q => data'[r] = data[r],
               \A p \in Pieces : p # q => senders'[p] = senders[p]
        PROVE  SenderOnRecord'
    <2>1. \A r \in Blocks : state'[r] = "Received" => r[1] # q /\ state[r] = "Received"
      <3>1. \A r \in Blocks : Restarted(q)[r] = "Received" => r[1] # q /\ state[r] = "Received"
        BY DEF Restarted
      <3>2. \A r \in Blocks : state'[r] = "Received" => Restarted(q)[r] = "Received"
        <4>1. CASE state' = Restarted(q)
          BY <4>1
        <4>2. CASE state' = Release(Restarted(q), act, reqs)
          BY <4>2, ReleaseFacts
        <4>. QED
          BY <1>4, <4>1, <4>2
      <3>. QED
        BY <3>1, <3>2
    <2>. QED
      BY <1>4, <2>1, BlockParts, SenderKept
  <1>5. ASSUME NEW status, OnPiece(status)
        PROVE  /\ Head(events).block \in Blocks /\ Head(events).peer \in Ids
               /\ Head(events).bytes \in {"good", "bad"}
               /\ hosts[Head(events).peer] \in Hosts
               /\ Head(events).bytes # "good" => hosts[Head(events).peer] \in Liars
    BY <1>5, OnPieceFacts, HeadEvent DEF OnPiece, EventsAttributed
  <1>6. ASSUME PieceNoVerdict PROVE SenderOnRecord'
    <2> DEFINE ev == Head(events)
               r  == ev.block
               q  == r[1]
    <2>1. CASE UNCHANGED <<pieceVars, banVars>>
      BY <1>1, <2>1 DEF pieceVars, banVars
    <2>2. CASE OnPiece("Incomplete") /\ FileBlock(r, ev.bytes) /\ OnBlock(r, ev.peer)
      <3>1. /\ r \in Blocks /\ ev.peer \in Ids
            /\ hosts[ev.peer] \in Hosts
            /\ ev.bytes # "good" => hosts[ev.peer] \in Liars
        BY <2>2, <1>5
      <3>2. q \in Pieces /\ r[2] \in Nat
        BY <3>1, BlockParts
      <3>3. /\ state' = [state EXCEPT ![r] = "Received"]
            /\ data' = [data EXCEPT ![r] = ev.bytes]
            /\ senders' = [senders EXCEPT ![q] = WithSender(senders[q], r[2], ev.peer)]
            /\ hosts' = hosts
        BY <2>2 DEF FileBlock, OnBlock, Filed
      <3> DEFINE s == WithSender(senders[q], r[2], ev.peer)
      <3>4. /\ s \in Seq(Ids) /\ r[2] < Len(s) /\ s[r[2] + 1] = ev.peer
            /\ Len(senders[q]) <= Len(s) /\ senders[q] \in Seq(Ids)
            /\ \A i \in 1 .. Len(senders[q]) : i # r[2] + 1 => s[i] = senders[q][i]
        <4>1. senders[q] \in Seq(Ids)
          BY <3>2, <1>a
        <4>. QED
          BY <3>1, <3>2, <4>1, WithSenderType
      <3>5. senders'[q] = s /\ \A p \in Pieces : p # q => senders'[p] = senders[p]
        BY <3>2, <3>3, <1>a
      <3> HIDE DEF s
      <3>7. s \in Seq(Ids) /\ senders[q] \in Seq(Ids) /\ Len(senders[q]) <= Len(s)
        BY <3>4
      <3>6. ASSUME NEW x \in Blocks, state'[x] = "Received"
            PROVE  /\ x[2] < Len(senders'[x[1]])
                   /\ hosts'[senders'[x[1]][x[2] + 1]] \in Hosts
                   /\ data'[x] # "good" => hosts'[senders'[x[1]][x[2] + 1]] \in Liars
        <4>1. CASE x = r
          BY <4>1, <3>1, <3>3, <3>4, <3>5, <1>a
        <4>2. CASE x # r
          <5>1. state[x] = "Received" /\ data'[x] = data[x]
            BY <4>2, <3>6, <3>3, <1>a
          <5>2. /\ x[2] < Len(senders[x[1]])
                /\ hosts[senders[x[1]][x[2] + 1]] \in Hosts
                /\ data[x] # "good" => hosts[senders[x[1]][x[2] + 1]] \in Liars
            BY <5>1 DEF SenderOnRecord
          <5>3. x[1] \in Pieces /\ x[2] \in Nat /\ (x[1] = q => x[2] # r[2])
            <6>1. x = <<x[1], x[2]>> /\ r = <<r[1], r[2]>> /\ x[1] \in Pieces /\ x[2] \in Nat
              BY <3>1, BlockParts
            <6>. QED
              BY <6>1, <4>2
          <5>4. /\ senders'[x[1]][x[2] + 1] = senders[x[1]][x[2] + 1]
                /\ x[2] < Len(senders'[x[1]])
            <6>1. CASE x[1] = q
              <7>1. x[2] + 1 \in 1 .. Len(senders[q]) /\ x[2] + 1 # r[2] + 1
                <8>1. x[2] < Len(senders[q]) /\ x[2] \in Nat /\ r[2] \in Nat /\ x[2] # r[2]
                  BY <6>1, <5>2, <5>3, <3>2
                <8>2. x[2] + 1 \in 1 .. Len(senders[q])
                  BY <8>1, <3>4, SenderEntry
                <8>. QED
                  BY <8>1, <8>2
              <7>2. s[x[2] + 1] = senders[q][x[2] + 1]
                BY <7>1, <3>4
              <7>3. x[2] < Len(s)
                <8>1. Len(s) \in Nat /\ Len(senders[q]) \in Nat
                  BY <3>7
                <8>2. x[2] \in Nat /\ x[2] < Len(senders[q]) /\ Len(senders[q]) <= Len(s)
                  BY <6>1, <5>2, <5>3, <3>7
                <8> DEFINE b == x[2]
                           m == Len(senders[q])
                           n == Len(s)
                <8>3. b \in Nat /\ m \in Nat /\ n \in Nat /\ b < m /\ m <= n
                  BY <8>1, <8>2
                <8> HIDE DEF b, m, n
                <8>4. b < n
                  BY <8>3
                <8>. QED
                  BY <8>4 DEF b, n
              <7>. QED
                BY <7>2, <7>3, <6>1, <3>5
            <6>2. CASE x[1] # q
              BY <6>2, <5>2, <5>3, <3>5
            <6>. QED
              BY <6>1, <6>2
          <5>. QED
            BY <5>1, <5>2, <5>4, <3>3
        <4>. QED
          BY <4>1, <4>2
      <3>. QED
        BY <3>6 DEF SenderOnRecord
    <2>. QED
      BY <1>6, <2>1, <2>2 DEF PieceNoVerdict
  <1>7. ASSUME PieceVerified PROVE SenderOnRecord'
    <2> DEFINE ev == Head(events)
               q  == ev.block[1]
    <2>1. q \in Pieces
      BY <1>5, <1>7, BlockParts DEF PieceVerified
    <2>2. /\ state' = Release(Restarted(q), active \ {q}, HeldBy(BannedConns(VerifiedBans(q))))
          /\ PassPiece(ev.block) /\ OnPieceVerified(q)
      BY <1>7 DEF PieceVerified
    <2>. QED
      BY <1>4, <1>a, <2>1, <2>2 DEF PassPiece, OnPieceVerified
  <1>8. ASSUME PieceFailed PROVE SenderOnRecord'
    <2> DEFINE ev == Head(events)
               q  == ev.block[1]
               bans == FailedBans(WithSender(senders[q], ev.block[2], ev.peer))
    <2>1. ev.block \in Blocks /\ q \in Pieces
      BY <1>5, <1>8, BlockParts DEF PieceFailed
    <2>2. /\ state' = Release(Restarted(q), active, HeldBy(BannedConns(bans)))
          /\ FailPiece(ev.block, ev.bytes)
          /\ senders' = [senders EXCEPT ![q] = <<>>]
      BY <1>8 DEF PieceFailed, OnPieceFailed
    <2>3. \A r \in Blocks : r[1] # q => data'[r] = data[r]
      BY <2>1, <2>2, <1>a DEF FailPiece, Filed
    <2>. QED
      BY <1>4, <1>a, <2>1, <2>2, <2>3
  <1>9. ASSUME WriteFails PROVE SenderOnRecord'
    <2> DEFINE ev == Head(events)
               q  == ev.block[1]
    <2>1. q \in Pieces
      BY <1>5, <1>9, BlockParts DEF WriteFails
    <2>2. state' = Restarted(q) /\ PassPiece(ev.block) /\ OnBlock(ev.block, ev.peer)
      BY <1>9 DEF WriteFails
    <2>. QED
      BY <1>4, <1>a, <2>1, <2>2 DEF PassPiece, OnBlock
  <1>10. ASSUME DispatchReleased PROVE SenderOnRecord'
    BY <1>2, <1>10 DEF DispatchReleased, banVars
  <1>11. ASSUME NEW c, NEW n, Expire(c, n) PROVE SenderOnRecord'
    BY <1>2, <1>11 DEF Expire, banVars
  <1>12. ASSUME EndRecheck \/ Poll \/ EndHandshakes \/ EndRead \/ EndDrop \/ EndDispatch
                \/ EndExpire \/ NextFill \/ EndFill \/ EndLoop \/ Shutdown
                \/ PollFails \/ SyncFails \/ ReadFails
         PROVE  SenderOnRecord'
    BY <1>1, <1>12 DEF EndRecheck, Poll, EndHandshakes, EndRead, EndDrop, EndDispatch,
       EndExpire, NextFill, EndFill, EndLoop, Shutdown,
       PollFails, SyncFails, ReadFails, pieceVars, banVars
  <1>13. ASSUME (\E h \in Hosts : FinishHandshake(h)) \/ (\E c \in Ids : ReadFrom(c))
                \/ HandleMessage \/ (\E c \in Ids : DropPeer(c)) \/ (\E p \in Pieces : Recheck(p))
         PROVE  SenderOnRecord'
    BY <1>1, <1>13
       DEF FinishHandshake, ReadFrom, HandleMessage, DropPeer, Recheck, pieceVars,
       banVars
  <1>14. ASSUME DispatchJoined PROVE SenderOnRecord'
    BY <1>1, <1>14 DEF DispatchJoined, OnJoin, pieceVars, banVars
  <1>15. ASSUME UNCHANGED vars PROVE SenderOnRecord'
    BY <1>1, <1>15 DEF vars, pieceVars, banVars
  <1>. QED
    BY <1>3, <1>6, <1>7, <1>8, <1>9, <1>10, <1>11, <1>12, <1>13, <1>14, <1>15
       DEF Next, Done, MsgChoke, MsgUnchoke, MsgHave, MsgBitfield, MsgPiece

\* The evidence of a piece that the step leaves alone still names its hosts.
LEMMA EvidenceKept ==
    ASSUME TypeOK, EvidenceAttributed, NEW p \in evidence,
           \A c \in Ids : hosts[c] \in Hosts => hosts'[c] = hosts[c],
           evidenceSenders'[p] = evidenceSenders[p],
           \A b \in BlockIdx(p) : evidenceData'[<<p, b>>] = evidenceData[<<p, b>>]
    PROVE  /\ \A b \in BlockIdx(p) :
                 /\ b < Len(evidenceSenders'[p])
                 /\ hosts'[evidenceSenders'[p][b + 1]] \in Hosts
                 /\ evidenceData'[<<p, b>>] # "good"
                       => hosts'[evidenceSenders'[p][b + 1]] \in Liars
           /\ \E b \in BlockIdx(p) : evidenceData'[<<p, b>>] # "good"
  <1>1. p \in Pieces /\ evidenceSenders[p] \in Seq(Ids)
    BY DEF TypeOK, BansTypeOK
  <1>2. ASSUME NEW b \in BlockIdx(p)
        PROVE  /\ b < Len(evidenceSenders[p])
               /\ hosts'[evidenceSenders[p][b + 1]] = hosts[evidenceSenders[p][b + 1]]
               /\ hosts[evidenceSenders[p][b + 1]] \in Hosts
               /\ evidenceData[<<p, b>>] # "good" => hosts[evidenceSenders[p][b + 1]] \in Liars
    <2>1. /\ b < Len(evidenceSenders[p])
          /\ hosts[evidenceSenders[p][b + 1]] \in Hosts
          /\ evidenceData[<<p, b>>] # "good" => hosts[evidenceSenders[p][b + 1]] \in Liars
      BY DEF EvidenceAttributed
    <2>2. b \in Nat
      BY <1>1, SwarmAssumption DEF BlockIdx
    <2>3. evidenceSenders[p][b + 1] \in Ids
      BY <1>1, <2>1, <2>2
    <2>. QED
      BY <2>1, <2>3
  <1>3. \E b \in BlockIdx(p) : evidenceData[<<p, b>>] # "good"
    BY DEF EvidenceAttributed
  <1>. QED
    BY <1>2, <1>3

\* EvidenceAttributed survives every step, and a failed piece bans only liars.
LEMMA EvidenceStep ==
    ASSUME TypeOK, LoopInv, PieceInv, EventsAttributed, SenderOnRecord, EvidenceAttributed,
           [Next]_vars, \A c \in Ids : hosts[c] \in Hosts => hosts'[c] = hosts[c]
    PROVE  EvidenceAttributed'
  <1>a. /\ evidence \subseteq Pieces /\ evidenceSenders \in [Pieces -> Seq(Ids)]
        /\ evidenceData \in [Blocks -> Content]
    BY DEF TypeOK, BansTypeOK
  <1>1. ASSUME UNCHANGED <<evidence, evidenceData, evidenceSenders>> PROVE EvidenceAttributed'
    BY <1>1, EvidenceKept DEF EvidenceAttributed
  <1>2. ASSUME PieceFailed PROVE EvidenceAttributed'
    <2> DEFINE ev == Head(events)
               r  == ev.block
               q  == r[1]
               s  == WithSender(senders[q], r[2], ev.peer)
               d  == Filed(r, ev.bytes)
    <2>1. OnPiece("PieceFailed") /\ OnPieceFailed(r, ev.peer, d)
      BY <1>2 DEF PieceFailed
    <2>2. /\ r \in Blocks /\ q \in Pieces /\ ev.peer \in Ids /\ ev.bytes \in {"good", "bad"}
          /\ hosts[ev.peer] \in Hosts /\ (ev.bytes # "good" => hosts[ev.peer] \in Liars)
          /\ BlockStatus(r, ev.bytes) = "PieceFailed"
      BY <2>1, OnPieceFacts, HeadEvent, BlockParts DEF OnPiece, EventsAttributed
    <2>3. /\ \A b \in BlockIdx(q) :
                 /\ b < Len(s)
                 /\ hosts[s[b + 1]] \in Hosts
                 /\ d[<<q, b>>] # "good" => hosts[s[b + 1]] \in Liars
          /\ \E b \in BlockIdx(q) : d[<<q, b>>] # "good"
      BY <2>2, FailedAttempt
    <2> HIDE DEF s, d
    <2>4. CASE ~SoleSender(s) /\ q \notin evidence
      <3>1. /\ evidence' = evidence \cup {q} /\ hosts' = hosts
            /\ evidenceSenders' = [evidenceSenders EXCEPT ![q] = s]
            /\ evidenceData' = [x \in Blocks |-> IF x[1] = q THEN d[x] ELSE evidenceData[x]]
        BY <2>1, <2>4 DEF OnPieceFailed, s
      <3>2. /\ evidenceSenders'[q] = s
            /\ \A b \in BlockIdx(q) : evidenceData'[<<q, b>>] = d[<<q, b>>]
        BY <3>1, <2>2, <1>a, BlockParts
      <3>3. \A p \in Pieces : p # q =>
               /\ evidenceSenders'[p] = evidenceSenders[p]
               /\ \A b \in BlockIdx(p) : evidenceData'[<<p, b>>] = evidenceData[<<p, b>>]
        BY <3>1, <2>2, <1>a, BlockParts
      <3> DEFINE Ok(p) ==
              /\ \A b \in BlockIdx(p) :
                    /\ b < Len(evidenceSenders'[p])
                    /\ hosts'[evidenceSenders'[p][b + 1]] \in Hosts
                    /\ evidenceData'[<<p, b>>] # "good"
                          => hosts'[evidenceSenders'[p][b + 1]] \in Liars
              /\ \E b \in BlockIdx(p) : evidenceData'[<<p, b>>] # "good"
      <3>4. Ok(q)
        BY <3>1, <3>2, <2>3
      <3>5. \A p \in evidence : Ok(p)
        BY <3>3, <2>4, <1>a, EvidenceKept
      <3>. QED
        BY <3>1, <3>4, <3>5 DEF EvidenceAttributed
    <2>5. CASE ~(~SoleSender(s) /\ q \notin evidence)
      BY <1>1, <2>1, <2>5 DEF OnPieceFailed, s
    <2>. QED
      BY <2>4, <2>5
  <1>3. ASSUME PieceVerified PROVE EvidenceAttributed'
    <2> DEFINE q == Head(events).block[1]
    <2>1. OnPieceVerified(q) /\ q \in Pieces
      BY <1>3, OnPieceFacts, BlockParts DEF PieceVerified
    <2>2. \A p \in evidence' : /\ p \in evidence /\ p # q
                               /\ evidenceSenders'[p] = evidenceSenders[p]
      BY <2>1, <1>a DEF OnPieceVerified
    <2>3. \A p \in evidence' : \A b \in BlockIdx(p) :
              evidenceData'[<<p, b>>] = evidenceData[<<p, b>>]
      BY <2>1, <2>2, <1>a, BlockParts DEF OnPieceVerified
    <2>. QED
      BY <2>2, <2>3, EvidenceKept DEF EvidenceAttributed
  <1>4. ASSUME PieceNoVerdict \/ WriteFails PROVE EvidenceAttributed'
    BY <1>1, <1>4 DEF PieceNoVerdict, WriteFails, OnBlock, banVars
  <1>5. ASSUME EndRecheck \/ Poll \/ EndHandshakes \/ EndRead \/ EndDrop \/ EndDispatch
                \/ EndExpire \/ NextFill \/ EndFill \/ EndLoop \/ Shutdown
                \/ PollFails \/ SyncFails \/ ReadFails
         PROVE  EvidenceAttributed'
    BY <1>1, <1>5 DEF EndRecheck, Poll, EndHandshakes, EndRead, EndDrop, EndDispatch,
       EndExpire, NextFill, EndFill, EndLoop, Shutdown, PollFails, SyncFails, ReadFails, banVars
  <1>6. ASSUME (\E h \in Hosts : FinishHandshake(h)) \/ (\E c \in Ids : ReadFrom(c))
                \/ HandleMessage \/ (\E c \in Ids : DropPeer(c)) \/ (\E p \in Pieces : Recheck(p))
         PROVE  EvidenceAttributed'
    BY <1>1, <1>6
       DEF FinishHandshake, ReadFrom, HandleMessage, DropPeer, Recheck, banVars
  <1>7. ASSUME DispatchJoined \/ DispatchReleased PROVE EvidenceAttributed'
    BY <1>1, <1>7 DEF DispatchJoined, DispatchReleased, OnJoin, banVars
  <1>8. ASSUME NEW c, NEW r, Expire(c, r) \/ Fill(c, r) \/ FillSnubbed(c, r)
        PROVE  EvidenceAttributed'
    BY <1>1, <1>8 DEF Expire, Fill, FillSnubbed, banVars
  <1>9. ASSUME UNCHANGED vars PROVE EvidenceAttributed'
    BY <1>1, <1>9 DEF vars, banVars
  <1>. QED
    BY <1>2, <1>3, <1>4, <1>5, <1>6, <1>7, <1>8, <1>9
       DEF Next, Done, MsgChoke, MsgUnchoke, MsgHave, MsgBitfield, MsgPiece

\* The two facts about banned hosts survive every step.
LEMMA BannedStep ==
    ASSUME TypeOK, BanInv, [Next]_vars
    PROVE  OnlyLiarsBanned' /\ NoBannedConnection'
  <1> DEFINE Goal == OnlyLiarsBanned' /\ NoBannedConnection'
  <1>a. /\ PieceInv /\ JoinsRecorded /\ EventsAttributed /\ SenderOnRecord /\ EvidenceAttributed
        /\ banned \subseteq Liars /\ \A c \in conns : peerHost[c] \notin banned
        /\ conns \subseteq Ids /\ peerHost \in [Ids -> Hosts \cup {NoHost}]
    BY DEF BanInv, OnlyLiarsBanned, NoBannedConnection, TypeOK, PeersTypeOK
  <1>1. ASSUME UNCHANGED <<conns, peerHost, banned>> PROVE Goal
    BY <1>1, <1>a DEF OnlyLiarsBanned, NoBannedConnection
  <1>2. ASSUME NEW h \in Hosts, FinishHandshake(h) PROVE Goal
    <2> PICK n : n = nextId
      OBVIOUS
    <2>1. /\ h \notin banned /\ banned' = banned /\ conns' = conns \cup {n}
          /\ peerHost' = [peerHost EXCEPT ![n] = h] /\ n < MaxJoins
      BY <1>2 DEF FinishHandshake, Promote
    <2>2. n \in Ids
      BY <2>1, SwarmAssumption DEF TypeOK, PeersTypeOK, Ids
    <2>3. \A c \in conns' : peerHost'[c] = IF c = n THEN h ELSE peerHost[c]
      BY <2>1, <2>2, <1>a
    <2>. QED
      BY <2>1, <2>3, <1>a DEF OnlyLiarsBanned, NoBannedConnection
  <1>3. ASSUME NEW c \in Ids, DropPeer(c) PROVE Goal
    <2>1. {c} \in SUBSET Ids /\ Drop({c}, {}) /\ banned' = banned
      BY <1>3 DEF DropPeer
    <2>2. conns' = conns \ {c} /\ \A d \in conns' : peerHost'[d] = peerHost[d]
      BY <2>1, <1>a, DropFacts
    <2>. QED
      BY <2>1, <2>2, <1>a DEF OnlyLiarsBanned, NoBannedConnection
  <1>4. ASSUME NEW H, NEW news, Ban(H, news), H \subseteq Liars PROVE Goal
    <2>1. /\ conns' \subseteq conns /\ banned' = banned \cup H
          /\ \A c \in conns' : peerHost'[c] = peerHost[c] /\ peerHost[c] \notin H \ banned
      BY <1>4, BanFacts
    <2>. QED
      BY <1>4, <2>1, <1>a DEF OnlyLiarsBanned, NoBannedConnection
  <1>5. ASSUME PieceVerified PROVE Goal
    <2> DEFINE p == Head(events).block[1]
    <2>1. Ban(VerifiedBans(p), {p})
      BY <1>5 DEF PieceVerified
    <2>2. VerifiedBans(p) \subseteq Liars
      BY <1>a DEF VerifiedBans, EvidenceAttributed
    <2>. QED
      BY <1>4, <2>1, <2>2
  <1>6. ASSUME PieceFailed PROVE Goal
    <2> DEFINE ev == Head(events)
               r  == ev.block
               bans == FailedBans(WithSender(senders[r[1]], r[2], ev.peer))
    <2>1. OnPiece("PieceFailed") /\ Ban(bans, {})
      BY <1>6 DEF PieceFailed
    <2>2. /\ r \in Blocks /\ ev.peer \in Ids /\ ev.bytes \in {"good", "bad"}
          /\ hosts[ev.peer] \in Hosts /\ (ev.bytes # "good" => hosts[ev.peer] \in Liars)
          /\ BlockStatus(r, ev.bytes) = "PieceFailed"
      BY <2>1, <1>a, OnPieceFacts, HeadEvent DEF OnPiece, EventsAttributed
    <2>3. bans \subseteq Liars
      BY <2>2, <1>a, FailedAttempt
    <2>. QED
      BY <1>4, <2>1, <2>3
  <1>7. ASSUME UNCHANGED peerVars PROVE Goal
    BY <1>1, <1>7 DEF peerVars
  <1>8. ASSUME MsgChoke \/ MsgUnchoke \/ (\E p : MsgHave(p)) \/ (\E bf : MsgBitfield(bf))
               \/ (\E i, bytes : MsgPiece(i, bytes)) \/ DispatchJoined
        PROVE  Goal
    BY <1>1, <1>8 DEF MsgChoke, RecvChoke, MsgUnchoke, RecvUnchoke, MsgHave, RecvHave,
       MsgBitfield, RecvBitfield, MsgPiece, RecvPiece, DispatchJoined, Greet
  <1>9. ASSUME NEW c, NEW r, Expire(c, r) \/ Fill(c, r) \/ FillSnubbed(c, r) PROVE Goal
    BY <1>1, <1>9 DEF Expire, TakeStale, Fill, FillSnubbed, SendRequest
  <1>10. ASSUME PieceNoVerdict \/ WriteFails \/ DispatchReleased \/ (\E p \in Pieces : Recheck(p))
                \/ (\E c \in Ids : ReadFrom(c)) \/ ReadFails \/ UNCHANGED vars
         PROVE  Goal
    BY <1>7, <1>10 DEF PieceNoVerdict, WriteFails, DispatchReleased, Recheck, ReadFrom,
       ReadFails, vars
  <1>11. ASSUME EndRecheck \/ Poll \/ EndHandshakes \/ EndRead \/ EndDrop \/ EndDispatch
                \/ EndExpire \/ NextFill \/ EndFill \/ EndLoop \/ Shutdown
                \/ PollFails \/ SyncFails
         PROVE  Goal
    BY <1>7, <1>11 DEF EndRecheck, Poll, EndHandshakes, EndRead, EndDrop, EndDispatch,
       EndExpire, NextFill, EndFill, EndLoop, Shutdown, PollFails, SyncFails
  <1>. QED
    BY <1>2, <1>3, <1>5, <1>6, <1>8, <1>9, <1>10, <1>11 DEF Next, Done

\* BanInv holds when the client starts.
LEMMA BanInit == Init => BanInv
  <1> SUFFICES ASSUME Init PROVE BanInv
    OBVIOUS
  <1>1. JoinsRecorded /\ EventsAttributed
    BY DEF Init, PeersInit, JoinsRecorded, EventsAttributed
  <1>2. SenderOnRecord /\ EvidenceAttributed
    BY DEF Init, SenderOnRecord, EvidenceAttributed
  <1>3. OnlyLiarsBanned /\ NoBannedConnection
    BY DEF Init, PeersInit, OnlyLiarsBanned, NoBannedConnection
  <1>. QED
    BY <1>1, <1>2, <1>3, BooksInit DEF BanInv

\* BanInv survives every step: its conjuncts are the lemmas above.
LEMMA BanStep == TypeOK /\ BanInv /\ [Next]_vars => BanInv'
  <1> SUFFICES ASSUME TypeOK, BanInv, [Next]_vars PROVE BanInv'
    OBVIOUS
  <1>1. /\ LoopInv /\ PieceInv /\ JoinsRecorded /\ EventsAttributed /\ SenderOnRecord
        /\ EvidenceAttributed
    BY DEF BanInv
  <1>2. JoinsRecorded' /\ \A c \in Ids : hosts[c] \in Hosts => hosts'[c] = hosts[c]
    BY <1>1, JoinsStep
  <1>3. LoopInv' /\ PieceInv'
    BY <1>1, LoopStep, PieceStep
  <1>4. EventsAttributed' /\ SenderOnRecord' /\ EvidenceAttributed'
    BY <1>1, <1>2, EventsStep, SenderStep, EvidenceStep
  <1>5. OnlyLiarsBanned' /\ NoBannedConnection'
    BY BannedStep
  <1>. QED
    BY <1>2, <1>3, <1>4, <1>5 DEF BanInv

\* Both the typing and BanInv hold in every reachable state.
LEMMA BanInvariant == Spec => [](TypeOK /\ BanInv)
  <1>1. Init => TypeOK /\ BanInv
    BY TypeInit, BanInit
  <1>2. TypeOK /\ BanInv /\ [Next]_vars => (TypeOK /\ BanInv)'
    BY TypeStep, BanStep
  <1>. QED
    BY <1>1, <1>2, PTL DEF Spec

\* Whatever the torrent, the peers and the order of messages, chokes, drops,
\* timeouts and verdicts, ban() is only ever called for a host that sent a
\* corrupt block.
THEOREM HonestHostsNeverBanned == Spec => []OnlyLiarsBanned
  <1>1. TypeOK /\ BanInv => OnlyLiarsBanned
    BY DEF BanInv
  <1>. QED
    BY <1>1, BanInvariant, PTL

\* A banned host never has an established connection: ban() closes them all and
\* promote() is not reached again for the host.
THEOREM BannedHostsGone == Spec => []NoBannedConnection
  <1>1. TypeOK /\ BanInv => NoBannedConnection
    BY DEF BanInv
  <1>. QED
    BY <1>1, BanInvariant, PTL

\* The host of every received block can be named, and a corrupt one is a liar's:
\* on_block() records the sender and no disconnection erases it.
THEOREM SendersOnRecord == Spec => []SenderOnRecord
  <1>1. TypeOK /\ BanInv => SenderOnRecord
    BY DEF BanInv
  <1>. QED
    BY <1>1, BanInvariant, PTL

\* Evidence always convicts: once the piece verifies, on_piece_verified() finds a
\* differing block whose sender has a host on record.
THEOREM EvidenceAlwaysConvicts == Spec => []EvidenceConvicts
  <1>1. ASSUME TypeOK, BanInv PROVE EvidenceConvicts
    <2> SUFFICES ASSUME NEW p \in evidence PROVE VerifiedBans(p) # {}
      BY DEF EvidenceConvicts
    <2>1. PICK b \in BlockIdx(p) : evidenceData[<<p, b>>] # "good"
      BY <1>1 DEF BanInv, EvidenceAttributed
    <2>2. b < Len(evidenceSenders[p]) /\ hosts[evidenceSenders[p][b + 1]] \in Hosts
      BY <1>1 DEF BanInv, EvidenceAttributed
    <2>3. hosts[evidenceSenders[p][b + 1]] \in VerifiedBans(p)
      BY <2>1, <2>2, SwarmAssumption DEF VerifiedBans
    <2>. QED
      BY <2>3
  <1>. QED
    BY <1>1, BanInvariant, PTL
====
