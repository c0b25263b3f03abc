------------------------------ MODULE PeerPool ------------------------------
(***************************************************************************)
(* How peers come and go in PeerManager                                    *)
(* (src/runtime/managers/peer_manager.cpp): the addresses waiting to be    *)
(* dialled, the sockets that are connecting, handshaking or established,   *)
(* the addresses already dealt with (known_), the banned hosts, the limits *)
(* that all of them share and the deadlines that free a slot.              *)
(*                                                                         *)
(* inbound_, outbound_ and conns_ each own their sockets and a promotion   *)
(* moves a socket from one to the other, so the three are kept as the role *)
(* of a socket.  What a handshake says is up to the peer.  One loop of     *)
(* Session::run() is the sequence of phases below.                         *)
(***************************************************************************)
EXTENDS Naturals, Sequences, FiniteSets

CONSTANTS
    Sockets,           \* the descriptors the process may have open
    Dialable,          \* addresses trackers and the command line hand us
    Calling,           \* addresses inbound connections come from
    Hosts,             \* the hosts
    HostOf,            \* the host of each address
    MaxPeers,          \* max_peers_
    MaxHalfOpen,       \* kMaxHalfOpen
    MaxCandidates,     \* kMaxCandidates
    ConnectTimeout,    \* kConnectTimeout, in ticks
    HandshakeTimeout,  \* kHandshakeTimeout, in ticks
    NoAddr             \* not an address

Addrs == Dialable \cup Calling

ASSUME PeerPoolAssumption ==
    /\ IsFiniteSet(Sockets)
    /\ HostOf \in [Addrs -> Hosts]
    /\ NoAddr \notin Addrs
    /\ MaxPeers \in Nat /\ MaxHalfOpen \in Nat /\ MaxCandidates \in Nat
    /\ ConnectTimeout \in Nat /\ HandshakeTimeout \in Nat

VARIABLES
    candidates,  \* candidates_
    known,       \* known_
    banned,      \* banned_
    sock,        \* the role of each socket, its peer, and the age of its wait
    ids,         \* ids_: the connections this round's poll() covers
    poolPhase    \* where run() is

poolVars == <<candidates, known, banned, sock, ids, poolPhase>>

Roles == {"closed", "inbound", "connecting", "handshaking", "accepted", "dialled"}
Phases == {"add", "dial", "poll", "inbound", "outbound", "conns", "expire", "accept",
           "refill", "dispatch"}

Socket(role, a) == [role |-> role, addr |-> a, age |-> 0]
Closed == Socket("closed", NoAddr)

WithRole(R) == {s \in Sockets : sock[s].role \in R}

Inbound == WithRole({"inbound"})
Outbound == WithRole({"connecting", "handshaking"})
Conns == WithRole({"accepted", "dialled"})
InUse == WithRole(Roles \ {"closed"})
Dialling == WithRole({"connecting", "handshaking", "dialled"})

Queued == {candidates[i] : i \in 1 .. Len(candidates)}
AddrsOf(S) == {sock[s].addr : s \in S}

\* Every variable holds a value of its type.
PoolTypeOK ==
    /\ candidates \in Seq(Dialable)
    /\ known \subseteq Addrs
    /\ banned \subseteq Hosts
    /\ sock \in [Sockets -> [role : Roles, addr : Addrs \cup {NoAddr}, age : Nat]]
    /\ \A s \in Sockets : sock[s].addr = NoAddr <=> sock[s].role = "closed"
    /\ ids \subseteq Sockets
    /\ poolPhase \in Phases

\* Session's constructor hands over the peers of the command line first.
PoolInit ==
    /\ candidates = <<>> /\ known = {} /\ banned = {}
    /\ sock = [s \in Sockets |-> Closed]
    /\ ids = {}
    /\ poolPhase = "add"

----------------------------------------------------------------------------
(* add_peers() and dial_more() *)

\* An address that is new, while there is room for it.
AddPeer(a) ==
    /\ poolPhase = "add"
    /\ Len(candidates) < MaxCandidates
    /\ a \notin known
    /\ known' = known \cup {a}
    /\ candidates' = Append(candidates, a)
    /\ UNCHANGED <<banned, sock, ids, poolPhase>>

EndAdd ==
    /\ poolPhase = "add"
    /\ poolPhase' = "dial"
    /\ UNCHANGED <<candidates, known, banned, sock, ids>>

\* Faulty variant: only what is established counts.
AtCapacityConns == Cardinality(Conns) >= MaxPeers

AtCapacity == Cardinality(InUse) >= MaxPeers

CanDial ==
    /\ candidates # <<>>
    /\ Cardinality(Outbound) < MaxHalfOpen
    /\ ~AtCapacity

\* start_dial() gets a socket and its connect() is under way.
Dial(s) ==
    /\ poolPhase \in {"dial", "refill"}
    /\ CanDial
    /\ HostOf[Head(candidates)] \notin banned
    /\ sock[s] = Closed
    /\ sock' = [sock EXCEPT ![s] = Socket("connecting", Head(candidates))]
    /\ candidates' = Tail(candidates)
    /\ UNCHANGED <<known, banned, ids, poolPhase>>

\* The host is banned, or start_dial() fails: a bad address, no socket, or a
\* connect() that is refused at once.
DialFails ==
    /\ poolPhase \in {"dial", "refill"}
    /\ CanDial
    /\ known' = known \ {Head(candidates)}
    /\ candidates' = Tail(candidates)
    /\ UNCHANGED <<banned, sock, ids, poolPhase>>

EndDial ==
    /\ poolPhase \in {"dial", "refill"}
    /\ ~CanDial
    /\ poolPhase' = IF poolPhase = "dial" THEN "poll" ELSE "dispatch"
    /\ UNCHANGED <<candidates, known, banned, sock, ids>>

----------------------------------------------------------------------------
(* handle_events() *)

\* Bound: ages beyond every deadline are not told apart.
MaxAge == (IF ConnectTimeout > HandshakeTimeout THEN ConnectTimeout ELSE HandshakeTimeout) + 1

\* build_fds() and poll(); d ticks pass.
Poll(d) ==
    /\ poolPhase = "poll"
    /\ sock' = [s \in Sockets |->
                   IF s \in Inbound \cup Outbound /\ sock[s].age < MaxAge
                   THEN [sock[s] EXCEPT !.age = @ + d] ELSE sock[s]]
    /\ ids' = Conns
    /\ poolPhase' = "inbound"
    /\ UNCHANGED <<candidates, known, banned>>

\* Faulty variant: a ban is not looked at again when the handshake is done.
VerifyHandshakeUnbanned(s) == TRUE

\* verify_handshake(); the bytes themselves are right or wrong as the peer likes.
VerifyHandshake(s) == HostOf[sock[s].addr] \notin banned

\* 1a: of the pending inbound sockets, those of P complete their handshake, those
\* of D fail it, and the others stay.
AdvanceInbound(P, D) ==
    /\ poolPhase = "inbound"
    /\ P \cup D \subseteq Inbound /\ P \cap D = {}
    /\ \A s \in P : VerifyHandshake(s)
    /\ sock' = [s \in Sockets |-> IF s \in P THEN Socket("accepted", sock[s].addr)
                                  ELSE IF s \in D THEN Closed ELSE sock[s]]
    /\ poolPhase' = "outbound"
    /\ UNCHANGED <<candidates, known, banned, ids>>

\* Faulty variant: whatever has left outbound_ is forgotten.
ForgottenAll(P, D) == AddrsOf(P \cup D)

\* The addresses that may be handed to us again.
Forgotten(P, D) == AddrsOf(D)

\* 1b: the sockets of C are connected, those of P complete their handshake, those
\* of D fail one or the other.
AdvanceOutbound(C, P, D) ==
    /\ poolPhase = "outbound"
    /\ C \subseteq WithRole({"connecting"}) /\ P \subseteq WithRole({"handshaking"})
    /\ D \subseteq Outbound \ (C \cup P)
    /\ \A s \in P : VerifyHandshake(s)
    /\ sock' = [s \in Sockets |-> IF s \in C THEN Socket("handshaking", sock[s].addr)
                                  ELSE IF s \in P THEN Socket("dialled", sock[s].addr)
                                  ELSE IF s \in D THEN Closed ELSE sock[s]]
    /\ known' = known \ Forgotten(P, D)
    /\ poolPhase' = "conns"
    /\ UNCHANGED <<candidates, banned, ids>>

\* drop() of the connections D.
Drop(D) ==
    /\ sock' = [s \in Sockets |-> IF s \in D THEN Closed ELSE sock[s]]
    /\ known' = known \ AddrsOf(D)

\* 2 and 3: connections that failed or fell silent are dropped.
DropPeers(D) ==
    /\ poolPhase = "conns"
    /\ D \subseteq ids
    /\ Drop(D)
    /\ ids' = {}
    /\ poolPhase' = "expire"
    /\ UNCHANGED <<candidates, banned>>

\* expire_inbound() asks for more than the timeout, expire_outbound() for as much.
Expired ==
    {s \in Inbound : sock[s].age > HandshakeTimeout}
        \cup {s \in WithRole({"connecting"}) : sock[s].age >= ConnectTimeout}
        \cup {s \in WithRole({"handshaking"}) : sock[s].age >= HandshakeTimeout}

\* Faulty variant: the address stays known.
ExpireKnown ==
    /\ poolPhase = "expire"
    /\ sock' = [s \in Sockets |-> IF s \in Expired THEN Closed ELSE sock[s]]
    /\ poolPhase' = "accept"
    /\ UNCHANGED <<candidates, known, banned, ids>>

\* Faulty variant: only a connect() has a deadline.
ExpireConnects ==
    /\ poolPhase = "expire"
    /\ LET gone == Expired \cap WithRole({"connecting"})
       IN  /\ sock' = [s \in Sockets |-> IF s \in gone THEN Closed ELSE sock[s]]
           /\ known' = known \ AddrsOf(gone)
    /\ poolPhase' = "accept"
    /\ UNCHANGED <<candidates, banned, ids>>

\* 5: deadlines.
ExpirePending ==
    /\ poolPhase = "expire"
    /\ sock' = [s \in Sockets |-> IF s \in Expired THEN Closed ELSE sock[s]]
    /\ known' = known \ AddrsOf(Expired \cap Outbound)
    /\ poolPhase' = "accept"
    /\ UNCHANGED <<candidates, banned, ids>>

\* 6: accept_new() takes a connection from a; one from a banned host or beyond the
\* capacity is closed at once.  TCP allows one connection between two addresses.
Accept(s, a) ==
    /\ poolPhase = "accept"
    /\ a \notin AddrsOf(WithRole({"inbound", "accepted"}))
    /\ ~AtCapacity
    /\ HostOf[a] \notin banned
    /\ sock[s] = Closed
    /\ sock' = [sock EXCEPT ![s] = Socket("inbound", a)]
    /\ UNCHANGED <<candidates, known, banned, ids, poolPhase>>

\* Faulty variant: slots freed in this loop are not refilled.
EndAcceptUnfilled ==
    /\ poolPhase = "accept"
    /\ poolPhase' = "dispatch"
    /\ UNCHANGED <<candidates, known, banned, sock, ids>>

\* 7 is dial_more().
EndAccept ==
    /\ poolPhase = "accept"
    /\ poolPhase' = "refill"
    /\ UNCHANGED <<candidates, known, banned, sock, ids>>

----------------------------------------------------------------------------
(* The rest of the loop *)

\* ban(), which a verdict may call for a host that is here or gone.
Ban(h) ==
    /\ poolPhase = "dispatch"
    /\ h \notin banned
    /\ banned' = banned \cup {h}
    /\ Drop({s \in Conns : HostOf[sock[s].addr] = h})
    /\ UNCHANGED <<candidates, ids, poolPhase>>

\* add_peers() is called when a tracker had peers for us.
EndDispatch(fresh) ==
    /\ poolPhase = "dispatch"
    /\ poolPhase' = IF fresh THEN "add" ELSE "poll"
    /\ UNCHANGED <<candidates, known, banned, sock, ids>>

PoolNext ==
    \/ \E a \in Dialable : AddPeer(a)
    \/ EndAdd
    \/ \E s \in Sockets : Dial(s)
    \/ DialFails
    \/ EndDial
    \/ \E d \in {0, 1} : Poll(d)
    \/ \E P \in SUBSET Inbound, D \in SUBSET Inbound : AdvanceInbound(P, D)
    \/ \E C \in SUBSET Outbound, P \in SUBSET Outbound, D \in SUBSET Outbound :
           AdvanceOutbound(C, P, D)
    \/ \E D \in SUBSET ids : DropPeers(D)
    \/ ExpirePending
    \/ \E s \in Sockets, a \in Calling : Accept(s, a)
    \/ EndAccept
    \/ \E h \in Hosts : Ban(h)
    \/ \E fresh \in BOOLEAN : EndDispatch(fresh)

\* The loop goes on, and the clock with it.
Fairness ==
    /\ WF_poolVars(PoolNext)
    /\ SF_poolVars(Poll(1))

PoolSpec == PoolInit /\ [][PoolNext]_poolVars

FairSpec == PoolSpec /\ Fairness

----------------------------------------------------------------------------
\* Connections, handshakes and dials together never pass max_peers_,
\* although each is checked in a place of its own and promotions are not checked at
\* all; dials under way stay within kMaxHalfOpen and waiting addresses within
\* kMaxCandidates.
WithinLimits ==
    /\ Cardinality(InUse) <= MaxPeers
    /\ Cardinality(Outbound) <= MaxHalfOpen
    /\ Len(candidates) <= MaxCandidates

\* drop() forgets an address "so it can be dialled again", and so does every other
\* way a dial can end: an address that is known, and so refused by add_peers(), is
\* waiting, being dialled or connected.
NoAddressBlocked == known \subseteq Queued \cup AddrsOf(Dialling)

\* catches "connections that were already mid-handshake when their host got banned"
\* (verify_handshake()): no host is connected once it is banned, by whatever way and
\* from whatever stage.
BannedNotConnected == \A s \in Conns : HostOf[sock[s].addr] \notin banned

\* No address is waiting twice, dialled twice or waiting while it is dialled or
\* connected, as long as no peer calls us from an address that we may dial.
DialledOnce ==
    /\ \A s \in Dialling, t \in Dialling : sock[s].addr = sock[t].addr => s = t
    /\ \A i \in 1 .. Len(candidates), j \in 1 .. Len(candidates) :
           candidates[i] = candidates[j] => i = j
    /\ Queued \cap AddrsOf(Dialling) = {}

\* The comment on known_: "host:port" queued, dialing or connected.  An address we
\* have queued, are dialling or have dialled is known.
KnownCoversDialled == Queued \cup AddrsOf(Dialling) \subseteq known

\* A socket that waits for a connect or a handshake is established or closed in the
\* end, however silent the peer: the slot it takes is not lost.
PendingEnds ==
    \A s \in Sockets : (s \in Inbound \cup Outbound) ~> (s \notin Inbound \cup Outbound)

\* Addresses wait for a slot, not for ever: unless those who stay connected and those
\* who call us keep every slot taken, each one leaves the queue.
CandidatesDialled ==
    <>[](Cardinality(Inbound \cup Conns) < MaxPeers)
        => \A a \in Dialable : [](a \in Queued => <>(a \notin Queued))
=============================================================================
