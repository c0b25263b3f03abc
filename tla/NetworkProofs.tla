--------------------------- MODULE NetworkProofs ----------------------------
(***************************************************************************)
(* Whom the client finds and whom it talks to: TrackerManager and          *)
(* PeerPool. The two share no state.                                       *)
(*                                                                         *)
(* TrackerManager's promises hold for any number of trackers, any timing   *)
(* constants, and a network that loses, delays, duplicates and reorders    *)
(* datagrams.  TrackerInv says the same of every tracker, and a step       *)
(* concerns one of them, or all alike, so it is stated as Sound of one     *)
(* tracker's session, datagrams and knowledge (SoundForm), and LocalStep   *)
(* reduces a step to the tracker it concerns.                              *)
(*                                                                         *)
(* PeerPool's hold for every set of sockets, addresses and hosts and every *)
(* limit.                                                                  *)
(***************************************************************************)
EXTENDS TrackerManager, PeerPool, FiniteSetTheorems, TLAPS

\* Zenon first, then SMT, with time for a slow machine.
USE ZenonT(6), SMTT(60), ZenonT(60)

----------------------------------------------------------------------------
(* Trackers *)

Sound(x, stop, rq, rp, h, s) ==
    /\ x.state \in {"Connecting", "Connected", "Announcing", "Idle"} => x.sock
    /\ x.state = "Resolving" => ~x.sock /\ x.lookup # "none"
    /\ x.state = "Stopped" => ~x.sock
    /\ stop => /\ x.state # "Idle"
               /\ x.state = "Announcing" => x.inFlight = "stopped"
               /\ x.reported = "nothing" => x.state = "Stopped"
    /\ x.reported \in {"started", "completed"} => "started" \in h
    /\ x.reported = "completed" => "completed" \in h
    /\ x.state = "Stopped" /\ x.reported # "nothing" => "stopped" \in h
    /\ \A m \in rq : m.fresh /\ m.kind = "announce" => m.event = x.inFlight
    /\ \A m \in rp : m.fresh /\ m.kind = "announce" => x.inFlight \in h
    /\ x.inFlight = "completed" => x.reported # "nothing"
    /\ ~stop => \/ s = ResponseTime
                \/ /\ x.state \in {"Connecting", "Announcing", "Disconnected"}
                   /\ x.wait + s >= ResponseTime

Typed(x, rq, rp, h, s) ==
    /\ x \in TrackerSession
    /\ rq \subseteq Request /\ rp \subseteq Reply /\ h \subseteq Events
    /\ s \in 0 .. ResponseTime

LoopTyped ==
    /\ downloadComplete \in BOOLEAN /\ stopping \in BOOLEAN
    /\ phase \in {"loop", "poll", "packets", "timers", "ended"}
    /\ todo \subseteq Trackers
    /\ deadline \in Nat

\* The invariant speaks of one tracker at a time.
LEMMA SoundForm ==
    TrackerInv <=> \A t \in Trackers :
                      Sound(tr[t], stopping, requests[t], replies[t], heard[t], silence[t])
  BY DEF TrackerInv, Sound, SocketOpenWhenUsed, OnlyStoppedInShutdown, ReportedIsHeard,
     AnnounceInFlight, WaitsOutSilence

\* So do the types.
LEMMA TypedParts ==
    ASSUME TypeOK
    PROVE  /\ LoopTyped
           /\ \A t \in Trackers :
                 Typed(tr[t], requests[t], replies[t], heard[t], silence[t])
  BY DEF TypeOK, LoopTyped, Typed

\* A step that concerns tracker t alone.
LEMMA LocalStep ==
    ASSUME TypeOK, TrackerInv, NEW t \in Trackers,
           NEW x, NEW rq, NEW rp, NEW h, NEW s,
           tr' = [tr EXCEPT ![t] = x],
           requests' = [requests EXCEPT ![t] = rq], replies' = [replies EXCEPT ![t] = rp],
           heard' = [heard EXCEPT ![t] = h], silence' = [silence EXCEPT ![t] = s],
           stopping' = stopping, LoopTyped',
           Typed(x, rq, rp, h, s), Sound(x, stopping, rq, rp, h, s)
    PROVE  TypeOK' /\ TrackerInv'
  <1>1. /\ tr \in [Trackers -> TrackerSession]
        /\ requests \in [Trackers -> SUBSET Request] /\ replies \in [Trackers -> SUBSET Reply]
        /\ heard \in [Trackers -> SUBSET Events] /\ silence \in [Trackers -> 0 .. ResponseTime]
    BY DEF TypeOK
  <1>2. TypeOK'
    BY <1>1 DEF TypeOK, LoopTyped, Typed
  <1>3. ASSUME NEW u \in Trackers
        PROVE  Sound(tr'[u], stopping, requests'[u], replies'[u], heard'[u], silence'[u])
    <2>1. CASE u = t
      BY <1>1, <2>1
    <2>2. CASE u # t
      BY <1>1, <2>2, SoundForm
    <2>. QED
      BY <2>1, <2>2
  <1>4. TrackerInv'
    BY <1>3 DEF TrackerInv, Sound, SocketOpenWhenUsed, OnlyStoppedInShutdown, ReportedIsHeard,
     AnnounceInFlight, WaitsOutSilence
  <1>. QED
    BY <1>2, <1>4

\* A product with a positive number is no smaller.
LEMMA ProductGrows ==
    ASSUME NEW a \in Nat, NEW b \in Nat \ {0}
    PROVE  a * b \in Nat /\ a * b >= a
  <1>1. PICK k \in Nat : b = k + 1
    <2>1. b - 1 \in Nat /\ b = (b - 1) + 1
      OBVIOUS
    <2>. QED
      BY <2>1
  <1>2. a * b = a * k + a /\ a * k \in Nat
    BY <1>1
  <1>. QED
    BY <1>2

\* Every timeout is at least the 15 s of the first.
LEMMA TimeoutLong ==
    ASSUME NEW n \in 0 .. MaxRetries
    PROVE  ResponseTimeout(n) \in Nat /\ ResponseTimeout(n) >= ResponseTime
  BY TrackerAssumption, BackoffAssumption, ProductGrows DEF ResponseTimeout

\* fail_backoff() and on_timeout() cap the retry count.
LEMMA BackoffFacts ==
    ASSUME NEW x \in TrackerSession
    PROVE  /\ FailBackoff(x) \in TrackerSession /\ FailBackoff(x).state = "Disconnected"
           /\ FailBackoff(x).wait >= ResponseTime
           /\ FailBackoff(x).inFlight = x.inFlight /\ FailBackoff(x).reported = x.reported
           /\ OnTimeout(x) \in TrackerSession /\ OnTimeout(x).state = "Disconnected"
           /\ OnTimeout(x).inFlight = x.inFlight /\ OnTimeout(x).reported = x.reported
  <1> DEFINE n == Least(x.retries + 1, MaxRetries)
  <1>1. n \in 0 .. MaxRetries
    BY TrackerAssumption DEF Least, TrackerSession
  <1>2. ResponseTimeout(n) \in Nat /\ ResponseTimeout(n) >= ResponseTime
    BY <1>1, TimeoutLong
  <1>3. PICK m \in 0 .. MaxRetries, w \in Nat, z \in Nat :
           /\ w >= ResponseTime
           /\ FailBackoff(x) = [x EXCEPT !.state = "Disconnected", !.retries = m, !.wait = w]
           /\ OnTimeout(x) = [x EXCEPT !.state = "Disconnected", !.retries = m, !.wait = z]
    BY <1>1, <1>2 DEF FailBackoff, OnTimeout
  <1>4. /\ FailBackoff(x) \in TrackerSession /\ FailBackoff(x).state = "Disconnected"
        /\ FailBackoff(x).wait = w
        /\ FailBackoff(x).inFlight = x.inFlight /\ FailBackoff(x).reported = x.reported
    BY <1>3 DEF TrackerSession
  <1>5. /\ OnTimeout(x) \in TrackerSession /\ OnTimeout(x).state = "Disconnected"
        /\ OnTimeout(x).inFlight = x.inFlight /\ OnTimeout(x).reported = x.reported
    BY <1>3 DEF TrackerSession
  <1>. QED
    BY <1>3, <1>4, <1>5

\* A session that backs off is sound, whatever failed.
LEMMA BackoffSound ==
    ASSUME NEW x \in TrackerSession, NEW z \in TrackerSession, x.state # "Stopped",
           z.inFlight = x.inFlight, z.reported = x.reported,
           NEW stop, NEW rq, NEW rp, NEW h, NEW s \in 0 .. ResponseTime,
           Sound(x, stop, rq, rp, h, s)
    PROVE  Sound(FailBackoff(z), stop, rq, rp, h, s)
  <1>1. /\ FailBackoff(z).state = "Disconnected" /\ FailBackoff(z).wait \in Nat
        /\ FailBackoff(z).wait >= ResponseTime
        /\ FailBackoff(z).inFlight = x.inFlight /\ FailBackoff(z).reported = x.reported
    BY BackoffFacts DEF TrackerSession
  <1>2. FailBackoff(z).wait + s >= ResponseTime
    BY <1>1, TrackerAssumption
  <1>. QED
    BY <1>1, <1>2 DEF Sound

\* The place in the loop keeps its type.
LEMMA TurnFacts ==
    ASSUME TypeOK, NEW t \in Trackers, Turn(t) \/ Readable(t)
    PROVE  LoopTyped' /\ stopping' = stopping
  BY DEF TypeOK, Turn, Readable, LoopTyped, sessionVars

\* Once outdated, a datagram counts no more.
LEMMA OutdatedFacts ==
    /\ \A R \in SUBSET Request : Outdated(R) \in SUBSET Request
    /\ \A R \in SUBSET Reply : Outdated(R) \in SUBSET Reply
    /\ \A R \in SUBSET Request : \A m \in Outdated(R) : ~m.fresh
    /\ \A R \in SUBSET Reply : \A m \in Outdated(R) : ~m.fresh
  <1>1. ASSUME NEW R \in SUBSET Request, NEW m \in Outdated(R)
        PROVE  m \in Request /\ ~m.fresh
    BY DEF Outdated, Request
  <1>2. ASSUME NEW R \in SUBSET Reply, NEW m \in Outdated(R)
        PROVE  m \in Reply /\ ~m.fresh
    BY DEF Outdated, Reply
  <1>. QED
    BY <1>1, <1>2

\* A step of tracker t that sends, receives and answers nothing.
LEMMA QuietStep ==
    ASSUME TypeOK, TrackerInv, NEW t \in Trackers, NEW x,
           tr' = [tr EXCEPT ![t] = x], UNCHANGED <<netVars, silence>>,
           stopping' = stopping, LoopTyped', x \in TrackerSession,
           Sound(x, stopping, requests[t], replies[t], heard[t], silence[t])
    PROVE  TypeOK' /\ TrackerInv'
  <1>1. /\ requests' = [requests EXCEPT ![t] = requests[t]]
        /\ replies' = [replies EXCEPT ![t] = replies[t]]
        /\ heard' = [heard EXCEPT ![t] = heard[t]]
        /\ silence' = [silence EXCEPT ![t] = silence[t]]
    BY DEF TypeOK, netVars
  <1>2. Typed(x, requests[t], replies[t], heard[t], silence[t])
    BY TypedParts DEF Typed
  <1>. QED
    BY <1>1, <1>2, LocalStep

\* Lookups, failures and deadlines change the session alone.
LEMMA QuietAdvance ==
    ASSUME TypeOK, TrackerInv, NEW t \in Trackers,
           \/ StartLookup(t) \/ SendConnectFails(t) \/ ResolveFails(t)
           \/ IdExpired(t) \/ Expire(t) \/ Rest(t)
    PROVE  TypeOK' /\ TrackerInv'
  <1> DEFINE x == tr[t]
             Held(y) == Sound(y, stopping, requests[t], replies[t], heard[t], silence[t])
  <1>1. Held(x) /\ x \in TrackerSession /\ silence[t] \in 0 .. ResponseTime
    BY SoundForm, TypedParts DEF Typed
  <1>2. ResponseTime \in Nat
    BY TrackerAssumption
  <1>3. Turn(t) /\ UNCHANGED <<netVars, silence>>
    BY DEF StartLookup, SendConnectFails, ResolveFails, IdExpired, Expire, Rest
  <1>4. LoopTyped' /\ stopping' = stopping
    BY <1>3, TurnFacts
  <1>5. SUFFICES ASSUME NEW y, tr' = [tr EXCEPT ![t] = y]
                 PROVE  y \in TrackerSession /\ Held(y)
    <2>1. \E y : tr' = [tr EXCEPT ![t] = y]
      BY DEF TypeOK, StartLookup, SendConnectFails, ResolveFails, IdExpired, Expire, Rest
    <2>. QED
      BY <2>1, <1>3, <1>4, <1>5, QuietStep
  <1>6. y = tr'[t]
    BY <1>5 DEF TypeOK
  <1>7. CASE StartLookup(t)
    <2>1. y = [x EXCEPT !.state = "Resolving", !.lookup = "running"] /\ ~x.sock
          /\ x.state = "Disconnected" /\ x.wait = 0
      BY <1>6, <1>7 DEF StartLookup, TypeOK
    <2> HIDE DEF x
    <2>2. y \in TrackerSession
      BY <2>1, <1>1 DEF TrackerSession
    <2>. QED
      BY <2>1, <2>2, <1>1, <1>2 DEF Sound, TrackerSession
  <1>8. CASE SendConnectFails(t)
    <2> DEFINE z == [[x EXCEPT !.lookup = "none"] EXCEPT !.sock = FALSE]
    <2>1. y = FailBackoff(z) /\ x.state \in {"Disconnected", "Resolving"}
      BY <1>6, <1>8 DEF SendConnectFails, ReadyToConnect, FailSend, TypeOK
    <2> HIDE DEF x
    <2>2. z \in TrackerSession /\ z.inFlight = x.inFlight /\ z.reported = x.reported
      BY <1>1 DEF TrackerSession
    <2> HIDE DEF z
    <2>. QED
      BY <2>1, <2>2, <1>1, BackoffFacts, BackoffSound
  <1>9. CASE ResolveFails(t)
    <2> DEFINE z == [x EXCEPT !.lookup = "none"]
    <2>1. y = FailBackoff(z) /\ x.state = "Resolving"
      BY <1>6, <1>9 DEF ResolveFails, TypeOK
    <2> HIDE DEF x
    <2>2. z \in TrackerSession /\ z.inFlight = x.inFlight /\ z.reported = x.reported
      BY <1>1 DEF TrackerSession
    <2> HIDE DEF z
    <2>. QED
      BY <2>1, <2>2, <1>1, BackoffFacts, BackoffSound
  <1>10. CASE IdExpired(t)
    <2>1. y = [x EXCEPT !.state = "Disconnected", !.wait = 0] /\ x.state = "Connected"
      BY <1>6, <1>10 DEF IdExpired, TypeOK
    <2> HIDE DEF x
    <2>2. y \in TrackerSession
      BY <2>1, <1>1 DEF TrackerSession
    <2>. QED
      BY <2>1, <2>2, <1>1, <1>2 DEF Sound, TrackerSession
  <1>11. CASE Expire(t) /\ x.state = "Idle"
    <2>1. y = [x EXCEPT !.state = "Disconnected"] /\ x.wait = 0
      BY <1>6, <1>11 DEF Expire, TypeOK
    <2> HIDE DEF x
    <2>2. y \in TrackerSession
      BY <2>1, <1>1 DEF TrackerSession
    <2>. QED
      BY <2>1, <2>2, <1>1, <1>2, <1>11 DEF Sound, TrackerSession
  <1>12. CASE Expire(t) /\ x.state # "Idle"
    <2>1. y = OnTimeout(x) /\ x.wait = 0 /\ x.state \in {"Connecting", "Announcing"}
      BY <1>6, <1>12 DEF Expire, TypeOK
    <2>2. /\ y \in TrackerSession /\ y.state = "Disconnected"
          /\ y.inFlight = x.inFlight /\ y.reported = x.reported
      BY <2>1, <1>1, BackoffFacts
    <2> HIDE DEF x
    <2>3. ~stopping => silence[t] = ResponseTime
      BY <2>1, <1>1, <1>2 DEF Sound
    <2>. QED
      BY <2>1, <2>2, <2>3, <1>1 DEF Sound
  <1>13. CASE Rest(t)
    BY <1>1, <1>6, <1>13 DEF Rest
  <1>. QED
    BY <1>7, <1>8, <1>9, <1>10, <1>11, <1>12, <1>13

\* Sending a connect request makes every datagram under way an old one.
LEMMA ConnectStep ==
    ASSUME TypeOK, TrackerInv, NEW t \in Trackers, SendConnect(t)
    PROVE  TypeOK' /\ TrackerInv'
  <1> DEFINE x == tr[t]
             y == [x EXCEPT !.state = "Connecting", !.sock = TRUE, !.lookup = "none",
                            !.age = 0, !.wait = ResponseTimeout(x.retries)]
             m == [kind |-> "connect", event |-> "none", fresh |-> TRUE]
             rq == Outdated(requests[t]) \cup {m}
             rp == Outdated(replies[t])
  <1>1. /\ Sound(x, stopping, requests[t], replies[t], heard[t], silence[t])
        /\ Typed(x, requests[t], replies[t], heard[t], silence[t])
    BY SoundForm, TypedParts
  <1>2. LoopTyped' /\ stopping' = stopping
    BY TurnFacts DEF SendConnect
  <1>3. /\ tr' = [tr EXCEPT ![t] = y] /\ x.state \in {"Disconnected", "Resolving"}
        /\ requests' = [requests EXCEPT ![t] = rq] /\ replies' = [replies EXCEPT ![t] = rp]
        /\ heard' = [heard EXCEPT ![t] = heard[t]] /\ silence' = [silence EXCEPT ![t] = 0]
    BY DEF SendConnect, ReadyToConnect, Transmit, TypeOK
  <1>4. /\ rq \subseteq Request /\ rp \subseteq Reply
        /\ \A r \in rq : r.fresh => r.kind = "connect"
        /\ \A r \in rp : ~r.fresh
    <2>1. m \in Request /\ m.kind = "connect"
      BY DEF Request, Events
    <2> HIDE DEF m
    <2>. QED
      BY <1>1, <2>1, OutdatedFacts DEF Typed
  <1> HIDE DEF rq, rp, x
  <1>5. /\ y \in TrackerSession /\ y.state = "Connecting" /\ y.sock /\ y.wait >= ResponseTime
        /\ y.inFlight = x.inFlight /\ y.reported = x.reported
    <2>1. PICK w \in Nat : w = ResponseTimeout(x.retries) /\ w >= ResponseTime
      BY <1>1, TimeoutLong DEF Typed, TrackerSession
    <2>2. PICK a \in 0 .. IdLifetime : a = 0
      BY TrackerAssumption
    <2>3. y = [x EXCEPT !.state = "Connecting", !.sock = TRUE, !.lookup = "none", !.age = a,
                        !.wait = w]
      BY <2>1, <2>2
    <2> HIDE DEF y
    <2>. QED
      BY <1>1, <2>1, <2>3 DEF Typed, TrackerSession
  <1> HIDE DEF y
  <1>6. Sound(y, stopping, rq, rp, heard[t], 0)
    BY <1>1, <1>3, <1>4, <1>5, TrackerAssumption DEF Sound, Typed, TrackerSession
  <1>7. Typed(y, rq, rp, heard[t], 0)
    BY <1>1, <1>4, <1>5, TrackerAssumption DEF Typed
  <1>. QED
    BY <1>2, <1>3, <1>6, <1>7, LocalStep

\* What is due is one of the events, and only a tracker that knows us is due
\* completed.
LEMMA PendingFacts ==
    ASSUME NEW x \in TrackerSession
    PROVE  /\ PendingEvent(x) \in Events
           /\ stopping => PendingEvent(x) = "stopped"
           /\ PendingEvent(x) = "completed" => x.reported # "nothing"
  BY DEF PendingEvent, Events

\* An announce is the only one whose reply counts from here on.
LEMMA AnnounceStep ==
    ASSUME TypeOK, TrackerInv, NEW t \in Trackers, SendAnnounce(t) \/ SendAnnounceFails(t)
    PROVE  TypeOK' /\ TrackerInv'
  <1> DEFINE x == tr[t]
             e == PendingEvent(x)
             m == [kind |-> "announce", event |-> e, fresh |-> TRUE]
             old == Outdated(requests[t])
             rp == Outdated(replies[t])
  <1>1. /\ Sound(x, stopping, requests[t], replies[t], heard[t], silence[t])
        /\ Typed(x, requests[t], replies[t], heard[t], silence[t])
    BY SoundForm, TypedParts
  <1>2. LoopTyped' /\ stopping' = stopping /\ x.state = "Connected"
    BY TurnFacts DEF SendAnnounce, SendAnnounceFails
  <1>3. e \in Events /\ (stopping => e = "stopped") /\ (e = "completed" => x.reported # "nothing")
    BY <1>1, PendingFacts DEF Typed
  <1>4. /\ old \subseteq Request /\ rp \subseteq Reply
        /\ \A r \in old : ~r.fresh
        /\ \A r \in rp : ~r.fresh
    BY <1>1, OutdatedFacts DEF Typed
  <1>5. CASE SendAnnounce(t)
    <2> DEFINE y == [x EXCEPT !.state = "Announcing", !.inFlight = e,
                              !.wait = ResponseTimeout(x.retries)]
               rq == old \cup {m}
    <2>1. /\ tr' = [tr EXCEPT ![t] = y]
          /\ requests' = [requests EXCEPT ![t] = rq] /\ replies' = [replies EXCEPT ![t] = rp]
          /\ heard' = [heard EXCEPT ![t] = heard[t]] /\ silence' = [silence EXCEPT ![t] = 0]
      BY <1>5 DEF SendAnnounce, Transmit, TypeOK
    <2> HIDE DEF x, e, old, rp
    <2>2. m \in Request /\ m.event = e
      BY <1>3 DEF Request
    <2> HIDE DEF m
    <2>3. rq \subseteq Request /\ \A r \in rq : r.fresh => r.event = e
      BY <1>4, <2>2
    <2> HIDE DEF rq
    <2>4. /\ y \in TrackerSession /\ y.state = "Announcing" /\ y.sock = x.sock
          /\ y.wait >= ResponseTime /\ y.inFlight = e /\ y.reported = x.reported
      <3>1. PICK w \in Nat : w = ResponseTimeout(x.retries) /\ w >= ResponseTime
        BY <1>1, TimeoutLong DEF Typed, TrackerSession
      <3>2. y = [x EXCEPT !.state = "Announcing", !.inFlight = e, !.wait = w]
        BY <3>1
      <3> HIDE DEF y
      <3>. QED
        BY <1>1, <1>3, <3>1, <3>2 DEF Typed, TrackerSession
    <2> HIDE DEF y
    <2>5. Sound(y, stopping, rq, rp, heard[t], 0)
      BY <1>1, <1>2, <1>3, <1>4, <2>3, <2>4, TrackerAssumption DEF Sound, Typed, TrackerSession
    <2>6. Typed(y, rq, rp, heard[t], 0)
      BY <1>1, <1>4, <2>3, <2>4, TrackerAssumption DEF Typed
    <2>. QED
      BY <1>2, <2>1, <2>5, <2>6, LocalStep
  <1>6. CASE SendAnnounceFails(t)
    <2> DEFINE z == [[x EXCEPT !.inFlight = e] EXCEPT !.sock = FALSE]
               y == FailBackoff(z)
    <2>1. /\ tr' = [tr EXCEPT ![t] = y]
          /\ requests' = [requests EXCEPT ![t] = old] /\ replies' = [replies EXCEPT ![t] = {}]
          /\ heard' = [heard EXCEPT ![t] = heard[t]]
          /\ silence' = [silence EXCEPT ![t] = silence[t]]
      BY <1>6 DEF SendAnnounceFails, FailSend, TypeOK
    <2> HIDE DEF x, e, old, rp
    <2>2. z \in TrackerSession /\ z.inFlight = e /\ z.reported = x.reported
      BY <1>1, <1>3 DEF Typed, TrackerSession
    <2> HIDE DEF z
    <2>3. /\ y \in TrackerSession /\ y.state = "Disconnected" /\ y.wait >= ResponseTime
          /\ y.inFlight = e /\ y.reported = x.reported /\ y.wait \in Nat
      BY <2>2, BackoffFacts DEF TrackerSession
    <2> HIDE DEF y
    <2>4. y.wait + silence[t] >= ResponseTime
      BY <1>1, <2>3, TrackerAssumption DEF Typed
    <2>5. Sound(y, stopping, old, {}, heard[t], silence[t])
      BY <1>1, <1>2, <1>3, <1>4, <2>3, <2>4 DEF Sound
    <2>6. Typed(y, old, {}, heard[t], silence[t])
      BY <1>1, <1>4, <2>3 DEF Typed
    <2>. QED
      BY <1>2, <2>1, <2>5, <2>6, LocalStep
  <1>. QED
    BY <1>5, <1>6

\* Only the reply to the request in flight changes anything, and it says what the
\* tracker has been told.
LEMMA ReceiveStep ==
    ASSUME TypeOK, TrackerInv, NEW t \in Trackers, Receive(t)
    PROVE  TypeOK' /\ TrackerInv'
  <1> DEFINE x == tr[t]
  <1>1. /\ Sound(x, stopping, requests[t], replies[t], heard[t], silence[t])
        /\ Typed(x, requests[t], replies[t], heard[t], silence[t])
    BY SoundForm, TypedParts
  <1>2. Readable(t) /\ LoopTyped' /\ stopping' = stopping
    <2>1. Readable(t)
      BY DEF Receive, RecvConnect, RecvAnnounce, RecvFails, Drain
    <2>. QED
      BY <2>1, TurnFacts
  <1>3. /\ requests' = [requests EXCEPT ![t] = requests[t]] /\ requests' = requests
        /\ heard' = [heard EXCEPT ![t] = heard[t]] /\ heard' = heard
        /\ tr = [tr EXCEPT ![t] = x] /\ replies = [replies EXCEPT ![t] = replies[t]]
        /\ silence = [silence EXCEPT ![t] = silence[t]]
    BY <1>2 DEF Readable, TypeOK
  <1>4. ResponseTime \in Nat /\ ResponseTime \in 0 .. ResponseTime
    BY TrackerAssumption
  <1>5. ASSUME NEW m \in replies[t], RecvConnect(t, m) PROVE TypeOK' /\ TrackerInv'
    <2>1. CASE ~(m.kind = "connect" /\ m.fresh)
      BY <1>1, <1>2, <1>3, <1>5, <2>1, QuietStep DEF RecvConnect, Typed, netVars
    <2>2. CASE m.kind = "connect" /\ m.fresh
      <3> DEFINE y == [x EXCEPT !.state = "Connected", !.age = 0, !.retries = 0]
      <3>1. /\ tr' = [tr EXCEPT ![t] = y] /\ replies' = [replies EXCEPT ![t] = replies[t]]
            /\ silence' = [silence EXCEPT ![t] = ResponseTime] /\ x.state = "Connecting"
        BY <1>3, <1>5, <2>2 DEF RecvConnect, Answered
      <3> HIDE DEF x
      <3>2. /\ y \in TrackerSession /\ y.state = "Connected" /\ y.sock = x.sock
            /\ y.inFlight = x.inFlight /\ y.reported = x.reported
        <4>1. PICK a \in 0 .. IdLifetime, n \in 0 .. MaxRetries : a = 0 /\ n = 0
          BY TrackerAssumption
        <4>2. y = [x EXCEPT !.state = "Connected", !.age = a, !.retries = n]
          BY <4>1
        <4> HIDE DEF y
        <4>. QED
          BY <1>1, <4>2 DEF Typed, TrackerSession
      <3> HIDE DEF y
      <3>3. Sound(y, stopping, requests[t], replies[t], heard[t], ResponseTime)
        BY <1>1, <3>1, <3>2 DEF Sound
      <3>4. Typed(y, requests[t], replies[t], heard[t], ResponseTime)
        BY <1>1, <1>4, <3>2 DEF Typed
      <3>. QED
        BY <1>2, <1>3, <3>1, <3>3, <3>4, LocalStep
    <2>. QED
      BY <2>1, <2>2
  <1>6. ASSUME NEW m \in replies[t], NEW interval \in ReplyIntervals, RecvAnnounce(t, m, interval)
        PROVE  TypeOK' /\ TrackerInv'
    <2> DEFINE y == Acknowledged(x, interval)
               rp == IF x.inFlight = "stopped" THEN {} ELSE replies[t]
    <2>1. /\ tr' = [tr EXCEPT ![t] = y] /\ replies' = [replies EXCEPT ![t] = rp]
          /\ silence' = [silence EXCEPT ![t] = ResponseTime] /\ x.state = "Announcing"
          /\ m.kind = "announce" /\ m.fresh
      BY <1>6 DEF RecvAnnounce, Answered, TypeOK
    <2> HIDE DEF x
    <2>2. x.inFlight \in heard[t] /\ x.reported \in {"nothing", "started", "completed"}
          /\ x \in TrackerSession
      BY <1>1, <2>1 DEF Sound, Typed, TrackerSession
    <2>3. CASE x.inFlight = "stopped"
      <3>1. y = [x EXCEPT !.state = "Stopped", !.sock = FALSE]
        BY <2>3 DEF Acknowledged
      <3> HIDE DEF y
      <3>2. /\ y \in TrackerSession /\ y.state = "Stopped" /\ ~y.sock
            /\ y.inFlight = x.inFlight /\ y.reported = x.reported
        BY <2>2, <3>1 DEF TrackerSession
      <3>3. Sound(y, stopping, requests[t], rp, heard[t], ResponseTime)
        BY <1>1, <2>2, <2>3, <3>2 DEF Sound
      <3>4. Typed(y, requests[t], rp, heard[t], ResponseTime)
        BY <1>1, <1>4, <3>2 DEF Typed
      <3>. QED
        BY <1>2, <1>3, <2>1, <3>3, <3>4, LocalStep
    <2>4. CASE x.inFlight # "stopped"
      <3>1. PICK w \in Nat, n \in 0 .. MaxRetries :
               y = [x EXCEPT !.state = "Idle", !.reported = ReportedAfter(x), !.retries = n,
                             !.wait = w]
        <4>1. IntervalOf(interval) \in Nat /\ 0 \in 0 .. MaxRetries
          BY TrackerAssumption DEF IntervalOf, Least
        <4>. QED
          BY <2>4, <4>1 DEF Acknowledged
      <3> DEFINE k == ReportedAfter(x)
      <3>2. /\ k \in {"nothing", "started", "completed"}
            /\ k \in {"started", "completed"} => "started" \in heard[t]
            /\ k = "completed" => "completed" \in heard[t]
            /\ x.inFlight = "completed" => k # "nothing"
        BY <1>1, <2>2 DEF ReportedAfter, Sound
      <3> HIDE DEF y, k
      <3>3. /\ y \in TrackerSession /\ y.state = "Idle" /\ y.sock = x.sock
            /\ y.inFlight = x.inFlight /\ y.reported = k
        BY <2>2, <3>1, <3>2 DEF TrackerSession, k
      <3>4. ~stopping
        BY <1>1, <2>1, <2>4 DEF Sound
      <3>5. Sound(y, stopping, requests[t], rp, heard[t], ResponseTime)
        BY <1>1, <2>1, <2>2, <3>2, <3>3, <3>4 DEF Sound
      <3>6. Typed(y, requests[t], rp, heard[t], ResponseTime)
        BY <1>1, <1>4, <3>3 DEF Typed
      <3>. QED
        BY <1>2, <1>3, <2>1, <3>5, <3>6, LocalStep
    <2>. QED
      BY <2>3, <2>4
  <1>7. ASSUME RecvFails(t) PROVE TypeOK' /\ TrackerInv'
    <2>1. /\ tr' = [tr EXCEPT ![t] = FailBackoff(x)] /\ UNCHANGED <<netVars, silence>>
          /\ x.state # "Stopped"
      BY <1>3, <1>7 DEF RecvFails, netVars
    <2> HIDE DEF x
    <2>2. /\ FailBackoff(x) \in TrackerSession
          /\ Sound(FailBackoff(x), stopping, requests[t], replies[t], heard[t], silence[t])
      BY <1>1, <2>1, BackoffFacts, BackoffSound DEF Typed
    <2>. QED
      BY <1>2, <2>1, <2>2, QuietStep
  <1>8. ASSUME Drain(t) PROVE TypeOK' /\ TrackerInv'
    <2>1. tr' = [tr EXCEPT ![t] = x] /\ replies' = [replies EXCEPT ![t] = {}]
          /\ silence' = [silence EXCEPT ![t] = silence[t]]
      BY <1>3, <1>8 DEF Drain
    <2> HIDE DEF x
    <2>2. /\ Sound(x, stopping, requests[t], {}, heard[t], silence[t])
          /\ Typed(x, requests[t], {}, heard[t], silence[t])
      BY <1>1 DEF Sound, Typed
    <2>3. /\ requests' = [requests EXCEPT ![t] = requests[t]]
          /\ heard' = [heard EXCEPT ![t] = heard[t]]
      BY <1>3
    <2>. QED
      BY <1>2, <2>1, <2>2, <2>3, LocalStep
  <1>. QED
    BY <1>5, <1>6, <1>7, <1>8 DEF Receive

\* The resolver thread and the trackers act on their own.
LEMMA OutsideStep ==
    ASSUME TypeOK, TrackerInv, NEW t \in Trackers,
           LookupDone(t) \/ \E m \in requests[t] : TrackerAnswers(t, m)
    PROVE  TypeOK' /\ TrackerInv'
  <1> DEFINE x == tr[t]
  <1>1. /\ Sound(x, stopping, requests[t], replies[t], heard[t], silence[t])
        /\ Typed(x, requests[t], replies[t], heard[t], silence[t])
    BY SoundForm, TypedParts
  <1>2. LoopTyped' /\ stopping' = stopping
    BY TypedParts DEF LoopTyped, LookupDone, TrackerAnswers, sessionVars, loopVars
  <1>3. ASSUME LookupDone(t) PROVE TypeOK' /\ TrackerInv'
    <2>1. PICK result \in {"ready", "failed"} :
             tr' = [tr EXCEPT ![t] = [x EXCEPT !.lookup = result]]
      BY <1>3 DEF LookupDone, TypeOK
    <2>2. UNCHANGED <<netVars, silence>>
      BY <1>3 DEF LookupDone
    <2> HIDE DEF x
    <2> DEFINE y == [x EXCEPT !.lookup = result]
    <2>3. /\ y \in TrackerSession /\ y.state = x.state /\ y.sock = x.sock /\ y.lookup = result
          /\ y.inFlight = x.inFlight /\ y.reported = x.reported /\ y.wait = x.wait
      BY <1>1 DEF Typed, TrackerSession
    <2>4. tr' = [tr EXCEPT ![t] = y]
      BY <2>1
    <2> HIDE DEF y
    <2>5. Sound(y, stopping, requests[t], replies[t], heard[t], silence[t])
      BY <1>1, <2>3 DEF Sound
    <2>. QED
      BY <1>2, <2>2, <2>3, <2>4, <2>5, QuietStep
  <1>4. ASSUME NEW m \in requests[t], TrackerAnswers(t, m) PROVE TypeOK' /\ TrackerInv'
    <2> DEFINE n == [kind |-> m.kind, fresh |-> m.fresh]
               rp == replies[t] \cup {n}
               h == IF m.kind = "announce" THEN heard[t] \cup {m.event} ELSE heard[t]
    <2>1. /\ tr' = [tr EXCEPT ![t] = x] /\ requests' = [requests EXCEPT ![t] = requests[t]]
          /\ replies' = [replies EXCEPT ![t] = rp] /\ heard' = [heard EXCEPT ![t] = h]
          /\ silence' = [silence EXCEPT ![t] = silence[t]]
      BY <1>4 DEF TrackerAnswers, TypeOK
    <2> HIDE DEF x
    <2>2. m \in Request
      BY <1>1 DEF Typed
    <2>3. n \in Reply /\ n.kind = m.kind /\ n.fresh = m.fresh /\ m.event \in Events
      BY <2>2 DEF Request, Reply
    <2> HIDE DEF n
    <2>4. Sound(x, stopping, requests[t], rp, h, silence[t])
      BY <1>1, <2>3 DEF Sound
    <2>5. Typed(x, requests[t], rp, h, silence[t])
      BY <1>1, <2>3 DEF Typed
    <2> HIDE DEF rp, h
    <2>. QED
      BY <1>2, <2>1, <2>4, <2>5, LocalStep
  <1>. QED
    BY <1>3, <1>4

\* A step that treats all trackers alike.
LEMMA CommonStep ==
    ASSUME TypeOK, LoopTyped', UNCHANGED netVars,
           tr' \in [Trackers -> TrackerSession],
           silence' \in [Trackers -> 0 .. ResponseTime],
           \A t \in Trackers :
               Sound(tr'[t], stopping', requests[t], replies[t], heard[t], silence'[t])
    PROVE  TypeOK' /\ TrackerInv'
  <1>1. TypeOK'
    BY DEF TypeOK, LoopTyped, netVars
  <1>2. TrackerInv'
    BY DEF TrackerInv, Sound, SocketOpenWhenUsed, OnlyStoppedInShutdown, ReportedIsHeard,
       AnnounceInFlight, WaitsOutSilence, netVars
  <1>. QED
    BY <1>1, <1>2

\* Time, completion and shutdown come to every tracker.
LEMMA ClockStep ==
    ASSUME TypeOK, TrackerInv, Elapse
    PROVE  TypeOK' /\ TrackerInv'
  <1>1. ASSUME NEW t \in Trackers
        PROVE  /\ tr'[t] \in TrackerSession /\ silence'[t] \in 0 .. ResponseTime
               /\ Sound(tr'[t], stopping, requests[t], replies[t], heard[t], silence'[t])
    <2> DEFINE x == tr[t]
    <2>1. /\ Sound(x, stopping, requests[t], replies[t], heard[t], silence[t])
          /\ Typed(x, requests[t], replies[t], heard[t], silence[t])
      BY SoundForm, TypedParts
    <2>2. PICK w \in Nat, a \in 0 .. IdLifetime :
             w = Less(x.wait) /\ tr'[t] = [x EXCEPT !.wait = w, !.age = a]
      <3>1. Less(x.wait) \in Nat /\ Least(x.age + 1, IdLifetime) \in 0 .. IdLifetime
        BY <2>1, TrackerAssumption DEF Typed, TrackerSession, Less, Least
      <3>. QED
        BY <3>1 DEF Elapse
    <2>3. silence'[t] = Least(silence[t] + 1, ResponseTime)
      BY DEF Elapse
    <2> HIDE DEF x
    <2>4. /\ tr'[t] \in TrackerSession /\ tr'[t].state = x.state /\ tr'[t].sock = x.sock
          /\ tr'[t].lookup = x.lookup /\ tr'[t].inFlight = x.inFlight
          /\ tr'[t].reported = x.reported /\ tr'[t].wait = w
      BY <2>1, <2>2 DEF Typed, TrackerSession
    <2>5. silence'[t] \in 0 .. ResponseTime
      BY <2>1, <2>3, TrackerAssumption DEF Typed, Least
    <2>6. x.wait \in Nat /\ silence[t] \in 0 .. ResponseTime /\ ResponseTime \in Nat
      BY <2>1, TrackerAssumption DEF Typed, TrackerSession
    <2>7. /\ silence[t] = ResponseTime => silence'[t] = ResponseTime
          /\ x.wait + silence[t] >= ResponseTime =>
                silence'[t] = ResponseTime \/ w + silence'[t] >= ResponseTime
      BY <2>2, <2>3, <2>6 DEF Less, Least
    <2>. QED
      BY <2>1, <2>4, <2>5, <2>7 DEF Sound
  <1>2. LoopTyped' /\ stopping' = stopping
    <2>1. Less(deadline) \in Nat
      BY DEF TypeOK, Less
    <2>. QED
      BY <2>1 DEF Elapse, TypeOK, LoopTyped, sessionVars
  <1>3. /\ tr' \in [Trackers -> TrackerSession]
        /\ silence' \in [Trackers -> 0 .. ResponseTime]
    BY <1>1 DEF Elapse
  <1>. QED
    BY <1>1, <1>2, <1>3, CommonStep DEF Elapse

\* on_download_complete() wakes the trackers that rest.
LEMMA CompleteStep ==
    ASSUME TypeOK, TrackerInv, OnDownloadComplete
    PROVE  TypeOK' /\ TrackerInv'
  <1>1. ASSUME NEW t \in Trackers
        PROVE  /\ tr'[t] \in TrackerSession
               /\ Sound(tr'[t], stopping, requests[t], replies[t], heard[t], silence[t])
    <2> DEFINE x == tr[t]
    <2>1. /\ Sound(x, stopping, requests[t], replies[t], heard[t], silence[t])
          /\ Typed(x, requests[t], replies[t], heard[t], silence[t])
      BY SoundForm, TypedParts
    <2>2. \/ tr'[t] = x
          \/ x.state = "Idle" /\ tr'[t] = [x EXCEPT !.wait = 0]
      BY DEF OnDownloadComplete
    <2> HIDE DEF x
    <2>3. CASE x.state = "Idle" /\ tr'[t] = [x EXCEPT !.wait = 0]
      <3>1. PICK w \in Nat : tr'[t] = [x EXCEPT !.wait = w]
        BY <2>3
      <3>2. /\ tr'[t] \in TrackerSession /\ tr'[t].state = "Idle" /\ tr'[t].sock = x.sock
            /\ tr'[t].lookup = x.lookup /\ tr'[t].inFlight = x.inFlight
            /\ tr'[t].reported = x.reported
        BY <2>1, <2>3, <3>1 DEF Typed, TrackerSession
      <3>. QED
        BY <2>1, <2>3, <3>2 DEF Sound
    <2>. QED
      BY <2>1, <2>2, <2>3 DEF Typed
  <1>2. LoopTyped' /\ stopping' = stopping
    BY DEF OnDownloadComplete, TypeOK, LoopTyped, loopVars
  <1>3. /\ tr' \in [Trackers -> TrackerSession] /\ silence' = silence
        /\ silence \in [Trackers -> 0 .. ResponseTime]
    BY <1>1 DEF OnDownloadComplete, TypeOK
  <1>. QED
    BY <1>1, <1>2, <1>3, CommonStep DEF OnDownloadComplete

\* begin_shutdown() leaves each tracker withdrawn, or with one announce to make.
LEMMA ShutdownStep ==
    ASSUME TypeOK, TrackerInv, BeginShutdown
    PROVE  TypeOK' /\ TrackerInv'
  <1>1. ASSUME NEW t \in Trackers
        PROVE  /\ tr'[t] \in TrackerSession
               /\ Sound(tr'[t], TRUE, requests[t], replies[t], heard[t], silence[t])
    <2> DEFINE x == tr[t]
    <2>1. /\ Sound(x, stopping, requests[t], replies[t], heard[t], silence[t])
          /\ Typed(x, requests[t], replies[t], heard[t], silence[t]) /\ ~stopping
      BY SoundForm, TypedParts DEF BeginShutdown
    <2>2. tr'[t] = Withdrawn(x)
      BY DEF BeginShutdown
    <2> HIDE DEF x
    <2>3. CASE x.reported = "nothing"
      <3>1. tr'[t] = [x EXCEPT !.state = "Stopped", !.sock = FALSE]
        BY <2>2, <2>3 DEF Withdrawn
      <3>2. /\ tr'[t] \in TrackerSession /\ tr'[t].state = "Stopped" /\ ~tr'[t].sock
            /\ tr'[t].inFlight = x.inFlight /\ tr'[t].reported = "nothing"
        BY <2>1, <2>3, <3>1 DEF Typed, TrackerSession
      <3>. QED
        BY <2>1, <2>3, <3>2 DEF Sound
    <2>4. CASE x.reported # "nothing" /\ x.state = "Disconnected"
      <3>1. PICK w \in Nat : tr'[t] = [x EXCEPT !.wait = w]
        BY <2>2, <2>4 DEF Withdrawn
      <3>2. /\ tr'[t] \in TrackerSession /\ tr'[t].state = x.state /\ tr'[t].sock = x.sock
            /\ tr'[t].inFlight = x.inFlight /\ tr'[t].reported = x.reported
        BY <2>1, <3>1 DEF Typed, TrackerSession
      <3>. QED
        BY <2>1, <2>4, <3>2 DEF Sound
    <2>5. CASE x.reported # "nothing" /\ x.state \in {"Idle", "Announcing"}
      <3>1. PICK w \in Nat : tr'[t] = [x EXCEPT !.state = "Connected", !.wait = w]
        BY <2>2, <2>5 DEF Withdrawn
      <3>2. /\ tr'[t] \in TrackerSession /\ tr'[t].state = "Connected" /\ tr'[t].sock = x.sock
            /\ tr'[t].inFlight = x.inFlight /\ tr'[t].reported = x.reported
        BY <2>1, <3>1 DEF Typed, TrackerSession
      <3>. QED
        BY <2>1, <2>5, <3>2 DEF Sound
    <2>6. CASE x.reported # "nothing" /\ x.state \notin {"Disconnected", "Idle", "Announcing"}
      <3>1. tr'[t] = x
        BY <2>2, <2>6 DEF Withdrawn
      <3>. QED
        BY <2>1, <2>6, <3>1 DEF Sound, Typed
    <2>. QED
      BY <2>3, <2>4, <2>5, <2>6
  <1>2. LoopTyped' /\ stopping' = TRUE
    BY TrackerAssumption DEF BeginShutdown, TypeOK, LoopTyped
  <1>3. /\ tr' \in [Trackers -> TrackerSession] /\ silence' = silence
        /\ silence \in [Trackers -> 0 .. ResponseTime]
    BY <1>1 DEF BeginShutdown, TypeOK
  <1>. QED
    BY <1>1, <1>2, <1>3, CommonStep DEF BeginShutdown

\* Nothing is in flight when the trackers are created.
LEMMA TrackerInit == Init => TypeOK /\ TrackerInv
  <1> SUFFICES ASSUME Init PROVE TypeOK /\ TrackerInv
    OBVIOUS
  <1> DEFINE x == [state |-> "Disconnected", sock |-> FALSE, lookup |-> "none", retries |-> 0,
                   inFlight |-> "none", reported |-> "nothing", wait |-> 0, age |-> IdLifetime]
  <1>1. x \in TrackerSession /\ ResponseTime \in 0 .. ResponseTime
    BY TrackerAssumption DEF TrackerSession, Events
  <1>2. /\ tr = [t \in Trackers |-> x] /\ \A t \in Trackers : tr[t] = x
        /\ x.state = "Disconnected" /\ x.reported = "nothing" /\ x.inFlight = "none"
    BY DEF Init
  <1> HIDE DEF x
  <1>3. TypeOK
    BY <1>1, <1>2 DEF Init, TypeOK
  <1>4. \A t \in Trackers :
           Sound(tr[t], stopping, requests[t], replies[t], heard[t], silence[t])
    BY <1>2 DEF Init, Sound
  <1>. QED
    BY <1>3, <1>4, SoundForm

\* TrackerInv is inductive.
LEMMA TrackerStep == TypeOK /\ TrackerInv /\ [Next]_vars => TypeOK' /\ TrackerInv'
  <1> SUFFICES ASSUME TypeOK, TrackerInv, [Next]_vars PROVE TypeOK' /\ TrackerInv'
    OBVIOUS
  <1>1. ASSUME LoopTop \/ PollReturns \/ PollFails \/ EndPackets \/ UNCHANGED vars
        PROVE  TypeOK' /\ TrackerInv'
    <2>1. /\ UNCHANGED <<tr, requests, replies, heard, silence, stopping, downloadComplete>>
          /\ deadline' = deadline
      BY <1>1 DEF LoopTop, PollReturns, PollFails, EndPackets, vars, netVars, sessionVars, loopVars
    <2>2. /\ phase' \in {"loop", "poll", "packets", "timers", "ended"}
          /\ todo' \subseteq Trackers
      BY <1>1 DEF LoopTop, PollReturns, PollFails, EndPackets, vars, loopVars, TypeOK
    <2>3. TypeOK'
      BY <2>1, <2>2 DEF TypeOK
    <2>4. TrackerInv'
      BY <2>1 DEF TrackerInv, SocketOpenWhenUsed, OnlyStoppedInShutdown, ReportedIsHeard,
         AnnounceInFlight, WaitsOutSilence
    <2>. QED
      BY <2>3, <2>4
  <1>2. ASSUME NEW t \in Trackers, Advance(t) PROVE TypeOK' /\ TrackerInv'
    BY <1>2, QuietAdvance, ConnectStep, AnnounceStep DEF Advance
  <1>. QED
    BY <1>1, <1>2, ClockStep, CompleteStep, ShutdownStep, ReceiveStep, OutsideStep DEF Next, Done

\* The types and the inductive invariant hold throughout.
LEMMA TrackerInvariant == Spec => [](TypeOK /\ TrackerInv)
  <1>1. TypeOK /\ TrackerInv /\ [Next]_vars => (TypeOK /\ TrackerInv)'
    BY TrackerStep
  <1>. QED
    BY <1>1, TrackerInit, PTL DEF Spec

\* The retry count stays within its cap and every deadline is a number, however
\* often trackers time out.
THEOREM TrackerTypeCorrect == Spec => []TypeOK
  <1>. QED
    BY TrackerInvariant, PTL

\* What recv_announce() credits a tracker with, it has been told.
THEOREM CreditIsEarned == Spec => []ReportedIsHeard
  <1>1. TypeOK /\ TrackerInv => ReportedIsHeard
    BY DEF TrackerInv
  <1>. QED
    BY <1>1, TrackerInvariant, PTL

\* No state of TrackerManager uses a closed socket or leaks one.
THEOREM SocketsMatchStates == Spec => []SocketOpenWhenUsed
  <1>1. TypeOK /\ TrackerInv => SocketOpenWhenUsed
    BY DEF TrackerInv
  <1>. QED
    BY <1>1, TrackerInvariant, PTL

\* begin_shutdown() leaves no announce but stopped to be waited for.
THEOREM ShutdownOnlyStops == Spec => []OnlyStoppedInShutdown
  <1>1. TypeOK /\ TrackerInv => OnlyStoppedInShutdown
    BY DEF TrackerInv
  <1>. QED
    BY <1>1, TrackerInvariant, PTL

\* A tracker that stays silent is left alone for 15 s after every request, whatever
\* the lookups, send errors and replies to older requests do in between.
THEOREM SilenceRespected == Spec => SilentTrackersLeftAlone
  <1>1. ASSUME TypeOK, TrackerInv, [Next]_vars, NEW t \in Trackers, Sent(t), ~stopping
        PROVE  silence[t] = ResponseTime
    <2>1. /\ Sound(tr[t], stopping, requests[t], replies[t], heard[t], silence[t])
          /\ tr[t] \in TrackerSession /\ silence[t] \in 0 .. ResponseTime
          /\ ResponseTime \in Nat
      BY <1>1, SoundForm, TypedParts, TrackerAssumption DEF Typed
    <2>2. SUFFICES \/ tr[t].state \in {"Resolving", "Connected", "Idle", "Stopped"}
                   \/ tr[t].wait = 0
      BY <1>1, <2>1, <2>2 DEF Sound
    <2>3. tr \in [Trackers -> TrackerSession] /\ tr'[t] # tr[t]
      BY <1>1 DEF TypeOK, Sent
    <2>4. ASSUME LoopTop \/ PollReturns \/ PollFails \/ EndPackets \/ Done \/ UNCHANGED vars
                 \/ \E u \in Trackers : \E m \in requests[u] : TrackerAnswers(u, m)
          PROVE  FALSE
      BY <2>3, <2>4 DEF LoopTop, PollReturns, PollFails, EndPackets, Done, TrackerAnswers, vars
    <2>5. ASSUME Elapse \/ OnDownloadComplete \/ BeginShutdown PROVE FALSE
      <3>1. CASE Elapse
        BY <1>1, <2>1, <3>1 DEF Elapse, Sent, TrackerSession
      <3>2. CASE OnDownloadComplete
        BY <1>1, <2>1, <3>2 DEF OnDownloadComplete, Sent, TrackerSession
      <3>3. CASE BeginShutdown
        <4>1. tr'[t] = Withdrawn(tr[t])
          BY <3>3 DEF BeginShutdown
        <4>2. tr'[t].state \in {"Stopped", "Connected", tr[t].state}
          BY <4>1, <2>1 DEF Withdrawn, TrackerSession
        <4>. QED
          BY <4>2, <1>1 DEF Sent
      <3>. QED
        BY <2>5, <3>1, <3>2, <3>3
    <2>6. ASSUME NEW u \in Trackers, Receive(u) \/ LookupDone(u)
          PROVE  FALSE
      <3>1. CASE u # t
        BY <2>3, <2>6, <3>1 DEF Receive, RecvConnect, RecvAnnounce, RecvFails, Drain, LookupDone
      <3>2. CASE u = t /\ LookupDone(u)
        BY <1>1, <2>1, <2>3, <3>2 DEF LookupDone, Sent, TrackerSession
      <3>3. CASE u = t /\ (RecvFails(u) \/ Drain(u))
        BY <1>1, <2>1, <2>3, <3>3, BackoffFacts DEF RecvFails, Drain, Sent
      <3>4. CASE u = t /\ \E m \in replies[u] : RecvConnect(u, m)
        <4>1. tr'[t] = [tr[t] EXCEPT !.state = "Connected", !.age = 0, !.retries = 0]
          BY <2>3, <3>4 DEF RecvConnect
        <4>2. tr'[t].state = "Connected"
          BY <2>1, <4>1 DEF TrackerSession
        <4>. QED
          BY <1>1, <4>2 DEF Sent
      <3>5. CASE u = t /\ \E m \in replies[u], i \in ReplyIntervals : RecvAnnounce(u, m, i)
        <4>1. PICK i \in ReplyIntervals : tr'[t] = Acknowledged(tr[t], i)
          BY <2>3, <3>5 DEF RecvAnnounce
        <4>2. tr'[t].state \in {"Stopped", "Idle"}
          BY <2>1, <4>1 DEF Acknowledged, TrackerSession
        <4>. QED
          BY <1>1, <4>2 DEF Sent
      <3>. QED
        BY <2>6, <3>1, <3>2, <3>3, <3>4, <3>5 DEF Receive
    <2>7. ASSUME NEW u \in Trackers, Advance(u)
          PROVE  tr[t].state \in {"Resolving", "Connected"} \/ tr[t].wait = 0
      <3>1. CASE u # t
        BY <2>3, <2>7, <3>1 DEF Advance, StartLookup, SendConnect, SendConnectFails, ResolveFails,
           IdExpired, SendAnnounce, SendAnnounceFails, Expire, Rest
      <3>2. CASE u = t
        BY <2>3, <2>7, <3>2 DEF Advance, StartLookup, SendConnect, SendConnectFails, ResolveFails,
           ReadyToConnect, IdExpired, SendAnnounce, SendAnnounceFails, Expire, Rest
      <3>. QED
        BY <3>1, <3>2
    <2>. QED
      BY <1>1, <2>4, <2>5, <2>6, <2>7 DEF Next
  <1>2. TypeOK /\ TrackerInv /\ [Next]_vars =>
          [\A t \in Trackers : Sent(t) /\ ~stopping => silence[t] = ResponseTime]_vars
    BY <1>1
  <1>. QED
    BY <1>2, TrackerInvariant, PTL DEF Spec, SilentTrackersLeftAlone

----------------------------------------------------------------------------
(* Connections *)

\* The values a socket's entry takes.
LEMMA SocketType ==
    /\ Closed \in [role : Roles, addr : Addrs \cup {NoAddr}, age : Nat]
    /\ \A r \in Roles \ {"closed"}, a \in Addrs :
           /\ Socket(r, a) \in [role : Roles, addr : Addrs \cup {NoAddr}, age : Nat]
           /\ Socket(r, a).role = r /\ Socket(r, a).addr = a /\ Socket(r, a).addr # NoAddr
    /\ Closed.role = "closed" /\ Closed.addr = NoAddr
  BY PeerPoolAssumption DEF Closed, Socket, Roles

\* The candidates are a sequence of addresses, and its parts are too.
LEMMA CandidatesType ==
    ASSUME PoolTypeOK, candidates # <<>>
    PROVE  /\ Head(candidates) \in Dialable
           /\ Tail(candidates) \in Seq(Dialable)
           /\ Len(Tail(candidates)) < Len(candidates)
           /\ Len(candidates) \in Nat
           /\ \A i \in 1 .. Len(Tail(candidates)) :
                  Tail(candidates)[i] = candidates[i + 1]
           /\ Head(candidates) = candidates[1]
           /\ Len(Tail(candidates)) = Len(candidates) - 1
  BY DEF PoolTypeOK

\* Who is not the first stays in the queue when the first leaves it.
LEMMA TailWaits ==
    ASSUME PoolTypeOK, candidates # <<>>, NEW i \in 1 .. Len(candidates),
           candidates[i] # Head(candidates)
    PROVE  /\ i - 1 \in 1 .. Len(Tail(candidates))
           /\ Tail(candidates)[i - 1] = candidates[i]
  <1>1. i # 1
    BY CandidatesType
  <1> QED BY <1>1, CandidatesType

\* Every variable keeps its type: in particular a closed socket has no peer and an
\* open one has, whatever list it is in.
THEOREM PoolTypeCorrect == PoolSpec => []PoolTypeOK
  <1>1. PoolInit => PoolTypeOK
    BY SocketType DEF PoolInit, PoolTypeOK, Phases
  <1>2. PoolTypeOK /\ [PoolNext]_poolVars => PoolTypeOK'
    <2> SUFFICES ASSUME PoolTypeOK, [PoolNext]_poolVars PROVE PoolTypeOK'
      OBVIOUS
    <2> USE SocketType
    <2>1. ASSUME NEW a \in Dialable, AddPeer(a) PROVE PoolTypeOK'
      BY <2>1 DEF AddPeer, PoolTypeOK, Addrs
    <2>2. CASE EndAdd
      BY <2>2 DEF EndAdd, PoolTypeOK, Phases
    <2>3. ASSUME NEW s \in Sockets, Dial(s) PROVE PoolTypeOK'
      <3>1. Head(candidates) \in Addrs /\ Tail(candidates) \in Seq(Dialable)
        BY <2>3, CandidatesType DEF Dial, CanDial, Addrs
      <3>2. "connecting" \in Roles \ {"closed"}
        BY DEF Roles
      <3> QED BY <2>3, <3>1, <3>2 DEF Dial, PoolTypeOK
    <2>4. CASE DialFails
      BY <2>4, CandidatesType DEF DialFails, CanDial, PoolTypeOK
    <2>5. CASE EndDial
      BY <2>5 DEF EndDial, PoolTypeOK, Phases
    <2>6. ASSUME NEW d \in {0, 1}, Poll(d) PROVE PoolTypeOK'
      BY <2>6 DEF Poll, PoolTypeOK, Phases, Conns, WithRole
    <2>7. ASSUME NEW P \in SUBSET Inbound, NEW D \in SUBSET Inbound, AdvanceInbound(P, D)
          PROVE PoolTypeOK'
      <3>1. \A s \in P : sock[s].addr \in Addrs
        BY DEF PoolTypeOK, Inbound, WithRole
      <3> QED BY <2>7, <3>1 DEF AdvanceInbound, PoolTypeOK, Phases, Roles
    <2>8. ASSUME NEW C \in SUBSET Outbound, NEW P \in SUBSET Outbound,
                 NEW D \in SUBSET Outbound, AdvanceOutbound(C, P, D)
          PROVE PoolTypeOK'
      <3>1. \A s \in C \cup P : sock[s].addr \in Addrs
        BY DEF PoolTypeOK, Outbound, WithRole
      <3> QED BY <2>8, <3>1 DEF AdvanceOutbound, PoolTypeOK, Phases, Roles
    <2>9. ASSUME NEW D \in SUBSET ids, DropPeers(D) PROVE PoolTypeOK'
      BY <2>9 DEF DropPeers, Drop, PoolTypeOK, Phases
    <2>10. CASE ExpirePending
      BY <2>10 DEF ExpirePending, PoolTypeOK, Phases
    <2>11. ASSUME NEW s \in Sockets, NEW a \in Calling, Accept(s, a) PROVE PoolTypeOK'
      <3>1. a \in Addrs /\ "inbound" \in Roles \ {"closed"}
        BY DEF Addrs, Roles
      <3> QED BY <2>11, <3>1 DEF Accept, PoolTypeOK
    <2>12. CASE EndAccept
      BY <2>12 DEF EndAccept, PoolTypeOK, Phases
    <2>13. ASSUME NEW h \in Hosts, Ban(h) PROVE PoolTypeOK'
      BY <2>13 DEF Ban, Drop, PoolTypeOK
    <2>14. ASSUME NEW fresh \in BOOLEAN, EndDispatch(fresh) PROVE PoolTypeOK'
      BY <2>14 DEF EndDispatch, PoolTypeOK, Phases
    <2>15. CASE UNCHANGED poolVars
      BY <2>15 DEF poolVars, PoolTypeOK
    <2> QED BY <2>1, <2>2, <2>3, <2>4, <2>5, <2>6, <2>7, <2>8, <2>9, <2>10, <2>11, <2>12,
               <2>13, <2>14, <2>15 DEF PoolNext
  <1> QED BY <1>1, <1>2, PTL DEF PoolSpec

\* A host that is banned has no connection and gets none, for every way a handshake
\* under way can end after the ban (verify_handshake(), accept_new(), ban()).
THEOREM BannedStayOut == PoolSpec => []BannedNotConnected
  <1>1. PoolInit => BannedNotConnected
    BY DEF PoolInit, BannedNotConnected
  <1>2. PoolTypeOK /\ BannedNotConnected /\ [PoolNext]_poolVars => BannedNotConnected'
    <2> SUFFICES ASSUME PoolTypeOK, BannedNotConnected, [PoolNext]_poolVars PROVE BannedNotConnected'
      OBVIOUS
    <2> USE SocketType DEF BannedNotConnected, Conns, WithRole
    <2>1. CASE \/ \E a \in Dialable : AddPeer(a)
               \/ EndAdd \/ DialFails \/ EndDial \/ EndAccept
               \/ \E fresh \in BOOLEAN : EndDispatch(fresh)
               \/ UNCHANGED poolVars
      BY <2>1 DEF AddPeer, EndAdd, DialFails, EndDial, EndAccept, EndDispatch, poolVars
    <2>2. ASSUME NEW s \in Sockets, Dial(s) PROVE BannedNotConnected'
      <3>1. sock'[s].role = "connecting"
        BY <2>2 DEF Dial, PoolTypeOK, Socket
      <3> QED BY <2>2, <3>1 DEF Dial, PoolTypeOK
    <2>3. ASSUME NEW d \in {0, 1}, Poll(d) PROVE BannedNotConnected'
      BY <2>3 DEF Poll, PoolTypeOK
    <2>4. ASSUME NEW P \in SUBSET Inbound, NEW D \in SUBSET Inbound, AdvanceInbound(P, D)
          PROVE BannedNotConnected'
      <3>1. \A s \in P : Socket("accepted", sock[s].addr).addr = sock[s].addr
        BY DEF Socket
      <3> QED BY <2>4, <3>1 DEF AdvanceInbound, VerifyHandshake, PoolTypeOK
    <2>5. ASSUME NEW C \in SUBSET Outbound, NEW P \in SUBSET Outbound,
                 NEW D \in SUBSET Outbound, AdvanceOutbound(C, P, D)
          PROVE BannedNotConnected'
      <3>1. \A s \in P : Socket("dialled", sock[s].addr).addr = sock[s].addr
        BY DEF Socket
      <3>2. \A s \in C : Socket("handshaking", sock[s].addr).role = "handshaking"
        BY DEF Socket
      <3> QED BY <2>5, <3>1, <3>2 DEF AdvanceOutbound, VerifyHandshake, PoolTypeOK
    <2>6. ASSUME NEW D \in SUBSET ids, DropPeers(D) PROVE BannedNotConnected'
      BY <2>6 DEF DropPeers, Drop, PoolTypeOK
    <2>7. CASE ExpirePending
      BY <2>7 DEF ExpirePending, PoolTypeOK
    <2>8. ASSUME NEW s \in Sockets, NEW a \in Calling, Accept(s, a)
          PROVE BannedNotConnected'
      <3>1. sock'[s].role = "inbound"
        BY <2>8 DEF Accept, PoolTypeOK, Socket
      <3> QED BY <2>8, <3>1 DEF Accept, PoolTypeOK
    <2>9. ASSUME NEW h \in Hosts, Ban(h) PROVE BannedNotConnected'
      BY <2>9 DEF Ban, Drop, PoolTypeOK
    <2> QED BY <2>1, <2>2, <2>3, <2>4, <2>5, <2>6, <2>7, <2>8, <2>9 DEF PoolNext
  <1> QED BY <1>1, <1>2, PoolTypeCorrect, PTL DEF PoolSpec

\* An address that add_peers() refuses as known is waiting, dialled or connected:
\* every way a dial, a handshake or a connection ends takes it out of known_.
THEOREM AddressesComeFree == PoolSpec => []NoAddressBlocked
  <1>1. PoolInit => NoAddressBlocked
    BY DEF PoolInit, NoAddressBlocked
  <1>2. PoolTypeOK /\ NoAddressBlocked /\ [PoolNext]_poolVars => NoAddressBlocked'
    <2> SUFFICES ASSUME PoolTypeOK, NoAddressBlocked, [PoolNext]_poolVars,
                        NEW a \in known', a \notin AddrsOf(Dialling)'
                 PROVE  a \in Queued'
      BY DEF NoAddressBlocked
    <2> USE SocketType DEF Dialling, WithRole, AddrsOf
    <2> DEFINE Waiting(q) == \E i \in 1 .. Len(q) : q[i] = a
    <2>0. a \in known => Waiting(candidates) \/ a \in AddrsOf(Dialling)
      BY DEF NoAddressBlocked, Queued
    <2>a. (Waiting(candidates))' => a \in Queued'
      BY DEF Queued
    <2>b. SUFFICES (Waiting(candidates))'
      BY <2>a
    <2>1. ASSUME NEW b \in Dialable, AddPeer(b) PROVE (Waiting(candidates))'
      <3>1. a \notin AddrsOf(Dialling)
        BY <2>1 DEF AddPeer
      <3>2. /\ Len(candidates') = Len(candidates) + 1
            /\ candidates'[Len(candidates) + 1] = b
            /\ \A i \in 1 .. Len(candidates) : candidates'[i] = candidates[i]
            /\ Len(candidates) \in Nat
        BY <2>1 DEF AddPeer, PoolTypeOK
      <3>3. CASE a = b
        BY <3>2, <3>3
      <3>4. CASE a # b
        <4>1. Waiting(candidates)
          BY <2>0, <2>1, <3>1, <3>4 DEF AddPeer
        <4> QED BY <3>2, <4>1
      <3> QED BY <3>3, <3>4
    <2>2. CASE \/ EndAdd \/ EndDial \/ EndAccept
               \/ \E fresh \in BOOLEAN : EndDispatch(fresh)
               \/ UNCHANGED poolVars
      BY <2>0, <2>2 DEF EndAdd, EndDial, EndAccept, EndDispatch, poolVars
    <2>3. ASSUME NEW s \in Sockets, Dial(s) PROVE (Waiting(candidates))'
      <3>1. sock' = [sock EXCEPT ![s] = Socket("connecting", Head(candidates))]
            /\ sock[s] = Closed /\ candidates # <<>> /\ candidates' = Tail(candidates)
            /\ known' = known
        BY <2>3 DEF Dial, CanDial
      <3>2. sock'[s].role = "connecting" /\ sock'[s].addr = Head(candidates)
        BY <3>1 DEF PoolTypeOK, Socket
      <3>3. a # Head(candidates)
        BY <3>2
      <3>4. a \notin AddrsOf(Dialling)
        BY <3>1 DEF PoolTypeOK
      <3>5. PICK i \in 1 .. Len(candidates) : candidates[i] = a
        BY <2>0, <3>1, <3>4
      <3> QED BY <3>1, <3>3, <3>5, TailWaits
    <2>4. CASE DialFails
      <3>1. candidates # <<>> /\ candidates' = Tail(candidates) /\ sock' = sock
            /\ known' = known \ {Head(candidates)}
        BY <2>4 DEF DialFails, CanDial
      <3>2. PICK i \in 1 .. Len(candidates) : candidates[i] = a
        BY <2>0, <3>1
      <3> QED BY <3>1, <3>2, TailWaits
    <2>5. ASSUME NEW d \in {0, 1}, Poll(d) PROVE (Waiting(candidates))'
      <3>1. \A s \in Sockets : sock'[s].role = sock[s].role /\ sock'[s].addr = sock[s].addr
        BY <2>5 DEF Poll, PoolTypeOK
      <3> QED BY <2>0, <2>5, <3>1 DEF Poll
    <2>6. ASSUME NEW P \in SUBSET Inbound, NEW D \in SUBSET Inbound, AdvanceInbound(P, D)
          PROVE (Waiting(candidates))'
      <3>1. \A s \in Dialling : sock'[s] = sock[s]
        BY <2>6 DEF AdvanceInbound, Inbound
      <3> QED BY <2>0, <2>6, <3>1 DEF AdvanceInbound
    <2>7. ASSUME NEW C \in SUBSET Outbound, NEW P \in SUBSET Outbound,
                 NEW D \in SUBSET Outbound, AdvanceOutbound(C, P, D)
          PROVE (Waiting(candidates))'
      <3>1. \A s \in Dialling \ D : /\ sock'[s].addr = sock[s].addr
                                    /\ s \in Dialling'
        BY <2>7 DEF AdvanceOutbound, Socket, PoolTypeOK
      <3> QED BY <2>0, <2>7, <3>1 DEF AdvanceOutbound, Forgotten
    <2>8. ASSUME NEW D \in SUBSET Sockets, Drop(D), UNCHANGED candidates
          PROVE (Waiting(candidates))'
      BY <2>0, <2>8 DEF Drop
    <2>9. ASSUME NEW D \in SUBSET ids, DropPeers(D) PROVE (Waiting(candidates))'
      BY <2>8, <2>9 DEF DropPeers, PoolTypeOK
    <2>10. CASE ExpirePending
      <3>1. \A s \in Dialling \ (Expired \cap Outbound) : sock'[s] = sock[s]
        BY <2>10 DEF ExpirePending, Expired, Inbound, Outbound
      <3> QED BY <2>0, <2>10, <3>1 DEF ExpirePending
    <2>11. ASSUME NEW s \in Sockets, NEW b \in Calling, Accept(s, b)
           PROVE (Waiting(candidates))'
      <3>1. \A t \in Dialling : sock'[t] = sock[t]
        BY <2>11 DEF Accept, PoolTypeOK
      <3> QED BY <2>0, <2>11, <3>1 DEF Accept
    <2>12. ASSUME NEW h \in Hosts, Ban(h) PROVE (Waiting(candidates))'
      BY <2>8, <2>12 DEF Ban, Conns
    <2> QED BY <2>1, <2>2, <2>3, <2>4, <2>5, <2>6, <2>7, <2>9, <2>10, <2>11, <2>12 DEF PoolNext
  <1> QED BY <1>1, <1>2, PoolTypeCorrect, PTL DEF PoolSpec

\* Sets of sockets have a size.
LEMMA SizesOfSockets ==
    /\ IsFiniteSet(InUse) /\ IsFiniteSet(Outbound)
    /\ Cardinality(InUse) \in Nat /\ Cardinality(Outbound) \in Nat
  <1>1. IsFiniteSet(InUse) /\ IsFiniteSet(Outbound)
    BY PeerPoolAssumption, FS_Subset DEF InUse, Outbound, WithRole
  <1> QED BY <1>1, FS_CardinalityType

\* Closing sockets, and moving them from one list to the next, frees room.
LEMMA RoomAfterMoves ==
    ASSUME PoolTypeOK, PoolTypeOK', WithinLimits, InUse' \subseteq InUse, Outbound' \subseteq Outbound,
           Len(candidates') <= Len(candidates)
    PROVE  WithinLimits'
  <1>1. /\ Cardinality(InUse') <= Cardinality(InUse) /\ Cardinality(InUse') \in Nat
        /\ Cardinality(Outbound') <= Cardinality(Outbound) /\ Cardinality(Outbound') \in Nat
    BY SizesOfSockets, FS_Subset, FS_CardinalityType
  <1>2. Len(candidates) \in Nat /\ Len(candidates') \in Nat
    BY DEF PoolTypeOK
  <1> QED BY <1>1, <1>2, SizesOfSockets, PeerPoolAssumption DEF WithinLimits

\* A socket's role after a step that gives it the value v.
LEMMA RoleOfNew ==
    ASSUME PoolTypeOK, NEW s \in Sockets, NEW v, sock' = [sock EXCEPT ![s] = v],
           v.role \in Roles \ {"closed"}, sock[s] = Closed
    PROVE  /\ InUse' = InUse \cup {s} /\ s \notin InUse
           /\ v.role \in {"connecting", "handshaking"} => Outbound' = Outbound \cup {s}
           /\ v.role \notin {"connecting", "handshaking"} => Outbound' = Outbound
           /\ s \notin Outbound
  <1>1. sock'[s] = v /\ \A t \in Sockets \ {s} : sock'[t] = sock[t]
    BY DEF PoolTypeOK
  <1>2. sock[s].role = "closed"
    BY SocketType
  <1>3. InUse' = InUse \cup {s} /\ s \notin InUse
    BY <1>1, <1>2 DEF InUse, WithRole
  <1>4. s \notin Outbound
    BY <1>2 DEF Outbound, WithRole
  <1>5. ASSUME v.role \in {"connecting", "handshaking"} PROVE Outbound' = Outbound \cup {s}
    BY <1>1, <1>5 DEF Outbound, WithRole
  <1>6. ASSUME v.role \notin {"connecting", "handshaking"} PROVE Outbound' = Outbound
    BY <1>1, <1>2, <1>6 DEF Outbound, WithRole
  <1> QED BY <1>3, <1>4, <1>5, <1>6

\* Established connections, pending handshakes and dials together stay within
\* max_peers_, dials within kMaxHalfOpen and waiting addresses within kMaxCandidates:
\* the checks of accept_new(), dial_more() and add_peers() are enough although
\* promote() makes none.
THEOREM LimitsHold == PoolSpec => []WithinLimits
  <1>1. PoolInit => WithinLimits
    <2> SUFFICES ASSUME PoolInit PROVE WithinLimits
      OBVIOUS
    <2>1. InUse = {} /\ Outbound = {}
      BY SocketType DEF PoolInit, InUse, Outbound, WithRole
    <2> QED BY <2>1, FS_EmptySet, PeerPoolAssumption DEF PoolInit, WithinLimits
  <1>2. PoolTypeOK /\ PoolTypeOK' /\ WithinLimits /\ [PoolNext]_poolVars => WithinLimits'
    <2> SUFFICES ASSUME PoolTypeOK, PoolTypeOK', WithinLimits, [PoolNext]_poolVars PROVE WithinLimits'
      OBVIOUS
    <2>a. Len(candidates) \in Nat
      BY DEF PoolTypeOK
    <2>b. ASSUME sock' = sock, Len(candidates') <= Len(candidates) PROVE WithinLimits'
      <3>1. InUse' = InUse /\ Outbound' = Outbound
        BY <2>b DEF InUse, Outbound, WithRole
      <3> QED BY <2>b, <3>1, RoomAfterMoves
    <2>c. ASSUME NEW D \in SUBSET Sockets, UNCHANGED candidates,
                 sock' = [s \in Sockets |-> IF s \in D THEN Closed ELSE sock[s]]
          PROVE WithinLimits'
      <3>1. InUse' \subseteq InUse /\ Outbound' \subseteq Outbound
        BY <2>c, SocketType DEF InUse, Outbound, WithRole
      <3> QED BY <2>a, <2>c, <3>1, RoomAfterMoves
    <2>1. ASSUME NEW a \in Dialable, AddPeer(a) PROVE WithinLimits'
      <3>1. Len(candidates') = Len(candidates) + 1 /\ Len(candidates) < MaxCandidates
        BY <2>1 DEF AddPeer, PoolTypeOK
      <3>2. InUse' = InUse /\ Outbound' = Outbound
        BY <2>1 DEF AddPeer, InUse, Outbound, WithRole
      <3> QED BY <2>a, <3>1, <3>2, PeerPoolAssumption DEF WithinLimits
    <2>2. CASE \/ EndAdd \/ EndDial \/ EndAccept
               \/ \E fresh \in BOOLEAN : EndDispatch(fresh)
               \/ UNCHANGED poolVars
      BY <2>2, <2>a, <2>b DEF EndAdd, EndDial, EndAccept, EndDispatch, poolVars
    <2>3. ASSUME NEW s \in Sockets, Dial(s) PROVE WithinLimits'
      <3> DEFINE v == Socket("connecting", Head(candidates))
      <3>1. /\ sock' = [sock EXCEPT ![s] = v] /\ sock[s] = Closed /\ candidates # <<>>
            /\ candidates' = Tail(candidates)
            /\ Cardinality(Outbound) < MaxHalfOpen /\ ~(Cardinality(InUse) >= MaxPeers)
        BY <2>3 DEF Dial, CanDial, AtCapacity
      <3>2. v.role = "connecting" /\ v.role \in Roles \ {"closed"}
        BY DEF Socket, Roles
      <3>3. /\ InUse' = InUse \cup {s} /\ s \notin InUse
            /\ Outbound' = Outbound \cup {s} /\ s \notin Outbound
        BY <3>1, <3>2, RoleOfNew
      <3>4. /\ Cardinality(InUse') = Cardinality(InUse) + 1
            /\ Cardinality(Outbound') = Cardinality(Outbound) + 1
        BY <3>3, SizesOfSockets, FS_AddElement
      <3>5. Len(candidates') <= Len(candidates) /\ Len(candidates') \in Nat
        BY <3>1, CandidatesType
      <3> QED BY <3>1, <3>4, <3>5, <2>a, SizesOfSockets, PeerPoolAssumption DEF WithinLimits
    <2>4. CASE DialFails
      <3>1. candidates # <<>> /\ candidates' = Tail(candidates) /\ sock' = sock
        BY <2>4 DEF DialFails, CanDial
      <3> QED BY <3>1, <2>b, CandidatesType
    <2>5. ASSUME NEW d \in {0, 1}, Poll(d) PROVE WithinLimits'
      <3>1. \A s \in Sockets : sock'[s].role = sock[s].role
        BY <2>5 DEF Poll, PoolTypeOK
      <3>2. InUse' = InUse /\ Outbound' = Outbound
        BY <3>1 DEF InUse, Outbound, WithRole
      <3> QED BY <2>5, <2>a, <3>2, RoomAfterMoves DEF Poll
    <2>6. ASSUME NEW P \in SUBSET Inbound, NEW D \in SUBSET Inbound, AdvanceInbound(P, D)
          PROVE WithinLimits'
      <3>1. \A s \in P : Socket("accepted", sock[s].addr).role = "accepted"
        BY DEF Socket
      <3>2. InUse' \subseteq InUse /\ Outbound' \subseteq Outbound
        BY <2>6, <3>1, SocketType
        DEF AdvanceInbound, InUse, Inbound, Outbound, WithRole, Roles
      <3> QED BY <2>6, <2>a, <3>2, RoomAfterMoves DEF AdvanceInbound
    <2>7. ASSUME NEW C \in SUBSET Outbound, NEW P \in SUBSET Outbound,
                 NEW D \in SUBSET Outbound, AdvanceOutbound(C, P, D)
          PROVE WithinLimits'
      <3>1. InUse' \subseteq InUse
        BY <2>7, SocketType DEF AdvanceOutbound, InUse, Outbound, WithRole, Roles
      <3>2. \A s \in P : Socket("dialled", sock[s].addr).role = "dialled"
        BY DEF Socket
      <3>3. Outbound' \subseteq Outbound
        BY <2>7, <3>2, SocketType DEF AdvanceOutbound, Outbound, WithRole
      <3> QED BY <2>7, <2>a, <3>1, <3>3, RoomAfterMoves DEF AdvanceOutbound
    <2>8. ASSUME NEW D \in SUBSET ids, DropPeers(D) PROVE WithinLimits'
      BY <2>8, <2>c DEF DropPeers, Drop, PoolTypeOK
    <2>9. CASE ExpirePending
      <3>1. Expired \in SUBSET Sockets
        BY DEF Expired, Inbound, WithRole
      <3> QED BY <2>9, <2>c, <3>1 DEF ExpirePending
    <2>10. ASSUME NEW s \in Sockets, NEW a \in Calling, Accept(s, a) PROVE WithinLimits'
      <3> DEFINE v == Socket("inbound", a)
      <3>1. /\ sock' = [sock EXCEPT ![s] = v] /\ sock[s] = Closed
            /\ ~(Cardinality(InUse) >= MaxPeers)
        BY <2>10 DEF Accept, AtCapacity
      <3>2. v.role = "inbound" /\ v.role \in Roles \ {"closed"}
        BY DEF Socket, Roles
      <3>3. InUse' = InUse \cup {s} /\ s \notin InUse /\ Outbound' = Outbound
        BY <3>1, <3>2, RoleOfNew
      <3>4. Cardinality(InUse') = Cardinality(InUse) + 1
        BY <3>3, SizesOfSockets, FS_AddElement
      <3> QED BY <2>10, <3>1, <3>3, <3>4, SizesOfSockets, PeerPoolAssumption
              DEF WithinLimits, Accept
    <2>11. ASSUME NEW h \in Hosts, Ban(h) PROVE WithinLimits'
      BY <2>11, <2>c DEF Ban, Drop, Conns, WithRole
    <2> QED BY <2>1, <2>2, <2>3, <2>4, <2>5, <2>6, <2>7, <2>8, <2>9, <2>10, <2>11 DEF PoolNext
  <1> QED BY <1>1, <1>2, PoolTypeCorrect, PTL DEF PoolSpec

\* Sockets keep the address they called from, or that we dialled.
CallersApart ==
    /\ AddrsOf(WithRole({"inbound", "accepted"})) \subseteq Calling
    /\ AddrsOf(Dialling) \subseteq Dialable

\* The inductive invariant: as long as nobody calls from an address we may dial, an
\* address that is waiting or dialled is known, so add_peers() does not take it
\* again.
DialInv == CallersApart /\ KnownCoversDialled /\ DialledOnce

\* A step after which no more sockets dial, and none for another peer, keeps the
\* addresses apart.
LEMMA DialsLeft ==
    ASSUME DialInv, UNCHANGED candidates,
           \A s \in Dialling' : s \in Dialling /\ sock'[s].addr = sock[s].addr
    PROVE  DialledOnce'
  BY DEF DialInv, DialledOnce, AddrsOf, Queued

\* If nobody calls from an address we may dial, an address is never waiting twice,
\* dialled twice, or waiting while it is dialled or connected.
THEOREM NoDoubleDial == (Dialable \cap Calling = {}) /\ PoolSpec => []DialledOnce
  <1> SUFFICES ASSUME Dialable \cap Calling = {} PROVE PoolSpec => []DialledOnce
    OBVIOUS
  <1>1. PoolInit => DialInv
    BY SocketType
    DEF PoolInit, DialInv, CallersApart, KnownCoversDialled, DialledOnce, Dialling, WithRole,
        AddrsOf, Queued
  <1>2. PoolTypeOK /\ PoolTypeOK' /\ DialInv /\ [PoolNext]_poolVars => DialInv'
    <2> SUFFICES ASSUME PoolTypeOK, PoolTypeOK', DialInv, [PoolNext]_poolVars PROVE DialInv'
      OBVIOUS
    <2> USE SocketType DEF Dialling, WithRole, AddrsOf
    <2>a. /\ \A s \in Sockets : sock[s].role \in {"inbound", "accepted"}
                                  => sock[s].addr \in Calling
          /\ \A s \in Dialling : sock[s].addr \in known /\ sock[s].addr \in Dialable
          /\ \A i \in 1 .. Len(candidates) : candidates[i] \in known
      BY DEF DialInv, CallersApart, KnownCoversDialled, Queued
    <2>b. ASSUME /\ \A s \in Sockets : sock'[s].role \in {"inbound", "accepted"}
                                         => sock'[s].addr \in Calling
                 /\ \A s \in Dialling' : sock'[s].addr \in known' /\ sock'[s].addr \in Dialable
                 /\ \A i \in 1 .. Len(candidates') : candidates'[i] \in known'
                 /\ DialledOnce'
          PROVE DialInv'
      BY <2>b DEF DialInv, CallersApart, KnownCoversDialled, Queued
    <2>c. \A s \in Dialling, t \in Dialling : sock[s].addr = sock[t].addr => s = t
      BY DEF DialInv, DialledOnce
    <2>d. \A s \in Dialling, i \in 1 .. Len(candidates) : candidates[i] # sock[s].addr
      BY DEF DialInv, DialledOnce, Queued
    <2>e. \A i \in 1 .. Len(candidates), j \in 1 .. Len(candidates) :
              candidates[i] = candidates[j] => i = j
      BY DEF DialInv, DialledOnce
    <2>f. \A i \in 1 .. Len(candidates) : candidates[i] \in Dialable
      BY DEF PoolTypeOK
    <2>1. ASSUME NEW a \in Dialable, AddPeer(a) PROVE DialInv'
      <3>1. /\ Len(candidates') = Len(candidates) + 1 /\ Len(candidates) \in Nat
            /\ candidates'[Len(candidates) + 1] = a
            /\ \A i \in 1 .. Len(candidates) : candidates'[i] = candidates[i]
        BY <2>1 DEF AddPeer, PoolTypeOK
      <3>2. sock' = sock /\ known' = known \cup {a} /\ a \notin known
        BY <2>1 DEF AddPeer
      <3>3. \A i \in 1 .. Len(candidates') :
                \/ i \in 1 .. Len(candidates) /\ candidates'[i] = candidates[i]
                \/ i = Len(candidates) + 1 /\ candidates'[i] = a
        BY <3>1
      <3>4. DialledOnce'
        <4>1. \A i \in 1 .. Len(candidates'), j \in 1 .. Len(candidates') :
                  candidates'[i] = candidates'[j] => i = j
          BY <2>a, <2>e, <3>2, <3>3
        <4>2. \A s \in Dialling', i \in 1 .. Len(candidates') : candidates'[i] # sock'[s].addr
          BY <2>a, <2>d, <3>2, <3>3
        <4> QED BY <2>c, <3>2, <4>1, <4>2 DEF DialledOnce, Queued
      <3> QED BY <2>a, <2>b, <3>2, <3>3, <3>4
    <2>2. CASE \/ EndAdd \/ EndDial \/ EndAccept
               \/ \E fresh \in BOOLEAN : EndDispatch(fresh)
               \/ UNCHANGED poolVars
      <3>1. sock' = sock /\ known' = known /\ candidates' = candidates
        BY <2>2 DEF EndAdd, EndDial, EndAccept, EndDispatch, poolVars
      <3> QED BY <3>1 DEF DialInv, CallersApart, KnownCoversDialled, DialledOnce, Queued
    <2>g. ASSUME candidates # <<>>, candidates' = Tail(candidates)
          PROVE  /\ \A i \in 1 .. Len(candidates') :
                        /\ i + 1 \in 1 .. Len(candidates)
                        /\ candidates'[i] = candidates[i + 1]
                        /\ candidates'[i] # Head(candidates)
                 /\ \A i \in 1 .. Len(candidates'), j \in 1 .. Len(candidates') :
                        candidates'[i] = candidates'[j] => i = j
      <3>1. /\ Len(candidates) \in Nat /\ Len(candidates') = Len(candidates) - 1
            /\ Len(candidates) >= 1 /\ Head(candidates) = candidates[1]
            /\ \A i \in 1 .. Len(candidates') : candidates'[i] = candidates[i + 1]
        BY <2>g, CandidatesType DEF PoolTypeOK
      <3>2. \A i \in 1 .. Len(candidates') : i + 1 \in 1 .. Len(candidates) /\ i + 1 # 1
        BY <3>1
      <3>3. 1 \in 1 .. Len(candidates)
        BY <3>1
      <3>4. \A i \in 1 .. Len(candidates'), j \in 1 .. Len(candidates') : i + 1 = j + 1 => i = j
        BY <3>1
      <3>5. \A i \in 1 .. Len(candidates') : candidates[i + 1] # candidates[1]
        BY <2>e, <3>2, <3>3
      <3>6. \A i \in 1 .. Len(candidates'), j \in 1 .. Len(candidates') :
               candidates[i + 1] = candidates[j + 1] => i + 1 = j + 1
        BY <2>e, <3>2
      <3> QED BY <3>1, <3>2, <3>4, <3>5, <3>6
    <2>3. ASSUME NEW s \in Sockets, Dial(s) PROVE DialInv'
      <3>1. /\ sock' = [sock EXCEPT ![s] = Socket("connecting", Head(candidates))]
            /\ sock[s] = Closed /\ candidates # <<>> /\ candidates' = Tail(candidates)
            /\ known' = known
        BY <2>3 DEF Dial, CanDial
      <3>2. sock'[s].role = "connecting" /\ sock'[s].addr = Head(candidates)
        BY <3>1 DEF PoolTypeOK, Socket
      <3>3. \A t \in Sockets \ {s} : sock'[t] = sock[t]
        BY <3>1 DEF PoolTypeOK
      <3>4. Head(candidates) = candidates[1] /\ 1 \in 1 .. Len(candidates)
        BY <3>1, CandidatesType
      <3>5. \A t \in Dialling' : t = s \/ (t \in Dialling /\ sock'[t] = sock[t])
        BY <3>3
      <3>6. \A t \in Dialling', u \in Dialling' : sock'[t].addr = sock'[u].addr => t = u
        BY <2>c, <2>d, <3>2, <3>4, <3>5
      <3>7. \A t \in Dialling', i \in 1 .. Len(candidates') : candidates'[i] # sock'[t].addr
        BY <2>d, <2>g, <3>1, <3>2, <3>5
      <3>8. DialledOnce'
        BY <2>g, <3>1, <3>6, <3>7 DEF DialledOnce, Queued
      <3>9. \A t \in Dialling' : sock'[t].addr \in known' /\ sock'[t].addr \in Dialable
        BY <2>a, <2>f, <3>1, <3>2, <3>4, <3>5
      <3> QED BY <2>a, <2>b, <2>g, <3>1, <3>2, <3>3, <3>8, <3>9
    <2>4. CASE DialFails
      <3>1. /\ candidates # <<>> /\ candidates' = Tail(candidates) /\ sock' = sock
            /\ known' = known \ {Head(candidates)}
        BY <2>4 DEF DialFails, CanDial
      <3>2. Head(candidates) = candidates[1] /\ 1 \in 1 .. Len(candidates)
        BY <3>1, CandidatesType
      <3>3. \A t \in Dialling', i \in 1 .. Len(candidates') : candidates'[i] # sock'[t].addr
        BY <2>d, <2>g, <3>1
      <3>4. DialledOnce'
        BY <2>c, <2>g, <3>1, <3>3 DEF DialledOnce, Queued
      <3> QED BY <2>a, <2>b, <2>d, <2>g, <3>1, <3>2, <3>4
    <2> DEFINE Steady(s) == /\ sock'[s].addr = sock[s].addr
                            /\ s \in Dialling <=> s \in Dialling'
                            /\ sock[s].role # "closed"
    <2>h. ASSUME \A s \in Sockets : sock'[s].role = "closed" \/ Steady(s),
                 \A s \in Dialling' : sock[s].addr \in known',
                 \A i \in 1 .. Len(candidates) : candidates[i] \in known',
                 UNCHANGED candidates
          PROVE DialInv'
      <3>1. \A s \in Dialling' : s \in Dialling /\ sock'[s].addr = sock[s].addr
        BY <2>h
      <3>2. DialledOnce'
        BY <2>h, <3>1, DialsLeft
      <3>3. \A s \in Sockets : sock'[s].role \in {"inbound", "accepted"}
                                => sock'[s].addr \in Calling
        <4> SUFFICES ASSUME NEW s \in Sockets, sock'[s].role \in {"inbound", "accepted"}
                     PROVE  sock'[s].addr \in Calling
          OBVIOUS
        <4>1. s \notin Dialling'
          OBVIOUS
        <4>2. sock[s].role \in {"inbound", "accepted"} /\ sock'[s].addr = sock[s].addr
          BY <2>h, <4>1 DEF PoolTypeOK, Roles
        <4> QED BY <2>a, <4>2
      <3> QED BY <2>a, <2>b, <2>h, <3>1, <3>2, <3>3
    <2>5. ASSUME NEW d \in {0, 1}, Poll(d) PROVE DialInv'
      <3>1. \A s \in Sockets : sock'[s].role = sock[s].role /\ sock'[s].addr = sock[s].addr
        BY <2>5 DEF Poll, PoolTypeOK
      <3>2. known' = known /\ UNCHANGED candidates
        BY <2>5 DEF Poll
      <3>3. \A s \in Sockets : sock'[s].role = "closed" \/ Steady(s)
        BY <3>1
      <3>4. \A s \in Dialling' : s \in Dialling
        BY <3>1
      <3> HIDE DEF Dialling, Steady
      <3> QED BY <2>a, <2>h, <3>2, <3>3, <3>4
    <2>6. ASSUME NEW P \in SUBSET Inbound, NEW D \in SUBSET Inbound, AdvanceInbound(P, D)
          PROVE DialInv'
      <3>1. \A s \in P : /\ Socket("accepted", sock[s].addr).role = "accepted"
                          /\ Socket("accepted", sock[s].addr).addr = sock[s].addr
                          /\ sock[s].role = "inbound"
        BY DEF Socket, Inbound
      <3>2. known' = known /\ UNCHANGED candidates
        BY <2>6 DEF AdvanceInbound
      <3>3. \A s \in Sockets : sock'[s].role = "closed" \/ Steady(s)
        BY <2>6, <3>1 DEF AdvanceInbound
      <3>4. \A s \in Dialling' : s \in Dialling
        BY <3>3
      <3> HIDE DEF Dialling, Steady
      <3> QED BY <2>a, <2>h, <3>2, <3>3, <3>4
    <2>7. ASSUME NEW C \in SUBSET Outbound, NEW P \in SUBSET Outbound,
                 NEW D \in SUBSET Outbound, AdvanceOutbound(C, P, D)
          PROVE DialInv'
      <3>1. /\ \A s \in C : /\ Socket("handshaking", sock[s].addr).role = "handshaking"
                             /\ Socket("handshaking", sock[s].addr).addr = sock[s].addr
            /\ \A s \in P : /\ Socket("dialled", sock[s].addr).role = "dialled"
                             /\ Socket("dialled", sock[s].addr).addr = sock[s].addr
        BY DEF Socket
      <3>2. known' = known \ AddrsOf(D) /\ UNCHANGED candidates
        BY <2>7 DEF AdvanceOutbound, Forgotten
      <3>3. Outbound \subseteq Dialling /\ \A s \in Outbound : sock[s].role # "closed"
        BY DEF Outbound
      <3>4. \A s \in D : sock'[s].role = "closed"
        BY <2>7, <3>3 DEF AdvanceOutbound
      <3>5. ASSUME NEW s \in Sockets PROVE sock'[s].role = "closed" \/ Steady(s)
        <4>1. CASE s \in C
          BY <2>7, <3>1, <3>3, <4>1 DEF AdvanceOutbound
        <4>2. CASE s \in P \ C
          BY <2>7, <3>1, <3>3, <4>2 DEF AdvanceOutbound
        <4>3. CASE s \notin C \cup P \cup D
          <5>1. sock'[s] = sock[s]
            BY <2>7, <4>3 DEF AdvanceOutbound
          <5> QED BY <5>1
        <4> QED BY <3>4, <4>1, <4>2, <4>3
      <3>6. \A s \in Dialling' : s \in Dialling \ D
        BY <3>4, <3>5
      <3>7. \A s \in Dialling \ D : sock[s].addr \notin AddrsOf(D)
        BY <2>c, <3>3
      <3>8. \A i \in 1 .. Len(candidates) : candidates[i] \notin AddrsOf(D)
        BY <2>d, <3>3
      <3> HIDE DEF Dialling, AddrsOf, Steady
      <3> QED BY <2>a, <2>h, <3>2, <3>5, <3>6, <3>7, <3>8
    <2>i. ASSUME NEW D \in SUBSET Sockets, UNCHANGED candidates,
                 sock' = [s \in Sockets |-> IF s \in D THEN Closed ELSE sock[s]],
                 NEW E \in SUBSET D, known' = known \ AddrsOf(E)
          PROVE DialInv'
      <3>1. /\ \A s \in Sockets : sock'[s].role = "closed" \/ Steady(s)
            /\ \A s \in Dialling' : s \in Dialling \ D
        BY <2>i
      <3>2. \A s \in E : s \in Dialling \/ sock[s].addr \in Calling \cup {NoAddr}
        BY <2>a, <2>i DEF PoolTypeOK, Roles
      <3>3. Dialable \cap (Calling \cup {NoAddr}) = {}
        BY PeerPoolAssumption DEF Addrs
      <3>4. \A s \in Dialling \ D : sock[s].addr \notin AddrsOf(E)
        <4> SUFFICES ASSUME NEW s \in Dialling \ D, NEW e \in E, sock[s].addr = sock[e].addr
                     PROVE  FALSE
          OBVIOUS
        <4> HIDE DEF Dialling, AddrsOf
        <4> QED BY <2>a, <2>c, <3>2, <3>3
      <3>5. \A i \in 1 .. Len(candidates) : candidates[i] \notin AddrsOf(E)
        <4> SUFFICES ASSUME NEW i \in 1 .. Len(candidates), NEW e \in E,
                            candidates[i] = sock[e].addr
                     PROVE  FALSE
          OBVIOUS
        <4> HIDE DEF Dialling, AddrsOf
        <4> QED BY <2>d, <2>f, <3>2, <3>3
      <3> HIDE DEF Dialling, AddrsOf, Steady
      <3> QED BY <2>a, <2>h, <2>i, <3>1, <3>4, <3>5
    <2>8. ASSUME NEW D \in SUBSET ids, DropPeers(D) PROVE DialInv'
      <3>1. D \in SUBSET Sockets /\ D \in SUBSET D
        BY DEF PoolTypeOK
      <3>2. /\ sock' = [s \in Sockets |-> IF s \in D THEN Closed ELSE sock[s]]
            /\ known' = known \ AddrsOf(D) /\ UNCHANGED candidates
        BY <2>8 DEF DropPeers, Drop
      <3> HIDE DEF Dialling, AddrsOf
      <3> QED BY <2>i, <3>1, <3>2
    <2>9. CASE ExpirePending
      <3>1. Expired \in SUBSET Sockets /\ Expired \cap Outbound \in SUBSET Expired
        BY DEF Expired, Inbound
      <3> HIDE DEF Dialling, WithRole, AddrsOf
      <3> QED BY <2>9, <2>i, <3>1 DEF ExpirePending
    <2>10. ASSUME NEW s \in Sockets, NEW a \in Calling, Accept(s, a) PROVE DialInv'
      <3>1. /\ sock'[s].role = "inbound" /\ sock'[s].addr = a
            /\ \A t \in Sockets \ {s} : sock'[t] = sock[t]
            /\ known' = known /\ candidates' = candidates
        BY <2>10 DEF Accept, PoolTypeOK, Socket
      <3>2. \A t \in Dialling' : t \in Dialling /\ sock'[t].addr = sock[t].addr
        BY <3>1
      <3>3. DialledOnce'
        BY <3>1, <3>2, DialsLeft
      <3> QED BY <2>a, <2>b, <3>1, <3>2, <3>3
    <2>11. ASSUME NEW h \in Hosts, Ban(h) PROVE DialInv'
      <3> DEFINE D == {s \in Conns : HostOf[sock[s].addr] = h}
      <3>1. D \in SUBSET Sockets
        BY DEF Conns
      <3>2. D \in SUBSET D /\ UNCHANGED candidates /\ known' = known \ AddrsOf(D)
            /\ sock' = [s \in Sockets |-> IF s \in D THEN Closed ELSE sock[s]]
        BY <2>11 DEF Ban, Drop
      <3> HIDE DEF D, Dialling, WithRole, AddrsOf
      <3> QED BY <2>i, <3>1, <3>2
    <2> QED BY <2>1, <2>2, <2>3, <2>4, <2>5, <2>6, <2>7, <2>8, <2>9, <2>10, <2>11 DEF PoolNext
  <1>3. DialInv => DialledOnce
    BY DEF DialInv
  <1> QED BY <1>1, <1>2, <1>3, PoolTypeCorrect, PTL DEF PoolSpec
=============================================================================
