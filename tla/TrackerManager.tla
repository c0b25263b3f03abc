-------------------------- MODULE TrackerManager --------------------------
(***************************************************************************)
(* TrackerManager (src/runtime/managers/tracker_manager.{hpp,cpp}), the    *)
(* loops of Session that drive it, and the UDP network between it and the  *)
(* trackers.                                                               *)
(*                                                                         *)
(* Time is discrete and passes while the loop is in poll().  A deadline    *)
(* next_action is kept as the time left (wait, 0 when due) and connected_at *)
(* as the time since (age, which stops counting when the id has expired).  *)
(*                                                                         *)
(* Transaction ids are random 32-bit numbers, taken to differ; then a      *)
(* datagram either carries the id of the last request sent (fresh) or an   *)
(* older one.  A datagram may be lost, delayed, duplicated or overtaken:   *)
(* it stays in its set, and being delivered is something that may happen   *)
(* to it at any time, once, often or never.                                *)
(***************************************************************************)
EXTENDS Naturals, FiniteSets

CONSTANTS
    Trackers,         \* trackers_, by position
    ResponseTime,     \* 15 s
    MaxRetries,       \* 8
    IdLifetime,       \* 60 s
    MinInterval,      \* 300 s
    DefaultInterval,  \* 1800 s
    MaxInterval,      \* 86400 s
    ReplyIntervals,   \* the intervals a tracker may ask for
    ShutdownTime      \* 5 s

ASSUME TrackerAssumption ==
    /\ Trackers \subseteq Nat /\ IsFiniteSet(Trackers)
    /\ ResponseTime \in Nat \ {0} /\ MaxRetries \in Nat /\ IdLifetime \in Nat \ {0}
    /\ MinInterval \in Nat \ {0} /\ DefaultInterval \in Nat /\ MaxInterval \in Nat
    /\ MinInterval <= DefaultInterval /\ DefaultInterval <= MaxInterval
    /\ ReplyIntervals \subseteq Nat
    /\ ShutdownTime \in Nat

\* The powers of two that response_timeout() uses are positive numbers.
ASSUME BackoffAssumption == \A n \in 0 .. MaxRetries : 2 ^ n \in Nat \ {0}

VARIABLES
    tr,                \* trackers_: the TrackerSession of each tracker
    downloadComplete,  \* download_complete_
    stopping,          \* stopping_
    phase,             \* where Session is in its loop
    todo,              \* trackers the current pass of tick() has not come to
    deadline,          \* time left for the shutdown
    requests,          \* datagrams on their way to each tracker
    replies,           \* datagrams on their way back
    heard,             \* the events each tracker has been told
    silence            \* time since a tracker was sent a request it has not answered

sessionVars == <<downloadComplete, stopping>>
loopVars == <<phase, todo, deadline>>
netVars == <<requests, replies, heard>>
vars == <<tr, sessionVars, loopVars, netVars, silence>>

Events == {"none", "completed", "started", "stopped"}

TrackerSession ==
    [state : {"Disconnected", "Resolving", "Connecting", "Connected", "Announcing", "Idle",
              "Stopped"},
     sock : BOOLEAN,
     lookup : {"none", "running", "ready", "failed"},
     retries : 0 .. MaxRetries,
     inFlight : Events,
     reported : {"nothing", "started", "completed"},
     wait : Nat,
     age : 0 .. IdLifetime]

Request == [kind : {"connect", "announce"}, event : Events, fresh : BOOLEAN]
Reply == [kind : {"connect", "announce"}, fresh : BOOLEAN]

\* Every field holds a value of its type: the retry count, which is a shift
\* distance, never passes its cap.
TypeOK ==
    /\ tr \in [Trackers -> TrackerSession]
    /\ downloadComplete \in BOOLEAN /\ stopping \in BOOLEAN
    /\ phase \in {"loop", "poll", "packets", "timers", "ended"}
    /\ todo \subseteq Trackers
    /\ deadline \in Nat
    /\ requests \in [Trackers -> SUBSET Request]
    /\ replies \in [Trackers -> SUBSET Reply]
    /\ heard \in [Trackers -> SUBSET Events]
    /\ silence \in [Trackers -> 0 .. ResponseTime]

\* next_action starts at the epoch: every tracker is due at once.
Init ==
    /\ tr = [t \in Trackers |->
                [state |-> "Disconnected", sock |-> FALSE, lookup |-> "none", retries |-> 0,
                 inFlight |-> "none", reported |-> "nothing", wait |-> 0, age |-> IdLifetime]]
    /\ downloadComplete = FALSE /\ stopping = FALSE
    /\ phase = "loop" /\ todo = {} /\ deadline = 0
    /\ requests = [t \in Trackers |-> {}]
    /\ replies = [t \in Trackers |-> {}]
    /\ heard = [t \in Trackers |-> {}]
    /\ silence = [t \in Trackers |-> ResponseTime]

----------------------------------------------------------------------------
(* The steps a TrackerSession x goes through *)

Least(a, b) == IF a < b THEN a ELSE b

\* response_timeout(): 15 * 2^n.
ResponseTimeout(n) == ResponseTime * 2 ^ n

\* Faulty variant: the retry is due at once.
FailBackoffAtOnce(x) ==
    [x EXCEPT !.state = "Disconnected", !.retries = Least(@ + 1, MaxRetries), !.wait = 0]

\* fail_backoff()
FailBackoff(x) ==
    LET n == Least(x.retries + 1, MaxRetries)
    IN  [x EXCEPT !.state = "Disconnected", !.retries = n, !.wait = ResponseTimeout(n)]

\* fail_send(): the socket is closed as well.
FailSend(x) == FailBackoff([x EXCEPT !.sock = FALSE])

\* Faulty variant: the retry count is not capped.
OnTimeoutUncapped(x) ==
    [x EXCEPT !.state = "Disconnected", !.retries = @ + 1, !.wait = 0]

\* on_timeout(): the next attempt is due at once, with a longer deadline.
OnTimeout(x) ==
    [x EXCEPT !.state = "Disconnected", !.retries = Least(@ + 1, MaxRetries), !.wait = 0]

\* The interval of a reply: 0 stands for the default, and the rest is clamped.
IntervalOf(i) ==
    IF i = 0 THEN DefaultInterval
    ELSE IF i < MinInterval THEN MinInterval
    ELSE Least(i, MaxInterval)

\* Faulty variant: completed is due only for a tracker at rest.
PendingEventIdle(x) ==
    IF stopping THEN "stopped"
    ELSE IF x.reported = "nothing" THEN "started"
    ELSE IF x.state = "Idle" /\ x.reported = "started" /\ downloadComplete THEN "completed"
    ELSE "none"

\* pending_event()
PendingEvent(x) ==
    IF stopping THEN "stopped"
    ELSE IF x.reported = "nothing" THEN "started"
    ELSE IF x.reported = "started" /\ downloadComplete THEN "completed"
    ELSE "none"

\* Faulty variant: the reply is credited to what is due now, not to what was sent.
ReportedAfterDue(x) ==
    IF PendingEvent(x) \in {"started", "completed"} THEN PendingEvent(x) ELSE x.reported

\* What a successful announce tells us the tracker knows.
ReportedAfter(x) ==
    IF x.inFlight \in {"started", "completed"} THEN x.inFlight ELSE x.reported

\* recv_announce() of a good reply: stopped is final, the rest leads to Idle.
Acknowledged(x, interval) ==
    IF x.inFlight = "stopped"
    THEN [x EXCEPT !.state = "Stopped", !.sock = FALSE]
    ELSE [x EXCEPT !.state = "Idle", !.reported = ReportedAfter(x), !.retries = 0,
                   !.wait = IntervalOf(interval)]

----------------------------------------------------------------------------
(* Sending: a new transaction id makes everything in flight an old one *)

Outdated(msgs) == {[m EXCEPT !.fresh = FALSE] : m \in msgs}

Transmit(t, kind, event) ==
    /\ requests' = [requests EXCEPT ![t] =
            Outdated(@) \cup {[kind |-> kind, event |-> event, fresh |-> TRUE]}]
    /\ replies' = [replies EXCEPT ![t] = Outdated(@)]
    /\ silence' = [silence EXCEPT ![t] = 0]
    /\ UNCHANGED heard

\* The last pass of tick() comes to tracker t.
Turn(t) ==
    /\ phase = "timers"
    /\ t \in todo
    /\ \A u \in todo : t <= u
    /\ todo' = todo \ {t}
    /\ phase' = IF todo = {t} THEN "loop" ELSE "timers"
    /\ UNCHANGED <<sessionVars, deadline>>

\* send_connect() starts a lookup when there is no socket.
StartLookup(t) ==
    /\ tr[t].state = "Disconnected" /\ tr[t].wait = 0 /\ ~tr[t].sock
    /\ Turn(t)
    /\ tr' = [tr EXCEPT ![t].state = "Resolving", ![t].lookup = "running"]
    /\ UNCHANGED <<netVars, silence>>

\* advance() reaches send_connect() with a socket: an old one, or one that
\* open_socket() has just made for the address looked up.
ReadyToConnect(t) ==
    \/ tr[t].state = "Disconnected" /\ tr[t].wait = 0 /\ tr[t].sock
    \/ tr[t].state = "Resolving" /\ tr[t].lookup = "ready"

SendConnect(t) ==
    /\ ReadyToConnect(t)
    /\ Turn(t)
    /\ tr' = [tr EXCEPT ![t] = [@ EXCEPT !.state = "Connecting", !.sock = TRUE,
                                         !.lookup = "none", !.age = 0,
                                         !.wait = ResponseTimeout(tr[t].retries)]]
    /\ Transmit(t, "connect", "none")

\* send() fails, with the socket closed again and a retry later.
SendConnectFails(t) ==
    /\ ReadyToConnect(t)
    /\ Turn(t)
    /\ tr' = [tr EXCEPT ![t] = FailSend([@ EXCEPT !.lookup = "none"])]
    /\ UNCHANGED <<netVars, silence>>

\* The lookup failed, or open_socket() does.
ResolveFails(t) ==
    /\ tr[t].state = "Resolving" /\ tr[t].lookup \in {"ready", "failed"}
    /\ Turn(t)
    /\ tr' = [tr EXCEPT ![t] = FailBackoff([@ EXCEPT !.lookup = "none"])]
    /\ UNCHANGED <<netVars, silence>>

\* send_announce() with a connection id of 60 s or more.
IdExpired(t) ==
    /\ tr[t].state = "Connected" /\ tr[t].age >= IdLifetime
    /\ Turn(t)
    /\ tr' = [tr EXCEPT ![t].state = "Disconnected", ![t].wait = 0]
    /\ UNCHANGED <<netVars, silence>>

SendAnnounce(t) ==
    /\ tr[t].state = "Connected" /\ tr[t].age < IdLifetime
    /\ Turn(t)
    /\ tr' = [tr EXCEPT ![t] = [@ EXCEPT !.state = "Announcing",
                                         !.inFlight = PendingEvent(tr[t]),
                                         !.wait = ResponseTimeout(tr[t].retries)]]
    /\ Transmit(t, "announce", PendingEvent(tr[t]))

\* in_flight and the transaction id have changed all the same.
SendAnnounceFails(t) ==
    /\ tr[t].state = "Connected" /\ tr[t].age < IdLifetime
    /\ Turn(t)
    /\ tr' = [tr EXCEPT ![t] = FailSend([@ EXCEPT !.inFlight = PendingEvent(tr[t])])]
    /\ requests' = [requests EXCEPT ![t] = Outdated(@)]
    /\ replies' = [replies EXCEPT ![t] = {}]
    /\ UNCHANGED <<heard, silence>>

\* advance() finds a deadline passed.
Expire(t) ==
    /\ tr[t].state \in {"Connecting", "Announcing", "Idle"} /\ tr[t].wait = 0
    /\ Turn(t)
    /\ tr' = [tr EXCEPT ![t] = IF @.state = "Idle" THEN [@ EXCEPT !.state = "Disconnected"]
                                                   ELSE OnTimeout(@)]
    /\ UNCHANGED <<netVars, silence>>

\* advance() finds nothing to do.
Rest(t) ==
    /\ \/ tr[t].state \in {"Disconnected", "Connecting", "Announcing", "Idle"} /\ tr[t].wait > 0
       \/ tr[t].state = "Resolving" /\ tr[t].lookup = "running"
       \/ tr[t].state = "Stopped"
    /\ Turn(t)
    /\ UNCHANGED <<tr, netVars, silence>>

----------------------------------------------------------------------------
(* The first pass of tick(): trackers with something to read, in order *)

Readable(t) ==
    /\ phase = "packets"
    /\ t \in todo
    /\ todo' = {u \in todo : u > t}
    /\ UNCHANGED <<sessionVars, phase, deadline, requests, heard>>

Answered(t) == silence' = [silence EXCEPT ![t] = ResponseTime]

\* recv_connect() takes one datagram, and ignores all but the reply to the
\* connect request it waits for.
RecvConnect(t, m) ==
    /\ tr[t].state = "Connecting"
    /\ Readable(t)
    /\ IF m.kind = "connect" /\ m.fresh
       THEN /\ tr' = [tr EXCEPT ![t] = [@ EXCEPT !.state = "Connected", !.age = 0,
                                                 !.retries = 0]]
            /\ Answered(t)
       ELSE UNCHANGED <<tr, silence>>
    /\ UNCHANGED replies

\* recv_announce() reads until the reply to its announce turns up.
RecvAnnounce(t, m, interval) ==
    /\ tr[t].state = "Announcing"
    /\ m.kind = "announce" /\ m.fresh
    /\ Readable(t)
    /\ tr' = [tr EXCEPT ![t] = Acknowledged(@, interval)]
    /\ replies' = [replies EXCEPT ![t] = IF tr[t].inFlight = "stopped" THEN {} ELSE @]
    /\ Answered(t)

\* recv() fails (the tracker is unreachable), or the reply to an announce is an
\* error; recv_connect() ignores error replies.
RecvFails(t) ==
    /\ tr[t].state \in {"Connecting", "Announcing"}
    /\ Readable(t)
    /\ tr' = [tr EXCEPT ![t] = FailBackoff(@)]
    /\ UNCHANGED <<replies, silence>>

\* drain() of a socket nothing is expected on.
Drain(t) ==
    /\ tr[t].sock /\ tr[t].state \notin {"Connecting", "Announcing"}
    /\ replies[t] # {}
    /\ Readable(t)
    /\ replies' = [replies EXCEPT ![t] = {}]
    /\ UNCHANGED <<tr, silence>>

EndPackets ==
    /\ phase = "packets"
    /\ phase' = IF Trackers = {} THEN "loop" ELSE "timers"
    /\ todo' = Trackers
    /\ UNCHANGED <<tr, sessionVars, deadline, netVars, silence>>

----------------------------------------------------------------------------
(* Session::run() and shutdown_session() around tick() *)

\* shutdown_done()
ShutdownDone == \A t \in Trackers : tr[t].state = "Stopped"

\* Faulty variant: the deadline of the shutdown is not looked at.
LoopTopPatient ==
    /\ phase = "loop"
    /\ phase' = IF stopping /\ ShutdownDone THEN "ended" ELSE "poll"
    /\ UNCHANGED <<tr, sessionVars, todo, deadline, netVars, silence>>

LoopTop ==
    /\ phase = "loop"
    /\ phase' = IF stopping /\ (ShutdownDone \/ deadline = 0) THEN "ended" ELSE "poll"
    /\ UNCHANGED <<tr, sessionVars, todo, deadline, netVars, silence>>

Less(n) == IF n = 0 THEN 0 ELSE n - 1

\* Time passes in poll(), which until_next_action() may cut short and a busy
\* machine may draw out.
Elapse ==
    /\ phase = "poll"
    /\ tr' = [t \in Trackers |-> [tr[t] EXCEPT !.wait = Less(@),
                                               !.age = Least(@ + 1, IdLifetime)]]
    /\ deadline' = Less(deadline)
    /\ silence' = [t \in Trackers |-> Least(silence[t] + 1, ResponseTime)]
    /\ UNCHANGED <<sessionVars, phase, todo, netVars>>

PollReturns ==
    /\ phase = "poll"
    /\ phase' = "packets"
    /\ todo' = Trackers
    /\ UNCHANGED <<tr, sessionVars, deadline, netVars, silence>>

\* poll() is interrupted by a signal, or fails: the first starts the loop over,
\* the second ends it (run() by an exception that only main() catches).
PollFails ==
    /\ phase = "poll"
    /\ phase' \in {"loop", "ended"}
    /\ UNCHANGED <<tr, sessionVars, todo, deadline, netVars, silence>>

\* on_download_complete(): trackers at rest are made due.
OnDownloadComplete ==
    /\ phase = "loop"
    /\ ~stopping /\ ~downloadComplete
    /\ downloadComplete' = TRUE
    /\ tr' = [t \in Trackers |->
                IF tr[t].state = "Idle" /\ tr[t].reported = "started"
                THEN [tr[t] EXCEPT !.wait = 0] ELSE tr[t]]
    /\ UNCHANGED <<stopping, loopVars, netVars, silence>>

\* Faulty variant: an announce in flight is waited for.
WithdrawnPatient(x) ==
    IF x.reported = "nothing" THEN [x EXCEPT !.state = "Stopped", !.sock = FALSE]
    ELSE IF x.state = "Disconnected" THEN [x EXCEPT !.wait = 0]
    ELSE IF x.state = "Idle" THEN [x EXCEPT !.state = "Connected", !.wait = 0]
    ELSE x

\* Faulty variant: a tracker backing off announces without connecting.
WithdrawnHasty(x) ==
    IF x.reported = "nothing" THEN [x EXCEPT !.state = "Stopped", !.sock = FALSE]
    ELSE IF x.state \in {"Disconnected", "Idle", "Announcing"}
    THEN [x EXCEPT !.state = "Connected", !.wait = 0]
    ELSE x

\* begin_shutdown() of one tracker.
Withdrawn(x) ==
    IF x.reported = "nothing" THEN [x EXCEPT !.state = "Stopped", !.sock = FALSE]
    ELSE IF x.state = "Disconnected" THEN [x EXCEPT !.wait = 0]
    ELSE IF x.state \in {"Idle", "Announcing"} THEN [x EXCEPT !.state = "Connected", !.wait = 0]
    ELSE x

BeginShutdown ==
    /\ phase = "loop"
    /\ ~stopping
    /\ stopping' = TRUE
    /\ deadline' = ShutdownTime
    /\ tr' = [t \in Trackers |-> Withdrawn(tr[t])]
    /\ UNCHANGED <<downloadComplete, phase, todo, netVars, silence>>

----------------------------------------------------------------------------
(* The resolver thread, and the trackers on the other side of the network *)

\* The detached worker fulfils its promise.
LookupDone(t) ==
    /\ tr[t].lookup = "running"
    /\ \E result \in {"ready", "failed"} : tr' = [tr EXCEPT ![t].lookup = result]
    /\ UNCHANGED <<sessionVars, loopVars, netVars, silence>>

\* A tracker takes a request, and answers with its transaction id.
TrackerAnswers(t, m) ==
    /\ replies' = [replies EXCEPT ![t] = @ \cup {[kind |-> m.kind, fresh |-> m.fresh]}]
    /\ heard' = [heard EXCEPT ![t] = IF m.kind = "announce" THEN @ \cup {m.event} ELSE @]
    /\ UNCHANGED <<tr, sessionVars, loopVars, requests, silence>>

Done == phase = "ended" /\ UNCHANGED vars

Advance(t) ==
    \/ StartLookup(t) \/ SendConnect(t) \/ SendConnectFails(t) \/ ResolveFails(t)
    \/ IdExpired(t) \/ SendAnnounce(t) \/ SendAnnounceFails(t)
    \/ Expire(t) \/ Rest(t)

Receive(t) ==
    \/ \E m \in replies[t] : RecvConnect(t, m)
    \/ \E m \in replies[t], interval \in ReplyIntervals : RecvAnnounce(t, m, interval)
    \/ RecvFails(t)
    \/ Drain(t)

Next ==
    \/ LoopTop \/ Elapse \/ PollReturns \/ PollFails \/ EndPackets
    \/ OnDownloadComplete \/ BeginShutdown
    \/ \E t \in Trackers : Advance(t) \/ Receive(t) \/ LookupDone(t)
    \/ \E t \in Trackers : \E m \in requests[t] : TrackerAnswers(t, m)
    \/ Done

Spec == Init /\ [][Next]_vars

----------------------------------------------------------------------------
\* What we believe a tracker has acknowledged it has been told: a late,
\* duplicated or overtaken reply is never credited to another announce, though
\* completion and shutdown may change what is due while one is in flight.
ReportedIsHeard ==
    \A t \in Trackers :
        /\ tr[t].reported \in {"started", "completed"} => "started" \in heard[t]
        /\ tr[t].reported = "completed" => "completed" \in heard[t]
        /\ tr[t].state = "Stopped" /\ tr[t].reported # "nothing" => "stopped" \in heard[t]

\* A socket is open whenever it may be used and closed once a tracker is done
\* with, and a lookup is waited for only while it has a result to give.
SocketOpenWhenUsed ==
    \A t \in Trackers :
        /\ tr[t].state \in {"Connecting", "Connected", "Announcing", "Idle"} => tr[t].sock
        /\ tr[t].state = "Resolving" => ~tr[t].sock /\ tr[t].lookup # "none"
        /\ tr[t].state = "Stopped" => ~tr[t].sock

\* Once the shutdown has begun no tracker settles for another interval, and an
\* announce whose reply is still wanted is a stopped one.
OnlyStoppedInShutdown ==
    stopping => \A t \in Trackers :
        /\ tr[t].state # "Idle"
        /\ tr[t].state = "Announcing" => tr[t].inFlight = "stopped"
        /\ tr[t].reported = "nothing" => tr[t].state = "Stopped"

Sent(t) ==
    /\ tr'[t].state \in {"Connecting", "Announcing"}
    /\ tr'[t].state # tr[t].state

\* A tracker that does not answer is never sent two requests within 15 s:
\* timeouts, errors and failed lookups all wait, until the shutdown.
SilentTrackersLeftAlone ==
    [][\A t \in Trackers : Sent(t) /\ ~stopping => silence[t] = ResponseTime]_vars

\* "`completed` is sent as soon as the download finishes" (README.md of the
\* repository): a tracker that knows us never rests with it still unsent.
CompletedSentAtOnce ==
    \A t \in Trackers :
        downloadComplete /\ tr[t].state = "Idle" /\ tr[t].reported = "started" =>
            tr[t].wait = 0

\* "never acknowledged us: nothing to withdraw" (begin_shutdown()): a tracker
\* that is not sent stopped has not been sent started either.
NothingToWithdraw ==
    \A t \in Trackers :
        tr[t].state = "Stopped" /\ tr[t].reported = "nothing" => "started" \notin heard[t]

----------------------------------------------------------------------------
(* The inductive strengthenings the proofs use *)

\* A request or a reply that still counts belongs to the announce in flight, and
\* completed is announced only to a tracker that knows us.
AnnounceInFlight ==
    \A t \in Trackers :
        /\ \A m \in requests[t] : m.fresh /\ m.kind = "announce" => m.event = tr[t].inFlight
        /\ \A m \in replies[t] : m.fresh /\ m.kind = "announce" => tr[t].inFlight \in heard[t]
        /\ tr[t].inFlight = "completed" => tr[t].reported # "nothing"

\* A tracker that has not answered is waited for, or backed off from, until the
\* 15 s are over.
WaitsOutSilence ==
    ~stopping => \A t \in Trackers :
        \/ silence[t] = ResponseTime
        \/ /\ tr[t].state \in {"Connecting", "Announcing", "Disconnected"}
           /\ tr[t].wait + silence[t] >= ResponseTime

TrackerInv ==
    /\ SocketOpenWhenUsed /\ OnlyStoppedInShutdown /\ ReportedIsHeard
    /\ AnnounceInFlight /\ WaitsOutSilence
=============================================================================
