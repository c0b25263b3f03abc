-------------------------- MODULE SessionLiveness --------------------------
(***************************************************************************)
(* Does the download finish?  The client's loop never blocks: poll()       *)
(* returns after a second at the latest, and everything else in the body   *)
(* is a finite loop, so it takes steps forever (weak fairness of the whole *)
(* next-state relation).  The rest is up to the peers.  A steady host      *)
(* connects once, has every piece, unchokes us and answers every request   *)
(* in time; all the others may choke, time out, disconnect, reconnect (as  *)
(* often as MaxJoins lets them) or say nothing at any moment.  One thing   *)
(* they may not do is choke and unchoke us for ever: nothing in the code   *)
(* makes the pool prefer another peer for the requests a choke returns, so *)
(* such a peer can be given the same block again and again.                *)
(***************************************************************************)
EXTENDS Session

CONSTANT Steady   \* the hosts that keep answering

ASSUME SteadyAssumption == Steady \subseteq Hosts

\* Steady hosts that have not connected yet, for which an id is kept.
ToCome == {s \in Steady : \A c \in Ids : hosts[c] # s /\ peerHost[c] # s}

\* No step ends the program, and none makes a steady host fail.
SteadyStep ==
    /\ phase' \notin {"stopped", "failed"}
    /\ \A c \in conns : peerHost[c] \in Steady =>
          /\ c \in conns' \/ peerHost[c] \in banned'
          /\ c \notin toDrop'
          /\ c \in conns' =>
                /\ peerChoking'[c] => peerChoking[c]
                /\ snubbed'[c] => snubbed[c]
                /\ gotBitfield'[c] => hasPieces'[c] = Pieces
    /\ nextId' # nextId =>
          \/ peerHost'[nextId] \in ToCome
          \/ peerHost'[nextId] \notin Steady /\ Cardinality(ToCome) < MaxJoins - nextId

\* No peer that is not steady lifts a choke of a connection that could be given
\* requests.  It may happen any number of times, but from some point on it does not.
NoReprieve ==
    \A c \in conns : peerHost[c] \notin Steady /\ gotBitfield[c] /\ peerChoking[c] =>
        c \notin conns' \/ peerChoking'[c]

Answers(s) ==
    /\ cur \in conns
    /\ peerHost[cur] = s
    /\ \E i \in 1 .. PipelineDepth, bytes \in {"good", "bad"} : MsgPiece(i, bytes)

Says(s, Msg) == cur \in conns /\ peerHost[cur] = s /\ Msg

\* A request in flight round after round grows older than kRequestTimeout.
TimesOut(c, r) ==
    \E n \in 1 .. PipelineDepth :
        /\ Expire(c, n)
        /\ r \in {pending[c][i] : i \in 1 .. n}
        /\ SteadyStep

Fairness ==
    /\ WF_vars(Next /\ SteadyStep)
    /\ <>[][NoReprieve]_vars
    /\ \A c \in Ids, r \in Blocks : SF_vars(TimesOut(c, r))
    /\ \A s \in Steady :
          /\ SF_vars(FinishHandshake(s) /\ SteadyStep)
          /\ SF_vars(\E c \in conns : peerHost[c] = s /\ ReadFrom(c))
          /\ SF_vars(Says(s, MsgUnchoke))
          /\ SF_vars(Says(s, MsgBitfield(Pieces)))
          /\ SF_vars(Answers(s))

SteadySpec == Init /\ [][Next /\ SteadyStep]_vars /\ Fairness

\* With one steady host in the swarm every piece is downloaded, whatever the
\* other peers do with the requests they are given: what they choke away, drop
\* or let time out comes back to the pool and is asked of somebody else.
DownloadCompletes == <>(have = Pieces)

\* An unfinished download is reported to the trackers once it completes.
CompletionReported == (phase = "poll" /\ ~completed) ~> notified
=============================================================================
