-------------------------- MODULE TrackerLiveness --------------------------
(***************************************************************************)
(* What the tracker side brings about in the end.                          *)
(*                                                                         *)
(* The loop never blocks, the clock does not stop, and poll() is not       *)
(* interrupted for ever: that is all the shutdown needs.  A tracker hears  *)
(* of the completed download if, besides, it is neither unreachable nor    *)
(* silent for ever: of attempts without end, some lookup, some send and    *)
(* some reply gets through in time.                                        *)
(***************************************************************************)
EXTENDS TrackerManager

LoopFairness ==
    /\ WF_vars(LoopTop) /\ WF_vars(EndPackets)
    /\ WF_vars(\E t \in Trackers : Advance(t))
    /\ SF_vars(PollReturns)
    /\ SF_vars(Elapse)

\* The reply arrives while poll() is waiting for it.
AnswersInTime(t, waiting) ==
    /\ phase = "poll"
    /\ tr[t].state = waiting
    /\ \E m \in requests[t] : m.fresh /\ TrackerAnswers(t, m)

\* Every kind of step that has to succeed does, one time of infinitely many.
TrackerFairness(t) ==
    /\ WF_vars(LookupDone(t))
    /\ SF_vars(LookupDone(t) /\ tr'[t].lookup = "ready")
    /\ SF_vars(SendConnect(t))
    /\ SF_vars(SendAnnounce(t))
    /\ SF_vars(AnswersInTime(t, "Connecting"))
    /\ SF_vars(AnswersInTime(t, "Announcing"))
    /\ SF_vars(\E m \in replies[t] : m.fresh /\ RecvConnect(t, m))
    /\ SF_vars(\E m \in replies[t], i \in ReplyIntervals : RecvAnnounce(t, m, i))

LoopSpec == Spec /\ LoopFairness

\* The shutdown ends, whatever the trackers and the network do.
ShutdownEnds == stopping ~> phase = "ended"

\* Nobody stops the program, and poll() does not fail.
LeftRunning == [](~stopping /\ phase # "ended")

\* While the program is left running, every tracker that can be reached is told that
\* the download is complete, even one that knew nothing of us when it finished.
CompletionHeard ==
    \A t \in Trackers :
        LeftRunning /\ TrackerFairness(t) => (downloadComplete ~> "completed" \in heard[t])
=============================================================================
