--------------------------- MODULE MessageChannel ---------------------------
(***************************************************************************)
(* What a connection promises the two clients at its ends: messages arrive *)
(* whole, once, in the order they were queued, and all of them in the end, *)
(* except pieces the sender takes back while they wait.                    *)
(***************************************************************************)
EXTENDS Totals

CONSTANTS
    Messages,     \* what can be said
    Retractable   \* what can be taken back

VARIABLES
    queue,      \* messages on their way, oldest first
    delivered   \* messages that have arrived

Init == queue = <<>> /\ delivered = <<>>

Send(m) == queue' = Append(queue, m) /\ UNCHANGED delivered

Withdraw(i) ==
    /\ queue[i] \in Retractable
    /\ queue' = RemoveAt(queue, i)
    /\ UNCHANGED delivered

Deliver ==
    /\ queue # <<>>
    /\ delivered' = Append(delivered, Head(queue))
    /\ queue' = Tail(queue)

Next ==
    \/ \E m \in Messages : Send(m)
    \/ \E i \in 1 .. Len(queue) : Withdraw(i)
    \/ Deliver

Spec == Init /\ [][Next]_<<queue, delivered>> /\ WF_<<queue, delivered>>(Deliver)
=============================================================================
