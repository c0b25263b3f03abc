----------------------------- MODULE BlockPool -----------------------------
(***************************************************************************)
(* What the piece picker promises the rest of the client: one pool of      *)
(* blocks, with no peers, events or counters in it.  A block is asked of   *)
(* nobody twice at a time, what has been received is given up only by the  *)
(* verdict on its whole piece, and what has been verified is kept.         *)
(***************************************************************************)
CONSTANT Blocks      \* the blocks of the torrent: <<piece, index>>

VARIABLE status      \* of each block

\* The other blocks of the piece r belongs to.
Siblings(r) == {x \in Blocks : x[1] = r[1] /\ x # r}

Init == status = [r \in Blocks |-> "Missing"]

\* A piece is found intact in the files of an earlier run.
Find(r) ==
    /\ \A x \in Siblings(r) \cup {r} : status[x] = "Missing"
    /\ status' = [x \in Blocks |-> IF x[1] = r[1] THEN "Have" ELSE status[x]]

Request(r) ==
    /\ status[r] = "Missing"
    /\ status' = [status EXCEPT ![r] = "Requested"]

\* Requests that will not be answered.
Free(S) ==
    /\ \A r \in S : status[r] = "Requested"
    /\ status' = [r \in Blocks |-> IF r \in S THEN "Missing" ELSE status[r]]

Receive(r) ==
    /\ status[r] = "Requested"
    /\ status' = [status EXCEPT ![r] = "Received"]

\* The last block of a piece arrives and the piece is judged; whoever is banned
\* for it loses the requests S.
Judge(r, verdict, S) ==
    /\ status[r] = "Requested"
    /\ \A x \in Siblings(r) : status[x] = "Received"
    /\ \A x \in S : status[x] = "Requested"
    /\ status' = [x \in Blocks |-> IF x[1] = r[1] THEN verdict
                                   ELSE IF x \in S THEN "Missing" ELSE status[x]]

Next ==
    \/ \E r \in Blocks : Find(r) \/ Request(r) \/ Receive(r)
    \/ \E S \in SUBSET Blocks : Free(S)
    \/ \E r \in Blocks, verdict \in {"Missing", "Have"}, S \in SUBSET Blocks : Judge(r, verdict, S)

Spec == Init /\ [][Next]_status
=============================================================================
