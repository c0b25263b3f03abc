---------------------------- MODULE MCWriteQueue ----------------------------
(* A small instance of WriteQueue for TLC. *)
EXTENDS WriteQueue

\* Both requests are for the one piece; the second is not a range within it.
OnePiece == [r \in Requests |-> 0]

\* A piece message is the largest; two of them fill a queue.
Sizes == [k \in Kinds |-> IF k = "piece" THEN 3 ELSE 1]

\* The first connection asks for everything, the first request twice; the second
\* connection asks only for what the first one does too.
Asked == [c \in Ids |-> [r \in Requests |->
             IF r = "first" THEN (IF c = 0 THEN 2 ELSE 1) ELSE (IF c = 0 THEN 1 ELSE 0)]]
=============================================================================
