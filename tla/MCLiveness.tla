----------------------------- MODULE MCLiveness -----------------------------
(***************************************************************************)
(* A small instance of SessionLiveness for TLC.  With MaxJoins = 2 the host*)
(* that is not steady has one connection: it may end it at any moment, but *)
(* it does not come back.                                                  *)
(***************************************************************************)
EXTENDS SessionLiveness

TwoBlocks == [p \in Pieces |-> 2]
Sizes == [p \in Pieces |-> 1]

\* Every peer is a seeder.
AllPieces == {Pieces}
=============================================================================
