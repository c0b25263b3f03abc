----------------------------- MODULE MCSession -----------------------------
(* Small instances of Session for TLC. *)
EXTENDS Session

\* Block counts: one or two blocks a piece, or a last piece that is shorter.
OneBlock == [p \in Pieces |-> 1]
TwoBlocks == [p \in Pieces |-> 2]
TwoOne == [p \in Pieces |-> IF p = 0 THEN 2 ELSE 1]

\* Every piece but piece 0 is a byte short.
Sizes == [p \in Pieces |-> IF p = 0 THEN 2 ELSE 1]

\* Every peer is a seeder.
AllPieces == {Pieces}
=============================================================================
