----------------------------- MODULE MCWireLink -----------------------------
(* A small instance of WireLink for TLC. *)
EXTENDS WireLink

Seqs == INSTANCE SequencesExt

\* Most significant byte first.
BigEndian(n) == [i \in 1 .. Field |-> (n \div Base ^ (Field - i)) % Base]
Number(bytes) == Seqs!FoldLeft(LAMBDA n, byte : n * Base + byte, 0, bytes)

Greeting == <<9, 5, 9>>

\* A bit for each of the three pieces: the values from 8 on have spare ones set.
ThreeBits == {<<b>> : b \in 0 .. 7}

\* Two piece messages of the same size that differ in their piece, messages of one
\* and of three fields with the largest values there are, a bitfield, and one that is
\* a length prefix alone.
Said == {[id |-> MsgPiece, fields |-> <<0, 1>>, data |-> <<8>>],
         [id |-> MsgPiece, fields |-> <<1, 1>>, data |-> <<8>>],
         [id |-> MsgHave, fields |-> <<2>>, data |-> <<>>],
         [id |-> MsgRequest, fields |-> <<0, 10, 6>>, data |-> <<>>],
         [id |-> MsgBitfield, fields |-> <<>>, data |-> <<5>>],
         KeepAlive}
=============================================================================
