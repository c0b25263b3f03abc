------------------------------ MODULE MCInputs ------------------------------
(***************************************************************************)
(* The parts that work on what they are given and on nothing else: a       *)
(* behaviour feeds the bencode parser, or parse_torrent(), or a bitfield.  *)
(***************************************************************************)
EXTENDS Bencode, Torrent, Bitfield

Seqs == INSTANCE SequencesExt

VARIABLE part   \* which of them is at work

NoInfo == [name |-> Unsafe, pieceLength |-> 0, pieces |-> 0, length |-> <<>>, files |-> <<>>]

PathsTo(max) == Seqs!BoundedSeq(Components, max)

\* Lists of at most so many files with these lengths and paths.
Lists(lengths, paths, maxFiles) == Seqs!BoundedSeq([length : lengths, path : paths], maxFiles)

\* Many paths and no interesting lengths: as many hashes as three files need, or as two do.
PathInfos ==
    Infos(Lists({1}, PathsTo(3), 3), {1}, {1}, {6}) \cup Infos(Lists({1}, PathsTo(3), 2), {1}, {1}, {4})

\* Two files, with Limit = 7 the extremes of the type and pairs of lengths whose sum is the
\* limit, one more, and the largest there is.
SomeLengths == {-8, -1, 0, 1, 2, 3, 6, 7}
LengthInfos ==
    Infos(Lists(SomeLengths, {<<1>>, <<2>>}, 2), SomeLengths, -1 .. 4,
          {0, 1, 2, 3, 4, 5, 6, 8, 10, 12, 14})

\* Every message of at most as many bytes as the largest bitfield has.
Messages == Seqs!BoundedSeq(SUBSET Places, ByteCount(MaxBits))

Init ==
    /\ part \in {"parser", "torrent", "bitfield"}
    /\ ParserInit
    /\ IF part = "torrent" THEN TorrentInit(PathInfos) \/ TorrentInit(LengthInfos)
                           ELSE TorrentInit({NoInfo})
    /\ BitfieldInit
    /\ part # "bitfield" => bits = 0

Next ==
    \/ part = "parser" /\ ParserNext /\ UNCHANGED <<part, torrentVars, bitfieldVars>>
    \/ part = "torrent" /\ TorrentNext /\ UNCHANGED <<part, parserVars, bitfieldVars>>
    \/ part = "bitfield" /\ BitfieldNext(Messages) /\ UNCHANGED <<part, parserVars, torrentVars>>

Spec == Init /\ [][Next]_<<part, parserVars, torrentVars, bitfieldVars>>
=============================================================================
