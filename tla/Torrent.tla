------------------------------ MODULE Torrent ------------------------------
(***************************************************************************)
(* parse_torrent() (src/metainfo/torrent.cpp): the second pass over a file *)
(* that BencodeParser has accepted, which decides whether the dictionary   *)
(* can be a torrent and lays its files and pieces out.                     *)
(*                                                                         *)
(* A name is a number, in the order of std::string, and Unsafe stands for  *)
(* any component that check_component() refuses.  An optional field is a   *)
(* sequence of at most one element.  A name, piece length or string of     *)
(* hashes that is missing, or a field of the wrong type, ends the parse at *)
(* once, before anything is checked, and is left out.                      *)
(***************************************************************************)
EXTENDS Integers, Totals

CONSTANTS
    Limit,      \* kLimit: the largest int64_t, half the range of uint64_t
    HashSize,   \* the bytes of a hash
    PieceCap,   \* kPieceLengthCap
    Names       \* file and directory names

Unsafe == 0

ASSUME TorrentAssumption ==
    /\ Limit \in Nat /\ PieceCap \in Nat /\ HashSize \in Nat \ {0}
    /\ Names \subseteq Nat \ {Unsafe}

VARIABLES
    info,     \* the decoded info dictionary
    torrent,  \* the TorrentFile returned, or how far the parse has come
    added,    \* files that calculate_total_length() has added up
    total     \* its total

torrentVars == <<info, torrent, added, total>>

Int64 == (-(Limit + 1)) .. Limit
Unsigned(n) == n % (2 * (Limit + 1))

Components == Names \cup {Unsafe}
Nothing == [is |-> "nothing"]
LaidOut == [is |-> "laid out"]
Refused == [is |-> "refused"]

Option(S) == {<<>>} \cup {<<x>> : x \in S}

\* The dictionaries with these lists of files, lengths, piece lengths and sizes of
\* the string of hashes.
Infos(lists, lengths, pieceLengths, hashes) ==
    [name : Components, pieceLength : pieceLengths, pieces : hashes,
     length : Option(lengths), files : Option(lists)]

----------------------------------------------------------------------------
(* validate_layout() *)

\* The order of std::vector<std::string>.
PathLess(a, b) ==
    \E n \in 0 .. Len(a) :
        /\ n < Len(b)
        /\ \A i \in 1 .. n : a[i] = b[i]
        /\ n = Len(a) \/ a[n + 1] < b[n + 1]

\* std::ranges::sort(): every entry of s once, none less than one before it.
Sortings(s) ==
    {order \in [1 .. Len(s) -> 1 .. Len(s)] :
        /\ \A k \in 1 .. Len(s) : \E j \in 1 .. Len(s) : order[j] = k
        /\ \A j \in 1 .. Len(s), k \in 1 .. Len(s) :
               j < k => order[j] # order[k] /\ ~PathLess(s[order[k]], s[order[j]])}

Paths(files) == [k \in 1 .. Len(files) |-> files[k].path]

\* The paths that validate_layout() sorts.
InfoPaths == IF info.files = <<>> THEN <<>> ELSE Paths(info.files[1])

\* Faulty variant: only equal paths collide.
CollideEqual(curr, next) == curr = next

\* Neighbours in the sorted order: the same path, or a file used as a directory.
Collide(curr, next) ==
    /\ Len(next) >= Len(curr)
    /\ \A i \in 1 .. Len(curr) : curr[i] = next[i]

BadFile(f) == f.length < 0 \/ f.path = <<>> \/ \E i \in 1 .. Len(f.path) : f.path[i] = Unsafe

BadLayout(order) ==
    \/ (info.length = <<>> <=> info.files = <<>>)
    \/ \E k \in 1 .. Len(info.length) : info.length[k] < 0
    \/ info.name = Unsafe
    \/ \E k \in 1 .. Len(info.files) : \E j \in 1 .. Len(info.files[k]) : BadFile(info.files[k][j])
    \/ \E k \in 1 .. (Len(InfoPaths) - 1) : Collide(InfoPaths[order[k]], InfoPaths[order[k + 1]])

----------------------------------------------------------------------------
(* Lengths and pieces *)

\* f.length + total > kLimit, in uint64_t.
Overflows(length) == Unsigned(Unsigned(length) + total) > Limit

\* Faulty variant: the last piece is what the division leaves.
PieceSizeRemainder(t, p) == IF p = t.pieces - 1 THEN t.total % t.pieceLength ELSE t.pieceLength

\* piece_size().
PieceSize(t, p) == IF p = t.pieces - 1 THEN t.total - (p * t.pieceLength) ELSE t.pieceLength

\* generate_pieces() throws: the string of hashes is not a whole number of them.
RaggedHashes == info.pieces % HashSize # 0

Expected(n, pieceLength) ==
    (n \div pieceLength) + (IF n % pieceLength # 0 THEN 1 ELSE 0)

\* parse_torrent() is given one of the dictionaries of S.
TorrentInit(S) == info \in S /\ torrent = Nothing /\ added = 0 /\ total = 0

\* generate_pieces(), the range of the piece length and validate_layout().
Validate ==
    /\ torrent = Nothing
    /\ \E order \in Sortings(InfoPaths) :
           torrent' = IF \/ RaggedHashes
                         \/ info.pieceLength <= 0 \/ info.pieceLength > PieceCap
                         \/ BadLayout(order)
                      THEN Refused ELSE LaidOut
    /\ UNCHANGED <<info, added, total>>

\* calculate_total_length() has files to add up and has not come to the end of them.
MoreFiles == info.length = <<>> /\ added < Len(info.files[1])

\* One round of its loop.
AddLength ==
    /\ torrent = LaidOut /\ MoreFiles
    /\ LET length == info.files[1][added + 1].length
       IN  IF Overflows(length)
           THEN torrent' = Refused /\ UNCHANGED <<added, total>>
           ELSE /\ total' = Unsigned(total + Unsigned(length))
                /\ added' = added + 1
                /\ UNCHANGED torrent
    /\ UNCHANGED info

\* The count of pieces, and the end of parse_torrent().
Finish ==
    /\ torrent = LaidOut /\ ~MoreFiles
    /\ LET length == IF info.length # <<>> THEN info.length[1] ELSE total
           pieces == info.pieces \div HashSize
       IN  torrent' = IF pieces # Expected(length, info.pieceLength) THEN Refused
                      ELSE [is |-> "torrent", total |-> length,
                            pieceLength |-> info.pieceLength, pieces |-> pieces]
    /\ UNCHANGED <<info, added, total>>

TorrentNext == Validate \/ AddLength \/ Finish

\* Whatever dictionary the file may hold.
Files == Seq([length : Int64, path : Seq(Components)])
TorrentSpec == TorrentInit(Infos(Files, Int64, Int64, Nat)) /\ [][TorrentNext]_torrentVars

----------------------------------------------------------------------------
Accepted == torrent.is = "torrent"

Lengths(files) == [k \in 1 .. Len(files) |-> files[k].length]
SumOf(files) == Total([n \in 0 .. Limit |-> n], Lengths(files))
TrueTotal == IF info.length # <<>> THEN info.length[1] ELSE SumOf(info.files[1])

\* No path is another's, or inside another.
Apart(paths) ==
    \A j \in 1 .. Len(paths), k \in 1 .. Len(paths) :
        j # k => ~(/\ Len(paths[j]) <= Len(paths[k])
                   /\ SubSeq(paths[k], 1, Len(paths[j])) = paths[j])

\* The hashes cover n bytes, with a last piece that is not empty.
Covered(n) ==
    \E m \in 0 .. n :
        /\ info.pieces = m * HashSize
        /\ n \in (((m - 1) * info.pieceLength) + 1) .. (m * info.pieceLength)

\* Safe paths, none of them another's or inside another, and lengths that are none below 0.
Layout ==
    /\ info.name # Unsafe
    /\ info.pieceLength \in 1 .. PieceCap
    /\ Len(info.length) + Len(info.files) = 1
    /\ \A k \in 1 .. Len(info.length) : info.length[k] >= 0
    /\ \A k \in 1 .. Len(info.files) : \A j \in 1 .. Len(info.files[k]) :
           /\ info.files[k][j].length >= 0
           /\ info.files[k][j].path \in Seq(Names) \ {<<>>}
    /\ Apart(InfoPaths)

\* The true sum of the lengths fits a signed offset and is what the hashes cover.
Sound == Layout /\ TrueTotal <= Limit /\ Covered(TrueTotal)

\* Comparing sorted neighbours is enough, wherever in the list two files that collide
\* stand, and a sum that wraps is noticed ("lengths that overflow" are rejected): the
\* torrents accepted are the sound ones, all of them.
AcceptsSound ==
    /\ Accepted => Sound
    /\ torrent = Refused => ~Sound

\* The bytes of piece p.
Span(p) == (p * torrent.pieceLength) .. ((p * torrent.pieceLength) + PieceSize(torrent, p) - 1)

\* The pieces cut the files up exactly: total_length is the sum of the lengths, every byte
\* is in one piece and in no other, and no piece is empty or longer than the piece length.
PiecesTile ==
    Accepted =>
        /\ torrent.total = TrueTotal
        /\ UNION {Span(p) : p \in 0 .. (torrent.pieces - 1)} = 0 .. (torrent.total - 1)
        /\ \A p \in 0 .. (torrent.pieces - 1) :
               /\ PieceSize(torrent, p) \in 1 .. torrent.pieceLength
               /\ \A q \in 0 .. (torrent.pieces - 1) : p # q => Span(p) \cap Span(q) = {}
============================================================================
