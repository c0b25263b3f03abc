------------------------- MODULE DiskManagerProofs -------------------------
(***************************************************************************)
(* What is on disk is what it is taken for: the theorems of DiskManager.   *)
(***************************************************************************)
EXTENDS DiskManager, TotalsProofs

\* Zenon first, then SMT, with time for a slow machine.
USE ZenonT(6), SMTT(60), ZenonT(60)

----------------------------------------------------------------------------
(* The torrent *)

\* What parse_torrent() lets through.
TorrentOK ==
    /\ lengths \in Seq(0 .. MaxTotal)
    /\ pieceLength \in Nat \ {0}
    /\ totalLength = Total(Width, lengths)

\* Where the files begin when they are laid end to end.
LEMMA BeforeFacts ==
    ASSUME TorrentOK
    PROVE  /\ Len(lengths) \in Nat /\ totalLength \in Nat
           /\ Before(1) = 0 /\ Before(Len(lengths) + 1) = totalLength
           /\ \A i \in 1 .. Len(lengths) : lengths[i] \in Nat
           /\ \A i \in 1 .. (Len(lengths) + 1) : Before(i) \in Nat
           /\ \A i \in 1 .. Len(lengths) : Before(i + 1) = Before(i) + lengths[i]
           /\ \A i \in 1 .. (Len(lengths) + 1), j \in 1 .. (Len(lengths) + 1) :
                  i <= j => Before(i) <= Before(j)
  <1> DEFINE S == 0 .. MaxTotal
             n == Len(lengths)
  <1>1. lengths \in Seq(S) /\ n \in Nat /\ MaxTotal \in Nat
    BY DiskAssumption DEF TorrentOK
  <1>2. Width \in [S -> Nat] /\ \A x \in S : Width[x] = x
    BY <1>1 DEF Width
  <1>3. \A i \in 1 .. (n + 1) : SubSeq(lengths, 1, i - 1) \in Seq(S)
    BY <1>1
  <1>4. \A i \in 1 .. n : lengths[i] \in S
    BY <1>1
  <1> HIDE DEF S
  <1>5. \A i \in 1 .. (n + 1) : Before(i) \in Nat
    BY <1>2, <1>3, TotalType DEF Before
  <1>6. Before(1) = 0
    <2>1. SubSeq(lengths, 1, 1 - 1) = <<>>
      BY <1>1
    <2>2. 0 \in S
      BY <1>1 DEF S
    <2>. QED
      BY <1>2, <2>1, <2>2, TotalOne DEF Before
  <1>7. Before(n + 1) = totalLength
    <2>1. SubSeq(lengths, 1, (n + 1) - 1) = lengths
      BY <1>1
    <2>. QED
      BY <2>1 DEF Before, TorrentOK
  <1>8. ASSUME NEW i \in 1 .. n PROVE Before(i + 1) = Before(i) + lengths[i]
    <2> DEFINE s == SubSeq(lengths, 1, i - 1)
               t == <<lengths[i]>>
    <2>1. s \in Seq(S) /\ t \in Seq(S) /\ Total(Width, t) = lengths[i]
      BY <1>1, <1>2, <1>3, <1>4, TotalOne
    <2>2. SubSeq(lengths, 1, (i + 1) - 1) = s \o t
      BY <1>1
    <2> HIDE DEF s, t
    <2>3. Total(Width, s \o t) = Total(Width, s) + Total(Width, t)
      BY <1>2, <2>1, TotalConcat
    <2>. QED
      BY <2>1, <2>2, <2>3 DEF Before, s
  <1>9. ASSUME NEW i \in 1 .. (n + 1), NEW j \in 1 .. (n + 1), i <= j PROVE Before(i) <= Before(j)
    <2> DEFINE s == SubSeq(lengths, 1, i - 1)
               t == SubSeq(lengths, i, j - 1)
    <2>1. s \in Seq(S) /\ t \in Seq(S)
      BY <1>1, <1>3, <1>9
    <2>2. SubSeq(lengths, 1, j - 1) = s \o t
      BY <1>1, <1>9
    <2> HIDE DEF s, t
    <2>3. /\ Total(Width, s \o t) = Total(Width, s) + Total(Width, t)
          /\ Total(Width, s) \in Nat /\ Total(Width, t) \in Nat
      BY <1>2, <2>1, TotalConcat, TotalType
    <2>4. Before(j) = Before(i) + Total(Width, t)
      BY <2>2, <2>3 DEF Before, s
    <2>. QED
      BY <1>5, <2>3, <2>4
  <1>10. totalLength \in Nat
    BY <1>1, <1>5, <1>7
  <1>11. \A i \in 1 .. n : lengths[i] \in Nat
    BY <1>4 DEF S
  <1>. QED
    BY <1>1, <1>5, <1>6, <1>7, <1>8, <1>9, <1>10, <1>11

\* The pieces tile the torrent.
LEMMA PieceFacts ==
    ASSUME TorrentOK
    PROVE  /\ PieceCount \in Nat
           /\ \A p \in Pieces :
                  /\ p \in Nat /\ p * pieceLength \in Nat /\ PieceSize(p) \in Nat
                  /\ 1 <= PieceSize(p) /\ PieceSize(p) <= pieceLength
                  /\ p * pieceLength + PieceSize(p) <= totalLength
           /\ \A p \in Pieces, q \in Pieces :
                  p < q => p * pieceLength + PieceSize(p) <= q * pieceLength
           /\ \A g \in Nat : g < totalLength =>
                  \E p \in Pieces : p * pieceLength <= g /\ g < p * pieceLength + PieceSize(p)
  <1> DEFINE t == totalLength
             l == pieceLength
             c == PieceCount
  <1>1. t \in Nat /\ l \in Nat \ {0}
    BY BeforeFacts DEF TorrentOK
  <1>2. c = CountOf(t, l)
    BY DEF PieceCount, CountOf
  <1>3. \A p : PieceSize(p) = SizeOf(t, l, c, p)
    BY DEF PieceSize, SizeOf
  <1>4. Pieces = 0 .. (c - 1)
    BY DEF Pieces
  <1> HIDE DEF t, l, c
  <1>. QED
    BY <1>1, <1>2, <1>3, <1>4, Tiling DEF t, l, c

\* A byte of the torrent has one place.
LEMMA OnePlace ==
    ASSUME TorrentOK, NEW i \in 1 .. Len(lengths), NEW j \in 1 .. Len(lengths), NEW k \in Nat,
           k >= 1, k <= lengths[i],
           NEW m \in Nat, m >= 1, m <= lengths[j], Before(i) + k = Before(j) + m
    PROVE  i = j /\ k = m
  <1>1. /\ Len(lengths) \in Nat /\ Before(i) \in Nat /\ Before(j) \in Nat
        /\ Before(i + 1) = Before(i) + lengths[i] /\ Before(j + 1) = Before(j) + lengths[j]
        /\ lengths[i] \in Nat /\ lengths[j] \in Nat
        /\ i < j => Before(i + 1) <= Before(j)
        /\ j < i => Before(j + 1) <= Before(i)
    BY BeforeFacts
  <1>2. ~ i < j
    BY <1>1
  <1>3. ~ j < i
    BY <1>1
  <1>. QED
    BY <1>1, <1>2, <1>3

----------------------------------------------------------------------------
(* The invariant *)

Jobs == [kind : {"none", "recheck", "read", "write"}, piece : Nat, offset : Nat, length : Nat,
         index : Nat, done : Nat, part : Nat, out : Seq(Nat)]

TypeOK ==
    /\ TorrentOK
    /\ disk \in [1 .. Len(lengths) -> Seq(Nat)]
    /\ phase \in {"off", "open", "recheck", "run"}
    /\ opened \in 0 .. Len(lengths)
    /\ files \in Seq([file : 1 .. Len(lengths), offset : Nat, length : Nat \ {0}])
    /\ checked \in 0 .. PieceCount
    /\ stored \subseteq Pieces /\ \A p \in stored : p < checked
    /\ job \in Jobs

\* Where the program is.
PhaseOK ==
    /\ phase = "off" => opened = 0 /\ files = <<>>
    /\ phase \in {"off", "open"} => job = NoJob /\ checked = 0
    /\ phase \in {"recheck", "run"} => opened = Len(lengths)
    /\ phase = "run" => checked = PieceCount

\* The entries lie end to end and end at the cursor, and no opened file is short.
FilesOK ==
    /\ cursor = Before(opened + 1)
    /\ files = <<>> => cursor = 0
    /\ files # <<>> => /\ files[1].offset = 0
                       /\ files[Len(files)].offset + files[Len(files)].length = cursor
    /\ \A j \in 1 .. Len(files) : /\ files[j].offset = Before(files[j].file)
                                  /\ files[j].length = lengths[files[j].file]
    /\ \A j \in 1 .. (Len(files) - 1) : files[j].offset + files[j].length = files[j + 1].offset
    /\ \A i \in 1 .. opened : lengths[i] <= Len(disk[i])

\* The next slice begins in the entry at hand.
SliceOK ==
    job.kind # "none" /\ job.done < job.length =>
        /\ job.index \in 1 .. Len(files)
        /\ files[job.index].offset <= From
        /\ From < files[job.index].offset + files[job.index].length

\* The job is one for a range of a piece.
JobOK ==
    job.kind # "none" =>
        /\ phase = (IF job.kind = "recheck" THEN "recheck" ELSE "run")
        /\ job.piece \in Pieces /\ job.done <= job.length
        /\ job.offset + job.length <= PieceSize(job.piece)
        /\ job.kind = "read" => job.piece \in stored
        /\ job.kind # "read" => job.offset = 0 /\ job.length = PieceSize(job.piece)
        /\ job.kind = "recheck" => job.piece = checked
        /\ job.kind = "write" =>
               job.piece \notin stored /\ job.done < job.length /\ job.part < SliceLength

\* What has been read is what is on disk, byte by byte.
OutOK ==
    job.kind \in {"recheck", "read"} =>
        /\ Len(job.out) = job.done
        /\ \A m \in 1 .. job.done : \E i \in 1 .. Len(lengths) : \E k \in 1 .. lengths[i] :
               /\ Before(i) + k = job.piece * pieceLength + job.offset + m
               /\ disk[i][k] = job.out[m]

\* What has been written of a piece is in place.
WriteOK ==
    job.kind = "write" =>
        \A i \in 1 .. Len(lengths) : \A k \in 1 .. lengths[i] :
            job.piece * pieceLength < Before(i) + k /\ Before(i) + k <= From + job.part
                => disk[i][k] = Before(i) + k

\* What was there at a sync() still is.
DurableOK ==
    \A i \in 1 .. Len(lengths) : \A k \in 1 .. lengths[i] :
        <<i, k>> \in flushed => k <= Len(disk[i]) /\ disk[i][k] # Blank

\* A byte of a file is the right one, or not yet there.
RightOK ==
    \A i \in 1 .. Len(lengths) : \A k \in 1 .. lengths[i] :
        k <= Len(disk[i]) => disk[i][k] \in {Blank, Before(i) + k}

\* What has been reported is safe.
SafeOK ==
    reported => \A i \in 1 .. Len(lengths) : \A k \in 1 .. lengths[i] : <<i, k>> \in flushed

\* What a recheck or a write has found or left.
StoredOK ==
    \A p \in Pieces : p < checked => \/ job.kind = "write" /\ job.piece = p
                                     \/ p \in stored <=> Intact(p)

Inv ==
    /\ TypeOK /\ PhaseOK /\ FilesOK /\ SliceOK /\ JobOK /\ OutOK /\ WriteOK
    /\ RightOK /\ DurableOK /\ SafeOK /\ StoredOK

----------------------------------------------------------------------------
(* The operators *)

\* The smaller and the larger of two numbers.
LEMMA TwoNumbers ==
    ASSUME NEW a \in Int, NEW b \in Int
    PROVE  /\ Min({a, b}) = (IF a <= b THEN a ELSE b)
           /\ Max({a, b}) = (IF a <= b THEN b ELSE a)
  <1> DEFINE S == {a, b}
  <1>1. \E x \in S : \A y \in S : x <= y
    OBVIOUS
  <1>2. Min(S) \in S /\ \A y \in S : Min(S) <= y
    BY <1>1 DEF Min
  <1>3. \E x \in S : \A y \in S : x >= y
    OBVIOUS
  <1>4. Max(S) \in S /\ \A y \in S : Max(S) >= y
    BY <1>3 DEF Max
  <1>. QED
    BY <1>2, <1>4

\* A slice is not empty, and one that is cut short ends where its file does.
LEMMA SliceCut ==
    ASSUME NEW a \in Int, NEW b \in Int, a >= 1, b >= 1
    PROVE  /\ Min({a, b}) \in Nat /\ Min({a, b}) >= 1
           /\ Min({a, b}) <= a /\ Min({a, b}) <= b
           /\ Min({a, b}) # a => Min({a, b}) = b
  <1>1. Min({a, b}) = (IF a <= b THEN a ELSE b)
    BY TwoNumbers
  <1>. QED
    BY <1>1

\* A write changes the bytes it is for, and no others.
LEMMA OverwrittenFacts ==
    ASSUME NEW file \in Seq(Nat), NEW at \in Nat, NEW bytes \in Seq(Nat)
    PROVE  /\ Overwritten(file, at, bytes) \in Seq(Nat)
           /\ Len(Overwritten(file, at, bytes)) >= Len(file)
           /\ \A k \in Nat : at + 1 <= k /\ k <= at + Len(bytes)
                  => Overwritten(file, at, bytes)[k] = bytes[k - at]
           /\ \A k \in 1 .. Len(file) : ~ (at + 1 <= k /\ k <= at + Len(bytes))
                  => Overwritten(file, at, bytes)[k] = file[k]
  <1> DEFINE n == Max({Len(file), at + Len(bytes)})
             E(k) == IF k \in (at + 1) .. (at + Len(bytes)) THEN bytes[k - at]
                     ELSE IF k <= Len(file) THEN file[k] ELSE Blank
             w == [k \in 1 .. n |-> E(k)]
  <1>1. Len(file) \in Nat /\ Len(bytes) \in Nat
    OBVIOUS
  <1>2. n \in Nat /\ n >= Len(file) /\ n >= at + Len(bytes)
    <2> DEFINE a == Len(file)
               b == at + Len(bytes)
    <2>1. a \in Nat /\ b \in Nat /\ a \in Int /\ b \in Int
      BY <1>1
    <2> HIDE DEF a, b
    <2>2. Max({a, b}) = IF a <= b THEN b ELSE a
      BY <2>1, TwoNumbers
    <2>3. Max({a, b}) \in Nat /\ Max({a, b}) >= a /\ Max({a, b}) >= b
      BY <2>1, <2>2
    <2>. QED
      BY <2>3 DEF a, b
  <1>3. \A k \in 1 .. n : E(k) \in Nat
    BY <1>1, <1>2 DEF Blank
  <1>4. Overwritten(file, at, bytes) = w
    BY DEF Overwritten
  <1> HIDE DEF n, E
  <1>5. w \in Seq(Nat) /\ Len(w) = n
    BY <1>2, <1>3
  <1>6. \A k \in Nat : at + 1 <= k /\ k <= at + Len(bytes) => w[k] = bytes[k - at]
    <2> SUFFICES ASSUME NEW k \in Nat, at + 1 <= k, k <= at + Len(bytes) PROVE w[k] = bytes[k - at]
      OBVIOUS
    <2>1. k \in 1 .. n /\ k \in (at + 1) .. (at + Len(bytes))
      BY <1>1, <1>2
    <2>. QED
      BY <2>1 DEF E
  <1>7. \A k \in 1 .. Len(file) : ~ (at + 1 <= k /\ k <= at + Len(bytes)) => w[k] = file[k]
    <2> SUFFICES ASSUME NEW k \in 1 .. Len(file), ~ (at + 1 <= k /\ k <= at + Len(bytes))
                 PROVE  w[k] = file[k]
      OBVIOUS
    <2>1. k \in 1 .. n /\ k \notin (at + 1) .. (at + Len(bytes)) /\ k <= Len(file)
      BY <1>1, <1>2
    <2>. QED
      BY <2>1 DEF E
  <1>. QED
    BY <1>2, <1>4, <1>5, <1>6, <1>7

\* Reserving a file keeps what belongs to it.
LEMMA ReserveFacts ==
    ASSUME NEW file \in Seq(Nat), NEW length \in Nat, NEW supported \in BOOLEAN
    PROVE  /\ Reserve(file, length, supported) \in Seq(Nat)
           /\ Len(Reserve(file, length, supported)) >= length
           /\ \A k \in 1 .. length : Reserve(file, length, supported)[k] =
                                         IF k <= Len(file) THEN file[k] ELSE Blank
  <1> DEFINE n == IF length > 0 /\ supported THEN Max({Len(file), length}) ELSE length
             E(k) == IF k <= Len(file) THEN file[k] ELSE Blank
             w == [k \in 1 .. n |-> E(k)]
  <1>1. Len(file) \in Nat
    OBVIOUS
  <1>2. n \in Nat /\ n >= length
    <2> DEFINE a == Len(file)
    <2>1. a \in Nat /\ a \in Int /\ length \in Int
      BY <1>1
    <2> HIDE DEF a
    <2>2. Max({a, length}) = IF a <= length THEN length ELSE a
      BY <2>1, TwoNumbers
    <2>3. Max({a, length}) \in Nat /\ Max({a, length}) >= length
      BY <2>1, <2>2
    <2>. QED
      BY <2>3 DEF a
  <1>3. \A k \in 1 .. n : E(k) \in Nat
    BY <1>1, <1>2 DEF Blank
  <1>4. Reserve(file, length, supported) = w
    BY DEF Reserve
  <1> HIDE DEF n, E
  <1>5. w \in Seq(Nat) /\ Len(w) = n
    BY <1>2, <1>3
  <1>6. \A k \in 1 .. length : w[k] = E(k)
    BY <1>1, <1>2
  <1>. QED
    BY <1>2, <1>4, <1>5, <1>6 DEF E

\* The bytes of a piece that a write is given are the right ones.
LEMMA SourceFacts ==
    ASSUME NEW p \in Nat, pieceLength \in Nat, p * pieceLength \in Nat, PieceSize(p) \in Nat,
           NEW pos \in Nat, NEW n \in Nat, pos + n <= PieceSize(p)
    PROVE  /\ Source(p, pos, n) \in Seq(Nat) /\ Len(Source(p, pos, n)) = n
           /\ \A k \in 1 .. n : Source(p, pos, n)[k] = p * pieceLength + pos + k
  <1> DEFINE b == p * pieceLength
             E(k) == IF pos + k <= PieceSize(p) THEN Piece(p)[pos + k] ELSE Blank
             w == [k \in 1 .. n |-> E(k)]
  <1>1. \A k \in 1 .. n : E(k) = Piece(p)[pos + k] /\ pos + k \in 1 .. PieceSize(p)
    OBVIOUS
  <1>2. \A k \in 1 .. n : E(k) = b + (pos + k)
    BY <1>1 DEF Piece
  <1>3. Source(p, pos, n) = w
    BY DEF Source
  <1>4. b \in Nat
    OBVIOUS
  <1> HIDE DEF b, E
  <1>5. w \in Seq(Nat) /\ Len(w) = n
    BY <1>2, <1>4
  <1>6. \A k \in 1 .. n : w[k] = b + pos + k
    BY <1>2, <1>4
  <1>. QED
    BY <1>3, <1>5, <1>6 DEF b

\* n bytes of a file, and what they are joined to.
LEMMA CutFacts ==
    ASSUME NEW d \in Seq(Nat), NEW a \in Nat, NEW n \in Nat, a + n <= Len(d)
    PROVE  /\ SubSeq(d, a + 1, a + n) \in Seq(Nat) /\ Len(SubSeq(d, a + 1, a + n)) = n
           /\ \A m \in 1 .. n : SubSeq(d, a + 1, a + n)[m] = d[a + m]
  <1> DEFINE t == SubSeq(d, a + 1, a + n)
  <1>1. t \in Seq(Nat)
    OBVIOUS
  <1>2. Len(t) = n
    OBVIOUS
  <1>3. ASSUME NEW m \in 1 .. n PROVE t[m] = d[a + m]
    OBVIOUS
  <1>. QED
    BY <1>1, <1>2, <1>3

\* What a read adds to the bytes it has: they stay, and the new ones follow.
LEMMA JoinFacts ==
    ASSUME NEW o \in Seq(Nat), NEW t \in Seq(Nat)
    PROVE  /\ o \o t \in Seq(Nat) /\ Len(o \o t) = Len(o) + Len(t)
           /\ \A m \in 1 .. Len(o) : (o \o t)[m] = o[m]
           /\ \A m \in 1 .. Len(t) : (o \o t)[Len(o) + m] = t[m]
  OBVIOUS

\* The bytes that a sync() makes safe.
LEMMA PositionsMember ==
    ASSUME NEW contents, NEW i, NEW k
    PROVE  <<i, k>> \in Positions(contents) <=>
               i \in 1 .. Len(lengths) /\ k \in 1 .. Len(contents[i]) /\ contents[i][k] # Blank
  BY DEF Positions

----------------------------------------------------------------------------
(* The steps *)

\* The torrent stays what it is.
LEMMA SameTorrent ==
    ASSUME UNCHANGED torrent
    PROVE  /\ lengths' = lengths /\ pieceLength' = pieceLength /\ totalLength' = totalLength
           /\ PieceCount' = PieceCount /\ Pieces' = Pieces /\ TorrentOK' = TorrentOK
           /\ \A i : Before(i)' = Before(i)
           /\ \A p : PieceSize(p)' = PieceSize(p) /\ Piece(p)' = Piece(p)
  <1>1. lengths' = lengths /\ pieceLength' = pieceLength /\ totalLength' = totalLength
    BY DEF torrent
  <1>2. PieceCount' = PieceCount /\ Pieces' = Pieces /\ TorrentOK' = TorrentOK
    BY <1>1 DEF PieceCount, Pieces, TorrentOK
  <1>3. \A i : Before(i)' = Before(i)
    BY <1>1 DEF Before
  <1>4. \A p : PieceSize(p)' = PieceSize(p)
    BY <1>1, <1>2 DEF PieceSize
  <1>5. \A p : Piece(p)' = Piece(p)
    BY <1>1, <1>4 DEF Piece
  <1>. QED
    BY <1>1, <1>2, <1>3, <1>4, <1>5

\* A step that leaves the files alone.
LEMMA Undisturbed ==
    ASSUME Inv, UNCHANGED <<torrent, disk, flushed, layout, reported>>
    PROVE  /\ FilesOK' /\ RightOK' /\ DurableOK' /\ SafeOK'
           /\ \A p : Intact(p)' = Intact(p)
  <1>1. /\ lengths' = lengths /\ pieceLength' = pieceLength
        /\ disk' = disk /\ flushed' = flushed /\ reported' = reported
        /\ opened' = opened /\ cursor' = cursor /\ files' = files
    BY DEF torrent, layout
  <1>2. (\A i : Before(i)' = Before(i)) /\ (\A p : PieceSize(p)' = PieceSize(p))
    BY SameTorrent
  <1>3. FilesOK'
    BY <1>1, <1>2 DEF Inv, FilesOK
  <1>4. RightOK' /\ DurableOK' /\ SafeOK'
    BY <1>1, <1>2 DEF Inv, RightOK, DurableOK, SafeOK, Blank
  <1>5. \A p : Intact(p)' = Intact(p)
    BY <1>1, <1>2 DEF Intact
  <1>. QED
    BY <1>3, <1>4, <1>5

\* The entries of files_.
LEMMA EntryFacts ==
    ASSUME TypeOK
    PROVE  /\ Len(files) \in Nat
           /\ \A j \in 1 .. Len(files) : /\ files[j].file \in 1 .. Len(lengths)
                                         /\ files[j].offset \in Nat
                                         /\ files[j].length \in Nat /\ files[j].length > 0
  <1> DEFINE R == [file : 1 .. Len(lengths), offset : Nat, length : Nat \ {0}]
  <1>1. \A r \in R : /\ r.file \in 1 .. Len(lengths) /\ r.offset \in Nat
                     /\ r.length \in Nat /\ r.length > 0
    OBVIOUS
  <1>2. files \in Seq(R)
    BY DEF TypeOK
  <1> HIDE DEF R
  <1>3. Len(files) \in Nat /\ \A j \in 1 .. Len(files) : files[j] \in R
    BY <1>2
  <1>. QED
    BY <1>1, <1>3

\* The fields of a job.
LEMMA JobFacts ==
    ASSUME NEW j \in Jobs
    PROVE  /\ j.kind \in {"none", "recheck", "read", "write"}
           /\ j.piece \in Nat /\ j.offset \in Nat /\ j.length \in Nat /\ j.index \in Nat
           /\ j.done \in Nat /\ j.part \in Nat /\ j.out \in Seq(Nat)
  BY DEF Jobs

\* locate(): the entry that holds the byte at an offset within the torrent.
LEMMA Located ==
    ASSUME TypeOK, PhaseOK, FilesOK, phase \in {"recheck", "run"}, NEW g \in Nat, g < totalLength
    PROVE  /\ Locate(g) \in 1 .. Len(files)
           /\ files[Locate(g)].offset <= g
           /\ g < files[Locate(g)].offset + files[Locate(g)].length
  <1> DEFINE n == Len(files)
             I == {k \in 1 .. n : files[k].offset <= g}
             x == Max(I)
  <1>1. /\ n \in Nat /\ \A k \in 1 .. n : files[k].offset \in Nat /\ files[k].length \in Nat
        /\ opened = Len(lengths) /\ cursor = totalLength /\ totalLength \in Nat
    <2>1. totalLength \in Nat /\ Before(Len(lengths) + 1) = totalLength
      BY BeforeFacts DEF TypeOK
    <2>2. opened = Len(lengths) /\ cursor = Before(opened + 1)
      BY DEF PhaseOK, FilesOK
    <2>3. n \in Nat /\ \A k \in 1 .. n : files[k].offset \in Nat /\ files[k].length \in Nat
      BY EntryFacts
    <2>. QED
      BY <2>1, <2>2, <2>3
  <1>2. n > 0 /\ files[1].offset = 0 /\ files[n].offset + files[n].length = cursor
    BY <1>1 DEF TypeOK, FilesOK
  <1>3. I \subseteq 1 .. n /\ 1 \in I
    BY <1>1, <1>2
  <1> HIDE DEF I
  <1>4. x \in I /\ \A k \in I : x >= k
    BY <1>1, <1>3, MinMaxIn
  <1> HIDE DEF x
  <1>5. x \in 1 .. n /\ files[x].offset <= g
    BY <1>4 DEF I
  <1>6. g < files[x].offset + files[x].length
    <2>1. CASE x = n
      BY <1>1, <1>2, <1>5, <2>1
    <2>2. CASE x # n
      <3>1. x + 1 \in 1 .. n /\ x \in 1 .. (n - 1)
        BY <1>1, <1>5, <2>2
      <3>2. x + 1 \notin I
        BY <1>1, <1>4, <1>5
      <3>3. files[x + 1].offset > g
        BY <1>1, <3>1, <3>2 DEF I
      <3>4. files[x].offset + files[x].length = files[x + 1].offset
        BY <3>1 DEF FilesOK
      <3>. QED
        BY <1>1, <1>5, <3>1, <3>3, <3>4
    <2>. QED
      BY <2>1, <2>2
  <1>. QED
    BY <1>5, <1>6 DEF Locate, I, x

\* for_each_slice() begins with the entry that holds the first byte of the range.
LEMMA NewJobFacts ==
    ASSUME TypeOK, PhaseOK, FilesOK, phase \in {"recheck", "run"},
           NEW kind \in {"recheck", "read", "write"}, NEW p \in Pieces,
           NEW offset \in Nat, NEW length \in Nat, length >= 1, offset + length <= PieceSize(p),
           NEW j, j = NewJob(kind, p, offset, length)
    PROVE  /\ j \in Jobs /\ j.kind = kind /\ j.piece = p /\ j.offset = offset /\ j.length = length
           /\ j.done = 0 /\ j.part = 0 /\ j.out = <<>>
           /\ j.index \in 1 .. Len(files)
           /\ files[j.index].offset <= p * pieceLength + offset
           /\ p * pieceLength + offset < files[j.index].offset + files[j.index].length
  <1> DEFINE b == p * pieceLength
             g == b + offset
  <1>1. /\ p \in Nat /\ b \in Nat /\ PieceSize(p) \in Nat /\ totalLength \in Nat
        /\ b + PieceSize(p) <= totalLength
    BY PieceFacts, BeforeFacts DEF TypeOK
  <1>2. g \in Nat /\ g < totalLength
    BY <1>1
  <1>3. j = [kind |-> kind, piece |-> p, offset |-> offset, length |-> length,
             index |-> Locate(g), done |-> 0, part |-> 0, out |-> <<>>]
    BY DEF NewJob
  <1> HIDE DEF g
  <1>4. /\ Locate(g) \in 1 .. Len(files) /\ files[Locate(g)].offset <= g
        /\ g < files[Locate(g)].offset + files[Locate(g)].length
    BY <1>2, Located
  <1> DEFINE x == Locate(g)
  <1>5. x \in 1 .. Len(files) /\ x \in Nat
    BY <1>4, EntryFacts
  <1> HIDE DEF x
  <1>6. j = [kind |-> kind, piece |-> p, offset |-> offset, length |-> length,
             index |-> x, done |-> 0, part |-> 0, out |-> <<>>]
    BY <1>3 DEF x
  <1>7. /\ j.kind = kind /\ j.piece = p /\ j.offset = offset /\ j.length = length
        /\ j.done = 0 /\ j.part = 0 /\ j.out = <<>> /\ j.index = x
    BY <1>6
  <1>8. j \in Jobs
    BY <1>1, <1>5, <1>6 DEF Jobs
  <1>9. files[x].offset <= b + offset /\ b + offset < files[x].offset + files[x].length
    BY <1>4 DEF g, x
  <1>. QED
    BY <1>5, <1>7, <1>8, <1>9

\* A read or a write begins.
LEMMA JobStarts ==
    ASSUME Inv, job = NoJob,
           UNCHANGED <<torrent, disk, flushed, phase, layout, checked, stored, completed, reported>>,
           NEW kind \in {"recheck", "read", "write"}, NEW p \in Pieces,
           NEW offset \in Nat, NEW length \in Nat, length >= 1, offset + length <= PieceSize(p),
           job' = NewJob(kind, p, offset, length),
           phase = (IF kind = "recheck" THEN "recheck" ELSE "run"),
           kind = "recheck" => p = checked,
           kind = "read" => p \in stored,
           kind = "write" => p \notin stored,
           kind # "read" => offset = 0 /\ length = PieceSize(p)
    PROVE  Inv'
  <1>1. /\ lengths' = lengths /\ pieceLength' = pieceLength /\ disk' = disk
        /\ phase' = phase /\ opened' = opened /\ files' = files
        /\ checked' = checked /\ stored' = stored
    BY DEF torrent, layout
  <1>2. /\ PieceCount' = PieceCount /\ Pieces' = Pieces /\ TorrentOK' = TorrentOK
        /\ (\A i : Before(i)' = Before(i)) /\ (\A q : PieceSize(q)' = PieceSize(q))
    BY SameTorrent
  <1>3. FilesOK' /\ RightOK' /\ DurableOK' /\ SafeOK' /\ \A q : Intact(q)' = Intact(q)
    BY Undisturbed
  <1> DEFINE j == job'
  <1>4. /\ j \in Jobs /\ j.kind = kind /\ j.piece = p /\ j.offset = offset /\ j.length = length
        /\ j.done = 0 /\ j.part = 0 /\ j.out = <<>>
        /\ j.index \in 1 .. Len(files)
        /\ files[j.index].offset <= p * pieceLength + offset
        /\ p * pieceLength + offset < files[j.index].offset + files[j.index].length
    BY NewJobFacts DEF Inv
  <1>5. p \in Nat /\ p * pieceLength \in Nat /\ PieceSize(p) \in Nat
    BY PieceFacts DEF Inv, TypeOK
  <1>6. TypeOK'
    BY <1>1, <1>2, <1>4 DEF Inv, TypeOK
  <1>7. PhaseOK'
    BY <1>1, <1>2 DEF Inv, PhaseOK
  <1>8. From' = p * pieceLength + offset
    BY <1>1, <1>4, <1>5 DEF From
  <1>9. SliceOK'
    BY <1>1, <1>4, <1>8 DEF SliceOK
  <1>10. 0 < SliceLength'
    <2> DEFINE a == length
               f == files[j.index]
               b == f.length - ((p * pieceLength + offset) - f.offset)
    <2>1. f.offset \in Nat /\ f.length \in Nat
      BY <1>4, EntryFacts DEF Inv
    <2>2. a \in Int /\ b \in Int /\ a >= 1 /\ b >= 1
      BY <1>4, <1>5, <2>1
    <2>3. FileOffset' = (p * pieceLength + offset) - f.offset
      BY <1>1, <1>8 DEF FileOffset
    <2>4. j.length - j.done = a /\ files'[j.index].length - FileOffset' = b
      BY <1>1, <1>4, <2>3
    <2>5. SliceLength' = Min({a, b})
      BY <2>4 DEF SliceLength
    <2> HIDE DEF a, b
    <2>6. Min({a, b}) \in Nat /\ Min({a, b}) >= 1
      BY <2>2, SliceCut
    <2>. QED
      BY <2>5, <2>6
  <1>11. JobOK'
    <2>1. j.done <= j.length /\ j.done < j.length /\ j.part < SliceLength'
      BY <1>4, <1>10
    <2>. QED
      BY <1>1, <1>2, <1>4, <2>1 DEF JobOK
  <1>12. OutOK'
    BY <1>4 DEF OutOK
  <1>13. WriteOK'
    <2> SUFFICES ASSUME kind = "write", NEW i \in 1 .. Len(lengths), NEW k \in 1 .. lengths[i],
                        p * pieceLength < Before(i) + k, Before(i) + k <= From' + 0
                 PROVE  FALSE
      BY <1>1, <1>2, <1>4 DEF WriteOK
    <2>1. Before(i) \in Nat
      BY BeforeFacts DEF Inv, TypeOK
    <2>. QED
      BY <1>5, <1>8, <2>1
  <1>14. StoredOK'
    <2>1. job.kind = "none"
      BY DEF NoJob
    <2>. QED
      BY <1>1, <1>2, <1>3, <2>1 DEF Inv, StoredOK
  <1>. QED
    BY <1>3, <1>6, <1>7, <1>9, <1>11, <1>12, <1>13, <1>14 DEF Inv

\* A slice lies within its file, and where it does not end the range the next entry
\* goes on.
LEMMA SliceFacts ==
    ASSUME Inv, job.kind # "none", job.done < job.length, NEW f, f = files[job.index]
    PROVE  /\ f.file \in 1 .. Len(lengths) /\ f.offset = Before(f.file)
           /\ Before(f.file) \in Nat /\ lengths[f.file] \in Nat
           /\ FileOffset \in Nat /\ From \in Nat /\ Before(f.file) + FileOffset = From
           /\ SliceLength \in Nat /\ SliceLength >= 1
           /\ job.done + SliceLength <= job.length
           /\ FileOffset + SliceLength <= lengths[f.file]
           /\ lengths[f.file] <= Len(disk[f.file])
           /\ job.done + SliceLength < job.length =>
                  /\ job.index + 1 \in 1 .. Len(files)
                  /\ files[job.index + 1].offset = From + SliceLength
                  /\ files[job.index + 1].length \in Nat /\ files[job.index + 1].length > 0
  <1> DEFINE base == job.piece * pieceLength
             n == Len(files)
  <1>1. /\ job.piece \in Nat /\ job.offset \in Nat /\ job.length \in Nat
        /\ job.done \in Nat /\ job.index \in Nat
    BY JobFacts DEF Inv, TypeOK
  <1>2. /\ job.piece \in Pieces /\ job.offset + job.length <= PieceSize(job.piece)
        /\ phase \in {"recheck", "run"}
    BY DEF Inv, JobOK
  <1>3. /\ base \in Nat /\ PieceSize(job.piece) \in Nat /\ totalLength \in Nat
        /\ base + PieceSize(job.piece) <= totalLength
    BY <1>2, PieceFacts, BeforeFacts DEF Inv, TypeOK
  <1>4. job.index \in 1 .. n /\ f.offset <= From /\ From < f.offset + f.length
    BY DEF Inv, SliceOK
  <1>5. n \in Nat /\ f.file \in 1 .. Len(lengths) /\ f.offset \in Nat /\ f.length \in Nat
    BY <1>4, EntryFacts DEF Inv
  <1>6. f.offset = Before(f.file) /\ f.length = lengths[f.file]
    BY <1>4 DEF Inv, FilesOK
  <1>7. opened = Len(lengths) /\ cursor = totalLength
    <2>1. opened = Len(lengths) /\ cursor = Before(opened + 1)
      BY <1>2 DEF Inv, PhaseOK, FilesOK
    <2>2. Before(Len(lengths) + 1) = totalLength
      BY BeforeFacts DEF Inv, TypeOK
    <2>. QED
      BY <2>1, <2>2
  <1>8. lengths[f.file] <= Len(disk[f.file])
    BY <1>5, <1>7 DEF Inv, FilesOK
  <1>9. From = base + job.offset + job.done /\ From \in Nat
    BY <1>1, <1>3 DEF From
  <1> DEFINE a == job.length - job.done
             b == f.length - FileOffset
  <1>10. FileOffset = From - f.offset /\ FileOffset \in Nat
    BY <1>4, <1>5, <1>9 DEF FileOffset
  <1>11. a \in Int /\ b \in Int /\ a >= 1 /\ b >= 1
    BY <1>1, <1>4, <1>5, <1>9, <1>10
  <1>12. SliceLength = Min({a, b})
    BY DEF SliceLength
  <1> HIDE DEF a, b
  <1>13. /\ SliceLength \in Nat /\ SliceLength >= 1 /\ SliceLength <= a /\ SliceLength <= b
         /\ SliceLength # a => SliceLength = b
    BY <1>11, <1>12, SliceCut
  <1>14. job.done + SliceLength <= job.length /\ FileOffset + SliceLength <= f.length
    BY <1>1, <1>5, <1>10, <1>13 DEF a, b
  <1>15. ASSUME job.done + SliceLength < job.length
         PROVE  /\ job.index + 1 \in 1 .. n
                /\ files[job.index + 1].offset = From + SliceLength
                /\ files[job.index + 1].length \in Nat /\ files[job.index + 1].length > 0
    <2>1. SliceLength = b
      BY <1>1, <1>13, <1>15 DEF a
    <2>2. From + SliceLength = f.offset + f.length
      BY <1>5, <1>9, <1>10, <2>1 DEF b
    <2>3. From + SliceLength < totalLength
      BY <1>1, <1>2, <1>3, <1>9, <1>13, <1>15
    <2>4. job.index # n
      <3> SUFFICES ASSUME job.index = n PROVE FALSE
        OBVIOUS
      <3>1. files # <<>>
        BY <1>4, <1>5 DEF Inv, TypeOK
      <3>2. f.offset + f.length = cursor
        BY <3>1 DEF Inv, FilesOK
      <3>. QED
        BY <1>3, <1>7, <1>9, <1>13, <2>2, <2>3, <3>2
    <2>5. job.index + 1 \in 1 .. n /\ job.index \in 1 .. (n - 1)
      BY <1>4, <1>5, <2>4
    <2>6. files[job.index].offset + files[job.index].length = files[job.index + 1].offset
      BY <2>5 DEF Inv, FilesOK
    <2>7. files[job.index + 1].length \in Nat /\ files[job.index + 1].length > 0
      BY <2>5, EntryFacts DEF Inv
    <2>. QED
      BY <2>2, <2>5, <2>6, <2>7
  <1>16. Before(f.file) \in Nat /\ lengths[f.file] \in Nat /\ Before(f.file) + FileOffset = From
    BY <1>5, <1>6, <1>9, <1>10
  <1>. QED
    BY <1>5, <1>6, <1>8, <1>9, <1>10, <1>13, <1>14, <1>15, <1>16

\* One slice of a read.
LEMMA ReadSliceKeeps ==
    ASSUME Inv, ReadSlice
    PROVE  Inv'
  <1> DEFINE f == files[job.index]
             n == SliceLength
             d == disk[f.file]
             o == job.out
             t == SubSeq(d, FileOffset + 1, FileOffset + n)
             j == job'
             base == job.piece * pieceLength + job.offset
  <1>1. /\ lengths' = lengths /\ pieceLength' = pieceLength /\ disk' = disk
        /\ phase' = phase /\ opened' = opened /\ files' = files
        /\ checked' = checked /\ stored' = stored
        /\ UNCHANGED <<torrent, disk, flushed, layout, reported>>
    BY DEF ReadSlice, torrent, layout
  <1>2. /\ PieceCount' = PieceCount /\ Pieces' = Pieces /\ TorrentOK' = TorrentOK
        /\ (\A i : Before(i)' = Before(i)) /\ (\A q : PieceSize(q)' = PieceSize(q))
    BY <1>1, SameTorrent
  <1>3. FilesOK' /\ RightOK' /\ DurableOK' /\ SafeOK' /\ \A q : Intact(q)' = Intact(q)
    BY <1>1, Undisturbed
  <1>4. /\ job.kind \in {"recheck", "read"} /\ job.kind # "none" /\ job.done < job.length
        /\ FileOffset + n <= Len(disk[f.file])
        /\ j = [job EXCEPT !.out = @ \o t, !.done = @ + n, !.index = @ + 1]
    BY DEF ReadSlice
  <1>5. /\ f.file \in 1 .. Len(lengths)
        /\ Before(f.file) \in Nat /\ lengths[f.file] \in Nat
        /\ FileOffset \in Nat /\ From \in Nat /\ Before(f.file) + FileOffset = From
        /\ n \in Nat /\ n >= 1 /\ job.done + n <= job.length
        /\ FileOffset + n <= lengths[f.file]
        /\ job.done + n < job.length =>
               /\ job.index + 1 \in 1 .. Len(files)
               /\ files[job.index + 1].offset = From + n
               /\ files[job.index + 1].length \in Nat /\ files[job.index + 1].length > 0
    BY <1>4, SliceFacts
  <1>6. job \in Jobs /\ job.done \in Nat /\ job.index \in Nat /\ job.out \in Seq(Nat)
        /\ job.length \in Nat /\ job.offset \in Nat /\ job.piece \in Nat
    BY JobFacts DEF Inv, TypeOK
  <1>7. disk[f.file] \in Seq(Nat)
    BY <1>5 DEF Inv, TypeOK
  <1>8. /\ t \in Seq(Nat) /\ Len(t) = n
        /\ \A m \in 1 .. n : t[m] = d[FileOffset + m]
    <2>1. d \in Seq(Nat) /\ FileOffset + n <= Len(d)
      BY <1>4, <1>7
    <2> HIDE DEF d, n
    <2>. QED
      BY <1>5, <2>1, CutFacts
  <1>9. Len(o) = job.done
    BY <1>4 DEF Inv, OutOK
  <1> HIDE DEF t
  <1>10. /\ o \o t \in Seq(Nat) /\ Len(o \o t) = job.done + n
         /\ \A m \in 1 .. job.done : (o \o t)[m] = o[m]
         /\ \A m \in 1 .. n : (o \o t)[job.done + m] = t[m]
    <2>1. o \in Seq(Nat)
      BY <1>6
    <2> HIDE DEF o
    <2>2. /\ o \o t \in Seq(Nat) /\ Len(o \o t) = Len(o) + Len(t)
          /\ \A m \in 1 .. Len(o) : (o \o t)[m] = o[m]
          /\ \A m \in 1 .. Len(t) : (o \o t)[Len(o) + m] = t[m]
      BY <1>8, <2>1, JoinFacts
    <2>. QED
      BY <1>8, <1>9, <2>2
  <1> DEFINE c == o \o t
  <1> HIDE DEF c, n
  <1>11. /\ j.kind = job.kind /\ j.piece = job.piece /\ j.offset = job.offset
         /\ j.length = job.length /\ j.part = job.part
         /\ j.out = c /\ j.done = job.done + n /\ j.index = job.index + 1
         /\ j \in Jobs
    <2>1. j = [job EXCEPT !.out = c, !.done = job.done + n, !.index = job.index + 1]
      BY <1>4 DEF c
    <2>2. c \in Seq(Nat) /\ job.done + n \in Nat /\ job.index + 1 \in Nat
      BY <1>5, <1>6, <1>10 DEF c
    <2>. QED
      BY <1>6, <2>1, <2>2 DEF Jobs
  <1>12. TypeOK'
    BY <1>1, <1>2, <1>11 DEF Inv, TypeOK
  <1>13. PhaseOK'
    <2>1. phase \in {"recheck", "run"}
      BY <1>4 DEF Inv, JobOK
    <2>. QED
      BY <1>1, <1>2, <2>1 DEF Inv, PhaseOK
  <1>14. From' = From + n
    <2>1. job.piece * pieceLength \in Nat
      BY <1>4, PieceFacts DEF Inv, TypeOK, JobOK
    <2>. QED
      BY <1>1, <1>5, <1>6, <1>11, <2>1 DEF From
  <1>15. SliceOK'
    <2> SUFFICES ASSUME job.done + n < job.length
                 PROVE  /\ j.index \in 1 .. Len(files)
                        /\ files[j.index].offset <= From'
                        /\ From' < files[j.index].offset + files[j.index].length
      BY <1>1, <1>11 DEF SliceOK
    <2>. QED
      BY <1>5, <1>11, <1>14
  <1>16. JobOK'
    BY <1>1, <1>2, <1>4, <1>5, <1>11 DEF Inv, JobOK
  <1>17. OutOK'
    <2> SUFFICES ASSUME NEW m \in 1 .. (job.done + n)
                 PROVE  \E i \in 1 .. Len(lengths) : \E k \in 1 .. lengths[i] :
                            Before(i) + k = base + m /\ disk[i][k] = c[m]
      BY <1>1, <1>2, <1>10, <1>11 DEF OutOK, c
    <2>1. CASE m <= job.done
      <3>1. m \in 1 .. job.done /\ c[m] = o[m]
        BY <1>5, <1>6, <1>10, <2>1 DEF c
      <3>. QED
        BY <1>4, <3>1 DEF Inv, OutOK
    <2>2. CASE m > job.done
      <3> DEFINE k == FileOffset + (m - job.done)
      <3>1. m - job.done \in 1 .. n /\ k \in 1 .. lengths[f.file]
        BY <1>5, <1>6, <2>2
      <3>2. c[job.done + (m - job.done)] = d[k]
        BY <1>8, <1>10, <3>1 DEF c
      <3>3. job.done + (m - job.done) = m
        BY <1>5, <1>6
      <3>4. Before(f.file) + k = From + (m - job.done)
        BY <1>5, <1>6
      <3>5. From + (m - job.done) = base + m
        <4>1. job.piece * pieceLength \in Nat
          BY <1>4, PieceFacts DEF Inv, TypeOK, JobOK
        <4>. QED
          BY <1>5, <1>6, <4>1 DEF From
      <3>. QED
        BY <1>5, <3>1, <3>2, <3>3, <3>4, <3>5
    <2>. QED
      BY <1>5, <1>6, <2>1, <2>2
  <1>18. WriteOK'
    BY <1>4, <1>11 DEF WriteOK
  <1>19. StoredOK'
    BY <1>1, <1>2, <1>3, <1>4, <1>11 DEF Inv, StoredOK
  <1>. QED
    BY <1>3, <1>12, <1>13, <1>15, <1>16, <1>17, <1>18, <1>19 DEF Inv

\* A read of a piece that is in place gives the bytes of the piece.
LEMMA ReadOfIntact ==
    ASSUME Inv, job.kind \in {"recheck", "read"}, Intact(job.piece), NEW m \in 1 .. job.done
    PROVE  job.out[m] = job.piece * pieceLength + job.offset + m
  <1> DEFINE base == job.piece * pieceLength
             size == PieceSize(job.piece)
  <1>1. /\ job.piece \in Pieces /\ job.done <= job.length
        /\ job.offset + job.length <= PieceSize(job.piece)
    BY DEF Inv, JobOK
  <1>2. job.offset \in Nat /\ job.length \in Nat /\ job.done \in Nat
    BY JobFacts DEF Inv, TypeOK
  <1>3. base \in Nat /\ size \in Nat
    BY <1>1, PieceFacts DEF Inv, TypeOK
  <1>4. PICK i \in 1 .. Len(lengths) : \E k \in 1 .. lengths[i] :
            Before(i) + k = base + job.offset + m /\ disk[i][k] = job.out[m]
    BY DEF Inv, OutOK
  <1>5. PICK k \in 1 .. lengths[i] :
            Before(i) + k = base + job.offset + m /\ disk[i][k] = job.out[m]
    BY <1>4
  <1>6. base + job.offset + m \in (base + 1) .. (base + size)
    BY <1>1, <1>2, <1>3
  <1>7. disk[i][k] = Before(i) + k
    BY <1>5, <1>6 DEF Intact
  <1>. QED
    BY <1>5, <1>7

\* A recheck accepts a piece if and only if it is in place.
LEMMA RecheckSays ==
    ASSUME Inv, job.kind = "recheck", job.done = job.length
    PROVE  job.out = Piece(job.piece) <=> Intact(job.piece)
  <1> DEFINE p == job.piece
             base == p * pieceLength
             size == PieceSize(p)
  <1>1. /\ p \in Pieces /\ job.offset = 0 /\ job.length = size
        /\ phase = "recheck"
    BY DEF Inv, JobOK
  <1>2. base \in Nat /\ size \in Nat
    BY <1>1, PieceFacts DEF Inv, TypeOK
  <1>3. job.out \in Seq(Nat) /\ Len(job.out) = size
    BY <1>1, JobFacts DEF Inv, TypeOK, OutOK
  <1>4. opened = Len(lengths) /\ \A i \in 1 .. Len(lengths) : lengths[i] <= Len(disk[i])
    BY <1>1 DEF Inv, PhaseOK, FilesOK
  <1>5. ASSUME job.out = Piece(p) PROVE Intact(p)
    <2> SUFFICES ASSUME NEW i \in 1 .. Len(lengths), NEW k \in 1 .. lengths[i],
                        Before(i) + k \in (base + 1) .. (base + size)
                 PROVE  k <= Len(disk[i]) /\ disk[i][k] = Before(i) + k
      BY DEF Intact
    <2> DEFINE m == (Before(i) + k) - base
    <2>1. Before(i) \in Nat /\ lengths[i] \in Nat
      BY BeforeFacts DEF Inv, TypeOK
    <2>2. m \in 1 .. size /\ base + m = Before(i) + k /\ base + job.offset + m = Before(i) + k
      BY <1>1, <1>2, <2>1
    <2>3. PICK a \in 1 .. Len(lengths) : \E b \in 1 .. lengths[a] :
              Before(a) + b = base + job.offset + m /\ disk[a][b] = job.out[m]
      BY <1>1, <2>2 DEF Inv, OutOK
    <2>4. PICK b \in 1 .. lengths[a] :
              Before(a) + b = base + job.offset + m /\ disk[a][b] = job.out[m]
      BY <2>3
    <2>5. lengths[a] \in Nat
      BY BeforeFacts DEF Inv, TypeOK
    <2>6. a = i /\ b = k
      <3>1. /\ k \in Nat /\ k >= 1 /\ k <= lengths[i] /\ b \in Nat /\ b >= 1 /\ b <= lengths[a]
            /\ Before(i) + k = Before(a) + b
        BY <2>1, <2>2, <2>4, <2>5
      <3>. QED
        BY <3>1, OnePlace DEF Inv, TypeOK
    <2>7. job.out[m] = base + m
      BY <1>5, <2>2 DEF Piece
    <2>8. Len(disk[i]) \in Nat
      BY DEF Inv, TypeOK
    <2>9. k <= Len(disk[i])
      BY <1>4, <2>1, <2>8
    <2>. QED
      BY <2>2, <2>4, <2>6, <2>7, <2>9
  <1>6. ASSUME Intact(p) PROVE job.out = Piece(p)
    <2>1. \A m \in 1 .. size : job.out[m] = base + m
      <3> SUFFICES ASSUME NEW m \in 1 .. size PROVE job.out[m] = base + m
        OBVIOUS
      <3>1. job.out[m] = base + job.offset + m
        BY <1>1, <1>6, ReadOfIntact
      <3>. QED
        BY <1>1, <1>2, <3>1
    <2> DEFINE o == job.out
    <2>2. o = [m \in 1 .. Len(o) |-> o[m]]
      BY <1>3
    <2>3. o = [m \in 1 .. size |-> o[m]]
      BY <1>3, <2>2
    <2>. QED
      BY <2>1, <2>3 DEF Piece
  <1>. QED
    BY <1>5, <1>6

\* The verdict on a piece.
LEMMA RecheckKeeps ==
    ASSUME Inv, Recheck
    PROVE  Inv'
  <1>1. /\ lengths' = lengths /\ pieceLength' = pieceLength /\ disk' = disk
        /\ phase' = phase /\ opened' = opened /\ files' = files
        /\ UNCHANGED <<torrent, disk, flushed, layout, reported>>
    BY DEF Recheck, torrent, layout
  <1>2. /\ PieceCount' = PieceCount /\ Pieces' = Pieces /\ TorrentOK' = TorrentOK
    BY <1>1, SameTorrent
  <1>3. FilesOK' /\ RightOK' /\ DurableOK' /\ SafeOK' /\ \A q : Intact(q)' = Intact(q)
    BY <1>1, Undisturbed
  <1> DEFINE p == job.piece
  <1>4. /\ job.kind = "recheck" /\ job.done = job.length /\ job' = NoJob /\ checked' = checked + 1
        /\ stored' = IF job.out = Piece(p) THEN stored \cup {p} ELSE stored
    BY DEF Recheck
  <1>5. phase = "recheck" /\ p \in Pieces /\ p = checked
    BY <1>4 DEF Inv, JobOK
  <1>6. /\ PieceCount \in Nat /\ checked \in Nat /\ checked < PieceCount /\ Pieces \subseteq Nat
        /\ stored \subseteq Pieces /\ \A q \in stored : q < checked
    BY <1>5, PieceFacts DEF Inv, TypeOK, Pieces
  <1>7. NoJob \in Jobs /\ NoJob.kind = "none"
    BY DEF NoJob, Jobs
  <1>8. TypeOK'
    <2>1. stored' \subseteq Pieces /\ \A q \in stored' : q < checked'
      BY <1>4, <1>5, <1>6
    <2>2. checked' \in 0 .. PieceCount
      BY <1>4, <1>6
    <2>. QED
      BY <1>1, <1>2, <1>4, <1>7, <2>1, <2>2 DEF Inv, TypeOK
  <1>9. PhaseOK'
    BY <1>1, <1>2, <1>5 DEF Inv, PhaseOK
  <1>10. SliceOK' /\ JobOK' /\ OutOK' /\ WriteOK'
    BY <1>4, <1>7 DEF SliceOK, JobOK, OutOK, WriteOK
  <1>11. StoredOK'
    <2> SUFFICES ASSUME NEW q \in Pieces, q < checked + 1 PROVE q \in stored' <=> Intact(q)
      BY <1>2, <1>3, <1>4 DEF StoredOK
    <2>1. CASE q = p
      <3>1. p \notin stored
        BY <1>5, <1>6
      <3>. QED
        BY <1>4, <2>1, <3>1, RecheckSays
    <2>2. CASE q # p
      <3>1. q < checked
        BY <1>5, <1>6, <2>2
      <3>2. q \in stored <=> Intact(q)
        BY <1>4, <3>1 DEF Inv, StoredOK
      <3>. QED
        BY <1>4, <2>2, <3>2
    <2>. QED
      BY <2>1, <2>2
  <1>. QED
    BY <1>3, <1>8, <1>9, <1>10, <1>11 DEF Inv

\* The beginning and the end of a phase, and the end of a read.
LEMMA PhasesKeep ==
    ASSUME Inv, Start \/ EndOpen \/ EndRecheck \/ EndRead
    PROVE  Inv'
  <1>1. /\ lengths' = lengths /\ disk' = disk /\ opened' = opened /\ files' = files
        /\ checked' = checked /\ stored' = stored
        /\ UNCHANGED <<torrent, disk, flushed, layout, reported>>
    BY DEF Start, EndOpen, EndRecheck, EndRead, torrent, layout
  <1>2. /\ PieceCount' = PieceCount /\ Pieces' = Pieces /\ TorrentOK' = TorrentOK
    BY <1>1, SameTorrent
  <1>3. FilesOK' /\ RightOK' /\ DurableOK' /\ SafeOK' /\ \A q : Intact(q)' = Intact(q)
    BY <1>1, Undisturbed
  <1>4. NoJob \in Jobs /\ NoJob.kind = "none"
    BY DEF NoJob, Jobs
  <1>5. job' = NoJob
    BY DEF Start, EndOpen, EndRecheck, EndRead, Inv, PhaseOK
  <1>6. phase' \in {"off", "open", "recheck", "run"}
    BY DEF Start, EndOpen, EndRecheck, EndRead, Inv, TypeOK
  <1>7. TypeOK'
    BY <1>1, <1>2, <1>4, <1>5, <1>6 DEF Inv, TypeOK
  <1>8. PhaseOK'
    <2>1. CASE Start
      BY <1>1, <1>2, <2>1 DEF Start, Inv, PhaseOK
    <2>2. CASE EndOpen
      BY <1>1, <1>2, <2>2 DEF EndOpen, Inv, PhaseOK
    <2>3. CASE EndRecheck
      BY <1>1, <1>2, <2>3 DEF EndRecheck, Inv, PhaseOK
    <2>4. CASE EndRead
      BY <1>1, <1>2, <2>4, <1>4 DEF EndRead, Inv, PhaseOK
    <2>. QED
      BY <2>1, <2>2, <2>3, <2>4
  <1>9. SliceOK' /\ JobOK' /\ OutOK' /\ WriteOK'
    BY <1>4, <1>5 DEF SliceOK, JobOK, OutOK, WriteOK
  <1>10. StoredOK'
    <2>1. job.kind # "write"
      BY <1>4 DEF Start, EndOpen, EndRecheck, EndRead, Inv, PhaseOK
    <2>. QED
      BY <1>1, <1>2, <1>3, <2>1 DEF Inv, StoredOK
  <1>. QED
    BY <1>3, <1>7, <1>8, <1>9, <1>10 DEF Inv

\* The actions that begin a read or a write.
LEMMA RecheckReadKeeps ==
    ASSUME Inv, RecheckRead
    PROVE  Inv'
  <1>1. PieceCount \in Nat /\ checked \in Nat /\ checked < PieceCount
    BY PieceFacts DEF Inv, TypeOK, RecheckRead
  <1>2. checked \in Pieces
    BY <1>1 DEF Pieces
  <1>3. PieceSize(checked) \in Nat /\ PieceSize(checked) >= 1
    BY <1>2, PieceFacts DEF Inv, TypeOK
  <1> DEFINE n == PieceSize(checked)
  <1>4. 0 \in Nat /\ 0 + n <= n
    BY <1>3
  <1>5. "recheck" \in {"recheck", "read", "write"} /\ "recheck" # "read" /\ "recheck" # "write"
    OBVIOUS
  <1>6. /\ job = NoJob /\ job' = NewJob("recheck", checked, 0, n)
        /\ phase = "recheck"
        /\ UNCHANGED <<torrent, disk, flushed, phase, layout, checked, stored, completed, reported>>
    BY DEF RecheckRead
  <1>. QED
    BY <1>2, <1>3, <1>4, <1>5, <1>6, JobStarts

\* A read starts with no bytes read.
LEMMA ReadBlockKeeps ==
    ASSUME Inv, NEW p \in Pieces, NEW offset \in Nat, NEW length \in Nat, length >= 1,
           ReadBlock(p, offset, length)
    PROVE  Inv'
  <1>1. "read" \in {"recheck", "read", "write"} /\ "read" # "recheck" /\ "read" # "write"
    OBVIOUS
  <1>2. /\ job = NoJob /\ job' = NewJob("read", p, offset, length)
        /\ phase = "run" /\ p \in stored /\ offset + length <= PieceSize(p)
        /\ UNCHANGED <<torrent, disk, flushed, phase, layout, checked, stored, completed, reported>>
    BY DEF ReadBlock
  <1>. QED
    BY <1>1, <1>2, JobStarts

\* A write starts with no bytes written, and so breaks nothing yet.
LEMMA WritePieceKeeps ==
    ASSUME Inv, NEW p \in Pieces, WritePiece(p)
    PROVE  Inv'
  <1>1. PieceSize(p) \in Nat /\ PieceSize(p) >= 1
    BY PieceFacts DEF Inv, TypeOK
  <1>2. "write" \in {"recheck", "read", "write"} /\ "write" # "recheck" /\ "write" # "read"
    OBVIOUS
  <1>3. 0 \in Nat /\ 0 + PieceSize(p) <= PieceSize(p)
    BY <1>1
  <1>4. /\ job = NoJob /\ job' = NewJob("write", p, 0, PieceSize(p))
        /\ phase = "run" /\ p \notin stored
        /\ UNCHANGED <<torrent, disk, flushed, phase, layout, checked, stored, completed, reported>>
    BY DEF WritePiece
  <1>. QED
    BY <1>1, <1>2, <1>3, <1>4, JobStarts

\* Where the program ends, nothing is left of it; what is on disk need only hold what
\* has been flushed.
LEMMA EndKeeps ==
    ASSUME Inv, End, disk' \in [1 .. Len(lengths) -> Seq(Nat)], RightOK', DurableOK', SafeOK'
    PROVE  Inv'
  <1>1. /\ lengths' = lengths /\ phase' = "off" /\ opened' = 0 /\ cursor' = 0 /\ files' = <<>>
        /\ checked' = 0 /\ stored' = {} /\ job' = NoJob /\ UNCHANGED torrent
    BY DEF End, torrent
  <1>2. /\ PieceCount' = PieceCount /\ Pieces' = Pieces /\ TorrentOK' = TorrentOK
        /\ \A i : Before(i)' = Before(i)
    BY <1>1, SameTorrent
  <1>3. NoJob \in Jobs /\ NoJob.kind = "none"
    BY DEF NoJob, Jobs
  <1>4. /\ PieceCount \in Nat /\ Pieces \subseteq Nat /\ Len(lengths) \in Nat /\ Before(1) = 0
        /\ TorrentOK
    BY PieceFacts, BeforeFacts DEF Inv, TypeOK, Pieces
  <1>5. TypeOK'
    BY <1>1, <1>2, <1>3, <1>4 DEF TypeOK
  <1>6. PhaseOK'
    BY <1>1 DEF PhaseOK
  <1>7. FilesOK'
    BY <1>1, <1>2, <1>4 DEF FilesOK
  <1>8. SliceOK' /\ JobOK' /\ OutOK' /\ WriteOK'
    BY <1>1, <1>3 DEF SliceOK, JobOK, OutOK, WriteOK
  <1>9. StoredOK'
    BY <1>1, <1>2, <1>4 DEF StoredOK
  <1>. QED
    BY <1>5, <1>6, <1>7, <1>8, <1>9 DEF Inv

\* A sync() adds to what is safe, and takes nothing away.
LEMMA SyncKeeps ==
    ASSUME Inv, lengths' = lengths, disk' = disk, flushed' = Positions(disk)
    PROVE  /\ DurableOK'
           /\ reported => \A i \in 1 .. Len(lengths) : \A k \in 1 .. lengths[i] : <<i, k>> \in flushed'
  <1>1. DurableOK'
    <2> SUFFICES ASSUME NEW i \in 1 .. Len(lengths), NEW k \in 1 .. lengths[i], <<i, k>> \in flushed'
                 PROVE  k <= Len(disk[i]) /\ disk[i][k] # Blank
      BY DEF DurableOK, Blank
    <2>1. k \in 1 .. Len(disk[i]) /\ disk[i][k] # Blank
      BY PositionsMember
    <2>. QED
      BY <2>1 DEF Inv, TypeOK
  <1>2. ASSUME reported, NEW i \in 1 .. Len(lengths), NEW k \in 1 .. lengths[i]
        PROVE  <<i, k>> \in flushed'
    <2>1. k <= Len(disk[i]) /\ disk[i][k] # Blank
      BY <1>2 DEF Inv, DurableOK, SafeOK
    <2>2. lengths[i] \in Nat
      BY BeforeFacts DEF Inv, TypeOK
    <2>3. k \in 1 .. Len(disk[i])
      BY <2>1, <2>2 DEF Inv, TypeOK
    <2>. QED
      BY <2>1, <2>3, PositionsMember
  <1>. QED
    BY <1>1, <1>2

\* The program stops, is killed, or loses its power.
LEMMA StopsKeep ==
    ASSUME Inv, Stop \/ Crash \/ \E lost : PowerFails(lost)
    PROVE  Inv'
  <1>1. End /\ lengths' = lengths /\ reported' = reported /\ \A i : Before(i)' = Before(i)
    <2>1. End /\ UNCHANGED torrent /\ reported' = reported
      BY DEF Stop, Crash, PowerFails, End
    <2>. QED
      BY <2>1, SameTorrent
  <1>2. disk \in [1 .. Len(lengths) -> Seq(Nat)]
    BY DEF Inv, TypeOK
  <1>3. CASE Stop
    <2>1. disk' = disk /\ flushed' = Positions(disk)
      BY <1>3 DEF Stop, Synced
    <2>2. DurableOK' /\ SafeOK'
      BY <1>1, <2>1, SyncKeeps DEF SafeOK
    <2>3. RightOK'
      BY <1>1, <2>1 DEF Inv, RightOK, Blank
    <2>. QED
      BY <1>1, <1>2, <2>1, <2>2, <2>3, EndKeeps
  <1>4. CASE Crash
    <2>1. disk' = disk /\ flushed' = flushed
      BY <1>4 DEF Crash
    <2>2. RightOK' /\ DurableOK' /\ SafeOK'
      BY <1>1, <2>1 DEF Inv, RightOK, DurableOK, SafeOK, Blank
    <2>. QED
      BY <1>1, <1>2, <2>1, <2>2, EndKeeps
  <1>5. CASE \E lost : PowerFails(lost)
    <2>1. PICK lost : PowerFails(lost)
      BY <1>5
    <2> DEFINE W(i) == [k \in 1 .. Len(disk[i]) |-> IF <<i, k>> \in lost THEN Blank ELSE disk[i][k]]
    <2>2. /\ disk' = [i \in 1 .. Len(lengths) |-> W(i)] /\ flushed' = Positions(disk')
          /\ lost \subseteq Positions(disk) \ flushed
      BY <2>1 DEF PowerFails
    <2>3. ASSUME NEW i \in 1 .. Len(lengths)
          PROVE  /\ W(i) \in Seq(Nat) /\ Len(W(i)) = Len(disk[i]) /\ Len(disk[i]) \in Nat
                 /\ disk'[i] = W(i)
                 /\ \A k \in 1 .. Len(disk[i]) : <<i, k>> \in flushed => disk'[i][k] = disk[i][k]
                 /\ \A k \in 1 .. Len(disk[i]) : disk'[i][k] = Blank \/ disk'[i][k] = disk[i][k]
      <3> DEFINE d == disk[i]
                 E(k) == IF <<i, k>> \in lost THEN Blank ELSE d[k]
      <3>1. d \in Seq(Nat)
        BY <1>2
      <3>2. Len(d) \in Nat /\ \A k \in 1 .. Len(d) : d[k] \in Nat
        BY <3>1
      <3>3. \A k \in 1 .. Len(d) : E(k) \in Nat
        BY <3>2 DEF Blank
      <3>4. disk'[i] = [k \in 1 .. Len(d) |-> E(k)] /\ W(i) = [k \in 1 .. Len(d) |-> E(k)]
        BY <2>2
      <3>5. \A k \in 1 .. Len(d) : <<i, k>> \in flushed => E(k) = d[k]
        BY <2>2
      <3>6. \A k \in 1 .. Len(d) : E(k) = Blank \/ E(k) = d[k]
        OBVIOUS
      <3> HIDE DEF d, E
      <3>7. [k \in 1 .. Len(d) |-> E(k)] \in Seq(Nat) /\ Len([k \in 1 .. Len(d) |-> E(k)]) = Len(d)
        BY <3>2, <3>3
      <3>8. \A k \in 1 .. Len(d) : <<i, k>> \in flushed => disk'[i][k] = d[k]
        BY <3>4, <3>5
      <3>9. \A k \in 1 .. Len(d) : disk'[i][k] = Blank \/ disk'[i][k] = d[k]
        BY <3>4, <3>6
      <3>. QED
        BY <3>2, <3>4, <3>7, <3>8, <3>9 DEF d
    <2> HIDE DEF W
    <2>4. disk' \in [1 .. Len(lengths) -> Seq(Nat)]
      BY <2>2, <2>3
    <2>5. DurableOK'
      <3> SUFFICES ASSUME NEW i \in 1 .. Len(lengths), NEW k \in 1 .. lengths[i], <<i, k>> \in flushed'
                   PROVE  k <= Len(disk'[i]) /\ disk'[i][k] # Blank
        BY <1>1 DEF DurableOK, Blank
      <3>1. k \in 1 .. Len(disk'[i]) /\ disk'[i][k] # Blank
        BY <2>2, PositionsMember
      <3>. QED
        BY <2>4, <3>1
    <2>6. SafeOK'
      <3> SUFFICES ASSUME reported, NEW i \in 1 .. Len(lengths), NEW k \in 1 .. lengths[i]
                   PROVE  <<i, k>> \in flushed'
        BY <1>1 DEF SafeOK
      <3>1. <<i, k>> \in flushed /\ k <= Len(disk[i]) /\ disk[i][k] # Blank
        BY DEF Inv, DurableOK, SafeOK
      <3>2. lengths[i] \in Nat
        BY BeforeFacts DEF Inv, TypeOK
      <3>3. k \in 1 .. Len(disk[i]) /\ Len(disk'[i]) = Len(disk[i])
        BY <2>3, <3>1, <3>2
      <3>4. disk'[i][k] # Blank
        BY <2>3, <3>1, <3>3
      <3>. QED
        BY <2>2, <3>3, <3>4, PositionsMember
    <2>7. RightOK'
      <3> SUFFICES ASSUME NEW i \in 1 .. Len(lengths), NEW k \in 1 .. lengths[i],
                          k <= Len(disk'[i])
                   PROVE  disk'[i][k] \in {Blank, Before(i) + k}
        BY <1>1 DEF RightOK, Blank
      <3>1. lengths[i] \in Nat /\ Len(disk[i]) \in Nat /\ Len(disk'[i]) = Len(disk[i])
        BY <2>3, BeforeFacts DEF Inv, TypeOK
      <3>2. k \in 1 .. Len(disk[i]) /\ k <= Len(disk[i])
        BY <3>1
      <3>3. disk[i][k] \in {Blank, Before(i) + k}
        BY <3>2 DEF Inv, RightOK
      <3>. QED
        BY <2>3, <3>2, <3>3
    <2>. QED
      BY <1>1, <2>4, <2>5, <2>6, <2>7, EndKeeps
  <1>. QED
    BY <1>3, <1>4, <1>5

\* The download is complete: every byte belongs to a piece, every piece is in place,
\* and sync() makes all of them safe.
LEMMA FinishKeeps ==
    ASSUME Inv, Finish
    PROVE  Inv'
  <1>1. /\ lengths' = lengths /\ pieceLength' = pieceLength /\ disk' = disk /\ phase' = phase
        /\ opened' = opened /\ cursor' = cursor /\ files' = files
        /\ checked' = checked /\ stored' = stored /\ job' = job /\ UNCHANGED torrent
        /\ flushed' = Positions(disk) /\ stored = Pieces /\ job = NoJob /\ phase = "run"
    BY DEF Finish, Synced, torrent, layout
  <1>2. /\ PieceCount' = PieceCount /\ Pieces' = Pieces /\ TorrentOK' = TorrentOK
        /\ (\A i : Before(i)' = Before(i)) /\ (\A q : PieceSize(q)' = PieceSize(q))
    BY <1>1, SameTorrent
  <1>3. NoJob.kind = "none"
    BY DEF NoJob
  <1>4. \A p \in Pieces : Intact(p)
    <2> SUFFICES ASSUME NEW p \in Pieces PROVE Intact(p)
      OBVIOUS
    <2>1. p < checked
      BY <1>1 DEF Inv, TypeOK
    <2>. QED
      BY <1>1, <1>3, <2>1 DEF Inv, StoredOK
  <1>5. ASSUME NEW i \in 1 .. Len(lengths), NEW k \in 1 .. lengths[i]
        PROVE  <<i, k>> \in Positions(disk)
    <2> DEFINE g == (Before(i) + k) - 1
    <2>1. /\ Before(i) \in Nat /\ lengths[i] \in Nat /\ Before(i) + lengths[i] <= totalLength
          /\ totalLength \in Nat
      <3>1. TorrentOK
        BY DEF Inv, TypeOK
      <3>2. /\ Len(lengths) \in Nat /\ Before(i) \in Nat /\ lengths[i] \in Nat
            /\ Before(i + 1) = Before(i) + lengths[i]
            /\ Before(Len(lengths) + 1) = totalLength /\ totalLength \in Nat
        BY <3>1, BeforeFacts
      <3>3. i + 1 \in 1 .. (Len(lengths) + 1) /\ Len(lengths) + 1 \in 1 .. (Len(lengths) + 1)
            /\ i + 1 <= Len(lengths) + 1
        BY <3>2
      <3>4. Before(i + 1) <= Before(Len(lengths) + 1)
        BY <3>1, <3>3, BeforeFacts
      <3>. QED
        BY <3>2, <3>4
    <2>2. g \in Nat /\ g < totalLength
      BY <2>1
    <2>3. PICK p \in Pieces : p * pieceLength <= g /\ g < p * pieceLength + PieceSize(p)
      BY <2>2, PieceFacts DEF Inv, TypeOK
    <2>4. p * pieceLength \in Nat /\ PieceSize(p) \in Nat
      BY PieceFacts DEF Inv, TypeOK
    <2>5. Before(i) + k \in (p * pieceLength + 1) .. (p * pieceLength + PieceSize(p))
      BY <2>1, <2>3, <2>4
    <2>6. k <= Len(disk[i]) /\ disk[i][k] = Before(i) + k
      BY <1>4, <2>5 DEF Intact
    <2>7. Len(disk[i]) \in Nat
      BY DEF Inv, TypeOK
    <2>8. k \in 1 .. Len(disk[i]) /\ disk[i][k] # Blank
      BY <2>1, <2>6, <2>7 DEF Blank
    <2>. QED
      BY <2>8, PositionsMember
  <1>6. SafeOK'
    BY <1>1, <1>5 DEF SafeOK
  <1>7. RightOK' /\ DurableOK'
    <2>1. DurableOK'
      BY <1>1, SyncKeeps
    <2>2. RightOK'
      BY <1>1, <1>2 DEF Inv, RightOK, Blank
    <2>. QED
      BY <2>1, <2>2
  <1>8. TypeOK'
    BY <1>1, <1>2 DEF Inv, TypeOK
  <1>9. PhaseOK'
    BY <1>1, <1>2 DEF Inv, PhaseOK
  <1>10. FilesOK'
    BY <1>1, <1>2 DEF Inv, FilesOK
  <1>11. SliceOK' /\ JobOK' /\ OutOK' /\ WriteOK'
    BY <1>1, <1>3 DEF SliceOK, JobOK, OutOK, WriteOK
  <1>12. StoredOK'
    <2>1. \A p : Intact(p)' = Intact(p)
      BY <1>1, <1>2 DEF Intact
    <2>. QED
      BY <1>1, <1>2, <2>1 DEF Inv, StoredOK
  <1>. QED
    BY <1>6, <1>7, <1>8, <1>9, <1>10, <1>11, <1>12 DEF Inv

\* One more file is opened.
LEMMA OpenFileKeeps ==
    ASSUME Inv, NEW supported \in BOOLEAN, OpenFile(supported)
    PROVE  Inv'
  <1> DEFINE x == opened + 1
             w == Reserve(disk[x], lengths[x], supported)
             e == [file |-> x, offset |-> cursor, length |-> lengths[x]]
             n == Len(files)
  <1>1. /\ phase = "open" /\ opened < Len(lengths) /\ UNCHANGED torrent
        /\ disk' = [disk EXCEPT ![x] = w]
        /\ files' = IF lengths[x] > 0 THEN Append(files, e) ELSE files
        /\ cursor' = cursor + lengths[x] /\ opened' = x
        /\ flushed' = flushed /\ phase' = phase /\ checked' = checked /\ stored' = stored
        /\ job' = job /\ reported' = reported
    BY DEF OpenFile
  <1>2. /\ lengths' = lengths
        /\ PieceCount' = PieceCount /\ Pieces' = Pieces /\ TorrentOK' = TorrentOK
        /\ (\A i : Before(i)' = Before(i))
    BY <1>1, SameTorrent
  <1>3. job = NoJob /\ checked = 0 /\ NoJob.kind = "none" /\ Pieces \subseteq Nat
    BY <1>1, PieceFacts DEF Inv, TypeOK, PhaseOK, NoJob
  <1>4. /\ opened \in Nat /\ Len(lengths) \in Nat /\ x \in 1 .. Len(lengths) /\ x \in Nat
        /\ Before(x) \in Nat /\ lengths[x] \in Nat /\ Before(x + 1) = Before(x) + lengths[x]
    <2>1. opened \in Nat /\ Len(lengths) \in Nat /\ x \in 1 .. Len(lengths) /\ x \in Nat
      BY <1>1 DEF Inv, TypeOK, TorrentOK
    <2> HIDE DEF x
    <2>2. x \in 1 .. (Len(lengths) + 1)
      BY <2>1
    <2>. QED
      BY <2>1, <2>2, BeforeFacts DEF Inv, TypeOK
  <1>5. cursor = Before(x)
    BY DEF Inv, FilesOK
  <1>6. disk \in [1 .. Len(lengths) -> Seq(Nat)]
    BY DEF Inv, TypeOK
  <1>7. /\ w \in Seq(Nat) /\ Len(w) >= lengths[x]
        /\ \A k \in 1 .. lengths[x] : w[k] = IF k <= Len(disk[x]) THEN disk[x][k] ELSE Blank
    <2> DEFINE file == disk[x]
               length == lengths[x]
    <2>1. file \in Seq(Nat) /\ length \in Nat
      BY <1>4, <1>6
    <2> HIDE DEF file, length
    <2>2. /\ Reserve(file, length, supported) \in Seq(Nat)
          /\ Len(Reserve(file, length, supported)) >= length
          /\ \A k \in 1 .. length : Reserve(file, length, supported)[k] =
                                       IF k <= Len(file) THEN file[k] ELSE Blank
      BY <2>1, ReserveFacts
    <2>. QED
      BY <2>2 DEF file, length
  <1> HIDE DEF w, x
  <1>8. disk'[x] = w /\ \A i \in 1 .. Len(lengths) : i # x => disk'[i] = disk[i]
    BY <1>1, <1>4, <1>6
  <1>9. disk' \in [1 .. Len(lengths) -> Seq(Nat)]
    BY <1>1, <1>4, <1>6, <1>7
  <1> DEFINE R == [file : 1 .. Len(lengths), offset : Nat, length : Nat \ {0}]
  <1>10. files \in Seq(R) /\ n \in Nat
    BY DEF Inv, TypeOK
  <1>11. lengths[x] > 0 => e \in R
    BY <1>4, <1>5
  <1>12. e.file = x /\ e.offset = cursor /\ e.length = lengths[x]
    OBVIOUS
  <1> HIDE DEF R, e
  <1>13. lengths[x] > 0 => /\ files' \in Seq(R) /\ Len(files') = n + 1 /\ files'[n + 1] = e
                           /\ \A j \in 1 .. n : files'[j] = files[j]
    BY <1>1, <1>10, <1>11
  <1>14. files' \in Seq(R)
    BY <1>1, <1>4, <1>10, <1>13
  <1>15. TypeOK'
    <2>1. opened' \in 0 .. Len(lengths)
      BY <1>1, <1>4
    <2>. QED
      BY <1>1, <1>2, <1>9, <1>14, <2>1 DEF Inv, TypeOK, R
  <1>16. PhaseOK'
    BY <1>1, <1>3 DEF PhaseOK
  <1>17. \A i \in 1 .. opened' : lengths[i] <= Len(disk'[i])
    <2> SUFFICES ASSUME NEW i \in 1 .. x PROVE lengths[i] <= Len(disk'[i])
      BY <1>1
    <2>1. CASE i = x
      BY <1>4, <1>7, <1>8, <2>1
    <2>2. CASE i # x
      <3>1. i \in 1 .. opened /\ i \in 1 .. Len(lengths)
        BY <1>4, <2>2 DEF x
      <3>. QED
        BY <1>8, <2>2, <3>1 DEF Inv, FilesOK
    <2>. QED
      BY <2>1, <2>2
  <1>18. cursor' = Before(opened' + 1)
    BY <1>1, <1>4, <1>5
  <1>19. FilesOK'
    <2>1. CASE lengths[x] > 0
      <3>1. /\ Len(files') = n + 1 /\ files'[n + 1] = e
            /\ \A j \in 1 .. n : files'[j] = files[j]
        BY <1>13, <2>1
      <3>2. files' # <<>>
        BY <1>10, <1>14, <3>1
      <3>3. files'[n + 1].offset + files'[n + 1].length = cursor'
        BY <1>1, <1>12, <3>1
      <3>4. files'[1].offset = 0
        <4>1. CASE files = <<>>
          <5>1. n = 0
            BY <4>1
          <5>2. cursor = 0
            BY <4>1 DEF Inv, FilesOK
          <5>. QED
            BY <1>12, <3>1, <5>1, <5>2
        <4>2. CASE files # <<>>
          <5>1. 1 \in 1 .. n
            BY <1>10, <4>2
          <5>2. files[1].offset = 0
            BY <4>2 DEF Inv, FilesOK
          <5>. QED
            BY <3>1, <5>1, <5>2
        <4>. QED
          BY <4>1, <4>2
      <3>5. ASSUME NEW j \in 1 .. (n + 1)
            PROVE  /\ files'[j].offset = Before(files'[j].file)
                   /\ files'[j].length = lengths[files'[j].file]
        <4>1. CASE j = n + 1
          BY <1>5, <1>12, <3>1, <4>1
        <4>2. CASE j # n + 1
          <5>1. j \in 1 .. n
            BY <1>10, <4>2
          <5>. QED
            BY <3>1, <5>1 DEF Inv, FilesOK
        <4>. QED
          BY <4>1, <4>2
      <3>6. ASSUME NEW j \in 1 .. n PROVE files'[j].offset + files'[j].length = files'[j + 1].offset
        <4>1. CASE j = n
          <5>1. files # <<>>
            BY <1>10, <4>1
          <5>2. files[n].offset + files[n].length = cursor
            BY <5>1 DEF Inv, FilesOK
          <5>. QED
            BY <1>12, <3>1, <4>1, <5>2
        <4>2. CASE j # n
          <5>1. j \in 1 .. (n - 1) /\ j + 1 \in 1 .. n
            BY <1>10, <4>2
          <5>2. files[j].offset + files[j].length = files[j + 1].offset
            BY <5>1 DEF Inv, FilesOK
          <5>. QED
            BY <3>1, <5>1, <5>2
        <4>. QED
          BY <4>1, <4>2
      <3>7. Len(files') - 1 = n
        BY <1>10, <3>1
      <3>. QED
        BY <1>2, <1>17, <1>18, <3>1, <3>2, <3>3, <3>4, <3>5, <3>6, <3>7 DEF FilesOK
    <2>2. CASE ~ lengths[x] > 0
      <3>1. files' = files /\ lengths[x] = 0
        BY <1>1, <1>4, <2>2
      <3>2. cursor' = cursor
        BY <1>1, <1>4, <1>5, <3>1
      <3>. QED
        BY <1>2, <1>17, <1>18, <3>1, <3>2 DEF Inv, FilesOK
    <2>. QED
      BY <2>1, <2>2
  <1>20. SliceOK' /\ JobOK' /\ OutOK' /\ WriteOK'
    BY <1>1, <1>3 DEF SliceOK, JobOK, OutOK, WriteOK
  <1>21. DurableOK'
    <2> SUFFICES ASSUME NEW i \in 1 .. Len(lengths), NEW k \in 1 .. lengths[i], <<i, k>> \in flushed
                 PROVE  k <= Len(disk'[i]) /\ disk'[i][k] # Blank
      BY <1>1, <1>2 DEF DurableOK, Blank
    <2>1. k <= Len(disk[i]) /\ disk[i][k] # Blank
      BY DEF Inv, DurableOK
    <2>2. CASE i = x
      BY <1>4, <1>7, <1>8, <2>1, <2>2
    <2>3. CASE i # x
      BY <1>8, <2>1, <2>3
    <2>. QED
      BY <2>2, <2>3
  <1>22. StoredOK'
    BY <1>1, <1>2, <1>3 DEF StoredOK
  <1>23. SafeOK'
    BY <1>1, <1>2 DEF Inv, SafeOK
  <1>24. RightOK'
    <2> SUFFICES ASSUME NEW i \in 1 .. Len(lengths), NEW k \in 1 .. lengths[i], k <= Len(disk'[i])
                 PROVE  disk'[i][k] \in {Blank, Before(i) + k}
      BY <1>2 DEF RightOK, Blank
    <2>1. k <= Len(disk[i]) => disk[i][k] \in {Blank, Before(i) + k}
      BY DEF Inv, RightOK
    <2>2. CASE i = x
      BY <1>7, <1>8, <2>1, <2>2
    <2>3. CASE i # x
      BY <1>8, <2>1, <2>3
    <2>. QED
      BY <2>2, <2>3
  <1>. QED
    BY <1>15, <1>16, <1>19, <1>20, <1>21, <1>22, <1>23, <1>24 DEF Inv

\* One pwrite() puts the bytes it is given where they belong, and touches no other.
LEMMA PwriteEffect ==
    ASSUME Inv, NEW n \in Nat, n >= 1, Pwrite(n)
    PROVE  /\ job.kind = "write" /\ job.done < job.length /\ job.part + n <= SliceLength
           /\ From + job.part \in Nat
           /\ disk' \in [1 .. Len(lengths) -> Seq(Nat)]
           /\ \A i \in 1 .. Len(lengths) : Len(disk[i]) <= Len(disk'[i])
           /\ \A i \in 1 .. Len(lengths) : \A k \in 1 .. lengths[i] :
                  IF From + job.part < Before(i) + k /\ Before(i) + k <= From + job.part + n
                  THEN disk'[i][k] = Before(i) + k
                  ELSE disk'[i][k] = disk[i][k]
  <1> DEFINE f == files[job.index].file
             p == job.piece
             at == FileOffset + job.part
             pos == job.done + job.part
             bytes == Source(p, pos, n)
             w == Overwritten(disk[f], at, bytes)
  <1>1. /\ job.kind = "write" /\ job.part + n <= SliceLength
        /\ disk' = [disk EXCEPT ![f] = w]
    BY DEF Pwrite
  <1>2. /\ job.done < job.length /\ p \in Pieces /\ job.offset = 0 /\ job.length = PieceSize(p)
        /\ phase = "run"
    BY <1>1 DEF Inv, JobOK
  <1>3. /\ p \in Nat /\ job.part \in Nat /\ job.done \in Nat /\ job.length \in Nat
    BY JobFacts DEF Inv, TypeOK
  <1>4. /\ f \in 1 .. Len(lengths) /\ Before(f) \in Nat /\ lengths[f] \in Nat
        /\ FileOffset \in Nat /\ From \in Nat /\ Before(f) + FileOffset = From
        /\ SliceLength \in Nat /\ job.done + SliceLength <= job.length
        /\ FileOffset + SliceLength <= lengths[f] /\ lengths[f] <= Len(disk[f])
    BY <1>1, <1>2, SliceFacts
  <1>5. /\ p * pieceLength \in Nat /\ PieceSize(p) \in Nat /\ pieceLength \in Nat
        /\ From = p * pieceLength + job.done
    <2>1. p * pieceLength \in Nat /\ PieceSize(p) \in Nat /\ pieceLength \in Nat
      BY <1>2, PieceFacts DEF Inv, TypeOK, TorrentOK
    <2>. QED
      BY <1>2, <1>3, <2>1 DEF From
  <1>6. pos \in Nat /\ pos + n <= PieceSize(p)
    BY <1>1, <1>2, <1>3, <1>4
  <1> HIDE DEF pos
  <1>7. /\ bytes \in Seq(Nat) /\ Len(bytes) = n
        /\ \A k \in 1 .. n : bytes[k] = p * pieceLength + pos + k
    BY <1>3, <1>5, <1>6, SourceFacts
  <1>8. disk \in [1 .. Len(lengths) -> Seq(Nat)] /\ disk[f] \in Seq(Nat) /\ at \in Nat
    <2>1. disk \in [1 .. Len(lengths) -> Seq(Nat)]
      BY DEF Inv, TypeOK
    <2>2. at \in Nat
      BY <1>3, <1>4
    <2>. QED
      BY <1>4, <2>1, <2>2
  <1> HIDE DEF bytes, at, f
  <1>9. /\ w \in Seq(Nat) /\ Len(w) >= Len(disk[f])
        /\ \A k \in Nat : at + 1 <= k /\ k <= at + n => w[k] = bytes[k - at]
        /\ \A k \in 1 .. Len(disk[f]) : ~ (at + 1 <= k /\ k <= at + n) => w[k] = disk[f][k]
    <2>1. /\ w \in Seq(Nat) /\ Len(w) >= Len(disk[f])
          /\ \A k \in Nat : at + 1 <= k /\ k <= at + Len(bytes) => w[k] = bytes[k - at]
          /\ \A k \in 1 .. Len(disk[f]) :
                 ~ (at + 1 <= k /\ k <= at + Len(bytes)) => w[k] = disk[f][k]
      BY <1>7, <1>8, OverwrittenFacts
    <2>. QED
      BY <1>7, <2>1
  <1> HIDE DEF w
  <1>10. /\ disk' \in [1 .. Len(lengths) -> Seq(Nat)] /\ disk'[f] = w
         /\ \A i \in 1 .. Len(lengths) : i # f => disk'[i] = disk[i]
    BY <1>1, <1>4, <1>8, <1>9
  <1>11. \A i \in 1 .. Len(lengths) : Len(disk[i]) <= Len(disk'[i])
    <2> SUFFICES ASSUME NEW i \in 1 .. Len(lengths) PROVE Len(disk[i]) <= Len(disk'[i])
      OBVIOUS
    <2>1. Len(disk[i]) \in Nat /\ Len(disk'[i]) \in Nat
      BY <1>8, <1>10
    <2>. QED
      BY <1>9, <1>10, <2>1
  <1> DEFINE lo == From + job.part
  <1>12. lo \in Nat /\ lo = Before(f) + at /\ at + n <= lengths[f] /\ Len(disk[f]) \in Nat
    <2>1. Len(disk[f]) \in Nat
      BY <1>8
    <2>2. lo \in Nat
      BY <1>3, <1>4
    <2>3. lo = Before(f) + at
      BY <1>3, <1>4 DEF at
    <2>4. at + n <= lengths[f]
      BY <1>1, <1>3, <1>4 DEF at
    <2>. QED
      BY <2>1, <2>2, <2>3, <2>4
  <1>13. lo = p * pieceLength + pos
    BY <1>3, <1>5 DEF pos
  <1> HIDE DEF lo
  <1>14. ASSUME NEW i \in 1 .. Len(lengths), NEW k \in 1 .. lengths[i]
         PROVE  IF lo < Before(i) + k /\ Before(i) + k <= lo + n
                THEN disk'[i][k] = Before(i) + k
                ELSE disk'[i][k] = disk[i][k]
    <2>1. Before(i) \in Nat /\ lengths[i] \in Nat /\ k \in Nat /\ k >= 1 /\ k <= lengths[i]
      BY BeforeFacts DEF Inv, TypeOK
    <2>2. CASE lo < Before(i) + k /\ Before(i) + k <= lo + n
      <3> DEFINE m == (Before(i) + k) - Before(f)
      <3>1. /\ m \in Nat /\ at + 1 <= m /\ m <= at + n /\ m >= 1 /\ m <= lengths[f]
            /\ Before(i) + k = Before(f) + m
        <4>1. lo = Before(f) + at /\ at + n <= lengths[f] /\ at \in Nat
          BY <1>8, <1>12
        <4>2. Before(f) \in Nat /\ lengths[f] \in Nat
          BY <1>4
        <4>. QED
          BY <2>1, <2>2, <4>1, <4>2
      <3> HIDE DEF m
      <3>2. i = f /\ k = m
        BY <1>4, <2>1, <3>1, OnePlace DEF Inv, TypeOK
      <3>3. disk'[i][k] = bytes[m - at] /\ m - at \in 1 .. n
        BY <1>8, <1>9, <1>10, <3>1, <3>2
      <3>4. bytes[m - at] = p * pieceLength + pos + (m - at)
        BY <1>7, <3>3
      <3>5. bytes[m - at] = lo + (m - at)
        BY <1>13, <3>4
      <3>6. lo + (m - at) = Before(f) + m
        BY <1>4, <1>8, <1>12, <3>1
      <3>. QED
        BY <2>2, <3>2, <3>3, <3>5, <3>6
    <2>3. CASE ~ (lo < Before(i) + k /\ Before(i) + k <= lo + n)
      <3>1. CASE i = f
        <4>1. ~ (at + 1 <= k /\ k <= at + n)
          BY <1>4, <1>8, <1>12, <2>1, <2>3, <3>1
        <4>2. k \in 1 .. Len(disk[f])
          BY <1>4, <1>12, <2>1, <3>1
        <4>. QED
          BY <1>9, <1>10, <2>3, <3>1, <4>1, <4>2
      <3>2. CASE i # f
        BY <1>10, <2>3, <3>2
      <3>. QED
        BY <3>1, <3>2
    <2>. QED
      BY <2>2, <2>3
  <1>. QED
    BY <1>1, <1>2, <1>10, <1>11, <1>12, <1>14 DEF lo

\* A pwrite(): the piece grows, what is flushed stays, and no other piece is touched.
LEMMA PwriteKeeps ==
    ASSUME Inv, NEW n \in Nat, n >= 1, Pwrite(n)
    PROVE  Inv'
  <1> DEFINE p == job.piece
             base == p * pieceLength
             lo == From + job.part
             j == job'
             len == SliceLength
  <1>1. /\ lengths' = lengths /\ pieceLength' = pieceLength /\ phase' = phase /\ opened' = opened
        /\ cursor' = cursor /\ files' = files /\ checked' = checked /\ flushed' = flushed
        /\ reported' = reported /\ UNCHANGED torrent
    BY DEF Pwrite, torrent, layout
  <1>2. /\ PieceCount' = PieceCount /\ Pieces' = Pieces /\ TorrentOK' = TorrentOK
        /\ (\A i : Before(i)' = Before(i)) /\ (\A q : PieceSize(q)' = PieceSize(q))
    BY <1>1, SameTorrent
  <1>3. /\ job.kind = "write" /\ job.done < job.length /\ job.part + n <= len /\ lo \in Nat
        /\ disk' \in [1 .. Len(lengths) -> Seq(Nat)]
        /\ \A i \in 1 .. Len(lengths) : Len(disk[i]) <= Len(disk'[i])
        /\ \A i \in 1 .. Len(lengths) : \A k \in 1 .. lengths[i] :
               IF lo < Before(i) + k /\ Before(i) + k <= lo + n
               THEN disk'[i][k] = Before(i) + k
               ELSE disk'[i][k] = disk[i][k]
    BY PwriteEffect
  <1>4. /\ p \in Pieces /\ job.offset = 0 /\ job.length = PieceSize(p) /\ p \notin stored
        /\ phase = "run"
    BY <1>3 DEF Inv, JobOK
  <1>5. /\ p \in Nat /\ job.part \in Nat /\ job.done \in Nat /\ job.length \in Nat
        /\ job.index \in Nat /\ job \in Jobs
    BY JobFacts DEF Inv, TypeOK
  <1>6. base \in Nat /\ PieceSize(p) \in Nat /\ From = base + job.done /\ From \in Nat
    <2>1. base \in Nat /\ PieceSize(p) \in Nat
      BY <1>4, PieceFacts DEF Inv, TypeOK
    <2>. QED
      BY <1>4, <1>5, <2>1 DEF From
  <1>7. /\ len \in Nat /\ len >= 1 /\ job.done + len <= job.length
        /\ job.done + len < job.length =>
               /\ job.index + 1 \in 1 .. Len(files)
               /\ files[job.index + 1].offset = From + len
               /\ files[job.index + 1].length \in Nat /\ files[job.index + 1].length > 0
    BY <1>3, SliceFacts
  <1>8. /\ opened = Len(lengths) /\ Len(lengths) \in Nat /\ checked = PieceCount
        /\ \A i \in 1 .. Len(lengths) : lengths[i] <= Len(disk[i])
    BY <1>4, BeforeFacts DEF Inv, TypeOK, PhaseOK, FilesOK
  <1>9. ASSUME NEW i \in 1 .. Len(lengths)
        PROVE  /\ Before(i) \in Nat /\ lengths[i] \in Nat
               /\ Len(disk[i]) \in Nat /\ Len(disk'[i]) \in Nat
               /\ lengths[i] <= Len(disk[i]) /\ lengths[i] <= Len(disk'[i])
    <2>1. Before(i) \in Nat /\ lengths[i] \in Nat
      BY BeforeFacts DEF Inv, TypeOK
    <2>2. Len(disk[i]) \in Nat /\ Len(disk'[i]) \in Nat
      BY <1>3 DEF Inv, TypeOK
    <2>. QED
      BY <1>3, <1>8, <2>1, <2>2
  <1> HIDE DEF lo, len
  <1>10. lo + n <= base + PieceSize(p)
    BY <1>3, <1>4, <1>5, <1>6, <1>7 DEF lo
  \* The three ways on.
  <1>11. \/ /\ job.part + n < len
            /\ j = [job EXCEPT !.part = job.part + n] /\ stored' = stored
         \/ /\ job.part + n = len /\ job.done + len < job.length
            /\ j = [job EXCEPT !.index = job.index + 1, !.done = job.done + len, !.part = 0]
            /\ stored' = stored
         \/ /\ job.part + n = len /\ job.done + len = job.length
            /\ j = NoJob /\ stored' = stored \cup {p}
    BY DEF Pwrite, len
  <1>12. FilesOK'
    BY <1>1, <1>2, <1>8, <1>9 DEF Inv, FilesOK
  <1>13. PhaseOK'
    BY <1>1, <1>2, <1>4, <1>8 DEF PhaseOK
  <1>14. RightOK' /\ SafeOK'
    <2>1. SafeOK'
      BY <1>1 DEF Inv, SafeOK
    <2>2. ASSUME NEW i \in 1 .. Len(lengths), NEW k \in 1 .. lengths[i]
          PROVE  disk'[i][k] \in {Blank, Before(i) + k}
      <3>1. k <= Len(disk[i])
        BY <1>9
      <3>2. disk[i][k] \in {Blank, Before(i) + k}
        BY <3>1 DEF Inv, RightOK
      <3>. QED
        BY <1>3, <3>2
    <2>3. RightOK'
      BY <1>1, <1>2, <2>2 DEF RightOK, Blank
    <2>. QED
      BY <2>1, <2>3
  <1>15. DurableOK'
    <2> SUFFICES ASSUME NEW i \in 1 .. Len(lengths), NEW k \in 1 .. lengths[i], <<i, k>> \in flushed
                 PROVE  k <= Len(disk'[i]) /\ disk'[i][k] # Blank
      BY <1>1 DEF DurableOK, Blank
    <2>1. disk[i][k] # Blank
      BY DEF Inv, DurableOK
    <2>2. k <= Len(disk'[i]) /\ Before(i) + k # Blank
      BY <1>9 DEF Blank
    <2>. QED
      BY <1>3, <2>1, <2>2
  \* What is written so far is in place.
  <1>16. \A i \in 1 .. Len(lengths) : \A k \in 1 .. lengths[i] :
             base < Before(i) + k /\ Before(i) + k <= lo + n => disk'[i][k] = Before(i) + k
    <2> SUFFICES ASSUME NEW i \in 1 .. Len(lengths), NEW k \in 1 .. lengths[i],
                        base < Before(i) + k, Before(i) + k <= lo + n
                 PROVE  disk'[i][k] = Before(i) + k
      OBVIOUS
    <2>1. CASE lo < Before(i) + k
      BY <1>3, <2>1
    <2>2. CASE ~ lo < Before(i) + k
      <3>1. Before(i) + k <= lo
        BY <1>3, <1>9, <2>2
      <3>2. disk[i][k] = Before(i) + k
        BY <1>3, <3>1 DEF Inv, WriteOK, lo
      <3>. QED
        BY <1>3, <2>2, <3>2
    <2>. QED
      BY <2>1, <2>2
  \* The other pieces are as they were.
  <1>17. \A q \in Pieces : q # p => Intact(q)' = Intact(q)
    <2> SUFFICES ASSUME NEW q \in Pieces, q # p PROVE Intact(q)' = Intact(q)
      OBVIOUS
    <2> DEFINE b == q * pieceLength
               z == PieceSize(q)
               At(i, k) == Before(i) + k \in (b + 1) .. (b + z)
    <2>1. b \in Nat /\ z \in Nat /\ q \in Nat
      BY PieceFacts DEF Inv, TypeOK
    <2>2. base + PieceSize(p) <= b \/ b + z <= base
      <3>1. p < q \/ q < p
        BY <1>5, <2>1
      <3>. QED
        BY <1>4, <3>1, PieceFacts DEF Inv, TypeOK
    <2> HIDE DEF b, z
    <2>3. base <= lo
      BY <1>5, <1>6 DEF lo
    <2>4. \A i \in 1 .. Len(lengths) : \A k \in 1 .. lengths[i] :
              At(i, k) => disk'[i][k] = disk[i][k] /\ k <= Len(disk[i]) /\ k <= Len(disk'[i])
      <3> SUFFICES ASSUME NEW i \in 1 .. Len(lengths), NEW k \in 1 .. lengths[i], At(i, k)
                   PROVE  disk'[i][k] = disk[i][k] /\ k <= Len(disk[i]) /\ k <= Len(disk'[i])
        OBVIOUS
      <3>1. ~ (lo < Before(i) + k /\ Before(i) + k <= lo + n)
        BY <1>3, <1>6, <1>9, <1>10, <2>1, <2>2, <2>3
      <3>2. k <= Len(disk[i]) /\ k <= Len(disk'[i])
        BY <1>9
      <3>. QED
        BY <1>3, <3>1, <3>2
    <2> HIDE DEF At
    <2>5. Intact(q) <=> \A i \in 1 .. Len(lengths) : \A k \in 1 .. lengths[i] :
                            At(i, k) => k <= Len(disk[i]) /\ disk[i][k] = Before(i) + k
      BY DEF Intact, At, b, z
    <2>6. Intact(q)' <=> \A i \in 1 .. Len(lengths) : \A k \in 1 .. lengths[i] :
                             At(i, k) => k <= Len(disk'[i]) /\ disk'[i][k] = Before(i) + k
      BY <1>1, <1>2 DEF Intact, At, b, z
    <2>7. Intact(q)' <=> Intact(q)
      BY <2>4, <2>5, <2>6
    <2>8. Intact(q)' \in BOOLEAN /\ Intact(q) \in BOOLEAN
      BY DEF Intact
    <2>. QED
      BY <2>7, <2>8
  <1>18. /\ PieceCount \in Nat /\ p < checked /\ stored \subseteq Pieces
         /\ \A q \in stored : q < checked
    BY <1>4, <1>8, PieceFacts DEF Inv, TypeOK, Pieces
  <1>19. disk' \in [1 .. Len(lengths') -> Seq(Nat)] /\ opened' \in 0 .. Len(lengths')
         /\ files' \in Seq([file : 1 .. Len(lengths'), offset : Nat, length : Nat \ {0}])
         /\ phase' \in {"off", "open", "recheck", "run"} /\ checked' \in 0 .. PieceCount'
         /\ TorrentOK'
    BY <1>1, <1>2, <1>3 DEF Inv, TypeOK
  <1>20. ASSUME job.part + n < len, j = [job EXCEPT !.part = job.part + n], stored' = stored
         PROVE  Inv'
    <2>1. /\ j.kind = "write" /\ j.piece = p /\ j.offset = 0 /\ j.length = job.length
          /\ j.index = job.index /\ j.done = job.done /\ j.part = job.part + n /\ j \in Jobs
      BY <1>3, <1>4, <1>5, <1>20 DEF Jobs
    <2>2. TypeOK'
      BY <1>1, <1>2, <1>18, <1>19, <1>20, <2>1 DEF TypeOK
    <2>3. From' = From /\ FileOffset' = FileOffset /\ SliceLength' = SliceLength
      BY <1>1, <1>4, <2>1 DEF From, FileOffset, SliceLength
    <2>4. SliceOK'
      BY <1>1, <1>3, <2>1, <2>3 DEF Inv, SliceOK
    <2>5. JobOK'
      <3>1. j.part < SliceLength'
        BY <1>20, <2>1, <2>3 DEF len
      <3>. QED
        BY <1>1, <1>2, <1>3, <1>4, <1>20, <2>1, <3>1 DEF Inv, JobOK
    <2>6. OutOK'
      BY <2>1 DEF OutOK
    <2>7. WriteOK'
      <3>1. From' + j.part = lo + n
        BY <1>5, <1>6, <2>1, <2>3 DEF lo
      <3>. QED
        BY <1>1, <1>2, <1>16, <2>1, <3>1 DEF WriteOK
    <2>8. StoredOK'
      BY <1>1, <1>2, <1>3, <1>17, <1>20, <2>1 DEF Inv, StoredOK
    <2>. QED
      BY <1>12, <1>13, <1>14, <1>15, <2>2, <2>4, <2>5, <2>6, <2>7, <2>8 DEF Inv
  <1>21. ASSUME job.part + n = len, job.done + len < job.length,
                j = [job EXCEPT !.index = job.index + 1, !.done = job.done + len, !.part = 0],
                stored' = stored
         PROVE  Inv'
    <2>1. /\ j.kind = "write" /\ j.piece = p /\ j.offset = 0 /\ j.length = job.length
          /\ j.index = job.index + 1 /\ j.done = job.done + len /\ j.part = 0 /\ j \in Jobs
      <3>1. job.index + 1 \in Nat /\ job.done + len \in Nat
        BY <1>5, <1>7
      <3>. QED
        BY <1>3, <1>4, <1>5, <1>21, <3>1 DEF Jobs
    <2>2. TypeOK'
      BY <1>1, <1>2, <1>18, <1>19, <1>21, <2>1 DEF TypeOK
    <2>3. From' = From + len
      BY <1>1, <1>5, <1>6, <1>7, <2>1 DEF From
    <2> DEFINE f == files[job.index + 1]
    <2>4. job.index + 1 \in 1 .. Len(files) /\ f.offset = From + len /\ f.length \in Nat /\ f.length > 0
      BY <1>7, <1>21
    <2>5. SliceOK'
      BY <1>1, <1>6, <1>7, <2>1, <2>3, <2>4 DEF SliceOK
    <2>6. 0 < SliceLength'
      <3> DEFINE a == j.length - j.done
                 b == f.length - FileOffset'
      <3>1. FileOffset' = 0
        BY <1>1, <1>6, <1>7, <2>1, <2>3, <2>4 DEF FileOffset
      <3>2. a \in Int /\ b \in Int /\ a >= 1 /\ b >= 1
        BY <1>5, <1>7, <1>21, <2>1, <2>4, <3>1
      <3>3. SliceLength' = Min({a, b})
        BY <1>1, <2>1 DEF SliceLength
      <3> HIDE DEF a, b
      <3>4. Min({a, b}) \in Nat /\ Min({a, b}) >= 1
        BY <3>2, SliceCut
      <3>. QED
        BY <3>3, <3>4
    <2>7. JobOK'
      <3>1. j.part < SliceLength' /\ j.done < j.length /\ j.done <= j.length
        BY <1>5, <1>7, <1>21, <2>1, <2>6
      <3>. QED
        BY <1>1, <1>2, <1>3, <1>4, <1>21, <2>1, <3>1 DEF Inv, JobOK
    <2>8. OutOK'
      BY <2>1 DEF OutOK
    <2>9. WriteOK'
      <3>1. From' + j.part = lo + n
        BY <1>5, <1>6, <1>7, <1>21, <2>1, <2>3 DEF lo
      <3>. QED
        BY <1>1, <1>2, <1>16, <2>1, <3>1 DEF WriteOK
    <2>10. StoredOK'
      BY <1>1, <1>2, <1>3, <1>17, <1>21, <2>1 DEF Inv, StoredOK
    <2>. QED
      BY <1>12, <1>13, <1>14, <1>15, <2>2, <2>5, <2>7, <2>8, <2>9, <2>10 DEF Inv
  <1>22. ASSUME job.part + n = len, job.done + len = job.length,
                j = NoJob, stored' = stored \cup {p}
         PROVE  Inv'
    <2>1. j.kind = "none" /\ j \in Jobs
      BY <1>22 DEF NoJob, Jobs
    <2>2. TypeOK'
      <3>1. stored' \subseteq Pieces' /\ \A q \in stored' : q < checked'
        BY <1>1, <1>2, <1>4, <1>18, <1>22
      <3>. QED
        BY <1>19, <2>1, <3>1 DEF TypeOK
    <2>3. SliceOK' /\ JobOK' /\ OutOK' /\ WriteOK'
      BY <2>1 DEF SliceOK, JobOK, OutOK, WriteOK
    <2>4. ASSUME NEW q \in Pieces, q = p PROVE Intact(q)'
      <3> SUFFICES ASSUME NEW i \in 1 .. Len(lengths), NEW k \in 1 .. lengths[i],
                          Before(i) + k \in (base + 1) .. (base + PieceSize(p))
                   PROVE  k <= Len(disk'[i]) /\ disk'[i][k] = Before(i) + k
        BY <1>1, <1>2, <2>4 DEF Intact
      <3>1. lo + n = base + PieceSize(p)
        BY <1>4, <1>5, <1>6, <1>7, <1>22 DEF lo
      <3>2. base < Before(i) + k /\ Before(i) + k <= lo + n
        BY <1>6, <1>9, <3>1
      <3>3. k <= Len(disk'[i])
        BY <1>9
      <3>. QED
        BY <1>16, <3>2, <3>3
    <2>5. StoredOK'
      <3> SUFFICES ASSUME NEW q \in Pieces, q < checked PROVE q \in stored' <=> Intact(q)'
        BY <1>1, <1>2 DEF StoredOK
      <3>1. CASE q = p
        BY <1>22, <2>4, <3>1
      <3>2. CASE q # p
        <4>1. q \in stored <=> Intact(q)
          BY <3>2 DEF Inv, StoredOK
        <4>. QED
          BY <1>17, <1>22, <3>2, <4>1
      <3>. QED
        BY <3>1, <3>2
    <2>. QED
      BY <1>12, <1>13, <1>14, <1>15, <2>2, <2>3, <2>5 DEF Inv
  <1>. QED
    BY <1>11, <1>20, <1>21, <1>22

----------------------------------------------------------------------------
(* The theorems *)

\* The first start of the program finds the files as they may be.
LEMMA InitInv ==
    ASSUME Init
    PROVE  Inv
  <1>1. PICK n \in 1 .. MaxFiles : lengths \in [1 .. n -> 0 .. MaxTotal]
    BY DEF Init
  <1>2. lengths \in Seq(0 .. MaxTotal)
    BY <1>1, DiskAssumption
  <1>3. TorrentOK
    BY <1>2, DiskAssumption DEF Init, TorrentOK
  <1>4. PieceCount \in Nat /\ Len(lengths) \in Nat /\ Before(1) = 0
    BY <1>3, PieceFacts, BeforeFacts
  <1>5. ASSUME NEW i \in 1 .. Len(lengths)
        PROVE  /\ disk[i] \in Seq(Nat)
               /\ \A k \in 1 .. lengths[i] : k <= Len(disk[i]) => disk[i][k] = Before(i) + k
    <2>1. Before(i) \in Nat /\ lengths[i] \in Nat
      BY <1>3, BeforeFacts
    <2>2. /\ Right(i) \in Seq(Nat) /\ Len(Right(i)) = lengths[i]
          /\ \A k \in 1 .. lengths[i] : Right(i)[k] = Before(i) + k
      BY <2>1 DEF Right
    <2>3. /\ Append(Right(i), Blank) \in Seq(Nat)
          /\ \A k \in 1 .. lengths[i] : Append(Right(i), Blank)[k] = Right(i)[k]
      BY <2>2 DEF Blank
    <2>4. disk[i] \in Leftovers(i)
      BY DEF Init
    <2>5. disk[i] = <<>> \/ disk[i] = Right(i) \/ disk[i] = Append(Right(i), Blank)
      BY <2>4 DEF Leftovers
    <2>6. <<>> \in Seq(Nat) /\ \A k \in 1 .. lengths[i] : ~ k <= Len(<<>>)
      BY <2>1
    <2>. QED
      BY <2>2, <2>3, <2>5, <2>6
  <1>6. disk \in [1 .. Len(lengths) -> Seq(Nat)]
    BY <1>5 DEF Init
  <1>7. /\ phase = "off" /\ opened = 0 /\ cursor = 0 /\ files = <<>> /\ checked = 0
        /\ stored = {} /\ job = NoJob /\ reported = FALSE /\ flushed = Positions(disk)
    BY DEF Init
  <1>8. NoJob \in Jobs /\ NoJob.kind = "none"
    BY DEF NoJob, Jobs
  <1>9. TypeOK
    BY <1>3, <1>4, <1>6, <1>7, <1>8 DEF TypeOK
  <1>10. PhaseOK /\ FilesOK
    BY <1>4, <1>7 DEF PhaseOK, FilesOK
  <1>11. SliceOK /\ JobOK /\ OutOK /\ WriteOK
    BY <1>7, <1>8 DEF SliceOK, JobOK, OutOK, WriteOK
  <1>12. DurableOK
    <2> SUFFICES ASSUME NEW i \in 1 .. Len(lengths), NEW k \in 1 .. lengths[i], <<i, k>> \in flushed
                 PROVE  k <= Len(disk[i]) /\ disk[i][k] # Blank
      BY DEF DurableOK
    <2>1. k \in 1 .. Len(disk[i]) /\ disk[i][k] # Blank
      BY <1>7, PositionsMember
    <2>. QED
      BY <1>6, <2>1
  <1>13. StoredOK
    <2>1. \A p \in Pieces : ~ p < checked
      BY <1>4, <1>7 DEF Pieces
    <2>. QED
      BY <2>1 DEF StoredOK
  <1>14. SafeOK /\ RightOK
    BY <1>5, <1>7 DEF SafeOK, RightOK
  <1>. QED
    BY <1>9, <1>10, <1>11, <1>12, <1>13, <1>14 DEF Inv

\* Every step keeps the invariant.
LEMMA NextInv ==
    ASSUME Inv, [Next]_vars
    PROVE  Inv'
  <1>1. CASE Start \/ EndOpen \/ EndRecheck \/ EndRead
    BY <1>1, PhasesKeep
  <1>2. ASSUME NEW supported \in BOOLEAN, OpenFile(supported) PROVE Inv'
    BY <1>2, OpenFileKeeps
  <1>3. CASE RecheckRead
    BY <1>3, RecheckReadKeeps
  <1>4. CASE Recheck
    BY <1>4, RecheckKeeps
  <1>5. ASSUME NEW p \in Pieces, NEW offset \in 0 .. MaxTotal, NEW length \in 1 .. MaxTotal,
               ReadBlock(p, offset, length)
        PROVE  Inv'
    <2>1. offset \in Nat /\ length \in Nat /\ length >= 1
      BY DiskAssumption
    <2>. QED
      BY <1>5, <2>1, ReadBlockKeeps
  <1>6. CASE ReadSlice
    BY <1>6, ReadSliceKeeps
  <1>7. ASSUME NEW p \in Pieces, WritePiece(p) PROVE Inv'
    BY <1>7, WritePieceKeeps
  <1>8. ASSUME NEW k \in 1 .. MaxTotal, Pwrite(k) PROVE Inv'
    <2>1. k \in Nat /\ k >= 1
      BY DiskAssumption
    <2>. QED
      BY <1>8, <2>1, PwriteKeeps
  <1>9. CASE Stop \/ Crash \/ \E lost : PowerFails(lost)
    BY <1>9, StopsKeep
  <1>10. CASE Finish
    BY <1>10, FinishKeeps
  <1>11. CASE UNCHANGED vars
    <2>1. /\ lengths' = lengths /\ pieceLength' = pieceLength /\ totalLength' = totalLength
          /\ disk' = disk /\ flushed' = flushed /\ phase' = phase /\ opened' = opened
          /\ cursor' = cursor /\ files' = files /\ checked' = checked /\ stored' = stored
          /\ job' = job /\ reported' = reported
          /\ UNCHANGED <<torrent, disk, flushed, layout, reported>>
      BY <1>11 DEF vars, torrent, layout
    <2>2. FilesOK' /\ RightOK' /\ DurableOK' /\ SafeOK' /\ \A q : Intact(q)' = Intact(q)
      BY <2>1, Undisturbed
    <2>3. /\ PieceCount' = PieceCount /\ Pieces' = Pieces /\ TorrentOK' = TorrentOK
          /\ (\A i : Before(i)' = Before(i)) /\ (\A q : PieceSize(q)' = PieceSize(q))
      BY <2>1, SameTorrent
    <2>4. TypeOK' /\ PhaseOK'
      BY <2>1, <2>3 DEF Inv, TypeOK, PhaseOK
    <2>5. From' = From /\ FileOffset' = FileOffset /\ SliceLength' = SliceLength
      BY <2>1 DEF From, FileOffset, SliceLength
    <2>6. SliceOK' /\ JobOK'
      BY <2>1, <2>3, <2>5 DEF Inv, SliceOK, JobOK
    <2>7. OutOK'
      BY <2>1, <2>3 DEF Inv, OutOK
    <2>8. WriteOK'
      BY <2>1, <2>3, <2>5 DEF Inv, WriteOK
    <2>9. StoredOK'
      BY <2>1, <2>2, <2>3 DEF Inv, StoredOK
    <2>. QED
      BY <2>2, <2>4, <2>6, <2>7, <2>8, <2>9 DEF Inv
  <1>. QED
    BY <1>1, <1>2, <1>3, <1>4, <1>5, <1>6, <1>7, <1>8, <1>9, <1>10, <1>11 DEF Next

\* The inductive invariant holds throughout.
THEOREM DiskInvariant == Spec => []Inv
  <1>1. Init => Inv
    BY InitInv
  <1>2. Inv /\ [Next]_vars => Inv'
    BY NextInv
  <1>. QED
    BY <1>1, <1>2, PTL DEF Spec

\* For any torrent and any length of its files and pieces, wherever writes are cut
\* short and whatever is lost: what a recheck or write_piece() vouches for is in place,
\* what is in place is not asked for again, and read_block() gives a stored piece's bytes.
THEOREM VouchedForIsIntact == Spec => []StoredIsIntact
  <1>1. ASSUME Inv PROVE StoredIsIntact
    <2>1. ASSUME job.kind = "read"
          PROVE  job.out = SubSeq(Piece(job.piece), job.offset + 1, job.offset + job.done)
      <3> DEFINE p == job.piece
                 base == p * pieceLength
                 d == Piece(p)
                 a == job.offset
                 n == job.done
                 t == SubSeq(d, a + 1, a + n)
                 o == job.out
      <3>1. /\ p \in Pieces /\ n <= job.length /\ a + job.length <= PieceSize(p) /\ p \in stored
        BY <1>1, <2>1 DEF Inv, JobOK
      <3>2. a \in Nat /\ n \in Nat /\ job.length \in Nat /\ o \in Seq(Nat)
        BY <1>1, JobFacts DEF Inv, TypeOK
      <3>3. base \in Nat /\ PieceSize(p) \in Nat
        BY <1>1, <3>1, PieceFacts DEF Inv, TypeOK
      <3>4. Intact(p)
        <4>1. p < checked
          BY <1>1, <3>1 DEF Inv, TypeOK
        <4>. QED
          BY <1>1, <2>1, <3>1, <4>1 DEF Inv, StoredOK
      <3>5. \A m \in 1 .. n : o[m] = base + a + m
        BY <1>1, <2>1, <3>4, ReadOfIntact
      <3>6. Len(o) = n
        BY <1>1, <2>1 DEF Inv, OutOK
      <3>7. d \in Seq(Nat) /\ Len(d) = PieceSize(p) /\ \A k \in 1 .. PieceSize(p) : d[k] = base + k
        BY <3>3 DEF Piece
      <3> HIDE DEF d, a, n, o, base
      <3>8. a + n <= Len(d)
        BY <3>1, <3>2, <3>3, <3>7
      <3>9. t \in Seq(Nat) /\ Len(t) = n /\ \A m \in 1 .. n : t[m] = d[a + m]
        BY <3>2, <3>7, <3>8, CutFacts
      <3> HIDE DEF t
      <3>10. \A m \in 1 .. n : t[m] = o[m]
        <4> SUFFICES ASSUME NEW m \in 1 .. n PROVE t[m] = o[m]
          OBVIOUS
        <4>1. a + m \in 1 .. PieceSize(p)
          BY <3>1, <3>2, <3>3
        <4>. QED
          BY <3>2, <3>3, <3>5, <3>7, <3>9, <4>1
      <3>11. t = o
        BY <3>2, <3>6, <3>9, <3>10
      <3>. QED
        BY <3>11 DEF t, d, a, n, o
    <2>. QED
      BY <1>1, <2>1 DEF Inv, StoredOK, StoredIsIntact
  <1>. QED
    BY <1>1, DiskInvariant, PTL

\* Once the trackers have been told of the completed download every byte of it is in
\* place, and no power failure, crash or restart takes one.
THEOREM CompletedIsDurable == Spec => []ReportedIsDurable
  <1>1. ASSUME Inv PROVE ReportedIsDurable
    <2> SUFFICES ASSUME reported, NEW i \in 1 .. Len(lengths), NEW k \in 1 .. lengths[i]
                 PROVE  /\ <<i, k>> \in flushed
                        /\ k <= Len(disk[i]) /\ disk[i][k] = Before(i) + k
      BY DEF ReportedIsDurable
    <2>1. <<i, k>> \in flushed
      BY <1>1 DEF Inv, SafeOK
    <2>2. k <= Len(disk[i]) /\ disk[i][k] # Blank
      BY <1>1, <2>1 DEF Inv, DurableOK
    <2>3. disk[i][k] \in {Blank, Before(i) + k}
      BY <1>1, <2>2 DEF Inv, RightOK
    <2>. QED
      BY <2>1, <2>2, <2>3
  <1>. QED
    BY <1>1, DiskInvariant, PTL
============================================================================
