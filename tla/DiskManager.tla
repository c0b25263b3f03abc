---------------------------- MODULE DiskManager ----------------------------
(***************************************************************************)
(* The files of a torrent (src/runtime/managers/disk_manager.cpp).  The    *)
(* constructor opens them one by one and lays them end to end; a piece is  *)
(* a range of the whole, cut into one slice per file it touches and        *)
(* written slice by slice, each with as many pwrite() calls as it takes.   *)
(* A write may fail, the program may end and the power may go at any       *)
(* point; the next start opens the files again and rechecks every piece    *)
(* (Session's constructor).                                                *)
(*                                                                         *)
(* The byte that belongs at global offset g is written g + 1, and Blank is *)
(* any byte that does not belong where it is.                              *)
(***************************************************************************)
EXTENDS Totals, FiniteSetsExt

CONSTANTS
    MaxFiles,       \* bound: files of a torrent
    MaxTotal,       \* bound: bytes of a torrent
    MaxPieceLength  \* bound: piece_length_

ASSUME DiskAssumption == MaxFiles \in Nat /\ MaxTotal \in Nat /\ MaxPieceLength \in Nat

VARIABLES
    lengths,      \* the length of each file of the torrent, in its order
    pieceLength,  \* piece_length_
    totalLength,  \* total_length_
    disk,         \* the bytes of each file
    flushed,      \* the bytes of them that would survive a power failure
    phase,        \* "off", "open" (DiskManager's constructor), "recheck" (Session's), "run"
    opened,       \* how many files the constructor has opened
    cursor,       \* its cursor
    files,        \* files_
    checked,      \* how many pieces have been rechecked
    stored,       \* have_: the pieces that a recheck or a finished write vouches for
    job,          \* the write_piece() or read_block() under way
    completed,    \* completed_
    reported      \* the trackers have been told that the download is complete

torrent == <<lengths, pieceLength, totalLength>>
layout == <<opened, cursor, files>>
vars == <<torrent, disk, flushed, phase, layout, checked, stored, job, completed, reported>>

Blank == 0
NoJob == [kind |-> "none", piece |-> 0, offset |-> 0, length |-> 0, index |-> 0, done |-> 0,
          part |-> 0, out |-> <<>>]

----------------------------------------------------------------------------
(* The torrent *)

Width == [n \in 0 .. MaxTotal |-> n]

\* The bytes of the files before file i.
Before(i) == Total(Width, SubSeq(lengths, 1, i - 1))

PieceCount == (totalLength \div pieceLength) + (IF totalLength % pieceLength = 0 THEN 0 ELSE 1)
Pieces == 0 .. (PieceCount - 1)

\* piece_size(): the last piece is what is left.
PieceSize(p) == IF p = PieceCount - 1 THEN totalLength - p * pieceLength ELSE pieceLength

Piece(p) == [k \in 1 .. PieceSize(p) |-> p * pieceLength + k]

----------------------------------------------------------------------------
(* The files *)

\* The last entry that does not begin after the offset.
Locate(offset) == Max({k \in 1 .. Len(files) : files[k].offset <= offset})

\* Where for_each_slice() is in the torrent, and in the file at hand, and the length of the slice.
From == job.piece * pieceLength + job.offset + job.done
FileOffset == From - files[job.index].offset
SliceLength == Min({job.length - job.done, files[job.index].length - FileOffset})

\* pwrite(): the bytes from position at on; the file grows if it must.
Overwritten(file, at, bytes) ==
    [k \in 1 .. Max({Len(file), at + Len(bytes)}) |->
        IF k \in (at + 1) .. (at + Len(bytes)) THEN bytes[k - at]
        ELSE IF k <= Len(file) THEN file[k] ELSE Blank]

\* Faulty variant: every slice is filled from the start of the buffer.
SourceStart(p, pos, n) == [k \in 1 .. n |-> Piece(p)[k]]

\* n bytes of the buffer from position pos on, and whatever follows it.
Source(p, pos, n) ==
    [k \in 1 .. n |-> IF pos + k <= PieceSize(p) THEN Piece(p)[pos + k] ELSE Blank]

\* reserve(): posix_fallocate() lengthens a file and leaves a longer one alone; for an
\* empty file, or where it is not supported, ftruncate() sets the length.
Reserve(file, length, supported) ==
    LET size == IF length > 0 /\ supported THEN Max({Len(file), length}) ELSE length
    IN  [k \in 1 .. size |-> IF k <= Len(file) THEN file[k] ELSE Blank]

----------------------------------------------------------------------------
\* The bytes that are in place, as pairs of a file and a position in it.
Positions(contents) ==
    UNION {{<<i, k>> : k \in {j \in 1 .. Len(contents[i]) : contents[i][j] # Blank}} :
               i \in 1 .. Len(lengths)}

\* The right contents of a file.
Right(i) == [k \in 1 .. lengths[i] |-> Before(i) + k]

Leftovers(i) == {<<>>, Right(i), Append(Right(i), Blank)}

\* A file is absent, left over from a finished download, or longer than it should be.
Init ==
    /\ lengths \in UNION {[1 .. n -> 0 .. MaxTotal] : n \in 1 .. MaxFiles}
    /\ totalLength = Total(Width, lengths) /\ totalLength <= MaxTotal
    /\ pieceLength \in 1 .. MaxPieceLength
    /\ disk \in [1 .. Len(lengths) -> UNION {Leftovers(i) : i \in 1 .. Len(lengths)}]
    /\ \A i \in 1 .. Len(lengths) : disk[i] \in Leftovers(i)
    /\ flushed = Positions(disk)
    /\ phase = "off"
    /\ opened = 0 /\ cursor = 0 /\ files = <<>>
    /\ checked = 0 /\ stored = {} /\ job = NoJob
    /\ completed = FALSE /\ reported = FALSE

----------------------------------------------------------------------------
(* The constructors *)

Start ==
    /\ phase = "off"
    /\ phase' = "open"
    /\ UNCHANGED <<torrent, disk, flushed, layout, checked, stored, job, completed, reported>>

\* One file is opened and reserved; an empty one gets no entry.
OpenFile(supported) ==
    LET i == opened + 1
    IN  /\ phase = "open" /\ opened < Len(lengths)
        /\ disk' = [disk EXCEPT ![i] = Reserve(@, lengths[i], supported)]
        /\ files' = IF lengths[i] > 0
                    THEN Append(files, [file |-> i, offset |-> cursor, length |-> lengths[i]])
                    ELSE files
        /\ cursor' = cursor + lengths[i]
        /\ opened' = i
        /\ UNCHANGED <<torrent, flushed, phase, checked, stored, job, completed, reported>>

\* The constructor throws unless the lengths add up.
EndOpen ==
    /\ phase = "open" /\ opened = Len(lengths) /\ cursor = totalLength
    /\ phase' = "recheck"
    /\ UNCHANGED <<torrent, disk, flushed, layout, checked, stored, job, completed, reported>>

\* for_each_slice() throws where the range does not end within the torrent.
Fits(p, offset, length) == p * pieceLength + offset + length <= totalLength

\* A job for length bytes of piece p from offset on.
NewJob(kind, p, offset, length) ==
    [kind |-> kind, piece |-> p, offset |-> offset, length |-> length,
     index |-> Locate(p * pieceLength + offset), done |-> 0, part |-> 0, out |-> <<>>]

\* The next piece is read ...
RecheckRead ==
    /\ phase = "recheck" /\ job = NoJob
    /\ checked < PieceCount
    /\ Fits(checked, 0, PieceSize(checked))
    /\ job' = NewJob("recheck", checked, 0, PieceSize(checked))
    /\ UNCHANGED <<torrent, disk, flushed, phase, layout, checked, stored, completed, reported>>

\* ... and has the right hash if its bytes are the right ones.
Recheck ==
    /\ job.kind = "recheck" /\ job.done = job.length
    /\ stored' = IF job.out = Piece(job.piece) THEN stored \cup {job.piece} ELSE stored
    /\ checked' = checked + 1
    /\ job' = NoJob
    /\ UNCHANGED <<torrent, disk, flushed, phase, layout, completed, reported>>

EndRecheck ==
    /\ phase = "recheck" /\ job = NoJob
    /\ checked = PieceCount
    /\ phase' = "run"
    /\ completed' = (stored = Pieces)
    /\ UNCHANGED <<torrent, disk, flushed, layout, checked, stored, job, reported>>

----------------------------------------------------------------------------
(* Reading and writing *)

\* on_request(): a range of a piece we have (one of no bytes touches no file).
ReadBlock(p, offset, length) ==
    /\ phase = "run" /\ job = NoJob
    /\ p \in stored
    /\ offset + length <= PieceSize(p) /\ Fits(p, offset, length)
    /\ job' = NewJob("read", p, offset, length)
    /\ UNCHANGED <<torrent, disk, flushed, phase, layout, checked, stored, completed, reported>>

\* pread_all() of one slice.
ReadSlice ==
    LET n == SliceLength
    IN  /\ job.kind \in {"recheck", "read"} /\ job.done < job.length
        /\ FileOffset + n <= Len(disk[files[job.index].file])
        /\ job' = [job EXCEPT !.out = @ \o SubSeq(disk[files[job.index].file],
                                                  FileOffset + 1, FileOffset + n),
                              !.done = @ + n, !.index = @ + 1]
        /\ UNCHANGED <<torrent, disk, flushed, phase, layout, checked, stored, completed, reported>>

\* The block is sent, or a read has failed and the request is ignored.
EndRead ==
    /\ job.kind = "read"
    /\ job' = NoJob
    /\ UNCHANGED <<torrent, disk, flushed, phase, layout, checked, stored, completed, reported>>

\* write_piece() of a piece that has just been verified.
WritePiece(p) ==
    /\ phase = "run" /\ job = NoJob
    /\ p \notin stored
    /\ Fits(p, 0, PieceSize(p))
    /\ job' = NewJob("write", p, 0, PieceSize(p))
    /\ UNCHANGED <<torrent, disk, flushed, phase, layout, checked, stored, completed, reported>>

\* One pwrite() of k bytes: the slice goes on, or the next one follows, or the
\* piece is written.
Pwrite(k) ==
    LET n    == SliceLength
        part == job.part + k
        done == job.done + n
    IN  /\ job.kind = "write"
        /\ part <= n
        /\ disk' = [disk EXCEPT ![files[job.index].file] =
                       Overwritten(@, FileOffset + job.part,
                                   Source(job.piece, job.done + job.part, k))]
        /\ \/ /\ part < n
              /\ job' = [job EXCEPT !.part = part] /\ UNCHANGED stored
           \/ /\ part = n /\ done < job.length
              /\ job' = [job EXCEPT !.index = @ + 1, !.done = done, !.part = 0]
              /\ UNCHANGED stored
           \/ /\ part = n /\ done = job.length
              /\ job' = NoJob /\ stored' = stored \cup {job.piece}
        /\ UNCHANGED <<torrent, flushed, phase, layout, checked, completed, reported>>

----------------------------------------------------------------------------
(* The end of the program *)

\* The program is gone: an exception, a signal, a crash.
End ==
    /\ phase' = "off"
    /\ opened' = 0 /\ cursor' = 0 /\ files' = <<>>
    /\ checked' = 0 /\ stored' = {} /\ job' = NoJob /\ completed' = FALSE
    /\ UNCHANGED <<torrent, reported>>

\* A system call fails and a constructor, write_piece() or sync() throws, or the process
\* is killed; the kernel keeps what it was given.
Crash ==
    /\ phase # "off"
    /\ End
    /\ UNCHANGED <<disk, flushed>>

\* A power failure: any byte not flushed may be lost.
PowerFails(lost) ==
    /\ lost \subseteq Positions(disk) \ flushed
    /\ disk' = [i \in 1 .. Len(lengths) |->
                   [k \in 1 .. Len(disk[i]) |-> IF <<i, k>> \in lost THEN Blank ELSE disk[i][k]]]
    /\ flushed' = Positions(disk')
    /\ End

\* sync().
Synced == Positions(disk)

\* Faulty variant: the trackers are told before the data is safe.
FinishUnsynced ==
    /\ phase = "run" /\ job = NoJob
    /\ stored = Pieces /\ ~completed
    /\ completed' = TRUE /\ reported' = TRUE
    /\ UNCHANGED <<torrent, disk, flushed, phase, layout, checked, stored, job>>

\* The last piece is stored: sync(), and the trackers are told.
Finish ==
    /\ phase = "run" /\ job = NoJob
    /\ stored = Pieces /\ ~completed
    /\ completed' = TRUE /\ reported' = TRUE
    /\ flushed' = Synced
    /\ UNCHANGED <<torrent, disk, phase, layout, checked, stored, job>>

\* run() ends with a sync().
Stop ==
    /\ phase = "run" /\ job = NoJob
    /\ flushed' = Synced
    /\ End
    /\ UNCHANGED disk

Next ==
    \/ Start
    \/ \E supported \in BOOLEAN : OpenFile(supported)
    \/ EndOpen
    \/ RecheckRead \/ Recheck \/ EndRecheck
    \/ \E p \in Pieces : \E offset \in 0 .. MaxTotal, length \in 1 .. MaxTotal :
           ReadBlock(p, offset, length)
    \/ ReadSlice \/ EndRead
    \/ \E p \in Pieces : WritePiece(p)
    \/ \E k \in 1 .. MaxTotal : Pwrite(k)
    \/ Crash
    \/ \E lost \in SUBSET (Positions(disk) \ flushed) : PowerFails(lost)
    \/ Finish
    \/ Stop

Spec == Init /\ [][Next]_vars

----------------------------------------------------------------------------
\* The bytes of piece p are where they belong when the files are laid end to end.
Intact(p) ==
    \A i \in 1 .. Len(lengths) : \A k \in 1 .. lengths[i] :
        Before(i) + k \in (p * pieceLength + 1) .. (p * pieceLength + PieceSize(p))
            => k <= Len(disk[i]) /\ disk[i][k] = Before(i) + k

\* However the pieces fall on the files and wherever writes were cut short: what a
\* finished write or a recheck vouches for is in place byte by byte, no write of one
\* piece spoils another, no piece that is in place is asked for again, and read_block()
\* of any range of a stored piece gives the bytes of that range.
StoredIsIntact ==
    /\ \A p \in Pieces : p < checked => \/ job.kind = "write" /\ job.piece = p
                                        \/ p \in stored <=> Intact(p)
    /\ job.kind = "read"
           => job.out = SubSeq(Piece(job.piece), job.offset + 1, job.offset + job.done)

\* sync() comes before on_download_complete(): once the trackers have been told, every
\* byte of the torrent is in place and safe, and stays so through every power failure,
\* crash and restart that follows.
ReportedIsDurable ==
    reported => \A i \in 1 .. Len(lengths) : \A k \in 1 .. lengths[i] :
        /\ <<i, k>> \in flushed
        /\ k <= Len(disk[i]) /\ disk[i][k] = Before(i) + k
============================================================================
