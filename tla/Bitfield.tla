------------------------------ MODULE Bitfield ------------------------------
(***************************************************************************)
(* Bitfield (src/core/bitfield.hpp): one bit per piece packed into bytes,  *)
(* the highest bit of a byte first.  One end marks the pieces it has and   *)
(* sends its bytes; the other end takes them, or refuses the message, and  *)
(* goes on marking as "have" messages come.                                *)
(*                                                                         *)
(* Bytes are Width bits wide.  A byte is the set of the places, 0 for the  *)
(* lowest, where it has a one: | is union and & is intersection.           *)
(***************************************************************************)
EXTENDS Integers, Sequences

CONSTANTS
    Width,   \* bits of a byte
    MaxBits  \* bound: pieces

ASSUME BitfieldAssumption == Width \in Nat \ {0} /\ MaxBits \in Nat

VARIABLES
    bits,     \* bits_
    bytes,    \* bytes_
    marked,   \* the pieces marked so far
    refused   \* from_bytes() has thrown

bitfieldVars == <<bits, bytes, marked, refused>>

Places == 0 .. (Width - 1)

ByteCount(n) == (n + (Width - 1)) \div Width

\* Where piece i is: in byte i / 8, at place 7 - i % 8.
ByteOf(i) == (i \div Width) + 1
PlaceOf(i) == (Width - 1) - (i % Width)

HasBit(b, i) == PlaceOf(i) \in b[ByteOf(i)]

Get(i) == i < bits /\ HasBit(bytes, i)

\* bytes_[i / 8] |= ...
WithBit(b, i) == [b EXCEPT ![ByteOf(i)] = @ \cup {PlaceOf(i)}]

\* bytes_.size() * 8 - bits.
Spare(raw, n) == (Len(raw) * Width) - n

\* Faulty variant: one spare bit is not looked at.
SpareClearButOne(raw, n) ==
    Spare(raw, n) > 0 => raw[Len(raw)] \cap (0 .. (Spare(raw, n) - 2)) = {}

\* The low bits of the last byte that stand for no piece: & ((1 << spare) - 1).
SpareClear(raw, n) ==
    Spare(raw, n) > 0 => raw[Len(raw)] \cap (0 .. (Spare(raw, n) - 1)) = {}

BitfieldInit ==
    /\ bits \in 0 .. MaxBits
    /\ bytes = [k \in 1 .. ByteCount(bits) |-> {}]
    /\ marked = {} /\ refused = FALSE

Set(i) ==
    /\ ~refused
    /\ i < bits
    /\ bytes' = WithBit(bytes, i)
    /\ marked' = marked \cup {i}
    /\ UNCHANGED <<bits, refused>>

\* A peer's bitfield takes the place of what was known of it: bit i, from the highest
\* of the first byte, speaks of piece i.
FromBytes(raw) ==
    /\ ~refused
    /\ IF Len(raw) = ByteCount(bits) /\ SpareClear(raw, bits)
       THEN /\ bytes' = raw
            /\ marked' = {i \in 0 .. (bits - 1) : HasBit(raw, i)}
            /\ UNCHANGED refused
       ELSE refused' = TRUE /\ UNCHANGED <<bytes, marked>>
    /\ UNCHANGED bits

\* Pieces are marked and messages of S arrive.
BitfieldNext(S) == (\E i \in 0 .. MaxBits : Set(i)) \/ (\E raw \in S : FromBytes(raw))

\* Whatever bytes a peer may send.
BitfieldSpec == BitfieldInit /\ [][BitfieldNext(Seq(SUBSET Places))]_bitfieldVars

----------------------------------------------------------------------------
\* The piece that place x of byte k speaks of.
PieceAt(k, x) == ((k - 1) * Width) + ((Width - 1) - x)

\* The bytes for the pieces of S and nothing else.
Packed(n, S) == [k \in 1 .. ByteCount(n) |-> {x \in Places : PieceAt(k, x) \in S}]

\* However a bitfield came about, get() answers for the pieces marked and no others, and
\* marking one never touches another's bit.  Two bitfields with the same pieces have the
\* same bytes, whether the pieces were marked one by one or arrived in a message: nothing
\* is carried in spare bits ("Spare bits in the last byte must be zero"), and what one end
\* sends the other accepts.
IsItsPieces ==
    /\ {i \in 0 .. (MaxBits + Width) : Get(i)} = marked
    /\ bytes = Packed(bits, marked)
    /\ Len(bytes) = ByteCount(bits) /\ SpareClear(bytes, bits)
============================================================================
