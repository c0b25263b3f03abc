---------------------------- MODULE FormatProofs ----------------------------
(***************************************************************************)
(* What a bitfield (Bitfield) and a torrent file (Torrent) are read as.    *)
(* The two share no state.                                                 *)
(***************************************************************************)
EXTENDS Bitfield, Torrent, TotalsProofs

\* Zenon first, then SMT, with time for a slow machine.
USE ZenonT(6), SMTT(60), ZenonT(60)

----------------------------------------------------------------------------
(* The bits of a bitfield *)

\* How many bytes n bits take.
LEMMA ByteCountFacts ==
    ASSUME NEW n \in Nat
    PROVE  /\ ByteCount(n) \in Nat /\ ByteCount(n) * Width \in Nat
           /\ n <= ByteCount(n) * Width /\ ByteCount(n) * Width < n + Width
           /\ n > 0 => ByteCount(n) > 0
  <1> DEFINE t == n + (Width - 1)
             q == t \div Width
             r == t % Width
             a == q * Width
  <1>1. Width \in Nat \ {0} /\ t \in Nat
    BY BitfieldAssumption
  <1>2. q \in Nat /\ r \in Nat /\ r < Width /\ t = Width * q + r
    BY <1>1, Division
  <1>3. ByteCount(n) = q /\ t = n + (Width - 1)
    BY DEF ByteCount
  <1> HIDE DEF t, q, r
  <1>4. a \in Nat /\ t = a + r
    BY <1>1, <1>2
  <1>5. q = 0 => a = 0
    BY <1>1
  <1> HIDE DEF a
  <1>6. n <= a /\ a < n + Width /\ (n > 0 => q > 0)
    BY <1>1, <1>2, <1>3, <1>4, <1>5
  <1>. QED
    BY <1>2, <1>3, <1>4, <1>6 DEF a

\* Piece i has its bit at a place of a byte, and that bit speaks of no other piece.
LEMMA PlaceFacts ==
    ASSUME NEW i \in Nat
    PROVE  /\ ByteOf(i) \in Nat \ {0} /\ PlaceOf(i) \in Places
           /\ PieceAt(ByteOf(i), PlaceOf(i)) = i
  <1> DEFINE q == i \div Width
             r == i % Width
  <1>1. Width \in Nat \ {0}
    BY BitfieldAssumption
  <1>2. q \in Nat /\ r \in Nat /\ r < Width /\ i = Width * q + r
    BY <1>1, Division
  <1>3. ByteOf(i) = q + 1 /\ PlaceOf(i) = (Width - 1) - r
    BY DEF ByteOf, PlaceOf
  <1> HIDE DEF q, r
  <1>4. PieceAt(q + 1, (Width - 1) - r) = (q * Width) + r
    <2>1. (q + 1) - 1 = q /\ (Width - 1) - ((Width - 1) - r) = r
      BY <1>1, <1>2
    <2>. QED
      BY <2>1 DEF PieceAt
  <1>5. (q * Width) + r = i
    BY <1>1, <1>2
  <1>6. (Width - 1) - r \in Places
    BY <1>1, <1>2 DEF Places
  <1>. QED
    BY <1>2, <1>3, <1>4, <1>5, <1>6

\* And every place of every byte is the bit of one piece.
LEMMA PieceAtFacts ==
    ASSUME NEW k \in Nat \ {0}, NEW x \in Places
    PROVE  /\ PieceAt(k, x) \in Nat
           /\ ByteOf(PieceAt(k, x)) = k /\ PlaceOf(PieceAt(k, x)) = x
           /\ k * Width \in Nat /\ PieceAt(k, x) = ((k * Width) - 1) - x
  <1> DEFINE q == k - 1
             r == (Width - 1) - x
  <1>1. Width \in Nat \ {0} /\ x \in Nat /\ x < Width
    BY BitfieldAssumption DEF Places
  <1>2. q \in Nat /\ r \in Nat /\ r < Width /\ k = q + 1 /\ x = (Width - 1) - r
    BY <1>1
  <1>3. PieceAt(k, x) = q * Width + r
    BY DEF PieceAt
  <1> HIDE DEF q, r
  <1>4. (q * Width + r) \div Width = q /\ (q * Width + r) % Width = r
    BY <1>1, <1>2, Quotient
  <1>5. q * Width \in Nat /\ k * Width = q * Width + Width
    BY <1>1, <1>2
  <1> DEFINE a == q * Width
             b == k * Width
  <1>6. a \in Nat /\ b = a + Width
    BY <1>5
  <1>7. a + r \in Nat /\ b \in Nat /\ a + r = (b - 1) - x
    <2> HIDE DEF a, b
    <2>. QED
      BY <1>1, <1>2, <1>6
  <1>8. ByteOf(a + r) = k /\ PlaceOf(a + r) = x
    BY <1>2, <1>4 DEF ByteOf, PlaceOf
  <1>. QED
    BY <1>3, <1>7, <1>8

\* A piece of the torrent has its bit in the bytes.
LEMMA ByteInRange ==
    ASSUME NEW n \in Nat, NEW i \in Nat, i < n
    PROVE  ByteOf(i) \in 1 .. ByteCount(n)
  <1> DEFINE k == ByteOf(i)
             c == ByteCount(n)
             x == PlaceOf(i)
             a == c * Width
             b == k * Width
  <1>1. Width \in Nat \ {0} /\ k \in Nat \ {0} /\ x \in Places /\ PieceAt(k, x) = i
    BY PlaceFacts, BitfieldAssumption
  <1>2. c \in Nat /\ a \in Nat /\ n <= a
    BY ByteCountFacts
  <1> HIDE DEF k, c, x
  <1>3. b \in Nat /\ i = (b - 1) - x /\ x \in Nat /\ x < Width
    BY <1>1, PieceAtFacts DEF Places
  <1>4. c < k => a + Width <= b
    BY <1>1, <1>2, Multiples
  <1> HIDE DEF a, b
  <1>5. ~(c < k)
    BY <1>1, <1>2, <1>3, <1>4
  <1>6. k \in 1 .. c
    BY <1>1, <1>2, <1>5
  <1>. QED
    BY <1>6 DEF k, c

\* The bytes are those of the pieces marked.
BitfieldInv ==
    /\ bits \in 0 .. MaxBits
    /\ marked \subseteq 0 .. (bits - 1)
    /\ bytes = Packed(bits, marked)

\* What the bytes of some pieces look like.
LEMMA PackedFacts ==
    ASSUME NEW n \in Nat, NEW S
    PROVE  /\ Len(Packed(n, S)) = ByteCount(n)
           /\ \A i \in Nat : i < n => (HasBit(Packed(n, S), i) <=> i \in S)
           /\ S \subseteq 0 .. (n - 1) => SpareClear(Packed(n, S), n)
  <1> DEFINE P == Packed(n, S)
             c == ByteCount(n)
             a == c * Width
  <1>1. c \in Nat /\ a \in Nat /\ n <= a /\ a < n + Width /\ Width \in Nat \ {0}
    BY ByteCountFacts, BitfieldAssumption
  <1>2. P = [k \in 1 .. c |-> {x \in Places : PieceAt(k, x) \in S}]
    BY DEF Packed
  <1>3. Len(P) = c
    BY <1>1, <1>2
  <1>4. ASSUME NEW i \in Nat, i < n PROVE HasBit(P, i) <=> i \in S
    <2>1. ByteOf(i) \in 1 .. c
      BY <1>4, ByteInRange
    <2>2. PlaceOf(i) \in Places /\ PieceAt(ByteOf(i), PlaceOf(i)) = i
      BY PlaceFacts
    <2> HIDE DEF P, c
    <2>3. P[ByteOf(i)] = {x \in Places : PieceAt(ByteOf(i), x) \in S}
      BY <1>2, <2>1
    <2>. QED
      BY <2>2, <2>3 DEF HasBit
  <1>5. ASSUME S \subseteq 0 .. (n - 1), Spare(P, n) > 0
        PROVE  P[Len(P)] \cap (0 .. (Spare(P, n) - 1)) = {}
    <2>1. Spare(P, n) = a - n
      BY <1>3 DEF Spare
    <2> HIDE DEF P, a
    <2>2. c > 0
      <3> SUFFICES ASSUME c = 0 PROVE FALSE
        BY <1>1
      <3>1. a = 0
        BY <1>1 DEF a
      <3>. QED
        BY <1>1, <1>5, <2>1, <3>1
    <2>3. P[Len(P)] = {x \in Places : PieceAt(c, x) \in S}
      <3> HIDE DEF c
      <3>. QED
        BY <1>1, <1>2, <1>3, <2>2
    <2>4. ASSUME NEW x \in Places, PieceAt(c, x) \in S, x \in 0 .. ((a - n) - 1) PROVE FALSE
      <3>1. c \in Nat \ {0} /\ x \in Nat
        BY <1>1, <2>2, <2>4
      <3>2. PieceAt(c, x) = (a - 1) - x
        BY <3>1, PieceAtFacts DEF a
      <3>3. (a - 1) - x \in 0 .. (n - 1)
        BY <1>5, <2>4, <3>2
      <3>. QED
        BY ONLY <1>1, <2>4, <3>1, <3>3
    <2>. QED
      BY <2>1, <2>3, <2>4
  <1>. QED
    BY <1>3, <1>4, <1>5 DEF SpareClear

\* Marking a piece adds its bit and no other.
LEMMA PackedMore ==
    ASSUME NEW n \in Nat, NEW S, NEW i \in Nat, i < n
    PROVE  WithBit(Packed(n, S), i) = Packed(n, S \cup {i})
  <1> DEFINE P == Packed(n, S)
             Q == Packed(n, S \cup {i})
             c == ByteCount(n)
  <1>1. P = [k \in 1 .. c |-> {x \in Places : PieceAt(k, x) \in S}]
    BY DEF Packed
  <1>2. Q = [k \in 1 .. c |-> {x \in Places : PieceAt(k, x) \in S \cup {i}}]
    BY DEF Packed
  <1>3. ByteOf(i) \in 1 .. c /\ PlaceOf(i) \in Places /\ PieceAt(ByteOf(i), PlaceOf(i)) = i
    BY ByteInRange, PlaceFacts
  <1>4. \A k \in 1 .. c : k \in Nat \ {0}
    BY ByteCountFacts
  <1> HIDE DEF P, Q, c
  <1>5. ASSUME NEW k \in 1 .. c, NEW x \in Places
        PROVE  PieceAt(k, x) = i <=> (k = ByteOf(i) /\ x = PlaceOf(i))
    <2>1. ByteOf(PieceAt(k, x)) = k /\ PlaceOf(PieceAt(k, x)) = x
      BY <1>4, PieceAtFacts
    <2>. QED
      BY <1>3, <2>1
  <1>6. WithBit(P, i) = [k \in 1 .. c |-> IF k = ByteOf(i) THEN P[k] \cup {PlaceOf(i)} ELSE P[k]]
    BY <1>1 DEF WithBit
  <1>7. ASSUME NEW k \in 1 .. c
        PROVE  (IF k = ByteOf(i) THEN P[k] \cup {PlaceOf(i)} ELSE P[k]) = Q[k]
    <2>1. P[k] = {x \in Places : PieceAt(k, x) \in S}
      BY <1>1
    <2>2. Q[k] = {x \in Places : PieceAt(k, x) \in S \/ PieceAt(k, x) = i}
      BY <1>2
    <2>3. Q[k] = {x \in Places : PieceAt(k, x) \in S \/ (k = ByteOf(i) /\ x = PlaceOf(i))}
      BY <1>5, <2>2
    <2>. QED
      BY <1>3, <2>1, <2>3
  <1>8. WithBit(P, i) = Q
    BY <1>2, <1>6, <1>7
  <1>. QED
    BY <1>8 DEF P, Q

\* A message that is taken is the bytes of the pieces it names.
LEMMA PackedFrom ==
    ASSUME NEW n \in Nat, NEW raw \in Seq(SUBSET Places),
           Len(raw) = ByteCount(n), SpareClear(raw, n)
    PROVE  raw = Packed(n, {i \in 0 .. (n - 1) : HasBit(raw, i)})
  <1> DEFINE c == ByteCount(n)
             S == {i \in 0 .. (n - 1) : HasBit(raw, i)}
             P == Packed(n, S)
             a == c * Width
  <1>1. c \in Nat /\ a \in Nat /\ n <= a /\ a < n + Width /\ Width \in Nat \ {0}
    BY ByteCountFacts, BitfieldAssumption
  <1>2. P = [k \in 1 .. c |-> {x \in Places : PieceAt(k, x) \in S}]
    BY DEF Packed
  <1>3. Len(raw) = c /\ Spare(raw, n) = a - n
    BY DEF Spare
  <1> HIDE DEF P, c
  <1>4. ASSUME NEW k \in 1 .. c, NEW x \in Places
        PROVE  PieceAt(k, x) \in S <=> x \in raw[k]
    <2> DEFINE p == PieceAt(k, x)
               b == k * Width
    <2>1. k \in Nat \ {0} /\ k <= c
      BY <1>1
    <2>2. p \in Nat /\ ByteOf(p) = k /\ PlaceOf(p) = x /\ b \in Nat /\ p = (b - 1) - x
      BY <2>1, PieceAtFacts
    <2>3. HasBit(raw, p) <=> x \in raw[k]
      BY <2>2 DEF HasBit
    <2>4. ASSUME x \in raw[k] PROVE p < n
      <3>1. CASE k = c
        <4> SUFFICES ASSUME n <= p PROVE FALSE
          BY <2>2
        <4>1. b = a
          BY <3>1
        <4> HIDE DEF a, b, p
        <4>2. x \in Nat /\ x < Width
          BY <1>1 DEF Places
        <4>3. a - n > 0 /\ x \in 0 .. ((a - n) - 1)
          BY <1>1, <2>2, <4>1, <4>2
        <4>4. raw[c] \cap (0 .. ((a - n) - 1)) = {}
          BY <1>3, <4>3 DEF SpareClear
        <4>. QED
          BY <2>4, <3>1, <4>3, <4>4
      <3>2. CASE k < c
        <4>1. b + Width <= a
          BY <1>1, <2>1, <3>2, Multiples
        <4> HIDE DEF a, b, p
        <4>2. x \in Nat /\ x < Width
          BY <1>1 DEF Places
        <4>. QED
          BY <1>1, <2>2, <4>1, <4>2
      <3>. QED
        BY <1>1, <2>1, <3>1, <3>2
    <2> HIDE DEF p, b
    <2>5. p \in S <=> (p < n /\ HasBit(raw, p))
      BY <2>2
    <2>6. p \in S <=> x \in raw[k]
      BY <2>3, <2>4, <2>5
    <2>. QED
      BY <2>6 DEF p
  <1> HIDE DEF S
  <1>5. \A k \in 1 .. c : raw[k] = P[k]
    <2> SUFFICES ASSUME NEW k \in 1 .. c PROVE raw[k] = P[k]
      OBVIOUS
    <2>1. raw[k] \subseteq Places
      BY <1>3
    <2>2. P[k] = {x \in Places : PieceAt(k, x) \in S}
      BY <1>2
    <2>. QED
      BY <1>4, <2>1, <2>2
  <1>6. raw = P
    BY <1>2, <1>3, <1>5
  <1>. QED
    BY <1>6 DEF P, S

\* The bytes of a bitfield are those of its pieces at every step, whatever arrives.
THEOREM BitfieldIsItsPieces == BitfieldSpec => []IsItsPieces
  <1> USE BitfieldAssumption
  <1>1. BitfieldInit => BitfieldInv
    <2> SUFFICES ASSUME BitfieldInit PROVE BitfieldInv
      OBVIOUS
    <2>1. Packed(bits, {}) = [k \in 1 .. ByteCount(bits) |-> {}]
      BY DEF Packed
    <2>. QED
      BY <2>1 DEF BitfieldInit, BitfieldInv
  <1>2. ASSUME BitfieldInv, [BitfieldNext(Seq(SUBSET Places))]_bitfieldVars PROVE BitfieldInv'
    <2>1. bits \in Nat /\ marked \subseteq 0 .. (bits - 1) /\ bytes = Packed(bits, marked)
      BY <1>2 DEF BitfieldInv
    <2>2. ASSUME NEW i \in 0 .. MaxBits, Set(i) PROVE BitfieldInv'
      <3>1. i \in Nat /\ i < bits /\ bits' = bits
        BY <2>2 DEF Set
      <3>2. bytes' = Packed(bits, marked \cup {i})
        BY <2>1, <2>2, <3>1, PackedMore DEF Set
      <3>. QED
        BY <1>2, <2>1, <2>2, <3>1, <3>2 DEF Set, BitfieldInv
    <2>3. ASSUME NEW raw \in Seq(SUBSET Places), FromBytes(raw) PROVE BitfieldInv'
      <3>1. CASE Len(raw) = ByteCount(bits) /\ SpareClear(raw, bits)
        <4>1. /\ bits' = bits /\ bytes' = raw
              /\ marked' = {i \in 0 .. (bits - 1) : HasBit(raw, i)}
          BY <2>3, <3>1 DEF FromBytes
        <4>2. raw = Packed(bits, {i \in 0 .. (bits - 1) : HasBit(raw, i)})
          BY <2>1, <3>1, PackedFrom
        <4>3. bytes' = Packed(bits, marked)'
          BY <4>1, <4>2
        <4>. QED
          BY <1>2, <4>1, <4>3 DEF BitfieldInv
      <3>2. CASE ~(Len(raw) = ByteCount(bits) /\ SpareClear(raw, bits))
        BY <1>2, <2>3, <3>2 DEF FromBytes, BitfieldInv
      <3>. QED
        BY <3>1, <3>2
    <2>4. CASE UNCHANGED bitfieldVars
      BY <1>2, <2>4 DEF bitfieldVars, BitfieldInv
    <2>. QED
      BY <1>2, <2>2, <2>3, <2>4 DEF BitfieldNext
  <1>3. BitfieldInv => IsItsPieces
    <2> SUFFICES ASSUME BitfieldInv PROVE IsItsPieces
      OBVIOUS
    <2>1. /\ bits \in Nat /\ bits <= MaxBits /\ marked \subseteq 0 .. (bits - 1)
          /\ bytes = Packed(bits, marked)
      BY DEF BitfieldInv
    <2>2. /\ Len(bytes) = ByteCount(bits) /\ SpareClear(bytes, bits)
          /\ \A i \in Nat : i < bits => (HasBit(bytes, i) <=> i \in marked)
      BY <2>1, PackedFacts
    <2>3. \A i \in 0 .. (MaxBits + Width) : Get(i) <=> i \in marked
      BY <2>1, <2>2 DEF Get
    <2>4. marked \subseteq 0 .. (MaxBits + Width)
      BY <2>1
    <2>. QED
      BY <2>1, <2>2, <2>3, <2>4 DEF IsItsPieces
  <1>. QED
    BY <1>1, <1>2, <1>3, PTL DEF BitfieldSpec

----------------------------------------------------------------------------
(* Files whose paths collide *)

\* What is sorted between a path and one that begins with it begins with it too.
LEMMA Between ==
    ASSUME NEW a \in Seq(Nat), NEW b \in Seq(Nat), NEW c \in Seq(Nat),
           Collide(a, c), ~PathLess(b, a), ~PathLess(c, b)
    PROVE  Collide(a, b)
  <1> SUFFICES ASSUME ~Collide(a, b) PROVE FALSE
    OBVIOUS
  <1> DEFINE I == {n \in Nat : n < Len(a) /\ (n >= Len(b) \/ a[n + 1] # b[n + 1])}
  <1>1. Len(a) \in Nat /\ Len(b) \in Nat /\ Len(c) \in Nat
    OBVIOUS
  <1>2. I # {}
    <2>1. CASE Len(b) < Len(a)
      <3>1. Len(b) \in I
        BY <1>1, <2>1
      <3>. QED
        BY <3>1
    <2>2. CASE ~(Len(b) < Len(a))
      <3>1. PICK i \in 1 .. Len(a) : a[i] # b[i]
        BY <1>1, <2>2 DEF Collide
      <3>2. i - 1 \in Nat /\ i - 1 < Len(a) /\ (i - 1) + 1 = i
        BY <1>1
      <3>3. i - 1 \in I
        BY <3>1, <3>2
      <3>. QED
        BY <3>3
    <2>. QED
      BY <2>1, <2>2
  <1>3. I \subseteq Nat
    OBVIOUS
  <1>4. PICK n \in I : \A y \in I : n <= y
    BY <1>2, <1>3, LeastOf
  <1>5. n \in Nat /\ n < Len(a) /\ (n >= Len(b) \/ a[n + 1] # b[n + 1])
    BY <1>4
  <1>6. \A i \in 1 .. n : a[i] = b[i] /\ i <= Len(b)
    <2> SUFFICES ASSUME NEW i \in 1 .. n PROVE a[i] = b[i] /\ i <= Len(b)
      OBVIOUS
    <2>1. i - 1 \in Nat /\ i - 1 < Len(a) /\ (i - 1) + 1 = i /\ ~(n <= i - 1)
      BY <1>1, <1>5
    <2>2. i - 1 \notin I
      BY <1>4, <2>1
    <2>3. ~(i - 1 >= Len(b)) /\ a[i] = b[i]
      BY <2>1, <2>2
    <2>. QED
      BY <1>1, <2>1, <2>3
  <1>7. n <= Len(b)
    BY <1>1, <1>5, <1>6
  <1> HIDE DEF I
  <1>8. CASE n >= Len(b)
    <2>1. n \in 0 .. Len(b) /\ n = Len(b)
      BY <1>1, <1>5, <1>7, <1>8
    <2>. QED
      BY <1>5, <1>6, <2>1 DEF PathLess
  <1>9. CASE n < Len(b) /\ a[n + 1] # b[n + 1]
    <2>1. n \in 0 .. Len(b) /\ n + 1 \in 1 .. Len(a) /\ n + 1 \in 1 .. Len(b)
      BY <1>1, <1>5, <1>9
    <2>2. a[n + 1] \in Nat /\ b[n + 1] \in Nat
      BY <2>1
    <2>3. ~(b[n + 1] < a[n + 1])
      BY <1>5, <1>6, <2>1 DEF PathLess
    <2>4. a[n + 1] < b[n + 1]
      BY <1>9, <2>2, <2>3
    <2>5. \A i \in 1 .. Len(a) : a[i] = c[i]
      BY DEF Collide
    <2>6. n \in 0 .. Len(c)
      BY <1>1, <1>5 DEF Collide
    <2>7. \A i \in 1 .. n : c[i] = b[i]
      <3>1. \A i \in 1 .. n : i \in 1 .. Len(a)
        BY <1>1, <1>5
      <3>. QED
        BY <1>6, <2>5, <3>1
    <2>8. c[n + 1] < b[n + 1]
      BY <2>1, <2>4, <2>5
    <2>. QED
      BY <1>9, <2>6, <2>7, <2>8 DEF PathLess
  <1>. QED
    BY <1>1, <1>5, <1>8, <1>9

\* A path that begins another is not sorted after it, unless the two are the same.
LEMMA PrefixFirst ==
    ASSUME NEW a \in Seq(Nat), NEW b \in Seq(Nat), Collide(a, b), ~PathLess(a, b)
    PROVE  Collide(b, a)
  <1>1. Len(a) \in Nat /\ Len(b) \in Nat /\ Len(a) <= Len(b)
    BY DEF Collide
  <1>2. ~(Len(a) < Len(b))
    <2> SUFFICES ASSUME Len(a) < Len(b) PROVE FALSE
      OBVIOUS
    <2>1. Len(a) \in 0 .. Len(a) /\ \A i \in 1 .. Len(a) : a[i] = b[i]
      BY <1>1 DEF Collide
    <2>. QED
      BY <2>1 DEF PathLess
  <1>3. Len(a) = Len(b)
    BY <1>1, <1>2
  <1>. QED
    BY <1>3 DEF Collide

\* Two entries of a list collide if and only if two neighbours of the sorted list do.
LEMMA Neighbours ==
    ASSUME NEW s \in Seq(Seq(Nat)), NEW order \in Sortings(s)
    PROVE  (\E k \in 1 .. (Len(s) - 1) : Collide(s[order[k]], s[order[k + 1]]))
           <=> \E j \in 1 .. Len(s), k \in 1 .. Len(s) : j # k /\ Collide(s[j], s[k])
  <1>0. Len(s) \in Nat
    OBVIOUS
  <1>1. /\ order \in [1 .. Len(s) -> 1 .. Len(s)]
        /\ \A k \in 1 .. Len(s) : \E j \in 1 .. Len(s) : order[j] = k
        /\ \A j \in 1 .. Len(s), k \in 1 .. Len(s) :
               j < k => order[j] # order[k] /\ ~PathLess(s[order[k]], s[order[j]])
    BY DEF Sortings
  <1>2. \A k \in 1 .. Len(s) : s[order[k]] \in Seq(Nat)
    <2>1. \A k \in 1 .. Len(s) : order[k] \in 1 .. Len(s)
      BY <1>1
    <2>2. \A k \in 1 .. Len(s) : s[k] \in Seq(Nat)
      OBVIOUS
    <2>. QED
      BY <2>1, <2>2
  <1>3. \A k \in 1 .. (Len(s) - 1) : k \in 1 .. Len(s) /\ k + 1 \in 1 .. Len(s) /\ k < k + 1
    BY <1>0
  <1>4. ASSUME NEW k \in 1 .. (Len(s) - 1), Collide(s[order[k]], s[order[k + 1]])
        PROVE  \E j \in 1 .. Len(s), i \in 1 .. Len(s) : j # i /\ Collide(s[j], s[i])
    <2>1. order[k] \in 1 .. Len(s) /\ order[k + 1] \in 1 .. Len(s) /\ order[k] # order[k + 1]
      BY <1>1, <1>3
    <2>. QED
      BY <1>4, <2>1
  <1>5. ASSUME NEW x \in 1 .. Len(s), NEW y \in 1 .. Len(s), x < y,
               Collide(s[order[x]], s[order[y]])
        PROVE  \E k \in 1 .. (Len(s) - 1) : Collide(s[order[k]], s[order[k + 1]])
    <2>1. x \in 1 .. (Len(s) - 1) /\ x + 1 \in 1 .. Len(s) /\ x < x + 1
      BY <1>0, <1>5
    <2>2. CASE y = x + 1
      BY <1>5, <2>1, <2>2
    <2>3. CASE x + 1 < y
      <3>1. ~PathLess(s[order[x + 1]], s[order[x]]) /\ ~PathLess(s[order[y]], s[order[x + 1]])
        BY <1>1, <2>1, <2>3
      <3>2. Collide(s[order[x]], s[order[x + 1]])
        <4>1. s[order[x]] \in Seq(Nat) /\ s[order[x + 1]] \in Seq(Nat) /\ s[order[y]] \in Seq(Nat)
          BY <1>2, <2>1
        <4>. QED
          BY ONLY <1>5, <3>1, <4>1, Between
      <3>. QED
        BY <2>1, <3>2
    <2>. QED
      BY <1>0, <1>5, <2>2, <2>3
  <1>6. ASSUME NEW j \in 1 .. Len(s), NEW k \in 1 .. Len(s), j # k, Collide(s[j], s[k])
        PROVE  \E i \in 1 .. (Len(s) - 1) : Collide(s[order[i]], s[order[i + 1]])
    <2>1. PICK x \in 1 .. Len(s) : order[x] = j
      BY <1>1
    <2>2. PICK y \in 1 .. Len(s) : order[y] = k
      BY <1>1
    <2>3. x # y
      BY <1>6, <2>1, <2>2
    <2>4. CASE x < y
      BY <1>5, <1>6, <2>1, <2>2, <2>4
    <2>5. CASE y < x
      <3>1. ~PathLess(s[j], s[k])
        BY <1>1, <2>1, <2>2, <2>5
      <3>2. Collide(s[k], s[j])
        BY <1>6, <3>1, PrefixFirst
      <3>. QED
        BY <1>5, <2>1, <2>2, <2>5, <3>2
    <2>6. x < y \/ y < x
      BY <1>0, <2>3
    <2>. QED
      BY <2>4, <2>5, <2>6
  <1>. QED
    BY <1>4, <1>6

\* Colliding is one path beginning with the other.
LEMMA CollideIsPrefix ==
    ASSUME NEW a \in Seq(Nat), NEW b \in Seq(Nat)
    PROVE  Collide(a, b) <=> (Len(a) <= Len(b) /\ SubSeq(b, 1, Len(a)) = a)
  <1>1. Len(a) \in Nat /\ Len(b) \in Nat
    OBVIOUS
  <1>2. ASSUME Len(a) <= Len(b)
        PROVE  SubSeq(b, 1, Len(a)) = a <=> \A i \in 1 .. Len(a) : a[i] = b[i]
    <2>1. /\ SubSeq(b, 1, Len(a)) \in Seq(Nat) /\ Len(SubSeq(b, 1, Len(a))) = Len(a)
          /\ \A i \in 1 .. Len(a) : SubSeq(b, 1, Len(a))[i] = b[i]
      BY <1>1, <1>2
    <2>. QED
      BY <2>1, SeqEqual
  <1>. QED
    BY <1>1, <1>2 DEF Collide

----------------------------------------------------------------------------
(* What validate_layout() lets through *)

\* Any dictionary a file may hold.
InfoOK == info \in Infos(Files, Int64, Int64, Nat)

\* An optional field.
LEMMA OptionFacts ==
    ASSUME NEW S, NEW o \in Option(S)
    PROVE  /\ Len(o) \in {0, 1} /\ (Len(o) = 0 <=> o = <<>>)
           /\ \A k \in 1 .. Len(o) : k = 1 /\ o[k] \in S /\ o = <<o[1]>>
  <1>1. CASE o = <<>>
    BY <1>1
  <1>2. CASE \E x \in S : o = <<x>>
    BY <1>2
  <1>. QED
    BY <1>1, <1>2 DEF Option

\* A file of the list.
LEMMA FileFacts ==
    ASSUME NEW f \in Files
    PROVE  /\ Len(f) \in Nat
           /\ \A k \in 1 .. Len(f) : f[k].length \in Int64 /\ f[k].path \in Seq(Components)
  <1> DEFINE F == [length : Int64, path : Seq(Components)]
  <1>1. Len(f) \in Nat /\ \A k \in 1 .. Len(f) : f[k] \in F
    <2>1. f \in Seq(F)
      BY DEF Files
    <2> HIDE DEF F
    <2>. QED
      BY <2>1
  <1>. QED
    BY <1>1

\* The fields of a dictionary.
LEMMA InfoFacts ==
    ASSUME InfoOK
    PROVE  /\ info.name \in Components /\ info.pieceLength \in Int64 /\ info.pieces \in Nat
           /\ info.length \in Option(Int64) /\ info.files \in Option(Files)
           /\ InfoPaths \in Seq(Seq(Components)) /\ Components \subseteq Nat
           /\ info.files = <<>> => InfoPaths = <<>>
           /\ info.files # <<>> => InfoPaths = Paths(info.files[1])
  <1>1. /\ info.name \in Components /\ info.pieceLength \in Int64 /\ info.pieces \in Nat
        /\ info.length \in Option(Int64) /\ info.files \in Option(Files)
    BY DEF InfoOK, Infos
  <1>4. Components \subseteq Nat
    BY TorrentAssumption DEF Components, Unsafe
  <1>5. ASSUME NEW f \in Files PROVE Paths(f) \in Seq(Seq(Components))
    <2>1. Len(f) \in Nat /\ \A k \in 1 .. Len(f) : f[k].path \in Seq(Components)
      BY FileFacts
    <2>. QED
      BY <2>1 DEF Paths
  <1>6. info.files = <<>> => InfoPaths = <<>>
    BY DEF InfoPaths
  <1>7. info.files # <<>> => InfoPaths = Paths(info.files[1]) /\ info.files[1] \in Files
    <2>1. info.files # <<>> => 1 \in 1 .. Len(info.files)
      BY <1>1, OptionFacts
    <2>. QED
      BY <1>1, <2>1, OptionFacts DEF InfoPaths
  <1>8. InfoPaths \in Seq(Seq(Components))
    <2>1. CASE info.files = <<>>
      BY <1>6, <2>1
    <2>2. CASE info.files # <<>>
      BY <1>5, <1>7, <2>2
    <2>. QED
      BY <2>1, <2>2
  <1>. QED
    BY <1>1, <1>4, <1>6, <1>7, <1>8

\* A path of the dictionary is safe when check_component() throws for none of its names.
LEMMA SafePath ==
    ASSUME NEW p \in Seq(Components)
    PROVE  p \in Seq(Names) <=> ~\E i \in 1 .. Len(p) : p[i] = Unsafe
  <1>1. Unsafe \notin Names
    BY TorrentAssumption
  <1>2. \A i \in 1 .. Len(p) : p[i] \in Names <=> p[i] # Unsafe
    BY <1>1 DEF Components
  <1>3. p \in Seq(Names) <=> \A i \in 1 .. Len(p) : p[i] \in Names
    <2>1. p = [i \in 1 .. Len(p) |-> p[i]] /\ Len(p) \in Nat
      OBVIOUS
    <2>2. ASSUME \A i \in 1 .. Len(p) : p[i] \in Names PROVE p \in Seq(Names)
      <3>1. [i \in 1 .. Len(p) |-> p[i]] \in Seq(Names)
        BY <2>1, <2>2
      <3>. QED
        BY <2>1, <3>1
    <2>3. ASSUME p \in Seq(Names) PROVE \A i \in 1 .. Len(p) : p[i] \in Names
      BY <2>3
    <2>. QED
      BY <2>2, <2>3
  <1>. QED
    BY <1>2, <1>3

\* Whatever order the sort leaves equal paths in, what is let through is a layout.
LEMMA LayoutChecked ==
    ASSUME InfoOK, NEW order \in Sortings(InfoPaths)
    PROVE  Layout <=> ~(\/ info.pieceLength <= 0 \/ info.pieceLength > PieceCap
                        \/ BadLayout(order))
  <1> DEFINE s == InfoPaths
             BadFiles == \E k \in 1 .. Len(info.files) : \E j \in 1 .. Len(info.files[k]) :
                             BadFile(info.files[k][j])
             GoodFiles == \A k \in 1 .. Len(info.files) : \A j \in 1 .. Len(info.files[k]) :
                              /\ info.files[k][j].length >= 0
                              /\ info.files[k][j].path \in Seq(Names) \ {<<>>}
             Clash == \E k \in 1 .. (Len(s) - 1) : Collide(s[order[k]], s[order[k + 1]])
  <1>1. s \in Seq(Seq(Nat))
    BY InfoFacts
  <1>2. Apart(s) <=> ~Clash
    <2>1. \A k \in 1 .. Len(s) : s[k] \in Seq(Nat)
      BY <1>1
    <2>2. Clash <=> \E j \in 1 .. Len(s), k \in 1 .. Len(s) : j # k /\ Collide(s[j], s[k])
      BY <1>1, Neighbours
    <2>3. \A j \in 1 .. Len(s), k \in 1 .. Len(s) :
              Collide(s[j], s[k]) <=> (Len(s[j]) <= Len(s[k]) /\ SubSeq(s[k], 1, Len(s[j])) = s[j])
      BY <2>1, CollideIsPrefix
    <2> HIDE DEF s, Clash
    <2>. QED
      BY <2>2, <2>3 DEF Apart
  <1>3. GoodFiles <=> ~BadFiles
    <2>1. ASSUME NEW k \in 1 .. Len(info.files), NEW j \in 1 .. Len(info.files[k])
          PROVE  (info.files[k][j].length >= 0 /\ info.files[k][j].path \in Seq(Names) \ {<<>>})
                 <=> ~BadFile(info.files[k][j])
      <3> DEFINE f == info.files[k][j]
      <3>1. info.files[k] \in Files
        BY InfoFacts, OptionFacts
      <3>2. f.length \in Int64 /\ f.path \in Seq(Components)
        BY <3>1, FileFacts
      <3>3. f.length \in Int
        BY <3>2, TorrentAssumption DEF Int64
      <3> HIDE DEF f
      <3>4. f.path \in Seq(Names) <=> ~\E i \in 1 .. Len(f.path) : f.path[i] = Unsafe
        BY <3>2, SafePath
      <3>5. f.length >= 0 <=> ~(f.length < 0)
        BY <3>3
      <3>6. (f.length >= 0 /\ f.path \in Seq(Names) \ {<<>>}) <=> ~BadFile(f)
        BY <3>4, <3>5 DEF BadFile
      <3>. QED
        BY <3>6 DEF f
    <2>. QED
      BY <2>1
  <1>4. info.pieceLength \in 1 .. PieceCap
        <=> ~(info.pieceLength <= 0 \/ info.pieceLength > PieceCap)
    BY InfoFacts, TorrentAssumption DEF Int64
  <1>5. Len(info.length) + Len(info.files) = 1
        <=> ~(info.length = <<>> <=> info.files = <<>>)
    <2>1. Len(info.length) \in {0, 1} /\ (Len(info.length) = 0 <=> info.length = <<>>)
      BY InfoFacts, OptionFacts
    <2>2. Len(info.files) \in {0, 1} /\ (Len(info.files) = 0 <=> info.files = <<>>)
      BY InfoFacts, OptionFacts
    <2> DEFINE m == Len(info.length)
               n == Len(info.files)
    <2>3. (m + n = 1) <=> ~(m = 0 <=> n = 0)
      <3>1. m \in {0, 1} /\ n \in {0, 1}
        BY <2>1, <2>2
      <3> HIDE DEF m, n
      <3>. QED
        BY ONLY <3>1
    <2>. QED
      BY <2>1, <2>2, <2>3
  <1>6. (\A k \in 1 .. Len(info.length) : info.length[k] >= 0)
        <=> ~\E k \in 1 .. Len(info.length) : info.length[k] < 0
    <2>1. \A k \in 1 .. Len(info.length) : info.length[k] \in Int64
      BY InfoFacts, OptionFacts
    <2>2. Int64 \subseteq Int
      BY TorrentAssumption DEF Int64
    <2>3. \A z \in Int64 : z >= 0 <=> ~(z < 0)
      BY <2>2
    <2>. QED
      BY <2>1, <2>3
  <1> HIDE DEF s, GoodFiles, BadFiles, Clash
  <1>7. Layout <=> /\ info.name # Unsafe /\ info.pieceLength \in 1 .. PieceCap
                   /\ Len(info.length) + Len(info.files) = 1
                   /\ \A k \in 1 .. Len(info.length) : info.length[k] >= 0
                   /\ GoodFiles /\ Apart(s)
    BY DEF Layout, GoodFiles, s
  <1>8. BadLayout(order) <=> \/ (info.length = <<>> <=> info.files = <<>>)
                             \/ \E k \in 1 .. Len(info.length) : info.length[k] < 0
                             \/ info.name = Unsafe \/ BadFiles \/ Clash
    BY DEF BadLayout, BadFiles, Clash, s
  <1>. QED
    BY <1>2, <1>3, <1>4, <1>5, <1>6, <1>7, <1>8

----------------------------------------------------------------------------
(* The total length and the pieces *)

\* The sum of the lengths of the first n files.
SumTo(files, n) == Total([k \in 0 .. Limit |-> k], SubSeq(Lengths(files), 1, n))

\* Sums grow by one length at a time, and the last is the sum of them all.
LEMMA Sums ==
    ASSUME NEW f \in Files, \A k \in 1 .. Len(f) : f[k].length >= 0
    PROVE  /\ SumTo(f, 0) = 0 /\ SumTo(f, Len(f)) = SumOf(f) /\ SumOf(f) \in Nat
           /\ \A n \in 0 .. Len(f) : SumTo(f, n) \in Nat /\ SumTo(f, n) <= SumOf(f)
           /\ \A n \in 0 .. (Len(f) - 1) :
                  f[n + 1].length \in 0 .. Limit /\ SumTo(f, n + 1) = SumTo(f, n) + f[n + 1].length
  <1> DEFINE S == 0 .. Limit
             w == [k \in S |-> k]
             s == Lengths(f)
  <1>1. Len(f) \in Nat /\ \A k \in 1 .. Len(f) : f[k].length \in S
    <2>1. Len(f) \in Nat /\ \A k \in 1 .. Len(f) : f[k].length \in Int64 /\ f[k].length >= 0
      BY FileFacts
    <2>. QED
      BY <2>1, TorrentAssumption DEF Int64
  <1>2. w \in [S -> Nat] /\ 0 \in S
    BY TorrentAssumption
  <1>3. s \in Seq(S) /\ Len(s) = Len(f) /\ \A k \in 1 .. Len(f) : s[k] = f[k].length
    <2> HIDE DEF S
    <2>. QED
      BY <1>1 DEF Lengths
  <1>4. \A n : SumTo(f, n) = Total(w, SubSeq(s, 1, n))
    BY DEF SumTo
  <1>5. SumOf(f) = Total(w, s)
    BY DEF SumOf
  <1> DEFINE l == Len(f)
  <1>6. l \in Nat /\ l = Len(f)
    BY <1>1
  <1>7. \A x \in S : w[x] = x
    OBVIOUS
  <1> HIDE DEF S, w, s, l
  <1>8. SubSeq(s, 1, l) = s
    BY <1>3, <1>6, SubSeqFull
  <1>9. SubSeq(s, 1, 0) = <<>>
    BY <1>3
  <1>10. Total(w, <<>>) = 0
    BY <1>2, TotalOne
  <1>11. ASSUME NEW n \in 0 .. l
         PROVE  Total(w, SubSeq(s, 1, n)) \in Nat /\ Total(w, SubSeq(s, 1, n)) <= Total(w, s)
    <2> DEFINE a == SubSeq(s, 1, n)
               b == SubSeq(s, n + 1, l)
    <2>0. s \in Seq(S) /\ Len(s) = l /\ l \in Nat /\ n \in 0 .. l
      BY <1>3, <1>6, <1>11
    <2>1. a \in Seq(S) /\ b \in Seq(S)
      BY <1>3, <1>6, <1>11
    <2>2. s = a \o b
      BY ONLY <2>0
    <2> HIDE DEF a, b
    <2>3. Total(w, a \o b) = Total(w, a) + Total(w, b)
      BY <1>2, <2>1, TotalConcat
    <2>4. Total(w, a) \in Nat /\ Total(w, b) \in Nat
      BY <1>2, <2>1, TotalType
    <2>5. Total(w, s) = Total(w, a) + Total(w, b)
      BY <2>2, <2>3
    <2>6. Total(w, a) <= Total(w, s)
      BY ONLY <2>4, <2>5
    <2>. QED
      BY <2>4, <2>6 DEF a
  <1>12. ASSUME NEW n \in 0 .. (l - 1)
         PROVE  Total(w, SubSeq(s, 1, n + 1)) = Total(w, SubSeq(s, 1, n)) + s[n + 1] /\ s[n + 1] \in S
    <2> DEFINE a == SubSeq(s, 1, n)
               x == s[n + 1]
    <2>0. s \in Seq(S) /\ Len(s) = l /\ l \in Nat /\ n \in 0 .. (l - 1)
      BY <1>3, <1>6, <1>12
    <2>1. a \in Seq(S) /\ x \in S /\ <<x>> \in Seq(S)
      BY <1>3, <1>6, <1>12
    <2>2. SubSeq(s, 1, n + 1) = a \o <<x>>
      BY ONLY <2>0
    <2> HIDE DEF a, x
    <2>3. Total(w, a \o <<x>>) = Total(w, a) + Total(w, <<x>>)
      BY <1>2, <2>1, TotalConcat
    <2>4. Total(w, <<x>>) = x
      BY <1>2, <1>7, <2>1, TotalOne
    <2>5. Total(w, SubSeq(s, 1, n + 1)) = Total(w, a) + x
      BY <2>2, <2>3, <2>4
    <2>. QED
      BY <2>1, <2>5 DEF a, x
  <1>13. Total(w, s) \in Nat
    BY <1>2, <1>3, TotalType
  <1>14. \A n \in 0 .. (l - 1) : s[n + 1] = f[n + 1].length
    BY <1>3, <1>6
  <1>. QED
    BY <1>4, <1>5, <1>6, <1>8, <1>9, <1>10, <1>11, <1>12, <1>13, <1>14 DEF S, l

\* Nothing is lost in uint64_t, as the negatives have been rejected.
LEMMA NoWrap ==
    ASSUME NEW n \in Nat, n < 2 * (Limit + 1)
    PROVE  Unsigned(n) = n
  <1> DEFINE l == 2 * (Limit + 1)
  <1>1. l \in Nat \ {0} /\ n < l
    BY TorrentAssumption
  <1> HIDE DEF l
  <1>2. (0 * l + n) % l = n
    BY <1>1, Quotient
  <1>3. 0 * l + n = n
    BY <1>1
  <1>4. n % l = n
    BY <1>2, <1>3
  <1>. QED
    BY <1>4 DEF Unsigned, l

\* The count of pieces is right if and only if the hashes cover n bytes.
LEMMA CoveredCounted ==
    ASSUME NEW n \in Nat, info.pieces \in Nat, info.pieceLength \in Nat \ {0}
    PROVE  Covered(n) <=> /\ info.pieces % HashSize = 0
                          /\ info.pieces \div HashSize = Expected(n, info.pieceLength)
  <1> DEFINE l == info.pieceLength
             h == info.pieces
             c == CountOf(n, l)
             m == h \div HashSize
             r == h % HashSize
  <1>0. HashSize \in Nat \ {0} /\ l \in Nat \ {0} /\ h \in Nat
    BY TorrentAssumption
  <1>1. Expected(n, l) = c
    BY DEF Expected, CountOf
  <1>2. m \in Nat /\ r \in Nat /\ h = HashSize * m + r
    BY <1>0, Division
  <1>3. Covered(n) <=> \E k \in 0 .. n : h = k * HashSize /\ n \in (((k - 1) * l) + 1) .. (k * l)
    BY DEF Covered
  <1> HIDE DEF l, h, c, m, r
  <1>4. ASSUME NEW k \in Nat, h = k * HashSize PROVE m = k /\ r = 0
    <2>1. (k * HashSize + 0) \div HashSize = k /\ (k * HashSize + 0) % HashSize = 0
      BY <1>0, Quotient
    <2>2. k * HashSize + 0 = h
      BY <1>0, <1>4
    <2>. QED
      BY <2>1, <2>2 DEF m, r
  <1>5. ASSUME NEW k \in Nat PROVE k = c <=> n \in (((k - 1) * l) + 1) .. (k * l)
    <2>1. k = c <=> ((k - 1) * l + 1 <= n /\ n <= k * l)
      BY <1>0, Counted DEF c
    <2>2. (k - 1) * l \in Int /\ k * l \in Int
      BY <1>0
    <2> DEFINE a == (k - 1) * l
               b == k * l
    <2> HIDE DEF a, b
    <2>3. n \in (a + 1) .. b <=> (a + 1 <= n /\ n <= b)
      BY <2>2 DEF a, b
    <2>. QED
      BY <2>1, <2>3 DEF a, b
  <1>6. ASSUME m = c, r = 0 PROVE m \in 0 .. n /\ h = m * HashSize
    <2>1. h = m * HashSize
      BY <1>0, <1>2, <1>6
    <2>2. m <= n
      <3>1. (m - 1) * l + 1 <= n
        BY <1>0, <1>2, <1>6, Counted DEF c
      <3>2. m > 0 => (m - 1) * l >= m - 1
        BY <1>0, <1>2
      <3> DEFINE a == (m - 1) * l
      <3>3. a \in Int
        BY <1>0, <1>2
      <3> HIDE DEF a
      <3>4. a + 1 <= n /\ (m > 0 => a >= m - 1)
        BY <3>1, <3>2 DEF a
      <3>. QED
        BY <1>2, <3>3, <3>4
    <2>. QED
      BY <1>2, <2>1, <2>2
  <1>7. ASSUME NEW k \in 0 .. n, h = k * HashSize, n \in (((k - 1) * l) + 1) .. (k * l)
        PROVE  r = 0 /\ m = c
    BY <1>4, <1>5, <1>7
  <1>8. ASSUME m = c, r = 0
        PROVE  \E k \in 0 .. n : h = k * HashSize /\ n \in (((k - 1) * l) + 1) .. (k * l)
    BY <1>2, <1>5, <1>6, <1>8
  <1>9. Covered(n) <=> (r = 0 /\ m = c)
    BY <1>3, <1>7, <1>8
  <1>. QED
    BY <1>1, <1>9 DEF m, r, h, l

\* What is known of the parse as it goes on.
TorrentInv ==
    /\ InfoOK
    /\ torrent \in {Nothing, LaidOut, Refused} \/ Accepted
    /\ torrent = Nothing => added = 0 /\ total = 0
    /\ torrent = LaidOut =>
           /\ Layout /\ info.pieces % HashSize = 0
           /\ info.length = <<>> =>
                  /\ added \in 0 .. Len(info.files[1])
                  /\ total = SumTo(info.files[1], added) /\ total <= Limit
    /\ torrent = Refused => ~Sound
    /\ Accepted => /\ Sound
                   /\ torrent = [is |-> "torrent", total |-> TrueTotal,
                                 pieceLength |-> info.pieceLength,
                                 pieces |-> CountOf(TrueTotal, info.pieceLength)]

\* The lengths of a layout.
LEMMA LayoutFacts ==
    ASSUME InfoOK, Layout
    PROVE  /\ info.pieceLength \in Nat \ {0} /\ info.pieces \in Nat /\ TrueTotal \in Nat
           /\ info.length # <<>> => TrueTotal = info.length[1] /\ TrueTotal <= Limit
           /\ info.length = <<>> =>
                  /\ info.files[1] \in Files /\ TrueTotal = SumOf(info.files[1])
                  /\ \A k \in 1 .. Len(info.files[1]) : info.files[1][k].length >= 0
  <1>1. info.pieceLength \in Nat \ {0} /\ info.pieces \in Nat
    BY InfoFacts, TorrentAssumption DEF Layout
  <1>2. info.length \in Option(Int64) /\ info.files \in Option(Files)
    BY InfoFacts
  <1>3. CASE info.length # <<>>
    <2>1. 1 \in 1 .. Len(info.length)
      BY <1>2, <1>3, OptionFacts
    <2>2. info.length[1] \in Int64 /\ info.length[1] >= 0
      BY <1>2, <2>1, OptionFacts DEF Layout
    <2>3. info.length[1] \in Nat /\ info.length[1] <= Limit
      BY <2>2, TorrentAssumption DEF Int64
    <2>. QED
      BY <1>1, <1>3, <2>3 DEF TrueTotal
  <1>4. CASE info.length = <<>>
    <2>1. Len(info.files) = 1
      BY <1>2, <1>4, OptionFacts DEF Layout
    <2>2. 1 \in 1 .. Len(info.files)
      BY <2>1
    <2>3. info.files[1] \in Files
      BY <1>2, <2>2, OptionFacts
    <2>4. \A k \in 1 .. Len(info.files[1]) : info.files[1][k].length >= 0
      BY <2>2 DEF Layout
    <2>5. SumOf(info.files[1]) \in Nat
      BY <2>3, <2>4, Sums
    <2>. QED
      BY <1>1, <1>4, <2>3, <2>4, <2>5 DEF TrueTotal
  <1>. QED
    BY <1>3, <1>4

\* Validate refuses only what is not sound.
LEMMA ValidateKeeps ==
    ASSUME TorrentInv, Validate
    PROVE  TorrentInv'
  <1>1. InfoOK /\ torrent = Nothing /\ UNCHANGED <<info, added, total>> /\ added = 0 /\ total = 0
    BY DEF TorrentInv, Validate
  <1>2. PICK order \in Sortings(InfoPaths) :
            torrent' = IF \/ info.pieces % HashSize # 0
                          \/ info.pieceLength <= 0 \/ info.pieceLength > PieceCap
                          \/ BadLayout(order)
                       THEN Refused ELSE LaidOut
    BY DEF Validate, RaggedHashes
  <1>3. Layout <=> ~(info.pieceLength <= 0 \/ info.pieceLength > PieceCap \/ BadLayout(order))
    BY <1>1, LayoutChecked
  <1>4. InfoOK' /\ (Layout <=> Layout') /\ (Sound <=> Sound')
    BY <1>1 DEF InfoOK, Layout, Sound, Covered, TrueTotal, InfoPaths
  <1>5. CASE info.pieces % HashSize # 0 \/ ~Layout
    <2>1. torrent' = Refused
      BY <1>2, <1>3, <1>5
    <2>2. ~Sound
      <3> SUFFICES ASSUME Layout, info.pieces % HashSize # 0, Covered(TrueTotal) PROVE FALSE
        BY <1>5 DEF Sound
      <3>1. TrueTotal \in Nat /\ info.pieces \in Nat /\ info.pieceLength \in Nat \ {0}
        BY <1>1, LayoutFacts
      <3>. QED
        BY <3>1, CoveredCounted
    <2>. QED
      BY <1>4, <2>1, <2>2 DEF TorrentInv, Accepted, Refused, Nothing, LaidOut
  <1>6. CASE info.pieces % HashSize = 0 /\ Layout
    <2>1. torrent' = LaidOut
      BY <1>2, <1>3, <1>6
    <2>2. ASSUME info.length = <<>>
          PROVE  0 \in 0 .. Len(info.files[1]) /\ 0 = SumTo(info.files[1], 0) /\ 0 <= Limit
      <3>1. info.files[1] \in Files /\ SumTo(info.files[1], 0) = 0
        BY <1>1, <1>6, <2>2, LayoutFacts, Sums
      <3>2. Len(info.files[1]) \in Nat
        BY <3>1, FileFacts
      <3>. QED
        BY <3>1, <3>2, TorrentAssumption
    <2>. QED
      BY <1>1, <1>4, <1>6, <2>1, <2>2 DEF TorrentInv, Accepted, Refused, Nothing, LaidOut, SumTo
  <1>. QED
    BY <1>5, <1>6

\* A sum that is refused is too large, and one that goes on has not wrapped.
LEMMA AddLengthKeeps ==
    ASSUME TorrentInv, AddLength
    PROVE  TorrentInv'
  <1> DEFINE f == info.files[1]
             x == f[added + 1].length
  <1>1. /\ InfoOK /\ torrent = LaidOut /\ info.length = <<>> /\ added < Len(f) /\ info' = info
        /\ Layout /\ info.pieces % HashSize = 0
        /\ added \in 0 .. Len(f) /\ total = SumTo(f, added) /\ total <= Limit
    BY DEF TorrentInv, AddLength, MoreFiles
  <1>2. /\ f \in Files /\ TrueTotal = SumOf(f) /\ \A k \in 1 .. Len(f) : f[k].length >= 0
    BY <1>1, LayoutFacts
  <1>3. /\ \A n \in 0 .. Len(f) : SumTo(f, n) \in Nat /\ SumTo(f, n) <= SumOf(f)
        /\ \A n \in 0 .. (Len(f) - 1) :
               f[n + 1].length \in 0 .. Limit /\ SumTo(f, n + 1) = SumTo(f, n) + f[n + 1].length
        /\ SumOf(f) \in Nat
    BY <1>2, Sums
  <1>4. Len(f) \in Nat
    BY <1>2, FileFacts
  <1>5. added \in 0 .. (Len(f) - 1) /\ added + 1 \in 0 .. Len(f)
    BY <1>1, <1>4
  <1>6. x \in 0 .. Limit /\ total \in Nat /\ SumTo(f, added + 1) = total + x
    BY <1>1, <1>3, <1>5
  <1>7. SumTo(f, added + 1) <= SumOf(f)
    BY <1>3, <1>5
  <1>8. InfoOK' /\ (Layout <=> Layout') /\ (Sound <=> Sound')
    BY <1>1 DEF InfoOK, Layout, Sound, Covered, TrueTotal, InfoPaths
  <1>9. IF Overflows(x) THEN torrent' = Refused /\ UNCHANGED <<added, total>>
        ELSE /\ total' = Unsigned(total + Unsigned(x)) /\ added' = added + 1
             /\ UNCHANGED torrent
    BY DEF AddLength
  <1> HIDE DEF f, x
  <1>10. Unsigned(x) = x /\ Unsigned(x + total) = x + total /\ Unsigned(total + x) = total + x
    <2>1. x \in Nat /\ x < 2 * (Limit + 1) /\ total + x \in Nat /\ total + x < 2 * (Limit + 1)
      BY <1>1, <1>6, TorrentAssumption
    <2>2. x + total = total + x
      BY <1>6
    <2>. QED
      BY <2>1, <2>2, NoWrap
  <1>11. Overflows(x) <=> x + total > Limit
    BY <1>10 DEF Overflows
  <1>12. CASE Overflows(x)
    <2>1. ~(TrueTotal <= Limit)
      BY <1>2, <1>3, <1>6, <1>7, <1>11, <1>12, TorrentAssumption
    <2>2. torrent' = Refused /\ ~Sound
      BY <1>9, <1>12, <2>1 DEF Sound
    <2>. QED
      BY <1>8, <2>2 DEF TorrentInv, Accepted, Refused, Nothing, LaidOut
  <1>13. CASE ~Overflows(x)
    <2>1. total' = total + x /\ added' = added + 1 /\ torrent' = LaidOut
      BY <1>1, <1>9, <1>10, <1>13
    <2>2. total + x <= Limit
      BY <1>6, <1>11, <1>13, TorrentAssumption
    <2>3. /\ added' \in 0 .. Len(info.files[1])' /\ total' <= Limit
          /\ total' = SumTo(info.files[1], added)'
      BY <1>1, <1>5, <1>6, <2>1, <2>2 DEF f, SumTo
    <2>. QED
      BY <1>1, <1>8, <2>1, <2>3 DEF TorrentInv, Accepted, Refused, Nothing, LaidOut
  <1>. QED
    BY <1>12, <1>13

\* The torrent returned has the true total.
LEMMA FinishKeeps ==
    ASSUME TorrentInv, Finish
    PROVE  TorrentInv'
  <1> DEFINE n == IF info.length # <<>> THEN info.length[1] ELSE total
             l == info.pieceLength
             m == info.pieces \div HashSize
  <1>1. /\ InfoOK /\ torrent = LaidOut /\ ~MoreFiles /\ UNCHANGED <<info, added, total>>
        /\ Layout /\ info.pieces % HashSize = 0
        /\ info.length = <<>> => /\ added \in 0 .. Len(info.files[1]) /\ total <= Limit
                                 /\ total = SumTo(info.files[1], added)
    BY DEF TorrentInv, Finish
  <1>2. torrent' = IF m # Expected(n, l) THEN Refused
                   ELSE [is |-> "torrent", total |-> n, pieceLength |-> l, pieces |-> m]
    BY DEF Finish
  <1>3. l \in Nat \ {0} /\ info.pieces \in Nat /\ TrueTotal \in Nat
    BY <1>1, LayoutFacts
  <1>4. n = TrueTotal /\ TrueTotal <= Limit
    <2>1. CASE info.length # <<>>
      BY <1>1, <2>1, LayoutFacts
    <2>2. CASE info.length = <<>>
      <3>1. /\ info.files[1] \in Files /\ TrueTotal = SumOf(info.files[1])
            /\ SumTo(info.files[1], Len(info.files[1])) = SumOf(info.files[1])
        BY <1>1, <2>2, LayoutFacts, Sums
      <3>2. Len(info.files[1]) \in Nat
        BY <3>1, FileFacts
      <3>3. added = Len(info.files[1])
        BY <1>1, <2>2, <3>2 DEF MoreFiles
      <3>. QED
        BY <1>1, <2>2, <3>1, <3>3
    <2>. QED
      BY <2>1, <2>2
  <1>5. Covered(TrueTotal) <=> m = Expected(n, l)
    BY <1>1, <1>3, <1>4, CoveredCounted
  <1>6. Expected(n, l) = CountOf(TrueTotal, l)
    BY <1>4 DEF Expected, CountOf
  <1>7. InfoOK' /\ (Sound <=> Sound') /\ TrueTotal' = TrueTotal /\ info' = info
    BY <1>1 DEF InfoOK, Layout, Sound, Covered, TrueTotal, InfoPaths
  <1>8. Sound <=> m = Expected(n, l)
    BY <1>1, <1>4, <1>5 DEF Sound
  <1> HIDE DEF n, m
  <1>9. CASE m # Expected(n, l)
    <2>1. torrent' = Refused /\ ~Sound
      BY <1>2, <1>8, <1>9
    <2>. QED
      BY <1>7, <2>1 DEF TorrentInv, Accepted, Refused, Nothing, LaidOut
  <1>10. CASE m = Expected(n, l)
    <2>1. torrent' = [is |-> "torrent", total |-> TrueTotal, pieceLength |-> info.pieceLength,
                      pieces |-> CountOf(TrueTotal, info.pieceLength)]
      BY <1>2, <1>4, <1>6, <1>10
    <2>2. torrent'.is = "torrent" /\ torrent' # Refused /\ torrent' # Nothing /\ torrent' # LaidOut
      BY <2>1 DEF Refused, Nothing, LaidOut
    <2>. QED
      BY <1>7, <1>8, <1>10, <2>1, <2>2 DEF TorrentInv, Accepted
  <1>. QED
    BY <1>9, <1>10

\* The pieces of a torrent accepted tile it.
LEMMA AcceptedTile ==
    ASSUME TorrentInv
    PROVE  PiecesTile
  <1> SUFFICES ASSUME Accepted PROVE PiecesTile
    BY DEF PiecesTile
  <1> DEFINE t == TrueTotal
             l == info.pieceLength
             c == CountOf(t, l)
             size == [p \in 0 .. (c - 1) |-> SizeOf(t, l, c, p)]
  <1>1. InfoOK /\ Sound
        /\ torrent = [is |-> "torrent", total |-> t, pieceLength |-> l, pieces |-> c]
    BY DEF TorrentInv
  <1>2. t \in Nat /\ l \in Nat \ {0}
    BY <1>1, LayoutFacts DEF Sound
  <1>3. torrent.total = t /\ torrent.pieceLength = l /\ torrent.pieces = c
    BY <1>1
  <1>4. \A p \in 0 .. (c - 1) : PieceSize(torrent, p) = size[p]
    BY <1>3 DEF PieceSize, SizeOf
  <1>5. /\ c \in Nat
        /\ \A p \in 0 .. (c - 1) :
               /\ p \in Nat /\ p * l \in Nat /\ size[p] \in Nat
               /\ 1 <= size[p] /\ size[p] <= l /\ p * l + size[p] <= t
        /\ \A p \in 0 .. (c - 1), q \in 0 .. (c - 1) : p < q => p * l + size[p] <= q * l
        /\ \A g \in Nat : g < t => \E p \in 0 .. (c - 1) : p * l <= g /\ g < p * l + size[p]
    BY <1>2, Tiling
  <1> HIDE DEF t, l, c, size
  <1>6. \A p \in 0 .. (c - 1) : Span(p) = (p * l) .. ((p * l) + size[p] - 1)
    BY <1>3, <1>4 DEF Span
  <1>7. \A p \in 0 .. (c - 1) : \A g :
            g \in Span(p) <=> (g \in Nat /\ p * l <= g /\ g < p * l + size[p])
    <2> SUFFICES ASSUME NEW p \in 0 .. (c - 1), NEW g
                 PROVE  g \in Span(p) <=> (g \in Nat /\ p * l <= g /\ g < p * l + size[p])
      OBVIOUS
    <2> DEFINE a == p * l
               b == size[p]
    <2>1. a \in Nat /\ b \in Nat /\ Span(p) = a .. (a + b - 1)
      BY <1>5, <1>6
    <2> HIDE DEF a, b
    <2>2. g \in a .. (a + b - 1) <=> (g \in Nat /\ a <= g /\ g < a + b)
      BY <2>1
    <2>. QED
      BY <2>1, <2>2 DEF a, b
  <1>8. UNION {Span(p) : p \in 0 .. (c - 1)} = 0 .. (t - 1)
    <2>1. ASSUME NEW p \in 0 .. (c - 1), NEW g \in Span(p) PROVE g \in 0 .. (t - 1)
      <3> DEFINE a == p * l
                 b == size[p]
      <3>1. a \in Nat /\ b \in Nat /\ a + b <= t /\ g \in Nat /\ g < a + b
        BY <1>5, <1>7, <2>1
      <3> HIDE DEF a, b
      <3>. QED
        BY <1>2, <3>1
    <2>2. ASSUME NEW g \in 0 .. (t - 1) PROVE \E p \in 0 .. (c - 1) : g \in Span(p)
      <3>1. g \in Nat /\ g < t
        BY <1>2
      <3>. QED
        BY <1>5, <1>7, <3>1
    <2>. QED
      BY <2>1, <2>2
  <1>9. ASSUME NEW p \in 0 .. (c - 1), NEW q \in 0 .. (c - 1), p # q PROVE Span(p) \cap Span(q) = {}
    <2>1. ASSUME NEW x \in 0 .. (c - 1), NEW y \in 0 .. (c - 1), NEW g, x < y,
                 g \in Span(x), g \in Span(y)
          PROVE  FALSE
      <3> DEFINE a == x * l
                 b == size[x]
                 d == y * l
      <3>1. a \in Nat /\ b \in Nat /\ d \in Nat /\ a + b <= d /\ g \in Nat /\ g < a + b /\ d <= g
        BY <1>5, <1>7, <2>1
      <3> HIDE DEF a, b, d
      <3>. QED
        BY <3>1
    <2>2. p < q \/ q < p
      BY <1>5, <1>9
    <2>. QED
      BY <2>1, <2>2
  <1>10. \A p \in 0 .. (c - 1) : PieceSize(torrent, p) \in 1 .. l
    BY <1>2, <1>4, <1>5
  <1>. QED
    BY <1>3, <1>8, <1>9, <1>10 DEF PiecesTile, t

\* Every step of the parse keeps what is known of it.
LEMMA TorrentStep ==
    /\ TorrentInit(Infos(Files, Int64, Int64, Nat)) => TorrentInv
    /\ TorrentInv /\ [TorrentNext]_torrentVars => TorrentInv'
  <1>1. TorrentInit(Infos(Files, Int64, Int64, Nat)) => TorrentInv
    <2> SUFFICES ASSUME TorrentInit(Infos(Files, Int64, Int64, Nat)) PROVE TorrentInv
      OBVIOUS
    <2>1. InfoOK /\ torrent = Nothing /\ added = 0 /\ total = 0
      BY DEF TorrentInit, InfoOK
    <2>2. torrent # LaidOut /\ torrent # Refused /\ ~Accepted
      BY <2>1 DEF Accepted, Nothing, LaidOut, Refused
    <2>. QED
      BY <2>1, <2>2 DEF TorrentInv
  <1>2. ASSUME TorrentInv, UNCHANGED torrentVars PROVE TorrentInv'
    BY <1>2 DEF torrentVars, TorrentInv, InfoOK, Accepted, Layout, Sound, Covered, TrueTotal,
                InfoPaths, SumTo
  <1>. QED
    BY <1>1, <1>2, ValidateKeeps, AddLengthKeeps, FinishKeeps DEF TorrentNext

\* parse_torrent() returns exactly the torrents that are sound.
THEOREM TorrentsAreSound == TorrentSpec => []AcceptsSound
  <1>1. TorrentInv => AcceptsSound
    BY DEF TorrentInv, AcceptsSound
  <1>. QED
    BY <1>1, TorrentStep, PTL DEF TorrentSpec

\* And the pieces of every one of them tile its files.
THEOREM TorrentsAreTiled == TorrentSpec => []PiecesTile
  BY TorrentStep, AcceptedTile, PTL DEF TorrentSpec
=============================================================================
