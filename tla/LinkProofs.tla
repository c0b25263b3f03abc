----------------------------- MODULE LinkProofs -----------------------------
(***************************************************************************)
(* Two clients connected to each other are a channel of whole messages     *)
(* (WireLink), for every width of bytes and integers, every handshake and  *)
(* set of messages, and however send() and recv() cut the bytes.           *)
(*                                                                         *)
(* The bytes on their way are the frames of the messages on their way, end *)
(* to end (Line, LinkInv), so the receiver's buffer always begins with the *)
(* frame of the oldest.                                                    *)
(***************************************************************************)
EXTENDS WireLink, TotalsProofs

\* Zenon first, then SMT, with time for a slow machine.
USE ZenonT(6), SMTT(60), ZenonT(60)

----------------------------------------------------------------------------
(* Sequences that are cut and put together *)

\* The bytes of s from place a + 1 to place b.
LEMMA Slice ==
    ASSUME NEW S, NEW s \in Seq(S), NEW a \in Nat, NEW b \in Nat, a <= b, b <= Len(s)
    PROVE  /\ SubSeq(s, a + 1, b) \in Seq(S) /\ Len(SubSeq(s, a + 1, b)) = b - a
           /\ \A i \in 1 .. (b - a) : SubSeq(s, a + 1, b)[i] = s[a + i]
  <1>1. \A i \in (a + 1) .. b : s[i] \in S
    OBVIOUS
  <1>2. /\ SubSeq(s, a + 1, b) \in Seq(S)
        /\ Len(SubSeq(s, a + 1, b)) = IF a + 1 <= b THEN b - (a + 1) + 1 ELSE 0
        /\ \A i \in 1 .. (b - (a + 1) + 1) : SubSeq(s, a + 1, b)[i] = s[(a + 1) + i - 1]
    BY <1>1, SubSeqProperties
  <1>3. \A i \in 1 .. (b - a) : (a + 1) + i - 1 = a + i
    OBVIOUS
  <1>. QED
    BY <1>2, <1>3

\* One sequence after another.
LEMMA Joined ==
    ASSUME NEW S, NEW s \in Seq(S), NEW t \in Seq(S)
    PROVE  /\ s \o t \in Seq(S) /\ Len(s \o t) = Len(s) + Len(t)
           /\ \A i \in 1 .. Len(s) : (s \o t)[i] = s[i]
           /\ \A i \in 1 .. Len(t) : (s \o t)[Len(s) + i] = t[i]
  BY ConcatProperties

\* The first n elements of t, moved to the end of s.
SameWhenMoved(s, t, n) ==
    (s \o SubSeq(t, 1, n)) \o SubSeq(t, n + 1, Len(t)) = s \o t

\* What recv() moves from the front of t to the end of s leaves them, end to end,
\* as they were.
LEMMA Moved ==
    ASSUME NEW S, NEW s \in Seq(S), NEW t \in Seq(S), NEW n \in 0 .. Len(t)
    PROVE  /\ SubSeq(t, 1, n) \in Seq(S) /\ Len(SubSeq(t, 1, n)) = n
           /\ SubSeq(t, n + 1, Len(t)) \in Seq(S)
           /\ s \o SubSeq(t, 1, n) \in Seq(S) /\ Len(s \o SubSeq(t, 1, n)) = Len(s) + n
           /\ SameWhenMoved(s, t, n)
  <1> USE DEF SameWhenMoved
  <1> DEFINE u == SubSeq(t, 1, n)
             v == SubSeq(t, n + 1, Len(t))
  <1>0. n \in Nat /\ n <= Len(t) /\ Len(t) \in Nat
    OBVIOUS
  <1>1. u \in Seq(S) /\ Len(u) = n
    <2>1. SubSeq(t, 0 + 1, n) \in Seq(S) /\ Len(SubSeq(t, 0 + 1, n)) = n - 0
      BY <1>0, Slice
    <2>. QED
      BY <1>0, <2>1
  <1>2. v \in Seq(S)
    BY <1>0, Slice
  <1>3. u \o v = t
    <2>1. SubSeq(t, 1, n) \o SubSeq(t, n + 1, Len(t)) = SubSeq(t, 1, Len(t))
      <3>1. 1 \in 1 .. Len(t) + 1 /\ n \in 1 - 1 .. Len(t) /\ Len(t) \in n .. Len(t)
        BY <1>0
      <3>. QED
        BY <3>1, ConcatAdjacentSubSeq
    <2>. QED
      BY <2>1, SubSeqFull
  <1> HIDE DEF u, v
  <1>4. (s \o u) \o v = s \o (u \o v)
    BY <1>1, <1>2, ConcatAssociative
  <1>5. s \o u \in Seq(S) /\ Len(s \o u) = Len(s) + Len(u)
    BY <1>1, Joined
  <1>6. /\ u \in Seq(S) /\ Len(u) = n /\ v \in Seq(S)
        /\ s \o u \in Seq(S) /\ Len(s \o u) = Len(s) + n
        /\ (s \o u) \o v = s \o t
    BY <1>1, <1>2, <1>3, <1>4, <1>5
  <1>. QED
    BY <1>6 DEF u, v

\* What is taken off the front of s is taken off the front of s and t end to end.
LEMMA FrontTaken ==
    ASSUME NEW S, NEW s \in Seq(S), NEW t \in Seq(S), NEW n \in 0 .. Len(s)
    PROVE  SubSeq(s, n + 1, Len(s)) \o t = SubSeq(s \o t, n + 1, Len(s \o t))
  <1> DEFINE u == SubSeq(s, n + 1, Len(s))
             c == s \o t
             v == SubSeq(c, n + 1, Len(c))
  <1>0. n \in Nat /\ n <= Len(s) /\ Len(s) \in Nat /\ Len(t) \in Nat
    OBVIOUS
  <1>1. /\ c \in Seq(S) /\ Len(c) = Len(s) + Len(t)
        /\ \A i \in 1 .. Len(s) : c[i] = s[i]
        /\ \A i \in 1 .. Len(t) : c[Len(s) + i] = t[i]
    BY Joined
  <1>2. /\ u \in Seq(S) /\ Len(u) = Len(s) - n
        /\ \A i \in 1 .. (Len(s) - n) : u[i] = s[n + i]
    BY <1>0, Slice
  <1>3. /\ v \in Seq(S) /\ Len(v) = Len(c) - n
        /\ \A i \in 1 .. (Len(c) - n) : v[i] = c[n + i]
    <2>1. Len(c) \in Nat /\ n <= Len(c)
      BY <1>0, <1>1
    <2>. QED
      BY <1>0, <1>1, <2>1, Slice
  <1> HIDE DEF u, c, v
  <1>4. /\ u \o t \in Seq(S) /\ Len(u \o t) = Len(u) + Len(t)
        /\ \A i \in 1 .. Len(u) : (u \o t)[i] = u[i]
        /\ \A i \in 1 .. Len(t) : (u \o t)[Len(u) + i] = t[i]
    <2>1. u \in Seq(S)
      BY <1>2
    <2>. QED
      BY <2>1, Joined
  <1>5. Len(u \o t) = Len(v)
    BY <1>0, <1>1, <1>2, <1>3, <1>4
  <1>6. ASSUME NEW i \in 1 .. Len(v) PROVE (u \o t)[i] = v[i]
    <2>1. CASE i <= Len(u)
      <3>1. i \in 1 .. Len(u) /\ n + i \in 1 .. Len(s) /\ i \in 1 .. (Len(c) - n)
        BY <1>0, <1>1, <1>2, <1>3, <2>1
      <3>. QED
        BY <1>1, <1>2, <1>3, <1>4, <3>1
    <2>2. CASE i > Len(u)
      <3>1. PICK j \in 1 .. Len(t) : i = Len(u) + j /\ n + i = Len(s) + j
        <4>1. i - Len(u) \in 1 .. Len(t) /\ i = Len(u) + (i - Len(u))
              /\ n + i = Len(s) + (i - Len(u))
          BY <1>0, <1>1, <1>2, <1>3, <2>2
        <4>. QED
          BY <4>1
      <3>2. i \in 1 .. (Len(c) - n)
        BY <1>3
      <3>. QED
        BY <1>1, <1>3, <1>4, <3>1, <3>2
    <2>3. i <= Len(u) \/ i > Len(u)
      BY <1>0, <1>2
    <2>. QED
      BY <2>1, <2>2, <2>3
  <1>7. u \o t = v
    BY <1>3, <1>4, <1>5, <1>6, SeqEqual
  <1>. QED
    BY <1>7 DEF u, c, v

----------------------------------------------------------------------------
(* A stream that carries frames *)

\* The bytes of pipe are the first k of the frames f end to end and then the first
\* cut bytes of the next, with frame i between the places at[i - 1] and at[i].
Cuts(pipe, f, k, cut, at) ==
    /\ at[0] = 0 /\ at[k] + cut = Len(pipe)
    /\ \A i \in 1 .. k : at[i] = at[i - 1] + Len(f[i])
    /\ \A i, j \in 0 .. k : i <= j => at[i] <= at[j]
    /\ \A i \in 1 .. k : \A b \in 1 .. Len(f[i]) : pipe[at[i - 1] + b] = f[i][b]
    /\ \A b \in 1 .. cut : pipe[at[k] + b] = f[k + 1][b]

Carries(pipe, f, k, cut) ==
    /\ k \in 0 .. Len(f) /\ cut \in Nat
    /\ cut > 0 => k < Len(f) /\ cut < Len(f[k + 1])
    /\ \E at \in [0 .. k -> 0 .. Len(pipe)] : Cuts(pipe, f, k, cut, at)

\* Nothing is said of the frames that have not been begun.
LEMMA CarriesSame ==
    ASSUME NEW S, NEW pipe \in Seq(S), NEW f \in Seq(Seq(S)), NEW g \in Seq(Seq(S)),
           NEW k, NEW cut,
           Carries(pipe, f, k, cut), k <= Len(g),
           \A i \in 1 .. k : g[i] = f[i],
           cut > 0 => k < Len(g) /\ g[k + 1] = f[k + 1]
    PROVE  Carries(pipe, g, k, cut)
  <1>1. k \in 0 .. Len(g) /\ k \in Nat /\ cut \in Nat
    BY DEF Carries
  <1>2. cut > 0 => k < Len(g) /\ cut < Len(g[k + 1])
    BY DEF Carries
  <1>3. PICK at \in [0 .. k -> 0 .. Len(pipe)] : Cuts(pipe, f, k, cut, at)
    BY DEF Carries
  <1>4. Cuts(pipe, g, k, cut, at)
    <2>1. /\ at[0] = 0 /\ at[k] + cut = Len(pipe)
          /\ \A i, j \in 0 .. k : i <= j => at[i] <= at[j]
      BY <1>3 DEF Cuts
    <2>2. \A i \in 1 .. k : at[i] = at[i - 1] + Len(g[i])
      BY <1>3 DEF Cuts
    <2>3. ASSUME NEW i \in 1 .. k, NEW b \in 1 .. Len(g[i]) PROVE pipe[at[i - 1] + b] = g[i][b]
      BY <1>3 DEF Cuts
    <2>4. ASSUME NEW b \in 1 .. cut PROVE pipe[at[k] + b] = g[k + 1][b]
      <3>1. cut > 0
        BY <1>1
      <3>. QED
        BY <1>3, <3>1 DEF Cuts
    <2>. QED
      BY <2>1, <2>2, <2>3, <2>4 DEF Cuts
  <1>. QED
    BY <1>1, <1>2, <1>3, <1>4 DEF Carries

\* The first frame is at the front of the stream, as far as the stream goes, and it
\* is there to its end exactly when it has been sent.
LEMMA CarriesFirst ==
    ASSUME NEW S, NEW pipe \in Seq(S), NEW f \in Seq(Seq(S)), NEW k, NEW cut,
           Carries(pipe, f, k, cut),
           \A i \in 1 .. Len(f) : Len(f[i]) > 0
    PROVE  /\ f = <<>> => Len(pipe) = 0
           /\ f # <<>> =>
                  /\ \A b \in 1 .. Len(f[1]) : b <= Len(pipe) => pipe[b] = f[1][b]
                  /\ Len(pipe) >= Len(f[1]) <=> k >= 1
  <1>1. /\ k \in 0 .. Len(f) /\ cut \in Nat /\ k \in Nat /\ Len(pipe) \in Nat /\ Len(f) \in Nat
        /\ cut > 0 => k < Len(f) /\ cut < Len(f[k + 1])
    BY DEF Carries
  <1>2. PICK at \in [0 .. k -> 0 .. Len(pipe)] : Cuts(pipe, f, k, cut, at)
    BY DEF Carries
  <1>3. CASE k = 0
    <2>1. Len(pipe) = cut /\ at[k] = 0
      BY <1>1, <1>2, <1>3 DEF Cuts
    <2>2. f = <<>> => Len(pipe) = 0
      BY <1>1, <1>3, <2>1
    <2>3. ASSUME f # <<>>
          PROVE  /\ \A b \in 1 .. Len(f[1]) : b <= Len(pipe) => pipe[b] = f[1][b]
                 /\ Len(pipe) < Len(f[1])
      <3>1. Len(f) >= 1 /\ Len(f[1]) \in Nat /\ Len(f[1]) > 0
        BY <1>1, <2>3
      <3>2. Len(pipe) < Len(f[1])
        BY <1>1, <1>3, <2>1, <3>1
      <3>3. ASSUME NEW b \in 1 .. Len(f[1]), b <= Len(pipe) PROVE pipe[b] = f[1][b]
        <4>1. b \in 1 .. cut /\ at[k] + b = b /\ k + 1 = 1
          BY <1>1, <1>3, <2>1, <3>1, <3>3
        <4>. QED
          BY <1>2, <4>1 DEF Cuts
      <3>. QED
        BY <3>2, <3>3
    <2>4. f # <<>> => Len(f[1]) \in Nat
      OBVIOUS
    <2>. QED
      BY <1>1, <1>3, <2>2, <2>3, <2>4
  <1>4. CASE k >= 1
    <2>1. 1 \in 1 .. k /\ 0 \in 0 .. k /\ 1 \in 0 .. k /\ k \in 0 .. k /\ f # <<>> /\ 1 - 1 = 0
      BY <1>1, <1>4
    <2>2. at[0] = 0 /\ at[1] = at[0] + Len(f[1]) /\ at[1] \in 0 .. Len(pipe)
      BY <1>2, <2>1 DEF Cuts
    <2>3. Len(pipe) >= Len(f[1]) /\ Len(f[1]) \in Nat
      BY <1>1, <2>1, <2>2
    <2>4. ASSUME NEW b \in 1 .. Len(f[1]) PROVE pipe[b] = f[1][b]
      <3>1. pipe[at[0] + b] = f[1][b]
        BY <1>2, <2>1 DEF Cuts
      <3>2. at[0] + b = b
        BY <2>2, <2>3
      <3>. QED
        BY <3>1, <3>2
    <2>. QED
      BY <1>4, <2>1, <2>3, <2>4
  <1>. QED
    BY <1>1, <1>3, <1>4

\* send() takes n more bytes of the frame that is on its way.
LEMMA CarriesMore ==
    ASSUME NEW S, NEW pipe \in Seq(S), NEW f \in Seq(Seq(S)), NEW k, NEW cut,
           Carries(pipe, f, k, cut), k < Len(f),
           NEW n \in Nat \ {0}, cut + n <= Len(f[k + 1])
    PROVE  LET more == pipe \o SubSeq(f[k + 1], cut + 1, cut + n)
           IN  IF cut + n = Len(f[k + 1]) THEN Carries(more, f, k + 1, 0)
               ELSE Carries(more, f, k, cut + n)
  <1> DEFINE next == f[k + 1]
             piece == SubSeq(next, cut + 1, cut + n)
             more == pipe \o piece
  <1>1. /\ k \in 0 .. Len(f) /\ cut \in Nat /\ k \in Nat /\ Len(pipe) \in Nat /\ Len(f) \in Nat
        /\ next \in Seq(S) /\ Len(next) \in Nat /\ cut + n <= Len(next) /\ cut + n \in Nat
    BY DEF Carries
  <1>2. PICK at \in [0 .. k -> 0 .. Len(pipe)] : Cuts(pipe, f, k, cut, at)
    BY DEF Carries
  <1>3. /\ piece \in Seq(S) /\ Len(piece) = n
        /\ \A i \in 1 .. n : piece[i] = next[cut + i]
    <2>1. cut <= cut + n /\ (cut + n) - cut = n
      BY <1>1
    <2>. QED
      BY <1>1, <2>1, Slice
  <1> HIDE DEF piece
  <1>4. /\ more \in Seq(S) /\ Len(more) = Len(pipe) + n
        /\ \A i \in 1 .. Len(pipe) : more[i] = pipe[i]
        /\ \A i \in 1 .. n : more[Len(pipe) + i] = next[cut + i]
    <2>1. piece \in Seq(S)
      BY <1>3
    <2>2. /\ more \in Seq(S) /\ Len(more) = Len(pipe) + Len(piece)
          /\ \A i \in 1 .. Len(pipe) : more[i] = pipe[i]
          /\ \A i \in 1 .. Len(piece) : more[Len(pipe) + i] = piece[i]
      BY <2>1, Joined
    <2>. QED
      BY <1>3, <2>2
  <1> HIDE DEF more
  <1>5. /\ at[0] = 0 /\ at[k] + cut = Len(pipe) /\ at[k] \in Nat
        /\ \A i \in 1 .. k : at[i] = at[i - 1] + Len(f[i])
        /\ \A i, j \in 0 .. k : i <= j => at[i] <= at[j]
        /\ \A i \in 0 .. k : at[i] \in 0 .. Len(pipe)
    BY <1>1, <1>2 DEF Cuts
  <1> DEFINE z == at[k]
             l == Len(pipe)
             x == Len(next)
  <1>0. /\ z + cut = l /\ z \in Nat /\ cut \in Nat /\ n \in Nat /\ n > 0
        /\ l \in Nat /\ Len(more) = l + n /\ x \in Nat /\ cut + n <= x
    BY <1>1, <1>4, <1>5
  <1> HIDE DEF z, l, x
  <1>6. ASSUME NEW i \in 1 .. k, NEW b \in 1 .. Len(f[i]) PROVE more[at[i - 1] + b] = f[i][b]
    <2>1. pipe[at[i - 1] + b] = f[i][b]
      BY <1>2 DEF Cuts
    <2>2. i \in 0 .. k /\ i - 1 \in 0 .. k /\ Len(f[i]) \in Nat
      BY <1>1
    <2>3. at[i - 1] + b \in 1 .. Len(pipe)
      BY <1>5, <2>2
    <2>. QED
      BY <1>4, <2>1, <2>3
  <1>7. ASSUME NEW b \in 1 .. (cut + n) PROVE more[at[k] + b] = next[b]
    <2>1. CASE b <= cut
      <3>1. b \in 1 .. cut /\ at[k] + b \in 1 .. Len(pipe)
        BY <1>1, <1>5, <2>1
      <3>2. pipe[at[k] + b] = next[b]
        BY <1>2, <3>1 DEF Cuts
      <3>. QED
        BY <1>4, <3>1, <3>2
    <2>2. CASE b > cut
      <3>1. b - cut \in 1 .. n /\ at[k] + b = Len(pipe) + (b - cut) /\ cut + (b - cut) = b
        <4>1. b - cut \in 1 .. n /\ z + b = l + (b - cut) /\ cut + (b - cut) = b
          BY <1>0, <2>2
        <4>. QED
          BY <4>1 DEF z, l
      <3>. QED
        BY <1>4, <3>1
    <2>. QED
      BY <1>1, <2>1, <2>2
  <1>8. CASE cut + n # Len(next)
    <2>1. at \in [0 .. k -> 0 .. Len(more)]
      BY <1>1, <1>4, <1>5
    <2>2. at[k] + (cut + n) = Len(more)
      <3>1. z + (cut + n) = Len(more)
        BY <1>0
      <3>. QED
        BY <3>1 DEF z
    <2>3. Cuts(more, f, k, cut + n, at)
      BY <1>5, <1>6, <1>7, <2>2 DEF Cuts
    <2>4. Carries(more, f, k, cut + n)
      <3>1. cut + n < Len(next)
        <4>1. cut + n # x
          BY <1>8 DEF x
        <4>2. cut + n < x
          BY <1>0, <4>1
        <4>. QED
          BY <4>2 DEF x
      <3>. QED
        BY <1>1, <2>1, <2>3, <3>1 DEF Carries
    <2>. QED
      BY <1>8, <2>4 DEF more, piece
  <1>9. CASE cut + n = Len(next)
    <2> DEFINE to == [i \in 0 .. (k + 1) |-> IF i <= k THEN at[i] ELSE Len(more)]
    <2>1. Len(more) \in Nat /\ Len(more) = at[k] + Len(next)
      <3>1. cut + n = x
        BY <1>9 DEF x
      <3>2. Len(more) \in Nat /\ Len(more) = z + x
        BY <1>0, <3>1
      <3>. QED
        BY <3>2 DEF z, x
    <2>2. to \in [0 .. (k + 1) -> 0 .. Len(more)]
      BY <1>1, <1>4, <1>5, <2>1
    <2>3. /\ \A i \in 0 .. k : to[i] = at[i]
          /\ to[k + 1] = Len(more)
      BY <1>1
    <2> HIDE DEF to
    <2>4. to[0] = 0 /\ to[k + 1] + 0 = Len(more)
      BY <1>1, <1>5, <2>1, <2>3
    <2>5. ASSUME NEW i \in 1 .. (k + 1)
          PROVE  /\ to[i] = to[i - 1] + Len(f[i])
                 /\ \A b \in 1 .. Len(f[i]) : more[to[i - 1] + b] = f[i][b]
      <3>1. CASE i <= k
        <4>1. i \in 1 .. k /\ i \in 0 .. k /\ i - 1 \in 0 .. k
          BY <1>1, <3>1
        <4>. QED
          BY <1>5, <1>6, <2>3, <4>1
      <3>2. CASE i = k + 1
        <4>1. i - 1 = k /\ k \in 0 .. k
          BY <1>1, <3>2
        <4>. QED
          BY <1>7, <1>9, <2>1, <2>3, <3>2, <4>1
      <3>. QED
        BY <1>1, <3>1, <3>2
    <2>6. ASSUME NEW i \in 0 .. (k + 1), NEW j \in 0 .. (k + 1), i <= j PROVE to[i] <= to[j]
      <3>1. CASE j <= k
        <4>1. i \in 0 .. k /\ j \in 0 .. k
          BY <1>1, <2>6, <3>1
        <4>. QED
          BY <1>5, <2>3, <2>6, <4>1
      <3>2. CASE j = k + 1
        <4>1. to[j] = Len(more) /\ to[i] \in 0 .. Len(more)
          BY <2>2, <2>3, <3>2
        <4>. QED
          BY <2>1, <4>1
      <3>. QED
        BY <1>1, <3>1, <3>2
    <2>7. \A b \in 1 .. 0 : more[to[k + 1] + b] = f[(k + 1) + 1][b]
      OBVIOUS
    <2>8. Cuts(more, f, k + 1, 0, to)
      BY <2>4, <2>5, <2>6, <2>7 DEF Cuts
    <2>9. Carries(more, f, k + 1, 0)
      <3>1. k + 1 \in 0 .. Len(f) /\ 0 \in Nat /\ ~(0 > 0)
        BY <1>1
      <3>. QED
        BY <2>2, <2>8, <3>1 DEF Carries
    <2>. QED
      BY <1>9, <2>9 DEF more, piece
  <1>. QED
    BY <1>8, <1>9

\* The first frame is taken off the front of the stream.
LEMMA CarriesRest ==
    ASSUME NEW S, NEW pipe \in Seq(S), NEW f \in Seq(Seq(S)), NEW k, NEW cut,
           Carries(pipe, f, k, cut), k >= 1
    PROVE  Carries(SubSeq(pipe, Len(f[1]) + 1, Len(pipe)), Tail(f), k - 1, cut)
  <1> DEFINE n == Len(f[1])
             rest == SubSeq(pipe, n + 1, Len(pipe))
             g == Tail(f)
             m == k - 1
  <1>1. /\ k \in 0 .. Len(f) /\ cut \in Nat /\ k \in Nat /\ Len(pipe) \in Nat /\ Len(f) \in Nat
        /\ cut > 0 => k < Len(f) /\ cut < Len(f[k + 1])
        /\ 1 \in 1 .. Len(f) /\ f # <<>> /\ n \in Nat
    BY DEF Carries
  <1>2. PICK at \in [0 .. k -> 0 .. Len(pipe)] : Cuts(pipe, f, k, cut, at)
    BY DEF Carries
  <1>3. g \in Seq(Seq(S)) /\ Len(g) = Len(f) - 1 /\ \A i \in 1 .. (Len(f) - 1) : g[i] = f[i + 1]
    BY <1>1, HeadTailProperties
  <1>4. /\ at[0] = 0 /\ at[k] + cut = Len(pipe) /\ at[k] \in Nat
        /\ \A i \in 1 .. k : at[i] = at[i - 1] + Len(f[i])
        /\ \A i, j \in 0 .. k : i <= j => at[i] <= at[j]
        /\ \A i \in 0 .. k : at[i] \in 0 .. Len(pipe)
    BY <1>1, <1>2 DEF Cuts
  <1>5. at[1] = n /\ n <= Len(pipe) /\ m \in Nat /\ 1 \in 0 .. k
    <2>1. 1 \in 1 .. k /\ 1 \in 0 .. k /\ 1 - 1 = 0 /\ m \in Nat
      BY <1>1
    <2>2. at[1] = at[0] + n
      BY <1>4, <2>1
    <2>. QED
      BY <1>1, <1>4, <2>1, <2>2
  <1>6. /\ rest \in Seq(S) /\ Len(rest) = Len(pipe) - n
        /\ \A i \in 1 .. (Len(pipe) - n) : rest[i] = pipe[n + i]
    <2>1. Len(pipe) <= Len(pipe)
      BY <1>1
    <2> HIDE DEF n
    <2>. QED
      BY <1>1, <1>5, <2>1, Slice
  <1> HIDE DEF rest, g, n
  <1>0. /\ n \in Nat /\ Len(pipe) \in Nat /\ n <= Len(pipe) /\ Len(rest) = Len(pipe) - n
        /\ at[k] + cut = Len(pipe) /\ at[k] \in Nat /\ cut \in Nat /\ at[1] = n
    BY <1>1, <1>4, <1>5, <1>6
  <1> DEFINE to == [i \in 0 .. m |-> at[i + 1] - n]
  <1>7. ASSUME NEW i \in 0 .. m
        PROVE  /\ i + 1 \in 0 .. k /\ to[i] = at[i + 1] - n
               /\ at[i + 1] >= n /\ to[i] \in 0 .. Len(rest)
    <2>1. i + 1 \in 0 .. k /\ 1 <= i + 1
      BY <1>1
    <2>2. at[1] <= at[i + 1] /\ at[i + 1] \in 0 .. Len(pipe)
      BY <1>4, <1>5, <2>1
    <2>. QED
      BY <1>1, <1>5, <1>6, <2>1, <2>2
  <1>8. to \in [0 .. m -> 0 .. Len(rest)]
    BY <1>7
  <1> HIDE DEF to
  <1>9. to[0] = 0 /\ to[m] + cut = Len(rest)
    <2>1. 0 \in 0 .. m /\ m \in 0 .. m /\ 0 + 1 = 1 /\ m + 1 = k
      BY <1>1, <1>5
    <2>2. to[0] = at[1] - n /\ to[m] = at[k] - n
      BY <1>7, <2>1
    <2>3. (at[k] - n) + cut = Len(pipe) - n /\ at[1] - n = 0
      <3> DEFINE y == at[k]
      <3>1. y \in Nat /\ y + cut = Len(pipe)
        BY <1>0
      <3> HIDE DEF y
      <3>2. (y - n) + cut = Len(pipe) - n
        BY <1>0, <3>1
      <3>. QED
        BY <1>0, <3>2 DEF y
    <2>. QED
      BY <1>0, <2>2, <2>3
  <1>10. ASSUME NEW i \in 1 .. m
         PROVE  /\ to[i] = to[i - 1] + Len(g[i])
                /\ \A b \in 1 .. Len(g[i]) : rest[to[i - 1] + b] = g[i][b]
    <2>1. /\ i \in 0 .. m /\ i - 1 \in 0 .. m /\ (i - 1) + 1 = i /\ (i + 1) - 1 = i
          /\ i + 1 \in 1 .. k /\ i \in 1 .. (Len(f) - 1) /\ i \in 0 .. k /\ i + 1 \in 0 .. k
      BY <1>1
    <2>2. /\ to[i] = at[i + 1] - n /\ to[i - 1] = at[i] - n /\ at[i] >= n
          /\ g[i] = f[i + 1] /\ Len(g[i]) \in Nat
          /\ at[i + 1] = at[i] + Len(g[i])
          /\ at[i] \in 0 .. Len(pipe) /\ at[i + 1] \in 0 .. Len(pipe)
      <3>1. to[i] = at[i + 1] - n
        BY <1>7, <2>1
      <3>2. to[i - 1] = at[i] - n /\ at[i] >= n
        BY <1>7, <2>1
      <3>3. g[i] = f[i + 1] /\ Len(g[i]) \in Nat
        BY <1>3, <2>1
      <3>4. at[i + 1] = at[i] + Len(g[i])
        BY <1>4, <2>1, <3>3
      <3>. QED
        BY <1>4, <2>1, <3>1, <3>2, <3>3, <3>4
    <2>3. ASSUME NEW b \in 1 .. Len(g[i]) PROVE rest[to[i - 1] + b] = g[i][b]
      <3>1. pipe[at[i] + b] = g[i][b]
        <4>1. pipe[at[(i + 1) - 1] + b] = f[i + 1][b]
          BY <1>2, <2>1, <2>2 DEF Cuts
        <4>. QED
          BY <2>1, <2>2, <4>1
      <3>2. to[i - 1] + b \in 1 .. (Len(pipe) - n) /\ n + (to[i - 1] + b) = at[i] + b
        <4> DEFINE y == at[i]
                   w == Len(g[i])
        <4>1. /\ y >= n /\ w \in Nat /\ y \in Nat /\ y + w <= Len(pipe) /\ to[i - 1] = y - n
              /\ b \in 1 .. w
          BY <1>0, <2>2
        <4> HIDE DEF y, w
        <4>2. (y - n) + b \in 1 .. (Len(pipe) - n) /\ n + ((y - n) + b) = y + b
          BY <1>0, <4>1
        <4>. QED
          BY <4>1, <4>2 DEF y
      <3>. QED
        BY <1>6, <3>1, <3>2
    <2>4. to[i] = to[i - 1] + Len(g[i])
      <3> DEFINE y == at[i]
                 w == Len(g[i])
      <3>1. /\ y \in Nat /\ w \in Nat /\ to[i - 1] = y - n /\ to[i] = (y + w) - n
        BY <2>2
      <3> HIDE DEF y, w
      <3>2. (y + w) - n = (y - n) + w
        BY <1>0, <3>1
      <3>. QED
        BY <3>1, <3>2 DEF w
    <2>. QED
      BY <2>3, <2>4
  <1>11. ASSUME NEW i \in 0 .. m, NEW j \in 0 .. m, i <= j PROVE to[i] <= to[j]
    <2>1. /\ i + 1 \in 0 .. k /\ j + 1 \in 0 .. k /\ i + 1 <= j + 1
          /\ to[i] = at[i + 1] - n /\ to[j] = at[j + 1] - n
      BY <1>7, <1>11
    <2>2. at[i + 1] <= at[j + 1] /\ at[i + 1] \in Nat /\ at[j + 1] \in Nat
      BY <1>4, <2>1
    <2>. QED
      BY <1>1, <2>1, <2>2
  <1>12. ASSUME NEW b \in 1 .. cut PROVE rest[to[m] + b] = g[m + 1][b]
    <2>1. /\ m + 1 = k /\ m \in 0 .. m /\ cut > 0 /\ k \in 1 .. (Len(f) - 1)
      BY <1>1, <1>5
    <2>2. to[m] = at[k] - n /\ at[k] >= n /\ g[m + 1] = f[k + 1]
      <3>1. to[m] = at[m + 1] - n /\ at[m + 1] >= n
        BY <1>7, <2>1
      <3>2. g[k] = f[k + 1]
        BY <1>3, <2>1
      <3>. QED
        BY <2>1, <3>1, <3>2
    <2>3. pipe[at[k] + b] = f[k + 1][b]
      BY <1>2 DEF Cuts
    <2>4. to[m] + b \in 1 .. (Len(pipe) - n) /\ n + (to[m] + b) = at[k] + b
      BY <1>1, <1>4, <2>2
    <2>. QED
      BY <1>6, <2>2, <2>3, <2>4
  <1>13. Cuts(rest, g, m, cut, to)
    BY <1>9, <1>10, <1>11, <1>12 DEF Cuts
  <1>14. /\ m \in 0 .. Len(g)
         /\ cut > 0 => m < Len(g) /\ cut < Len(g[m + 1])
    <2>1. m + 1 = k
      BY <1>1
    <2>2. cut > 0 => k \in 1 .. (Len(f) - 1)
      BY <1>1
    <2>. QED
      BY <1>1, <1>3, <1>5, <2>1, <2>2
  <1>15. Carries(rest, g, m, cut)
    BY <1>1, <1>8, <1>13, <1>14 DEF Carries
  <1>. QED
    BY <1>15 DEF rest, g, n

----------------------------------------------------------------------------
(* What is encoded is decoded *)

\* htonl() gives Field bytes.
LEMMA WordBytes ==
    ASSUME NEW n \in Word
    PROVE  htonl(n) \in Seq(Byte) /\ Len(htonl(n)) = Field /\ Field \in Nat /\ Field > 0
  <1>1. Field \in Nat /\ Field > 0
    BY SizesAssumption
  <1>2. htonl(n) \in [1 .. Field -> Byte]
    BY WordsAssumption
  <1>. QED
    BY <1>1, <1>2

\* An integer is read where its bytes were put.
LEMMA FieldRead ==
    ASSUME NEW s \in Seq(Byte), NEW a \in Nat, NEW n \in Word, a + Field <= Len(s),
           \A i \in 1 .. Field : s[a + i] = htonl(n)[i]
    PROVE  FieldAt(s, a + 1) = n
  <1>1. htonl(n) \in Seq(Byte) /\ Len(htonl(n)) = Field /\ Field \in Nat /\ Field > 0
    BY WordBytes
  <1> DEFINE u == SubSeq(s, a + 1, a + Field)
  <1>2. u \in Seq(Byte) /\ Len(u) = Field /\ \A i \in 1 .. Field : u[i] = s[a + i]
    <2>1. a + Field \in Nat /\ a <= a + Field /\ (a + Field) - a = Field
      BY <1>1
    <2>. QED
      BY <2>1, Slice
  <1> HIDE DEF u
  <1>3. u = htonl(n)
    BY <1>1, <1>2, SeqEqual
  <1>4. a + 1 + Field - 1 = a + Field
    BY <1>1
  <1>5. FieldAt(s, a + 1) = ntohl(u)
    BY <1>4 DEF FieldAt, u
  <1>. QED
    BY <1>3, <1>5, WordsAssumption

\* The integers of a message stand one after the other, Field bytes each.
LEMMA FieldsBytes ==
    ASSUME NEW f \in Seq(Word), Len(f) <= 3
    PROVE  /\ Fields(f) \in Seq(Byte) /\ Len(Fields(f)) = Len(f) * Field
           /\ \A k \in 1 .. Len(f) :
                  /\ (k - 1) * Field \in Nat /\ (k - 1) * Field + Field <= Len(f) * Field
                  /\ \A i \in 1 .. Field : Fields(f)[(k - 1) * Field + i] = htonl(f[k])[i]
  <1>0. Len(f) \in Nat /\ Field \in Nat
    BY SizesAssumption
  <1>1. CASE Len(f) = 0
    <2>1. Fields(f) = <<>>
      BY <1>1 DEF Fields
    <2>2. \A k \in 1 .. Len(f) : FALSE
      BY <1>1
    <2>3. 0 * Field = 0
      BY <1>0
    <2>. QED
      BY <1>1, <2>1, <2>2, <2>3
  <1>2. CASE Len(f) = 1
    <2>1. Fields(f) = htonl(f[1]) /\ f[1] \in Word
      BY <1>2 DEF Fields
    <2>2. Fields(f) \in Seq(Byte) /\ Len(Fields(f)) = Field
      BY <2>1, WordBytes
    <2>3. (1 - 1) * Field = 0 /\ 1 * Field = Field /\ \A i \in 1 .. Field : 0 + i = i
      BY <1>0
    <2>4. \A k \in 1 .. Len(f) : k = 1
      BY <1>2
    <2>. QED
      BY <1>0, <1>2, <2>1, <2>2, <2>3, <2>4
  <1>3. CASE Len(f) = 2
    <2> DEFINE a == htonl(f[1])
               b == htonl(f[2])
    <2>1. Fields(f) = a \o b /\ f[1] \in Word /\ f[2] \in Word
      <3>1. f[1] \in Word /\ f[2] \in Word
        BY <1>3
      <3>2. Fields(f) = htonl(f[1]) \o htonl(f[2])
        BY ONLY <1>3 DEF Fields
      <3>. QED
        BY <3>1, <3>2
    <2>2. a \in Seq(Byte) /\ Len(a) = Field /\ b \in Seq(Byte) /\ Len(b) = Field
      BY <2>1, WordBytes
    <2> HIDE DEF a, b
    <2>3. /\ a \o b \in Seq(Byte) /\ Len(a \o b) = Len(a) + Len(b)
          /\ \A i \in 1 .. Len(a) : (a \o b)[i] = a[i]
          /\ \A i \in 1 .. Len(b) : (a \o b)[Len(a) + i] = b[i]
      <3>1. a \in Seq(Byte) /\ b \in Seq(Byte)
        BY <2>2
      <3>. QED
        BY <3>1, Joined
    <2>4. /\ (1 - 1) * Field = 0 /\ (2 - 1) * Field = Field /\ 2 * Field = Field + Field
          /\ \A i \in 1 .. Field : 0 + i = i
      BY <1>0
    <2>5. \A k \in 1 .. Len(f) : k = 1 \/ k = 2
      BY <1>3
    <2>6. /\ \A i \in 1 .. Field : Fields(f)[0 + i] = htonl(f[1])[i]
          /\ \A i \in 1 .. Field : Fields(f)[Field + i] = htonl(f[2])[i]
          /\ Fields(f) \in Seq(Byte) /\ Len(Fields(f)) = Field + Field
      BY <2>1, <2>2, <2>3, <2>4 DEF a, b
    <2>. QED
      BY <1>0, <1>3, <2>4, <2>5, <2>6
  <1>4. CASE Len(f) = 3
    <2> DEFINE a == htonl(f[1])
               b == htonl(f[2])
               c == htonl(f[3])
               d == a \o b
    <2>1. Fields(f) = d \o c /\ f[1] \in Word /\ f[2] \in Word /\ f[3] \in Word
      <3>1. f[1] \in Word /\ f[2] \in Word /\ f[3] \in Word
        <4>1. 1 \in 1 .. Len(f) /\ 2 \in 1 .. Len(f) /\ 3 \in 1 .. Len(f)
          BY <1>4
        <4>. QED
          BY <4>1, ElementOfSeq
      <3>2. Len(f) # 0 /\ Len(f) # 1 /\ Len(f) # 2
        BY <1>4
      <3>. QED
        BY <3>1, <3>2 DEF Fields
    <2>2. /\ a \in Seq(Byte) /\ Len(a) = Field /\ b \in Seq(Byte) /\ Len(b) = Field
          /\ c \in Seq(Byte) /\ Len(c) = Field
      BY <2>1, WordBytes
    <2> HIDE DEF a, b, c
    <2>3. /\ d \in Seq(Byte) /\ Len(d) = Len(a) + Len(b)
          /\ \A i \in 1 .. Len(a) : d[i] = a[i]
          /\ \A i \in 1 .. Len(b) : d[Len(a) + i] = b[i]
      <3>1. a \in Seq(Byte) /\ b \in Seq(Byte)
        BY <2>2
      <3>. QED
        BY <3>1, Joined
    <2> HIDE DEF d
    <2>4. /\ d \o c \in Seq(Byte) /\ Len(d \o c) = Len(d) + Len(c)
          /\ \A i \in 1 .. Len(d) : (d \o c)[i] = d[i]
          /\ \A i \in 1 .. Len(c) : (d \o c)[Len(d) + i] = c[i]
      <3>1. d \in Seq(Byte) /\ c \in Seq(Byte)
        BY <2>2, <2>3
      <3>. QED
        BY <3>1, Joined
    <2>5. /\ (1 - 1) * Field = 0 /\ (2 - 1) * Field = Field /\ (3 - 1) * Field = Field + Field
          /\ 3 * Field = Field + Field + Field
          /\ \A i \in 1 .. Field : 0 + i = i
      BY <1>0
    <2>6. \A k \in 1 .. Len(f) : k = 1 \/ k = 2 \/ k = 3
      BY <1>4
    <2>7. \A i \in 1 .. Field : i \in 1 .. Len(d) /\ Field + i \in 1 .. Len(d)
      BY <1>0, <2>2, <2>3
    <2>8. /\ \A i \in 1 .. Field : Fields(f)[0 + i] = htonl(f[1])[i]
          /\ \A i \in 1 .. Field : Fields(f)[Field + i] = htonl(f[2])[i]
          /\ \A i \in 1 .. Field : Fields(f)[(Field + Field) + i] = htonl(f[3])[i]
          /\ Fields(f) \in Seq(Byte) /\ Len(Fields(f)) = Field + Field + Field
      <3>1. ASSUME NEW i \in 1 .. Field
            PROVE  /\ Fields(f)[0 + i] = htonl(f[1])[i]
                   /\ Fields(f)[Field + i] = htonl(f[2])[i]
                   /\ Fields(f)[(Field + Field) + i] = htonl(f[3])[i]
        BY <2>1, <2>2, <2>3, <2>4, <2>5, <2>7 DEF a, b, c
      <3>2. Len(d) + Field = Field + Field + Field
        BY <1>0, <2>2, <2>3
      <3>. QED
        BY <2>1, <2>2, <2>4, <3>1, <3>2
    <2>. QED
      BY <1>0, <1>4, <2>5, <2>6, <2>8
  <1>5. Len(f) = 0 \/ Len(f) = 1 \/ Len(f) = 2 \/ Len(f) = 3
    <2> DEFINE n == Len(f)
    <2>1. n \in Nat /\ n <= 3
      BY <1>0
    <2> HIDE DEF n
    <2>2. n = 0 \/ n = 1 \/ n = 2 \/ n = 3
      BY <2>1
    <2>. QED
      BY <2>2 DEF n
  <1>. QED
    BY <1>1, <1>2, <1>3, <1>4, <1>5

\* No message has more than three integers.
LEMMA FieldCountBound ==
    ASSUME NEW id \in Byte
    PROVE  FieldCount(id) \in 0 .. 3
  BY DEF FieldCount, MsgHave, MsgRequest, MsgCancel, MsgPiece

\* What handle_message() makes of an id, the integers and the data that belong to
\* it is the message.
LEMMA Decoded ==
    ASSUME NEW m, NEW body \in Seq(Byte),
           m \in [id : Byte, fields : Seq(Word), data : Seq(Byte)],
           Len(m.fields) = FieldCount(m.id),
           m.id \in {MsgHave, MsgRequest, MsgCancel} => m.data = <<>>,
           RightValues(m),
           Len(body) = 1 + Len(Fields(m.fields) \o m.data), body[1] = m.id,
           \A i \in 1 .. Len(Fields(m.fields) \o m.data) :
               body[1 + i] = (Fields(m.fields) \o m.data)[i]
    PROVE  Decode(body) = m
  <1> DEFINE f == m.fields
             n == Len(f)
             w == Fields(f)
             d == w \o m.data
  <1>0. /\ m.id \in Byte /\ f \in Seq(Word) /\ m.data \in Seq(Byte) /\ n \in Nat
        /\ Field \in Nat /\ Field > 0 /\ n * Field \in Nat /\ Len(m.data) \in Nat
        /\ m = [id |-> m.id, fields |-> f, data |-> m.data]
    BY SizesAssumption
  <1>1. n = FieldCount(m.id) /\ n <= 3
    <2>1. FieldCount(m.id) \in 0 .. 3
      BY ONLY <1>0, FieldCountBound
    <2>2. n = FieldCount(m.id)
      OBVIOUS
    <2>. QED
      BY ONLY <2>1, <2>2
  <1>2. /\ w \in Seq(Byte) /\ Len(w) = n * Field
        /\ \A k \in 1 .. n :
               /\ (k - 1) * Field \in Nat /\ (k - 1) * Field + Field <= n * Field
               /\ \A i \in 1 .. Field : w[(k - 1) * Field + i] = htonl(f[k])[i]
    BY <1>0, <1>1, FieldsBytes
  <1> HIDE DEF w
  <1>3. /\ d \in Seq(Byte) /\ Len(d) = Len(w) + Len(m.data)
        /\ \A i \in 1 .. Len(w) : d[i] = w[i]
        /\ \A i \in 1 .. Len(m.data) : d[Len(w) + i] = m.data[i]
    <2>1. w \in Seq(Byte) /\ m.data \in Seq(Byte)
      BY <1>0, <1>2
    <2>. QED
      BY <2>1, Joined
  <1>4. /\ Len(body) = 1 + Len(d) /\ body[1] = m.id
        /\ \A i \in 1 .. Len(d) : body[1 + i] = d[i]
    BY DEF w
  <1> HIDE DEF d, n, f
  <1> DEFINE q == n * Field
             x == Len(m.data)
  <1>5. /\ q \in Nat /\ x \in Nat /\ Len(w) = q /\ Len(d) = q + x /\ Len(body) = 1 + (q + x)
    BY <1>0, <1>2, <1>3, <1>4
  <1> HIDE DEF q, x
  <1>6. body # <<>> /\ Head(body) = m.id /\ Len(body) - 1 = q + x
    <2> DEFINE y == Len(body)
    <2>1. y = 1 + (q + x)
      BY <1>5
    <2> HIDE DEF y
    <2>2. y # 0 /\ y - 1 = q + x
      BY <1>5, <2>1
    <2>3. body # <<>>
      BY <2>2 DEF y
    <2>4. Head(body) = body[1]
      BY <2>3
    <2>. QED
      BY <1>4, <2>2, <2>3, <2>4 DEF y
  <1>7. RightLength(m.id, q + x)
    <2>1. m.id \in {MsgHave, MsgRequest, MsgCancel} => x = 0
      BY DEF x
    <2>2. FieldCount(m.id) * Field = q
      BY <1>1 DEF q
    <2>. QED
      BY <1>5, <2>1, <2>2 DEF RightLength
  <1>8. ASSUME NEW k \in 1 .. n PROVE FieldAt(body, 2 + (k - 1) * Field) = f[k]
    <2> DEFINE a == (k - 1) * Field
    <2>1. /\ a \in Nat /\ a + Field <= q
          /\ \A i \in 1 .. Field : w[a + i] = htonl(f[k])[i]
      BY <1>2 DEF q
    <2>2. f[k] \in Word
      BY <1>0 DEF n
    <2> HIDE DEF a
    <2>3. 1 + a \in Nat /\ (1 + a) + Field <= Len(body) /\ (1 + a) + 1 = 2 + a
      BY <1>0, <1>5, <2>1
    <2>4. ASSUME NEW i \in 1 .. Field PROVE body[(1 + a) + i] = htonl(f[k])[i]
      <3>1. a + i \in 1 .. q /\ a + i \in 1 .. (q + x) /\ (1 + a) + i = 1 + (a + i)
        BY <1>0, <1>5, <2>1
      <3>2. body[1 + (a + i)] = d[a + i]
        BY <1>4, <1>5, <3>1
      <3>3. d[a + i] = w[a + i]
        BY <1>3, <1>5, <3>1
      <3>. QED
        BY <2>1, <3>1, <3>2, <3>3
    <2>5. FieldAt(body, (1 + a) + 1) = f[k]
      BY <2>2, <2>3, <2>4, FieldRead
    <2>. QED
      BY <2>3, <2>5 DEF a
  <1>9. [k \in 1 .. n |-> FieldAt(body, 2 + (k - 1) * Field)] = f
    <2>1. f = [k \in 1 .. n |-> f[k]]
      BY <1>0 DEF n
    <2>. QED
      BY <1>8, <2>1
  <1>10. SubSeq(body, 2 + n * Field, Len(body)) = m.data
    <2> DEFINE u == SubSeq(body, (1 + q) + 1, Len(body))
    <2>1. 1 + q \in Nat /\ Len(body) \in Nat /\ 1 + q <= Len(body) /\ Len(body) - (1 + q) = x
          /\ (1 + q) + 1 = 2 + q
      <3> DEFINE y == Len(body)
      <3>1. y = 1 + (q + x)
        BY <1>5
      <3> HIDE DEF y
      <3>2. 1 + q \in Nat /\ y \in Nat /\ 1 + q <= y /\ y - (1 + q) = x /\ (1 + q) + 1 = 2 + q
        BY <1>5, <3>1
      <3>. QED
        BY <3>2 DEF y
    <2>2. u \in Seq(Byte) /\ Len(u) = x /\ \A i \in 1 .. x : u[i] = body[(1 + q) + i]
      BY <2>1, Slice
    <2>3. ASSUME NEW i \in 1 .. x PROVE u[i] = m.data[i]
      <3>1. (1 + q) + i = 1 + (q + i) /\ q + i \in 1 .. (q + x)
        BY <1>5
      <3>2. body[1 + (q + i)] = d[q + i]
        BY <1>4, <1>5, <3>1
      <3>3. d[q + i] = m.data[i]
        BY <1>3, <1>5 DEF x
      <3>. QED
        BY <2>2, <3>1, <3>2, <3>3
    <2> HIDE DEF u
    <2>4. u = m.data
      BY <1>0, <2>2, <2>3, SeqEqual DEF x
    <2>. QED
      BY <2>1, <2>4 DEF u, q
  <1>11. /\ FieldCount(Head(body)) = n /\ RightLength(Head(body), Len(body) - 1)
    BY <1>1, <1>6, <1>7
  <1>12. RightValues([id |-> m.id, fields |-> f, data |-> m.data])
    BY <1>0
  <1>13. Decode(body) = [id |-> m.id, fields |-> f, data |-> m.data]
    BY <1>6, <1>9, <1>10, <1>11, <1>12 DEF Decode
  <1>. QED
    BY <1>0, <1>13

\* The frame of a message: its length in front, what is decoded from the rest is
\* the message, and its id follows the length.
LEMMA Framed ==
    ASSUME NEW m, IsMessage(m)
    PROVE  /\ Encode(m) \in Seq(Byte) /\ Len(Encode(m)) >= Field
           /\ Len(Encode(m)) - Field \in Word /\ Len(Encode(m)) - Field <= MaxMessage
           /\ \A i \in 1 .. Field : Encode(m)[i] = htonl(Len(Encode(m)) - Field)[i]
           /\ Decode(SubSeq(Encode(m), Field + 1, Len(Encode(m)))) = m
           /\ m # Malformed
           /\ Len(Encode(m)) > Field => Encode(m)[Field + 1] = m.id
  <1> DEFINE e == Encode(m)
  <1>0. /\ Field \in Nat /\ Field > 0 /\ MaxMessage \in Nat /\ MaxMessage <= MaxWord
        /\ MaxWord \in Nat /\ Base \in Nat /\ Base > 0
    BY SizesAssumption DEF MsgCancel
  <1>1. CASE m = KeepAlive
    <2>1. e = [i \in 1 .. Field |-> 0] /\ e = htonl(0)
      BY <1>1, WordsAssumption DEF Encode
    <2>2. 0 \in Word /\ 0 \in Byte
      BY <1>0 DEF Word, Byte
    <2>3. e \in Seq(Byte) /\ Len(e) = Field
      BY <2>1, <2>2, WordBytes
    <2> HIDE DEF e
    <2>4. Len(e) - Field = 0 /\ Field < Field + 1
      BY <1>0, <2>3
    <2>5. SubSeq(e, Field + 1, Len(e)) = <<>>
      BY <1>0, <2>3, <2>4, SubSeqEmpty
    <2>6. Decode(<<>>) = m
      BY <1>1 DEF Decode
    <2>7. m # Malformed
      BY <1>1 DEF KeepAlive, Malformed
    <2>8. /\ e \in Seq(Byte) /\ Len(e) >= Field
          /\ Len(e) - Field \in Word /\ Len(e) - Field <= MaxMessage
          /\ \A i \in 1 .. Field : e[i] = htonl(Len(e) - Field)[i]
          /\ Decode(SubSeq(e, Field + 1, Len(e))) = m
          /\ Len(e) > Field => e[Field + 1] = m.id
      <3>1. Len(e) >= Field /\ ~(Len(e) > Field) /\ 0 <= MaxMessage
        BY <1>0, <2>3
      <3>. QED
        BY <2>1, <2>2, <2>3, <2>4, <2>5, <2>6, <3>1
    <2>. QED
      BY <2>7, <2>8 DEF e
  <1>2. CASE m # KeepAlive
    <2> DEFINE w == Fields(m.fields)
               d == w \o m.data
               h == htonl(1 + Len(d))
               g == h \o <<m.id>>
    <2>1. /\ m \in [id : Byte, fields : Seq(Word), data : Seq(Byte)]
          /\ Len(m.fields) = FieldCount(m.id)
          /\ m.id \in {MsgHave, MsgRequest, MsgCancel} => m.data = <<>>
          /\ 1 + Field * Len(m.fields) + Len(m.data) <= MaxMessage
          /\ RightValues(m)
      BY <1>2 DEF IsMessage
    <2>2. m.id \in Byte /\ m.fields \in Seq(Word) /\ m.data \in Seq(Byte)
      BY <2>1
    <2>3. w \in Seq(Byte) /\ Len(w) = Len(m.fields) * Field
      <3>1. FieldCount(m.id) \in 0 .. 3
        BY <2>2, FieldCountBound
      <3>2. Len(m.fields) <= 3
        BY <2>1, <3>1
      <3>. QED
        BY <2>2, <3>2, FieldsBytes
    <2>4. d \in Seq(Byte) /\ Len(d) = Len(w) + Len(m.data)
      BY <2>2, <2>3, Joined
    <2>5. Len(d) \in Nat /\ 1 + Len(d) <= MaxMessage /\ 1 + Len(d) \in Word
      <3>1. Field * Len(m.fields) = Len(m.fields) * Field
        BY <1>0, <2>2
      <3>2. Len(d) \in Nat /\ Len(w) \in Nat /\ Len(m.data) \in Nat
        BY <2>2, <2>3, <2>4
      <3>3. 1 + Len(d) <= MaxMessage
        BY <2>1, <2>3, <2>4, <3>1, <3>2
      <3>. QED
        <4> DEFINE l == Len(d)
        <4>1. l \in Nat /\ 1 + l <= MaxMessage
          BY <3>2, <3>3
        <4> HIDE DEF l
        <4>2. 1 + l \in Word
          BY <1>0, <4>1 DEF Word
        <4>. QED
          BY <4>1, <4>2 DEF l
    <2>6. h \in Seq(Byte) /\ Len(h) = Field
      BY <2>5, WordBytes
    <2>7. e = g \o d
      BY <1>2 DEF Encode
    <2>8. <<m.id>> \in Seq(Byte) /\ Len(<<m.id>>) = 1 /\ <<m.id>>[1] = m.id
      BY <2>2
    <2> HIDE DEF w, d, h, e
    <2>9. /\ g \in Seq(Byte) /\ Len(g) = Field + 1 /\ g[Field + 1] = m.id
          /\ \A i \in 1 .. Field : g[i] = h[i]
      <3> DEFINE one == <<m.id>>
      <3> HIDE DEF one
      <3>1. one \in Seq(Byte) /\ Len(one) = 1 /\ one[1] = m.id
        BY <2>8 DEF one
      <3>2. h \in Seq(Byte) /\ one \in Seq(Byte)
        BY <2>6, <3>1
      <3>3. /\ h \o one \in Seq(Byte) /\ Len(h \o one) = Len(h) + Len(one)
            /\ \A i \in 1 .. Len(h) : (h \o one)[i] = h[i]
            /\ \A i \in 1 .. Len(one) : (h \o one)[Len(h) + i] = one[i]
        BY <3>2, Joined
      <3>4. /\ h \o one \in Seq(Byte) /\ Len(h \o one) = Field + 1
            /\ (h \o one)[Field + 1] = m.id
            /\ \A i \in 1 .. Field : (h \o one)[i] = h[i]
        BY <2>6, <3>1, <3>3
      <3>. QED
        BY <3>4 DEF one
    <2> HIDE DEF g
    <2>10. /\ e \in Seq(Byte) /\ Len(e) = (Field + 1) + Len(d)
           /\ \A i \in 1 .. (Field + 1) : e[i] = g[i]
           /\ \A i \in 1 .. Len(d) : e[(Field + 1) + i] = d[i]
      <3>1. g \in Seq(Byte) /\ d \in Seq(Byte)
        BY <2>4, <2>9
      <3>2. /\ g \o d \in Seq(Byte) /\ Len(g \o d) = Len(g) + Len(d)
            /\ \A i \in 1 .. Len(g) : (g \o d)[i] = g[i]
            /\ \A i \in 1 .. Len(d) : (g \o d)[Len(g) + i] = d[i]
        BY <3>1, Joined
      <3>. QED
        BY <2>7, <2>9, <3>2
    <2> DEFINE l == Len(d)
               z == Len(e)
    <2>11. l \in Nat /\ z = (Field + 1) + l /\ 1 + l <= MaxMessage /\ 1 + l \in Word
      BY <2>5, <2>10
    <2> HIDE DEF l, z
    <2>12. /\ z - Field = 1 + l /\ z \in Nat /\ z >= Field /\ z > Field /\ Field <= z
           /\ Field + 1 \in 1 .. (Field + 1)
      BY <1>0, <2>11
    <2>13. \A i \in 1 .. Field : e[i] = htonl(z - Field)[i]
      <3>1. \A i \in 1 .. Field : i \in 1 .. (Field + 1)
        BY <1>0
      <3>. QED
        BY <2>9, <2>10, <2>12, <3>1 DEF h, l
    <2>14. e[Field + 1] = m.id
      BY <2>9, <2>10, <2>12
    <2> DEFINE body == SubSeq(e, Field + 1, z)
    <2>15. /\ body \in Seq(Byte) /\ Len(body) = z - Field
           /\ \A i \in 1 .. (z - Field) : body[i] = e[Field + i]
      <3>1. z <= Len(e)
        BY <2>12 DEF z
      <3>. QED
        BY <1>0, <2>10, <2>12, <3>1, Slice
    <2> HIDE DEF body
    <2>16. body[1] = m.id
      <3>1. 1 \in 1 .. (z - Field)
        BY <2>11, <2>12
      <3>. QED
        BY <2>14, <2>15, <3>1
    <2>17. ASSUME NEW i \in 1 .. l PROVE body[1 + i] = d[i]
      <3>1. 1 + i \in 1 .. (z - Field) /\ Field + (1 + i) = (Field + 1) + i
        BY <1>0, <2>11, <2>12
      <3>. QED
        BY <2>10, <2>15, <3>1 DEF l
    <2>18. Decode(body) = m
      <3>1. Len(body) = 1 + l
        BY <2>12, <2>15
      <3>2. /\ Len(body) = 1 + Len(Fields(m.fields) \o m.data)
            /\ \A i \in 1 .. Len(Fields(m.fields) \o m.data) :
                   body[1 + i] = (Fields(m.fields) \o m.data)[i]
        BY <2>17, <3>1 DEF l, d, w
      <3>. QED
        BY <2>1, <2>15, <2>16, <3>2, Decoded
    <2>19. m # Malformed
      <3>1. Base \notin Byte
        BY <1>0 DEF Byte
      <3>2. Malformed.id = Base
        BY DEF Malformed, NoId
      <3>. QED
        BY <2>2, <3>1, <3>2
    <2>20. /\ e \in Seq(Byte) /\ z >= Field
           /\ z - Field \in Word /\ z - Field <= MaxMessage
           /\ \A i \in 1 .. Field : e[i] = htonl(z - Field)[i]
           /\ Decode(body) = m
           /\ z > Field => e[Field + 1] = m.id
      BY <2>10, <2>11, <2>12, <2>13, <2>14, <2>18
    <2>. QED
      BY <2>19, <2>20 DEF body, z, e
  <1>. QED
    BY <1>1, <1>2

----------------------------------------------------------------------------
(* The frames on the line *)

\* The handshake, until the receiver has read it, and then the messages in flight.
LeadOf(st) == IF st = "handshake" THEN 1 ELSE 0

FramesOf(st, q) ==
    [i \in 1 .. (LeadOf(st) + Len(q)) |->
         IF i <= LeadOf(st) THEN Handshake ELSE Encode(q[i - LeadOf(st)])]

\* How many of them write_buffer no longer holds.
GoneOf(st, wb, q) == (LeadOf(st) + Len(q)) - Len(wb)

\* write_buffer holds the last frames; the stream carries the others, and cur bytes
\* of the first in write_buffer.
Line(st, wb, cur, pipe, q) ==
    /\ Len(wb) <= LeadOf(st) + Len(q)
    /\ \A i \in 1 .. Len(wb) : wb[i] = FramesOf(st, q)[GoneOf(st, wb, q) + i]
    /\ Carries(pipe, FramesOf(st, q), GoneOf(st, wb, q), cur)

\* The frames are sequences of bytes, none of them empty.
LEMMA FramesFacts ==
    ASSUME NEW st, NEW q \in Seq(Outgoing)
    PROVE  /\ LeadOf(st) \in 0 .. 1 /\ Len(q) \in Nat
           /\ FramesOf(st, q) \in Seq(Seq(Byte))
           /\ Len(FramesOf(st, q)) = LeadOf(st) + Len(q)
           /\ \A i \in 1 .. (LeadOf(st) + Len(q)) :
                  /\ Len(FramesOf(st, q)[i]) > 0
                  /\ FramesOf(st, q)[i] =
                         IF i <= LeadOf(st) THEN Handshake ELSE Encode(q[i - LeadOf(st)])
  <1> DEFINE l == LeadOf(st)
             n == Len(q)
             f == FramesOf(st, q)
  <1>1. l \in 0 .. 1 /\ n \in Nat
    BY DEF LeadOf
  <1> HIDE DEF l, n
  <1>2. f = [i \in 1 .. (l + n) |-> IF i <= l THEN Handshake ELSE Encode(q[i - l])]
    BY DEF FramesOf, l, n
  <1> HIDE DEF f
  <1>3. ASSUME NEW i \in 1 .. (l + n)
        PROVE  /\ f[i] \in Seq(Byte) /\ Len(f[i]) > 0
               /\ f[i] = IF i <= l THEN Handshake ELSE Encode(q[i - l])
    <2>1. f[i] = IF i <= l THEN Handshake ELSE Encode(q[i - l])
      BY <1>2
    <2>2. CASE i <= l
      BY <2>1, <2>2, HandshakeAssumption
    <2>3. CASE ~(i <= l)
      <3>1. i - l \in 1 .. n
        BY <1>1, <2>3
      <3>2. q[i - l] \in Outgoing
        BY <3>1 DEF n
      <3>3. IsMessage(q[i - l])
        BY <3>2, OutgoingAssumption
      <3>4. Encode(q[i - l]) \in Seq(Byte) /\ Len(Encode(q[i - l])) >= Field
        BY <3>3, Framed
      <3>5. Field \in Nat /\ Field > 0 /\ Len(Encode(q[i - l])) \in Nat
        BY <3>4, SizesAssumption
      <3>6. Len(Encode(q[i - l])) > 0
        BY <3>4, <3>5
      <3>. QED
        BY <2>1, <2>3, <3>4, <3>6
    <2>. QED
      BY <2>1, <2>2, <2>3
  <1>4. l + n \in Nat
    BY <1>1
  <1>5. f \in [1 .. (l + n) -> Seq(Byte)]
    BY <1>2, <1>3
  <1>6. f \in Seq(Seq(Byte)) /\ Len(f) = l + n
    BY <1>4, <1>5
  <1>. QED
    BY <1>1, <1>3, <1>6 DEF l, n, f

\* A message is queued.
LEMMA LineEnqueue ==
    ASSUME NEW st, NEW wb \in Seq(Seq(Byte)), NEW cur, NEW pipe \in Seq(Byte),
           NEW q \in Seq(Outgoing), NEW m \in Outgoing, Line(st, wb, cur, pipe, q)
    PROVE  Line(st, Append(wb, Encode(m)), cur, pipe, Append(q, m))
  <1> DEFINE l == LeadOf(st)
             n == Len(q)
             w == Len(wb)
             k == GoneOf(st, wb, q)
             f == FramesOf(st, q)
             r == Append(q, m)
             v == Append(wb, Encode(m))
             g == FramesOf(st, r)
  <1>1. /\ l \in 0 .. 1 /\ n \in Nat /\ f \in Seq(Seq(Byte)) /\ Len(f) = l + n
        /\ \A i \in 1 .. (l + n) : f[i] = IF i <= l THEN Handshake ELSE Encode(q[i - l])
    BY FramesFacts
  <1>2. r \in Seq(Outgoing) /\ Len(r) = n + 1 /\ r[n + 1] = m /\ \A i \in 1 .. n : r[i] = q[i]
    OBVIOUS
  <1>3. /\ g \in Seq(Seq(Byte)) /\ Len(g) = l + (n + 1)
        /\ \A i \in 1 .. (l + (n + 1)) : g[i] = IF i <= l THEN Handshake ELSE Encode(r[i - l])
    BY <1>2, FramesFacts
  <1>4. /\ w \in Nat /\ v \in Seq(Seq(Byte)) /\ Len(v) = w + 1 /\ v[w + 1] = Encode(m)
        /\ \A i \in 1 .. w : v[i] = wb[i]
    <2>1. Encode(m) \in Seq(Byte)
      BY OutgoingAssumption, Framed
    <2>. QED
      BY <2>1
  <1>5. /\ w <= l + n /\ k = (l + n) - w /\ GoneOf(st, v, r) = (l + (n + 1)) - (w + 1)
        /\ \A i \in 1 .. w : wb[i] = f[k + i]
        /\ Carries(pipe, f, k, cur)
    BY <1>2, <1>4 DEF Line, GoneOf
  <1> HIDE DEF l, n, w, k, f, r, v, g
  <1>6. /\ (l + (n + 1)) - (w + 1) = k /\ k \in Nat /\ k <= l + n /\ w + 1 <= l + (n + 1)
        /\ k + w = l + n
    BY <1>1, <1>4, <1>5
  <1>7. ASSUME NEW i \in 1 .. (l + n) PROVE g[i] = f[i]
    <2>1. i \in 1 .. (l + (n + 1))
      BY <1>1
    <2>2. CASE i <= l
      BY <1>1, <1>3, <2>1, <2>2
    <2>3. CASE ~(i <= l)
      <3>1. i - l \in 1 .. n
        BY <1>1, <2>3
      <3>. QED
        BY <1>1, <1>2, <1>3, <2>1, <2>3, <3>1
    <2>. QED
      BY <2>2, <2>3
  <1>8. g[(l + n) + 1] = Encode(m)
    <2>1. (l + n) + 1 \in 1 .. (l + (n + 1)) /\ ~((l + n) + 1 <= l) /\ ((l + n) + 1) - l = n + 1
      BY <1>1
    <2>. QED
      BY <1>2, <1>3, <2>1
  <1>9. ASSUME NEW i \in 1 .. (w + 1) PROVE v[i] = g[k + i]
    <2>1. CASE i \in 1 .. w
      <3>1. k + i \in 1 .. (l + n)
        BY <1>6, <2>1, <1>4
      <3>. QED
        BY <1>4, <1>5, <1>7, <2>1, <3>1
    <2>2. CASE i = w + 1
      <3>1. k + i = (l + n) + 1
        BY <1>1, <1>4, <1>6, <2>2
      <3>. QED
        BY <1>4, <1>8, <2>2, <3>1
    <2>. QED
      BY <1>4, <2>1, <2>2
  <1>10. Carries(pipe, g, k, cur)
    <2>1. k <= Len(g) /\ \A i \in 1 .. k : i \in 1 .. (l + n)
      BY <1>1, <1>3, <1>6
    <2>2. cur > 0 => k < Len(f)
      BY <1>5 DEF Carries
    <2>3. cur > 0 => k < Len(g) /\ k + 1 \in 1 .. (l + n)
      BY <1>1, <1>3, <1>6, <2>2
    <2>. QED
      BY <1>1, <1>3, <1>5, <1>7, <2>1, <2>3, CarriesSame
  <1>11. /\ Len(v) <= l + Len(r)
         /\ \A i \in 1 .. Len(v) : v[i] = g[GoneOf(st, v, r) + i]
         /\ Carries(pipe, g, GoneOf(st, v, r), cur)
    BY <1>2, <1>4, <1>5, <1>6, <1>9, <1>10
  <1>. QED
    BY <1>11 DEF Line, l, g, v, r

\* send() takes n bytes of the front message.
LEMMA LineSend ==
    ASSUME NEW st, NEW wb \in Seq(Seq(Byte)), NEW cur, NEW pipe \in Seq(Byte),
           NEW q \in Seq(Outgoing), Line(st, wb, cur, pipe, q),
           wb # <<>>, NEW n \in Nat \ {0}, cur + n <= Len(Head(wb))
    PROVE  LET more == pipe \o SubSeq(Head(wb), cur + 1, cur + n)
           IN  IF cur + n = Len(Head(wb)) THEN Line(st, Tail(wb), 0, more, q)
               ELSE Line(st, wb, cur + n, more, q)
  <1> DEFINE more == pipe \o SubSeq(Head(wb), cur + 1, cur + n)
             f == FramesOf(st, q)
             k == GoneOf(st, wb, q)
             z == LeadOf(st) + Len(q)
             w == Len(wb)
             t == Tail(wb)
  <1>1. f \in Seq(Seq(Byte)) /\ Len(f) = z /\ z \in Nat
    BY FramesFacts
  <1>2. w \in Nat \ {0} /\ Head(wb) = wb[1] /\ Len(t) = w - 1 /\ \A i \in 1 .. (w - 1) : t[i] = wb[i + 1]
    BY HeadFirst
  <1>3. /\ w <= z /\ k = z - w /\ GoneOf(st, t, q) = z - (w - 1)
        /\ \A i \in 1 .. w : wb[i] = f[k + i]
        /\ Carries(pipe, f, k, cur)
    BY <1>2 DEF Line, GoneOf
  <1> HIDE DEF f, k, z, w, t
  <1>4. k < Len(f) /\ k + 1 \in Nat /\ z - (w - 1) = k + 1 /\ k \in Nat /\ w - 1 <= z /\ 1 \in 1 .. w
    BY <1>1, <1>2, <1>3
  <1>5. Head(wb) = f[k + 1]
    BY <1>2, <1>3, <1>4
  <1>6. IF cur + n = Len(Head(wb)) THEN Carries(more, f, k + 1, 0) ELSE Carries(more, f, k, cur + n)
    <2>1. cur + n <= Len(f[k + 1])
      BY <1>5
    <2>2. LET more2 == pipe \o SubSeq(f[k + 1], cur + 1, cur + n)
          IN  IF cur + n = Len(f[k + 1]) THEN Carries(more2, f, k + 1, 0)
              ELSE Carries(more2, f, k, cur + n)
      <3>1. f \in Seq(Seq(Byte)) /\ Carries(pipe, f, k, cur) /\ k < Len(f)
        BY <1>1, <1>3, <1>4
      <3>. QED
        BY ONLY pipe \in Seq(Byte), n \in Nat \ {0}, <3>1, <2>1, CarriesMore
    <2>. QED
      BY <1>5, <2>2
  <1> HIDE DEF more
  <1>7. CASE cur + n = Len(Head(wb))
    <2>1. ASSUME NEW i \in 1 .. (w - 1) PROVE t[i] = f[(k + 1) + i]
      <3>1. i + 1 \in 1 .. w /\ k + (i + 1) = (k + 1) + i
        BY <1>2, <1>4
      <3>. QED
        BY <1>2, <1>3, <3>1
    <2>2. /\ Len(t) <= z
          /\ \A i \in 1 .. Len(t) : t[i] = f[GoneOf(st, t, q) + i]
          /\ Carries(more, f, GoneOf(st, t, q), 0)
      BY <1>2, <1>3, <1>4, <1>6, <1>7, <2>1
    <2>3. Line(st, Tail(wb), 0, more, q)
      BY <2>2 DEF Line, t, f, z
    <2>. QED
      BY <1>7, <2>3 DEF more
  <1>8. CASE cur + n # Len(Head(wb))
    <2>1. Line(st, wb, cur + n, more, q)
      BY <1>3, <1>6, <1>8 DEF Line, f, z, k, w
    <2>. QED
      BY <1>8, <2>1 DEF more
  <1>. QED
    BY <1>7, <1>8

\* The frames g are the frames f without the first.
Follows(f, g) ==
    f # <<>> /\ Len(g) = Len(f) - 1 /\ \A i \in 1 .. Len(g) : g[i] = f[i + 1]

\* The first frame has been read to its end: it is at the front of the stream, and
\* the stream without it carries the others.
LEMMA LineShift ==
    ASSUME NEW st, NEW wb \in Seq(Seq(Byte)), NEW cur, NEW pipe \in Seq(Byte),
           NEW q \in Seq(Outgoing), Line(st, wb, cur, pipe, q),
           NEW su, NEW r \in Seq(Outgoing),
           Follows(FramesOf(st, q), FramesOf(su, r)),
           Len(FramesOf(st, q)[1]) <= Len(pipe)
    PROVE  LET x == FramesOf(st, q)[1]
           IN  /\ \A b \in 1 .. Len(x) : pipe[b] = x[b]
               /\ Line(su, wb, cur, SubSeq(pipe, Len(x) + 1, Len(pipe)), r)
  <1> DEFINE x == FramesOf(st, q)[1]
             f == FramesOf(st, q)
             g == FramesOf(su, r)
             k == GoneOf(st, wb, q)
             rest == SubSeq(pipe, Len(x) + 1, Len(pipe))
             z == LeadOf(st) + Len(q)
             y == LeadOf(su) + Len(r)
             w == Len(wb)
  <1>1. f \in Seq(Seq(Byte)) /\ Len(f) = z /\ z \in Nat /\ \A i \in 1 .. Len(f) : Len(f[i]) > 0
    <2>1. f \in Seq(Seq(Byte)) /\ Len(f) = z /\ \A i \in 1 .. z : Len(f[i]) > 0
      BY FramesFacts
    <2>2. LeadOf(st) \in 0 .. 1 /\ Len(q) \in Nat
      BY FramesFacts
    <2>. QED
      BY <2>1, <2>2
  <1>2. g \in Seq(Seq(Byte)) /\ Len(g) = y /\ y \in Nat
    <2>1. g \in Seq(Seq(Byte)) /\ Len(g) = y
      BY FramesFacts
    <2>2. LeadOf(su) \in 0 .. 1 /\ Len(r) \in Nat
      BY FramesFacts
    <2>. QED
      BY <2>1, <2>2
  <1>3. y = z - 1 /\ \A i \in 1 .. y : g[i] = f[i + 1]
    BY <1>1, <1>2 DEF Follows
  <1>4. /\ w <= z /\ k = z - w /\ GoneOf(su, wb, r) = y - w /\ w \in Nat
        /\ \A i \in 1 .. w : wb[i] = f[k + i]
        /\ Carries(pipe, f, k, cur)
    BY DEF Line, GoneOf
  <1>5. f # <<>> /\ x = f[1] /\ Len(x) \in Nat /\ Len(x) <= Len(pipe) /\ Len(pipe) \in Nat /\ z >= 1
    <2>1. f # <<>> /\ x = f[1]
      BY DEF Follows
    <2>2. Len(f) >= 1 /\ f[1] \in Seq(Byte)
      BY <1>1, <2>1
    <2>. QED
      BY <1>1, <2>1, <2>2
  <1> HIDE DEF f, g, k, z, y, w
  <1>6. /\ \A b \in 1 .. Len(f[1]) : b <= Len(pipe) => pipe[b] = f[1][b]
        /\ Len(pipe) >= Len(f[1]) <=> k >= 1
    <2>1. f # <<>> =>
              /\ \A b \in 1 .. Len(f[1]) : b <= Len(pipe) => pipe[b] = f[1][b]
              /\ Len(pipe) >= Len(f[1]) <=> k >= 1
      <3>1. f \in Seq(Seq(Byte)) /\ \A i \in 1 .. Len(f) : Len(f[i]) > 0
        BY <1>1
      <3>2. Carries(pipe, f, k, cur)
        BY <1>4
      <3>. QED
        BY <3>1, <3>2, CarriesFirst
    <2>. QED
      BY <1>5, <2>1
  <1>7. k >= 1 /\ \A b \in 1 .. Len(x) : pipe[b] = x[b]
    <2>1. \A b \in 1 .. Len(x) : b <= Len(pipe)
      BY <1>5
    <2>2. Len(pipe) >= Len(x)
      BY <1>5
    <2>. QED
      BY <1>5, <1>6, <2>1, <2>2
  <1>8. Carries(rest, Tail(f), k - 1, cur)
    BY <1>1, <1>4, <1>5, <1>7, CarriesRest
  <1>9. Tail(f) = g
    <2>1. Tail(f) \in Seq(Seq(Byte)) /\ Len(Tail(f)) = Len(f) - 1
          /\ \A i \in 1 .. (Len(f) - 1) : Tail(f)[i] = f[i + 1]
      BY <1>1, <1>5, HeadFirst
    <2>2. Len(f) - 1 = y
      BY <1>1, <1>3
    <2>. QED
      BY <1>2, <1>3, <2>1, <2>2, SeqEqual
  <1>10. y - w = k - 1 /\ w <= y /\ k \in Nat /\ k >= 1 /\ w \in Nat /\ y \in Nat
    BY <1>1, <1>2, <1>3, <1>4, <1>7
  <1>11. ASSUME NEW i \in 1 .. w PROVE wb[i] = g[(k - 1) + i]
    <2>1. (k - 1) + i \in 1 .. y /\ ((k - 1) + i) + 1 = k + i
      BY <1>10
    <2>. QED
      BY <1>3, <1>4, <2>1
  <1>12. /\ w <= y
         /\ \A i \in 1 .. w : wb[i] = g[GoneOf(su, wb, r) + i]
         /\ Carries(rest, g, GoneOf(su, wb, r), cur)
    BY <1>4, <1>8, <1>9, <1>10, <1>11
  <1>13. Line(su, wb, cur, rest, r)
    BY <1>12 DEF Line, w, y, g
  <1>. QED
    BY <1>7, <1>13

\* A whole frame follows only once the stream is long enough, and as far as the
\* stream goes it agrees with the first frame.
LEMMA LineFront ==
    ASSUME NEW st, NEW wb \in Seq(Seq(Byte)), NEW cur, NEW pipe \in Seq(Byte),
           NEW q \in Seq(Outgoing), Line(st, wb, cur, pipe, q)
    PROVE  /\ FramesOf(st, q) = <<>> => Len(pipe) = 0
           /\ FramesOf(st, q) # <<>> =>
                  \A b \in 1 .. Len(FramesOf(st, q)[1]) :
                      b <= Len(pipe) => pipe[b] = FramesOf(st, q)[1][b]
  <1> DEFINE f == FramesOf(st, q)
  <1>1. f \in Seq(Seq(Byte)) /\ \A i \in 1 .. Len(f) : Len(f[i]) > 0
    BY FramesFacts
  <1>2. Carries(pipe, f, GoneOf(st, wb, q), cur)
    BY DEF Line
  <1> HIDE DEF f
  <1>3. /\ f = <<>> => Len(pipe) = 0
        /\ f # <<>> => \A b \in 1 .. Len(f[1]) : b <= Len(pipe) => pipe[b] = f[1][b]
    BY <1>1, <1>2, CarriesFirst
  <1>. QED
    BY <1>3 DEF f

\* A message that waits, and of which nothing has been sent, is taken back.
LEMMA LineRemove ==
    ASSUME NEW st, NEW wb \in Seq(Seq(Byte)), NEW cur, NEW pipe \in Seq(Byte),
           NEW q \in Seq(Outgoing), Line(st, wb, cur, pipe, q),
           NEW at \in 1 .. Len(wb), cur > 0 => at > 1, wb[at] # Handshake
    PROVE  LET e == (at + Len(q)) - Len(wb)
           IN  /\ e \in 1 .. Len(q) /\ wb[at] = Encode(q[e])
               /\ Line(st, RemoveAt(wb, at), cur, pipe, RemoveAt(q, e))
  <1> DEFINE l == LeadOf(st)
             n == Len(q)
             w == Len(wb)
             e == (at + n) - w
             k == GoneOf(st, wb, q)
             f == FramesOf(st, q)
             r == RemoveAt(q, e)
             v == RemoveAt(wb, at)
             g == FramesOf(st, r)
  <1>1. /\ l \in 0 .. 1 /\ n \in Nat /\ f \in Seq(Seq(Byte)) /\ Len(f) = l + n
        /\ \A i \in 1 .. (l + n) : f[i] = IF i <= l THEN Handshake ELSE Encode(q[i - l])
    BY FramesFacts
  <1>2. /\ w <= l + n /\ k = (l + n) - w /\ w \in Nat /\ at \in 1 .. w
        /\ \A i \in 1 .. w : wb[i] = f[k + i]
        /\ Carries(pipe, f, k, cur)
    BY DEF Line, GoneOf
  <1>3. /\ v \in Seq(Seq(Byte)) /\ Len(v) = w - 1
        /\ \A j \in 1 .. (w - 1) : v[j] = IF j < at THEN wb[j] ELSE wb[j + 1]
    BY Removed
  <1> HIDE DEF l, n, w, k, f, v
  <1>4. k \in Nat /\ k + at \in 1 .. (l + n) /\ k + at = l + e /\ e \in Int /\ k + w = l + n
    BY <1>1, <1>2
  <1>5. wb[at] = f[k + at]
    BY <1>2
  <1>6. ~(k + at <= l)
    BY <1>1, <1>4, <1>5
  <1>7. e \in 1 .. n /\ (k + at) - l = e
    <2>1. l \in Nat /\ n \in Nat /\ k + at \in Int /\ e \in Int /\ k + at = l + e /\ k + at <= l + n
      BY <1>1, <1>4
    <2> HIDE DEF e
    <2> DEFINE y == k + at
    <2>2. y \in Int /\ y = l + e /\ y <= l + n /\ ~(y <= l)
      BY <1>6, <2>1
    <2> HIDE DEF y
    <2>3. e \in 1 .. n /\ y - l = e
      BY <2>1, <2>2
    <2>. QED
      BY <2>3 DEF y
  <1>8. wb[at] = Encode(q[e])
    BY <1>1, <1>4, <1>5, <1>6, <1>7
  <1> HIDE DEF e
  <1>0. /\ l \in Nat /\ n \in Nat /\ w \in Nat /\ k \in Nat /\ at \in Nat /\ e \in Nat
        /\ at >= 1 /\ at <= w /\ k + w = l + n /\ k + at = l + e /\ e >= 1 /\ e <= n
    BY <1>1, <1>2, <1>4, <1>7
  <1>9. /\ r \in Seq(Outgoing) /\ Len(r) = n - 1
        /\ \A j \in 1 .. (n - 1) : r[j] = IF j < e THEN q[j] ELSE q[j + 1]
    BY <1>7, Removed DEF n
  <1> HIDE DEF r
  <1>10. /\ g \in Seq(Seq(Byte)) /\ Len(g) = l + (n - 1)
         /\ \A i \in 1 .. (l + (n - 1)) : g[i] = IF i <= l THEN Handshake ELSE Encode(r[i - l])
    BY <1>9, FramesFacts DEF l
  <1> HIDE DEF g
  <1>11. GoneOf(st, v, r) = (l + (n - 1)) - (w - 1)
    BY <1>3, <1>9 DEF GoneOf, l
  <1>12. (l + (n - 1)) - (w - 1) = k /\ w - 1 <= l + (n - 1) /\ k <= l + (n - 1)
    BY <1>1, <1>2, <1>4
  <1>13. ASSUME NEW i \in 1 .. (l + (n - 1))
         PROVE  g[i] = IF i < l + e THEN f[i] ELSE f[i + 1]
    <2>1. i \in 1 .. (l + n) /\ i + 1 \in 1 .. (l + n)
      BY <1>1
    <2>2. CASE i <= l
      <3>1. i < l + e
        BY <1>1, <1>7, <2>2
      <3>. QED
        BY <1>1, <1>10, <2>1, <2>2, <3>1
    <2>3. CASE ~(i <= l)
      <3>1. /\ i - l \in 1 .. (n - 1) /\ ~(i + 1 <= l) /\ (i + 1) - l = (i - l) + 1
            /\ i - l < e <=> i < l + e
        BY <1>1, <1>7, <2>3
      <3>2. g[i] = Encode(r[i - l])
        BY <1>10, <2>3
      <3>3. r[i - l] = IF i - l < e THEN q[i - l] ELSE q[(i - l) + 1]
        BY <1>9, <3>1
      <3>4. f[i] = Encode(q[i - l]) /\ f[i + 1] = Encode(q[(i - l) + 1])
        BY <1>1, <2>1, <2>3, <3>1
      <3>. QED
        BY <3>1, <3>2, <3>3, <3>4
    <2>. QED
      BY <2>2, <2>3
  <1>14. ASSUME NEW j \in 1 .. (w - 1) PROVE v[j] = g[k + j]
    <2>1. /\ k + j \in 1 .. (l + (n - 1)) /\ (k + j < l + e <=> j < at)
          /\ j \in 1 .. w /\ j + 1 \in 1 .. w /\ k + (j + 1) = (k + j) + 1
      BY <1>0
    <2>2. v[j] = IF j < at THEN wb[j] ELSE wb[j + 1]
      BY <1>3
    <2>3. wb[j] = f[k + j] /\ wb[j + 1] = f[(k + j) + 1]
      BY <1>2, <2>1
    <2>4. g[k + j] = IF k + j < l + e THEN f[k + j] ELSE f[(k + j) + 1]
      <3> DEFINE i == k + j
      <3>1. i \in 1 .. (l + (n - 1))
        BY <2>1
      <3> HIDE DEF i
      <3>2. g[i] = IF i < l + e THEN f[i] ELSE f[i + 1]
        BY <1>13, <3>1
      <3>. QED
        BY <3>2 DEF i
    <2>5. CASE j < at
      BY <2>1, <2>2, <2>3, <2>4, <2>5
    <2>6. CASE ~(j < at)
      BY <2>1, <2>2, <2>3, <2>4, <2>6
    <2>. QED
      BY <2>5, <2>6
  <1>15. Carries(pipe, g, k, cur)
    <2>1. ASSUME NEW i \in 1 .. k PROVE g[i] = f[i]
      <3>1. i \in 1 .. (l + (n - 1)) /\ i < l + e
        BY <1>1, <1>2, <1>4, <1>12
      <3>. QED
        BY <1>13, <3>1
    <2>2. ASSUME cur > 0 PROVE k < l + (n - 1) /\ g[k + 1] = f[k + 1]
      <3>1. at > 1
        BY <2>2
      <3>2. k < l + (n - 1) /\ k + 1 \in 1 .. (l + (n - 1)) /\ k + 1 < l + e
        BY <1>0, <3>1
      <3>. QED
        BY <1>13, <3>2
    <2>3. /\ f \in Seq(Seq(Byte)) /\ g \in Seq(Seq(Byte)) /\ Carries(pipe, f, k, cur)
          /\ k <= Len(g) /\ \A i \in 1 .. k : g[i] = f[i]
          /\ cur > 0 => k < Len(g) /\ g[k + 1] = f[k + 1]
      BY <1>1, <1>2, <1>10, <1>12, <2>1, <2>2
    <2>. QED
      BY ONLY pipe \in Seq(Byte), <2>3, CarriesSame
  <1>16. /\ Len(v) <= l + Len(r)
         /\ \A j \in 1 .. Len(v) : v[j] = g[GoneOf(st, v, r) + j]
         /\ Carries(pipe, g, GoneOf(st, v, r), cur)
    BY <1>3, <1>9, <1>11, <1>12, <1>14, <1>15
  <1>17. Line(st, v, cur, pipe, r)
    BY <1>16 DEF Line, l, g
  <1>. QED
    BY <1>7, <1>8, <1>17 DEF e, n, w, v, r

\* The handshake has been read to its end: it is what was read, and what follows it
\* are the messages.
LEMMA LineOpen ==
    ASSUME NEW wb \in Seq(Seq(Byte)), NEW cur, NEW s \in Seq(Byte), NEW t \in Seq(Byte),
           NEW q \in Seq(Outgoing), Line("handshake", wb, cur, s \o t, q),
           Len(s) = Len(Handshake)
    PROVE  s = Handshake /\ Line("open", wb, cur, t, q)
  <1> DEFINE pipe == s \o t
             x == Handshake
             f == FramesOf("handshake", q)
             g == FramesOf("open", q)
             n == Len(q)
  <1>1. /\ pipe \in Seq(Byte) /\ Len(pipe) = Len(s) + Len(t)
        /\ \A i \in 1 .. Len(s) : pipe[i] = s[i]
    BY Joined
  <1>2. x \in Seq(Byte) /\ Len(x) \in Nat /\ Len(s) = Len(x) /\ Len(t) \in Nat
    BY HandshakeAssumption
  <1>3. n \in Nat /\ LeadOf("handshake") = 1 /\ LeadOf("open") = 0
    BY DEF LeadOf
  <1>4. /\ f \in Seq(Seq(Byte)) /\ Len(f) = 1 + n
        /\ \A i \in 1 .. (1 + n) : f[i] = IF i <= 1 THEN Handshake ELSE Encode(q[i - 1])
    BY <1>3, FramesFacts
  <1>5. /\ g \in Seq(Seq(Byte)) /\ Len(g) = 0 + n
        /\ \A i \in 1 .. (0 + n) : g[i] = IF i <= 0 THEN Handshake ELSE Encode(q[i - 0])
    BY <1>3, FramesFacts
  <1> HIDE DEF pipe, f, g, n, x
  <1>6. f # <<>> /\ x = f[1] /\ Len(x) <= Len(pipe)
    <2>1. 1 \in 1 .. (1 + n) /\ Len(f) # 0
      BY <1>3, <1>4
    <2>2. f # <<>>
      BY <2>1
    <2>3. Len(x) <= Len(pipe)
      BY <1>1, <1>2
    <2>. QED
      BY <1>4, <2>1, <2>2, <2>3 DEF x
  <1>7. Len(g) = Len(f) - 1 /\ \A i \in 1 .. Len(g) : g[i] = f[i + 1]
    <2>1. Len(g) = Len(f) - 1
      BY <1>3, <1>4, <1>5
    <2>2. ASSUME NEW i \in 1 .. Len(g) PROVE g[i] = f[i + 1]
      <3>1. i \in 1 .. (0 + n) /\ ~(i <= 0) /\ i - 0 = i /\ i + 1 \in 1 .. (1 + n)
            /\ ~(i + 1 <= 1) /\ (i + 1) - 1 = i
        BY <1>3, <1>5
      <3>. QED
        BY <1>4, <1>5, <3>1
    <2>. QED
      BY <2>1, <2>2
  <1>8. /\ \A b \in 1 .. Len(x) : pipe[b] = x[b]
        /\ Line("open", wb, cur, SubSeq(pipe, Len(x) + 1, Len(pipe)), q)
    <2>1. Line("handshake", wb, cur, pipe, q)
      BY DEF pipe
    <2>. QED
      <3>1. Follows(f, g)
        BY <1>6, <1>7 DEF Follows
      <3>2. /\ Follows(FramesOf("handshake", q), FramesOf("open", q))
            /\ Len(FramesOf("handshake", q)[1]) <= Len(pipe) /\ pipe \in Seq(Byte)
        BY <1>1, <1>6, <3>1 DEF f, g
      <3>3. LET x1 == FramesOf("handshake", q)[1]
            IN  /\ \A b \in 1 .. Len(x1) : pipe[b] = x1[b]
                /\ Line("open", wb, cur, SubSeq(pipe, Len(x1) + 1, Len(pipe)), q)
        BY ONLY wb \in Seq(Seq(Byte)), q \in Seq(Outgoing), <2>1, <3>2, LineShift
      <3>. QED
        BY <1>6, <3>3 DEF f
  <1>9. s = x
    BY <1>1, <1>2, <1>8, SeqEqual
  <1>10. SubSeq(pipe, Len(x) + 1, Len(pipe)) = t
    <2>1. SubSeq(s, Len(s) + 1, Len(s)) \o t = SubSeq(s \o t, Len(s) + 1, Len(s \o t))
      <3>1. Len(s) \in 0 .. Len(s)
        BY <1>2
      <3>. QED
        BY <3>1, FrontTaken
    <2>2. SubSeq(s, Len(s) + 1, Len(s)) = <<>>
      <3>1. Len(s) \in Int /\ Len(s) + 1 \in Int /\ Len(s) < Len(s) + 1
        BY <1>2
      <3>. QED
        BY <3>1, SubSeqEmpty
    <2>3. <<>> \o t = t
      BY ConcatEmptySeq
    <2>. QED
      BY <1>2, <2>1, <2>2, <2>3 DEF pipe
  <1>. QED
    BY <1>8, <1>9, <1>10 DEF x

\* A length prefix at the front of read_buffer is that of the oldest message in
\* flight, and once the message is all there it is what handle_message() gets.
LEMMA LineMessage ==
    ASSUME NEW wb \in Seq(Seq(Byte)), NEW cur, NEW s \in Seq(Byte), NEW t \in Seq(Byte),
           NEW q \in Seq(Outgoing), Line("open", wb, cur, s \o t, q), Len(s) >= Field
    PROVE  /\ ~Absurd(s)
           /\ WholeMessage(s) =>
                  /\ q # <<>> /\ q[1] # Malformed
                  /\ Decode(SubSeq(s, Field + 1, Field + FieldAt(s, 1))) = q[1]
                  /\ SubSeq(s, (Field + FieldAt(s, 1)) + 1, Len(s)) \in Seq(Byte)
                  /\ Line("open", wb, cur,
                          SubSeq(s, (Field + FieldAt(s, 1)) + 1, Len(s)) \o t,
                          SubSeq(q, 2, Len(q)))
  <1> DEFINE pipe == s \o t
             f == FramesOf("open", q)
             n == Len(q)
             m == q[1]
             e == Encode(m)
             z == Len(e)
  <1>0. Field \in Nat /\ Field > 0 /\ MaxMessage \in Nat /\ Len(s) \in Nat /\ Len(t) \in Nat
    BY SizesAssumption
  <1>1. /\ pipe \in Seq(Byte) /\ Len(pipe) = Len(s) + Len(t)
        /\ \A i \in 1 .. Len(s) : pipe[i] = s[i]
    BY Joined
  <1>2. n \in Nat /\ LeadOf("open") = 0
    BY DEF LeadOf
  <1>3. /\ f \in Seq(Seq(Byte)) /\ Len(f) = 0 + n
        /\ \A i \in 1 .. (0 + n) : f[i] = IF i <= 0 THEN Handshake ELSE Encode(q[i - 0])
    BY <1>2, FramesFacts
  <1>4. /\ f = <<>> => Len(pipe) = 0
        /\ f # <<>> => \A b \in 1 .. Len(f[1]) : b <= Len(pipe) => pipe[b] = f[1][b]
    <2>1. Line("open", wb, cur, pipe, q)
      BY DEF pipe
    <2>. QED
      <3>1. pipe \in Seq(Byte)
        BY <1>1
      <3> HIDE DEF pipe
      <3>2. /\ FramesOf("open", q) = <<>> => Len(pipe) = 0
            /\ FramesOf("open", q) # <<>> =>
                   \A b \in 1 .. Len(FramesOf("open", q)[1]) :
                       b <= Len(pipe) => pipe[b] = FramesOf("open", q)[1][b]
        BY ONLY wb \in Seq(Seq(Byte)), q \in Seq(Outgoing), <2>1, <3>1, LineFront
      <3>. QED
        BY <3>2
  <1> HIDE DEF pipe, f, n
  <1>5. f # <<>> /\ n >= 1 /\ q # <<>> /\ f[1] = e /\ m \in Outgoing
    <2>1. Len(pipe) # 0
      BY <1>0, <1>1
    <2>2. f # <<>>
      BY <1>4, <2>1
    <2>3. Len(f) # 0
      BY <1>3, <2>2
    <2>4. n >= 1
      BY <1>2, <1>3, <2>3
    <2>5. 1 \in 1 .. (0 + n) /\ ~(1 <= 0) /\ 1 - 0 = 1
      BY <1>2, <2>4
    <2>6. f[1] = Encode(q[1])
      BY <1>3, <2>5
    <2>7. q # <<>> /\ q[1] \in Outgoing
      BY <2>4 DEF n
    <2>. QED
      BY <2>2, <2>4, <2>6, <2>7
  <1>6. IsMessage(m)
    BY <1>5, OutgoingAssumption
  <1>7. /\ e \in Seq(Byte) /\ z >= Field /\ z - Field \in Word /\ z - Field <= MaxMessage
        /\ \A i \in 1 .. Field : e[i] = htonl(z - Field)[i]
        /\ Decode(SubSeq(e, Field + 1, z)) = m
        /\ m # Malformed
    BY <1>6, Framed
  <1> HIDE DEF m, e
  <1>8. z \in Nat
    BY <1>7
  <1> HIDE DEF z
  <1>9. FieldAt(s, 1) = z - Field
    <2>1. ASSUME NEW i \in 1 .. Field PROVE s[0 + i] = htonl(z - Field)[i]
      <3>1. i \in 1 .. z /\ i \in 1 .. Len(s) /\ i <= Len(pipe) /\ 0 + i = i
        BY <1>0, <1>1, <1>7, <1>8
      <3>2. pipe[i] = e[i]
        BY <1>4, <1>5, <3>1 DEF z
      <3>. QED
        BY <1>1, <1>7, <3>1, <3>2
    <2>2. 0 \in Nat /\ 0 + Field <= Len(s) /\ 0 + 1 = 1
      BY <1>0
    <2>3. FieldAt(s, 0 + 1) = z - Field
      BY <1>7, <2>1, <2>2, FieldRead
    <2>. QED
      BY <2>2, <2>3
  <1>10. ~Absurd(s)
    <2>1. ~(z - Field > MaxMessage)
      BY <1>0, <1>7, <1>8
    <2>. QED
      BY <1>9, <2>1 DEF Absurd
  <1>11. ASSUME WholeMessage(s)
         PROVE  /\ Decode(SubSeq(s, Field + 1, Field + FieldAt(s, 1))) = m
                /\ SubSeq(s, (Field + FieldAt(s, 1)) + 1, Len(s)) \in Seq(Byte)
                /\ Line("open", wb, cur,
                        SubSeq(s, (Field + FieldAt(s, 1)) + 1, Len(s)) \o t,
                        SubSeq(q, 2, Len(q)))
    <2> DEFINE r == SubSeq(q, 2, Len(q))
               g == FramesOf("open", r)
    <2>1. Field + FieldAt(s, 1) = z /\ z <= Len(s) /\ z \in 0 .. Len(s)
      <3>1. Field + (z - Field) = z
        BY <1>0, <1>8
      <3>2. z <= Len(s)
        BY <1>9, <1>11, <3>1 DEF WholeMessage
      <3>. QED
        BY <1>0, <1>8, <1>9, <3>1, <3>2
    <2>2. r \in Seq(Outgoing) /\ Len(r) = n - 1 /\ \A i \in 1 .. (n - 1) : r[i] = q[i + 1]
      <3>1. SubSeq(q, 1 + 1, n) \in Seq(Outgoing) /\ Len(SubSeq(q, 1 + 1, n)) = n - 1
            /\ \A i \in 1 .. (n - 1) : SubSeq(q, 1 + 1, n)[i] = q[1 + i]
        <4>1. 1 \in Nat /\ n \in Nat /\ 1 <= n /\ n <= Len(q)
          BY <1>2, <1>5 DEF n
        <4>. QED
          BY <4>1, Slice
      <3>2. 1 + 1 = 2 /\ \A i \in 1 .. (n - 1) : 1 + i = i + 1
        OBVIOUS
      <3>. QED
        BY <3>1, <3>2 DEF n
    <2> HIDE DEF r
    <2>3. /\ g \in Seq(Seq(Byte)) /\ Len(g) = 0 + (n - 1)
          /\ \A i \in 1 .. (0 + (n - 1)) : g[i] = IF i <= 0 THEN Handshake ELSE Encode(r[i - 0])
      BY <1>2, <2>2, FramesFacts
    <2> HIDE DEF g
    <2>4. Len(g) = Len(f) - 1 /\ \A i \in 1 .. Len(g) : g[i] = f[i + 1]
      <3>1. Len(g) = Len(f) - 1
        BY <1>2, <1>3, <2>3
      <3>2. ASSUME NEW i \in 1 .. Len(g) PROVE g[i] = f[i + 1]
        <4>1. /\ i \in 1 .. (0 + (n - 1)) /\ i \in 1 .. (n - 1) /\ ~(i <= 0) /\ i - 0 = i
              /\ i + 1 \in 1 .. (0 + n) /\ ~(i + 1 <= 0) /\ (i + 1) - 0 = i + 1
          BY <1>2, <2>3
        <4>. QED
          BY <1>3, <2>2, <2>3, <4>1
      <3>. QED
        BY <3>1, <3>2
    <2>5. Len(e) <= Len(pipe)
      BY <1>0, <1>1, <1>8, <2>1 DEF z
    <2>6. /\ \A b \in 1 .. Len(e) : pipe[b] = e[b]
          /\ Line("open", wb, cur, SubSeq(pipe, Len(e) + 1, Len(pipe)), r)
      <3>1. Line("open", wb, cur, pipe, q)
        BY DEF pipe
      <3>. QED
        <4>1. Follows(f, g)
          BY <1>5, <2>4 DEF Follows
        <4>2. /\ Follows(FramesOf("open", q), FramesOf("open", r))
              /\ Len(FramesOf("open", q)[1]) <= Len(pipe)
              /\ pipe \in Seq(Byte) /\ r \in Seq(Outgoing)
          BY <1>1, <1>5, <2>2, <2>5, <4>1 DEF f, g
        <4>3. LET x1 == FramesOf("open", q)[1]
              IN  /\ \A b \in 1 .. Len(x1) : pipe[b] = x1[b]
                  /\ Line("open", wb, cur, SubSeq(pipe, Len(x1) + 1, Len(pipe)), r)
          BY ONLY wb \in Seq(Seq(Byte)), q \in Seq(Outgoing), <3>1, <4>2, LineShift
        <4>. QED
          BY <1>5, <4>3 DEF f
    <2>7. SubSeq(pipe, Len(e) + 1, Len(pipe)) = SubSeq(s, z + 1, Len(s)) \o t
      BY <2>1, FrontTaken DEF pipe, z
    <2>8. SubSeq(s, z + 1, Len(s)) \in Seq(Byte)
      BY <1>0, <1>8, <2>1, Slice
    <2>9. SubSeq(s, Field + 1, z) = SubSeq(e, Field + 1, z)
      <3> DEFINE a == SubSeq(s, Field + 1, z)
                 b == SubSeq(e, Field + 1, z)
      <3>1. a \in Seq(Byte) /\ Len(a) = z - Field /\ \A i \in 1 .. (z - Field) : a[i] = s[Field + i]
        BY <1>0, <1>7, <1>8, <2>1, Slice
      <3>2. b \in Seq(Byte) /\ Len(b) = z - Field /\ \A i \in 1 .. (z - Field) : b[i] = e[Field + i]
        <4>1. z <= Len(e)
          BY <1>8 DEF z
        <4>. QED
          BY <1>0, <1>7, <1>8, <4>1, Slice
      <3>3. ASSUME NEW i \in 1 .. (z - Field) PROVE a[i] = b[i]
        <4>1. Field + i \in 1 .. z /\ Field + i \in 1 .. Len(s)
          BY <1>0, <1>7, <1>8, <2>1
        <4>2. s[Field + i] = e[Field + i]
          BY <1>1, <2>6, <4>1 DEF z
        <4>. QED
          BY <3>1, <3>2, <4>2
      <3> HIDE DEF a, b
      <3>4. a = b
        BY <3>1, <3>2, <3>3, SeqEqual
      <3>. QED
        BY <3>4 DEF a, b
    <2>. QED
      BY <1>7, <2>1, <2>6, <2>7, <2>8, <2>9 DEF r
  <1>. QED
    BY <1>5, <1>7, <1>10, <1>11 DEF m

----------------------------------------------------------------------------
(* The invariant *)

TypeOK ==
    /\ writeBuffer \in Seq(Seq(Byte)) /\ cursor \in Nat /\ queued \in Nat
    /\ kernel \in Seq(Byte)
    /\ stage \in {"handshake", "open"}
    /\ buffer \in Seq(Byte) /\ readBuffer \in Seq(Byte)
    /\ delivered \in Seq(Outgoing) /\ inFlight \in Seq(Outgoing)

\* What has been sent and not been taken in, after what the receiver holds of it.
Pipe == (IF stage = "handshake" THEN buffer ELSE readBuffer) \o kernel

LinkInv ==
    /\ TypeOK
    /\ stage = "handshake" => readBuffer = <<>> /\ Len(buffer) < Len(Handshake)
    /\ Line(stage, writeBuffer, cursor, Pipe, inFlight)

\* A connection begins with the handshake queued.
LEMMA LinkInit == Init => LinkInv
  <1> SUFFICES ASSUME Init PROVE LinkInv
    OBVIOUS
  <1> DEFINE f == FramesOf("handshake", <<>>)
             at == [i \in 0 .. 0 |-> 0]
             pipe == <<>> \o <<>>
  <1>1. /\ Handshake \in Seq(Byte) /\ Len(Handshake) \in Nat /\ Len(Handshake) > 0
    BY HandshakeAssumption
  <1>2. TypeOK
    BY <1>1 DEF Init, TypeOK
  <1>3. Len(<<Handshake>>) = 1 /\ LeadOf("handshake") = 1 /\ GoneOf("handshake", <<Handshake>>, <<>>) = 0
    BY DEF LeadOf, GoneOf
  <1>4. /\ f \in Seq(Seq(Byte)) /\ Len(f) = 1 /\ f[1] = Handshake
    <2>1. <<>> \in Seq(Outgoing) /\ Len(<<>>) = 0
      OBVIOUS
    <2>2. /\ f \in Seq(Seq(Byte)) /\ Len(f) = 1 + 0
          /\ \A i \in 1 .. (1 + 0) : f[i] = IF i <= 1 THEN Handshake ELSE Encode(<<>>[i - 1])
      BY <1>3, <2>1, FramesFacts
    <2>. QED
      BY <2>2
  <1>5. pipe \in Seq(Byte) /\ Len(pipe) = 0
    <2>1. <<>> \in Seq(Byte) /\ Len(<<>>) = 0
      OBVIOUS
    <2>2. pipe \in Seq(Byte) /\ Len(pipe) = Len(<<>>) + Len(<<>>)
      BY <2>1, Joined
    <2>. QED
      BY <2>1, <2>2
  <1> HIDE DEF f, pipe
  <1>6. Cuts(pipe, f, 0, 0, at)
    BY <1>5 DEF Cuts
  <1>7. Carries(pipe, f, 0, 0)
    <2>1. at \in [0 .. 0 -> 0 .. Len(pipe)]
      BY <1>5
    <2>2. 0 \in 0 .. Len(f) /\ 0 \in Nat /\ ~(0 > 0)
      BY <1>4
    <2> HIDE DEF at
    <2>. QED
      BY <1>6, <2>1, <2>2 DEF Carries
  <1>8. Line("handshake", <<Handshake>>, 0, pipe, <<>>)
    <2>1. Len(<<Handshake>>) <= LeadOf("handshake") + Len(<<>>)
      BY <1>3
    <2>2. \A i \in 1 .. Len(<<Handshake>>) : <<Handshake>>[i] = f[0 + i]
      BY <1>3, <1>4
    <2>. QED
      BY <1>3, <1>7, <2>1, <2>2 DEF Line, f
  <1>9. Pipe = pipe
    BY DEF Init, Pipe, pipe
  <1>. QED
    BY <1>1, <1>2, <1>8, <1>9 DEF Init, LinkInv

\* A queued message joins the end of the line.
LEMMA EnqueueKeeps ==
    ASSUME LinkInv, NEW m \in Outgoing, Enqueue(m)
    PROVE  LinkInv' /\ Channel!Send(m)
  <1>1. /\ writeBuffer \in Seq(Seq(Byte)) /\ inFlight \in Seq(Outgoing)
        /\ buffer \in Seq(Byte) /\ readBuffer \in Seq(Byte) /\ kernel \in Seq(Byte)
    BY DEF LinkInv, TypeOK
  <1>2. /\ writeBuffer' = Append(writeBuffer, Encode(m)) /\ inFlight' = Append(inFlight, m)
        /\ queued' = queued + 1
        /\ UNCHANGED <<cursor, kernel, stage, buffer, readBuffer, delivered>>
    BY DEF Enqueue, receiverVars
  <1>3. Encode(m) \in Seq(Byte)
    BY OutgoingAssumption, Framed
  <1>4. TypeOK'
    BY <1>1, <1>2, <1>3 DEF LinkInv, TypeOK
  <1>5. Pipe' = Pipe /\ Pipe \in Seq(Byte)
    BY <1>1, <1>2 DEF Pipe
  <1>6. Line(stage, writeBuffer, cursor, Pipe, inFlight)
    BY DEF LinkInv
  <1>7. Line(stage, Append(writeBuffer, Encode(m)), cursor, Pipe, Append(inFlight, m))
    BY <1>1, <1>5, <1>6, LineEnqueue
  <1>8. Line(stage, writeBuffer, cursor, Pipe, inFlight)'
    BY <1>2, <1>5, <1>7
  <1>. QED
    BY <1>2, <1>4, <1>8 DEF LinkInv, Channel!Send

\* What is sent of the front message moves from write_buffer to the stream.
LEMMA SendBytesKeeps ==
    ASSUME LinkInv, NEW n \in 1 .. KernelSize, SendBytes(n)
    PROVE  LinkInv' /\ UNCHANGED <<inFlight, delivered>>
  <1> DEFINE front == Head(writeBuffer)
             piece == SubSeq(front, cursor + 1, cursor + n)
             s == IF stage = "handshake" THEN buffer ELSE readBuffer
  <1>1. /\ writeBuffer \in Seq(Seq(Byte)) /\ inFlight \in Seq(Outgoing) /\ cursor \in Nat
        /\ buffer \in Seq(Byte) /\ readBuffer \in Seq(Byte) /\ kernel \in Seq(Byte)
        /\ s \in Seq(Byte)
    BY DEF LinkInv, TypeOK
  <1>2. /\ writeBuffer # <<>> /\ cursor + n <= Len(front) /\ kernel' = kernel \o piece
        /\ IF cursor + n = Len(front) THEN writeBuffer' = Tail(writeBuffer) /\ cursor' = 0
           ELSE cursor' = cursor + n /\ UNCHANGED writeBuffer
        /\ UNCHANGED <<queued, stage, buffer, readBuffer, delivered, inFlight>>
    BY DEF SendBytes, receiverVars
  <1>3. n \in Nat \ {0}
    BY SizesAssumption
  <1>4. front \in Seq(Byte) /\ Tail(writeBuffer) \in Seq(Seq(Byte))
    BY <1>1, <1>2, HeadFirst
  <1>5. piece \in Seq(Byte)
    <2>1. cursor + n \in Nat /\ cursor <= cursor + n
      BY <1>1, <1>3
    <2>. QED
      BY <1>1, <1>2, <1>4, <2>1, Slice
  <1> HIDE DEF piece, front
  <1>6. TypeOK'
    <2>1. kernel \o piece \in Seq(Byte)
      BY <1>1, <1>5, Joined
    <2>2. cursor + n \in Nat
      BY <1>1, <1>3
    <2>3. writeBuffer' \in Seq(Seq(Byte)) /\ cursor' \in Nat
      <3>1. CASE cursor + n = Len(front)
        <4>1. writeBuffer' = Tail(writeBuffer) /\ cursor' = 0
          BY <1>2, <3>1
        <4>. QED
          BY <1>4, <4>1
      <3>2. CASE cursor + n # Len(front)
        <4>1. writeBuffer' = writeBuffer /\ cursor' = cursor + n
          BY <1>2, <3>2
        <4>. QED
          BY <1>1, <2>2, <4>1
      <3>. QED
        BY <3>1, <3>2
    <2>4. kernel' \in Seq(Byte)
      BY <1>2, <2>1
    <2>5. TypeOK /\ UNCHANGED <<queued, stage, buffer, readBuffer, delivered, inFlight>>
      BY <1>2 DEF LinkInv
    <2>. QED
      BY <2>3, <2>4, <2>5 DEF TypeOK
  <1>7. Pipe' = Pipe \o piece /\ Pipe \in Seq(Byte)
    <2>1. Pipe = s \o kernel /\ Pipe' = s \o (kernel \o piece)
      BY <1>2 DEF Pipe
    <2> HIDE DEF s
    <2>2. (s \o kernel) \o piece = s \o (kernel \o piece)
      <3>1. s \in Seq(Byte) /\ kernel \in Seq(Byte) /\ piece \in Seq(Byte)
        BY <1>1, <1>5
      <3>. QED
        BY <3>1, ConcatAssociative
    <2>3. s \o kernel \in Seq(Byte)
      BY <1>1, Joined
    <2>. QED
      BY <2>1, <2>2, <2>3
  <1>8. Line(stage, writeBuffer, cursor, Pipe, inFlight)
    BY DEF LinkInv
  <1>9. IF cursor + n = Len(front) THEN Line(stage, Tail(writeBuffer), 0, Pipe \o piece, inFlight)
        ELSE Line(stage, writeBuffer, cursor + n, Pipe \o piece, inFlight)
    <2>1. cursor + n <= Len(Head(writeBuffer))
      BY <1>2 DEF front
    <2>2. LET more == Pipe \o SubSeq(Head(writeBuffer), cursor + 1, cursor + n)
          IN  IF cursor + n = Len(Head(writeBuffer))
              THEN Line(stage, Tail(writeBuffer), 0, more, inFlight)
              ELSE Line(stage, writeBuffer, cursor + n, more, inFlight)
      <3>1. Pipe \in Seq(Byte) /\ writeBuffer # <<>> /\ inFlight \in Seq(Outgoing)
            /\ writeBuffer \in Seq(Seq(Byte))
        BY <1>1, <1>2, <1>7
      <3>. QED
        BY ONLY <3>1, <1>3, <1>8, <2>1, LineSend
    <2>. QED
      BY <2>2 DEF piece, front
  <1>10. Line(stage, writeBuffer, cursor, Pipe, inFlight)'
    BY <1>2, <1>7, <1>9
  <1>. QED
    BY <1>2, <1>6, <1>10 DEF LinkInv

\* Only a piece message is taken back, and nothing of it has been sent.
LEMMA RemoveKeeps ==
    ASSUME LinkInv, NEW m \in Outgoing,
           RemoveQueuedPiece(m.fields[1], m.fields[2], Len(m.data))
    PROVE  LinkInv' /\ \E i \in 1 .. Len(inFlight) : Channel!Withdraw(i)
  <1> DEFINE length == Len(m.data)
             first == IF cursor > 0 THEN 2 ELSE 1
  <1>1. /\ writeBuffer \in Seq(Seq(Byte)) /\ inFlight \in Seq(Outgoing) /\ cursor \in Nat
        /\ buffer \in Seq(Byte) /\ readBuffer \in Seq(Byte) /\ kernel \in Seq(Byte)
    BY DEF LinkInv, TypeOK
  <1>2. PICK at \in first .. Len(writeBuffer) :
            /\ IsPieceFor(writeBuffer[at], m.fields[1], m.fields[2], length)
            /\ writeBuffer' = RemoveAt(writeBuffer, at)
            /\ inFlight' = RemoveAt(inFlight, (at + Len(inFlight)) - Len(writeBuffer))
            /\ UNCHANGED <<cursor, queued, kernel, receiverVars>>
    BY DEF RemoveQueuedPiece
  <1> DEFINE e == (at + Len(inFlight)) - Len(writeBuffer)
             b == writeBuffer[at]
  <1>3. at \in 1 .. Len(writeBuffer) /\ (cursor > 0 => at > 1)
    BY <1>1
  <1>4. length \in Nat
    <2>1. IsMessage(m)
      BY OutgoingAssumption
    <2>2. m.data \in Seq(Byte)
      <3>1. CASE m = KeepAlive
        BY <3>1 DEF KeepAlive
      <3>2. CASE m \in [id : Byte, fields : Seq(Word), data : Seq(Byte)]
        BY <3>2
      <3>. QED
        BY <2>1, <3>1, <3>2 DEF IsMessage
    <2>. QED
      BY <2>2
  <1>5. b \in Seq(Byte) /\ Len(b) > Field /\ b[Field + 1] = MsgPiece
    <2>1. b \in Seq(Byte)
      BY <1>1, <1>3
    <2>2. Len(b) = 3 * Field + 1 + length /\ b[Field + 1] = MsgPiece
      BY <1>2 DEF IsPieceFor
    <2>3. 3 * Field + 1 + length > Field
      <3> HIDE DEF length
      <3>1. Field \in Nat /\ length \in Nat
        BY <1>4, SizesAssumption
      <3>. QED
        BY ONLY <3>1
    <2>. QED
      BY <2>1, <2>2, <2>3
  <1>6. b # Handshake
    BY <1>5, HandshakeAssumption
  <1>7. Line(stage, writeBuffer, cursor, Pipe, inFlight) /\ Pipe \in Seq(Byte)
    BY <1>1 DEF LinkInv, Pipe
  <1>8. /\ e \in 1 .. Len(inFlight) /\ b = Encode(inFlight[e])
        /\ Line(stage, RemoveAt(writeBuffer, at), cursor, Pipe, RemoveAt(inFlight, e))
    <2>1. /\ writeBuffer \in Seq(Seq(Byte)) /\ inFlight \in Seq(Outgoing)
          /\ at \in 1 .. Len(writeBuffer) /\ (cursor > 0 => at > 1)
          /\ writeBuffer[at] # Handshake
      BY <1>1, <1>3, <1>6
    <2>. QED
      BY ONLY <1>7, <2>1, LineRemove
  <1>9. Pipe' = Pipe
    BY <1>2 DEF Pipe, receiverVars
  <1>10. Line(stage, writeBuffer, cursor, Pipe, inFlight)'
    BY <1>2, <1>8, <1>9 DEF receiverVars
  <1>11. TypeOK'
    <2>1. RemoveAt(writeBuffer, at) \in Seq(Seq(Byte))
      BY <1>1, <1>3, Removed
    <2>2. RemoveAt(inFlight, e) \in Seq(Outgoing)
      BY <1>1, <1>8, Removed
    <2>. QED
      BY <1>2, <2>1, <2>2 DEF LinkInv, TypeOK, receiverVars
  <1>12. Channel!Withdraw(e)
    <2>1. inFlight[e] \in Outgoing
      BY <1>1, <1>8
    <2>2. IsMessage(inFlight[e])
      BY <2>1, OutgoingAssumption
    <2>3. inFlight[e].id = MsgPiece
      BY <1>5, <1>8, <2>2, Framed
    <2>4. delivered' = delivered /\ inFlight' = RemoveAt(inFlight, e)
      BY <1>2 DEF receiverVars
    <2>5. inFlight[e] \in {x \in Outgoing : x.id = MsgPiece}
      BY <2>1, <2>3
    <2>. QED
      BY <2>4, <2>5 DEF Channel!Withdraw, Channel!RemoveAt, RemoveAt
  <1>. QED
    BY <1>2, <1>8, <1>10, <1>11, <1>12 DEF LinkInv, receiverVars

\* What the receiver reads of the handshake is the handshake, and it stops there.
LEMMA RecvHandshakeKeeps ==
    ASSUME LinkInv, NEW n \in 1 .. KernelSize, RecvHandshake(n)
    PROVE  LinkInv' /\ UNCHANGED <<inFlight, delivered>>
  <1> DEFINE s == buffer \o SubSeq(kernel, 1, n)
             t == SubSeq(kernel, n + 1, Len(kernel))
             x == Len(Handshake)
  <1>1. /\ writeBuffer \in Seq(Seq(Byte)) /\ inFlight \in Seq(Outgoing) /\ cursor \in Nat
        /\ buffer \in Seq(Byte) /\ readBuffer \in Seq(Byte) /\ kernel \in Seq(Byte)
        /\ Line(stage, writeBuffer, cursor, Pipe, inFlight)
    BY DEF LinkInv, TypeOK
  <1>2. /\ stage = "handshake" /\ n <= Len(kernel) /\ n <= x - Len(buffer)
        /\ kernel' = t /\ buffer' = s
        /\ stage' = IF Len(s) < x THEN "handshake"
                    ELSE IF SubSeq(s, 1, x) = Handshake THEN "open" ELSE "dropped"
        /\ UNCHANGED <<writeBuffer, cursor, queued, readBuffer, delivered, inFlight>>
    BY DEF RecvHandshake, HandshakeRoom, StillShort, senderVars
  <1>3. readBuffer = <<>> /\ Len(buffer) < x /\ x \in Nat /\ Handshake \in Seq(Byte)
    BY <1>2, HandshakeAssumption DEF LinkInv
  <1>4. n \in 0 .. Len(kernel) /\ n \in Nat /\ Len(buffer) \in Nat
    BY <1>1, <1>2
  <1>5. s \in Seq(Byte) /\ t \in Seq(Byte) /\ Len(s) = Len(buffer) + n /\ s \o t = buffer \o kernel
    <2>1. buffer \in Seq(Byte) /\ kernel \in Seq(Byte) /\ n \in 0 .. Len(kernel)
      BY <1>1, <1>4
    <2>2. SubSeq(kernel, n + 1, Len(kernel)) \in Seq(Byte)
      BY <2>1, Moved
    <2>3. buffer \o SubSeq(kernel, 1, n) \in Seq(Byte)
      BY <2>1, Moved
    <2>4. Len(buffer \o SubSeq(kernel, 1, n)) = Len(buffer) + n
      BY <2>1, Moved
    <2>5. SameWhenMoved(buffer, kernel, n)
      BY <2>1, Moved
    <2>. QED
      BY <2>2, <2>3, <2>4, <2>5 DEF SameWhenMoved
  <1> HIDE DEF s, t, x
  <1>6. Pipe = s \o t
    BY <1>2, <1>5 DEF Pipe
  <1>7. CASE Len(s) < x
    <2>1. stage' = "handshake"
      BY <1>2, <1>7
    <2>2. Pipe' = s \o t
      BY <1>2, <2>1 DEF Pipe
    <2>3. Line(stage, writeBuffer, cursor, Pipe, inFlight)'
      BY <1>1, <1>2, <1>6, <2>1, <2>2
    <2>4. TypeOK'
      BY <1>2, <1>5, <2>1 DEF LinkInv, TypeOK
    <2>. QED
      BY <1>2, <1>3, <1>7, <2>1, <2>3, <2>4 DEF LinkInv, x
  <1>8. CASE ~(Len(s) < x)
    <2>1. Len(s) = x
      <3> DEFINE l == Len(s)
                 y == Len(buffer)
      <3>1. l = y + n /\ n <= x - y /\ ~(l < x) /\ n \in Nat /\ y \in Nat /\ x \in Nat
        BY <1>2, <1>3, <1>4, <1>5, <1>8
      <3> HIDE DEF l, y
      <3>2. l = x
        BY ONLY <3>1
      <3>. QED
        BY <3>2 DEF l
    <2>2. s = Handshake /\ Line("open", writeBuffer, cursor, t, inFlight)
      <3>1. Line("handshake", writeBuffer, cursor, s \o t, inFlight)
        BY <1>1, <1>2, <1>6
      <3>2. Len(s) = Len(Handshake)
        BY <2>1 DEF x
      <3>. QED
        BY <1>1, <1>5, <3>1, <3>2, LineOpen
    <2>3. SubSeq(s, 1, x) = Handshake
      BY <1>3, <2>2, SubSeqFull DEF x
    <2>4. stage' = "open"
      BY <1>2, <1>8, <2>3
    <2>5. Pipe' = t
      <3>1. <<>> \o t = t
        BY <1>5, ConcatEmptySeq
      <3>. QED
        BY <1>2, <1>3, <2>4, <3>1 DEF Pipe
    <2>6. Line(stage, writeBuffer, cursor, Pipe, inFlight)'
      BY <1>2, <2>2, <2>4, <2>5
    <2>7. TypeOK'
      BY <1>2, <1>5, <2>4 DEF LinkInv, TypeOK
    <2>. QED
      BY <1>2, <2>4, <2>6, <2>7 DEF LinkInv
  <1>. QED
    BY <1>7, <1>8

\* What is read after it moves along the stream.
LEMMA RecvChunkKeeps ==
    ASSUME LinkInv, NEW n \in 1 .. KernelSize, RecvChunk(n)
    PROVE  LinkInv' /\ UNCHANGED <<inFlight, delivered>>
  <1> DEFINE s == readBuffer \o SubSeq(kernel, 1, n)
             t == SubSeq(kernel, n + 1, Len(kernel))
  <1>1. /\ readBuffer \in Seq(Byte) /\ kernel \in Seq(Byte)
        /\ Line(stage, writeBuffer, cursor, Pipe, inFlight)
    BY DEF LinkInv, TypeOK
  <1>2. /\ stage = "open" /\ n <= Len(kernel) /\ kernel' = t /\ readBuffer' = s
        /\ UNCHANGED <<writeBuffer, cursor, queued, stage, buffer, delivered, inFlight>>
    BY DEF RecvChunk, senderVars
  <1>3. n \in 0 .. Len(kernel)
    BY <1>1, <1>2
  <1>4. s \in Seq(Byte) /\ t \in Seq(Byte) /\ s \o t = readBuffer \o kernel
    <2>1. readBuffer \in Seq(Byte) /\ kernel \in Seq(Byte) /\ n \in 0 .. Len(kernel)
      BY <1>1, <1>3
    <2>2. SubSeq(kernel, n + 1, Len(kernel)) \in Seq(Byte)
      BY <2>1, Moved
    <2>3. readBuffer \o SubSeq(kernel, 1, n) \in Seq(Byte)
      BY <2>1, Moved
    <2>4. Len(readBuffer \o SubSeq(kernel, 1, n)) = Len(readBuffer) + n
      BY <2>1, Moved
    <2>5. SameWhenMoved(readBuffer, kernel, n)
      BY <2>1, Moved
    <2>. QED
      BY <2>2, <2>3, <2>4, <2>5 DEF SameWhenMoved
  <1> HIDE DEF s, t
  <1>5. Pipe' = Pipe
    BY <1>2, <1>4 DEF Pipe
  <1>6. Line(stage, writeBuffer, cursor, Pipe, inFlight)'
    BY <1>1, <1>2, <1>5
  <1>7. TypeOK'
    BY <1>2, <1>4 DEF LinkInv, TypeOK
  <1>. QED
    BY <1>2, <1>6, <1>7 DEF LinkInv

\* The message handled is the oldest in flight, and neither extract_message() nor
\* handle_message() throws.
LEMMA HandleMessageKeeps ==
    ASSUME LinkInv, HandleMessage
    PROVE  LinkInv' /\ Channel!Deliver
  <1> DEFINE end == Field + FieldAt(readBuffer, 1)
             msg == Decode(SubSeq(readBuffer, Field + 1, end))
             rest == SubSeq(readBuffer, end + 1, Len(readBuffer))
             q == SubSeq(inFlight, 2, Len(inFlight))
  <1>1. /\ writeBuffer \in Seq(Seq(Byte)) /\ inFlight \in Seq(Outgoing)
        /\ readBuffer \in Seq(Byte) /\ kernel \in Seq(Byte) /\ delivered \in Seq(Outgoing)
    BY DEF LinkInv, TypeOK
  <1>2. stage = "open" /\ (Absurd(readBuffer) \/ WholeMessage(readBuffer))
    BY DEF HandleMessage, MoreToHandle
  <1>3. Len(readBuffer) >= Field
    BY <1>2 DEF Absurd, WholeMessage
  <1>4. Line("open", writeBuffer, cursor, readBuffer \o kernel, inFlight)
    BY <1>2 DEF LinkInv, Pipe
  <1>5. /\ ~Absurd(readBuffer)
        /\ WholeMessage(readBuffer) =>
               /\ inFlight # <<>> /\ inFlight[1] # Malformed /\ msg = inFlight[1]
               /\ rest \in Seq(Byte)
               /\ Line("open", writeBuffer, cursor, rest \o kernel, q)
    BY ONLY <1>1, <1>3, <1>4, LineMessage
  <1>6. /\ inFlight # <<>> /\ msg # Malformed /\ msg = inFlight[1] /\ rest \in Seq(Byte)
        /\ Line("open", writeBuffer, cursor, rest \o kernel, q)
    BY <1>2, <1>5
  <1>7. /\ stage' = "open" /\ readBuffer' = rest
        /\ delivered' = Append(delivered, inFlight[1]) /\ inFlight' = q
        /\ UNCHANGED <<writeBuffer, cursor, queued, kernel, buffer>>
    BY <1>5, <1>6 DEF HandleMessage, senderVars
  <1> HIDE DEF msg, rest, q
  <1>8. q = Tail(inFlight) /\ Head(inFlight) = inFlight[1] /\ q \in Seq(Outgoing)
        /\ inFlight[1] \in Outgoing
    <2>1. q = Tail(inFlight)
      BY <1>1, <1>6, TailIsSubSeq DEF q
    <2>. QED
      BY <1>1, <1>6, <2>1, HeadFirst
  <1>9. Channel!Deliver
    BY <1>6, <1>7, <1>8 DEF Channel!Deliver
  <1>10. TypeOK'
    BY <1>1, <1>6, <1>7, <1>8 DEF LinkInv, TypeOK
  <1>11. Line(stage, writeBuffer, cursor, Pipe, inFlight)'
    BY <1>6, <1>7 DEF Pipe
  <1>. QED
    BY <1>7, <1>9, <1>10, <1>11 DEF LinkInv

\* Every step keeps the invariant and is a step of the channel, or none.
LEMMA LinkStep ==
    ASSUME LinkInv, [Next]_vars
    PROVE  LinkInv' /\ [Channel!Next]_<<inFlight, delivered>>
  <1>1. ASSUME NEW m \in Outgoing, Enqueue(m)
        PROVE  LinkInv' /\ [Channel!Next]_<<inFlight, delivered>>
    BY <1>1, EnqueueKeeps DEF Channel!Next
  <1>2. ASSUME NEW n \in 1 .. KernelSize, SendBytes(n)
        PROVE  LinkInv' /\ [Channel!Next]_<<inFlight, delivered>>
    BY <1>2, SendBytesKeeps
  <1>3. ASSUME NEW m \in Outgoing, RemoveQueuedPiece(m.fields[1], m.fields[2], Len(m.data))
        PROVE  LinkInv' /\ [Channel!Next]_<<inFlight, delivered>>
    BY <1>3, RemoveKeeps DEF Channel!Next
  <1>4. ASSUME NEW n \in 1 .. KernelSize, RecvHandshake(n)
        PROVE  LinkInv' /\ [Channel!Next]_<<inFlight, delivered>>
    BY <1>4, RecvHandshakeKeeps
  <1>5. ASSUME NEW n \in 1 .. KernelSize, RecvChunk(n)
        PROVE  LinkInv' /\ [Channel!Next]_<<inFlight, delivered>>
    BY <1>5, RecvChunkKeeps
  <1>6. ASSUME HandleMessage
        PROVE  LinkInv' /\ [Channel!Next]_<<inFlight, delivered>>
    BY <1>6, HandleMessageKeeps DEF Channel!Next
  <1>7. ASSUME UNCHANGED vars
        PROVE  LinkInv' /\ [Channel!Next]_<<inFlight, delivered>>
    <2>1. /\ UNCHANGED <<writeBuffer, cursor, queued, kernel, stage, buffer, readBuffer>>
          /\ UNCHANGED <<delivered, inFlight>>
      BY <1>7 DEF vars, senderVars, receiverVars
    <2>2. Pipe' = Pipe
      BY <2>1 DEF Pipe
    <2>3. TypeOK'
      BY <2>1 DEF LinkInv, TypeOK
    <2>4. Line(stage, writeBuffer, cursor, Pipe, inFlight)'
      BY <2>1, <2>2 DEF LinkInv
    <2>. QED
      BY <2>1, <2>3, <2>4 DEF LinkInv
  <1>. QED
    BY <1>1, <1>2, <1>3, <1>4, <1>5, <1>6, <1>7 DEF Next, Done

\* The receiver never meets bytes it cannot frame, nor a length, an index, a block
\* size or a bitfield that handle_message() throws for: whatever send() and recv()
\* do, no client of this kind drops another for a protocol error.
THEOREM FramerNeverFails == Spec => [](stage # "dropped")
  <1>1. LinkInv => stage # "dropped"
    BY DEF LinkInv, TypeOK
  <1>. QED
    BY <1>1, LinkInit, LinkStep, PTL DEF Spec

\* The queue, the cursor, the handshake and the framer together are a channel of
\* whole messages: every step of the link is a step of the channel, or changes
\* nothing that the channel shows.
THEOREM LinkIsChannel == Spec => Channel!Init /\ [][Channel!Next]_<<inFlight, delivered>>
  <1>1. Init => Channel!Init
    BY DEF Init, Channel!Init
  <1>. QED
    BY <1>1, LinkInit, LinkStep, PTL DEF Spec
=============================================================================
