---------------------------- MODULE TotalsProofs ----------------------------
(***************************************************************************)
(* Lemmas about the sums of Totals and about sequences that grow at the    *)
(* end, shrink at the front and lose an entry in the middle, as the queues *)
(* of the client do.                                                       *)
(***************************************************************************)
EXTENDS Totals, FiniteSetsExt, SequenceTheorems, FiniteSetTheorems, TLAPS

\* Zenon first, then SMT, with time for a slow machine.
USE ZenonT(6), SMTT(60), ZenonT(60)

----------------------------------------------------------------------------
(* Sums *)

\* The units of a sum, one by one.
LEMMA UnitsMember ==
    ASSUME NEW w, NEW s, NEW u
    PROVE  u \in Units(w, s) <=> \E i \in 1 .. Len(s) : \E k \in 1 .. w[s[i]] : u = <<i, k>>
  BY DEF Units

\* A sum is finite.
LEMMA TotalType ==
    ASSUME NEW S, NEW w \in [S -> Nat], NEW s \in Seq(S)
    PROVE  IsFiniteSet(Units(w, s)) /\ Total(w, s) \in Nat
  <1> DEFINE f == [i \in 1 .. Len(s) |-> {i} \X (1 .. w[s[i]])]
             T == {{i} \X (1 .. w[s[i]]) : i \in 1 .. Len(s)}
  <1>1. f \in Surjection(1 .. Len(s), T)
    BY DEF Surjection
  <1>2. IsFiniteSet(1 .. Len(s))
    BY FS_Interval
  <1>3. IsFiniteSet(T)
    BY <1>1, <1>2, FS_Surjection
  <1>4. \A i \in 1 .. Len(s) : IsFiniteSet({i} \X (1 .. w[s[i]]))
    <2> SUFFICES ASSUME NEW i \in 1 .. Len(s) PROVE IsFiniteSet({i} \X (1 .. w[s[i]]))
      OBVIOUS
    <2>1. w[s[i]] \in Int /\ 1 \in Int
      OBVIOUS
    <2>2. IsFiniteSet(1 .. w[s[i]])
      BY <2>1, FS_Interval
    <2>3. IsFiniteSet({i})
      BY FS_Singleton
    <2>. QED
      BY <2>2, <2>3, FS_Product
  <1>5. \A t \in T : IsFiniteSet(t)
    BY <1>4
  <1>6. IsFiniteSet(UNION T)
    BY <1>3, <1>5, FS_UNION
  <1>. QED
    BY <1>6, FS_CardinalityType DEF Units, Total

\* The units of one entry.
LEMMA EntryUnits ==
    ASSUME NEW i, NEW n \in Nat
    PROVE  IsFiniteSet({i} \X (1 .. n)) /\ Cardinality({i} \X (1 .. n)) = n
  <1>1. IsFiniteSet({i}) /\ Cardinality({i}) = 1
    BY FS_Singleton
  <1>2. IsFiniteSet(1 .. n) /\ Cardinality(1 .. n) = n
    BY FS_Interval
  <1>3. /\ IsFiniteSet({i} \X (1 .. n))
        /\ Cardinality({i} \X (1 .. n)) = Cardinality({i}) * Cardinality(1 .. n)
    BY <1>1, <1>2, FS_Product
  <1>. QED
    BY <1>1, <1>2, <1>3

\* Two sets with a bijection between them are of one size.
LEMMA SameSize ==
    ASSUME NEW A, NEW B, NEW f \in [A -> B], IsFiniteSet(A),
           \A x, y \in A : f[x] = f[y] => x = y,
           \A y \in B : \E x \in A : f[x] = y
    PROVE  IsFiniteSet(B) /\ Cardinality(B) = Cardinality(A)
  <1>1. f \in Injection(A, B)
    BY DEF Injection, IsInjective
  <1>2. f \in Surjection(A, B)
    BY DEF Surjection
  <1>3. f \in Bijection(A, B)
    BY <1>1, <1>2 DEF Bijection
  <1>. QED
    BY <1>3, FS_Bijection DEF ExistsBijection

\* The size of a set in two parts.
LEMMA TwoParts ==
    ASSUME NEW A, NEW B, IsFiniteSet(A), IsFiniteSet(B), A \cap B = {}
    PROVE  /\ IsFiniteSet(A \cup B)
           /\ Cardinality(A \cup B) = Cardinality(A) + Cardinality(B)
           /\ Cardinality(A) \in Nat /\ Cardinality(B) \in Nat
  <1>1. /\ IsFiniteSet(A \cup B)
        /\ Cardinality(A \cup B) = Cardinality(A) + Cardinality(B) - Cardinality(A \cap B)
    BY FS_Union
  <1>2. Cardinality(A) \in Nat /\ Cardinality(B) \in Nat
    BY FS_CardinalityType
  <1>3. Cardinality(A \cap B) = 0
    BY FS_EmptySet
  <1>. QED
    BY <1>1, <1>2, <1>3

\* The sum over two sequences one after the other.
LEMMA TotalConcat ==
    ASSUME NEW S, NEW w \in [S -> Nat], NEW s \in Seq(S), NEW t \in Seq(S)
    PROVE  Total(w, s \o t) = Total(w, s) + Total(w, t)
  <1> DEFINE c == s \o t
             n == Len(s)
             A == Units(w, s)
             B == Units(w, t)
             C == Units(w, c)
             f == [u \in B |-> <<u[1] + n, u[2]>>]
  <1>1. /\ c \in Seq(S) /\ Len(c) = n + Len(t) /\ n \in Nat /\ Len(t) \in Nat
        /\ \A i \in 1 .. n : i \in 1 .. Len(c) /\ c[i] = s[i]
        /\ \A i \in 1 .. Len(t) : i + n \in 1 .. Len(c) /\ c[i + n] = t[i]
    OBVIOUS
  <1> HIDE DEF c
  <1>0. /\ \A u \in A : \E i \in 1 .. n : \E k \in 1 .. w[s[i]] : u = <<i, k>>
        /\ \A u \in B : \E i \in 1 .. Len(t) : \E k \in 1 .. w[t[i]] : u = <<i, k>>
        /\ \A u \in C : \E i \in 1 .. Len(c) : \E k \in 1 .. w[c[i]] : u = <<i, k>>
    <2>1. \A u \in A : \E i \in 1 .. n : \E k \in 1 .. w[s[i]] : u = <<i, k>>
      BY DEF Units
    <2>2. \A u \in B : \E i \in 1 .. Len(t) : \E k \in 1 .. w[t[i]] : u = <<i, k>>
      BY DEF Units
    <2>3. \A u \in C : \E i \in 1 .. Len(c) : \E k \in 1 .. w[c[i]] : u = <<i, k>>
      BY DEF Units
    <2>. QED
      BY <2>1, <2>2, <2>3
  <1>2. IsFiniteSet(A) /\ IsFiniteSet(B) /\ IsFiniteSet(C)
    BY <1>1, TotalType
  <1>3. \A u \in A : u[1] \in 1 .. n /\ u \in C
    <2> SUFFICES ASSUME NEW u \in A PROVE u[1] \in 1 .. n /\ u \in C
      OBVIOUS
    <2>0. PICK i \in 1 .. n : \E k \in 1 .. w[s[i]] : u = <<i, k>>
      BY <1>0
    <2>1. PICK k \in 1 .. w[s[i]] : u = <<i, k>>
      BY <2>0
    <2>2. u \in C
      BY <1>1, <2>1, UnitsMember
    <2>. QED
      BY <2>1, <2>2
  <1>4. \A u \in B : /\ u[1] \in 1 .. Len(t) /\ u = <<u[1], u[2]>>
                     /\ <<u[1] + n, u[2]>> \in C /\ <<u[1] + n, u[2]>> \notin A
    <2> SUFFICES ASSUME NEW u \in B
                 PROVE  /\ u[1] \in 1 .. Len(t) /\ u = <<u[1], u[2]>>
                        /\ <<u[1] + n, u[2]>> \in C /\ <<u[1] + n, u[2]>> \notin A
      OBVIOUS
    <2>0. PICK i \in 1 .. Len(t) : \E k \in 1 .. w[t[i]] : u = <<i, k>>
      BY <1>0
    <2>1. PICK k \in 1 .. w[t[i]] : u = <<i, k>>
      BY <2>0
    <2>2. <<i + n, k>> \in C
      BY <1>1, <2>1, UnitsMember
    <2>3. i + n \notin 1 .. n
      BY <1>1
    <2>4. <<i + n, k>> \notin A
      BY <1>3, <2>3
    <2>. QED
      BY <2>1, <2>2, <2>4
  <1>5. \A v \in C \ A : <<v[1] - n, v[2]>> \in B /\ v[1] \in Nat /\ v = <<v[1], v[2]>>
    <2> SUFFICES ASSUME NEW v \in C \ A
                 PROVE  <<v[1] - n, v[2]>> \in B /\ v[1] \in Nat /\ v = <<v[1], v[2]>>
      OBVIOUS
    <2>0. PICK i \in 1 .. Len(c) : \E k \in 1 .. w[c[i]] : v = <<i, k>>
      BY <1>0
    <2>1. PICK k \in 1 .. w[c[i]] : v = <<i, k>>
      BY <2>0
    <2>2. i \notin 1 .. n
      BY <1>1, <2>1, UnitsMember
    <2>3. i - n \in 1 .. Len(t) /\ i = (i - n) + n
      BY <1>1, <2>2
    <2>4. t[i - n] = c[i]
      BY <1>1, <2>3
    <2>5. <<i - n, k>> \in B
      BY <2>3, <2>4, UnitsMember
    <2>. QED
      BY <2>1, <2>5
  <1> HIDE DEF A, B, C
  <1>6. Cardinality(C \ A) = Cardinality(B) /\ IsFiniteSet(C \ A)
    <2>1. f \in [B -> C \ A]
      BY <1>4
    <2>2. ASSUME NEW u \in B, NEW v \in B, f[u] = f[v] PROVE u = v
      <3>1. <<u[1] + n, u[2]>> = <<v[1] + n, v[2]>>
        BY <2>2
      <3>2. u[1] + n = v[1] + n /\ u[2] = v[2]
        BY <3>1
      <3>3. u[1] \in 1 .. Len(t) /\ v[1] \in 1 .. Len(t)
            /\ u = <<u[1], u[2]>> /\ v = <<v[1], v[2]>>
        BY <1>4, Zenon
      <3>4. u[1] = v[1]
        BY <1>1, <3>2, <3>3
      <3>. QED
        BY <3>2, <3>3, <3>4
    <2>3. ASSUME NEW v \in C \ A PROVE \E u \in B : f[u] = v
      <3>1. <<v[1] - n, v[2]>> \in B /\ v[1] \in Nat /\ v = <<v[1], v[2]>>
        BY <1>5
      <3>2. f[<<v[1] - n, v[2]>>] = <<(v[1] - n) + n, v[2]>>
        BY <3>1
      <3>3. (v[1] - n) + n = v[1]
        BY <1>1, <3>1
      <3>. QED
        BY <3>1, <3>2, <3>3
    <2> HIDE DEF f
    <2>. QED
      BY <1>2, <2>1, <2>2, <2>3, SameSize
  <1>7. C = A \cup (C \ A) /\ A \cap (C \ A) = {}
    BY <1>3
  <1>8. Cardinality(A \cup (C \ A)) = Cardinality(A) + Cardinality(C \ A)
    BY <1>2, <1>6, <1>7, TwoParts
  <1>. QED
    BY <1>6, <1>7, <1>8 DEF Total, A, B, C, c

\* The sum over one entry, and over none.
LEMMA TotalOne ==
    ASSUME NEW S, NEW w \in [S -> Nat], NEW x \in S
    PROVE  Total(w, <<x>>) = w[x] /\ Total(w, <<>>) = 0
  <1>1. Units(w, <<x>>) = {1} \X (1 .. w[x])
    BY DEF Units
  <1>2. Cardinality({1} \X (1 .. w[x])) = w[x]
    BY EntryUnits
  <1>3. Units(w, <<>>) = {}
    BY DEF Units
  <1>. QED
    BY <1>1, <1>2, <1>3, FS_EmptySet DEF Total

\* A sequence around one of its entries.
LEMMA Around ==
    ASSUME NEW S, NEW s \in Seq(S), NEW i \in 1 .. Len(s)
    PROVE  /\ s = SubSeq(s, 1, i - 1) \o (<<s[i]>> \o SubSeq(s, i + 1, Len(s)))
           /\ SubSeq(s, 1, i - 1) \in Seq(S) /\ SubSeq(s, i + 1, Len(s)) \in Seq(S)
           /\ s[i] \in S
  <1> DEFINE n == Len(s)
  <1>1. n \in Nat /\ s[i] \in S
    OBVIOUS
  <1> HIDE DEF n
  <1>2. /\ 1 \in 1 .. n + 1 /\ i - 1 \in 1 - 1 .. n /\ n \in i - 1 .. n
        /\ i \in 1 .. n /\ n \in i .. n /\ (i - 1) + 1 = i
    BY <1>1 DEF n
  <1>3. SubSeq(s, 1, i - 1) \o SubSeq(s, (i - 1) + 1, n) = SubSeq(s, 1, n)
    BY <1>2, ConcatAdjacentSubSeq DEF n
  <1>4. SubSeq(s, i, n) = <<s[i]>> \o SubSeq(s, i + 1, n)
    BY <1>2, SubSeqRecursiveFirst DEF n
  <1>5. SubSeq(s, 1, n) = s
    BY SubSeqFull DEF n
  <1>6. s = SubSeq(s, 1, i - 1) \o (<<s[i]>> \o SubSeq(s, i + 1, n))
    BY <1>2, <1>3, <1>4, <1>5
  <1>7. SubSeq(s, 1, i - 1) \in Seq(S) /\ SubSeq(s, i + 1, n) \in Seq(S)
    BY <1>1 DEF n
  <1>. QED
    BY <1>1, <1>6, <1>7 DEF n

\* What is where once an entry is taken out.
LEMMA Removed ==
    ASSUME NEW S, NEW s \in Seq(S), NEW i \in 1 .. Len(s)
    PROVE  /\ RemoveAt(s, i) \in Seq(S) /\ Len(RemoveAt(s, i)) = Len(s) - 1
           /\ \A j \in 1 .. (Len(s) - 1) : RemoveAt(s, i)[j] = IF j < i THEN s[j] ELSE s[j + 1]
  <1> DEFINE a == SubSeq(s, 1, i - 1)
             b == SubSeq(s, i + 1, Len(s))
             n == Len(s)
  <1>1. n \in Nat /\ i \in 1 .. n
    OBVIOUS
  <1>2. a \in Seq(S) /\ Len(a) = i - 1 /\ \A j \in 1 .. (i - 1) : a[j] = s[j]
    OBVIOUS
  <1>3. b \in Seq(S) /\ Len(b) = n - i
    OBVIOUS
  <1>4. ASSUME NEW k \in 1 .. (n - i) PROVE b[k] = s[k + i]
    <2>1. i + 1 \in Int /\ n \in Int /\ \A x \in (i + 1) .. n : s[x] \in S
      OBVIOUS
    <2>2. \A x \in 1 .. n - (i + 1) + 1 : SubSeq(s, i + 1, n)[x] = s[(i + 1) + x - 1]
      BY <2>1, SubSeqProperties
    <2>3. k \in 1 .. n - (i + 1) + 1 /\ (i + 1) + k - 1 = k + i
      BY <1>1
    <2>. QED
      BY <2>2, <2>3
  <1>5. RemoveAt(s, i) = a \o b
    BY DEF RemoveAt
  <1> HIDE DEF a, b, n
  <1>6. /\ a \o b \in Seq(S) /\ Len(a \o b) = Len(a) + Len(b)
        /\ \A j \in 1 .. Len(a) + Len(b) :
               (a \o b)[j] = IF j <= Len(a) THEN a[j] ELSE b[j - Len(a)]
    BY <1>2, <1>3, ConcatProperties
  <1>7. Len(a) + Len(b) = n - 1
    BY <1>1, <1>2, <1>3
  <1>8. ASSUME NEW j \in 1 .. (n - 1)
        PROVE  (a \o b)[j] = IF j < i THEN s[j] ELSE s[j + 1]
    <2>1. CASE j < i
      BY <1>1, <1>2, <1>6, <1>7, <2>1
    <2>2. CASE j >= i
      <3>1. j - Len(a) \in 1 .. (n - i) /\ (j - Len(a)) + i = j + 1 /\ ~(j <= Len(a))
        BY <1>1, <1>2, <2>2
      <3>2. b[j - Len(a)] = s[j + 1]
        BY <1>4, <3>1
      <3>. QED
        BY <1>6, <1>7, <2>2, <3>1, <3>2
    <2>3. j < i \/ j >= i
      BY <1>1
    <2>. QED
      BY <2>1, <2>2, <2>3
  <1>. QED
    BY <1>5, <1>6, <1>7, <1>8 DEF n

\* The sum without one entry.
LEMMA TotalErase ==
    ASSUME NEW S, NEW w \in [S -> Nat], NEW s \in Seq(S), NEW i \in 1 .. Len(s)
    PROVE  Total(w, s) = Total(w, RemoveAt(s, i)) + w[s[i]]
  <1> DEFINE a == SubSeq(s, 1, i - 1)
             b == SubSeq(s, i + 1, Len(s))
             x == s[i]
  <1>1. s = a \o (<<x>> \o b) /\ a \in Seq(S) /\ b \in Seq(S) /\ x \in S
    BY Around
  <1>2. RemoveAt(s, i) = a \o b
    BY DEF RemoveAt
  <1> HIDE DEF a, b, x
  <1>3. <<x>> \in Seq(S) /\ <<x>> \o b \in Seq(S)
    BY <1>1
  <1>4. Total(w, a \o (<<x>> \o b)) = Total(w, a) + Total(w, <<x>> \o b)
    BY <1>1, <1>3, TotalConcat
  <1>5. Total(w, <<x>> \o b) = Total(w, <<x>>) + Total(w, b)
    BY <1>1, <1>3, TotalConcat
  <1>6. Total(w, a \o b) = Total(w, a) + Total(w, b)
    BY <1>1, TotalConcat
  <1>7. Total(w, <<x>>) = w[x] /\ w[x] \in Nat
    BY <1>1, TotalOne
  <1>8. Total(w, a) \in Nat /\ Total(w, b) \in Nat
    BY <1>1, TotalType
  <1>9. Total(w, s) = Total(w, a \o (<<x>> \o b))
    BY <1>1
  <1>. QED
    BY <1>2, <1>4, <1>5, <1>6, <1>7, <1>8, <1>9 DEF x

\* A sequence from its first entry on.
LEMMA HeadFirst ==
    ASSUME NEW S, NEW s \in Seq(S), s # <<>>
    PROVE  /\ s = <<Head(s)>> \o Tail(s) /\ Head(s) = s[1] /\ Head(s) \in S
           /\ Tail(s) \in Seq(S) /\ Len(s) \in Nat \ {0} /\ Len(Tail(s)) = Len(s) - 1
           /\ \A i \in 1 .. (Len(s) - 1) : Tail(s)[i] = s[i + 1]
  <1>1. Len(s) \in Nat \ {0} /\ Head(s) = s[1]
    OBVIOUS
  <1>2. SubSeq(s, 1, Len(s)) = <<s[1]>> \o SubSeq(s, 1 + 1, Len(s))
    <2>1. 1 \in 1 .. Len(s) /\ Len(s) \in 1 .. Len(s)
      BY <1>1
    <2>. QED
      BY <2>1, SubSeqRecursiveFirst
  <1>3. SubSeq(s, 1, Len(s)) = s
    BY SubSeqFull
  <1>4. Tail(s) = SubSeq(s, 2, Len(s))
    BY TailIsSubSeq
  <1>5. /\ Head(s) \in S /\ Tail(s) \in Seq(S) /\ Len(Tail(s)) = Len(s) - 1
        /\ \A i \in 1 .. Len(Tail(s)) : Tail(s)[i] = s[i + 1]
    BY HeadTailProperties
  <1>6. 1 + 1 = 2
    OBVIOUS
  <1>7. s = <<Head(s)>> \o Tail(s)
    BY <1>1, <1>2, <1>3, <1>4, <1>6
  <1>. QED
    BY <1>1, <1>5, <1>7

\* The sum without the first entry.
LEMMA TotalTail ==
    ASSUME NEW S, NEW w \in [S -> Nat], NEW s \in Seq(S), s # <<>>
    PROVE  Total(w, s) = Total(w, Tail(s)) + w[Head(s)]
  <1> DEFINE x == Head(s)
             t == Tail(s)
  <1>1. s = <<x>> \o t /\ x \in S /\ t \in Seq(S)
    BY HeadFirst
  <1> HIDE DEF x, t
  <1>2. <<x>> \in Seq(S)
    BY <1>1
  <1>3. Total(w, <<x>> \o t) = Total(w, <<x>>) + Total(w, t)
    BY <1>1, <1>2, TotalConcat
  <1>4. Total(w, <<x>>) = w[x] /\ w[x] \in Nat
    BY <1>1, TotalOne
  <1>5. Total(w, t) \in Nat
    BY <1>1, TotalType
  <1>6. Total(w, s) = Total(w, <<x>> \o t)
    BY <1>1
  <1>. QED
    BY <1>3, <1>4, <1>5, <1>6 DEF x, t

\* A smaller weight has a smaller sum.
LEMMA TotalMonotone ==
    ASSUME NEW S, NEW w \in [S -> Nat], NEW v \in [S -> Nat], NEW s \in Seq(S),
           \A x \in S : w[x] <= v[x]
    PROVE  Total(w, s) <= Total(v, s)
  <1>1. Units(w, s) \subseteq Units(v, s)
    <2> SUFFICES ASSUME NEW u \in Units(w, s) PROVE u \in Units(v, s)
      OBVIOUS
    <2>1. PICK i \in 1 .. Len(s) : u \in {i} \X (1 .. w[s[i]])
      BY DEF Units
    <2>2. s[i] \in S
      OBVIOUS
    <2>3. u \in {i} \X (1 .. v[s[i]])
      BY <2>1, <2>2
    <2>. QED
      BY <2>3 DEF Units
  <1>2. IsFiniteSet(Units(v, s))
    BY TotalType
  <1>. QED
    BY <1>1, <1>2, FS_Subset DEF Total

\* How often x is in a sequence is the sum of a weight.
LEMMA OccurrencesTotal ==
    ASSUME NEW S, NEW s \in Seq(S), NEW x
    PROVE  Occurrences(s, x) = Total([y \in S |-> IF y = x THEN 1 ELSE 0], s)
  <1> DEFINE w == [y \in S |-> IF y = x THEN 1 ELSE 0]
             A == Units(w, s)
             B == {i \in 1 .. Len(s) : s[i] = x}
             f == [i \in B |-> <<i, 1>>]
  <1>1. w \in [S -> Nat]
    OBVIOUS
  <1>2. \A i \in 1 .. Len(s) : s[i] \in S /\ w[s[i]] = IF s[i] = x THEN 1 ELSE 0
    OBVIOUS
  <1>3. IsFiniteSet(B)
    <2>1. IsFiniteSet(1 .. Len(s))
      BY FS_Interval
    <2>. QED
      BY <2>1, FS_Subset
  <1> HIDE DEF w
  <1>4. f \in [B -> A]
    <2> SUFFICES ASSUME NEW i \in B PROVE <<i, 1>> \in A
      OBVIOUS
    <2>1. 1 \in 1 .. w[s[i]]
      BY <1>2
    <2>. QED
      BY <2>1 DEF Units
  <1>5. \A i, j \in B : f[i] = f[j] => i = j
    OBVIOUS
  <1>6. ASSUME NEW u \in A PROVE \E i \in B : f[i] = u
    <2>1. PICK i \in 1 .. Len(s) : u \in {i} \X (1 .. w[s[i]])
      BY DEF Units
    <2>2. i \in B /\ w[s[i]] = 1
      BY <1>2, <2>1
    <2>3. u = <<i, 1>>
      BY <2>1, <2>2
    <2>. QED
      BY <2>2, <2>3
  <1> HIDE DEF A, B, f
  <1>7. Cardinality(A) = Cardinality(B)
    BY <1>3, <1>4, <1>5, <1>6, SameSize
  <1>. QED
    BY <1>7 DEF A, B, w, Occurrences, Total

\* How often x is in a sequence that grows, loses an entry or loses its first.
LEMMA OccurrencesFacts ==
    ASSUME NEW S, NEW s \in Seq(S), NEW x
    PROVE  /\ Occurrences(s, x) \in Nat
           /\ \A t \in Seq(S) : Occurrences(s \o t, x) = Occurrences(s, x) + Occurrences(t, x)
           /\ \A i \in 1 .. Len(s) :
                  Occurrences(s, x)
                      = Occurrences(RemoveAt(s, i), x) + IF s[i] = x THEN 1 ELSE 0
           /\ s # <<>> => Occurrences(s, x)
                              = Occurrences(Tail(s), x) + IF Head(s) = x THEN 1 ELSE 0
           /\ (\A i \in 1 .. Len(s) : s[i] # x) => Occurrences(s, x) = 0
           /\ Occurrences(<<>>, x) = 0
           /\ \A y \in S : Occurrences(<<y>>, x) = IF y = x THEN 1 ELSE 0
  <1> DEFINE w == [y \in S |-> IF y = x THEN 1 ELSE 0]
  <1>1. w \in [S -> Nat] /\ \A y \in S : w[y] = IF y = x THEN 1 ELSE 0
    OBVIOUS
  <1>2. \A t \in Seq(S) : Occurrences(t, x) = Total(w, t)
    BY OccurrencesTotal
  <1> HIDE DEF w
  <1>3. Occurrences(s, x) \in Nat
    BY <1>1, <1>2, TotalType
  <1>4. ASSUME NEW t \in Seq(S)
        PROVE  Occurrences(s \o t, x) = Occurrences(s, x) + Occurrences(t, x)
    <2>1. s \o t \in Seq(S)
      OBVIOUS
    <2>2. Total(w, s \o t) = Total(w, s) + Total(w, t)
      BY <1>1, TotalConcat
    <2>. QED
      BY <1>2, <2>1, <2>2
  <1>5. ASSUME NEW i \in 1 .. Len(s)
        PROVE  Occurrences(s, x) = Occurrences(RemoveAt(s, i), x) + IF s[i] = x THEN 1 ELSE 0
    <2>1. RemoveAt(s, i) \in Seq(S) /\ s[i] \in S
      BY Removed
    <2>2. Total(w, s) = Total(w, RemoveAt(s, i)) + w[s[i]]
      BY <1>1, TotalErase
    <2>. QED
      BY <1>1, <1>2, <2>1, <2>2
  <1>6. ASSUME s # <<>>
        PROVE  Occurrences(s, x) = Occurrences(Tail(s), x) + IF Head(s) = x THEN 1 ELSE 0
    <2>1. Tail(s) \in Seq(S) /\ Head(s) \in S
      BY <1>6, HeadFirst
    <2>2. Total(w, s) = Total(w, Tail(s)) + w[Head(s)]
      BY <1>1, <1>6, TotalTail
    <2>. QED
      BY <1>1, <1>2, <2>1, <2>2
  <1>7. ASSUME \A i \in 1 .. Len(s) : s[i] # x PROVE Occurrences(s, x) = 0
    <2>1. {i \in 1 .. Len(s) : s[i] = x} = {}
      BY <1>7
    <2>. QED
      BY <2>1, FS_EmptySet DEF Occurrences
  <1>8. Occurrences(<<>>, x) = 0
    <2>1. {i \in 1 .. Len(<<>>) : <<>>[i] = x} = {}
      OBVIOUS
    <2>. QED
      BY <2>1, FS_EmptySet DEF Occurrences
  <1>9. ASSUME NEW y \in S PROVE Occurrences(<<y>>, x) = IF y = x THEN 1 ELSE 0
    <2>1. <<y>> \in Seq(S)
      OBVIOUS
    <2>2. Total(w, <<y>>) = w[y]
      BY <1>1, TotalOne
    <2>. QED
      BY <1>1, <1>2, <2>1, <2>2
  <1>. QED
    BY <1>3, <1>4, <1>5, <1>6, <1>7, <1>8, <1>9

----------------------------------------------------------------------------
(* The first and the last of a set of places *)

\* A set of naturals has a least element.
LEMMA LeastOf ==
    ASSUME NEW I, I \subseteq Nat, I # {}
    PROVE  \E x \in I : \A y \in I : x <= y
  <1> DEFINE R == OpToRel(<, Nat)
  <1>1. IsWellFoundedOn(R, Nat)
    BY NatLessThanWellFounded
  <1>2. \A y \in Nat, x \in Nat : y < x => <<y, x>> \in R
    BY DEF OpToRel
  <1> HIDE DEF R
  <1>3. PICK x \in I : \A y \in I : ~(<<y, x>> \in R)
    BY <1>1, WFMin
  <1>4. ASSUME NEW y \in I PROVE x <= y
    <2>1. x \in Nat /\ y \in Nat /\ ~(<<y, x>> \in R)
      BY <1>3
    <2>2. y < x => <<y, x>> \in R
      BY <1>2, <2>1
    <2>. QED
      BY <2>1, <2>2
  <1>. QED
    BY <1>4

\* The first and the last of a set of places are among them, and no other comes
\* before or after.
LEMMA MinMaxIn ==
    ASSUME NEW n \in Nat, NEW I, I \subseteq 1 .. n, I # {}
    PROVE  /\ Min(I) \in I /\ Max(I) \in I
           /\ \A x \in I : Min(I) =< x /\ Max(I) >= x
  <1>1. Min(I) \in I /\ \A x \in I : Min(I) =< x
    <2>1. I \subseteq Nat
      OBVIOUS
    <2>2. \E x \in I : \A y \in I : x =< y
      BY <2>1, LeastOf
    <2>. QED
      BY <2>2 DEF Min
  <1>2. Max(I) \in I /\ \A x \in I : Max(I) >= x
    <2> DEFINE J == {n - x : x \in I}
    <2>0. \A x \in I : n - x \in Nat
      OBVIOUS
    <2>1. J \subseteq Nat /\ J # {}
      BY <2>0
    <2>2. PICK m \in J : \A y \in J : m <= y
      BY <2>1, LeastOf
    <2>3. PICK x \in I : m = n - x
      BY <2>2
    <2>4. ASSUME NEW y \in I PROVE x >= y
      <3>1. n - y \in J
        OBVIOUS
      <3>2. n - x <= n - y /\ x \in Int /\ y \in Int
        BY <2>2, <2>3, <3>1
      <3>. QED
        BY <3>2
    <2>5. \E z \in I : \A y \in I : z >= y
      BY <2>4
    <2>. QED
      BY <2>5 DEF Max
  <1>. QED
    BY <1>1, <1>2

----------------------------------------------------------------------------
(* Pieces of one length *)

\* Quotient and remainder.
LEMMA Division ==
    ASSUME NEW t \in Nat, NEW l \in Nat \ {0}
    PROVE  /\ t \div l \in Nat /\ t % l \in Nat /\ t % l < l
           /\ t = l * (t \div l) + (t % l)
  <1> DEFINE q == t \div l
  <1>1. q \in Int /\ 0 <= q
    OBVIOUS
  <1>2. l * q <= t /\ t < l * q + l
    OBVIOUS
  <1>3. t % l \in Int /\ 0 <= t % l
    OBVIOUS
  <1>4. t % l < l
    OBVIOUS
  <1>5. ASSUME NEW z \in Int, l * z <= t, t < l * z + l PROVE t % l = t - l * z
    <2> DEFINE r == t - l * z
    <2>1. r \in Int /\ t = l * z + r /\ 0 <= r /\ r < l
      BY <1>5
    <2> HIDE DEF r
    <2>2. r = t % l
      BY <2>1
    <2>. QED
      BY <2>2 DEF r
  <1>6. t % l = t - l * q
    BY <1>1, <1>2, <1>5
  <1>7. l * q \in Int
    BY <1>1
  <1> DEFINE x == l * q
             r == t % l
  <1>8. r = t - x /\ x \in Int /\ r \in Int
    BY <1>3, <1>6, <1>7
  <1>9. q \in Nat /\ r \in Nat /\ r < l
    BY <1>1, <1>3, <1>4
  <1> HIDE DEF x, q, r
  <1>10. t = x + r
    BY <1>8
  <1>11. t = l * q + r
    BY <1>10 DEF x
  <1>. QED
    BY <1>9, <1>11 DEF q, r

\* Multiples of a length.
LEMMA Multiples ==
    ASSUME NEW p \in Nat, NEW q \in Nat, NEW l \in Nat, p < q
    PROVE  p * l \in Nat /\ q * l \in Nat /\ p * l + l <= q * l
  <1>1. q * l = p * l + l + (q - p - 1) * l
    OBVIOUS
  <1>2. (q - p - 1) * l >= 0 /\ (q - p - 1) * l \in Int
    OBVIOUS
  <1>3. p * l \in Nat /\ q * l \in Nat
    OBVIOUS
  <1>. QED
    BY <1>1, <1>2, <1>3


\* The quotient is the only number of whole lengths that fits.
LEMMA Quotient ==
    ASSUME NEW q \in Nat, NEW r \in Nat, NEW l \in Nat \ {0}, r < l
    PROVE  (q * l + r) \div l = q /\ (q * l + r) % l = r
  <1> DEFINE t == q * l + r
             z == t \div l
             x == t % l
  <1>1. q * l \in Nat /\ t \in Nat
    OBVIOUS
  <1>2. z \in Nat /\ x \in Nat /\ x < l /\ t = l * z + x
    BY <1>1, Division
  <1>3. t = q * l + r
    OBVIOUS
  <1> HIDE DEF t, z, x
  <1>4. z * l \in Nat /\ t = z * l + x
    BY <1>2
  <1>5. ~(q < z)
    <2> SUFFICES ASSUME q < z PROVE FALSE
      OBVIOUS
    <2>1. q * l + l <= z * l
      BY <1>2, Multiples
    <2>. QED
      BY <1>1, <1>2, <1>3, <1>4, <2>1
  <1>6. ~(z < q)
    <2> SUFFICES ASSUME z < q PROVE FALSE
      OBVIOUS
    <2>1. z * l + l <= q * l
      BY <1>2, Multiples
    <2>. QED
      BY <1>1, <1>2, <1>3, <1>4, <2>1
  <1>7. z = q
    BY <1>2, <1>5, <1>6
  <1>8. x = r
    BY <1>1, <1>2, <1>3, <1>4, <1>7
  <1>. QED
    BY <1>7, <1>8 DEF t, z, x

\* How many pieces of length l are t bytes, and how long piece p of c is.
CountOf(t, l) == (t \div l) + (IF t % l = 0 THEN 0 ELSE 1)
SizeOf(t, l, c, p) == IF p = c - 1 THEN t - p * l ELSE l

\* The pieces cut t bytes up: none is empty, none is longer than l, they do not
\* overlap, and every byte is in one.
LEMMA Tiling ==
    ASSUME NEW t \in Nat, NEW l \in Nat \ {0}, NEW c, c = CountOf(t, l)
    PROVE  /\ c \in Nat
           /\ \A p \in 0 .. (c - 1) :
                  /\ p \in Nat /\ p * l \in Nat /\ SizeOf(t, l, c, p) \in Nat
                  /\ 1 <= SizeOf(t, l, c, p) /\ SizeOf(t, l, c, p) <= l
                  /\ p * l + SizeOf(t, l, c, p) <= t
           /\ \A p \in 0 .. (c - 1), q \in 0 .. (c - 1) :
                  p < q => p * l + SizeOf(t, l, c, p) <= q * l
           /\ \A g \in Nat : g < t =>
                  \E p \in 0 .. (c - 1) : p * l <= g /\ g < p * l + SizeOf(t, l, c, p)
  <1> DEFINE q == t \div l
             r == t % l
  <1>1. t \in Nat /\ l \in Nat \ {0}
    OBVIOUS
  <1>2. q \in Nat /\ r \in Nat /\ r < l /\ t = l * q + r
    BY <1>1, Division
  <1>3. c = q + (IF r = 0 THEN 0 ELSE 1) /\ c \in Nat
    BY <1>2 DEF CountOf
  <1> HIDE DEF q, r
  <1>4. q * l \in Nat /\ t = q * l + r
    BY <1>1, <1>2
  <1>5. \A p \in 0 .. (c - 1) : p \in Nat /\ p < c /\ p <= q
    BY <1>2, <1>3 
  <1>6. \A p \in 0 .. (c - 1) : p < q => p * l + l <= q * l
    BY <1>1, <1>2, <1>5, Multiples
  <1>7. \A p \in 0 .. (c - 1) : p * l \in Nat
    BY <1>1, <1>5
  <1>8. ASSUME NEW p \in 0 .. (c - 1)
        PROVE  /\ SizeOf(t, l, c, p) \in Nat /\ 1 <= SizeOf(t, l, c, p)
               /\ SizeOf(t, l, c, p) <= l /\ p * l + SizeOf(t, l, c, p) <= t
    <2>1. CASE p # c - 1
      <3>1. SizeOf(t, l, c, p) = l /\ p < q
        BY <1>2, <1>3, <1>5, <2>1 DEF SizeOf
      <3>. QED
        BY <1>1, <1>2, <1>4, <1>6, <1>7, <3>1
    <2>2. CASE p = c - 1 /\ r = 0
      <3>1. SizeOf(t, l, c, p) = t - p * l /\ p = q - 1
        BY <1>2, <1>3, <2>2 DEF SizeOf
      <3>2. p * l + l = q * l
        BY <1>1, <1>2, <3>1
      <3> DEFINE a == p * l
                 b == q * l
      <3>3. a \in Nat /\ b \in Nat /\ t = b + r /\ a + l = b /\ SizeOf(t, l, c, p) = t - a
        BY <1>4, <1>7, <3>1, <3>2
      <3> HIDE DEF a, b
      <3>4. SizeOf(t, l, c, p) = l /\ a + l = t
        BY <1>1, <1>2, <2>2, <3>3
      <3>. QED
        BY <1>1, <3>4 DEF a
    <2>3. CASE p = c - 1 /\ r # 0
      <3>1. SizeOf(t, l, c, p) = t - p * l /\ p = q
        BY <1>2, <1>3, <2>3 DEF SizeOf
      <3>. QED
        BY <1>1, <1>2, <1>4, <1>7, <2>3, <3>1
    <2>. QED
      BY <2>1, <2>2, <2>3
  <1>9. ASSUME NEW p \in 0 .. (c - 1), NEW z \in 0 .. (c - 1), p < z PROVE p * l + SizeOf(t, l, c, p) <= z * l
    <2>1. p * l + l <= z * l
      BY <1>1, <1>5, <1>9, Multiples
    <2>. QED
      BY <1>1, <1>7, <1>8, <2>1
  <1>10. ASSUME NEW g \in Nat, g < t
         PROVE  \E p \in 0 .. (c - 1) : p * l <= g /\ g < p * l + SizeOf(t, l, c, p)
    <2> DEFINE z == g \div l
    <2>1. z \in Nat /\ g % l \in Nat /\ g % l < l /\ g = l * z + (g % l)
      BY <1>1, Division
    <2> DEFINE x == g % l
               y == l * z
    <2> HIDE DEF x, z
    <2>a. z \in Nat /\ x \in Nat /\ x < l /\ g = y + x
      BY <2>1 DEF x, z
    <2>b. y = z * l /\ z * l \in Nat
      BY <1>1, <2>a
    <2> HIDE DEF y
    <2>2. z * l \in Nat /\ z * l <= g /\ g < z * l + l
      BY <1>1, <2>a, <2>b
    <2>3. z <= q
      <3> SUFFICES ASSUME q < z PROVE FALSE
        BY <1>2, <2>1
      <3>1. q * l + l <= z * l
        BY <1>1, <1>2, <2>1, Multiples
      <3>. QED
        BY <1>1, <1>2, <1>4, <1>10, <2>2, <3>1
    <2>4. z = q => r # 0
      BY <1>1, <1>2, <1>4, <1>10, <2>2
    <2>5. z \in 0 .. (c - 1)
      BY <1>2, <1>3, <2>1, <2>3, <2>4
    <2>6. g < z * l + SizeOf(t, l, c, z)
      <3>1. CASE z # c - 1
        BY <2>2, <3>1 DEF SizeOf
      <3>2. CASE z = c - 1
        <4>1. SizeOf(t, l, c, z) = t - z * l
          BY <3>2 DEF SizeOf
        <4>. QED
          BY <1>1, <1>10, <2>2, <4>1
      <3>. QED
        BY <3>1, <3>2
    <2>. QED
      BY <2>2, <2>5, <2>6
  <1>. QED
    BY <1>3, <1>5, <1>7, <1>8, <1>9, <1>10

\* The count is the one number of pieces that t bytes fill, the last perhaps in part.
LEMMA Counted ==
    ASSUME NEW t \in Nat, NEW l \in Nat \ {0}, NEW m \in Nat
    PROVE  (m = CountOf(t, l)) <=> ((m - 1) * l + 1 <= t /\ t <= m * l)
  <1> DEFINE q == t \div l
             r == t % l
             a == q * l
             b == m * l
  <1>1. q \in Nat /\ r \in Nat /\ r < l /\ t = l * q + r
    BY Division
  <1>2. CountOf(t, l) = q + (IF r = 0 THEN 0 ELSE 1)
    BY DEF CountOf
  <1> HIDE DEF q, r
  <1>3. a \in Nat /\ b \in Nat /\ t = a + r
    BY <1>1
  <1>4. (m - 1) * l = b - l
    OBVIOUS
  <1>5. m < q => b + l <= a
    BY <1>1, Multiples
  <1>6. q < m => a + l <= b
    BY <1>1, Multiples
  <1>7. q + 1 < m => (a + l) + l <= b
    <2> SUFFICES ASSUME q + 1 < m PROVE (a + l) + l <= b
      OBVIOUS
    <2>1. (q + 1) * l + l <= m * l
      BY <1>1, Multiples
    <2>2. (q + 1) * l = a + l
      BY <1>1
    <2>. QED
      BY <2>1, <2>2
  <1>8. m = q => b = a
    OBVIOUS
  <1>9. m = q + 1 => b = a + l
    BY <1>1
  <1> HIDE DEF a, b
  <1>10. (m = q + (IF r = 0 THEN 0 ELSE 1)) <=> ((b - l) + 1 <= t /\ t <= b)
    BY <1>1, <1>3, <1>5, <1>6, <1>7, <1>8, <1>9
  <1>. QED
    BY <1>2, <1>4, <1>10 DEF b
=============================================================================
