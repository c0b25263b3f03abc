------------------------------- MODULE Totals -------------------------------
(***************************************************************************)
(* The sum of a weight over the entries of a sequence (the bytes of the    *)
(* messages in a queue, say), as the number of its units: entry i of       *)
(* weight n contributes the pairs <<i, 1>> .. <<i, n>>.  As a cardinality  *)
(* it can be reasoned about with the theorems on finite sets, which a fold *)
(* cannot.                                                                 *)
(***************************************************************************)
EXTENDS Naturals, Sequences, FiniteSets

Units(w, s) == UNION {{i} \X (1 .. w[s[i]]) : i \in 1 .. Len(s)}

Total(w, s) == Cardinality(Units(w, s))

\* s without its entry i.  (SequencesExt has it too, among much that every proof
\* about a queue would then carry along.)
RemoveAt(s, i) == SubSeq(s, 1, i - 1) \o SubSeq(s, i + 1, Len(s))

\* How often x is in s.
Occurrences(s, x) == Cardinality({i \in 1 .. Len(s) : s[i] = x})
=============================================================================
