--------------------------- MODULE PathRuleLemmas ----------------------------
(***************************************************************************)
(* What matching computes, for patterns and paths of every length.         *)
(*                                                                         *)
(* Reached is a recursive function, so its facts take induction.  The      *)
(* library's induction theorems have an operator for a parameter, which    *)
(* the provers cannot instantiate; that a set of naturals has a least      *)
(* element has none, and is enough.                                        *)
(***************************************************************************)
EXTENDS PathRules, WellFoundedInduction, SequenceTheorems, TLAPS

-----------------------------------------------------------------------------
(* Induction, over sets.                                                   *)

LEMMA LeastNatural ==
  ASSUME NEW T, T \subseteq Nat, T # {}
  PROVE  \E x \in T : \A y \in T : ~(y < x)
<1> DEFINE less == OpToRel(<, Nat)
<1>1. IsWellFoundedOn(less, Nat)
  BY NatLessThanWellFounded
<1>2. \E x \in T : \A y \in T : <<y, x>> \notin less
  <2> HIDE DEF less
  <2> QED
    BY <1>1, WFMin
<1>3. \A x, y \in Nat : y < x => <<y, x>> \in less
  BY DEF OpToRel
<1> QED
  BY <1>2, <1>3

LEMMA SetInduction ==
  ASSUME NEW S, 0 \in S, \A n \in Nat : n \in S => n + 1 \in S
  PROVE  Nat \subseteq S
<1> SUFFICES ASSUME Nat \ S # {} PROVE FALSE
  OBVIOUS
<1> PICK n \in Nat \ S : \A m \in Nat \ S : ~(m < n)
  BY LeastNatural
<1>1. n # 0 /\ n - 1 \in Nat
  OBVIOUS
<1>2. n - 1 \in S
  BY <1>1
<1> QED
  BY <1>1, <1>2

-----------------------------------------------------------------------------
(* Sequences.                                                              *)

LEMMA Appended ==
  ASSUME NEW p \in Seq(Segments), NEW x \in Segments
  PROVE  /\ Append(p, x) \in Seq(Segments)
         /\ Len(Append(p, x)) = Len(p) + 1
         /\ Append(p, x)[Len(p) + 1] = x
         /\ \A i \in 1..Len(p) : Append(p, x)[i] = p[i]
         /\ Len(p) \in Nat
BY AppendProperties

LEMMA PrefixOf ==
  ASSUME NEW s \in Seq(Segments), NEW k \in 0..Len(s)
  PROVE  /\ SubSeq(s, 1, k) \in Seq(Segments)
         /\ Len(SubSeq(s, 1, k)) = k
         /\ \A j \in 1..k : SubSeq(s, 1, k)[j] = s[j]
         /\ Len(s) \in Nat /\ k \in Nat /\ k <= Len(s)
<1>1. Len(s) \in Nat /\ k \in Nat /\ k <= Len(s)
  OBVIOUS
<1>2. \A i \in 1..k : s[i] \in Segments
  BY <1>1, ElementOfSeq
<1>3. k - 1 + 1 = k /\ \A j : 1 + j - 1 = 1 + j - 1
  BY <1>1
<1> QED
  BY <1>1, <1>2, SubSeqProperties

-----------------------------------------------------------------------------
(* The equations of Reached.                                               *)

LEMMA EndsType ==
  ASSUME NEW pattern, NEW path \in Seq(Segments), NEW i, NEW starts
  PROVE  Ends(pattern, path, i, starts) \subseteq 1..Len(path)
BY Zenon DEF Ends

LEMMA ReachedSolves ==
  ASSUME NEW pattern \in Seq(Segments), NEW path \in Seq(Segments)
  PROVE  Reached(pattern, path) =
           [i \in 0..Len(pattern) |->
              IF i = 0 THEN {0} ELSE Ends(pattern, path, i, Reached(pattern, path)[i - 1])]
<1> DEFINE ends(i, starts) == Ends(pattern, path, i, starts)
           table(g, n) == g[0] = {0} /\ \A i \in 1..n : g[i] = ends(i, g[i - 1])
           S == {n \in Nat : \E g \in [0..n -> SUBSET Nat] : table(g, n)}
           solves(f) == f = [i \in 0..Len(pattern) |-> IF i = 0 THEN {0} ELSE ends(i, f[i - 1])]
<1>1. \A i, starts : ends(i, starts) \in SUBSET Nat
  <2>1. Len(path) \in Nat
    OBVIOUS
  <2>2. 1..Len(path) \subseteq Nat
    BY <2>1
  <2> QED
    BY <2>2, EndsType
<1> HIDE DEF ends
<1>2. 0 \in S
  <2>1. [i \in 0..0 |-> {0}] \in [0..0 -> SUBSET Nat]
    OBVIOUS
  <2>2. table([i \in 0..0 |-> {0}], 0)
    OBVIOUS
  <2> QED
    BY <2>1, <2>2
<1>3. ASSUME NEW n \in Nat, n \in S PROVE n + 1 \in S
  <2> PICK g \in [0..n -> SUBSET Nat] : table(g, n)
    BY <1>3
  <2> DEFINE h == [i \in 0..(n + 1) |-> IF i = n + 1 THEN ends(n + 1, g[n]) ELSE g[i]]
  <2>1. h \in [0..(n + 1) -> SUBSET Nat]
    BY <1>1
  <2>2. h[0] = {0}
    OBVIOUS
  <2>3. ASSUME NEW i \in 1..(n + 1) PROVE h[i] = ends(i, h[i - 1])
    <3>1. CASE i = n + 1
      BY <3>1
    <3>2. CASE i # n + 1
      <4>1. i \in 1..n /\ h[i] = g[i] /\ h[i - 1] = g[i - 1]
        BY <3>2
      <4> QED
        BY <4>1
    <3> QED
      BY <3>1, <3>2
  <2> HIDE DEF h
  <2>4. table(h, n + 1) /\ n + 1 \in Nat
    BY <2>2, <2>3
  <2> HIDE DEF table
  <2> QED
    BY <2>1, <2>4, Zenon
<1>4. Len(pattern) \in S
  <2> HIDE DEF S
  <2> QED
    BY <1>2, <1>3, SetInduction
<1>5. \E f : solves(f)
  <2> PICK g \in [0..Len(pattern) -> SUBSET Nat] : table(g, Len(pattern))
    BY <1>4
  <2>1. ASSUME NEW i \in 0..Len(pattern)
        PROVE  g[i] = IF i = 0 THEN {0} ELSE ends(i, g[i - 1])
    <3>1. CASE i = 0
      BY <3>1
    <3>2. CASE i # 0
      <4>1. i \in 1..Len(pattern)
        BY <3>2
      <4> QED
        BY <3>2, <4>1, Zenon
    <3> QED
      BY <3>1, <3>2
  <2>2. solves(g)
    BY <2>1
  <2> QED
    BY <2>2
<1>6. solves(CHOOSE f : solves(f))
  <2> HIDE DEF solves
  <2> QED
    BY <1>5, Zenon
<1>7. Reached(pattern, path) = CHOOSE f : solves(f)
  BY Zenon DEF Reached, ends
<1>8. solves(Reached(pattern, path))
  <2> HIDE DEF solves
  <2> QED
    BY <1>6, <1>7, Zenon
<1> QED
  BY <1>8, Zenon DEF ends

LEMMA ReachedAt ==
  ASSUME NEW pattern \in Seq(Segments), NEW path \in Seq(Segments)
  PROVE  /\ Reached(pattern, path)[0] = {0}
         /\ \A i \in 1..Len(pattern) :
              Reached(pattern, path)[i] = Ends(pattern, path, i, Reached(pattern, path)[i - 1])
         /\ \A i \in 0..Len(pattern) : Reached(pattern, path)[i] \subseteq 0..Len(path)
<1> DEFINE R == Reached(pattern, path)
           n == Len(pattern)
<1>1. n \in Nat /\ Len(path) \in Nat
  OBVIOUS
<1>2. \A i \in 0..n : R[i] = IF i = 0 THEN {0} ELSE Ends(pattern, path, i, R[i - 1])
  <2>1. R = [i \in 0..n |-> IF i = 0 THEN {0} ELSE Ends(pattern, path, i, R[i - 1])]
    BY ReachedSolves, Zenon
  <2> HIDE DEF R, n
  <2> QED
    BY <2>1, Zenon
<1> HIDE DEF R, n
<1>3. \A i \in 0..n : R[i] \subseteq 0..Len(path)
  <2> TAKE i \in 0..n
  <2>1. CASE i = 0
    BY <1>1, <1>2, <2>1
  <2>2. CASE i # 0
    <3>1. R[i] \subseteq 1..Len(path)
      BY <1>2, <2>2, EndsType
    <3>2. 1..Len(path) \subseteq 0..Len(path)
      BY <1>1
    <3> QED
      BY <3>1, <3>2
  <2> QED
    BY <2>1, <2>2
<1> QED
  BY <1>1, <1>2, <1>3 DEF R, n

-----------------------------------------------------------------------------
(* What is reached depends on what was matched so far, and on no more of     *)
(* the pattern or the path.                                                  *)

\* Two sequences that begin with the same n elements.
Agree(s, t, n) == n <= Len(s) /\ n <= Len(t) /\ \A i \in 1..n : s[i] = t[i]

LEMMA ReachedWithin ==
  ASSUME NEW p \in Seq(Segments), NEW q \in Seq(Segments), NEW m \in Nat, Agree(p, q, m),
         NEW s \in Seq(Segments), NEW t \in Seq(Segments), NEW k \in Nat, Agree(s, t, k)
  PROVE  Reached(p, s)[m] \cap (0..k) = Reached(q, t)[m] \cap (0..k)
<1> USE DEF Agree
<1> DEFINE R == Reached(p, s)
           T == Reached(q, t)
           same(i) == R[i] \cap (0..k) = T[i] \cap (0..k)
           S == {i \in Nat : i <= m => same(i)}
<1>1. /\ R[0] = {0} /\ T[0] = {0}
      /\ \A i \in 1..m : R[i] = Ends(p, s, i, R[i - 1]) /\ T[i] = Ends(q, t, i, T[i - 1])
      /\ \A i \in 0..m : R[i] \subseteq Nat /\ T[i] \subseteq Nat
  <2>1. Len(p) \in Nat /\ Len(q) \in Nat /\ Len(s) \in Nat /\ Len(t) \in Nat
    OBVIOUS
  <2>2. 0..Len(s) \subseteq Nat /\ 0..Len(t) \subseteq Nat /\ 0..m \subseteq 0..Len(p) /\ 0..m \subseteq 0..Len(q)
    BY <2>1
  <2> QED
    BY <2>1, <2>2, ReachedAt
<1> HIDE DEF R, T
<1>2. 0 \in S
  BY <1>1
<1>3. ASSUME NEW i \in Nat, i \in S PROVE i + 1 \in S
  <2> SUFFICES ASSUME i + 1 <= m PROVE same(i + 1)
    OBVIOUS
  <2>1. i + 1 \in 1..m /\ i \in 0..m /\ i + 1 - 1 = i
    OBVIOUS
  <2>2. same(i)
    BY <1>3, <2>1
  <2>3. R[i + 1] = Ends(p, s, i + 1, R[i]) /\ T[i + 1] = Ends(q, t, i + 1, T[i])
    BY <1>1, <2>1
  <2>4. R[i] \subseteq Nat /\ T[i] \subseteq Nat
    BY <1>1, <2>1
  <2>5. ASSUME NEW j \in 0..k
        PROVE  j \in Ends(p, s, i + 1, R[i]) <=> j \in Ends(q, t, i + 1, T[i])
    <3>1. (j \in 1..Len(s)) <=> (j \in 1..Len(t))
      OBVIOUS
    <3>2. j # 0 => s[j] = t[j]
      OBVIOUS
    <3>3. (\E e \in R[i] : e < j) <=> (\E e \in T[i] : e < j)
      BY <2>2, <2>4
    <3>4. j # 0 => ((j - 1 \in R[i]) <=> (j - 1 \in T[i]))
      <4>1. j # 0 => j - 1 \in 0..k
        OBVIOUS
      <4> QED
        BY <2>2, <4>1
    <3>5. p[i + 1] = q[i + 1]
      BY <2>1
    <3> QED
      BY <3>1, <3>2, <3>3, <3>4, <3>5 DEF Ends
  <2> QED
    BY <2>3, <2>5
<1>4. Nat \subseteq S
  <2> HIDE DEF S
  <2> QED
    BY <1>2, <1>3, SetInduction
<1> QED
  BY <1>4 DEF R, T

\* The prefix of a path of length k.
LEMMA MatchesPrefix ==
  ASSUME NEW p \in Seq(Segments), NEW x \in Segments, NEW s \in Seq(Segments), NEW k \in 0..Len(s)
  PROVE  Matches(p, SubSeq(s, 1, k)) <=> k \in Reached(Append(p, x), s)[Len(p)]
<1> DEFINE q == Append(p, x)
           t == SubSeq(s, 1, k)
<1>1. /\ q \in Seq(Segments) /\ Len(q) = Len(p) + 1 /\ Len(p) \in Nat
      /\ \A i \in 1..Len(p) : q[i] = p[i]
  BY Appended
<1>2. /\ t \in Seq(Segments) /\ Len(t) = k /\ k \in Nat /\ k <= Len(s)
      /\ \A j \in 1..k : t[j] = s[j]
  BY PrefixOf
<1>3. Agree(q, p, Len(p)) /\ Agree(s, t, k)
  BY <1>1, <1>2 DEF Agree
<1> HIDE DEF q, t
<1>4. Reached(q, s)[Len(p)] \cap (0..k) = Reached(p, t)[Len(p)] \cap (0..k)
  BY <1>1, <1>2, <1>3, ReachedWithin
<1> QED
  <2>1. Matches(p, t) <=> k \in Reached(p, t)[Len(p)]
    BY <1>2 DEF Matches
  <2>2. k \in 0..k
    BY <1>2
  <2>3. Matches(p, t) <=> k \in Reached(q, s)[Len(p)]
    BY <1>4, <2>1, <2>2
  <2> QED
    BY <2>3 DEF q, t

\* A last wildcard stands for whatever is left of the path.
LEMMA MatchesStar ==
  ASSUME NEW p \in Seq(Segments), NEW s \in Seq(Segments)
  PROVE  Matches(Append(p, Star), s) <=> \E k \in 0..(Len(s) - 1) : Matches(p, SubSeq(s, 1, k))
<1> DEFINE q == Append(p, Star)
           R == Reached(q, s)
<1>1. /\ q \in Seq(Segments) /\ Len(q) = Len(p) + 1 /\ q[Len(q)] = Star /\ Star \in Segments
      /\ Len(p) \in Nat /\ Len(s) \in Nat /\ Len(q) - 1 = Len(p)
      /\ Len(q) \in 1..Len(q) /\ Len(p) \in 0..Len(q)
  <2>1. Star \in Segments
    BY SegmentsAssumption DEF Wildcards
  <2> QED
    BY <2>1, Appended
<1>2. R[Len(q)] = Ends(q, s, Len(q), R[Len(p)]) /\ R[Len(p)] \subseteq 0..Len(s)
  <2> HIDE DEF q
  <2> QED
    BY <1>1, ReachedAt
<1>3. \A k \in 0..Len(s) : Matches(p, SubSeq(s, 1, k)) <=> k \in R[Len(p)]
  BY <1>1, MatchesPrefix
<1> HIDE DEF q, R
<1>4. Matches(q, s) <=> Len(s) \in 1..Len(s) /\ \E k \in R[Len(p)] : k < Len(s)
  <2>1. Star # StarExe
    BY DEF Star, StarExe
  <2>2. \A j : j \in Ends(q, s, Len(q), R[Len(p)])
                <=> j \in 1..Len(s) /\ \E k \in R[Len(p)] : k < j
    BY <1>1, <2>1 DEF Ends
  <2> QED
    BY <1>2, <2>2 DEF Matches, R
<1>5. (\E k \in R[Len(p)] : k < Len(s)) <=> \E k \in 0..(Len(s) - 1) : k \in R[Len(p)]
  BY <1>1, <1>2
<1>6. (\E k \in R[Len(p)] : k < Len(s)) => Len(s) \in 1..Len(s)
  BY <1>1, <1>2
<1>7. Matches(q, s) <=> \E k \in 0..(Len(s) - 1) : k \in R[Len(p)]
  BY <1>4, <1>5, <1>6
<1>8. 0..(Len(s) - 1) \subseteq 0..Len(s)
  BY <1>1
<1>9. Matches(q, s) <=> \E k \in 0..(Len(s) - 1) : Matches(p, SubSeq(s, 1, k))
  BY <1>3, <1>7, <1>8
<1> QED
  BY <1>9 DEF q

\* A pattern without wildcards is the path it matches.
LEMMA MatchesLiteral ==
  ASSUME NEW p \in Seq(Segments), NEW s \in Seq(Segments), ~HasWildcard(p), Matches(p, s)
  PROVE  s = p
<1> DEFINE R == Reached(p, s)
           S == {i \in Nat : i <= Len(p) => \A j \in R[i] : j = i /\ \A k \in 1..i : s[k] = p[k]}
<1>1. Len(p) \in Nat /\ Len(s) \in Nat
  OBVIOUS
<1>2. R[0] = {0} /\ \A i \in 1..Len(p) : R[i] = Ends(p, s, i, R[i - 1])
  BY ReachedAt
<1>3. \A i \in 1..Len(p) : p[i] # Star /\ p[i] # StarExe
  BY DEF HasWildcard, Wildcards
<1> HIDE DEF R
<1>4. 0 \in S
  BY <1>2
<1>5. ASSUME NEW i \in Nat, i \in S PROVE i + 1 \in S
  <2> SUFFICES ASSUME i + 1 <= Len(p), NEW j \in R[i + 1]
               PROVE  j = i + 1 /\ \A k \in 1..(i + 1) : s[k] = p[k]
    OBVIOUS
  <2>1. i + 1 \in 1..Len(p) /\ i + 1 - 1 = i
    BY <1>1
  <2>2. j \in Ends(p, s, i + 1, R[i])
    BY <1>2, <2>1
  <2>3. j \in 1..Len(s) /\ s[j] = p[i + 1] /\ j - 1 \in R[i]
    BY <1>3, <2>1, <2>2 DEF Ends
  <2>4. j - 1 = i /\ \A k \in 1..i : s[k] = p[k]
    BY <1>1, <1>5, <2>3
  <2>5. j = i + 1
    BY <1>1, <2>3, <2>4
  <2> QED
    BY <2>3, <2>4, <2>5
<1>6. Len(p) \in S
  <2> HIDE DEF S
  <2> QED
    BY <1>1, <1>4, <1>5, SetInduction
<1>7. Len(s) \in R[Len(p)]
  BY DEF Matches, R
<1>8. Len(s) = Len(p) /\ \A k \in 1..Len(p) : s[k] = p[k]
  BY <1>1, <1>6, <1>7
<1> QED
  BY <1>8, SeqEqual

-----------------------------------------------------------------------------
(* What variables stand for has the wildcards of the pattern.                *)

LEMMA Substituted ==
  ASSUME NEW prefix \in Seq(Segments), prefix # <<>>, ~HasWildcard(prefix),
         NEW pattern \in Seq(Segments), pattern # <<>>, Head(pattern) \notin Wildcards
  PROVE  LET e == prefix \o Tail(pattern)
         IN  /\ e \in Seq(Segments) /\ Len(e) > 0
             /\ HasWildcard(e) => HasWildcard(pattern) /\ Last(e) = Last(pattern)
<1> DEFINE e == prefix \o Tail(pattern)
           n == Len(prefix)
           m == Len(pattern)
<1>1. /\ n \in Nat /\ m \in Nat /\ n > 0 /\ m > 0
      /\ Tail(pattern) \in Seq(Segments) /\ Len(Tail(pattern)) = m - 1
      /\ \A i \in 1..(m - 1) : Tail(pattern)[i] = pattern[i + 1]
  BY HeadTailProperties
<1>2. /\ e \in Seq(Segments) /\ Len(e) = n + (m - 1)
      /\ \A i \in 1..(n + (m - 1)) : e[i] = IF i <= n THEN prefix[i] ELSE Tail(pattern)[i - n]
  BY <1>1, ConcatProperties
<1>3. ASSUME NEW i \in 1..Len(e), e[i] \in Wildcards
      PROVE  i > n /\ i - n + 1 \in 1..m /\ pattern[i - n + 1] = e[i] /\ m > 1
  <2>1. i > n
    BY <1>1, <1>2, <1>3 DEF HasWildcard
  <2>2. i - n \in 1..(m - 1)
    BY <1>1, <1>2, <2>1
  <2> QED
    BY <1>1, <1>2, <2>1, <2>2
<1>4. m > 1 => Last(e) = Last(pattern)
  <2> SUFFICES ASSUME m > 1 PROVE Last(e) = Last(pattern)
    OBVIOUS
  <2>1. n + (m - 1) \in 1..(n + (m - 1)) /\ ~(n + (m - 1) <= n) /\ n + (m - 1) - n = m - 1
        /\ m - 1 \in 1..(m - 1) /\ m - 1 + 1 = m
    BY <1>1
  <2>2. e[n + (m - 1)] = Tail(pattern)[m - 1]
    BY <1>2, <2>1
  <2>3. Tail(pattern)[m - 1] = pattern[m]
    BY <1>1, <2>1
  <2> QED
    BY <1>2, <2>2, <2>3 DEF Last
<1> HIDE DEF e
<1>5. HasWildcard(e) => HasWildcard(pattern) /\ m > 1
  BY <1>1, <1>3 DEF HasWildcard
<1> QED
  BY <1>1, <1>2, <1>4, <1>5 DEF e

LEMMA ShortPaths ==
  ASSUME NEW a \in Segments \ Wildcards, NEW b \in Segments \ Wildcards,
         NEW c \in Segments \ Wildcards,
         NEW p \in {<<a>>, <<a, b>>, <<a, b, c>>}
  PROVE  p \in Seq(Segments) /\ p # <<>> /\ \A i \in 1..Len(p) : p[i] \notin Wildcards
<1>1. CASE p = <<a>>
  <2>1. Len(<<a>>) = 1 /\ <<a>>[1] = a /\ <<a>> \in Seq(Segments) /\ <<a>> # <<>>
    OBVIOUS
  <2>2. \A i \in 1..1 : i = 1
    OBVIOUS
  <2> QED
    BY <1>1, <2>1, <2>2
<1>2. CASE p = <<a, b>>
  <2>1. Len(<<a, b>>) = 2 /\ <<a, b>>[1] = a /\ <<a, b>>[2] = b
        /\ <<a, b>> \in Seq(Segments) /\ <<a, b>> # <<>>
    OBVIOUS
  <2>2. \A i \in 1..2 : i = 1 \/ i = 2
    OBVIOUS
  <2> QED
    BY <1>2, <2>1, <2>2
<1>3. CASE p = <<a, b, c>>
  <2>1. Len(<<a, b, c>>) = 3 /\ <<a, b, c>>[1] = a /\ <<a, b, c>>[2] = b /\ <<a, b, c>>[3] = c
        /\ <<a, b, c>> \in Seq(Segments) /\ <<a, b, c>> # <<>>
    OBVIOUS
  <2>2. \A i \in 1..3 : i = 1 \/ i = 2 \/ i = 3
    OBVIOUS
  <2> QED
    BY <1>3, <2>1, <2>2
<1> QED
  BY <1>1, <1>2, <1>3

LEMMA Expanded ==
  ASSUME NEW pattern \in Seq(Segments), NEW e \in Expand(pattern)
  PROVE  /\ e \in Seq(Segments) /\ Len(e) > 0
         /\ HasWildcard(e) => HasWildcard(pattern) /\ Last(e) = Last(pattern)
<1>1. pattern # <<>>
  BY DEF Expand
<1> DEFINE prefixes == {<<"C:">>, <<"C:", "WINDOWS">>, <<"C:", "WINDOWS", "SYSTEM32">>,
                        <<"C:", "WINDOWS", "SYSWOW64">>, <<"C:", "PROGRAM FILES">>,
                        <<"C:", "PROGRAM FILES (X86)">>}
           variables == {"%OSDRIVE%", "%WINDIR%", "%SYSTEM32%", "%PROGRAMFILES%"}
<1>2. CASE e = pattern
  BY <1>1, <1>2
<1>3. CASE Head(pattern) \in variables /\ \E p \in prefixes : e = p \o Tail(pattern)
  <2>1. Head(pattern) \notin Wildcards
    BY <1>3 DEF Wildcards, Star, StarExe
  <2>2. PICK p \in prefixes : e = p \o Tail(pattern)
    BY <1>3
  <2>3. p \in Seq(Segments) /\ p # <<>> /\ \A i \in 1..Len(p) : p[i] \notin Wildcards
    <3>1. {"C:", "WINDOWS", "SYSTEM32", "SYSWOW64", "PROGRAM FILES", "PROGRAM FILES (X86)"}
            \subseteq Segments \ Wildcards
      BY SegmentsAssumption DEF Wildcards, Star, StarExe
    <3>2. CASE p = <<"C:">>
      BY <3>1, <3>2, ShortPaths
    <3>3. CASE \E s \in Segments \ Wildcards : p = <<"C:", s>>
      <4>1. PICK s \in Segments \ Wildcards : p = <<"C:", s>>
        BY <3>3
      <4>2. "C:" \in Segments \ Wildcards /\ p \in {<<"C:">>, <<"C:", s>>, <<"C:", s, s>>}
        BY <3>1, <4>1
      <4> QED
        BY <4>2, ShortPaths
    <3>4. CASE \E s \in Segments \ Wildcards : p = <<"C:", "WINDOWS", s>>
      <4>1. PICK s \in Segments \ Wildcards : p = <<"C:", "WINDOWS", s>>
        BY <3>4
      <4>2. /\ "C:" \in Segments \ Wildcards /\ "WINDOWS" \in Segments \ Wildcards
            /\ p \in {<<"C:">>, <<"C:", "WINDOWS">>, <<"C:", "WINDOWS", s>>}
        BY <3>1, <4>1
      <4> QED
        BY <4>2, ShortPaths
    <3>5. p = <<"C:">> \/ \E s \in Segments \ Wildcards : p = <<"C:", s>> \/ p = <<"C:", "WINDOWS", s>>
      BY <3>1
    <3> HIDE DEF prefixes
    <3> QED
      BY <3>2, <3>3, <3>4, <3>5
  <2>4. p \in Seq(Segments) /\ p # <<>>
    BY <2>3
  <2>5. ~HasWildcard(p)
    BY <2>3 DEF HasWildcard
  <2> HIDE DEF prefixes
  <2>6. /\ p \o Tail(pattern) \in Seq(Segments) /\ Len(p \o Tail(pattern)) > 0
        /\ HasWildcard(p \o Tail(pattern)) =>
             HasWildcard(pattern) /\ Last(p \o Tail(pattern)) = Last(pattern)
    BY <1>1, <2>1, <2>4, <2>5, Substituted
  <2> QED
    BY <2>2, <2>6
<1>4. \/ e = pattern
      \/ Head(pattern) \in variables /\ \E p \in prefixes : e = p \o Tail(pattern)
  BY <1>1 DEF Expand
<1> QED
  BY <1>2, <1>3, <1>4

-----------------------------------------------------------------------------
(* What the arithmetic on directories has to do with the files in them.      *)

LEMMA FilesAreSegments == Executables \subseteq Segments
BY SegmentsAssumption

\* A path, and what is left of it without the file.
LEMMA WithoutTheFile ==
  ASSUME NEW dir \in Seq(Segments), NEW file \in Segments
  PROVE  /\ Append(dir, file) \in Seq(Segments)
         /\ Len(Append(dir, file)) = Len(dir) + 1
         /\ Len(dir) \in Nat
         /\ \A k \in 0..Len(dir) : SubSeq(Append(dir, file), 1, k) = SubSeq(dir, 1, k)
         /\ SubSeq(dir, 1, Len(dir)) = dir
<1> DEFINE s == Append(dir, file)
<1>1. /\ s \in Seq(Segments) /\ Len(s) = Len(dir) + 1 /\ Len(dir) \in Nat
      /\ \A i \in 1..Len(dir) : s[i] = dir[i]
  BY Appended
<1> HIDE DEF s
<1>2. ASSUME NEW k \in 0..Len(dir) PROVE SubSeq(s, 1, k) = SubSeq(dir, 1, k)
  <2>1. k \in 0..Len(s)
    BY <1>1
  <2>2. /\ SubSeq(s, 1, k) \in Seq(Segments) /\ Len(SubSeq(s, 1, k)) = k
        /\ \A j \in 1..k : SubSeq(s, 1, k)[j] = s[j]
    BY <1>1, <2>1, PrefixOf
  <2>3. /\ SubSeq(dir, 1, k) \in Seq(Segments) /\ Len(SubSeq(dir, 1, k)) = k
        /\ \A j \in 1..k : SubSeq(dir, 1, k)[j] = dir[j]
    BY PrefixOf
  <2>4. \A j \in 1..k : s[j] = dir[j]
    BY <1>1
  <2> QED
    BY <2>2, <2>3, <2>4, SeqEqual
<1>3. SubSeq(dir, 1, Len(dir)) = dir
  <2>1. Len(dir) \in 0..Len(dir)
    BY <1>1
  <2>2. /\ SubSeq(dir, 1, Len(dir)) \in Seq(Segments) /\ Len(SubSeq(dir, 1, Len(dir))) = Len(dir)
        /\ \A j \in 1..Len(dir) : SubSeq(dir, 1, Len(dir))[j] = dir[j]
    BY <2>1, PrefixOf
  <2> QED
    BY <2>2, SeqEqual
<1> QED
  BY <1>1, <1>2, <1>3 DEF s

\* A pattern that ends in a wildcard is its front and the wildcard.
LEMMA StarLast ==
  ASSUME NEW e \in Seq(Segments), Len(e) > 0, Last(e) = Star
  PROVE  Front(e) \in Seq(Segments) /\ e = Append(Front(e), Star) /\ Len(Front(e)) = Len(e) - 1
<1>1. Len(e) \in Nat /\ Len(e) - 1 \in 0..Len(e)
  OBVIOUS
<1>4. Star \in Segments
  BY SegmentsAssumption DEF Wildcards
<1>2. /\ Front(e) \in Seq(Segments) /\ Len(Front(e)) = Len(e) - 1
      /\ \A j \in 1..(Len(e) - 1) : Front(e)[j] = e[j]
  BY <1>1, PrefixOf DEF Front
<1>3. e = Append(Front(e), Star)
  <2> DEFINE t == Append(Front(e), Star)
  <2>1. /\ t \in Seq(Segments) /\ Len(t) = Len(e) - 1 + 1 /\ t[Len(e) - 1 + 1] = Star
        /\ \A i \in 1..(Len(e) - 1) : t[i] = Front(e)[i]
    BY <1>1, <1>2, <1>4, Appended
  <2> HIDE DEF t
  <2>2. Len(e) = Len(t) /\ \A i \in 1..Len(e) : e[i] = t[i]
    <3>1. Len(e) - 1 + 1 = Len(e) /\ \A i \in 1..Len(e) : i = Len(e) \/ i \in 1..(Len(e) - 1)
      BY <1>1
    <3> QED
      BY <1>2, <2>1, <3>1 DEF Last
  <2>3. e = t
    BY <2>1, <2>2, SeqEqual
  <2> QED
    BY <2>3 DEF t
<1> QED
  BY <1>2, <1>3

\* What contains a directory governs every file in it.
THEOREM ContainsGoverns ==
  ASSUME NEW pattern \in Seq(Segments), NEW dir \in Seq(Segments), NEW file \in Segments,
         PatternContains(pattern, dir)
  PROVE  Governs(pattern, Append(dir, file))
<1> PICK e \in Expand(pattern) :
      \/ Matches(e, dir)
      \/ Matches(Append(e, Star), dir)
      \/ Last(e) = Star /\ Len(e) > 1 /\ Matches(Front(e), dir)
  BY DEF PatternContains
<1> DEFINE s == Append(dir, file)
<1>1. e \in Seq(Segments) /\ Len(e) > 0
  BY Expanded
<1>2. /\ s \in Seq(Segments) /\ Len(s) = Len(dir) + 1 /\ Len(dir) \in Nat
      /\ \A k \in 0..Len(dir) : SubSeq(s, 1, k) = SubSeq(dir, 1, k)
      /\ SubSeq(dir, 1, Len(dir)) = dir
  BY WithoutTheFile
<1> HIDE DEF s
<1>3. Len(dir) \in 0..(Len(s) - 1) /\ 0..(Len(dir) - 1) \subseteq 0..(Len(s) - 1)
      /\ 0..(Len(dir) - 1) \subseteq 0..Len(dir) /\ Len(dir) \in 0..Len(dir)
  BY <1>2
<1>4. ASSUME NEW p \in Seq(Segments), Matches(p, dir) PROVE Matches(Append(p, Star), s)
  <2>1. Matches(p, SubSeq(s, 1, Len(dir)))
    BY <1>2, <1>3, <1>4
  <2> QED
    BY <1>2, <1>3, <2>1, MatchesStar
<1>5. CASE Matches(e, dir)
  <2>1. Matches(Append(e, Star), s)
    BY <1>1, <1>4, <1>5
  <2> QED
    BY <2>1 DEF Governs, s
<1>6. CASE Matches(Append(e, Star), dir)
  <2>1. PICK k \in 0..(Len(dir) - 1) : Matches(e, SubSeq(dir, 1, k))
    BY <1>1, <1>6, MatchesStar
  <2>2. k \in 0..(Len(s) - 1) /\ Matches(e, SubSeq(s, 1, k))
    BY <1>2, <1>3, <2>1
  <2>3. Matches(Append(e, Star), s)
    BY <1>1, <1>2, <2>2, MatchesStar
  <2> QED
    BY <2>3 DEF Governs, s
<1>7. CASE Last(e) = Star /\ Len(e) > 1 /\ Matches(Front(e), dir)
  <2>1. Front(e) \in Seq(Segments) /\ e = Append(Front(e), Star)
    BY <1>1, <1>7, StarLast
  <2>2. Matches(e, s)
    BY <1>4, <1>7, <2>1
  <2> QED
    BY <2>2 DEF Governs, s
<1> QED
  BY <1>5, <1>6, <1>7

\* Only the empty path matches the empty pattern.
LEMMA MatchesNothing ==
  ASSUME NEW s \in Seq(Segments), NEW p \in Seq(Segments), Len(p) = 0, Matches(p, s)
  PROVE  Len(s) = 0
<1>1. Reached(p, s)[0] = {0}
  BY ReachedAt
<1> QED
  BY <1>1 DEF Matches

\* A pattern without wildcards is its own stem.
LEMMA OwnStem ==
  ASSUME NEW e \in Seq(Segments), ~HasWildcard(e)
  PROVE  Stem(e) = e
<1> DEFINE literal(n) == /\ \A i \in 1..n : e[i] \notin Wildcards
                         /\ n = Len(e) \/ e[n + 1] \in Wildcards
           stem == CHOOSE n \in 0..Len(e) : literal(n)
<1>1. Len(e) \in 0..Len(e) /\ literal(Len(e))
  BY DEF HasWildcard
<1>2. stem \in 0..Len(e) /\ literal(stem)
  <2> HIDE DEF literal
  <2> QED
    BY <1>1
<1>3. stem = Len(e)
  <2> HIDE DEF stem
  <2>1. stem # Len(e) => stem + 1 \in 1..Len(e)
    BY <1>2
  <2> QED
    BY <1>2, <2>1 DEF HasWildcard
<1>4. Stem(e) = SubSeq(e, 1, stem)
  BY Zenon DEF Stem
<1>5. SubSeq(e, 1, Len(e)) = e
  <2>1. /\ SubSeq(e, 1, Len(e)) \in Seq(Segments) /\ Len(SubSeq(e, 1, Len(e))) = Len(e)
        /\ \A j \in 1..Len(e) : SubSeq(e, 1, Len(e))[j] = e[j]
    BY <1>1, PrefixOf
  <2> QED
    BY <2>1, SeqEqual
<1> HIDE DEF stem
<1> QED
  BY <1>3, <1>4, <1>5

\* What governs a file in a directory covers the directory: unless it has a
\* wildcard and does not end in the one that stands for anything.
THEOREM GovernsCovers ==
  ASSUME NEW pattern \in Seq(Segments), NEW dir \in Seq(Segments), dir # <<>>,
         NEW file \in Segments, HasWildcard(pattern) => Last(pattern) = Star,
         Governs(pattern, Append(dir, file))
  PROVE  PatternCovers(pattern, dir)
<1> DEFINE s == Append(dir, file)
<1> PICK e \in Expand(pattern) : Matches(e, s) \/ Matches(Append(e, Star), s)
  BY DEF Governs
<1>1. e \in Seq(Segments) /\ Len(e) > 0 /\ (HasWildcard(e) => Last(e) = Star)
  BY Expanded
<1>2. /\ s \in Seq(Segments) /\ Len(s) = Len(dir) + 1 /\ Len(dir) \in Nat /\ Len(dir) > 0
      /\ \A k \in 0..Len(dir) : SubSeq(s, 1, k) = SubSeq(dir, 1, k)
      /\ SubSeq(dir, 1, Len(dir)) = dir
  <2>1. Len(dir) > 0
    OBVIOUS
  <2> QED
    BY <2>1, WithoutTheFile
<1> HIDE DEF s
\* A last wildcard stands for the file, or for more.
<1>3. ASSUME NEW p \in Seq(Segments), Matches(Append(p, Star), s)
      PROVE  Matches(Append(p, Star), dir) \/ Matches(p, dir)
  <2>1. PICK k \in 0..(Len(s) - 1) : Matches(p, SubSeq(s, 1, k))
    BY <1>2, <1>3, MatchesStar
  <2>6. 0..(Len(s) - 1) = 0..Len(dir)
    BY <1>2
  <2>2. k \in 0..Len(dir) /\ Matches(p, SubSeq(dir, 1, k))
    BY <1>2, <2>1, <2>6
  <2>3. k = Len(dir) \/ k \in 0..(Len(dir) - 1)
    <3>1. k \in 0..Len(dir) /\ Len(dir) \in Nat
      BY <1>2, <2>2
    <3> HIDE DEF s
    <3> QED
      BY <3>1
  <2>4. CASE k = Len(dir)
    BY <1>2, <2>2, <2>4
  <2>5. CASE k \in 0..(Len(dir) - 1)
    BY <2>2, <2>5, MatchesStar
  <2> QED
    BY <2>3, <2>4, <2>5
<1>4. CASE Matches(Append(e, Star), s)
  <2>1. Matches(Append(e, Star), dir) \/ Matches(e, dir)
    BY <1>1, <1>3, <1>4
  <2> QED
    BY <2>1 DEF PatternCovers, PatternContains
<1>5. CASE Matches(e, s) /\ HasWildcard(e)
  <2>1. Front(e) \in Seq(Segments) /\ e = Append(Front(e), Star) /\ Len(Front(e)) = Len(e) - 1
        /\ Last(e) = Star
    BY <1>1, <1>5, StarLast
  <2>2. Matches(e, dir) \/ Matches(Front(e), dir)
    BY <1>3, <1>5, <2>1
  <2>3. Matches(Front(e), dir) => Len(e) > 1
    <3>1. ASSUME NEW p \in Seq(Segments), Matches(p, dir) PROVE Len(p) # 0
      BY <1>2, <3>1, MatchesNothing
    <3>2. Matches(Front(e), dir) => Len(Front(e)) # 0
      BY <2>1, <3>1
    <3> QED
      BY <1>1, <2>1, <3>2
  <2> QED
    BY <2>1, <2>2, <2>3 DEF PatternCovers, PatternContains
<1>6. CASE Matches(e, s) /\ ~HasWildcard(e)
  <2>1. s = e /\ Stem(e) = e
    BY <1>1, <1>2, <1>6, MatchesLiteral, OwnStem
  <2>2. IsPrefix(dir, e)
    <3>1. Len(dir) <= Len(e) /\ SubSeq(dir, 1, Len(dir)) = SubSeq(e, 1, Len(dir))
      BY <1>2, <2>1
    <3> QED
      BY <3>1 DEF IsPrefix
  <2>3. e # <<>>
    BY <1>1
  <2> QED
    BY <2>1, <2>2, <2>3 DEF PatternCovers
<1> QED
  BY <1>4, <1>5, <1>6

=============================================================================
