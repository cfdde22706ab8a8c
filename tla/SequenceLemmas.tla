--------------------------- MODULE SequenceLemmas ---------------------------
(***************************************************************************)
(* Induction over the natural numbers for a set, and what the models do    *)
(* to sequences: cut windows out of a stream, and filter one.              *)
(***************************************************************************)
EXTENDS Integers, SequenceTheorems, WellFoundedInduction, TLAPS

\* A set of natural numbers has a least element.
LEMMA Least ==
  ASSUME NEW T, T \subseteq Nat, T # {}
  PROVE  \E m \in T : \A n \in T : m <= n
  <1>1. IsWellFoundedOn({ss \in Nat \X Nat : ss[1] < ss[2]}, Nat)
    BY NatLessThanWellFounded DEF OpToRel
  <1>2. PICK m \in T : \A n \in T : <<n, m>> \notin {ss \in Nat \X Nat : ss[1] < ss[2]}
    BY <1>1, WFMin
  <1>3. ASSUME NEW n \in T PROVE m <= n
    <2>1. m \in Nat /\ n \in Nat
      OBVIOUS
    <2>2. ~(n < m)
      BY <1>2, <2>1
    <2> QED BY <2>1, <2>2
  <1> QED BY <1>3

\* A set that holds 0 and the successor of each of its numbers holds them all.
LEMMA Induction ==
  ASSUME NEW S, 0 \in S, \A n \in Nat : n \in S => n + 1 \in S
  PROVE  Nat \subseteq S
  <1> SUFFICES ASSUME Nat \ S # {} PROVE FALSE
    OBVIOUS
  <1>1. PICK m \in Nat \ S : \A n \in Nat \ S : m <= n
    BY Least
  <1>2. m # 0 /\ m - 1 \in Nat /\ (m - 1) + 1 = m
    BY <1>1
  <1> QED BY <1>1, <1>2

\* f is the function on 0..m that begins with a and goes on by h.
Recursive(f, V, a, m, h) ==
  f \in [0..m -> V] /\ f[0] = a /\ \A i \in 1..m : f[i] = h[<<i, f[i - 1]>>]

\* A function may be defined by recursion over 0..m.
LEMMA Recursion ==
  ASSUME NEW V, NEW a \in V, NEW m \in Nat, NEW h, \A i \in 1..m, x \in V : h[<<i, x>>] \in V
  PROVE  \E f : Recursive(f, V, a, m, h)
  <1> DEFINE Is(f, n) == Recursive(f, V, a, n, h)
             N == {n \in Nat : n <= m => \E f : Is(f, n)}
  <1>1. 0 \in N
    <2>1. Is([i \in 0..0 |-> a], 0)
      BY DEF Recursive
    <2> QED BY <2>1
  <1>2. ASSUME NEW n \in Nat, n \in N PROVE n + 1 \in N
    <2> SUFFICES ASSUME n + 1 <= m PROVE \E f : Is(f, n + 1)
      OBVIOUS
    <2>1. PICK f : Is(f, n)
      BY <1>2
    <2> DEFINE v == h[<<n + 1, f[n]>>]
               g == [i \in 0..(n + 1) |-> IF i <= n THEN f[i] ELSE v]
    <2>2. v \in V
      <3>1. f[n] \in V /\ n + 1 \in 1..m
        BY <2>1 DEF Recursive
      <3> QED BY <3>1
    <2>3. /\ g \in [0..(n + 1) -> V]
          /\ \A i \in 0..n : g[i] = f[i]
          /\ g[n + 1] = v
      BY <2>1, <2>2 DEF Recursive
    <2> HIDE DEF g
    <2>4. ASSUME NEW i \in 1..(n + 1) PROVE g[i] = h[<<i, g[i - 1]>>]
      <3>1. CASE i \in 1..n
        <4>1. i \in 0..n /\ i - 1 \in 0..n
          BY <3>1
        <4> QED BY <4>1, <3>1, <2>1, <2>3 DEF Recursive
      <3>2. CASE i = n + 1
        <4>1. i - 1 = n /\ n \in 0..n
          BY <3>2
        <4>2. g[i - 1] = f[n]
          BY <4>1, <2>3
        <4> QED BY <3>2, <4>2, <2>3
      <3> QED BY <3>1, <3>2
    <2>5. Is(g, n + 1)
      BY <2>1, <2>3, <2>4 DEF Recursive
    <2> QED BY <2>5
  <1> HIDE DEF N
  <1>3. m \in N
    BY <1>1, <1>2, Induction
  <1> QED BY <1>3 DEF N

Obeys(g, V, a, m, h) ==
  g[0] = a /\ \A i \in 1..m : g[i - 1] \in V => g[i] = h[<<i, g[i - 1]>>]

\* There is one such function.
LEMMA RecursionUnique ==
  ASSUME NEW V, NEW a, NEW m \in Nat, NEW h, NEW f, NEW g, Recursive(f, V, a, m, h),
         Obeys(g, V, a, m, h)
  PROVE  \A i \in 0..m : g[i] = f[i]
  <1> DEFINE N == {n \in Nat : n \in 0..m => g[n] = f[n]}
  <1>1. 0 \in N
    BY DEF Recursive, Obeys
  <1>2. ASSUME NEW n \in Nat, n \in N PROVE n + 1 \in N
    <2> SUFFICES ASSUME n + 1 \in 0..m PROVE g[n + 1] = f[n + 1]
      OBVIOUS
    <2>1. n \in 0..m /\ n + 1 \in 1..m /\ (n + 1) - 1 = n
      OBVIOUS
    <2>2. g[n] = f[n] /\ f[n] \in V
      BY <1>2, <2>1 DEF Recursive, Obeys
    <2> QED BY <2>1, <2>2 DEF Recursive, Obeys
  <1> HIDE DEF N
  <1>3. \A n \in 0..m : n \in N
    BY <1>1, <1>2, Induction
  <1> QED BY <1>3 DEF N

-----------------------------------------------------------------------------
(* A window of a stream: what lies behind its a-th and up to its b-th      *)
(* element.                                                                *)

LEMMA Window ==
  ASSUME NEW S, NEW s \in Seq(S), NEW a \in Nat, NEW b \in a..Len(s)
  PROVE  /\ SubSeq(s, a + 1, b) \in Seq(S)
         /\ Len(SubSeq(s, a + 1, b)) = b - a
         /\ \A i \in 1..(b - a) : SubSeq(s, a + 1, b)[i] = s[a + i]
  <1>1. \A i \in (a + 1)..b : s[i] \in S
    BY ElementOfSeq
  <1> QED BY <1>1, SubSeqProperties

LEMMA WindowOfOne ==
  ASSUME NEW S, NEW s \in Seq(S), NEW a \in Nat, a + 1 <= Len(s)
  PROVE  SubSeq(s, a + 1, a + 1) = <<s[a + 1]>>
  <1>1. a + 1 \in a..Len(s) /\ (a + 1) - a = 1
    BY LenProperties
  <1>2. PICK x : x = SubSeq(s, a + 1, a + 1)
    OBVIOUS
  <1>3. x \in Seq(S) /\ Len(x) = 1 /\ \A i \in 1..1 : x[i] = s[a + i]
    <2>1. /\ SubSeq(s, a + 1, a + 1) \in Seq(S)
          /\ Len(SubSeq(s, a + 1, a + 1)) = (a + 1) - a
          /\ \A i \in 1..((a + 1) - a) : SubSeq(s, a + 1, a + 1)[i] = s[a + i]
      BY <1>1, Window
    <2> QED BY <2>1, <1>1, <1>2
  <1>4. PICK e : e = s[a + 1]
    OBVIOUS
  <1>5. x[1] = e
    BY <1>3, <1>4
  <1>6. x = <<e>>
    BY ONLY <1>3, <1>5
  <1> QED BY <1>2, <1>4, <1>6

LEMMA WindowGrows ==
  ASSUME NEW S, NEW s \in Seq(S), NEW a \in Nat, NEW b \in a..Len(s), NEW c \in b..Len(s)
  PROVE  SubSeq(s, a + 1, b) \o SubSeq(s, b + 1, c) = SubSeq(s, a + 1, c)
  <1> DEFINE x == SubSeq(s, a + 1, b)
             y == SubSeq(s, b + 1, c)
             z == SubSeq(s, a + 1, c)
  <1>1. x \in Seq(S) /\ Len(x) = b - a /\ \A i \in 1..(b - a) : x[i] = s[a + i]
    BY Window
  <1>2. y \in Seq(S) /\ Len(y) = c - b /\ \A i \in 1..(c - b) : y[i] = s[b + i]
    BY Window
  <1>3. z \in Seq(S) /\ Len(z) = c - a /\ \A i \in 1..(c - a) : z[i] = s[a + i]
    BY Window
  <1> HIDE DEF x, y, z
  <1>4. x \o y \in Seq(S) /\ Len(x \o y) = c - a
    <2>1. x \o y \in Seq(S) /\ Len(x \o y) = Len(x) + Len(y)
      BY <1>1, <1>2, ConcatProperties
    <2> QED BY <2>1, <1>1, <1>2
  <1>5. ASSUME NEW i \in 1..(c - a) PROVE (x \o y)[i] = z[i]
    <2>1. (x \o y)[i] = IF i <= b - a THEN x[i] ELSE y[i - (b - a)]
      BY <1>1, <1>2, ConcatProperties
    <2>2. CASE i <= b - a
      BY <2>1, <2>2, <1>1, <1>3
    <2>3. CASE ~(i <= b - a)
      <3>1. i - (b - a) \in 1..(c - b) /\ b + (i - (b - a)) = a + i
        BY <2>3
      <3> QED BY <2>1, <2>3, <3>1, <1>2, <1>3
    <2> QED BY <2>2, <2>3
  <1> QED BY <1>3, <1>4, <1>5, SeqEqual DEF x, y, z

LEMMA WindowOfWindow ==
  ASSUME NEW S, NEW s \in Seq(S), NEW a \in Nat, NEW b \in a..Len(s),
         NEW j \in Nat, NEW k \in j..(b - a)
  PROVE  SubSeq(SubSeq(s, a + 1, b), j + 1, k) = SubSeq(s, a + j + 1, a + k)
  <1> DEFINE w == SubSeq(s, a + 1, b)
             x == SubSeq(w, j + 1, k)
             y == SubSeq(s, a + j + 1, a + k)
  <1>1. w \in Seq(S) /\ Len(w) = b - a /\ \A i \in 1..(b - a) : w[i] = s[a + i]
    BY Window
  <1>2. y \in Seq(S) /\ Len(y) = k - j /\ \A i \in 1..(k - j) : y[i] = s[a + j + i]
    <2>1. a + j \in Nat /\ a + k \in (a + j)..Len(s) /\ (a + k) - (a + j) = k - j
      OBVIOUS
    <2>2. /\ y \in Seq(S) /\ Len(y) = (a + k) - (a + j)
          /\ \A i \in 1..((a + k) - (a + j)) : y[i] = s[a + j + i]
      BY <2>1, Window
    <2> QED BY <2>1, <2>2
  <1> HIDE DEF w
  <1>3. x \in Seq(S) /\ Len(x) = k - j /\ \A i \in 1..(k - j) : x[i] = w[j + i]
    <2>1. k \in j..Len(w)
      BY <1>1
    <2> QED BY <1>1, <2>1, Window
  <1> HIDE DEF x, y
  <1>4. ASSUME NEW i \in 1..(k - j) PROVE x[i] = y[i]
    <2>1. j + i \in 1..(b - a) /\ a + (j + i) = a + j + i
      OBVIOUS
    <2> QED BY <2>1, <1>1, <1>2, <1>3
  <1> QED BY <1>2, <1>3, <1>4, SeqEqual DEF w, x, y

LEMMA WindowStays ==
  ASSUME NEW S, NEW s \in Seq(S), NEW t \in Seq(S), NEW a \in Nat, NEW b \in a..Len(s)
  PROVE  SubSeq(s \o t, a + 1, b) = SubSeq(s, a + 1, b)
  <1> DEFINE x == SubSeq(s \o t, a + 1, b)
             y == SubSeq(s, a + 1, b)
  <1>1. /\ s \o t \in Seq(S) /\ Len(s \o t) = Len(s) + Len(t)
        /\ \A i \in 1..Len(s) : (s \o t)[i] = s[i]
    BY ConcatProperties
  <1>2. y \in Seq(S) /\ Len(y) = b - a /\ \A i \in 1..(b - a) : y[i] = s[a + i]
    BY Window
  <1>3. x \in Seq(S) /\ Len(x) = b - a /\ \A i \in 1..(b - a) : x[i] = (s \o t)[a + i]
    BY <1>1, Window
  <1> HIDE DEF x, y
  <1>4. ASSUME NEW i \in 1..(b - a) PROVE x[i] = y[i]
    BY <1>1, <1>2, <1>3
  <1> QED BY <1>2, <1>3, <1>4, SeqEqual DEF x, y

-----------------------------------------------------------------------------
(* The elements of a sequence that are in a set, in order.                 *)

IsFilter(f, s, T) ==
  f = [i \in 0..Len(s) |-> IF i = 0 THEN <<>>
                           ELSE IF s[i] \in T THEN Append(f[i - 1], s[i]) ELSE f[i - 1]]
Filter(s, T) == (CHOOSE f : IsFilter(f, s, T))[Len(s)]

\* g goes through the sequence like the filter.
Filters(g, s, T) ==
  /\ g[0] = <<>>
  /\ \A i \in 1..Len(s) : g[i] = IF s[i] \in T THEN Append(g[i - 1], s[i]) ELSE g[i - 1]

LEMMA IsFilterFilters ==
  ASSUME NEW S, NEW T, NEW s \in Seq(S), NEW f, IsFilter(f, s, T)
  PROVE  Filters(f, s, T)
  <1>1. Len(s) \in Nat
    BY LenProperties
  <1>2. ASSUME NEW i \in 1..Len(s)
        PROVE  f[i] = IF s[i] \in T THEN Append(f[i - 1], s[i]) ELSE f[i - 1]
    <2>1. i \in 0..Len(s) /\ i # 0
      BY <1>1
    <2> QED BY <2>1 DEF IsFilter
  <1>3. f[0] = <<>>
    BY <1>1 DEF IsFilter
  <1> QED BY <1>2, <1>3 DEF Filters

\* f goes through a sequence over S like the filter and ends with what it keeps.
FilterRun(f, S, s, T) ==
  Filters(f, s, T) /\ f \in [0..Len(s) -> Seq(S)] /\ Filter(s, T) = f[Len(s)]

\* The filter is one that goes through the sequence.
LEMMA FilterIsFilter ==
  ASSUME NEW S, NEW T, NEW s \in Seq(S)
  PROVE  \E f : FilterRun(f, S, s, T)
  <1> DEFINE V == Seq(S)
             m == Len(s)
             a == <<>>
             h == [p \in (1..m) \X V |->
                     IF s[p[1]] \in T THEN Append(p[2], s[p[1]]) ELSE p[2]]
  <1>1. m \in Nat /\ a \in V
    BY LenProperties
  <1>2. \A i \in 1..m, x \in V : h[<<i, x>>] \in V
    BY ElementOfSeq, AppendProperties
  <1>3. \A i \in 1..m, x \in V : h[<<i, x>>] = IF s[i] \in T THEN Append(x, s[i]) ELSE x
    OBVIOUS
  <1> HIDE DEF V, a, h, m
  <1>4. PICK f : Recursive(f, V, a, m, h)
    BY <1>1, <1>2, Recursion
  <1>5. f \in [0..m -> V] /\ f[0] = a /\ \A i \in 1..m : f[i] = h[<<i, f[i - 1]>>]
    BY <1>4 DEF Recursive
  <1>6. ASSUME NEW i \in 0..m, i # 0
        PROVE  f[i] = IF s[i] \in T THEN Append(f[i - 1], s[i]) ELSE f[i - 1]
    <2>1. i \in 1..m /\ i - 1 \in 0..m
      BY <1>1, <1>6
    <2>2. f[i - 1] \in V
      BY <2>1, <1>5
    <2> QED BY <2>1, <2>2, <1>3, <1>5
  <1>7. IsFilter(f, s, T)
    <2>1. f = [i \in 0..m |-> IF i = 0 THEN a
                              ELSE IF s[i] \in T THEN Append(f[i - 1], s[i]) ELSE f[i - 1]]
      BY <1>1, <1>5, <1>6
    <2> QED BY <2>1 DEF IsFilter, m, a
  <1>8. PICK g : IsFilter(g, s, T) /\ Filter(s, T) = g[Len(s)]
    BY <1>7 DEF Filter
  <1>9. g = [i \in 0..m |-> IF i = 0 THEN a
                            ELSE IF s[i] \in T THEN Append(g[i - 1], s[i]) ELSE g[i - 1]]
    BY <1>8 DEF IsFilter, m, a
  <1>10. Obeys(g, V, a, m, h)
    <2>1. ASSUME NEW i \in 1..m, g[i - 1] \in V PROVE g[i] = h[<<i, g[i - 1]>>]
      <3>1. i \in 0..m /\ i # 0
        BY <1>1
      <3> QED BY <3>1, <2>1, <1>3, <1>9
    <2>2. g[0] = a
      BY <1>1, <1>9
    <2> QED BY <2>1, <2>2 DEF Obeys
  <1>11. \A i \in 0..m : g[i] = f[i]
    BY <1>1, <1>4, <1>10, RecursionUnique
  <1>12. g \in [0..m -> V]
    BY <1>5, <1>9, <1>11
  <1>13. Filters(g, s, T)
    BY <1>8, IsFilterFilters
  <1>14. FilterRun(g, S, s, T)
    BY <1>8, <1>12, <1>13 DEF m, V, FilterRun
  <1> QED BY <1>14

LEMMA FilterOf ==
  ASSUME NEW S, NEW T, NEW s \in Seq(S), NEW g, Filters(g, s, T)
  PROVE  /\ \A i \in 0..Len(s) : g[i] \in Seq(S)
         /\ g[Len(s)] = Filter(s, T)
  <1> Len(s) \in Nat
    BY LenProperties
  <1>a. PICK f : FilterRun(f, S, s, T)
    BY FilterIsFilter
  <1>1. Filters(f, s, T) /\ f \in [0..Len(s) -> Seq(S)] /\ Filter(s, T) = f[Len(s)]
    BY <1>a DEF FilterRun
  <1> DEFINE M == {n \in Nat : n \in 0..Len(s) => g[n] = f[n]}
  <1>4. 0 \in M
    BY <1>1 DEF Filters
  <1>5. ASSUME NEW n \in Nat, n \in M PROVE n + 1 \in M
    <2> SUFFICES ASSUME n + 1 \in 0..Len(s) PROVE g[n + 1] = f[n + 1]
      OBVIOUS
    <2>1. n \in 0..Len(s) /\ n + 1 \in 1..Len(s) /\ (n + 1) - 1 = n
      OBVIOUS
    <2>2. g[n] = f[n]
      BY <1>5, <2>1
    <2> QED BY <2>1, <2>2, <1>1 DEF Filters
  <1> HIDE DEF M
  <1>6. \A n \in 0..Len(s) : n \in M
    BY <1>4, <1>5, Induction
  <1>7. \A n \in 0..Len(s) : g[n] = f[n]
    BY <1>6 DEF M
  <1> QED BY <1>7, <1>1

\* Filtering two sequences one behind the other.
LEMMA FilterConcat ==
  ASSUME NEW S, NEW T, NEW s \in Seq(S), NEW t \in Seq(S)
  PROVE  /\ Filter(s, T) \in Seq(S) /\ Filter(t, T) \in Seq(S)
         /\ Filter(s \o t, T) = Filter(s, T) \o Filter(t, T)
  <1> DEFINE m == Len(s)
             n == Len(t)
             st == s \o t
  <1>1. /\ m \in Nat /\ n \in Nat /\ st \in Seq(S) /\ Len(st) = m + n
        /\ \A i \in 1..m : st[i] = s[i]
        /\ \A i \in 1..n : st[m + i] = t[i]
    BY LenProperties, ConcatProperties
  <1> HIDE DEF st, m, n
  <1>a. PICK f : FilterRun(f, S, st, T)
    <2>1. st \in Seq(S)
      BY <1>1
    <2> QED BY <2>1, FilterIsFilter
  <1>2. Filters(f, st, T) /\ f \in [0..Len(st) -> Seq(S)] /\ Filter(st, T) = f[Len(st)]
    BY <1>a DEF FilterRun
  <1>b. PICK h : FilterRun(h, S, t, T)
    BY FilterIsFilter
  <1>3. Filters(h, t, T) /\ h \in [0..Len(t) -> Seq(S)] /\ Filter(t, T) = h[Len(t)]
    BY <1>b DEF FilterRun
  <1>4. /\ f[0] = <<>>
        /\ \A i \in 1..(m + n) : f[i] = IF st[i] \in T THEN Append(f[i - 1], st[i]) ELSE f[i - 1]
    BY <1>1, <1>2 DEF Filters
  <1>5. /\ h[0] = <<>>
        /\ \A i \in 1..n : h[i] = IF t[i] \in T THEN Append(h[i - 1], t[i]) ELSE h[i - 1]
    BY <1>3 DEF Filters, n
  <1>6. Filters(f, s, T)
    <2>1. ASSUME NEW i \in 1..m
          PROVE  f[i] = IF s[i] \in T THEN Append(f[i - 1], s[i]) ELSE f[i - 1]
      <3>1. i \in 1..(m + n) /\ st[i] = s[i]
        BY <1>1
      <3> QED BY <3>1, <1>4
    <2> QED BY <2>1, <1>4 DEF Filters, m
  <1>7. f[m] = Filter(s, T) /\ Filter(s, T) \in Seq(S)
    BY <1>1, <1>6, FilterOf DEF m
  <1> DEFINE M == {k \in Nat : k \in 0..n => f[m + k] = f[m] \o h[k]}
  <1>8. 0 \in M
    <2>1. f[m] \o <<>> = f[m]
      BY <1>7, ConcatEmptySeq
    <2>2. m + 0 = m
      BY <1>1
    <2> QED BY <2>1, <2>2, <1>5
  <1>9. ASSUME NEW k \in Nat, k \in M PROVE k + 1 \in M
    <2>a. k + 1 \in Nat
      OBVIOUS
    <2> SUFFICES ASSUME k + 1 \in 0..n PROVE f[m + (k + 1)] = f[m] \o h[k + 1]
      BY <2>a
    <2>1. /\ k \in 0..n /\ k + 1 \in 1..n /\ (k + 1) - 1 = k
          /\ m + (k + 1) \in 1..(m + n) /\ (m + (k + 1)) - 1 = m + k
      BY <1>1
    <2>2. f[m + k] = f[m] \o h[k]
      BY <1>9, <2>1
    <2>3. st[m + (k + 1)] = t[k + 1] /\ t[k + 1] \in S /\ h[k] \in Seq(S)
      BY <1>1, <1>3, <2>1, ElementOfSeq DEF n
    <2>4. f[m + (k + 1)] = IF t[k + 1] \in T THEN Append(f[m] \o h[k], t[k + 1]) ELSE f[m] \o h[k]
      BY <1>4, <2>1, <2>2, <2>3
    <2>5. h[k + 1] = IF t[k + 1] \in T THEN Append(h[k], t[k + 1]) ELSE h[k]
      BY <1>5, <2>1
    <2>6. Append(f[m] \o h[k], t[k + 1]) = f[m] \o Append(h[k], t[k + 1])
      <3> DEFINE a == f[m]
                 b == h[k]
                 c == <<t[k + 1]>>
      <3>1. a \in Seq(S) /\ b \in Seq(S) /\ c \in Seq(S) /\ a \o b \in Seq(S)
        BY <1>7, <2>3, ConcatProperties
      <3>2. Append(a \o b, t[k + 1]) = (a \o b) \o c /\ Append(b, t[k + 1]) = b \o c
        BY <3>1, <2>3, AppendIsConcat
      <3> HIDE DEF a, b, c
      <3>3. (a \o b) \o c = a \o (b \o c)
        <4>1. a \in Seq(S) /\ b \in Seq(S) /\ c \in Seq(S)
          BY <3>1
        <4> QED BY ONLY <4>1, ConcatAssociative, SMTT(60)
      <3> QED BY <3>2, <3>3 DEF a, b, c
    <2> QED BY <2>4, <2>5, <2>6
  <1> HIDE DEF M
  <1>10. n \in M
    BY <1>1, <1>8, <1>9, Induction
  <1>11. f[m + n] = f[m] \o h[n]
    <2>1. n \in 0..n
      BY <1>1
    <2> QED BY <2>1, <1>10 DEF M
  <1>12. Filter(t, T) = h[n] /\ h[n] \in Seq(S)
    <2>1. h \in [0..n -> Seq(S)] /\ Filter(t, T) = h[n]
      BY <1>3 DEF n
    <2>2. n \in 0..n
      BY <1>1
    <2> QED BY <2>1, <2>2
  <1> QED BY <1>1, <1>2, <1>7, <1>11, <1>12 DEF st

\* None of the elements, or all of them.
LEMMA FilterNone ==
  ASSUME NEW S, NEW T, NEW s \in Seq(S), \A i \in 1..Len(s) : s[i] \notin T
  PROVE  Filter(s, T) = <<>>
  <1> DEFINE g == [i \in 0..Len(s) |-> <<>>]
  <1>1. Filters(g, s, T)
    BY LenProperties DEF Filters
  <1>2. g[Len(s)] = <<>>
    BY LenProperties
  <1> HIDE DEF g
  <1> QED BY <1>1, <1>2, FilterOf

LEMMA FilterAll ==
  ASSUME NEW S, NEW T, NEW s \in Seq(S), \A i \in 1..Len(s) : s[i] \in T
  PROVE  Filter(s, T) = s
  <1> DEFINE g == [i \in 0..Len(s) |-> SubSeq(s, 1, i)]
  <1>1. Filters(g, s, T)
    <2> Len(s) \in Nat
      BY LenProperties
    <2>1. ASSUME NEW i \in 1..Len(s) PROVE g[i] = Append(g[i - 1], s[i])
      <3>1. i \in 0..Len(s) /\ i - 1 \in 0..Len(s) /\ 1 \in 1..Len(s) /\ i \in 1..Len(s)
        BY LenProperties
      <3>2. SubSeq(s, 1, i) = SubSeq(s, 1, i - 1) \o <<s[i]>>
        BY <3>1, SubSeqRecursiveSecond
      <3>3. SubSeq(s, 1, i - 1) \in Seq(S) /\ s[i] \in S
        BY <3>1, ElementOfSeq, SubSeqProperties
      <3>4. SubSeq(s, 1, i) = Append(SubSeq(s, 1, i - 1), s[i])
        BY <3>2, <3>3, AppendIsConcat
      <3> QED BY <3>1, <3>4
    <2>2. g[0] = <<>>
      BY LenProperties, SubSeqEmpty
    <2> HIDE DEF g
    <2> QED BY <2>1, <2>2 DEF Filters
  <1>2. g[Len(s)] = s
    BY LenProperties, SubSeqFull
  <1> HIDE DEF g
  <1> QED BY <1>1, <1>2, FilterOf

\* The filter only looks at the elements there are.
LEMMA FilterSame ==
  ASSUME NEW S, NEW T, NEW U, NEW s \in Seq(S), \A i \in 1..Len(s) : s[i] \in T <=> s[i] \in U
  PROVE  Filter(s, T) = Filter(s, U)
  <1>a. PICK f : FilterRun(f, S, s, T)
    BY FilterIsFilter
  <1>1. Filters(f, s, T) /\ f \in [0..Len(s) -> Seq(S)] /\ Filter(s, T) = f[Len(s)]
    BY <1>a DEF FilterRun
  <1>2. Filters(f, s, U)
    BY <1>1 DEF Filters
  <1> QED BY <1>1, <1>2, FilterOf

NoneBetween(s, a, b, T) == \A i \in (a + 1)..(b - 1) : s[i] \notin T

\* What the filter adds when it goes on to the next element that may pass.
LEMMA FilterNext ==
  ASSUME NEW S, NEW T, NEW s \in Seq(S), NEW a \in Nat, NEW b \in (a + 1)..Len(s),
         NoneBetween(s, a, b, T)
  PROVE  Filter(SubSeq(s, 1, b), T) = IF s[b] \in T THEN Filter(SubSeq(s, 1, a), T) \o <<s[b]>>
                                      ELSE Filter(SubSeq(s, 1, a), T)
  <1>1. Len(s) \in Nat /\ b \in Nat /\ b - 1 \in a..Len(s) /\ b \in (b - 1)..Len(s)
        /\ a \in 0..Len(s) /\ 0 \in Nat /\ b - 1 \in 0..Len(s) /\ b \in 0..Len(s)
    BY LenProperties
  <1>2. PICK x, y, z, e : /\ x = SubSeq(s, 0 + 1, a) /\ y = SubSeq(s, a + 1, b - 1)
                          /\ z = SubSeq(s, (b - 1) + 1, b) /\ e = s[b]
    OBVIOUS
  <1>3. x \in Seq(S) /\ y \in Seq(S) /\ z \in Seq(S) /\ e \in S
    <2>1. x \in Seq(S)
      BY <1>1, <1>2, Window
    <2>2. y \in Seq(S)
      BY <1>1, <1>2, Window
    <2>3. z \in Seq(S)
      BY <1>1, <1>2, Window
    <2>4. e \in S
      BY <1>1, <1>2, ElementOfSeq
    <2> QED BY <2>1, <2>2, <2>3, <2>4
  <1>4. Filter(y, T) = <<>>
    <2>1. Len(y) = (b - 1) - a /\ \A i \in 1..((b - 1) - a) : y[i] = s[a + i]
      BY <1>1, <1>2, Window
    <2>2. \A i \in 1..Len(y) : y[i] \notin T
      <3> SUFFICES ASSUME NEW i \in 1..Len(y) PROVE y[i] \notin T
        OBVIOUS
      <3>1. y[i] = s[a + i] /\ a + i \in (a + 1)..(b - 1)
        BY <1>1, <2>1
      <3> QED BY <3>1 DEF NoneBetween
    <2> QED BY <1>3, <2>2, FilterNone
  <1>5. z = <<e>>
    <2>1. Len(z) = b - (b - 1) /\ \A i \in 1..(b - (b - 1)) : z[i] = s[(b - 1) + i]
      BY <1>1, <1>2, Window
    <2>2. b - (b - 1) = 1 /\ (b - 1) + 1 = b
      BY <1>1
    <2>3. Len(z) = 1 /\ \A i \in 1..1 : z[i] = s[(b - 1) + i]
      BY <2>1, <2>2
    <2>4. z[1] = s[(b - 1) + 1]
      BY <2>3
    <2>5. z[1] = e
      BY <1>2, <2>2, <2>4
    <2> QED BY <1>3, <2>3, <2>5
  <1>6. Filter(z, T) = IF e \in T THEN <<e>> ELSE <<>>
    <2>1. Len(z) = 1 /\ z[1] = e
      BY <1>5
    <2>2. CASE e \in T
      <3>1. \A i \in 1..Len(z) : z[i] \in T
        BY <2>1, <2>2
      <3> QED BY <2>2, <3>1, <1>3, <1>5, FilterAll
    <2>3. CASE e \notin T
      <3>1. \A i \in 1..Len(z) : z[i] \notin T
        BY <2>1, <2>3
      <3> QED BY <2>3, <3>1, <1>3, FilterNone
    <2> QED BY <2>2, <2>3
  <1>7. x \o y = SubSeq(s, 0 + 1, b - 1)
    BY <1>1, <1>2, WindowGrows
  <1>8. (x \o y) \o z = SubSeq(s, 0 + 1, b)
    <2>1. SubSeq(s, 0 + 1, b - 1) \o SubSeq(s, (b - 1) + 1, b) = SubSeq(s, 0 + 1, b)
      BY <1>1, WindowGrows
    <2> QED BY <1>2, <1>7, <2>1
  <1>9. /\ Filter(x, T) \in Seq(S)
        /\ Filter((x \o y) \o z, T) = (Filter(x, T) \o Filter(y, T)) \o Filter(z, T)
    <2>1. x \o y \in Seq(S)
      BY <1>3, ConcatProperties
    <2>2. Filter(x, T) \in Seq(S) /\ Filter(x \o y, T) = Filter(x, T) \o Filter(y, T)
      BY ONLY <1>3, FilterConcat, SMTT(60)
    <2>3. PICK u \in Seq(S) : u = x \o y
      BY <2>1
    <2>4. Filter(u \o z, T) = Filter(u, T) \o Filter(z, T)
      <3>1. u \in Seq(S) /\ z \in Seq(S)
        BY <1>3, <2>3
      <3> QED BY ONLY <3>1, FilterConcat, SMTT(60)
    <2> QED BY <2>2, <2>3, <2>4
  <1>10. \A t \in Seq(S) : t \o <<>> = t
    BY ConcatEmptySeq
  <1>11. SubSeq(s, 1, b) = (x \o y) \o z /\ SubSeq(s, 1, a) = x
    <2>1. SubSeq(s, 0 + 1, a) = SubSeq(s, 1, a) /\ SubSeq(s, 0 + 1, b) = SubSeq(s, 1, b)
      BY ONLY 0 + 1 = 1
    <2> QED BY ONLY <1>2, <1>8, <2>1, Zenon
  <1>12. Filter((x \o y) \o z, T) = Filter(x, T) \o Filter(z, T)
    BY <1>4, <1>9, <1>10
  <1>13. Filter(x, T) \o <<>> = Filter(x, T)
    BY <1>9, <1>10
  <1> QED BY <1>2, <1>6, <1>11, <1>12, <1>13
=============================================================================
