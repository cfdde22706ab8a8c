---------------------------- MODULE RelayProofs ----------------------------
(***************************************************************************)
(* The conversation one connection relays: until a line is too long for   *)
(* the buffer or a send to the origin is cut short, the commands reach the *)
(* origin whole and in order, its replies reach the client whole and in    *)
(* order, and each is taken for the reply to the command it answers.  That *)
(* no buffer is overrun and every variable keeps its type holds whatever   *)
(* is cut off.                                                             *)
(***************************************************************************)
EXTENDS SessionProofs

-----------------------------------------------------------------------------
(* The lines of a list of requests.                                        *)

UnitsOf(T) == {u \in LineUnits : u.id \in T}

LEMMA LineIs ==
  ASSUME WrittenIsSent, NEW r \in 0..Len(sent)
  PROVE  /\ Line(r) \in Seq(UnitsOf({r})) /\ Len(Line(r)) = Size(r) /\ Size(r) \in Nat \ {0}
         /\ \A i \in 1..Size(r) : Line(r)[i] = [id |-> r, part |-> "line", nth |-> i]
  <1>1. Size(r) \in Nat \ {0}
    <2>1. CASE r = Capa
      BY <2>1 DEF Size
    <2>2. CASE r # Capa
      <3>1. r \in 1..Len(sent) /\ sent \in Seq(Command)
        BY <2>2, LenProperties DEF Capa, WrittenIsSent
      <3>2. sent[r] \in Command
        BY <3>1, ElementOfSeq
      <3>3. sent[r].size \in Nat \ {0}
        BY <3>2, SessionAssumption DEF Command
      <3> QED BY <2>2, <3>3 DEF Size
    <2> QED BY <2>1, <2>2
  <1>2. \A i \in Nat \ {0} : [id |-> r, part |-> "line", nth |-> i] \in UnitsOf({r})
    <2>1. Len(sent) \in Nat /\ Len(sent) <= MaxCommands /\ MaxCommands \in Nat
      BY LenProperties, SessionAssumption DEF WrittenIsSent
    <2>2. r \in Ids \ {Banner}
      BY <2>1 DEF Ids, Banner, Capa
    <2> QED BY <2>2 DEF UnitsOf, LineUnits
  <1>3. Line(r) = [k \in 1..Size(r) |-> [id |-> r, part |-> "line", nth |-> k]]
    BY DEF Line, LineUnitsOf
  <1> DEFINE n == Size(r)
             l == [k \in 1..n |-> [id |-> r, part |-> "line", nth |-> k]]
  <1>4. l \in Seq(UnitsOf({r})) /\ Len(l) = n /\ \A i \in 1..n : l[i] = [id |-> r, part |-> "line", nth |-> i]
    <2>1. n \in Nat \ {0}
      BY <1>1
    <2> HIDE DEF n
    <2>2. n \in Nat /\ \A i \in 1..n : [id |-> r, part |-> "line", nth |-> i] \in UnitsOf({r})
      <3> SUFFICES ASSUME NEW i \in 1..n PROVE [id |-> r, part |-> "line", nth |-> i] \in UnitsOf({r})
        BY <2>1
      <3>1. i \in Nat \ {0}
        BY <2>1
      <3> QED BY <3>1, <1>2
    <2>3. l \in Seq(UnitsOf({r}))
      <3>1. PICK S : S = UnitsOf({r})
        OBVIOUS
      <3>2. n \in Nat /\ \A i \in 1..n : [id |-> r, part |-> "line", nth |-> i] \in S
        BY <2>2, <3>1
      <3>3. [k \in 1..n |-> [id |-> r, part |-> "line", nth |-> k]] \in Seq(S)
        BY ONLY <3>2
      <3> QED BY <3>1, <3>3
    <2>4. Len(l) = n
      BY <2>2
    <2> QED BY <2>3, <2>4
  <1> QED BY <1>1, <1>3, <1>4

\* Goes through the list line by line.
Lines(f, s) ==
  f[0] = <<>> /\ \A i \in 1..Len(s) : f[i] = f[i - 1] \o Line(s[i])

LEMMA LineOf ==
  ASSUME WrittenIsSent, NEW T \in SUBSET (0..Len(sent)), NEW r \in T
  PROVE  Line(r) \in Seq(UnitsOf(T))
  <1>1. Line(r) \in Seq(UnitsOf({r}))
    BY LineIs
  <1>2. UnitsOf({r}) \subseteq UnitsOf(T)
    BY DEF UnitsOf
  <1> QED BY <1>1, <1>2, SeqMonotonic

LEMMA LinesOfIs ==
  ASSUME WrittenIsSent, NEW T \in SUBSET (0..Len(sent)), NEW s \in Seq(T)
  PROVE  \E f : Lines(f, s) /\ f \in [0..Len(s) -> Seq(UnitsOf(T))] /\ LinesOf(s) = f[Len(s)]
  <1> DEFINE V == Seq(UnitsOf(T))
             m == Len(s)
             a == <<>>
             h == [p \in (1..m) \X V |-> p[2] \o Line(s[p[1]])]
             Is(f) == f = [n \in 0..Len(s) |-> IF n = 0 THEN <<>> ELSE f[n - 1] \o Line(s[n])]
  <1>1. m \in Nat /\ a \in V
    BY LenProperties, EmptySeq
  <1>2. \A i \in 1..m : Line(s[i]) \in V
    BY ElementOfSeq, LineOf
  <1>3. \A i \in 1..m, x \in V : h[<<i, x>>] = x \o Line(s[i])
    OBVIOUS
  <1> HIDE DEF h, a, m
  <1>4. \A i \in 1..m, x \in V : h[<<i, x>>] \in V
    BY <1>2, <1>3, ConcatProperties
  <1> HIDE DEF V
  <1>5. PICK f : Recursive(f, V, a, m, h)
    BY <1>1, <1>4, Recursion
  <1>6. f \in [0..m -> V] /\ f[0] = a /\ \A i \in 1..m : f[i] = h[<<i, f[i - 1]>>]
    BY <1>5 DEF Recursive
  <1>7. ASSUME NEW i \in 0..m, i # 0 PROVE f[i] = f[i - 1] \o Line(s[i])
    <2>1. i \in 1..m /\ i - 1 \in 0..m
      BY <1>1, <1>7
    <2>2. f[i - 1] \in V
      BY <2>1, <1>6
    <2> QED BY <2>1, <2>2, <1>3, <1>6
  <1>8. Is(f)
    <2>1. f = [n \in 0..m |-> IF n = 0 THEN a ELSE f[n - 1] \o Line(s[n])]
      BY <1>1, <1>6, <1>7
    <2> QED BY <2>1 DEF a, m
  <1>9. PICK g : Is(g) /\ LinesOf(s) = g[Len(s)]
    <2>1. LinesOf(s) = (CHOOSE g : Is(g))[Len(s)]
      BY DEF LinesOf
    <2> HIDE DEF Is
    <2> QED BY <2>1, <1>8
  <1>10. g = [n \in 0..m |-> IF n = 0 THEN a ELSE g[n - 1] \o Line(s[n])]
    BY <1>9 DEF a, m
  <1>11. Obeys(g, V, a, m, h)
    <2>1. ASSUME NEW i \in 1..m, g[i - 1] \in V PROVE g[i] = h[<<i, g[i - 1]>>]
      <3>1. i \in 0..m /\ i # 0
        BY <1>1
      <3> QED BY <3>1, <2>1, <1>3, <1>10
    <2>2. g[0] = a
      BY <1>1, <1>10
    <2> QED BY <2>1, <2>2 DEF Obeys
  <1>12. \A i \in 0..m : g[i] = f[i]
    BY <1>1, <1>5, <1>11, RecursionUnique
  <1>13. g \in [0..m -> V]
    BY <1>6, <1>10, <1>12
  <1>14. Lines(g, s)
    <2>1. ASSUME NEW i \in 1..m PROVE g[i] = g[i - 1] \o Line(s[i])
      <3>1. i \in 0..m /\ i # 0
        BY <1>1
      <3> QED BY <3>1, <1>10
    <2>2. g[0] = <<>>
      BY <1>1, <1>10 DEF a
    <2> QED BY <2>1, <2>2 DEF Lines, m
  <1> QED BY <1>9, <1>13, <1>14 DEF m, V

LEMMA LinesOfIt ==
  ASSUME WrittenIsSent, NEW T \in SUBSET (0..Len(sent)), NEW s \in Seq(T), NEW g, Lines(g, s)
  PROVE  /\ \A i \in 0..Len(s) : g[i] \in Seq(UnitsOf(T))
         /\ g[Len(s)] = LinesOf(s)
  <1> Len(s) \in Nat
    BY LenProperties
  <1>1. PICK f : Lines(f, s) /\ f \in [0..Len(s) -> Seq(UnitsOf(T))] /\ LinesOf(s) = f[Len(s)]
    BY LinesOfIs
  <1> DEFINE M == {n \in Nat : n \in 0..Len(s) => g[n] = f[n]}
  <1>2. 0 \in M
    BY <1>1 DEF Lines
  <1>3. ASSUME NEW n \in Nat, n \in M PROVE n + 1 \in M
    <2> SUFFICES ASSUME n + 1 \in 0..Len(s) PROVE g[n + 1] = f[n + 1]
      OBVIOUS
    <2>1. n + 1 \in 1..Len(s) /\ (n + 1) - 1 = n /\ n \in 0..Len(s)
      OBVIOUS
    <2>2. g[n + 1] = g[(n + 1) - 1] \o Line(s[n + 1]) /\ f[n + 1] = f[(n + 1) - 1] \o Line(s[n + 1])
      BY <2>1, <1>1 DEF Lines
    <2> QED BY <2>1, <2>2, <1>3
  <1> HIDE DEF M
  <1>4. Nat \subseteq M
    BY <1>2, <1>3, Induction
  <1>5. \A n \in 0..Len(s) : g[n] = f[n]
    BY <1>4 DEF M
  <1> QED BY <1>1, <1>5

LEMMA LinesOfConcat ==
  ASSUME WrittenIsSent, NEW T \in SUBSET (0..Len(sent)), NEW s \in Seq(T), NEW t \in Seq(T)
  PROVE  /\ LinesOf(s) \in Seq(UnitsOf(T)) /\ LinesOf(t) \in Seq(UnitsOf(T))
         /\ LinesOf(s \o t) = LinesOf(s) \o LinesOf(t)
  <1> DEFINE V == Seq(UnitsOf(T))
             m == Len(s)
             n == Len(t)
             st == s \o t
  <1>1. /\ m \in Nat /\ n \in Nat /\ st \in Seq(T) /\ Len(st) = m + n
        /\ \A i \in 1..m : st[i] = s[i]
        /\ \A i \in 1..n : st[m + i] = t[i]
    <2>1. m \in Nat /\ n \in Nat /\ st \in Seq(T) /\ Len(st) = m + n
          /\ \A i \in 1..(m + n) : st[i] = IF i <= m THEN s[i] ELSE t[i - m]
      BY LenProperties, ConcatProperties
    <2> HIDE DEF m, n, st
    <2>2. ASSUME NEW i \in 1..n PROVE st[m + i] = t[i]
      <3>1. m + i \in 1..(m + n) /\ ~(m + i <= m) /\ (m + i) - m = i
        BY <2>1
      <3> QED BY <3>1, <2>1
    <2> QED BY <2>1, <2>2
  <1>2. PICK f : Lines(f, s) /\ f \in [0..m -> V] /\ LinesOf(s) = f[m]
    BY LinesOfIs
  <1>3. PICK g : Lines(g, t) /\ g \in [0..n -> V] /\ LinesOf(t) = g[n]
    BY LinesOfIs
  <1>4. \A i \in 1..n : Line(t[i]) \in V
    BY ElementOfSeq, LineOf
  <1> DEFINE e == [i \in 0..(m + n) |-> IF i <= m THEN f[i] ELSE f[m] \o g[i - m]]
  <1> HIDE DEF V, m, n, st
  <1>5. ASSUME NEW i \in 1..(m + n) PROVE e[i] = e[i - 1] \o Line(st[i])
    <2>0. i \in 0..(m + n) /\ i - 1 \in 0..(m + n)
      BY <1>1
    <2>1. CASE i <= m
      <3>1. i \in 1..m /\ i - 1 <= m
        BY <2>1, <1>1
      <3>2. f[i] = f[i - 1] \o Line(s[i])
        BY <3>1, <1>2 DEF Lines, m
      <3> QED BY <2>0, <2>1, <3>1, <3>2, <1>1
    <2>2. CASE i > m
      <3>1. i - m \in 1..n /\ m + (i - m) = i /\ ~(i <= m)
        BY <2>2, <1>1
      <3>2. g[i - m] = g[(i - m) - 1] \o Line(t[i - m]) /\ st[i] = t[i - m]
        <4>1. st[m + (i - m)] = t[i - m]
          BY <1>1, <3>1
        <4>2. g[i - m] = g[(i - m) - 1] \o Line(t[i - m])
          BY <1>3, <3>1 DEF Lines, n
        <4> QED BY <3>1, <4>1, <4>2
      <3>3. e[i - 1] = f[m] \o g[(i - m) - 1]
        <4>1. CASE i - 1 <= m
          <5>1. i - 1 = m /\ (i - m) - 1 = 0
            BY <4>1, <2>2, <1>1
          <5>2. g[0] = <<>> /\ f[m] \in V
            BY <1>1, <1>2, <1>3 DEF Lines
          <5>3. f[m] \o <<>> = f[m]
            BY <5>2, ConcatEmptySeq DEF V
          <5>4. e[m] = f[m]
            <6>1. m \in 0..(m + n) /\ m <= m
              BY <1>1
            <6> QED BY <6>1
          <5> QED BY ONLY <5>1, <5>2, <5>3, <5>4
        <4>2. CASE ~(i - 1 <= m)
          <5>1. (i - 1) - m = (i - m) - 1
            BY <1>1
          <5> QED BY <2>0, <4>2, <5>1
        <4> QED BY <4>1, <4>2
      <3>4. e[i] = f[m] \o g[i - m]
        BY <2>0, <3>1
      <3>5. /\ f[m] \in V /\ g[(i - m) - 1] \in V /\ Line(t[i - m]) \in V
        <4>1. (i - m) - 1 \in 0..n /\ m \in 0..m
          BY <1>1, <3>1
        <4> QED BY <4>1, <3>1, <1>2, <1>3, <1>4
      <3>6. f[m] \o (g[(i - m) - 1] \o Line(t[i - m])) = (f[m] \o g[(i - m) - 1]) \o Line(t[i - m])
        <4>1. PICK x \in V, y \in V, z \in V : x = f[m] /\ y = g[(i - m) - 1] /\ z = Line(t[i - m])
          BY <3>5
        <4>2. x \o (y \o z) = (x \o y) \o z
          <5>1. x \in Seq(UnitsOf(T)) /\ y \in Seq(UnitsOf(T)) /\ z \in Seq(UnitsOf(T))
            BY DEF V
          <5> QED BY ONLY <5>1, ConcatAssociative, SMTT(30)
        <4> QED BY <4>1, <4>2
      <3> QED BY <3>2, <3>3, <3>4, <3>6
    <2>3. i <= m \/ i > m
      BY <1>1
    <2> QED BY ONLY <2>1, <2>2, <2>3
  <1>6. e[0] = <<>> /\ e[m + n] = f[m] \o g[n]
    <2>1. e[0] = <<>>
      <3>1. 0 \in 0..(m + n) /\ 0 <= m
        BY <1>1
      <3> QED BY <3>1, <1>2 DEF Lines
    <2>2. CASE n = 0
      <3>1. m + n = m /\ g[n] = <<>> /\ f[m] \in V /\ m \in 0..(m + n)
        BY <2>2, <1>1, <1>2, <1>3 DEF Lines
      <3>2. f[m] \o <<>> = f[m]
        BY <3>1, ConcatEmptySeq DEF V
      <3> QED BY <2>1, <3>1, <3>2, <1>1
    <2>3. CASE n # 0
      <3>1. ~(m + n <= m) /\ (m + n) - m = n /\ m + n \in 0..(m + n)
        BY <2>3, <1>1
      <3> QED BY <2>1, <3>1
    <2> QED BY <2>2, <2>3
  <1> HIDE DEF e
  <1>7. Lines(e, st)
    BY <1>1, <1>5, <1>6 DEF Lines
  <1>8. e[Len(st)] = LinesOf(st)
    BY <1>1, <1>7, LinesOfIt
  <1>9. f[m] \in V /\ g[n] \in V
    BY <1>1, <1>2, <1>3
  <1> QED BY <1>1, <1>2, <1>3, <1>6, <1>8, <1>9 DEF st, V

LEMMA LinesOfFew ==
  ASSUME WrittenIsSent
  PROVE  LinesOf(<<>>) = <<>> /\ \A r \in 0..Len(sent) : LinesOf(<<r>>) = Line(r)
  <1>1. LinesOf(<<>>) = <<>>
    <2>1. <<>> \in Seq(0..Len(sent)) /\ Len(<<>>) = 0
      BY EmptySeq
    <2>2. PICK f : Lines(f, <<>>) /\ LinesOf(<<>>) = f[0]
      BY <2>1, LinesOfIs
    <2> QED BY <2>2 DEF Lines
  <1>2. ASSUME NEW r \in 0..Len(sent) PROVE LinesOf(<<r>>) = Line(r)
    <2>1. PICK s : s = <<r>>
      OBVIOUS
    <2>2. s \in Seq(0..Len(sent)) /\ Len(s) = 1 /\ s[1] = r
      BY <2>1
    <2>3. PICK f : Lines(f, s) /\ LinesOf(s) = f[1]
      BY <2>2, LinesOfIs
    <2>4. 1 \in 1..Len(s) /\ 1 - 1 = 0
      BY <2>2
    <2>5. f[0] = <<>> /\ f[1] = f[0] \o Line(r)
      BY <2>2, <2>3, <2>4 DEF Lines
    <2>6. Line(r) \in Seq(UnitsOf({r}))
      BY LineIs
    <2>7. <<>> \o Line(r) = Line(r)
      BY <2>6, ConcatEmptySeq
    <2> QED BY <2>1, <2>3, <2>5, <2>7
  <1> QED BY <1>1, <1>2

-----------------------------------------------------------------------------
(* What the origin is to be sent: the lines of the chain, in order.        *)

UpTo(n) == LinesOf(SubSeq(Chain, 1, n))

\* The chain has each request once, in the order of the client.
LEMMA ChainRises ==
  ASSUME ClientInv
  PROVE  /\ Chain \in Seq(0..Len(sent)) /\ Len(Chain) \in 1..(MaxCommands + 1) /\ Len(sent) \in Nat
         /\ Chain[1] = Capa
         /\ \A i \in 1..Len(Chain) : Chain[i] \in 0..Len(sent)
         /\ \A i, j \in 1..Len(Chain) : i < j => Chain[i] < Chain[j]
  <1>1. PICK C, A, a : C = Chain /\ A = Accepted /\ a = Len(Accepted)
    OBVIOUS
  <1>2. /\ A \in Seq(1..Len(sent)) /\ a \in Nat /\ Len(sent) \in Nat /\ Len(sent) <= MaxCommands
        /\ \A i \in 1..a : A[i] \in 1..Len(sent) /\ i <= A[i]
        /\ \A i, j \in 1..a : i < j => A[i] < A[j]
    <2>1. A \in Seq(1..Len(sent)) /\ a \in Nat /\ Len(sent) \in Nat /\ Len(sent) <= MaxCommands
      BY <1>1, LenProperties DEF ClientInv, AcceptedInOrder, WrittenIsSent
    <2>2. \A i \in 1..a : A[i] \in 1..Len(sent)
      BY <1>1, <2>1, ElementOfSeq
    <2> QED BY <1>1, <2>1, <2>2 DEF ClientInv, AcceptedInOrder
  <1>3. /\ C \in Seq(Nat) /\ Len(C) = a + 1 /\ C[1] = Capa
        /\ \A i \in 1..a : C[i + 1] = A[i]
    BY <1>1, ChainIs DEF ClientInv
  <1>4. \A i \in 1..(a + 1) : (i = 1 /\ C[i] = 0) \/ (i - 1 \in 1..a /\ C[i] = A[i - 1])
    <2> SUFFICES ASSUME NEW i \in 1..(a + 1)
                 PROVE  (i = 1 /\ C[i] = 0) \/ (i - 1 \in 1..a /\ C[i] = A[i - 1])
      OBVIOUS
    <2>1. CASE i = 1
      BY <2>1, <1>3 DEF Capa
    <2>2. CASE i # 1
      <3>1. i - 1 \in 1..a /\ (i - 1) + 1 = i
        BY <2>2, <1>2
      <3>2. C[(i - 1) + 1] = A[i - 1]
        BY <3>1, <1>3
      <3> QED BY <3>1, <3>2
    <2> QED BY <2>1, <2>2
  <1>5. \A i \in 1..(a + 1) : C[i] \in 0..Len(sent)
    <2> SUFFICES ASSUME NEW i \in 1..(a + 1) PROVE C[i] \in 0..Len(sent)
      OBVIOUS
    <2>1. CASE i = 1 /\ C[i] = 0
      BY <2>1, <1>2
    <2>2. CASE i - 1 \in 1..a /\ C[i] = A[i - 1]
      <3>1. A[i - 1] \in 1..Len(sent)
        BY <2>2, <1>2
      <3> QED BY <2>2, <3>1
    <2> QED BY <2>1, <2>2, <1>4
  <1>6. ASSUME NEW i \in 1..(a + 1), NEW j \in 1..(a + 1), i < j PROVE C[i] < C[j]
    <2>1. j - 1 \in 1..a /\ C[j] = A[j - 1] /\ A[j - 1] \in 1..Len(sent)
      <3>1. j # 1
        BY <1>6
      <3>2. j - 1 \in 1..a /\ C[j] = A[j - 1]
        BY <3>1, <1>4
      <3> QED BY <3>2, <1>2
    <2>2. CASE i = 1 /\ C[i] = 0
      BY <2>1, <2>2
    <2>3. CASE i - 1 \in 1..a /\ C[i] = A[i - 1]
      <3>1. i - 1 < j - 1
        BY <1>6
      <3>2. A[i - 1] < A[j - 1]
        BY <2>1, <2>3, <3>1, <1>2
      <3> QED BY <2>1, <2>3, <3>2
    <2> QED BY <2>2, <2>3, <1>4
  <1>7. a <= Len(sent)
    <2>1. CASE a = 0
      BY <2>1, <1>2
    <2>2. CASE a # 0
      <3>1. a \in 1..a
        BY <2>2, <1>2
      <3>2. A[a] \in 1..Len(sent) /\ a <= A[a]
        BY <3>1, <1>2
      <3> QED BY <3>2, <1>2
    <2> QED BY <2>1, <2>2
  <1>8. C \in Seq(0..Len(sent)) /\ a + 1 \in 1..(MaxCommands + 1)
    <2>1. a + 1 \in 1..(MaxCommands + 1)
      BY <1>2, <1>7, SessionAssumption
    <2>2. \A i \in 1..Len(C) : C[i] \in 0..Len(sent)
      BY <1>3, <1>5
    <2>3. C \in Seq(0..Len(sent))
      BY ONLY <1>3, <2>2, SeqDef
    <2> QED BY <2>1, <2>3
  <1> QED BY <1>1, <1>2, <1>3, <1>5, <1>6, <1>8

LEMMA UpToGrows ==
  ASSUME ClientInv
  PROVE  /\ UpTo(0) = <<>>
         /\ \A b \in 0..Len(Chain) : UpTo(b) \in Seq(LineUnits)
         /\ \A a \in 0..Len(Chain) : \A b \in a..Len(Chain) :
              UpTo(b) = UpTo(a) \o LinesOf(SubSeq(Chain, a + 1, b))
         /\ \A b \in 0..(Len(Chain) - 1) : UpTo(b + 1) = UpTo(b) \o Line(Chain[b + 1])
  <1>1. PICK C, T, n : C = Chain /\ T = 0..Len(sent) /\ n = Len(Chain)
    OBVIOUS
  <1>2. C \in Seq(T) /\ n = Len(C) /\ n \in Nat /\ T \in SUBSET (0..Len(sent)) /\ WrittenIsSent
        /\ \A i \in 1..n : C[i] \in 0..Len(sent)
    BY <1>1, ChainRises DEF ClientInv
  <1>3. \A a \in 0..n : \A b \in a..n : SubSeq(C, a + 1, b) \in Seq(T)
    BY <1>2, Window
  <1>4. ASSUME NEW a \in 0..n, NEW b \in a..n
        PROVE  /\ LinesOf(SubSeq(C, a + 1, b)) \in Seq(UnitsOf(T))
               /\ LinesOf(SubSeq(C, 1, b)) = LinesOf(SubSeq(C, 1, a)) \o LinesOf(SubSeq(C, a + 1, b))
    <2>1. 0 \in Nat /\ a \in 0..Len(C) /\ b \in a..Len(C) /\ 0 + 1 = 1 /\ 0 \in 0..n /\ b \in 0..n /\ a \in a..n
      BY <1>2
    <2>2. SubSeq(C, 0 + 1, a) \o SubSeq(C, a + 1, b) = SubSeq(C, 0 + 1, b)
      BY ONLY <1>2, <2>1, WindowGrows
    <2>3. PICK x \in Seq(T), y \in Seq(T) : x = SubSeq(C, 1, a) /\ y = SubSeq(C, a + 1, b)
      <3>1. SubSeq(C, 0 + 1, a) \in Seq(T)
        BY <2>1, <1>3
      <3>2. SubSeq(C, a + 1, b) \in Seq(T)
        BY <2>1, <1>3
      <3> QED BY <3>1, <3>2, <2>1
    <2>4. LinesOf(y) \in Seq(UnitsOf(T)) /\ LinesOf(x \o y) = LinesOf(x) \o LinesOf(y)
      BY <1>2, LinesOfConcat
    <2> QED BY <2>1, <2>2, <2>3, <2>4
  <1>5. UpTo(0) = <<>>
    <2>1. SubSeq(C, 1, 0) = <<>>
      BY <1>2
    <2> QED BY <2>1, <1>1, <1>2, LinesOfFew DEF UpTo
  <1>6. ASSUME NEW b \in 0..n PROVE UpTo(b) \in Seq(LineUnits)
    <2>1. 0 \in 0..n /\ b \in 0..n /\ 0 + 1 = 1
      BY <1>2
    <2>2. LinesOf(SubSeq(C, 0 + 1, b)) \in Seq(UnitsOf(T))
      BY <2>1, <1>4
    <2>3. UnitsOf(T) \subseteq LineUnits
      BY DEF UnitsOf
    <2>4. LinesOf(SubSeq(C, 0 + 1, b)) \in Seq(LineUnits)
      BY <2>2, <2>3, SeqMonotonic
    <2> QED BY <2>1, <2>4, <1>1 DEF UpTo
  <1>7. ASSUME NEW a \in 0..n, NEW b \in a..n
        PROVE  UpTo(b) = UpTo(a) \o LinesOf(SubSeq(C, a + 1, b))
    BY <1>1, <1>4 DEF UpTo
  <1>8. ASSUME NEW b \in 0..(n - 1) PROVE UpTo(b + 1) = UpTo(b) \o Line(C[b + 1])
    <2>1. b \in 0..n /\ b + 1 \in b..n /\ b + 1 \in 1..n
      BY <1>2
    <2>2. UpTo(b + 1) = UpTo(b) \o LinesOf(SubSeq(C, b + 1, b + 1))
      BY <2>1, <1>7
    <2>3. SubSeq(C, b + 1, b + 1) = <<C[b + 1]>>
      <3>1. b \in Nat /\ b + 1 <= Len(C)
        BY <2>1, <1>2
      <3> QED BY <3>1, <1>2, WindowOfOne
    <2>4. LinesOf(<<C[b + 1]>>) = Line(C[b + 1])
      BY <2>1, <1>2, LinesOfFew
    <2> QED BY <2>2, <2>3, <2>4
  <1> QED BY <1>1, <1>5, <1>6, <1>7, <1>8

LEMMA UpToLength ==
  ASSUME ClientInv
  PROVE  /\ \A n \in 0..Len(Chain) : Len(UpTo(n)) \in Nat
         /\ \A n \in 0..(Len(Chain) - 1) : Len(UpTo(n + 1)) = Len(UpTo(n)) + Size(Chain[n + 1])
         /\ \A a, b \in 0..Len(Chain) : a < b => Len(UpTo(a)) < Len(UpTo(b))
  <1>1. PICK m : m = Len(Chain) /\ m \in Nat
    BY ChainRises
  <1>2. \A n \in 0..m : Len(UpTo(n)) \in Nat
    BY <1>1, UpToGrows, LenProperties
  <1>3. ASSUME NEW n \in 0..(m - 1)
        PROVE  /\ Len(UpTo(n + 1)) = Len(UpTo(n)) + Size(Chain[n + 1])
               /\ Size(Chain[n + 1]) \in Nat \ {0}
    <2>1. n \in 0..m /\ n + 1 \in 1..m
      BY <1>1
    <2>2. Chain[n + 1] \in 0..Len(sent) /\ WrittenIsSent
      BY <1>1, <2>1, ChainRises DEF ClientInv
    <2>3. /\ Line(Chain[n + 1]) \in Seq(UnitsOf({Chain[n + 1]}))
          /\ Len(Line(Chain[n + 1])) = Size(Chain[n + 1])
          /\ Size(Chain[n + 1]) \in Nat \ {0}
      BY <2>2, LineIs
    <2>4. UpTo(n) \in Seq(LineUnits) /\ UpTo(n + 1) = UpTo(n) \o Line(Chain[n + 1])
      BY <1>1, <2>1, UpToGrows
    <2>5. UnitsOf({Chain[n + 1]}) \subseteq LineUnits
      BY DEF UnitsOf
    <2>6. Line(Chain[n + 1]) \in Seq(LineUnits)
      BY <2>3, <2>5, SeqMonotonic
    <2>7. Len(UpTo(n + 1)) = Len(UpTo(n)) + Len(Line(Chain[n + 1]))
      BY <2>4, <2>6, ConcatProperties
    <2> QED BY <2>3, <2>7
  <1>4. ASSUME NEW a \in 0..m PROVE \A b \in 0..m : a < b => Len(UpTo(a)) < Len(UpTo(b))
    <2> DEFINE M == {n \in Nat : n \in 0..m /\ a < n => Len(UpTo(a)) < Len(UpTo(n))}
    <2>1. 0 \in M
      OBVIOUS
    <2>2. ASSUME NEW n \in Nat, n \in M PROVE n + 1 \in M
      <3> SUFFICES ASSUME n + 1 \in 0..m, a < n + 1 PROVE Len(UpTo(a)) < Len(UpTo(n + 1))
        OBVIOUS
      <3>1. n \in 0..(m - 1) /\ n \in 0..m /\ (a = n \/ a < n)
        BY <1>1
      <3>2. PICK x, y, z, w : x = Len(UpTo(n + 1)) /\ y = Len(UpTo(n)) /\ z = Size(Chain[n + 1]) /\ w = Len(UpTo(a))
        OBVIOUS
      <3>3. x = y + z /\ y \in Nat /\ z \in Nat \ {0} /\ w \in Nat
        BY <1>2, <1>3, <3>1, <3>2
      <3>4. w = y \/ w < y
        BY <2>2, <3>1, <3>2
      <3>5. w < x
        BY ONLY <3>3, <3>4
      <3> QED BY <3>2, <3>5
    <2> HIDE DEF M
    <2>3. Nat \subseteq M
      BY <2>1, <2>2, Induction
    <2> QED BY <2>3 DEF M
  <1> QED BY <1>1, <1>2, <1>3, <1>4

\* Commands that are sent and accepted later change nothing of it.
Later == /\ \A i \in 1..Len(Chain) : Chain'[i] = Chain[i]
         /\ Len(Chain) <= Len(Chain')
         /\ \A r \in 0..Len(sent) : Size(r)' = Size(r) /\ Kind(r)' = Kind(r)
         /\ Len(sent) <= Len(sent')

LEMMA UpToGrowsNext == (ClientInv =>
         /\ Len(Chain) \in Nat /\ UpTo(0) = <<>>
         /\ \A b \in 0..(Len(Chain) - 1) : UpTo(b + 1) = UpTo(b) \o Line(Chain[b + 1]))'
  <1>1. ClientInv =>
         /\ Len(Chain) \in Nat /\ UpTo(0) = <<>>
         /\ \A b \in 0..(Len(Chain) - 1) : UpTo(b + 1) = UpTo(b) \o Line(Chain[b + 1])
    <2> SUFFICES ASSUME ClientInv
                 PROVE  /\ Len(Chain) \in Nat /\ UpTo(0) = <<>>
                        /\ \A b \in 0..(Len(Chain) - 1) : UpTo(b + 1) = UpTo(b) \o Line(Chain[b + 1])
      OBVIOUS
    <2>1. Len(Chain) \in Nat
      BY ChainRises
    <2> QED BY <2>1, UpToGrows
  <1> QED BY <1>1, PTL

LEMMA UpToStays ==
  ASSUME ClientInv, ClientInv', Later
  PROVE  \A n \in 0..Len(Chain) : UpTo(n)' = UpTo(n)
  <1>1. PICK m, C, D : m = Len(Chain) /\ C = Chain /\ D = Chain'
    OBVIOUS
  <1>2. m \in Nat /\ Len(Chain') \in Nat /\ m <= Len(Chain')
        /\ \A i \in 1..m : D[i] = C[i] /\ C[i] \in 0..Len(sent)
    <2>1. m \in Nat /\ \A i \in 1..m : C[i] \in 0..Len(sent)
      BY <1>1, ChainRises
    <2>2. Len(Chain') \in Nat
      BY UpToGrowsNext
    <2> QED BY <1>1, <2>1, <2>2 DEF Later
  <1> DEFINE M == {n \in Nat : n \in 0..m => UpTo(n)' = UpTo(n)}
  <1>3. 0 \in M
    BY UpToGrows, UpToGrowsNext
  <1>4. ASSUME NEW n \in Nat, n \in M PROVE n + 1 \in M
    <2> SUFFICES ASSUME n + 1 \in 0..m PROVE UpTo(n + 1)' = UpTo(n + 1)
      OBVIOUS
    <2>1. n \in 0..(m - 1) /\ n \in 0..m /\ n + 1 \in 1..m /\ n \in 0..(Len(Chain') - 1)
      BY <1>2
    <2>2. UpTo(n + 1) = UpTo(n) \o Line(C[n + 1])
      BY <1>1, <2>1, UpToGrows
    <2>3. UpTo(n + 1)' = UpTo(n)' \o Line(D[n + 1])'
      BY <1>1, <2>1, UpToGrowsNext
    <2>4. D[n + 1] = C[n + 1] /\ C[n + 1] \in 0..Len(sent)
      BY <1>2, <2>1
    <2>5. PICK r \in 0..Len(sent) : r = C[n + 1]
      BY <2>4
    <2>6. Line(r)' = Line(r)
      BY DEF Later, Line, LineUnitsOf
    <2>7. Line(D[n + 1])' = Line(r)'
      BY <2>4, <2>5
    <2> QED BY <1>4, <2>1, <2>2, <2>3, <2>5, <2>6, <2>7
  <1> HIDE DEF M
  <1>5. Nat \subseteq M
    BY <1>3, <1>4, Induction
  <1> QED BY <1>1, <1>5 DEF M

-----------------------------------------------------------------------------
(* The buffers.                                                            *)

Units == LineUnits \cup ReplyUnits

LEMMA RoomIs ==
  ASSUME NEW b, Sound(b)
  PROVE  /\ Room(b) \in Nat /\ Room(b) = BufferSize - (b.off + Len(b.data)) /\ Len(b.data) \in Nat
         /\ b = [data |-> b.data, off |-> b.off] /\ b.data \in Seq(Units) /\ b.off \in Nat
         /\ (b.data = <<>> => b = EmptyBuffer)
  <1>1. b = [data |-> b.data, off |-> b.off] /\ b.data \in Seq(Units) /\ b.off \in Nat
    BY DEF Sound, Buffers, Units
  <1>2. Len(b.data) \in Nat
    BY <1>1, LenProperties
  <1>3. b.off + Len(b.data) <= BufferSize /\ BufferSize \in Nat /\ (b.data = <<>> => b.off = 0)
    BY BufferSizeAssumption DEF Sound, InBounds
  <1>4. Room(b) = BufferSize - (b.off + Len(b.data))
    BY DEF Room
  <1>5. PICK x, y : x = b.off /\ y = Len(b.data)
    OBVIOUS
  <1>6. BufferSize - (x + y) \in Nat
    BY <1>1, <1>2, <1>3, <1>5
  <1> QED BY <1>1, <1>2, <1>3, <1>4, <1>5, <1>6 DEF EmptyBuffer

LEMMA EmptySound == Sound(EmptyBuffer) /\ Room(EmptyBuffer) = BufferSize
  <1>1. <<>> \in Seq(LineUnits \cup ReplyUnits) /\ Len(<<>>) = 0 /\ 0 \in Nat /\ BufferSize \in Nat
    BY EmptySeq, BufferSizeAssumption
  <1>2. EmptyBuffer \in Buffers(LineUnits \cup ReplyUnits)
    BY ONLY <1>1 DEF EmptyBuffer, Buffers
  <1>3. EmptyBuffer.data = <<>> /\ EmptyBuffer.off = 0
    BY DEF EmptyBuffer
  <1> QED BY <1>1, <1>2, <1>3 DEF Sound, InBounds, Room

LEMMA PutSound ==
  ASSUME NEW b, Sound(b), NEW x \in Seq(Units), Len(x) <= Room(b)
  PROVE  /\ Sound(Put(b, x)) /\ Put(b, x).data = b.data \o x
         /\ Len(Put(b, x).data) = Len(b.data) + Len(x)
         /\ Len(b.data) + Len(x) <= BufferSize
  <1>1. PICK d, o, r, l : d = b.data /\ o = b.off /\ r = Room(b) /\ l = Len(x)
    OBVIOUS
  <1>2. /\ b = [data |-> d, off |-> o] /\ d \in Seq(Units) /\ o \in Nat /\ Len(d) \in Nat
        /\ r = BufferSize - (o + Len(d)) /\ r \in Nat /\ l \in Nat /\ l <= r
        /\ (d = <<>> => o = 0) /\ BufferSize \in Nat
    BY <1>1, RoomIs, LenProperties, BufferSizeAssumption DEF Sound
  <1>3. Put(b, x) = [data |-> d \o x, off |-> o]
    <2>1. b = [data |-> d, off |-> o]
      BY <1>2
    <2>2. PICK y : y = d \o x
      OBVIOUS
    <2>3. b.data \o x = y
      BY <1>1, <2>2
    <2>4. [b EXCEPT !.data = y] = [data |-> y, off |-> o]
      BY ONLY <2>1
    <2>5. Put(b, x) = [b EXCEPT !.data = y]
      BY ONLY <2>3 DEF Put
    <2> QED BY <2>2, <2>4, <2>5
  <1>4. d \o x \in Seq(Units) /\ Len(d \o x) = Len(d) + l
    BY <1>1, <1>2, ConcatProperties
  <1>5. o + (Len(d) + l) <= BufferSize /\ Len(d) + l <= BufferSize
    BY ONLY <1>2
  <1>6. d \o x = <<>> => o = 0
    <2>1. d \o x = <<>> => Len(d) + l = 0
      BY <1>4, EmptySeq
    <2>2. Len(d) = 0 => d = <<>>
      BY <1>2, EmptySeq
    <2> QED BY <1>2, <2>1, <2>2
  <1>7. Put(b, x) \in Buffers(LineUnits \cup ReplyUnits)
    <2>1. PICK e, p : e = d \o x /\ p = Put(b, x)
      OBVIOUS
    <2>2. p = [data |-> e, off |-> o] /\ o \in Nat /\ e \in Seq(LineUnits \cup ReplyUnits)
      BY <1>2, <1>3, <1>4, <2>1 DEF Units
    <2>3. p \in Buffers(LineUnits \cup ReplyUnits)
      BY ONLY <2>2 DEF Buffers
    <2> QED BY <2>1, <2>3
  <1>8. Put(b, x).data = d \o x /\ Put(b, x).off = o
    BY ONLY <1>3
  <1> QED BY <1>1, <1>4, <1>5, <1>6, <1>7, <1>8 DEF Sound, InBounds

LEMMA DropSound ==
  ASSUME NEW b, Sound(b), NEW k \in 0..Len(b.data)
  PROVE  /\ Sound(Drop(b, k))
         /\ Drop(b, k).data = SubSeq(b.data, k + 1, Len(b.data))
         /\ Drop(b, k).data = <<>> <=> k = Len(b.data)
  <1>1. PICK d, o, l : d = b.data /\ o = b.off /\ l = Len(b.data)
    OBVIOUS
  <1>2. /\ d \in Seq(Units) /\ o \in Nat /\ l \in Nat /\ l = Len(d)
        /\ o + l <= BufferSize /\ BufferSize \in Nat /\ k \in Nat /\ l \in k..Len(d)
    <2>1. d \in Seq(Units) /\ o \in Nat /\ l \in Nat /\ l = Len(d)
      BY <1>1, RoomIs
    <2>2. o + l <= BufferSize /\ BufferSize \in Nat
      BY <1>1, BufferSizeAssumption DEF Sound, InBounds
    <2>3. k \in 0..l
      BY <1>1
    <2>4. k \in Nat /\ l \in k..Len(d)
      BY ONLY <2>1, <2>3
    <2> QED BY <2>1, <2>2, <2>4
  <1>3. SubSeq(d, k + 1, l) \in Seq(Units) /\ Len(SubSeq(d, k + 1, l)) = l - k
    BY <1>2, Window
  <1>4. CASE k = l
    <2>1. Drop(b, k) = EmptyBuffer
      BY <1>1, <1>4 DEF Drop
    <2>2. SubSeq(d, k + 1, l) = <<>>
      BY <1>2, <1>3, <1>4, EmptySeq
    <2>3. Drop(b, k).data = <<>>
      BY <2>1 DEF EmptyBuffer
    <2>4. Sound(Drop(b, k))
      BY <2>1, EmptySound
    <2> QED BY <1>1, <1>4, <2>2, <2>3, <2>4
  <1>5. CASE k # l
    <2>1. Drop(b, k) = [data |-> SubSeq(d, k + 1, l), off |-> o + k]
      BY <1>1, <1>5 DEF Drop
    <2>2. SubSeq(d, k + 1, l) # <<>> /\ (o + k) + (l - k) <= BufferSize /\ o + k \in Nat
      <3>1. l - k # 0 /\ (o + k) + (l - k) <= BufferSize /\ o + k \in Nat
        BY ONLY <1>2, <1>5
      <3>2. SubSeq(d, k + 1, l) = <<>> => Len(SubSeq(d, k + 1, l)) = 0
        BY EmptySeq
      <3> QED BY <1>3, <3>1, <3>2
    <2>0. PICK e, p, q : e = SubSeq(d, k + 1, l) /\ p = o + k /\ q = Drop(b, k)
      OBVIOUS
    <2>5. q = [data |-> e, off |-> p] /\ p \in Nat /\ e \in Seq(LineUnits \cup ReplyUnits)
      BY <1>3, <2>0, <2>1, <2>2 DEF Units
    <2>6. q \in Buffers(LineUnits \cup ReplyUnits) /\ q.data = e /\ q.off = p
      BY ONLY <2>5 DEF Buffers
    <2>3. Drop(b, k) \in Buffers(LineUnits \cup ReplyUnits)
      BY <2>0, <2>6
    <2>4. Drop(b, k).data = SubSeq(d, k + 1, l) /\ Drop(b, k).off = o + k
      BY <2>0, <2>6
    <2> QED BY <1>1, <1>3, <1>5, <2>2, <2>3, <2>4 DEF Sound, InBounds
  <1> QED BY <1>4, <1>5

LEMMA FittingAll ==
  ASSUME NEW b, NEW x \in Seq(Units), Len(x) <= Room(b)
  PROVE  Fitting(b, x) = x
  <1>1. Fitting(b, x) = SubSeq(x, 1, Len(x)) /\ Len(x) \in Nat
    BY LenProperties DEF Fitting
  <1> QED BY <1>1

LEMMA FittingFits ==
  ASSUME NEW b, Sound(b), NEW S, S \subseteq Units, NEW x \in Seq(S)
  PROVE  Fitting(b, x) \in Seq(S) /\ Len(Fitting(b, x)) <= Room(b)
         /\ \A i \in 1..Len(Fitting(b, x)) : i \in 1..Len(x) /\ Fitting(b, x)[i] = x[i]
  <1>1. PICK n : n = IF Len(x) <= Room(b) THEN Len(x) ELSE Room(b)
    OBVIOUS
  <1>2. Room(b) \in Nat /\ Len(x) \in Nat
    BY RoomIs, LenProperties
  <1>3. n \in 0..Len(x) /\ n <= Room(b) /\ 0 \in Nat /\ 0 + 1 = 1 /\ n - 0 = n
    BY <1>1, <1>2
  <1>4. /\ SubSeq(x, 0 + 1, n) \in Seq(S) /\ Len(SubSeq(x, 0 + 1, n)) = n - 0
        /\ \A i \in 1..(n - 0) : SubSeq(x, 0 + 1, n)[i] = x[0 + i]
    BY <1>3, Window
  <1>5. Fitting(b, x) = SubSeq(x, 1, n)
    BY <1>1 DEF Fitting
  <1>6. \A i \in 1..n : 0 + i = i /\ i \in 1..Len(x)
    BY <1>2, <1>3
  <1> QED BY <1>3, <1>4, <1>5, <1>6

-----------------------------------------------------------------------------
(* What is filtered.                                                       *)

Relayed == {u \in Units : u.part # "notice" /\ u.part # "line" /\ u.id # Capa}
Asked   == {u \in Units : u.part = "line" /\ u.id # Capa}

LEMMA OfOriginIs ==
  ASSUME NEW s \in Seq(Units)
  PROVE  OfOrigin(s) = Filter(s, Relayed)
  <1> DEFINE Is(f) == f = [n \in 0..Len(s) |-> IF n = 0 THEN <<>>
                             ELSE IF s[n].part # "notice" /\ s[n].part # "line" /\ s[n].id # Capa
                                  THEN Append(f[n - 1], s[n]) ELSE f[n - 1]]
  <1>1. OfOrigin(s) = (CHOOSE f : Is(f))[Len(s)]
    BY DEF OfOrigin, Only
  <1>2. \A n \in 0..Len(s) : n # 0 =>
          (s[n] \in Relayed <=> s[n].part # "notice" /\ s[n].part # "line" /\ s[n].id # Capa)
    <2>1. ASSUME NEW n \in 0..Len(s), n # 0
          PROVE  s[n] \in Relayed <=> s[n].part # "notice" /\ s[n].part # "line" /\ s[n].id # Capa
      <3>1. n \in 1..Len(s)
        BY <2>1, LenProperties
      <3>2. s[n] \in Units
        BY <3>1, ElementOfSeq
      <3> QED BY <3>2 DEF Relayed
    <2> QED BY <2>1
  <1>3. ASSUME NEW f PROVE IsFilter(f, s, Relayed) <=> Is(f)
    BY <1>2 DEF IsFilter
  <1>4. (CHOOSE f : IsFilter(f, s, Relayed)) = (CHOOSE f : Is(f))
    BY <1>3
  <1> QED BY <1>1, <1>4 DEF Filter

LEMMA OfClientIs ==
  ASSUME NEW s \in Seq(Units)
  PROVE  OfClient(s) = Filter(s, Asked)
  <1> DEFINE Is(f) == f = [n \in 0..Len(s) |-> IF n = 0 THEN <<>>
                             ELSE IF s[n].part = "line" /\ s[n].id # Capa
                                  THEN Append(f[n - 1], s[n]) ELSE f[n - 1]]
  <1>1. OfClient(s) = (CHOOSE f : Is(f))[Len(s)]
    BY DEF OfClient, Only
  <1>2. \A n \in 0..Len(s) : n # 0 => (s[n] \in Asked <=> s[n].part = "line" /\ s[n].id # Capa)
    <2>1. ASSUME NEW n \in 0..Len(s), n # 0
          PROVE  s[n] \in Asked <=> s[n].part = "line" /\ s[n].id # Capa
      <3>1. n \in 1..Len(s)
        BY <2>1, LenProperties
      <3>2. s[n] \in Units
        BY <3>1, ElementOfSeq
      <3> QED BY <3>2 DEF Asked
    <2> QED BY <2>1
  <1>3. ASSUME NEW f PROVE IsFilter(f, s, Asked) <=> Is(f)
    BY <1>2 DEF IsFilter
  <1>4. (CHOOSE f : IsFilter(f, s, Asked)) = (CHOOSE f : Is(f))
    BY <1>3
  <1> QED BY <1>1, <1>4 DEF Filter

-----------------------------------------------------------------------------
(* The invariant of the origin's side.                                     *)

LiveStates == {"CONNECTING", "WELCOME_READ", "WELCOME_WRITE", "CAPA", "REQUEST", "RESPONSE"}
Welcoming  == {"CONNECTING", "WELCOME_READ", "WELCOME_WRITE"}
Faults     == {"none", "SIGPIPE", "null CAPA reply", "unset response"}

Scalars ==
  /\ state \in LiveStates \cup {"CLOSED"} /\ fault \in Faults
  /\ greeting \in BOOLEAN /\ pipelining \in BOOLEAN /\ offers \in BOOLEAN
  /\ stage \in {"status", "body", "done"}
  /\ clientEnd \in Ends /\ originEnd \in Ends
  /\ queue = [nodes |-> queue.nodes, current |-> queue.current]
  /\ queue.current \in 0..MaxCommands /\ pend \in 0..MaxCommands
  /\ queue.nodes = <<>> => queue.current = Null
  /\ Sound(wb) /\ Sound(sb) /\ sb.data \in Seq(ReplyUnits)
  /\ delivered \in Seq(ReplyUnits)

\* What the origin has sent: its greeting, then the replies to the first lines of
\* what it has been sent, one after the other.
Ended(p, r) == /\ p \in 1..Len(replies) /\ replies[p].id = r
               /\ replies[p].part \in {"status", "end"} /\ Final(replies[p])
Served(t) ==
  /\ taken = Len(UpTo(t)) /\ taken <= Len(forwarded)
  /\ \A i \in 1..Len(replies) : \/ replies[i].part = "greeting"
                                \/ /\ replies[i].part \in {"status", "body", "end"}
                                   /\ \E j \in 1..t : replies[i].id = Chain[j]
  /\ IF t = 0 THEN replies[Len(replies)].part = "greeting" ELSE Ended(Len(replies), Chain[t])
NextReply(u, v) ==
  \/ u.part = "greeting" /\ v.part = "greeting"
  \/ u.part = "greeting" /\ v.part = "status" /\ v.id = Chain[1]
  \/ /\ u.part # "greeting" /\ Final(u) /\ v.part = "status"
     /\ \E j \in 1..(Len(Chain) - 1) : u.id = Chain[j] /\ v.id = Chain[j + 1]
  \/ u.part # "greeting" /\ ~Final(u) /\ v.part \in {"body", "end"} /\ v.id = u.id
Replied ==
  /\ replies \in Seq(ReplyUnits) /\ replies # <<>> /\ replies[1].part = "greeting"
  /\ \E t \in 0..Len(Chain) : Served(t)
  /\ \A i \in 1..(Len(replies) - 1) : NextReply(replies[i], replies[i + 1])
  /\ \A i \in 1..Len(replies) : replies[i].part = "end" /\ Kind(replies[i].id) = "capa"
                                  => (replies[i].mark = "pipe" <=> offers)

\* What the origin has been sent: the lines of the chain up to the request that is
\* being answered, or all of them when pipelining.  In request_write's loop, the
\* requests before the one that did not fit.
SentCount == CASE state \in Welcoming -> 0
               [] state = "CAPA"      -> 1
               [] state = "REQUEST"   -> Turn
               [] OTHER               -> IF pipelining THEN Len(Chain) ELSE Turn
InLoop(j) ==
  /\ pend = queue.nodes[j] /\ Size(pend) <= BufferSize
  /\ queue.current = IF j < Len(queue.nodes) THEN queue.nodes[j + 1] ELSE Null
  /\ originEnd # "reset" => wb = EmptyBuffer /\ forwarded = UpTo(Turn + (j - 1))
Sending ==
  /\ IF pend = Null
     THEN /\ forwarded = UpTo(SentCount)
          /\ state = "REQUEST" => wb = EmptyBuffer /\ (pipelining => queue.current = PeekData(queue))
     ELSE /\ state = "REQUEST" /\ armed[2] = "WRITE" /\ pipelining
          /\ wb.data \in Seq(LineUnits)
          /\ \E j \in 1..Len(queue.nodes) : InLoop(j)
  /\ state = "REQUEST" /\ armed[2] = "WRITE" => queue.nodes # <<>>

\* How far the response parser has read the replies, and where that leaves it.
Pos == IF state = "REQUEST" THEN fetched ELSE fetched - Len(wb.data)
At(p, st) ==
  CASE st = "status" -> IF Turn = 1 THEN \A i \in 1..p : replies[i].part = "greeting"
                        ELSE Ended(p, Chain[Turn - 1])
    [] st = "body"   -> /\ p \in 1..Len(replies) /\ replies[p].id = request
                        /\ replies[p].part \in {"status", "body"} /\ ~Final(replies[p])
    [] OTHER         -> Ended(p, request)
Stages == CASE state \in Welcoming -> {"status"}
            [] state = "CAPA"      -> {"status", "body"}
            [] state = "REQUEST"   -> {"done"}
            [] OTHER -> IF armed[2] = "READ" THEN {"status", "body"} ELSE {"body", "done"}
Fetching ==
  /\ Pos \in 0..fetched /\ At(Pos, stage) /\ stage \in Stages
  /\ state # "REQUEST" => wb.data = SubSeq(replies, Pos + 1, fetched)
  /\ state = "RESPONSE" => Turn > 1
  /\ pipelining = (offers /\ state \in {"REQUEST", "RESPONSE"})

\* What the client has been sent and is being sent.
Writes == state = "RESPONSE" /\ armed[1] = "WRITE"
Delivering ==
  /\ OfOrigin(delivered \o sb.data) = OfOrigin(SubSeq(replies, 1, Pos))
  /\ state # "CAPA" /\ ~Writes => sb = EmptyBuffer
  /\ Writes => sb.data # <<>> /\ (stage = "done" => Final(sb.data[Len(sb.data)]))
  /\ \A i \in 2..Turn : i < Turn \/ state = "REQUEST" => AnsweredTo(Chain[i])

Ground ==
  /\ Scalars
  /\ \E f \in 0..Len(Chain) : forwarded = UpTo(f)
  /\ fetched \in 0..Len(replies)
  /\ IsPrefix(OfOrigin(delivered), OfOrigin(replies))
  /\ state \in {"CAPA", "RESPONSE"} => \A i \in 1..Len(sb.data) : sb.data[i].id = request

RelayInv == Ground /\ Replied /\ (Alive => Sending /\ Fetching /\ Delivering)

-----------------------------------------------------------------------------
(* What later commands leave as it is.                                     *)

\* Steps that read nothing from the client.
LEMMA LaterReading ==
  ASSUME ClientInv, UNCHANGED reading
  PROVE  Later /\ Chain' = Chain
  <1>1. Chain' = Chain /\ sent' = sent
    BY ReadingKept DEF reading
  <1>2. Len(Chain) \in Nat /\ Len(sent) \in Nat
    BY ChainRises
  <1> QED BY <1>1, <1>2 DEF Later, Size, Kind

LEMMA LaterSending ==
  ASSUME ClientInv, ClientSend
  PROVE  Later /\ Chain' = Chain
  <1>1. Chain' = Chain
    BY ClientSends
  <1>2. Len(Chain) \in Nat /\ Len(sent) \in Nat /\ sent \in Seq(Command)
    BY ChainRises DEF ClientInv, WrittenIsSent
  <1>3. PICK kind \in Kinds, size \in LineSizes : sent' = Append(sent, [kind |-> kind, size |-> size])
    BY DEF ClientSend
  <1>4. PICK c \in Command : sent' = Append(sent, c)
    BY <1>3 DEF Command
  <1>5. Len(sent') = Len(sent) + 1 /\ \A r \in 0..Len(sent) : Kind(r)' = Kind(r) /\ Size(r)' = Size(r)
    BY <1>2, <1>4, SentGrows
  <1> QED BY <1>1, <1>2, <1>5 DEF Later

LEMMA LaterAccepting ==
  ASSUME ClientInv, sent' = sent, Accepting
  PROVE  Later
  <1>1. /\ Chain \in Seq(0..Len(sent)) /\ Len(Chain) \in Nat /\ Len(sent) \in Nat
        /\ \A r \in 0..Len(sent) : Size(r)' = Size(r) /\ Kind(r)' = Kind(r)
    BY ChainRises DEF Size, Kind
  <1>2. CASE Accepted' = Accepted
    <2>1. Chain' = Chain
      BY <1>2 DEF Chain
    <2> QED BY <1>1, <2>1 DEF Later
  <1>3. CASE \E r \in 1..Len(sent) : Accepted' = Append(Accepted, r)
    <2>1. PICK r \in 1..Len(sent) : Accepted' = Append(Accepted, r)
      BY <1>3
    <2>2. r \in Nat /\ r \in 0..Len(sent)
      BY <1>1
    <2>3. Chain' = Append(Chain, r)
      BY <2>1, <2>2, ChainGrows DEF ClientInv
    <2>4. PICK C, D : C = Chain /\ D = Chain'
      OBVIOUS
    <2>5. C \in Seq(0..Len(sent)) /\ D = Append(C, r)
      BY <1>1, <2>3, <2>4
    <2>6. Len(D) = Len(C) + 1 /\ \A i \in 1..Len(C) : D[i] = C[i]
      BY <2>2, <2>5, AppendProperties
    <2> QED BY <1>1, <2>4, <2>6 DEF Later
  <1> QED BY <1>2, <1>3 DEF Accepting

LEMMA FinalKept ==
  ASSUME Later, NEW u, u.id \in 0..Len(sent)
  PROVE  Final(u)' <=> Final(u)
  <1>1. Kind(u.id)' = Kind(u.id)
    BY DEF Later
  <1> QED BY <1>1 DEF Final, MultiLine

LEMMA RepliesAre ==
  ASSUME ClientInv, Replied
  PROVE  /\ replies \in Seq(ReplyUnits) /\ Len(replies) \in Nat \ {0}
         /\ \A i \in 1..Len(replies) : replies[i] \in ReplyUnits
         /\ \A i \in 1..Len(replies) : replies[i].part # "greeting" => replies[i].id \in 0..Len(sent)
  <1>1. replies \in Seq(ReplyUnits) /\ replies # <<>>
    BY DEF Replied
  <1>2. Len(replies) \in Nat \ {0}
    BY <1>1, EmptySeq, LenProperties
  <1>3. \A i \in 1..Len(replies) : replies[i] \in ReplyUnits
    BY <1>1, ElementOfSeq
  <1>4. PICK t \in 0..Len(Chain) : Served(t)
    BY DEF Replied
  <1>5. Len(Chain) \in Nat /\ \A j \in 1..Len(Chain) : Chain[j] \in 0..Len(sent)
    BY ChainRises
  <1>6. ASSUME NEW i \in 1..Len(replies), replies[i].part # "greeting"
        PROVE  replies[i].id \in 0..Len(sent)
    <2>1. PICK j \in 1..t : replies[i].id = Chain[j]
      BY <1>4, <1>6 DEF Served
    <2>2. j \in 1..Len(Chain)
      BY <1>5
    <2> QED BY <2>1, <2>2, <1>5
  <1> QED BY <1>1, <1>2, <1>3, <1>6

LEMMA EndedKept ==
  ASSUME ClientInv, Replied, Later, NEW p, NEW r, Ended(p, r),
         Len(replies') \in Nat, Len(replies) <= Len(replies'),
         \A i \in 1..Len(replies) : replies'[i] = replies[i]
  PROVE  Ended(p, r)'
  <1>1. p \in 1..Len(replies) /\ Len(replies) \in Nat
    BY RepliesAre DEF Ended
  <1>2. replies[p].part # "greeting"
    BY DEF Ended
  <1>3. replies[p].id \in 0..Len(sent)
    BY <1>1, <1>2, RepliesAre
  <1>4. PICK u : u = replies[p]
    OBVIOUS
  <1>5. replies'[p] = u /\ p \in 1..Len(replies')
    BY <1>1, <1>4
  <1>6. Final(u) /\ u.id = r /\ u.part \in {"status", "end"}
    BY <1>4 DEF Ended
  <1>7. Final(u)'
    BY <1>3, <1>4, <1>6, FinalKept
  <1> QED BY <1>5, <1>6, <1>7 DEF Ended

LEMMA NextReplyKept ==
  ASSUME ClientInv, Later, Len(Chain') \in Nat, NEW u, u.part # "greeting" => u.id \in 0..Len(sent), NEW v,
         NextReply(u, v)
  PROVE  NextReply(u, v)'
  <1>1. /\ Len(Chain) \in Nat \ {0} /\ Chain'[1] = Chain[1] /\ Len(Chain) <= Len(Chain')
        /\ \A j \in 1..(Len(Chain) - 1) : /\ j \in 1..(Len(Chain') - 1)
                                          /\ Chain'[j] = Chain[j] /\ Chain'[j + 1] = Chain[j + 1]
    <2>1. Len(Chain) \in Nat \ {0} /\ Len(Chain) <= Len(Chain')
      BY ChainRises DEF Later
    <2>2. \A j \in 1..Len(Chain) : Chain'[j] = Chain[j]
      BY DEF Later
    <2>3. \A j \in 1..(Len(Chain) - 1) : j \in 1..Len(Chain) /\ j + 1 \in 1..Len(Chain)
      BY <2>1
    <2>4. 1 \in 1..Len(Chain)
      BY <2>1
    <2> QED BY <2>1, <2>2, <2>3, <2>4
  <1>2. u.part # "greeting" => (Final(u)' <=> Final(u))
    BY FinalKept
  <1>3. CASE u.part = "greeting"
    BY <1>1, <1>3 DEF NextReply
  <1>4. CASE u.part # "greeting" /\ Final(u)
    <2>1. v.part = "status" /\ \E j \in 1..(Len(Chain) - 1) : u.id = Chain[j] /\ v.id = Chain[j + 1]
      BY <1>4 DEF NextReply
    <2>2. \E j \in 1..(Len(Chain') - 1) : u.id = Chain'[j] /\ v.id = Chain'[j + 1]
      BY <1>1, <2>1
    <2> QED BY <1>2, <1>4, <2>1, <2>2 DEF NextReply
  <1>5. CASE u.part # "greeting" /\ ~Final(u)
    <2>1. v.part \in {"body", "end"} /\ v.id = u.id
      BY <1>5 DEF NextReply
    <2> QED BY <1>2, <1>5, <2>1 DEF NextReply
  <1> QED BY <1>3, <1>4, <1>5

LEMMA LenChainNext == (ClientInv => Len(Chain) \in Nat)'
  <1>1. ClientInv => Len(Chain) \in Nat
    BY ChainRises
  <1> QED BY <1>1, PTL

\* What the origin has sent stays what it was when the proxy sends it more.
LEMMA RepliedKept ==
  ASSUME ClientInv, ClientInv', Later, Replied, UNCHANGED <<taken, replies, offers>>,
         Len(forwarded) \in Nat, Len(forwarded') \in Nat, Len(forwarded) <= Len(forwarded')
  PROVE  Replied'
  <1>1. PICK R : R = replies
    OBVIOUS
  <1>2. /\ R \in Seq(ReplyUnits) /\ Len(R) \in Nat \ {0} /\ replies' = R
        /\ \A i \in 1..Len(R) : R[i].part # "greeting" => R[i].id \in 0..Len(sent)
    BY <1>1, RepliesAre
  <1>3. Len(Chain) \in Nat /\ Len(Chain') \in Nat /\ Len(Chain) <= Len(Chain')
        /\ \A j \in 1..Len(Chain) : Chain'[j] = Chain[j]
    BY ChainRises, LenChainNext DEF Later
  <1>4. PICK t \in 0..Len(Chain) : Served(t)
    BY DEF Replied
  <1>5. t \in Nat /\ t \in 0..Len(Chain') /\ \A j \in 1..t : j \in 1..Len(Chain)
    BY <1>3
  <1>6. Served(t)'
    <2>1. UpTo(t)' = UpTo(t)
      BY UpToStays
    <2>2. taken \in Nat /\ taken = Len(UpTo(t)) /\ taken <= Len(forwarded)
      BY <1>4, UpToLength DEF Served
    <2>3. taken' = Len(UpTo(t)') /\ taken' <= Len(forwarded')
      BY <2>1, <2>2
    <2>4. ASSUME NEW i \in 1..Len(R)
          PROVE  \/ R[i].part = "greeting"
                 \/ R[i].part \in {"status", "body", "end"} /\ \E j \in 1..t : R[i].id = Chain'[j]
      BY <1>1, <1>3, <1>4, <1>5 DEF Served
    <2>5. IF t = 0 THEN R[Len(R)].part = "greeting" ELSE Ended(Len(replies), Chain[t])'
      <3>1. CASE t = 0
        BY <3>1, <1>1, <1>4 DEF Served
      <3>2. CASE t # 0
        <4>1. PICK r : r = Chain[t] /\ r = Chain'[t]
          <5>1. t \in 1..Len(Chain)
            BY <3>2, <1>5
          <5> QED BY <5>1, <1>3
        <4>2. Ended(Len(R), r)
          BY <3>2, <4>1, <1>1, <1>4 DEF Served
        <4>3. Ended(Len(R), r)'
          BY <4>2, <1>1, <1>2, EndedKept
        <4> QED BY <1>2, <3>2, <4>1, <4>3 DEF Ended
      <3> QED BY <3>1, <3>2
    <2> QED BY <1>2, <2>3, <2>4, <2>5 DEF Served
  <1>7. ASSUME NEW i \in 1..(Len(R) - 1) PROVE NextReply(R[i], R[i + 1])'
    <2>1. i \in 1..Len(R)
      BY <1>2
    <2>2. NextReply(R[i], R[i + 1])
      BY <1>1 DEF Replied
    <2>3. PICK u, v : u = R[i] /\ v = R[i + 1]
      OBVIOUS
    <2>4. NextReply(u, v) /\ (u.part # "greeting" => u.id \in 0..Len(sent))
      BY <1>2, <2>1, <2>2, <2>3
    <2>5. NextReply(u, v)'
      BY <1>3, <2>4, NextReplyKept
    <2> QED BY <2>3, <2>5
  <1>8. ASSUME NEW i \in 1..Len(R), R[i].part = "end", Kind(R[i].id)' = "capa"
        PROVE  R[i].mark = "pipe" <=> offers'
    <2>1. R[i].id \in 0..Len(sent)
      BY <1>2, <1>8
    <2>2. Kind(R[i].id)' = Kind(R[i].id)
      BY <2>1 DEF Later
    <2> QED BY <1>1, <1>8, <2>2 DEF Replied
  <1>9. R[1].part = "greeting" /\ R # <<>>
    BY <1>1 DEF Replied
  <1> QED BY <1>2, <1>5, <1>6, <1>7, <1>8, <1>9 DEF Replied

-----------------------------------------------------------------------------
(* The response parser.                                                    *)

ParserStages == {"status", "body", "done", "error"}

\* The stages the parser goes through.
Parses(g, data) ==
  /\ g[0] = stage
  /\ \A i \in 1..Len(data) : g[i] = IF g[i - 1] = "error" THEN "error"
                                    ELSE Parse(request, g[i - 1], data[i])

LEMMA StageAfterIs ==
  ASSUME NEW S, NEW data \in Seq(S), stage \in ParserStages
  PROVE  Parses(StageAfter(data), data) /\ \A i \in 0..Len(data) : StageAfter(data)[i] \in ParserStages
  <1> DEFINE V == ParserStages
             m == Len(data)
             step(x, i) == IF x = "error" THEN "error" ELSE Parse(request, x, data[i])
             h == [p \in (1..m) \X V |-> step(p[2], p[1])]
             Is(f) == f = [n \in 0..Len(data) |-> IF n = 0 THEN stage
                             ELSE IF f[n - 1] = "error" THEN "error"
                                  ELSE Parse(request, f[n - 1], data[n])]
  <1>1. m \in Nat /\ stage \in V
    BY LenProperties
  <1>2. \A i \in 1..m, x \in V : step(x, i) \in V
    BY DEF Parse, ParserStages
  <1>3. \A i \in 1..m, x \in V : h[<<i, x>>] = step(x, i)
    OBVIOUS
  <1> HIDE DEF h, m
  <1>4. \A i \in 1..m, x \in V : h[<<i, x>>] \in V
    BY <1>2, <1>3
  <1> HIDE DEF V
  <1>5. PICK f : Recursive(f, V, stage, m, h)
    BY <1>1, <1>4, Recursion
  <1>6. f \in [0..m -> V] /\ f[0] = stage /\ \A i \in 1..m : f[i] = h[<<i, f[i - 1]>>]
    BY <1>5 DEF Recursive
  <1>7. ASSUME NEW i \in 0..m, i # 0 PROVE f[i] = step(f[i - 1], i)
    <2>1. i \in 1..m /\ i - 1 \in 0..m
      BY <1>1, <1>7
    <2>2. f[i - 1] \in V
      BY <2>1, <1>6
    <2> QED BY <2>1, <2>2, <1>3, <1>6
  <1>8. Is(f)
    <2> HIDE DEF step
    <2>1. f = [n \in 0..m |-> IF n = 0 THEN stage ELSE step(f[n - 1], n)]
      BY <1>1, <1>6, <1>7
    <2> QED BY <2>1 DEF m, step
  <1>9. PICK g : Is(g) /\ StageAfter(data) = g
    <2>1. StageAfter(data) = (CHOOSE g : Is(g))
      BY DEF StageAfter
    <2> HIDE DEF Is
    <2> QED BY <2>1, <1>8
  <1> HIDE DEF step
  <1>10. g = [n \in 0..m |-> IF n = 0 THEN stage ELSE step(g[n - 1], n)]
    BY <1>9 DEF m, step
  <1>11. \A i \in 1..m : g[i] = step(g[i - 1], i)
    <2> SUFFICES ASSUME NEW i \in 1..m PROVE g[i] = step(g[i - 1], i)
      OBVIOUS
    <2>1. i \in 0..m /\ i # 0
      BY <1>1
    <2> QED BY <2>1, <1>10
  <1>12. g[0] = stage
    BY <1>1, <1>10
  <1>13. Obeys(g, V, stage, m, h)
    BY <1>3, <1>11, <1>12 DEF Obeys
  <1>14. \A i \in 0..m : g[i] = f[i]
    BY <1>1, <1>5, <1>13, RecursionUnique
  <1>15. \A i \in 0..m : g[i] \in V
    BY <1>6, <1>14
  <1>16. Parses(g, data)
    BY <1>11, <1>12 DEF Parses, m, step
  <1> QED BY <1>9, <1>15, <1>16 DEF m, V

\* Later replies, and commands, leave the parser where it is.
LEMMA AtKept ==
  ASSUME ClientInv, Replied, Later, Turn' = Turn, request' = request,
         Len(replies') \in Nat, Len(replies) <= Len(replies'),
         \A i \in 1..Len(replies) : replies'[i] = replies[i],
         NEW p \in 0..Len(replies), NEW st \in {"status", "body", "done"}, At(p, st)
  PROVE  At(p, st)'
  <1>1. Len(replies) \in Nat /\ Turn \in 1..Len(Chain) /\ Len(Chain) \in Nat
    BY RepliesAre, ChainRises DEF ClientInv, QueueIsRest
  <1>2. CASE st = "status" /\ Turn = 1
    <2>1. \A i \in 1..p : i \in 1..Len(replies) /\ replies[i].part = "greeting"
      BY <1>1, <1>2 DEF At
    <2>2. \A i \in 1..p : replies'[i].part = "greeting"
      BY <2>1
    <2> QED BY <1>2, <2>2 DEF At
  <1>3. CASE st = "status" /\ Turn # 1
    <2>1. PICK r : r = Chain[Turn - 1]
      OBVIOUS
    <2>2. Turn - 1 \in 1..Len(Chain)
      BY <1>1, <1>3
    <2>3. Chain'[Turn - 1] = r
      BY <2>1, <2>2 DEF Later
    <2>4. Ended(p, r)
      BY <1>3, <2>1 DEF At
    <2>5. Ended(p, r)'
      BY <2>4, EndedKept
    <2>6. Chain[Turn - 1]' = r
      BY <2>3
    <2>7. Ended(p, Chain[Turn - 1])'
      BY <2>5, <2>6 DEF Ended
    <2> QED BY <1>3, <2>7 DEF At
  <1>4. CASE st = "body"
    <2>1. PICK u : u = replies[p]
      OBVIOUS
    <2>2. p \in 1..Len(replies) /\ u.id = request /\ u.part \in {"status", "body"} /\ ~Final(u)
      BY <1>4, <2>1 DEF At
    <2>3. u.id \in 0..Len(sent) /\ replies'[p] = u /\ p \in 1..Len(replies')
      BY <1>1, <2>1, <2>2, RepliesAre
    <2>4. ~Final(u)'
      BY <2>2, <2>3, FinalKept
    <2> QED BY <1>4, <2>2, <2>3, <2>4 DEF At
  <1>5. CASE st = "done"
    <2>1. PICK r : r = request
      OBVIOUS
    <2>2. Ended(p, r)
      BY <1>5, <2>1 DEF At
    <2>3. Ended(p, r)'
      BY <2>2, EndedKept
    <2> QED BY <1>5, <2>1, <2>3 DEF At, Ended
  <1> QED BY <1>2, <1>3, <1>4, <1>5

\* The reply has ended and the next request is taken.
LEMMA AtMoves ==
  ASSUME ClientInv, Chain' = Chain, sent' = sent, replies' = replies, Turn' = Turn + 1,
         NEW p, At(p, "done")
  PROVE  At(p, "status")'
  <1>1. Turn \in Nat \ {0} /\ request = Chain[Turn]
    <2>1. Turn \in 1..Len(Chain) /\ Len(Chain) \in Nat
      BY ChainRises DEF ClientInv, QueueIsRest
    <2> QED BY <2>1 DEF ClientInv, QueueIsRest
  <1>2. PICK t : t = Turn /\ Turn' = t + 1 /\ t + 1 # 1 /\ (t + 1) - 1 = t
    BY <1>1
  <1>3. PICK r : r = Chain[t] /\ Chain'[t] = r
    OBVIOUS
  <1>4. Ended(p, r)
    BY <1>1, <1>2, <1>3 DEF At
  <1>5. Ended(p, r)'
    BY <1>4 DEF Ended, Final, MultiLine, Kind
  <1>6. Turn' # 1 /\ (Chain[Turn - 1])' = r
    BY <1>2, <1>3
  <1>7. Ended(p, Chain[Turn - 1])'
    BY <1>5, <1>6 DEF Ended
  <1> QED BY <1>6, <1>7 DEF At

\* One unit is parsed.
LEMMA ParseStep ==
  ASSUME ClientInv, Replied, NEW p \in Nat, p + 1 <= Len(replies), NEW st \in {"status", "body"},
         At(p, st), NEW u, u = replies[p + 1], NEW next, next = Parse(request, st, u)
  PROVE  /\ next \in {"body", "done", "error"}
         /\ next # "error" => At(p + 1, next) /\ u.id = request
  <1>1. Len(replies) \in Nat \ {0} /\ p + 1 \in 1..Len(replies) /\ u.part = u.part
    BY RepliesAre
  <1>2. /\ Len(Chain) \in Nat \ {0} /\ Turn \in 1..Len(Chain) /\ request = Chain[Turn]
        /\ \A i, j \in 1..Len(Chain) : i < j => Chain[i] < Chain[j]
        /\ \A i \in 1..Len(Chain) : Chain[i] \in Int
    <2>1. PICK C : C = Chain
      OBVIOUS
    <2>2. /\ Len(C) \in Nat \ {0} /\ \A i \in 1..Len(C) : C[i] \in 0..Len(sent)
          /\ \A i, j \in 1..Len(C) : i < j => C[i] < C[j]
      BY <2>1, ChainRises
    <2>3. \A i \in 1..Len(C) : C[i] \in Int
      BY ONLY <2>2
    <2>4. Turn \in 1..Len(C) /\ request = C[Turn]
      BY <2>1 DEF ClientInv, QueueIsRest
    <2> QED BY <2>1, <2>2, <2>3, <2>4
  <1>3. next \in {"body", "done", "error"}
    BY DEF Parse
  <1>4. CASE next = "error"
    BY <1>3, <1>4
  <1>5. CASE st = "status" /\ next # "error"
    <2>1. u.part = "status" /\ next = IF MultiLine(request, u.mark) THEN "body" ELSE "done"
      BY <1>5 DEF Parse
    <2>2. u.id = request
      <3>1. CASE Turn = 1
        <4>1. p # 0
          <5>1. replies[1].part = "greeting"
            BY DEF Replied
          <5> QED BY <5>1, <2>1
        <4>2. p \in 1..(Len(replies) - 1) /\ p \in 1..p
          BY <1>1, <4>1
        <4>3. replies[p].part = "greeting" /\ NextReply(replies[p], u)
          BY <1>5, <3>1, <4>2 DEF At, Replied
        <4>4. u.id = Chain[1]
          BY <2>1, <4>3 DEF NextReply
        <4> QED BY <1>2, <3>1, <4>4
      <3>2. CASE Turn # 1
        <4>1. Ended(p, Chain[Turn - 1])
          BY <1>5, <3>2 DEF At
        <4>2. p \in 1..(Len(replies) - 1)
          BY <1>1, <4>1 DEF Ended
        <4>3. NextReply(replies[p], u)
          BY <4>2 DEF Replied
        <4>4. PICK j \in 1..(Len(Chain) - 1) : replies[p].id = Chain[j] /\ u.id = Chain[j + 1]
          BY <2>1, <4>1, <4>3 DEF NextReply, Ended
        <4>5. PICK i : i = Turn - 1
          OBVIOUS
        <4>6. i \in 1..Len(Chain) /\ j \in 1..Len(Chain) /\ Chain[j] = Chain[i]
          <5>1. i \in 1..Len(Chain) /\ j \in 1..Len(Chain)
            BY <1>2, <3>2, <4>5
          <5>2. replies[p].id = Chain[i]
            BY <4>1, <4>5 DEF Ended
          <5> QED BY <4>4, <5>1, <5>2
        <4>7. ~(i < j) /\ ~(j < i)
          BY <1>2, <4>6
        <4>8. j + 1 = Turn
          BY <4>5, <4>6, <4>7, <1>2
        <4> QED BY <1>2, <4>4, <4>8
      <3> QED BY <3>1, <3>2
    <2>3. CASE MultiLine(request, u.mark)
      <3>1. next = "body" /\ ~Final(u)
        BY <2>1, <2>2, <2>3 DEF Final
      <3> QED BY <1>1, <2>1, <2>2, <3>1 DEF At
    <2>4. CASE ~MultiLine(request, u.mark)
      <3>1. next = "done" /\ Final(u)
        BY <2>1, <2>2, <2>4 DEF Final
      <3> QED BY <1>1, <2>1, <2>2, <3>1 DEF At, Ended
    <2> QED BY <2>3, <2>4
  <1>6. CASE st = "body"
    <2>1. p \in 1..(Len(replies) - 1) /\ replies[p].id = request
          /\ replies[p].part \in {"status", "body"} /\ ~Final(replies[p])
      BY <1>1, <1>6 DEF At
    <2>2. NextReply(replies[p], u)
      BY <2>1 DEF Replied
    <2>3. u.part \in {"body", "end"} /\ u.id = request
      BY <2>1, <2>2 DEF NextReply
    <2>4. next = IF u.part = "end" THEN "done" ELSE "body"
      BY <1>6 DEF Parse
    <2>5. CASE u.part = "end"
      BY <1>1, <2>3, <2>4, <2>5 DEF At, Ended, Final
    <2>6. CASE u.part = "body"
      <3>1. ~Final(u)
        BY <2>6 DEF Final
      <3> QED BY <1>1, <2>3, <2>4, <2>6, <3>1 DEF At
    <2> QED BY <2>3, <2>5, <2>6
  <1> QED BY <1>3, <1>4, <1>5, <1>6

\* What is consumed of the units behind the p-th: up to the end of the reply.
LEMMA Consuming ==
  ASSUME ClientInv, Replied, NEW p \in Nat, NEW f \in Nat, p < f, f <= Len(replies),
         stage \in {"status", "body"}, At(p, stage), NEW data, data = SubSeq(replies, p + 1, f)
  PROVE  /\ Consumed(data) \in 1..(f - p) /\ Len(data) = f - p
         /\ \A i \in 1..(f - p) : data[i] = replies[p + i]
         /\ StageAfter(data)[Consumed(data)] \in {"body", "done", "error"}
         /\ StageAfter(data)[Consumed(data)] # "error" =>
              /\ At(p + Consumed(data), StageAfter(data)[Consumed(data)])
              /\ \A i \in 1..Consumed(data) : data[i].id = request
  <1>1. PICK m : m = f - p
    OBVIOUS
  <1>2. m \in Nat \ {0} /\ f \in p..Len(replies) /\ replies \in Seq(ReplyUnits) /\ Len(replies) \in Nat
    BY <1>1, RepliesAre
  <1>3. data \in Seq(ReplyUnits) /\ Len(data) = m /\ \A i \in 1..m : data[i] = replies[p + i]
    BY <1>1, <1>2, Window
  <1>4. PICK g : g = StageAfter(data)
    OBVIOUS
  <1>5. stage \in ParserStages
    BY DEF ParserStages
  <1>6. Parses(g, data) /\ \A i \in 0..m : g[i] \in ParserStages
    BY <1>3, <1>4, <1>5, StageAfterIs
  <1>7. g[0] = stage /\ \A i \in 1..m : g[i] = IF g[i - 1] = "error" THEN "error"
                                               ELSE Parse(request, g[i - 1], data[i])
    BY <1>3, <1>6 DEF Parses
  <1>8. PICK k : k = Consumed(data)
    OBVIOUS
  <1>9. k \in 1..m /\ \A n \in 0..m : n < k => g[n] \notin {"done", "error"}
    <2>1. PICK ends : ends = {n \in 0..m : g[n] \in {"done", "error"}}
      OBVIOUS
    <2>2. k = IF ends = {} THEN m ELSE CHOOSE n \in ends : \A j \in ends : n <= j
      BY <1>3, <1>4, <1>8, <2>1 DEF Consumed
    <2>3. CASE ends = {}
      BY <1>2, <2>1, <2>2, <2>3, SMTT(60)
    <2>4. CASE ends # {}
      <3>1. ends \subseteq Nat
        BY <1>2, <2>1
      <3>2. \E n \in ends : \A j \in ends : n <= j
        BY <2>4, <3>1, Least
      <3>3. k \in ends /\ \A j \in ends : k <= j
        BY <2>2, <2>4, <3>2
      <3>4. k \in 0..m /\ g[k] \in {"done", "error"}
        BY <2>1, <3>3
      <3>5. k # 0
        BY <1>7, <3>4
      <3>6. \A n \in 0..m : n < k => n \notin ends
        BY <1>2, <3>3, <3>4
      <3> QED BY <1>2, <2>1, <3>4, <3>5, <3>6
    <2> QED BY <2>3, <2>4
  <1> DEFINE Fine(n) == g[n] # "error" => At(p + n, g[n]) /\ \A i \in 1..n : data[i].id = request
             M == {n \in Nat : n <= k => Fine(n) /\ (n = 0 \/ g[n] \in {"body", "done", "error"})}
  <1>10. 0 \in M
    <2>1. p + 0 = p
      OBVIOUS
    <2>2. Fine(0)
      BY <1>7, <2>1
    <2> QED BY <2>2
  <1> HIDE DEF Fine
  <1>11. ASSUME NEW n \in Nat, n \in M PROVE n + 1 \in M
    <2> SUFFICES ASSUME n + 1 <= k PROVE Fine(n + 1) /\ g[n + 1] \in {"body", "done", "error"}
      OBVIOUS
    <2>1. n < k /\ n \in 0..m /\ n + 1 \in 1..m /\ (n + 1) - 1 = n /\ n <= k
      BY <1>2, <1>9
    <2>2. g[n] \in {"status", "body"}
      BY <1>6, <1>9, <2>1 DEF ParserStages
    <2>3. At(p + n, g[n]) /\ \A i \in 1..n : data[i].id = request
      BY <1>11, <2>1, <2>2 DEF Fine
    <2>4. g[n + 1] = Parse(request, g[n], data[n + 1])
      BY <1>7, <2>1, <2>2
    <2>5. data[n + 1] = replies[(p + n) + 1] /\ p + n \in Nat /\ (p + n) + 1 <= Len(replies)
          /\ (p + n) + 1 = p + (n + 1)
      <3>1. data[n + 1] = replies[p + (n + 1)]
        BY <1>3, <2>1
      <3>2. p + n \in Nat /\ (p + n) + 1 <= Len(replies) /\ (p + n) + 1 = p + (n + 1)
        BY <1>1, <1>2, <2>1
      <3> QED BY <3>1, <3>2
    <2>6. PICK q, st, u, next : q = p + n /\ st = g[n] /\ u = data[n + 1] /\ next = g[n + 1]
      OBVIOUS
    <2> HIDE DEF M
    <2>7. /\ next \in {"body", "done", "error"}
          /\ next # "error" => At(q + 1, next) /\ u.id = request
      <3>1. /\ q \in Nat /\ q + 1 <= Len(replies) /\ st \in {"status", "body"} /\ At(q, st)
            /\ u = replies[q + 1] /\ next = Parse(request, st, u)
        BY <2>2, <2>3, <2>4, <2>5, <2>6
      <3> QED BY <3>1, ParseStep
    <2>8. \A i \in 1..(n + 1) : i \in 1..n \/ i = n + 1
      OBVIOUS
    <2>9. g[n + 1] # "error" => \A i \in 1..(n + 1) : data[i].id = request
      BY <2>3, <2>6, <2>7, <2>8
    <2>10. g[n + 1] # "error" => At(p + (n + 1), g[n + 1])
      BY <2>5, <2>6, <2>7
    <2> QED BY <2>6, <2>7, <2>9, <2>10 DEF Fine
  <1> HIDE DEF M
  <1>12. Nat \subseteq M
    BY <1>10, <1>11, Induction
  <1>13. k \in M /\ k <= k /\ k # 0
    BY <1>2, <1>9, <1>12
  <1>14. Fine(k) /\ g[k] \in {"body", "done", "error"}
    BY <1>13 DEF M
  <1> QED BY <1>1, <1>3, <1>4, <1>8, <1>9, <1>14 DEF Fine

\* Behind the reply to the last request it was sent, the origin has sent nothing.
LEMMA NothingMore ==
  ASSUME ClientInv, Replied, forwarded = UpTo(Turn), NEW p, At(p, "done")
  PROVE  p = Len(replies)
  <1>1. /\ Len(Chain) \in Nat \ {0} /\ Turn \in 1..Len(Chain) /\ request = Chain[Turn]
        /\ p \in 1..Len(replies) /\ Len(replies) \in Nat \ {0}
    BY ChainRises, RepliesAre DEF ClientInv, QueueIsRest, At, Ended
  <1>2. PICK C : C = Chain
    OBVIOUS
  <1>3. /\ \A i \in 1..Len(C) : C[i] \in Int
        /\ \A i, j \in 1..Len(C) : i < j => C[i] < C[j]
    <2>1. \A i \in 1..Len(C) : C[i] \in 0..Len(sent)
      BY <1>2, ChainRises
    <2>2. \A i, j \in 1..Len(C) : i < j => C[i] < C[j]
      BY <1>2, ChainRises
    <2>3. \A i \in 1..Len(C) : C[i] \in Int
      BY ONLY <2>1
    <2> QED BY <2>2, <2>3
  <1>4. ASSUME p # Len(replies) PROVE FALSE
    <2>1. p \in 1..(Len(replies) - 1) /\ p + 1 \in 1..Len(replies)
      BY <1>1, <1>4
    <2>2. NextReply(replies[p], replies[p + 1])
      BY <2>1 DEF Replied
    <2>3. replies[p].part # "greeting" /\ Final(replies[p]) /\ replies[p].id = C[Turn]
      BY <1>1, <1>2 DEF At, Ended
    <2>4. PICK j \in 1..(Len(C) - 1) : /\ replies[p].id = C[j] /\ replies[p + 1].id = C[j + 1]
                                       /\ replies[p + 1].part = "status"
      BY <1>2, <2>2, <2>3 DEF NextReply
    <2>5. j = Turn
      <3>1. j \in 1..Len(C) /\ Turn \in 1..Len(C) /\ C[j] = C[Turn]
        BY <1>1, <1>2, <2>3, <2>4
      <3>2. ~(j < Turn) /\ ~(Turn < j)
        BY <1>3, <3>1
      <3> QED BY <1>1, <3>1, <3>2
    <2>6. PICK t \in 0..Len(Chain) : Served(t)
      BY DEF Replied
    <2>7. t <= Turn
      <3>1. Len(UpTo(t)) <= Len(UpTo(Turn))
        BY <2>6 DEF Served
      <3>2. Turn < t => Len(UpTo(Turn)) < Len(UpTo(t))
        BY <1>1, UpToLength
      <3>3. Len(UpTo(t)) \in Nat /\ Len(UpTo(Turn)) \in Nat
        BY <1>1, UpToLength
      <3>4. t \in Nat /\ Turn \in Nat
        BY <1>1
      <3> QED BY ONLY <3>1, <3>2, <3>3, <3>4
    <2>8. PICK i \in 1..t : replies[p + 1].id = C[i]
      BY <1>2, <2>1, <2>4, <2>6 DEF Served
    <2>9. i \in 1..Len(C) /\ j + 1 \in 1..Len(C) /\ i < j + 1 /\ C[i] = C[j + 1]
      BY <1>1, <1>2, <2>4, <2>5, <2>7, <2>8
    <2> QED BY <1>3, <2>9
  <1> QED BY <1>4

-----------------------------------------------------------------------------
(* What reaches the client.                                                *)

LEMMA PrefixOfConcat ==
  ASSUME NEW S, NEW x \in Seq(S), NEW y \in Seq(S)
  PROVE  IsPrefix(x, x \o y)
  <1>1. /\ Len(x) \in Nat /\ Len(y) \in Nat /\ x \o y \in Seq(S) /\ Len(x \o y) = Len(x) + Len(y)
    BY LenProperties, ConcatProperties
  <1>2. 0 \in Nat /\ 0 + 1 = 1 /\ Len(x) \in 0..Len(x) /\ Len(x) <= Len(x \o y)
    BY <1>1
  <1>3. SubSeq(x \o y, 0 + 1, Len(x)) = SubSeq(x, 0 + 1, Len(x))
    BY <1>2, WindowStays
  <1> QED BY <1>2, <1>3 DEF IsPrefix

LEMMA PrefixGrows ==
  ASSUME NEW S, NEW x \in Seq(S), NEW y \in Seq(S), NEW z \in Seq(S), IsPrefix(x, y)
  PROVE  IsPrefix(x, y \o z)
  <1>1. /\ Len(x) \in Nat /\ Len(y) \in Nat /\ Len(z) \in Nat /\ Len(y \o z) = Len(y) + Len(z)
        /\ Len(x) <= Len(y) /\ SubSeq(x, 1, Len(x)) = SubSeq(y, 1, Len(x))
    BY LenProperties, ConcatProperties DEF IsPrefix
  <1>2. 0 \in Nat /\ 0 + 1 = 1 /\ Len(x) \in 0..Len(y) /\ Len(x) <= Len(y \o z)
    BY <1>1
  <1>3. SubSeq(y \o z, 0 + 1, Len(x)) = SubSeq(y, 0 + 1, Len(x))
    BY <1>2, WindowStays
  <1> QED BY <1>1, <1>2, <1>3 DEF IsPrefix

LEMMA RepliesAreUnits == Seq(ReplyUnits) \subseteq Seq(Units) /\ Seq(LineUnits) \subseteq Seq(Units)
  <1>1. ReplyUnits \subseteq Units /\ LineUnits \subseteq Units
    BY DEF Units
  <1> QED BY <1>1, SeqMonotonic

LEMMA OriginConcat ==
  ASSUME NEW s \in Seq(Units), NEW t \in Seq(Units)
  PROVE  /\ OfOrigin(s) \in Seq(Units) /\ s \o t \in Seq(Units)
         /\ OfOrigin(s \o t) = OfOrigin(s) \o OfOrigin(t)
  <1>1. s \o t \in Seq(Units)
    BY ConcatProperties
  <1>2. /\ Filter(s, Relayed) \in Seq(Units)
        /\ Filter(s \o t, Relayed) = Filter(s, Relayed) \o Filter(t, Relayed)
    BY FilterConcat
  <1> QED BY <1>1, <1>2, OfOriginIs

LEMMA NothingOfOrigin ==
  ASSUME NEW s \in Seq(Units),
         \A i \in 1..Len(s) : s[i].part = "notice" \/ s[i].part = "line" \/ s[i].id = Capa
  PROVE  OfOrigin(s) = <<>>
  <1>1. \A i \in 1..Len(s) : s[i] \notin Relayed
    BY DEF Relayed
  <1>2. Filter(s, Relayed) = <<>>
    BY <1>1, FilterNone
  <1> QED BY <1>2, OfOriginIs

LEMMA NoticeIs ==
  ASSUME NEW r \in Ids
  PROVE  Notice(r) \in Seq(ReplyUnits) /\ Notice(r) \in Seq(Units) /\ OfOrigin(Notice(r)) = <<>>
  <1>1. PICK u : u = [id |-> r, part |-> "notice", mark |-> "none"]
    OBVIOUS
  <1>2. u \in ReplyUnits /\ u.part = "notice"
    BY <1>1 DEF ReplyUnits
  <1>3. PICK s : s = <<u>>
    OBVIOUS
  <1>4. s \in Seq(ReplyUnits) /\ Len(s) = 1 /\ s[1] = u
    BY ONLY <1>2, <1>3
  <1>5. s \in Seq(Units) /\ \A i \in 1..Len(s) : s[i].part = "notice"
    BY <1>2, <1>4, RepliesAreUnits
  <1>6. OfOrigin(s) = <<>>
    BY <1>5, NothingOfOrigin
  <1>7. Notice(r) = s
    BY <1>1, <1>3 DEF Notice, ReplyUnit
  <1> QED BY <1>4, <1>5, <1>6, <1>7

\* What has been relayed is a prefix of what the origin sent.
LEMMA OriginPrefix ==
  ASSUME replies \in Seq(ReplyUnits), NEW x \in Seq(Units), NEW y \in Seq(Units), NEW p \in 0..Len(replies),
         OfOrigin(x \o y) = OfOrigin(SubSeq(replies, 1, p))
  PROVE  IsPrefix(OfOrigin(x), OfOrigin(replies))
  <1>1. replies \in Seq(Units) /\ Len(replies) \in Nat /\ 0 + 1 = 1 /\ p \in 0..Len(replies) /\ Len(replies) \in p..Len(replies)
    BY RepliesAreUnits, LenProperties
  <1>2. PICK a, b : a = SubSeq(replies, 1, p) /\ b = SubSeq(replies, p + 1, Len(replies))
    OBVIOUS
  <1>3. a \in Seq(Units) /\ b \in Seq(Units)
    <2>1. SubSeq(replies, 0 + 1, p) \in Seq(Units)
      BY <1>1, Window
    <2>2. SubSeq(replies, p + 1, Len(replies)) \in Seq(Units)
      <3>1. p \in Nat /\ Len(replies) \in p..Len(replies)
        BY ONLY <1>1
      <3> QED BY ONLY <1>1, <3>1, Window
    <2> QED BY ONLY <1>1, <1>2, <2>1, <2>2
  <1>4. a \o b = replies
    <2>1. SubSeq(replies, 0 + 1, p) \o SubSeq(replies, p + 1, Len(replies)) = SubSeq(replies, 0 + 1, Len(replies))
      BY <1>1, WindowGrows
    <2>2. SubSeq(replies, 1, Len(replies)) = replies
      BY <1>1, SubSeqFull
    <2> QED BY <1>1, <1>2, <2>1, <2>2
  <1>5. PICK X, Y, B : X = OfOrigin(x) /\ Y = OfOrigin(y) /\ B = OfOrigin(b)
    OBVIOUS
  <1>6. X \in Seq(Units) /\ Y \in Seq(Units) /\ B \in Seq(Units)
    BY <1>3, <1>5, OriginConcat
  <1>7. OfOrigin(replies) = (X \o Y) \o B
    <2>1. OfOrigin(a \o b) = OfOrigin(a) \o OfOrigin(b)
      BY <1>3, OriginConcat
    <2>2. OfOrigin(x \o y) = X \o Y
      BY <1>5, OriginConcat
    <2> QED BY <1>2, <1>4, <1>5, <2>1, <2>2
  <1>8. (X \o Y) \o B = X \o (Y \o B) /\ Y \o B \in Seq(Units)
    <2>1. (X \o Y) \o B = X \o (Y \o B)
      BY ONLY <1>6, ConcatAssociative, SMTT(30)
    <2>2. Y \o B \in Seq(Units)
      BY ONLY <1>6, ConcatProperties, Zenon
    <2> QED BY <2>1, <2>2
  <1>9. IsPrefix(X, X \o (Y \o B))
    BY <1>6, <1>8, PrefixOfConcat
  <1> QED BY <1>5, <1>7, <1>8, <1>9

\* Units of the origin that are passed on.
LEMMA OriginPasses ==
  ASSUME NEW x \in Seq(Units), NEW y \in Seq(Units), NEW z \in Seq(Units), NEW a \in Seq(Units),
         OfOrigin(x \o y) = OfOrigin(a)
  PROVE  OfOrigin(x \o (y \o z)) = OfOrigin(a \o z) /\ OfOrigin((x \o y) \o z) = OfOrigin(a \o z)
  <1>1. x \o y \in Seq(Units) /\ x \o (y \o z) = (x \o y) \o z
    <2>1. x \o y \in Seq(Units)
      BY ConcatProperties
    <2>2. x \o (y \o z) = (x \o y) \o z
      <3>1. x \in Seq(Units) /\ y \in Seq(Units) /\ z \in Seq(Units)
        OBVIOUS
      <3> QED BY ONLY <3>1, ConcatAssociative, SMTT(30)
    <2> QED BY <2>1, <2>2
  <1>2. OfOrigin((x \o y) \o z) = OfOrigin(x \o y) \o OfOrigin(z)
    BY <1>1, OriginConcat
  <1>3. OfOrigin(a \o z) = OfOrigin(a) \o OfOrigin(z)
    BY OriginConcat
  <1> QED BY <1>1, <1>2, <1>3

LEMMA AnsweredKept ==
  ASSUME Later, NEW S, delivered \in Seq(S), NEW x \in Seq(S), delivered' = delivered \o x,
         NEW r \in 0..Len(sent), AnsweredTo(r)
  PROVE  AnsweredTo(r)'
  <1>1. PICK i \in 1..Len(delivered) : delivered[i].id = r /\ Final(delivered[i])
    BY DEF AnsweredTo
  <1>2. PICK u : u = delivered[i]
    OBVIOUS
  <1>3. i \in 1..Len(delivered') /\ delivered'[i] = u
    <2>1. Len(delivered) \in Nat /\ Len(x) \in Nat /\ Len(delivered') = Len(delivered) + Len(x)
      BY LenProperties, ConcatProperties
    <2>2. i \in 1..(Len(delivered) + Len(x)) /\ i <= Len(delivered)
      BY <2>1
    <2> QED BY <1>2, <2>1, <2>2, ConcatProperties
  <1>4. Final(u)'
    BY <1>1, <1>2, FinalKept
  <1> QED BY <1>1, <1>2, <1>3, <1>4 DEF AnsweredTo

-----------------------------------------------------------------------------
(* request_to_buffer.                                                      *)

\* The count of requests that fit is found.
LEMMA MarshalledIs ==
  ASSUME WrittenIsSent, NEW b, Room(b) \in Nat, NEW rs \in Seq(0..Len(sent))
  PROVE  \E n \in 0..Len(rs) :
           /\ Marshalled(b, rs) = [buf |-> Put(b, LinesOf(SubSeq(rs, 1, n))), count |-> n]
           /\ SubSeq(rs, 1, n) \in Seq(0..Len(sent))
           /\ Len(LinesOf(SubSeq(rs, 1, n))) <= Room(b)
           /\ n < Len(rs) => ~(Len(LinesOf(SubSeq(rs, 1, n + 1))) <= Room(b))
  <1> DEFINE L(n) == LinesOf(SubSeq(rs, 1, n))
             Is(n) == /\ \A m \in 1..n : Fits(b, Len(L(m)))
                      /\ n < Len(rs) => ~Fits(b, Len(L(n + 1)))
  <1>1. Len(rs) \in Nat
    BY LenProperties
  <1>2. Marshalled(b, rs) = LET n == CHOOSE n \in 0..Len(rs) : Is(n)
                            IN  [buf |-> Put(b, L(n)), count |-> n]
    BY DEF Marshalled
  <1>3. \A n \in 0..Len(rs) : SubSeq(rs, 1, n) \in Seq(0..Len(sent))
    <2> SUFFICES ASSUME NEW n \in 0..Len(rs) PROVE SubSeq(rs, 1, n) \in Seq(0..Len(sent))
      OBVIOUS
    <2>1. 0 \in Nat /\ n \in 0..Len(rs) /\ 0 + 1 = 1
      OBVIOUS
    <2>2. SubSeq(rs, 0 + 1, n) \in Seq(0..Len(sent))
      BY <2>1, Window
    <2> QED BY <2>1, <2>2
  <1>4. Len(L(0)) = 0
    <2>1. SubSeq(rs, 1, 0) = <<>>
      OBVIOUS
    <2>2. LinesOf(<<>>) = <<>> /\ Len(<<>>) = 0
      BY LinesOfFew, EmptySeq
    <2> QED BY <2>1, <2>2
  <1> HIDE DEF L
  <1>5. \E n \in 0..Len(rs) : Is(n)
    <2>1. PICK T : T = {m \in 1..Len(rs) : ~Fits(b, Len(L(m)))}
      OBVIOUS
    <2>2. CASE T = {}
      <3>1. Is(Len(rs)) /\ Len(rs) \in 0..Len(rs)
        BY <1>1, <2>1, <2>2
      <3> QED BY <3>1
    <2>3. CASE T # {}
      <3>1. T \subseteq Nat
        BY <1>1, <2>1
      <3>2. PICK m \in T : \A n \in T : m <= n
        BY <2>3, <3>1, Least
      <3>3. m \in 1..Len(rs) /\ m - 1 \in 0..Len(rs) /\ (m - 1) + 1 = m /\ ~Fits(b, Len(L(m)))
        BY <1>1, <2>1, <3>2
      <3>4. ASSUME NEW n \in 1..(m - 1) PROVE Fits(b, Len(L(n)))
        <4>1. n \in 1..Len(rs) /\ ~(m <= n)
          BY <1>1, <3>3
        <4> QED BY <2>1, <3>2, <4>1
      <3>5. Is(m - 1)
        BY <3>3, <3>4
      <3> QED BY <3>3, <3>5
    <2> QED BY <2>2, <2>3
  <1>6. PICK n \in 0..Len(rs) : Is(n) /\ Marshalled(b, rs) = [buf |-> Put(b, L(n)), count |-> n]
    <2> HIDE DEF Is
    <2> QED BY <1>2, <1>5
  <1>7. Len(L(n)) <= Room(b)
    <2>1. CASE n = 0
      BY <1>4, <2>1
    <2>2. CASE n # 0
      <3>1. n \in 1..n
        BY <1>1, <2>2
      <3> QED BY <3>1, <1>6 DEF Fits
    <2> QED BY <2>1, <2>2
  <1>8. n < Len(rs) => ~(Len(L(n + 1)) <= Room(b))
    BY <1>6 DEF Fits
  <1> QED BY <1>3, <1>6, <1>7, <1>8 DEF L

\* A line that fits the buffer goes into an empty one.
LEMMA MarshalledOne ==
  ASSUME WrittenIsSent, NEW r \in 0..Len(sent), Size(r) <= BufferSize
  PROVE  Marshalled(EmptyBuffer, <<r>>) = [buf |-> Put(EmptyBuffer, Line(r)), count |-> 1]
  <1>1. PICK rs : rs = <<r>>
    OBVIOUS
  <1>2. rs \in Seq(0..Len(sent)) /\ Len(rs) = 1
    BY <1>1
  <1>3. Room(EmptyBuffer) = BufferSize /\ BufferSize \in Nat
    BY EmptySound, BufferSizeAssumption
  <1>4. PICK n \in 0..1 :
          /\ Marshalled(EmptyBuffer, rs) = [buf |-> Put(EmptyBuffer, LinesOf(SubSeq(rs, 1, n))), count |-> n]
          /\ n < 1 => ~(Len(LinesOf(SubSeq(rs, 1, n + 1))) <= BufferSize)
    BY <1>2, <1>3, MarshalledIs
  <1>5. SubSeq(rs, 1, 1) = rs
    BY <1>2, SubSeqFull
  <1>6. LinesOf(rs) = Line(r)
    BY <1>1, LinesOfFew
  <1>7. Len(Line(r)) <= BufferSize
    BY LineIs
  <1>8. n = 1
    <2>1. ASSUME n = 0 PROVE FALSE
      <3>1. n < 1 /\ n + 1 = 1
        BY <2>1
      <3>2. ~(Len(LinesOf(SubSeq(rs, 1, 1))) <= BufferSize)
        BY <1>4, <3>1
      <3> QED BY <1>5, <1>6, <1>7, <3>2
    <2> QED BY <2>1
  <1> QED BY <1>1, <1>4, <1>5, <1>6, <1>8

\* What goes into an empty buffer fits it.
LEMMA MarshalsOne ==
  ASSUME WrittenIsSent, NEW r \in 0..Len(sent), Marshalled(EmptyBuffer, <<r>>).count = 1
  PROVE  Size(r) <= BufferSize
  <1>1. PICK rs : rs = <<r>>
    OBVIOUS
  <1>2. rs \in Seq(0..Len(sent)) /\ Len(rs) = 1
    BY <1>1
  <1>3. Room(EmptyBuffer) = BufferSize /\ BufferSize \in Nat
    BY EmptySound, BufferSizeAssumption
  <1>4. PICK n \in 0..1 :
          /\ Marshalled(EmptyBuffer, rs) = [buf |-> Put(EmptyBuffer, LinesOf(SubSeq(rs, 1, n))), count |-> n]
          /\ Len(LinesOf(SubSeq(rs, 1, n))) <= BufferSize
    BY <1>2, <1>3, MarshalledIs
  <1>5. n = 1 /\ SubSeq(rs, 1, 1) = rs
    <2>1. PICK m, b : m = Marshalled(EmptyBuffer, rs) /\ b = Put(EmptyBuffer, LinesOf(SubSeq(rs, 1, n)))
      OBVIOUS
    <2>2. m = [buf |-> b, count |-> n]
      BY <1>4, <2>1
    <2>3. m.count = n
      BY ONLY <2>2
    <2>4. m.count = 1
      BY <1>1, <2>1
    <2>5. SubSeq(rs, 1, Len(rs)) = rs
      BY <1>2, SubSeqFull
    <2> QED BY <1>2, <2>3, <2>4, <2>5
  <1>6. LinesOf(rs) = Line(r) /\ Len(Line(r)) = Size(r)
    BY <1>1, LinesOfFew, LineIs
  <1> QED BY <1>4, <1>5, <1>6

\* The queue holds each request once.
LEMMA NodesAre ==
  ASSUME ClientInv, NEW s, s = queue.nodes
  PROVE  /\ s \in Seq(1..MaxCommands) /\ s \in Seq(0..Len(sent)) /\ Len(s) \in Nat
         /\ Len(Chain) \in Nat /\ Turn \in 1..Len(Chain) /\ Turn + Len(s) = Len(Chain)
         /\ \A i \in 1..Len(s) : s[i] = Chain[Turn + i] /\ s[i] # Null
         /\ \A i, j \in 1..Len(s) : s[i] = s[j] => i = j
  <1>1. PICK C, t, n : C = Chain /\ t = Turn /\ n = Len(s)
    OBVIOUS
  <1>2. s \in Seq(1..MaxCommands) /\ n \in Nat /\ \A i \in 1..n : s[i] = C[t + i] /\ s[i] \in 1..MaxCommands
    BY <1>1, LenProperties, ElementOfSeq DEF ClientInv, QueueIsRest
  <1>3. Len(C) \in Nat /\ t \in 1..Len(C) /\ t + n = Len(C)
    <2>1. Len(C) \in Nat /\ t = Len(C) - n /\ t \in 1..Len(C)
      BY <1>1, ChainRises DEF ClientInv, QueueIsRest, Turn
    <2> QED BY <1>2, <2>1
  <1>4. /\ \A i \in 1..Len(C) : C[i] \in 0..Len(sent)
        /\ \A i, j \in 1..Len(C) : i < j => C[i] < C[j]
    BY <1>1, ChainRises
  <1>5. \A i \in 1..n : t + i \in 1..Len(C)
    BY <1>2, <1>3
  <1>6. ASSUME NEW i \in 1..n, NEW j \in 1..n, s[i] = s[j] PROVE i = j
    <2>1. C[t + i] = C[t + j] /\ C[t + i] \in Int
      BY <1>2, <1>4, <1>5, <1>6
    <2>2. ~(t + i < t + j) /\ ~(t + j < t + i)
      BY <1>4, <1>5, <2>1
    <2> QED BY <1>3, <2>2
  <1>7. \A i \in 1..n : s[i] \in 0..Len(sent)
    BY <1>2, <1>4, <1>5
  <1>8. s \in Seq(0..Len(sent))
    BY ONLY <1>1, <1>2, <1>7, SeqDef
  <1>9. \A i \in 1..n : s[i] # Null
    BY <1>2 DEF Null
  <1> QED BY <1>1, <1>2, <1>3, <1>6, <1>8, <1>9

\* The cursor behind the a-th request of the queue.
CursorAt(a) == queue.current = IF a < Len(queue.nodes) THEN queue.nodes[a + 1] ELSE Null

LEMMA WalkIs ==
  ASSUME ClientInv, NEW s, s = queue.nodes, NEW a \in 0..Len(s), CursorAt(a)
  PROVE  FromCurrent(queue) = SubSeq(s, a + 1, Len(s)) /\ ~Dangling(queue)
  <1>1. /\ Len(s) \in Nat /\ \A i \in 1..Len(s) : s[i] # Null
        /\ \A i, j \in 1..Len(s) : s[i] = s[j] => i = j
    BY NodesAre
  <1>2. CASE a = Len(s)
    <2>1. queue.current = Null /\ SubSeq(s, a + 1, Len(s)) = <<>>
      BY <1>1, <1>2 DEF CursorAt
    <2> QED BY <2>1 DEF FromCurrent, Dangling
  <1>3. CASE a # Len(s)
    <2>1. a < Len(s) /\ a + 1 \in 1..Len(s)
      BY <1>1, <1>3
    <2>2. PICK x : x = s[a + 1] /\ queue.current = x
      BY <2>1 DEF CursorAt
    <2>3. x # Null
      BY <1>1, <2>1, <2>2
    <2>4. FromCurrent(queue) = LET at == CHOOSE i \in 1..Len(s) : s[i] = x IN SubSeq(s, at, Len(s))
      BY <2>2, <2>3 DEF FromCurrent
    <2>5. (CHOOSE i \in 1..Len(s) : s[i] = x) = a + 1
      <3>1. \A i \in 1..Len(s) : s[i] = x <=> i = a + 1
        BY <1>1, <2>1, <2>2
      <3> QED BY <2>1, <3>1
    <2>6. ~Dangling(queue)
      BY <2>1, <2>2 DEF Dangling, Holds
    <2> QED BY <2>4, <2>5, <2>6
  <1> QED BY <1>2, <1>3

\* What the lines of the queue add.
LEMMA UpToNodes ==
  ASSUME ClientInv, NEW s, s = queue.nodes, NEW a \in 0..Len(s), NEW b \in a..Len(s)
  PROVE  /\ UpTo(Turn + b) = UpTo(Turn + a) \o LinesOf(SubSeq(s, a + 1, b))
         /\ SubSeq(s, a + 1, b) \in Seq(0..Len(sent))
  <1>1. PICK C, t, n : C = Chain /\ t = Turn /\ n = Len(s)
    OBVIOUS
  <1>2. /\ s \in Seq(0..Len(sent)) /\ n \in Nat /\ Len(C) \in Nat /\ t \in 1..Len(C) /\ t + n = Len(C)
        /\ \A i \in 1..n : s[i] = C[t + i]
    BY <1>1, NodesAre
  <1>3. /\ a \in Nat /\ b \in a..Len(s) /\ t + a \in Nat /\ t + b \in (t + a)..Len(C) /\ t + a \in 0..Len(C)
        /\ (t + b) - (t + a) = b - a /\ b - a \in Nat
    BY <1>1, <1>2
  <1>4. C \in Seq(0..Len(sent))
    BY <1>1, ChainRises
  <1>5. PICK x, y : x = SubSeq(s, a + 1, b) /\ y = SubSeq(C, (t + a) + 1, t + b)
    OBVIOUS
  <1>6. x \in Seq(0..Len(sent)) /\ Len(x) = b - a /\ \A i \in 1..(b - a) : x[i] = s[a + i]
    <2>1. /\ SubSeq(s, a + 1, b) \in Seq(0..Len(sent)) /\ Len(SubSeq(s, a + 1, b)) = b - a
          /\ \A i \in 1..(b - a) : SubSeq(s, a + 1, b)[i] = s[a + i]
      BY ONLY <1>2, <1>3, Window, SMTT(60)
    <2> QED BY <1>5, <2>1
  <1>7. y \in Seq(0..Len(sent)) /\ Len(y) = b - a /\ \A i \in 1..(b - a) : y[i] = C[(t + a) + i]
    <2>1. /\ SubSeq(C, (t + a) + 1, t + b) \in Seq(0..Len(sent))
          /\ Len(SubSeq(C, (t + a) + 1, t + b)) = (t + b) - (t + a)
          /\ \A i \in 1..((t + b) - (t + a)) : SubSeq(C, (t + a) + 1, t + b)[i] = C[(t + a) + i]
      <3>1. C \in Seq(0..Len(sent)) /\ t + a \in Nat /\ t + b \in (t + a)..Len(C)
        BY <1>3, <1>4
      <3> QED BY ONLY <3>1, Window
    <2> QED BY <1>3, <1>5, <2>1
  <1>8. ASSUME NEW i \in 1..(b - a) PROVE x[i] = y[i]
    <2>1. a + i \in 1..n /\ t + (a + i) = (t + a) + i
      BY <1>1, <1>2, <1>3
    <2> QED BY <1>2, <1>6, <1>7, <2>1
  <1>9. x = y
    BY <1>6, <1>7, <1>8, SeqEqual
  <1>10. UpTo(t + b) = UpTo(t + a) \o LinesOf(y)
    BY <1>1, <1>3, <1>5, UpToGrows
  <1> QED BY <1>1, <1>5, <1>6, <1>9, <1>10

LEMMA LinesBuffered ==
  ASSUME WrittenIsSent, NEW b, Sound(b), b.data \in Seq(LineUnits), NEW rs \in Seq(0..Len(sent)),
         Len(LinesOf(rs)) <= Room(b)
  PROVE  /\ Sound(Put(b, LinesOf(rs))) /\ Put(b, LinesOf(rs)).data = b.data \o LinesOf(rs)
         /\ b.data \o LinesOf(rs) \in Seq(LineUnits) /\ LinesOf(rs) \in Seq(LineUnits)
  <1>1. PICK x, T : x = LinesOf(rs) /\ T = 0..Len(sent)
    OBVIOUS
  <1>2. T \in SUBSET (0..Len(sent)) /\ rs \in Seq(T)
    BY <1>1
  <1>3. x \in Seq(UnitsOf(T))
    BY <1>1, <1>2, LinesOfConcat
  <1>4. x \in Seq(LineUnits) /\ x \in Seq(Units)
    <2>1. UnitsOf(T) \subseteq LineUnits
      BY DEF UnitsOf
    <2> QED BY <1>3, <2>1, SeqMonotonic, RepliesAreUnits
  <1>5. Sound(Put(b, x)) /\ Put(b, x).data = b.data \o x
    BY <1>1, <1>4, PutSound
  <1>6. b.data \o x \in Seq(LineUnits)
    BY <1>4, ConcatProperties
  <1> QED BY <1>1, <1>4, <1>5, <1>6

\* What a call of request_to_buffer leaves when c more requests have fitted.
Carried(call, a, c) ==
  LET s == queue.nodes IN
  IF a + c = Len(s) THEN call.ret = Null /\ call.queue = Rewind(queue)
  ELSE /\ call.ret = s[(a + c) + 1] /\ call.queue.nodes = s
       /\ call.queue = [nodes |-> s, current |-> call.queue.current]
       /\ call.queue.current = IF (a + c) + 1 < Len(s) THEN s[((a + c) + 1) + 1] ELSE Null

RestBuffered(b) ==
  LET rest == FromCurrent(queue)
      m    == Marshalled(b, rest)
  IN  IF m.count = Len(rest)
      THEN [buf |-> m.buf, queue |-> Rewind(queue), ret |-> Null]
      ELSE [buf |-> m.buf, queue |-> Walked(queue, m.count + 1), ret |-> rest[m.count + 1]]

\* c requests from behind the a-th on have been put behind what b holds.
RestPassed(z, s, b, a, c) ==
  /\ Carried(z, a, c) /\ Sound(z.buf) /\ z.buf.data \in Seq(LineUnits)
  /\ z.buf.data = b.data \o LinesOf(SubSeq(s, a + 1, a + c))

LEMMA BufferRest ==
  ASSUME ClientInv, queue = [nodes |-> queue.nodes, current |-> queue.current],
         NEW s, s = queue.nodes, NEW a \in 0..Len(s), CursorAt(a),
         NEW b, Sound(b), b.data \in Seq(LineUnits)
  PROVE  \E c \in 0..(Len(s) - a) : RestPassed(RestBuffered(b), s, b, a, c)
  <1>1. PICK rest, m, call : rest = FromCurrent(queue) /\ m = Marshalled(b, rest) /\ call = RestBuffered(b)
    OBVIOUS
  <1>2. s \in Seq(0..Len(sent)) /\ Len(s) \in Nat /\ rest = SubSeq(s, a + 1, Len(s)) /\ WrittenIsSent
    BY <1>1, NodesAre, WalkIs DEF ClientInv
  <1>3. /\ rest \in Seq(0..Len(sent)) /\ Len(rest) = Len(s) - a
        /\ \A i \in 1..(Len(s) - a) : rest[i] = s[a + i]
    <2>1. a \in Nat /\ Len(s) \in a..Len(s)
      BY <1>2
    <2>2. SubSeq(s, a + 1, Len(s)) \in Seq(0..Len(sent)) /\ Len(SubSeq(s, a + 1, Len(s))) = Len(s) - a
          /\ \A i \in 1..(Len(s) - a) : SubSeq(s, a + 1, Len(s))[i] = s[a + i]
      BY ONLY <1>2, <2>1, Window
    <2> QED BY <1>2, <2>2
  <1>4. Room(b) \in Nat
    BY RoomIs
  <1>5. PICK c \in 0..Len(rest) :
          /\ m = [buf |-> Put(b, LinesOf(SubSeq(rest, 1, c))), count |-> c]
          /\ SubSeq(rest, 1, c) \in Seq(0..Len(sent))
          /\ Len(LinesOf(SubSeq(rest, 1, c))) <= Room(b)
    BY <1>1, <1>2, <1>3, <1>4, MarshalledIs
  <1>6. c \in 0..(Len(s) - a) /\ c \in Nat
    BY <1>2, <1>3
  <1>7. SubSeq(rest, 1, c) = SubSeq(s, a + 1, a + c)
    <2>1. a \in Nat /\ Len(s) \in a..Len(s) /\ 0 \in Nat /\ c \in 0..(Len(s) - a) /\ a + 0 + 1 = a + 1 /\ 0 + 1 = 1
      BY <1>2, <1>6
    <2>2. SubSeq(SubSeq(s, a + 1, Len(s)), 0 + 1, c) = SubSeq(s, a + 0 + 1, a + c)
      BY ONLY <1>2, <2>1, WindowOfWindow
    <2> QED BY <1>2, <2>1, <2>2
  <1>8. PICK rs : rs = SubSeq(rest, 1, c)
    OBVIOUS
  <1>9. m.buf = Put(b, LinesOf(rs)) /\ m.count = c
    BY <1>5, <1>8
  <1>10. Sound(m.buf) /\ m.buf.data = b.data \o LinesOf(rs) /\ m.buf.data \in Seq(LineUnits)
    <2>1. rs \in Seq(0..Len(sent)) /\ Len(LinesOf(rs)) <= Room(b)
      BY <1>5, <1>8
    <2>2. /\ Sound(Put(b, LinesOf(rs))) /\ Put(b, LinesOf(rs)).data = b.data \o LinesOf(rs)
          /\ b.data \o LinesOf(rs) \in Seq(LineUnits)
      BY <1>2, <2>1, LinesBuffered
    <2> QED BY <1>9, <2>2
  <1>12. PICK l, r : /\ l = Len(s) /\ r = Len(rest) /\ l \in Nat /\ r = l - a /\ a \in 0..l
                     /\ c \in 0..(l - a) /\ c \in Nat
    BY <1>2, <1>3, <1>6
  <1>11. call.buf = m.buf /\ Carried(call, a, c)
    <2>1. CASE c = Len(rest)
      <3>1. call = [buf |-> m.buf, queue |-> Rewind(queue), ret |-> Null]
        BY <1>1, <1>9, <2>1 DEF RestBuffered
      <3>2. a + c = Len(s)
        BY <1>2, <1>3, <2>1
      <3> QED BY <3>1, <3>2 DEF Carried
    <2>2. CASE c # Len(rest)
      <3>1. call = [buf |-> m.buf, queue |-> Walked(queue, c + 1), ret |-> rest[c + 1]]
        BY <1>1, <1>9, <2>2 DEF RestBuffered
      <3>2. c + 1 \in 1..(Len(s) - a) /\ a + (c + 1) = (a + c) + 1 /\ a + c # Len(s)
        <4>1. c # r
          BY <1>12, <2>2
        <4>2. c + 1 \in 1..(l - a) /\ a + (c + 1) = (a + c) + 1 /\ a + c # l
          BY ONLY <1>12, <4>1
        <4> QED BY <1>12, <4>2
      <3>3. rest[c + 1] = s[(a + c) + 1]
        <4>1. rest[c + 1] = s[a + (c + 1)]
          BY <1>3, <3>2
        <4> QED BY <3>2, <4>1
      <3>4. PICK e : e = IF c + 1 < Len(rest) THEN rest[(c + 1) + 1] ELSE Null
        OBVIOUS
      <3>5. e = IF (a + c) + 1 < Len(s) THEN s[((a + c) + 1) + 1] ELSE Null
        <4>1. c + 1 < Len(rest) <=> (a + c) + 1 < Len(s)
          BY <1>2, <1>3, <1>6, SMTT(60)
        <4>2. ASSUME c + 1 < Len(rest) PROVE rest[(c + 1) + 1] = s[((a + c) + 1) + 1]
          <5>1. (c + 1) + 1 \in 1..(Len(s) - a) /\ a + ((c + 1) + 1) = ((a + c) + 1) + 1
            <6>1. c + 1 < r
              BY <1>12, <4>2
            <6>2. (c + 1) + 1 \in 1..(l - a) /\ a + ((c + 1) + 1) = ((a + c) + 1) + 1
              BY ONLY <1>12, <6>1
            <6> QED BY <1>12, <6>2
          <5>2. rest[(c + 1) + 1] = s[a + ((c + 1) + 1)]
            BY <1>3, <5>1
          <5> QED BY <5>1, <5>2
        <4> QED BY <3>4, <4>1, <4>2
      <3>6. Walked(queue, c + 1) = [queue EXCEPT !.current = e]
        BY <1>1, <3>4 DEF Walked
      <3>7. [queue EXCEPT !.current = e] = [nodes |-> s, current |-> e]
        <4>1. PICK q, x : q = queue /\ x = queue.current
          OBVIOUS
        <4>2. q = [nodes |-> s, current |-> x]
          BY <4>1
        <4>3. [q EXCEPT !.current = e] = [nodes |-> s, current |-> e]
          BY ONLY <4>2
        <4> QED BY <4>1, <4>3
      <3>8. call.ret = s[(a + c) + 1] /\ call.queue = [nodes |-> s, current |-> e] /\ call.buf = m.buf
        BY <3>1, <3>3, <3>6, <3>7
      <3>9. call.queue.nodes = s /\ call.queue.current = e
        BY ONLY <3>8
      <3> QED BY <3>2, <3>5, <3>8, <3>9 DEF Carried
    <2> QED BY <2>1, <2>2
  <1> QED BY <1>1, <1>6, <1>7, <1>8, <1>10, <1>11 DEF RestPassed

\* The requests of the queue up to the e-th have been put into the buffer.
Passed(call, e) ==
  /\ call.queue = [nodes |-> queue.nodes, current |-> call.queue.current]
  /\ call.queue.current \in 0..MaxCommands
  /\ IF call.ret = Null THEN e = IF pipelining THEN Len(queue.nodes) ELSE 1
     ELSE /\ pipelining /\ e < Len(queue.nodes) /\ call.ret = queue.nodes[e + 1]
          /\ call.queue.current = IF e + 1 < Len(queue.nodes) THEN queue.nodes[(e + 1) + 1] ELSE Null
  /\ originEnd # "reset" => forwarded \o call.buf.data = UpTo(Turn + e)

LEMMA CarriedPasses ==
  ASSUME ClientInv, Scalars, pipelining, NEW call, NEW a \in 0..Len(queue.nodes),
         NEW c \in 0..(Len(queue.nodes) - a), Carried(call, a, c), queue.nodes # <<>>,
         originEnd # "reset" => forwarded \o call.buf.data = UpTo(Turn + (a + c))
  PROVE  Passed(call, a + c)
  <1>1. PICK s, e : s = queue.nodes /\ e = a + c
    OBVIOUS
  <1>2. /\ s \in Seq(1..MaxCommands) /\ Len(s) \in Nat /\ e \in 0..Len(s) /\ s # <<>>
        /\ \A i \in 1..Len(s) : s[i] # Null /\ s[i] \in 1..MaxCommands
    <2>1. s \in Seq(1..MaxCommands) /\ Len(s) \in Nat /\ \A i \in 1..Len(s) : s[i] # Null
      BY <1>1, NodesAre
    <2>2. \A i \in 1..Len(s) : s[i] \in 1..MaxCommands
      BY <2>1, ElementOfSeq
    <2>3. PICK l : l = Len(s) /\ l \in Nat /\ a \in 0..l /\ c \in 0..(l - a)
      BY <1>1, <2>1
    <2>4. e \in 0..Len(s)
      BY <1>1, <2>3
    <2> QED BY <1>1, <2>1, <2>2, <2>4
  <1>3. CASE e = Len(s)
    <2>1. call.ret = Null /\ call.queue = Rewind(queue)
      BY <1>1, <1>3 DEF Carried
    <2>2. PICK q, x : q = queue /\ x = queue.current
      OBVIOUS
    <2>3. q = [nodes |-> s, current |-> x]
      BY <1>1, <2>2 DEF Scalars
    <2>4. PeekData(q) = s[1]
      BY <1>1, <1>2, <2>2 DEF PeekData, IsEmpty
    <2>5. PICK y : y = s[1]
      OBVIOUS
    <2>6. [q EXCEPT !.current = y] = [nodes |-> s, current |-> y]
      BY ONLY <2>3
    <2>7. call.queue = [nodes |-> s, current |-> y]
      BY <2>1, <2>2, <2>4, <2>5, <2>6 DEF Rewind
    <2>8. call.queue.current = y
      BY ONLY <2>7
    <2>9. y \in 1..MaxCommands
      <3>1. 1 \in 1..Len(s)
        <4>1. Len(s) # 0
          BY <1>2, EmptySeq
        <4> QED BY <1>2, <4>1
      <3> QED BY <1>2, <2>5, <3>1
    <2>10. call.queue.current \in 0..MaxCommands
      BY <2>8, <2>9
    <2> QED BY <1>1, <1>3, <2>1, <2>7, <2>8, <2>10 DEF Passed
  <1>4. CASE e # Len(s)
    <2>1. /\ call.ret = s[e + 1] /\ call.queue = [nodes |-> s, current |-> call.queue.current]
          /\ call.queue.current = IF e + 1 < Len(s) THEN s[(e + 1) + 1] ELSE Null
      BY <1>1, <1>4 DEF Carried
    <2>2. e < Len(s) /\ e + 1 \in 1..Len(s) /\ (e + 1 < Len(s) => (e + 1) + 1 \in 1..Len(s))
      BY <1>2, <1>4
    <2>3. call.ret # Null
      BY <1>2, <2>1, <2>2
    <2>4. call.queue.current \in 0..MaxCommands
      <3>1. CASE e + 1 < Len(s)
        <4>1. call.queue.current \in 1..MaxCommands
          BY <1>2, <2>1, <2>2, <3>1
        <4> QED BY <4>1
      <3>2. CASE ~(e + 1 < Len(s))
        BY <2>1, <3>2, SessionAssumption DEF Null
      <3> QED BY <3>1, <3>2
    <2> QED BY <1>1, <2>1, <2>2, <2>3, <2>4 DEF Passed
  <1> QED BY <1>3, <1>4

LEMMA LineBuffered ==
  ASSUME ClientInv, NEW r \in 0..Len(sent), Size(r) <= BufferSize
  PROVE  /\ Sound(Put(EmptyBuffer, Line(r))) /\ Put(EmptyBuffer, Line(r)).data = Line(r)
         /\ Line(r) \in Seq(LineUnits)
  <1>1. PICK rs, x : rs = <<r>> /\ x = Line(r)
    OBVIOUS
  <1>2. rs \in Seq(0..Len(sent)) /\ WrittenIsSent
    BY <1>1 DEF ClientInv
  <1>3. LinesOf(rs) = x /\ Len(x) <= BufferSize
    BY <1>1, <1>2, LinesOfFew, LineIs
  <1>4. PICK b : b = EmptyBuffer
    OBVIOUS
  <1>5. Sound(b) /\ b.data = <<>> /\ Room(b) = BufferSize /\ b.data \in Seq(LineUnits)
    BY <1>4, EmptySound, EmptySeq DEF EmptyBuffer
  <1>6. Sound(Put(b, x)) /\ Put(b, x).data = b.data \o x /\ x \in Seq(LineUnits)
    BY <1>2, <1>3, <1>5, LinesBuffered
  <1>7. <<>> \o x = x
    BY <1>6, ConcatEmptySeq
  <1> QED BY <1>1, <1>4, <1>5, <1>6, <1>7

\* The walk of request_to_buffer starts on a node of the queue.
LEMMA QueueWalks ==
  ASSUME ClientInv, Scalars, Sending, state = "REQUEST", armed[2] = "WRITE"
  PROVE  ~IsEmpty(queue) /\ (pipelining \/ pend # Null => ~Dangling(queue))
  <1>1. PICK s : s = queue.nodes
    OBVIOUS
  <1>2. s \in Seq(0..Len(sent)) /\ Len(s) \in Nat /\ s # <<>> /\ Len(s) # 0
    <2>1. s \in Seq(0..Len(sent)) /\ Len(s) \in Nat
      BY <1>1, NodesAre
    <2>2. s # <<>>
      BY <1>1 DEF Sending
    <2> QED BY <2>1, <2>2, EmptySeq
  <1>3. ASSUME pend = Null, pipelining PROVE ~Dangling(queue)
    <2>1. queue.current = s[1]
      BY <1>1, <1>2, <1>3 DEF Sending, PeekData, IsEmpty
    <2>2. CursorAt(0) /\ 0 \in 0..Len(s)
      <3>1. 0 < Len(s) /\ 0 + 1 = 1
        BY <1>2
      <3> QED BY <1>1, <1>2, <2>1, <3>1 DEF CursorAt
    <2> QED BY <1>1, <2>2, WalkIs
  <1>4. ASSUME pend # Null PROVE ~Dangling(queue)
    <2>1. PICK j \in 1..Len(s) : InLoop(j)
      BY <1>1, <1>4 DEF Sending
    <2>2. CursorAt(j) /\ j \in 0..Len(s)
      BY <1>1, <1>2, <2>1 DEF InLoop, CursorAt
    <2> QED BY <1>1, <2>2, WalkIs
  <1> QED BY <1>1, <1>2, <1>3, <1>4 DEF IsEmpty

\* What request_to_buffer does, for a queue that is not empty, unless it meets a
\* line that no buffer holds.
LEMMA CallIs ==
  ASSUME ClientInv, Scalars, Sending, state = "REQUEST", armed[2] = "WRITE", ~TooLong(RequestToBuffer)
  PROVE  /\ Sound(RequestToBuffer.buf) /\ RequestToBuffer.buf.data \in Seq(LineUnits)
         /\ \E e \in 0..Len(queue.nodes) : Passed(RequestToBuffer, e)
  <1>1. PICK s, call : s = queue.nodes /\ call = RequestToBuffer
    OBVIOUS
  <1>2. /\ s \in Seq(0..Len(sent)) /\ Len(s) \in Nat \ {0} /\ s # <<>> /\ Turn \in Nat
        /\ Len(Chain) \in Nat /\ Turn \in 1..Len(Chain) /\ Turn + Len(s) = Len(Chain)
        /\ \A i \in 1..Len(s) : s[i] # Null /\ s[i] \in 0..Len(sent)
    <2>1. /\ s \in Seq(0..Len(sent)) /\ Len(s) \in Nat /\ \A i \in 1..Len(s) : s[i] # Null
          /\ Len(Chain) \in Nat /\ Turn \in 1..Len(Chain) /\ Turn + Len(s) = Len(Chain)
      BY <1>1, NodesAre
    <2>2. s # <<>>
      BY <1>1 DEF Sending
    <2>3. Len(s) # 0
      BY <2>1, <2>2, EmptySeq
    <2>4. \A i \in 1..Len(s) : s[i] \in 0..Len(sent)
      BY <2>1, ElementOfSeq
    <2> QED BY <2>1, <2>2, <2>3, <2>4
  <1>3. 1 \in 1..Len(s) /\ PeekData(queue) = s[1] /\ ~IsEmpty(queue)
    BY <1>1, <1>2 DEF PeekData, IsEmpty
  <1>4. queue = [nodes |-> queue.nodes, current |-> queue.current]
    BY DEF Scalars
  <1>5. CASE pend = Null /\ ~pipelining
    <2>1. PICK r \in 0..Len(sent) : r = s[1]
      BY <1>2, <1>3
    <2>2. wb = EmptyBuffer /\ forwarded = UpTo(Turn)
      BY <1>5 DEF Sending, SentCount, Welcoming
    <2>3. PICK m : m = Marshalled(wb, <<PeekData(queue)>>)
      OBVIOUS
    <2>4. m = [buf |-> Put(EmptyBuffer, Line(r)), count |-> 1] /\ Size(r) <= BufferSize
      <3>1. Size(r) <= BufferSize
        <4>1. CASE m.count = 1
          BY <1>3, <2>1, <2>2, <2>3, <4>1, MarshalsOne DEF ClientInv
        <4>2. CASE m.count # 1
          <5>1. call.ret = r
            BY <1>1, <1>3, <1>5, <2>1, <2>3, <4>2 DEF RequestToBuffer
          <5>2. r # Null
            BY <1>2, <1>3, <2>1
          <5>3. ~(Size(r) > BufferSize)
            BY <1>1, <5>1, <5>2 DEF TooLong
          <5>4. Size(r) \in Nat /\ BufferSize \in Nat
            BY LineIs, BufferSizeAssumption DEF ClientInv
          <5> QED BY <5>3, <5>4
        <4> QED BY <4>1, <4>2
      <3> QED BY <1>3, <2>1, <2>2, <2>3, <3>1, MarshalledOne DEF ClientInv
    <2>5. call = [buf |-> m.buf, queue |-> queue, ret |-> IF m.count = 1 THEN Null ELSE PeekData(queue)]
      BY <1>1, <1>5, <2>3 DEF RequestToBuffer
    <2>6. call = [buf |-> Put(EmptyBuffer, Line(r)), queue |-> queue, ret |-> Null]
      BY <2>4, <2>5
    <2>7. call.buf = Put(EmptyBuffer, Line(r)) /\ call.queue = queue /\ call.ret = Null
      BY <2>6
    <2>8. Sound(call.buf) /\ call.buf.data = Line(r) /\ Line(r) \in Seq(LineUnits)
      BY <2>4, <2>7, LineBuffered
    <2>9. UpTo(Turn + 1) = UpTo(Turn) \o Line(Chain[Turn + 1])
      <3>1. Turn \in 0..(Len(Chain) - 1)
        BY <1>2
      <3> QED BY <3>1, UpToGrows
    <2>10. Chain[Turn + 1] = r
      BY <1>1, <1>3, <2>1, NodesAre
    <2>11. Passed(call, 1)
      <3>1. queue.current \in 0..MaxCommands
        BY DEF Scalars
      <3> QED BY <1>4, <1>5, <2>2, <2>7, <2>8, <2>9, <2>10, <3>1 DEF Passed
    <2>12. 1 \in 0..Len(s)
      BY <1>2
    <2> QED BY <1>1, <2>8, <2>11, <2>12
  <1>6. CASE pend = Null /\ pipelining
    <2>1. wb = EmptyBuffer /\ forwarded = UpTo(Turn) /\ queue.current = s[1]
      BY <1>3, <1>6 DEF Sending, SentCount, Welcoming
    <2>2. CursorAt(0) /\ 0 \in 0..Len(s)
      <3>1. 0 < Len(s) /\ 0 + 1 = 1
        BY <1>2
      <3> QED BY <1>1, <1>2, <2>1, <3>1 DEF CursorAt
    <2>4. call = RestBuffered(wb)
      BY <1>1, <1>6 DEF RequestToBuffer, RestBuffered
    <2>5. Sound(wb) /\ wb.data = <<>> /\ wb.data \in Seq(LineUnits)
      BY <2>1, EmptySound, EmptySeq DEF EmptyBuffer
    <2>61. \E c \in 0..(Len(s) - 0) : RestPassed(RestBuffered(wb), s, wb, 0, c)
      BY <1>1, <1>4, <2>2, <2>5, BufferRest
    <2>62. PICK c \in 0..(Len(s) - 0) : RestPassed(call, s, wb, 0, c)
      BY <2>4, <2>61
    <2>6. /\ Carried(call, 0, c) /\ Sound(call.buf) /\ call.buf.data \in Seq(LineUnits)
          /\ call.buf.data = wb.data \o LinesOf(SubSeq(s, 0 + 1, 0 + c))
      BY <2>62 DEF RestPassed
    <2>7. c \in 0..Len(s) /\ c \in 0..(Len(queue.nodes) - 0) /\ 0 + c = c /\ Turn + 0 = Turn
      BY <1>1, <1>2
    <2>8. /\ UpTo(Turn + c) = UpTo(Turn + 0) \o LinesOf(SubSeq(s, 0 + 1, c))
          /\ SubSeq(s, 0 + 1, c) \in Seq(0..Len(sent))
      BY <1>1, <2>2, <2>7, UpToNodes
    <2>9. forwarded \o call.buf.data = UpTo(Turn + (0 + c))
      <3>1. PICK rs \in Seq(0..Len(sent)) : rs = SubSeq(s, 0 + 1, c)
        BY <2>8
      <3>2. LinesOf(rs) \in Seq(UnitsOf(0..Len(sent)))
        BY LinesOfConcat DEF ClientInv
      <3>3. <<>> \o LinesOf(rs) = LinesOf(rs)
        BY <3>2, ConcatEmptySeq
      <3> QED BY <2>1, <2>5, <2>6, <2>7, <2>8, <3>1, <3>3
    <2>10. Passed(call, 0 + c)
      BY <1>1, <1>2, <1>6, <2>2, <2>6, <2>7, <2>9, CarriedPasses
    <2> QED BY <1>1, <2>6, <2>7, <2>10
  <1>7. CASE pend # Null
    <2>1. PICK j \in 1..Len(s) : InLoop(j)
      BY <1>1, <1>7 DEF Sending
    <2>2. pipelining /\ wb.data \in Seq(LineUnits) /\ Sound(wb)
      BY <1>7 DEF Sending, Scalars
    <2>3. PICK r \in 0..Len(sent) : r = pend /\ r = s[j]
      BY <1>1, <1>2, <2>1 DEF InLoop
    <2>30. PICK rs : rs = <<r>>
      OBVIOUS
    <2>31. rs = <<pend>> /\ rs \in Seq(0..Len(sent))
      <3>1. rs \in Seq(0..Len(sent))
        BY <2>30
      <3> QED BY <2>3, <2>30, <3>1
    <2>4. CursorAt(j) /\ j \in 0..Len(s)
      BY <1>1, <1>2, <2>1 DEF InLoop, CursorAt
    <2>6. PICK b : b = Marshalled(wb, <<pend>>).buf
      OBVIOUS
    <2>7. call = RestBuffered(b)
      BY <1>1, <1>7, <2>2, <2>6 DEF RequestToBuffer, RestBuffered
    <2>8. Sound(b) /\ b.data \in Seq(LineUnits)
      <3>1. rs = <<pend>> /\ rs \in Seq(0..Len(sent))
        BY <2>31
      <3>2. Room(wb) \in Nat /\ WrittenIsSent
        BY <2>2, RoomIs DEF ClientInv
      <3>3. PICK n \in 0..Len(rs) :
              /\ Marshalled(wb, rs) = [buf |-> Put(wb, LinesOf(SubSeq(rs, 1, n))), count |-> n]
              /\ SubSeq(rs, 1, n) \in Seq(0..Len(sent))
              /\ Len(LinesOf(SubSeq(rs, 1, n))) <= Room(wb)
        BY <3>1, <3>2, MarshalledIs
      <3>4. PICK x : x = SubSeq(rs, 1, n)
        OBVIOUS
      <3>5. b = Put(wb, LinesOf(x)) /\ x \in Seq(0..Len(sent)) /\ Len(LinesOf(x)) <= Room(wb)
        BY <2>6, <3>1, <3>3, <3>4
      <3> QED BY <2>2, <3>2, <3>5, LinesBuffered
    <2>91. \E c \in 0..(Len(s) - j) : RestPassed(RestBuffered(b), s, b, j, c)
      BY <1>1, <1>4, <2>4, <2>8, BufferRest
    <2>92. PICK c \in 0..(Len(s) - j) : RestPassed(call, s, b, j, c)
      BY <2>7, <2>91
    <2>9. /\ Carried(call, j, c) /\ Sound(call.buf) /\ call.buf.data \in Seq(LineUnits)
          /\ call.buf.data = b.data \o LinesOf(SubSeq(s, j + 1, j + c))
      BY <2>92 DEF RestPassed
    <2>10. j + c \in 0..Len(s) /\ j + c \in j..Len(s) /\ j \in Nat /\ j - 1 \in 0..Len(s) /\ (j - 1) + 1 = j
           /\ Turn + (j - 1) \in 0..(Len(Chain) - 1) /\ (Turn + (j - 1)) + 1 = Turn + j
           /\ j \in 0..Len(queue.nodes) /\ c \in 0..(Len(queue.nodes) - j)
      <3>1. PICK l, t, h : l = Len(s) /\ t = Turn /\ h = Len(Chain)
        OBVIOUS
      <3>2. l = Len(queue.nodes)
        BY <1>1, <3>1
      <3>3. l \in Nat /\ h \in Nat /\ t \in Nat /\ t + l = h /\ j \in 1..l /\ c \in 0..(l - j)
        BY <1>1, <1>2, <3>1
      <3>4. j + c \in 0..l /\ j + c \in j..l /\ j \in Nat /\ j - 1 \in 0..l /\ (j - 1) + 1 = j /\ j \in 0..l
        BY ONLY <3>3
      <3>5. t + (j - 1) \in 0..(h - 1) /\ (t + (j - 1)) + 1 = t + j
        BY ONLY <3>3
      <3> QED BY <3>1, <3>2, <3>3, <3>4, <3>5
    <2>11. ASSUME originEnd # "reset" PROVE forwarded \o call.buf.data = UpTo(Turn + (j + c))
      <3>1. wb = EmptyBuffer /\ forwarded = UpTo(Turn + (j - 1)) /\ Size(r) <= BufferSize
        BY <2>1, <2>3, <2>11 DEF InLoop
      <3>2. b = Put(EmptyBuffer, Line(r))
        <4>1. Marshalled(wb, <<pend>>) = [buf |-> Put(EmptyBuffer, Line(r)), count |-> 1]
          BY <2>3, <3>1, MarshalledOne DEF ClientInv
        <4> QED BY <2>6, <4>1
      <3>3. b.data = Line(r) /\ Line(r) \in Seq(LineUnits)
        BY <3>1, <3>2, LineBuffered
      <3>4. UpTo(Turn + j) = UpTo(Turn + (j - 1)) \o Line(r)
        <4>1. UpTo((Turn + (j - 1)) + 1) = UpTo(Turn + (j - 1)) \o Line(Chain[(Turn + (j - 1)) + 1])
          BY <2>10, UpToGrows
        <4>2. Chain[Turn + j] = r
          BY <1>1, <2>3, NodesAre
        <4> QED BY <2>10, <4>1, <4>2
      <3>5. /\ UpTo(Turn + (j + c)) = UpTo(Turn + j) \o LinesOf(SubSeq(s, j + 1, j + c))
            /\ SubSeq(s, j + 1, j + c) \in Seq(0..Len(sent))
        BY <1>1, <2>4, <2>10, UpToNodes
      <3>6. PICK x, y, z : x = UpTo(Turn + (j - 1)) /\ y = Line(r) /\ z = LinesOf(SubSeq(s, j + 1, j + c))
        OBVIOUS
      <3>7. x \in Seq(LineUnits) /\ y \in Seq(LineUnits) /\ z \in Seq(LineUnits)
        <4>1. x \in Seq(LineUnits)
          <5>1. Turn + (j - 1) \in 0..Len(Chain)
            BY <1>2, <2>10
          <5> QED BY <3>6, <5>1, UpToGrows
        <4>2. PICK ls \in Seq(0..Len(sent)) : ls = SubSeq(s, j + 1, j + c)
          BY <3>5
        <4>3. LinesOf(ls) \in Seq(UnitsOf(0..Len(sent)))
          BY LinesOfConcat DEF ClientInv
        <4>4. UnitsOf(0..Len(sent)) \subseteq LineUnits
          BY DEF UnitsOf
        <4>5. LinesOf(ls) \in Seq(LineUnits)
          BY <4>3, <4>4, SeqMonotonic
        <4> QED BY <3>3, <3>6, <4>1, <4>2, <4>5
      <3>8. x \o (y \o z) = (x \o y) \o z
        <4>2. x \in Seq(LineUnits) /\ y \in Seq(LineUnits) /\ z \in Seq(LineUnits)
          BY <3>7
        <4>3. (x \o y) \o z = x \o (y \o z)
          BY ONLY <4>2, ConcatAssociative, SMTT(30)
        <4> QED BY <4>3
      <3> QED BY <2>9, <3>1, <3>3, <3>4, <3>5, <3>6, <3>8
    <2>12. Passed(call, j + c)
      BY <1>1, <1>2, <2>2, <2>9, <2>10, <2>11, CarriedPasses
    <2> QED BY <1>1, <2>9, <2>10, <2>12
  <1> QED BY <1>5, <1>6, <1>7

-----------------------------------------------------------------------------
(* What a step leaves of the invariant.                                    *)

LEMMA GroundKept ==
  ASSUME ClientInv, ClientInv', Later, Ground, Scalars', fetched' \in 0..Len(replies'),
         NEW f \in 0..Len(Chain), forwarded' = UpTo(f),
         IsPrefix(OfOrigin(delivered'), OfOrigin(replies')),
         state' \in {"CAPA", "RESPONSE"} => \A i \in 1..Len(sb'.data) : sb'.data[i].id = request'
  PROVE  Ground'
  <1>1. f \in 0..Len(Chain')
    BY ChainRises, LenChainNext DEF Later
  <1>2. forwarded' = UpTo(f)'
    BY UpToStays
  <1> QED BY <1>1, <1>2 DEF Ground

\* A notice of the proxy is nothing the origin has sent.
LEMMA NoticeAdded ==
  ASSUME NEW d \in Seq(ReplyUnits), NEW r \in Ids
  PROVE  d \o Notice(r) \in Seq(ReplyUnits) /\ OfOrigin(d \o Notice(r)) = OfOrigin(d)
  <1>1. d \in Seq(Units) /\ Notice(r) \in Seq(Units) /\ Notice(r) \in Seq(ReplyUnits)
    BY NoticeIs, RepliesAreUnits
  <1>2. OfOrigin(d \o Notice(r)) = OfOrigin(d) \o OfOrigin(Notice(r)) /\ OfOrigin(d) \in Seq(Units)
    BY <1>1, OriginConcat
  <1>3. OfOrigin(Notice(r)) = <<>>
    BY NoticeIs
  <1>4. OfOrigin(d) \o <<>> = OfOrigin(d)
    BY <1>2, ConcatEmptySeq
  <1>5. d \o Notice(r) \in Seq(ReplyUnits)
    BY <1>1, ConcatProperties
  <1> QED BY <1>2, <1>3, <1>4, <1>5

\* The requests of the conversation.
LEMMA RequestIs ==
  ASSUME ClientInv
  PROVE  request \in 0..Len(sent) /\ request \in Ids /\ 0..Len(sent) \subseteq Ids
  <1>1. Len(sent) \in Nat /\ Len(sent) <= MaxCommands /\ MaxCommands \in Nat
    BY ChainRises, SessionAssumption DEF ClientInv, WrittenIsSent
  <1>2. 0..Len(sent) \subseteq Ids
    BY <1>1 DEF Ids, Capa
  <1>3. request \in 0..Len(sent)
    BY ChainRises DEF ClientInv, QueueIsRest
  <1> QED BY <1>2, <1>3

\* What a receive from the origin adds to the buffer.
LEMMA Receives ==
  ASSUME replies \in Seq(ReplyUnits), Sound(wb), NEW p \in 0..fetched, fetched \in 0..Len(replies),
         wb.data = SubSeq(replies, p + 1, fetched), NEW n \in FromOrigin(Room(wb)),
         NEW got, got = IF n > 0 THEN n ELSE 0, NEW b, b = Put(wb, Slice(replies, fetched, got))
  PROVE  /\ Sound(b) /\ b.data = SubSeq(replies, p + 1, fetched + got)
         /\ got \in Nat /\ fetched + got \in 0..Len(replies) /\ n \in Int
  <1>1. Len(replies) \in Nat /\ fetched \in Nat /\ p \in Nat /\ fetched \in p..Len(replies)
    BY LenProperties
  <1>2. Room(wb) \in Nat
    BY RoomIs
  <1>3. n \in Int /\ got \in Nat /\ got <= Room(wb) /\ fetched + got <= Len(replies)
    BY <1>1, <1>2 DEF FromOrigin, Received, Min2
  <1>4. PICK x : x = Slice(replies, fetched, got)
    OBVIOUS
  <1>5. x = SubSeq(replies, fetched + 1, fetched + got)
    BY <1>4 DEF Slice
  <1>6. fetched + got \in fetched..Len(replies) /\ (fetched + got) - fetched = got
    BY <1>1, <1>3
  <1>7. x \in Seq(ReplyUnits) /\ Len(x) = got
    BY <1>1, <1>5, <1>6, Window
  <1>8. x \in Seq(Units) /\ Len(x) <= Room(wb)
    BY <1>3, <1>7, RepliesAreUnits
  <1>9. Sound(Put(wb, x)) /\ Put(wb, x).data = wb.data \o x
    BY <1>8, PutSound
  <1>10. wb.data \o x = SubSeq(replies, p + 1, fetched + got)
    BY <1>1, <1>5, <1>6, WindowGrows
  <1>11. fetched + got \in 0..Len(replies)
    BY <1>1, <1>3
  <1> QED BY <1>3, <1>4, <1>9, <1>10, <1>11

\* Steps of the client, the origin or nobody.
LEMMA ProxyKept ==
  ASSUME ClientInv, ClientInv', Later, Chain' = Chain, Turn' = Turn,
         UNCHANGED <<proxyVars, delivered, forwarded, fetched, offers>>, RelayInv, Replied',
         NEW x \in Seq(ReplyUnits), replies' = replies \o x, clientEnd' \in Ends, originEnd' \in Ends,
         originEnd' # "reset" => originEnd # "reset"
  PROVE  RelayInv'
  <1> USE DEF proxyVars
  <1>1. Scalars'
    BY DEF RelayInv, Ground, Scalars
  <1>2. /\ replies \in Seq(ReplyUnits) /\ Len(replies) \in Nat /\ Len(replies') = Len(replies) + Len(x)
        /\ Len(x) \in Nat /\ \A i \in 1..Len(replies) : replies'[i] = replies[i]
    <2>1. replies \in Seq(ReplyUnits)
      BY DEF RelayInv, Replied
    <2> QED BY <2>1, ConcatProperties, LenProperties
  <1>3. fetched \in 0..Len(replies) /\ fetched' \in 0..Len(replies') /\ Len(replies) <= Len(replies')
    BY <1>2 DEF RelayInv, Ground
  <1>4. Ground'
    <2>1. PICK f \in 0..Len(Chain) : forwarded = UpTo(f)
      BY DEF RelayInv, Ground
    <2>2. IsPrefix(OfOrigin(delivered'), OfOrigin(replies'))
      <3>1. /\ delivered \in Seq(Units) /\ replies \in Seq(Units) /\ x \in Seq(Units)
        BY <1>2, RepliesAreUnits DEF RelayInv, Ground, Scalars
      <3>2. /\ OfOrigin(delivered) \in Seq(Units) /\ OfOrigin(replies) \in Seq(Units)
            /\ OfOrigin(x) \in Seq(Units) /\ OfOrigin(replies \o x) = OfOrigin(replies) \o OfOrigin(x)
        BY <3>1, OriginConcat
      <3>3. IsPrefix(OfOrigin(delivered), OfOrigin(replies))
        BY DEF RelayInv, Ground
      <3>4. IsPrefix(OfOrigin(delivered), OfOrigin(replies) \o OfOrigin(x))
        BY <3>2, <3>3, PrefixGrows
      <3> QED BY <3>2, <3>4
    <2>3. state \in {"CAPA", "RESPONSE"} => \A i \in 1..Len(sb.data) : sb.data[i].id = request
      BY DEF RelayInv, Ground
    <2> QED BY <1>1, <1>3, <2>1, <2>2, <2>3, GroundKept DEF RelayInv
  <1>5. ASSUME Alive' PROVE Sending' /\ Fetching' /\ Delivering'
    <2>1. Alive /\ Sending /\ Fetching /\ Delivering
      BY <1>5 DEF Alive, RelayInv
    <2>2. \A n \in 0..Len(Chain) : UpTo(n)' = UpTo(n)
      BY UpToStays
    <2>3. Turn \in 1..Len(Chain) /\ Len(Chain) \in Nat /\ Len(queue.nodes) \in Nat /\ Turn + Len(queue.nodes) = Len(Chain)
      BY NodesAre
    <2>4. SentCount \in 0..Len(Chain) /\ SentCount' = SentCount
      BY <2>3 DEF SentCount
    <2>5. Sending'
      <3>1. CASE pend = Null
        <4>1. forwarded' = UpTo(SentCount)'
          BY <2>1, <2>2, <2>4, <3>1 DEF Sending
        <4> QED BY <2>1, <3>1, <4>1 DEF Sending, PeekData, IsEmpty
      <3>2. CASE pend # Null
        <4>1. PICK j \in 1..Len(queue.nodes) : InLoop(j)
          BY <2>1, <3>2 DEF Sending
        <4>2. Turn + (j - 1) \in 0..Len(Chain)
          BY <2>3
        <4>3. UpTo(Turn + (j - 1))' = UpTo(Turn + (j - 1))
          BY <2>2, <4>2
        <4>4. Size(pend)' = Size(pend) /\ (Size(pend) <= BufferSize)
          <5>1. queue.nodes[j] \in 0..Len(sent)
            <6>1. PICK q : q = queue.nodes
              OBVIOUS
            <6>2. q \in Seq(0..Len(sent))
              BY <6>1, NodesAre
            <6> QED BY <4>1, <6>1, <6>2, ElementOfSeq
          <5>2. PICK r \in 0..Len(sent) : r = pend
            BY <4>1, <5>1 DEF InLoop
          <5>3. Size(r)' = Size(r)
            BY DEF Later
          <5> QED BY <4>1, <5>2, <5>3 DEF InLoop
        <4>5. InLoop(j)'
          BY <4>1, <4>3, <4>4 DEF InLoop
        <4> QED BY <2>1, <3>2, <4>5 DEF Sending
      <3> QED BY <3>1, <3>2
    <2>6. Pos' = Pos /\ Pos \in 0..fetched /\ Pos \in 0..Len(replies) /\ Pos \in Nat
      BY <1>3, <2>1 DEF Pos, Fetching
    <2>7. Fetching'
      <3>1. At(Pos, stage)'
        <4>1. At(Pos, stage) /\ stage \in {"status", "body", "done"}
          BY <2>1 DEF Fetching, RelayInv, Ground, Scalars
        <4>2. PICK p, st : p = Pos /\ st = stage
          OBVIOUS
        <4>3. At(p, st)'
          BY <1>2, <1>3, <2>6, <4>1, <4>2, AtKept DEF RelayInv
        <4> QED BY <2>6, <4>2, <4>3
      <3>2. SubSeq(replies', Pos + 1, fetched) = SubSeq(replies, Pos + 1, fetched)
        <4>1. fetched \in Pos..Len(replies)
          BY <1>2, <1>3, <2>6
        <4> QED BY <1>2, <2>6, <4>1, WindowStays
      <3>3. Stages' = Stages
        BY DEF Stages
      <3> QED BY <2>1, <2>6, <3>1, <3>2, <3>3 DEF Fetching
    <2>8. Delivering'
      <3>1. SubSeq(replies', 1, Pos) = SubSeq(replies, 1, Pos)
        <4>1. Pos \in 0..Len(replies) /\ 0 + 1 = 1
          BY <2>6
        <4> QED BY <1>2, <4>1, WindowStays
      <3>2. ASSUME NEW i \in 2..Turn', i < Turn' \/ state' = "REQUEST" PROVE AnsweredTo(Chain[i])'
        <4>1. Chain' = Chain /\ i \in 2..Turn /\ i \in 1..Len(Chain) /\ AnsweredTo(Chain[i])
          BY <2>1, <2>3, <3>2 DEF Delivering
        <4>2. PICK r \in 0..Len(sent) : r = Chain[i]
          BY <4>1, ChainRises
        <4>3. delivered \in Seq(ReplyUnits) /\ delivered' = delivered \o <<>> /\ <<>> \in Seq(ReplyUnits)
          <5>1. delivered \in Seq(ReplyUnits)
            BY DEF RelayInv, Ground, Scalars
          <5> QED BY <5>1, EmptySeq, ConcatEmptySeq
        <4>4. AnsweredTo(r)'
          BY <4>1, <4>2, <4>3, AnsweredKept
        <4> QED BY <4>1, <4>2, <4>4
      <3>3. Writes' <=> Writes
        BY DEF Writes
      <3>4. Writes => (Final(sb.data[Len(sb.data)])' <=> Final(sb.data[Len(sb.data)]))
        <4>1. ASSUME Writes PROVE Final(sb.data[Len(sb.data)])' <=> Final(sb.data[Len(sb.data)])
          <5>1. sb.data \in Seq(ReplyUnits) /\ sb.data # <<>> /\ \A i \in 1..Len(sb.data) : sb.data[i].id = request
            BY <2>1, <4>1 DEF Delivering, Writes, RelayInv, Ground, Scalars
          <5>2. Len(sb.data) \in 1..Len(sb.data)
            BY <5>1, LenProperties, EmptySeq
          <5>3. PICK u : u = sb.data[Len(sb.data)]
            OBVIOUS
          <5>4. u.id \in 0..Len(sent)
            BY <5>1, <5>2, <5>3, RequestIs
          <5>5. Final(u)' <=> Final(u)
            BY <5>4, FinalKept
          <5> QED BY <5>3, <5>5
        <4> QED BY <4>1
      <3> QED BY <2>1, <2>6, <3>1, <3>2, <3>3, <3>4 DEF Delivering
    <2> QED BY <2>5, <2>7, <2>8
  <1> QED BY <1>4, <1>5 DEF RelayInv

\* The line the origin takes next is that of the next request.
LEMMA NextLine ==
  ASSUME ClientInv, NEW t \in 0..Len(Chain), NEW f \in 0..Len(Chain), forwarded = UpTo(f),
         taken = Len(UpTo(t)), NEW n \in 1..(Len(forwarded) - taken),
         EndsLine(forwarded[taken + n]), \A m \in 1..(n - 1) : ~EndsLine(forwarded[taken + m])
  PROVE  /\ t + 1 \in 1..Len(Chain) /\ taken + n = Len(UpTo(t + 1)) /\ taken + n <= Len(forwarded)
         /\ forwarded[taken + n].id = Chain[t + 1]
  <1>1. /\ Len(Chain) \in Nat /\ Len(UpTo(t)) \in Nat /\ Len(UpTo(f)) \in Nat
        /\ \A a, b \in 0..Len(Chain) : a < b => Len(UpTo(a)) < Len(UpTo(b))
    BY ChainRises, UpToLength
  <1>2. Len(UpTo(t)) < Len(UpTo(f))
    BY <1>1
  <1>3. t < f
    <2>1. t = f \/ f < t => FALSE
      <3>1. t # f
        BY <1>2, <1>1
      <3>2. ~(f < t)
        <4>1. f < t => Len(UpTo(f)) < Len(UpTo(t))
          BY <1>1
        <4> QED BY <4>1, <1>2, <1>1
      <3> QED BY <3>1, <3>2
    <2> QED BY <2>1, <1>1
  <1>4. /\ t + 1 \in 0..Len(Chain) /\ f \in (t + 1)..Len(Chain) /\ t \in 0..(Len(Chain) - 1)
        /\ t + 1 \in 1..Len(Chain)
    BY <1>1, <1>3
  <1>5. PICK c \in 0..Len(sent) : c = Chain[t + 1]
    BY <1>4, ChainRises
  <1>6. PICK x, y, z : x = UpTo(t) /\ y = Line(c) /\ z = LinesOf(SubSeq(Chain, (t + 1) + 1, f))
    OBVIOUS
  <1>7. /\ UpTo(t + 1) = x \o y /\ UpTo(f) = UpTo(t + 1) \o z
        /\ x \in Seq(LineUnits) /\ UpTo(t + 1) \in Seq(LineUnits)
    BY <1>4, <1>5, <1>6, UpToGrows
  <1>8. /\ y \in Seq(UnitsOf({c})) /\ Len(y) = Size(c) /\ Size(c) \in Nat \ {0}
        /\ \A i \in 1..Size(c) : y[i] = [id |-> c, part |-> "line", nth |-> i]
    BY <1>6, LineIs DEF ClientInv
  <1>9. y \in Seq(LineUnits)
    <2>1. UnitsOf({c}) \subseteq LineUnits
      BY DEF UnitsOf
    <2> QED BY <1>8, <2>1, SeqMonotonic
  <1>10. z \in Seq(LineUnits)
    <2>1. PICK rs : rs = SubSeq(Chain, (t + 1) + 1, f)
      OBVIOUS
    <2>2. rs \in Seq(0..Len(sent))
      <3>1. Chain \in Seq(0..Len(sent)) /\ t + 1 \in Nat
        BY <1>4, ChainRises
      <3> QED BY <1>4, <2>1, <3>1, Window
    <2>3. LinesOf(rs) \in Seq(UnitsOf(0..Len(sent)))
      BY <2>2, LinesOfConcat DEF ClientInv
    <2>4. UnitsOf(0..Len(sent)) \subseteq LineUnits
      BY DEF UnitsOf
    <2> QED BY <1>6, <2>1, <2>3, <2>4, SeqMonotonic
  <1>11. PICK s \in Nat \ {0}, k \in Nat : s = Size(c) /\ k = Len(x)
    BY <1>7, <1>8, LenProperties
  <1>12. \A i \in 1..s : forwarded[k + i] = y[i]
    <2> SUFFICES ASSUME NEW i \in 1..s PROVE forwarded[k + i] = y[i]
      OBVIOUS
    <2>1. (x \o y)[k + i] = y[i] /\ k + i \in 1..Len(x \o y)
      <3>1. PICK w : w = x \o y
        OBVIOUS
      <3>2. Len(y) = s /\ k = Len(x) /\ k \in Nat /\ s \in Nat
        BY <1>7, <1>8, <1>9, <1>11
      <3>3. Len(w) = k + s /\ \A m \in 1..(k + s) : w[m] = IF m <= k THEN x[m] ELSE y[m - k]
        BY <1>7, <1>8, <1>9, <3>1, <3>2, ConcatProperties, SMTT(60)
      <3>4. k + i \in 1..(k + s) /\ ~(k + i <= k) /\ (k + i) - k = i
        BY <3>2
      <3> QED BY <3>1, <3>3, <3>4
    <2>2. x \o y \in Seq(LineUnits)
      BY <1>7
    <2>3. ((x \o y) \o z)[k + i] = (x \o y)[k + i]
      BY ONLY <1>10, <2>1, <2>2, ConcatProperties
    <2> QED BY <1>7, <2>1, <2>3
  <1>13. taken = k
    BY <1>6, <1>11
  <1>14. \A i \in 1..s : EndsLine(forwarded[k + i]) <=> i = s
    BY <1>8, <1>11, <1>12 DEF EndsLine
  <1>15. n \in Nat \ {0}
    BY <1>1
  <1>16. n = s
    <2>1. ~(n < s)
      <3>1. ASSUME n < s PROVE FALSE
        <4>1. n \in 1..s /\ n # s
          BY <1>11, <1>15, <3>1
        <4> QED BY <1>13, <1>14, <4>1
      <3> QED BY <3>1
    <2>2. ~(s < n)
      <3>1. ASSUME s < n PROVE FALSE
        <4>1. s \in 1..(n - 1) /\ s \in 1..s
          BY <1>11, <1>15, <3>1
        <4> QED BY <1>13, <1>14, <4>1
      <3> QED BY <3>1
    <2> QED BY <1>11, <1>15, <2>1, <2>2
  <1>17. Len(UpTo(t + 1)) = k + s
    <2>1. Len(UpTo(t + 1)) = Len(UpTo(t)) + Size(Chain[t + 1])
      BY <1>4, UpToLength
    <2> QED BY <1>5, <1>6, <1>11, <2>1
  <1>18. forwarded[k + s].id = c
    <2>1. s \in 1..s
      BY <1>11
    <2>2. forwarded[k + s] = y[s]
      BY <1>12, <2>1
    <2>3. y[s] = [id |-> c, part |-> "line", nth |-> s]
      BY <1>8, <1>11, <2>1
    <2> QED BY <2>2, <2>3
  <1>19. k + s <= Len(forwarded)
    BY <1>1, <1>13, <1>16
  <1> QED BY <1>4, <1>5, <1>13, <1>16, <1>17, <1>18, <1>19

\* A reply is a status line, units of a body and an end, or a status line alone.
AReply(x, r) ==
  /\ x \in Seq(ReplyUnits) /\ Len(x) \in Nat \ {0}
  /\ \A i \in 1..Len(x) : x[i].id = r /\ x[i].part \in {"status", "body", "end"}
  /\ x[1].part = "status" /\ x[Len(x)].part \in {"status", "end"} /\ Final(x[Len(x)])
  /\ \A i \in 1..(Len(x) - 1) : ~Final(x[i]) /\ x[i + 1].part \in {"body", "end"}
  /\ \A i \in 1..Len(x) : x[i].part = "end" /\ Kind(x[i].id) = "capa" => (x[i].mark = "pipe" <=> offers)

LEMMA ReplyIs ==
  ASSUME ClientInv, NEW r \in 0..Len(sent), NEW status \in StatusSet, NEW size \in ReplySizes,
         offers \in BOOLEAN, NEW x, x = Reply(r, status, size)
  PROVE  AReply(x, r)
  <1> SUFFICES /\ x \in Seq(ReplyUnits) /\ Len(x) \in Nat \ {0}
               /\ \A i \in 1..Len(x) : x[i].id = r /\ x[i].part \in {"status", "body", "end"}
               /\ x[1].part = "status" /\ x[Len(x)].part \in {"status", "end"} /\ Final(x[Len(x)])
               /\ \A i \in 1..(Len(x) - 1) : ~Final(x[i]) /\ x[i + 1].part \in {"body", "end"}
               /\ \A i \in 1..Len(x) : x[i].part = "end" /\ Kind(x[i].id) = "capa" => (x[i].mark = "pipe" <=> offers)
    BY DEF AReply
  <1>1. r \in Ids
    BY RequestIs
  <1>2. CASE ~MultiLine(r, status)
    <2>1. PICK u : u = ReplyUnit(r, "status", status)
      OBVIOUS
    <2>2. u = [id |-> r, part |-> "status", mark |-> status]
      BY <2>1 DEF ReplyUnit
    <2>3. u \in ReplyUnits
      BY <1>1, <2>2 DEF ReplyUnits
    <2>4. x = <<u>>
      BY <1>2, <2>1 DEF Reply
    <2>5. x \in Seq(ReplyUnits) /\ Len(x) = 1 /\ x[1] = u
      BY <2>3, <2>4
    <2>6. Final(u)
      BY <1>2, <2>2 DEF Final
    <2>7. 1..Len(x) = {1} /\ 1..(Len(x) - 1) = {}
      BY <2>5
    <2>8. u.id = r /\ u.part = "status"
      BY <2>2
    <2> QED BY <2>5, <2>6, <2>7, <2>8
  <1>3. CASE MultiLine(r, status)
    <2>1. size \in Nat /\ size > 1
      BY SessionAssumption
    <2> DEFINE e(k) == IF k = 1 THEN ReplyUnit(r, "status", status)
                       ELSE IF k < size THEN ReplyUnit(r, "body", "none")
                       ELSE ReplyUnit(r, "end", IF Kind(r) = "capa" /\ offers THEN "pipe" ELSE "none")
    <2>2. x = [k \in 1..size |-> e(k)]
      BY <1>3 DEF Reply
    <2>3. \A k \in 1..size :
            /\ e(k) \in ReplyUnits /\ e(k).id = r /\ e(k).part \in {"status", "body", "end"}
            /\ (Final(e(k)) <=> k = size) /\ (k = 1 => e(k).part = "status")
            /\ (k = size => e(k).part = "end") /\ (k > 1 => e(k).part \in {"body", "end"})
            /\ (e(k).part = "end" /\ Kind(r) = "capa" => (e(k).mark = "pipe" <=> offers))
      <3> SUFFICES ASSUME NEW k \in 1..size
            PROVE  /\ e(k) \in ReplyUnits /\ e(k).id = r /\ e(k).part \in {"status", "body", "end"}
                   /\ (Final(e(k)) <=> k = size) /\ (k = 1 => e(k).part = "status")
                   /\ (k = size => e(k).part = "end") /\ (k > 1 => e(k).part \in {"body", "end"})
                   /\ (e(k).part = "end" /\ Kind(r) = "capa" => (e(k).mark = "pipe" <=> offers))
        OBVIOUS
      <3>1. CASE k = 1
        <4>1. e(k) = [id |-> r, part |-> "status", mark |-> status] /\ k # size
          BY <2>1, <3>1 DEF ReplyUnit
        <4> HIDE DEF e
        <4>2. e(k) \in ReplyUnits
          BY <1>1, <4>1 DEF ReplyUnits
        <4>3. ~Final(e(k))
          BY <1>3, <4>1 DEF Final
        <4> QED BY <3>1, <4>1, <4>2, <4>3
      <3>2. CASE k # 1 /\ k < size
        <4>1. e(k) = [id |-> r, part |-> "body", mark |-> "none"] /\ k # size
          BY <2>1, <3>2 DEF ReplyUnit
        <4> HIDE DEF e
        <4>2. e(k) \in ReplyUnits
          BY <1>1, <4>1 DEF ReplyUnits
        <4>3. ~Final(e(k))
          BY <4>1 DEF Final
        <4> QED BY <3>2, <4>1, <4>2, <4>3
      <3>3. CASE k # 1 /\ ~(k < size)
        <4>1. PICK m : m = IF Kind(r) = "capa" /\ offers THEN "pipe" ELSE "none"
          OBVIOUS
        <4>2. e(k) = [id |-> r, part |-> "end", mark |-> m] /\ k = size
          BY <2>1, <3>3, <4>1 DEF ReplyUnit
        <4> HIDE DEF e
        <4>3. e(k) \in ReplyUnits
          BY <1>1, <4>1, <4>2 DEF ReplyUnits
        <4>4. Final(e(k))
          BY <4>2 DEF Final
        <4>5. e(k).mark = m /\ e(k).id = r /\ e(k).part = "end"
          BY <4>2
        <4> QED BY <3>3, <4>1, <4>2, <4>3, <4>4, <4>5
      <3> QED BY <3>1, <3>2, <3>3
    <2> HIDE DEF e
    <2>4. x \in Seq(ReplyUnits) /\ Len(x) = size /\ \A k \in 1..size : x[k] = e(k)
      BY <2>1, <2>2, <2>3
    <2>5. /\ size \in 1..size /\ 1 \in 1..size /\ size \in Nat \ {0}
          /\ \A i \in 1..(size - 1) : i \in 1..size /\ i # size /\ i + 1 \in 1..size /\ i + 1 > 1
      BY <2>1
    <2> QED BY <2>3, <2>4, <2>5
  <1> QED BY <1>2, <1>3

\* The origin answers the next line.
LEMMA ServeStep ==
  ASSUME ClientInv, ClientInv', RelayInv, OriginServe
  PROVE  RelayInv'
  <1>1. UNCHANGED <<proxyVars, clientVars, forwarded, fetched, offers, originEnd>>
    BY DEF OriginServe
  <1>2. UNCHANGED reading /\ Later /\ Chain' = Chain
    BY <1>1, LaterReading DEF reading, clientVars, proxyVars
  <1>3. Turn' = Turn
    BY <1>1, <1>2 DEF Turn, proxyVars
  <1>3a. PICK n \in 1..(Len(forwarded) - taken) :
          /\ EndsLine(forwarded[taken + n])
          /\ \A m \in 1..(n - 1) : ~EndsLine(forwarded[taken + m])
          /\ taken' = taken + n
          /\ \E status \in IF forwarded[taken + n].id = Capa THEN CapaStatuses ELSE StatusSet, size \in ReplySizes :
               replies' = replies \o Reply(forwarded[taken + n].id, status, size)
    BY DEF OriginServe
  <1>3b. PICK u : u = forwarded[taken + n]
    OBVIOUS
  <1>4. /\ u = forwarded[taken + n] /\ EndsLine(u)
        /\ \A m \in 1..(n - 1) : ~EndsLine(forwarded[taken + m])
        /\ taken' = taken + n
        /\ \E status \in IF u.id = Capa THEN CapaStatuses ELSE StatusSet, size \in ReplySizes :
             replies' = replies \o Reply(u.id, status, size)
    BY <1>3a, <1>3b
  <1>5. PICK t \in 0..Len(Chain) : Served(t)
    BY DEF RelayInv, Replied
  <1>6. PICK f \in 0..Len(Chain) : forwarded = UpTo(f)
    BY DEF RelayInv, Ground
  <1>7. /\ t + 1 \in 1..Len(Chain) /\ taken' = Len(UpTo(t + 1)) /\ taken' <= Len(forwarded)
        /\ u.id = Chain[t + 1]
    <2>1. taken = Len(UpTo(t))
      BY <1>5 DEF Served
    <2>2. /\ t + 1 \in 1..Len(Chain) /\ taken + n = Len(UpTo(t + 1)) /\ taken + n <= Len(forwarded)
          /\ forwarded[taken + n].id = Chain[t + 1]
      BY <1>4, <1>6, <2>1, NextLine
    <2> QED BY <1>4, <2>2
  <1>8. PICK r \in 0..Len(sent) : r = u.id
    BY <1>7, ChainRises
  <1>9. PICK status \in StatusSet, size \in ReplySizes : replies' = replies \o Reply(r, status, size)
    BY <1>4, <1>8, SessionAssumption
  <1>10. PICK x : x = Reply(r, status, size)
    OBVIOUS
  <1>11. /\ x \in Seq(ReplyUnits) /\ Len(x) \in Nat \ {0}
         /\ \A i \in 1..Len(x) : x[i].id = r /\ x[i].part \in {"status", "body", "end"}
         /\ x[1].part = "status" /\ x[Len(x)].part \in {"status", "end"} /\ Final(x[Len(x)])
         /\ \A i \in 1..(Len(x) - 1) : ~Final(x[i]) /\ x[i + 1].part \in {"body", "end"}
         /\ \A i \in 1..Len(x) : x[i].part = "end" /\ Kind(x[i].id) = "capa" => (x[i].mark = "pipe" <=> offers)
    <2>1. offers \in BOOLEAN
      BY DEF RelayInv, Ground, Scalars
    <2>2. AReply(x, r)
      BY <1>10, <2>1, ReplyIs
    <2> QED BY <2>2 DEF AReply
  <1>12. PICK l \in Nat \ {0}, k \in Nat \ {0} : l = Len(replies) /\ k = Len(x)
    BY <1>11, RepliesAre DEF RelayInv
  <1>13. /\ replies \in Seq(ReplyUnits) /\ replies' = replies \o x
         /\ replies' \in Seq(ReplyUnits) /\ Len(replies') = l + k
         /\ \A i \in 1..l : replies'[i] = replies[i]
         /\ \A i \in 1..k : replies'[l + i] = x[i]
    <2>1. replies \in Seq(ReplyUnits)
      BY DEF RelayInv, Replied
    <2>2. replies' = replies \o x
      BY <1>9, <1>10
    <2> QED BY <1>11, <1>12, <2>1, <2>2, ConcatProperties
  <1>14. \A p \in 1..(l + k) : p \in 1..l \/ \E i \in 1..k : p = l + i
    <2> SUFFICES ASSUME NEW p \in 1..(l + k), p \notin 1..l PROVE \E i \in 1..k : p = l + i
      OBVIOUS
    <2>1. p - l \in 1..k /\ p = l + (p - l)
      OBVIOUS
    <2> QED BY <2>1
  <1>15. \A v : v.id \in 0..Len(sent) => (Final(v)' <=> Final(v))
    BY <1>2, FinalKept
  <1>16. \A v : Kind(v.id)' = Kind(v.id)
    BY <1>1 DEF Kind, clientVars
  <1>17. Served(t + 1)'
    <2>1. taken' = Len(UpTo(t + 1)')
      <3>1. UpTo(t + 1)' = UpTo(t + 1)
        BY <1>2, <1>7, UpToStays
      <3> QED BY <1>7, <3>1
    <2>2. Len(forwarded') = Len(forwarded)
      BY <1>1
    <2>3. ASSUME NEW p \in 1..Len(replies')
          PROVE  \/ replies'[p].part = "greeting"
                 \/ /\ replies'[p].part \in {"status", "body", "end"}
                    /\ \E j \in 1..(t + 1) : replies'[p].id = Chain[j]
      <3>1. CASE p \in 1..l
        <4>1. \/ replies[p].part = "greeting"
              \/ /\ replies[p].part \in {"status", "body", "end"}
                 /\ \E j \in 1..t : replies[p].id = Chain[j]
          BY <1>5, <1>12, <3>1 DEF Served
        <4>2. 1..t \subseteq 1..(t + 1)
          BY ChainRises
        <4> QED BY <1>13, <3>1, <4>1, <4>2
      <3>2. CASE \E i \in 1..k : p = l + i
        <4>1. replies'[p].part \in {"status", "body", "end"} /\ replies'[p].id = Chain[t + 1]
          <5>1. PICK i \in 1..k : p = l + i
            BY <3>2
          <5>2. replies'[p] = x[i]
            BY <1>12, <1>13, <5>1
          <5>3. x[i].part \in {"status", "body", "end"} /\ x[i].id = Chain[t + 1]
            BY <1>7, <1>8, <1>11, <1>12, <5>1
          <5> QED BY <5>2, <5>3
        <4>2. t + 1 \in 1..(t + 1)
          BY ChainRises
        <4> QED BY <4>1, <4>2
      <3> QED BY <1>13, <1>14, <2>3, <3>1, <3>2
    <2>4. Ended(Len(replies), Chain[t + 1])'
      <3>1. k \in 1..k /\ l + k \in 1..(l + k)
        BY <1>12
      <3>2. replies'[l + k] = x[k] /\ x[k].id = r /\ r = Chain[t + 1] /\ x[k].part \in {"status", "end"} /\ Final(x[k])
        BY <1>7, <1>8, <1>11, <1>12, <1>13, <3>1
      <3>3. Final(x[k])'
        BY <1>15, <3>2
      <3>4. PICK p, v, c : p = l + k /\ v = x[k] /\ c = Chain[t + 1]
        OBVIOUS
      <3>5. p = Len(replies') /\ p \in 1..Len(replies') /\ replies'[p] = v /\ v.id = c
            /\ v.part \in {"status", "end"} /\ Final(v)' /\ Chain'[t + 1] = c
        BY <1>2, <1>13, <3>1, <3>2, <3>3, <3>4
      <3> QED BY <3>5 DEF Ended
    <2>5. t + 1 # 0 /\ t + 1 \in Nat
      BY ChainRises
    <2> QED BY <1>2, <1>7, <2>1, <2>2, <2>3, <2>4, <2>5 DEF Served
  <1>18. ASSUME NEW p \in 1..(Len(replies') - 1)
         PROVE  NextReply(replies[p], replies[p + 1])'
    <2>0. p \in 1..(l + k) /\ p + 1 \in 1..(l + k) /\ p \in Nat
      BY <1>12, <1>13, SMTT(60)
    <2>1. CASE p < l
      <3>1. p \in 1..l /\ p + 1 \in 1..l /\ p \in 1..(Len(replies) - 1)
        BY <1>12, <2>0, <2>1
      <3>2. NextReply(replies[p], replies[p + 1])
        BY <3>1 DEF RelayInv, Replied
      <3>3. PICK v, w : v = replies[p] /\ w = replies[p + 1]
        OBVIOUS
      <3>4. v.part # "greeting" => v.id \in 0..Len(sent)
        BY <1>12, <3>1, <3>3, RepliesAre DEF RelayInv
      <3>5. NextReply(v, w)'
        <4>1. Len(Chain') \in Nat
          BY <1>2, ChainRises
        <4> QED BY <1>2, <3>2, <3>3, <3>4, <4>1, NextReplyKept
      <3>6. replies'[p] = v /\ replies'[p + 1] = w
        BY <1>13, <3>1, <3>3
      <3> QED BY <3>5, <3>6
    <2>2. CASE p = l
      <3>1. PICK v, w : v = replies[l] /\ w = x[1]
        OBVIOUS
      <3>2. l \in 1..l /\ 1 \in 1..k /\ p + 1 = l + 1
        BY <1>12, <2>2
      <3>3. replies'[p] = v /\ replies'[p + 1] = w /\ w.part = "status" /\ w.id = Chain[t + 1]
        BY <1>7, <1>8, <1>11, <1>12, <1>13, <2>2, <3>1, <3>2
      <3>4. NextReply(v, w)'
        <4>1. CASE t = 0
          <5>1. v.part = "greeting"
            BY <1>5, <1>12, <3>1, <4>1 DEF Served
          <5>2. t + 1 = 1
            BY <4>1
          <5> QED BY <1>2, <3>3, <5>1, <5>2 DEF NextReply
        <4>2. CASE t # 0
          <5>1. Ended(l, Chain[t])
            BY <1>5, <1>12, <4>2 DEF Served
          <5>2. v.id = Chain[t] /\ v.part # "greeting" /\ Final(v)
            BY <3>1, <5>1 DEF Ended
          <5>3. t \in 1..(Len(Chain) - 1) /\ t \in 1..Len(Chain)
            BY <1>7, <4>2, ChainRises
          <5>4. Final(v)'
            <6>1. v.id \in 0..Len(sent)
              BY <5>2, <5>3, ChainRises
            <6> QED BY <1>15, <5>2, <6>1
          <5> QED BY <1>2, <3>3, <5>2, <5>3, <5>4 DEF NextReply
        <4> QED BY <4>1, <4>2
      <3> QED BY <3>3, <3>4
    <2>3. CASE p > l
      <3>1. PICK i \in 1..(k - 1) : p = l + i
        <4>1. p - l \in 1..(k - 1) /\ p = l + (p - l)
          BY <1>12, <1>13, <2>0, <2>3
        <4> QED BY <4>1
      <3>2. i \in 1..k /\ i + 1 \in 1..k /\ p + 1 = l + (i + 1)
        BY <1>12, <3>1
      <3>3. PICK v, w : v = x[i] /\ w = x[i + 1]
        OBVIOUS
      <3>4. replies'[p] = v /\ replies'[p + 1] = w
        BY <1>13, <3>1, <3>2, <3>3
      <3>5. v.id = r /\ w.id = r /\ v.part # "greeting" /\ ~Final(v) /\ w.part \in {"body", "end"}
        BY <1>11, <1>12, <3>1, <3>2, <3>3
      <3>6. ~Final(v)'
        BY <1>15, <3>5
      <3> QED BY <3>4, <3>5, <3>6 DEF NextReply
    <2> QED BY <1>12, <2>0, <2>1, <2>2, <2>3
  <1>19. ASSUME NEW p \in 1..Len(replies'), replies'[p].part = "end", Kind(replies[p].id)' = "capa"
         PROVE  replies'[p].mark = "pipe" <=> offers'
    <2>1. Kind(replies'[p].id) = "capa" /\ offers' = offers
      <3>1. PICK v : v = replies'[p]
        OBVIOUS
      <3>2. Kind(v.id)' = "capa"
        BY <1>19, <3>1
      <3>3. Kind(v.id) = "capa"
        BY <1>16, <3>2
      <3> QED BY <1>1, <3>1, <3>3
    <2>2. CASE p \in 1..l
      <3>1. replies'[p] = replies[p] /\ p \in 1..Len(replies)
        BY <1>12, <1>13, <2>2
      <3> QED BY <1>19, <2>1, <3>1 DEF RelayInv, Replied
    <2>3. CASE \E i \in 1..k : p = l + i
      BY <1>11, <1>12, <1>13, <1>19, <2>1, <2>3
    <2> QED BY <1>13, <1>14, <1>19, <2>2, <2>3
  <1>20. Replied'
    <2>1. replies' # <<>>
      BY <1>12, <1>13, EmptySeq
    <2>2. replies'[1].part = "greeting"
      <3>1. 1 \in 1..l
        BY <1>12
      <3> QED BY <1>13, <3>1 DEF RelayInv, Replied
    <2>3. t + 1 \in 0..Len(Chain')
      BY <1>2, <1>7
    <2> QED BY <1>13, <1>17, <1>18, <1>19, <2>1, <2>2, <2>3 DEF Replied
  <1>21. clientEnd' \in Ends /\ originEnd' \in Ends /\ (originEnd' # "reset" => originEnd # "reset")
    BY <1>1 DEF clientVars, RelayInv, Ground, Scalars
  <1>22. UNCHANGED <<proxyVars, delivered, forwarded, fetched, offers>>
    BY <1>1 DEF clientVars
  <1> QED BY <1>2, <1>3, <1>11, <1>13, <1>20, <1>21, <1>22, ProxyKept

\* The client sends more, a peer goes away, or nothing happens.
LEMMA PeerStep ==
  ASSUME ClientInv, ClientInv', RelayInv, ClientSend \/ ClientEnds \/ OriginEnds \/ UNCHANGED vars
  PROVE  RelayInv'
  <1>1. UNCHANGED <<proxyVars, delivered, forwarded, fetched, offers, taken, replies>>
    BY DEF ClientSend, ClientEnds, OriginEnds, vars, proxyVars, clientVars, originVars
  <1>2. Later /\ Chain' = Chain /\ Turn' = Turn
    <2>1. CASE ClientSend
      BY <2>1, LaterSending, ClientSends
    <2>2. CASE ClientEnds \/ OriginEnds \/ UNCHANGED vars
      <3>1. UNCHANGED reading
        BY <2>2 DEF reading, ClientEnds, OriginEnds, vars, proxyVars, clientVars, originVars
      <3>2. Chain' = Chain /\ queue' = queue /\ Later
        BY <1>1, <3>1, LaterReading DEF proxyVars
      <3> QED BY <3>2 DEF Turn
    <2> QED BY <2>1, <2>2
  <1>3. clientEnd' \in Ends /\ originEnd' \in Ends /\ (originEnd' # "reset" => originEnd # "reset")
    <2>1. clientEnd \in Ends /\ originEnd \in Ends
      BY DEF RelayInv, Ground, Scalars
    <2> QED BY <2>1 DEF ClientSend, ClientEnds, OriginEnds, Ending, Ends, vars, proxyVars, clientVars, originVars
  <1>4. PICK f \in 0..Len(Chain) : forwarded = UpTo(f)
    BY DEF RelayInv, Ground
  <1>5. Len(forwarded) \in Nat
    BY <1>4, UpToLength
  <1>6. Replied'
    <2>1. Len(forwarded') \in Nat /\ Len(forwarded) <= Len(forwarded')
      BY <1>1, <1>5
    <2> QED BY <1>1, <1>2, <1>5, <2>1, RepliedKept DEF RelayInv
  <1>7. <<>> \in Seq(ReplyUnits) /\ replies' = replies \o <<>>
    <2>1. replies \in Seq(ReplyUnits)
      BY DEF RelayInv, Replied
    <2> QED BY <1>1, <2>1, EmptySeq, ConcatEmptySeq
  <1>8. UNCHANGED <<proxyVars, delivered, forwarded, fetched, offers>>
    BY <1>1
  <1>9. PICK x : x = <<>>
    OBVIOUS
  <1>10. x \in Seq(ReplyUnits) /\ replies' = replies \o x
    BY <1>7, <1>9
  <1> QED BY <1>2, <1>3, <1>6, <1>8, <1>10, ProxyKept

\* A step of the proxy by which the origin has sent nothing new.
LEMMA ProxyReplied ==
  ASSUME ClientInv, ClientInv', Later, RelayInv, UNCHANGED <<taken, replies, offers>>,
         NEW f \in 0..Len(Chain), forwarded' = UpTo(f), Len(forwarded) <= Len(UpTo(f))
  PROVE  Replied'
  <1>1. PICK g \in 0..Len(Chain) : forwarded = UpTo(g)
    BY DEF RelayInv, Ground
  <1>2. Len(forwarded) \in Nat /\ Len(forwarded') \in Nat
    BY <1>1, UpToLength
  <1> QED BY <1>2, RepliedKept DEF RelayInv

\* The proxy closes the connection, or dies; d is what it has told the client.
LEMMA ClosedStep ==
  ASSUME ClientInv, ClientInv', Later, RelayInv, UNCHANGED <<taken, replies, offers, clientEnd, originEnd>>,
         Scalars', fetched' \in 0..Len(replies), NEW f \in 0..Len(Chain), forwarded' = UpTo(f),
         Len(forwarded) <= Len(UpTo(f)),
         IsPrefix(OfOrigin(delivered'), OfOrigin(replies)), state' = "CLOSED"
  PROVE  RelayInv'
  <1>1. ~Alive'
    BY DEF Alive
  <1>2. Replied'
    BY ProxyReplied
  <1>3. Ground'
    BY GroundKept DEF RelayInv
  <1> QED BY <1>1, <1>2, <1>3 DEF RelayInv

\* Where a handler leaves the connection.
LEMMA LeaveIs ==
  ASSUME NEW a, NEW b, armed = <<a, b>>, NEW side \in {1, 2}, NEW o, Leave(side, o)
  PROVE  IF Closes(o.next) THEN state' = "CLOSED"
         ELSE /\ state' = o.next
              /\ armed' = IF side = 1 THEN <<Given(o.client, Given(o.key, a)), Given(o.origin, b)>>
                         ELSE <<Given(o.client, a), Given(o.origin, Given(o.key, b))>>
  <1>1. CASE Closes(o.next)
    BY <1>1 DEF Leave
  <1>2. CASE ~Closes(o.next)
    <2>1. PICK key : key = [armed EXCEPT ![side] = Given(o.key, @)]
      OBVIOUS
    <2>2. state' = o.next /\ armed' = <<Given(o.client, key[1]), Given(o.origin, key[2])>>
      BY <1>2, <2>1 DEF Leave
    <2>3. side = 1 => key[1] = Given(o.key, a) /\ key[2] = b
      BY <2>1
    <2>4. side = 2 => key[1] = a /\ key[2] = Given(o.key, b)
      BY <2>1
    <2> QED BY <1>2, <2>2, <2>3, <2>4
  <1> QED BY <1>1, <1>2

LEMMA ConnectStep ==
  ASSUME ClientInv, ClientInv', ArmedFor, RelayInv, Refused \/ Connected
  PROVE  RelayInv'
  <1>1. UNCHANGED <<rb, wb, sb, greeting, parsed, queue, pend, request, stage, pipelining, sent, written,
                    received, clientEnd, originVars>>
    BY DEF Refused, Connected, clientVars
  <1>2. UNCHANGED reading /\ Later /\ Chain' = Chain /\ Turn' = Turn
    <2>1. UNCHANGED reading
      BY <1>1 DEF reading
    <2>2. Chain' = Chain /\ queue' = queue /\ Later
      BY <1>1, <2>1, LaterReading
    <2> QED BY <2>1, <2>2 DEF Turn
  <1>3. PICK f \in 0..Len(Chain) : forwarded = UpTo(f)
    BY DEF RelayInv, Ground
  <1>4. Len(forwarded) \in Nat
    BY <1>3, UpToLength
  <1>5. forwarded' = UpTo(f) /\ Len(forwarded) <= Len(UpTo(f)) /\ fetched' \in 0..Len(replies)
        /\ UNCHANGED <<taken, replies, offers, clientEnd, originEnd, fetched>>
    BY <1>1, <1>3, <1>4 DEF originVars, RelayInv, Ground
  <1>6. delivered \in Seq(ReplyUnits) /\ IsPrefix(OfOrigin(delivered), OfOrigin(replies)) /\ Scalars
    BY DEF RelayInv, Ground, Scalars
  <1>7. CASE Refused
    <2>1. state' = "CLOSED" /\ delivered' = delivered \o Notice(Capa) /\ fault' \in Faults
      BY <1>7 DEF Refused, Leave, Closes, FailMute, Outcome, Tell, Broken, Faults
    <2>2. Capa \in Ids
      BY DEF Ids
    <2>3. delivered' \in Seq(ReplyUnits) /\ OfOrigin(delivered') = OfOrigin(delivered)
      BY <1>6, <2>1, <2>2, NoticeAdded
    <2>4. Scalars'
      BY <1>1, <1>5, <1>6, <2>1, <2>3 DEF Scalars
    <2>5. IsPrefix(OfOrigin(delivered'), OfOrigin(replies))
      BY <1>6, <2>3
    <2> QED BY <1>2, <1>5, <2>1, <2>4, <2>5, ClosedStep
  <1>8. CASE Connected
    <2>1. /\ state = "CONNECTING" /\ state' = "WELCOME_READ" /\ fault = "none"
          /\ fault' = fault /\ delivered' = delivered
      BY <1>8 DEF Connected, On, Leave, Closes, Outcome, clientVars
    <2>2. armed' = <<"NOOP", "READ">>
      <3>1. armed = <<"NOOP", "WRITE">> /\ Leave(2, Outcome("WELCOME_READ", "READ", "NOOP", "KEEP"))
        BY <1>8, <2>1 DEF Connected, ArmedFor, Armed
      <3>2. PICK o : o = Outcome("WELCOME_READ", "READ", "NOOP", "KEEP")
        OBVIOUS
      <3>3. ~Closes(o.next) /\ o.client = "NOOP" /\ o.origin = "KEEP" /\ o.key = "READ"
        BY <3>2 DEF Outcome, Closes
      <3>4. armed' = <<Given(o.client, "NOOP"), Given(o.origin, Given(o.key, "WRITE"))>>
        BY <3>1, <3>2, <3>3, LeaveIs
      <3> QED BY <3>3, <3>4 DEF Given
    <2>3. Alive /\ Sending /\ Fetching /\ Delivering
      BY <2>1 DEF Alive, RelayInv
    <2>4. Scalars'
      BY <1>1, <1>5, <1>6, <2>1 DEF Scalars, LiveStates
    <2>5. Replied'
      BY <1>2, <1>5, ProxyReplied
    <2>6. Ground'
      <3>1. fetched' \in 0..Len(replies') /\ IsPrefix(OfOrigin(delivered'), OfOrigin(replies'))
        BY <1>5, <1>6, <2>1
      <3> QED BY <1>2, <1>5, <2>1, <2>4, <3>1, GroundKept DEF RelayInv
    <2>7. Sending'
      <3>1. pend = Null /\ forwarded = UpTo(0) /\ 0 \in 0..Len(Chain)
        BY <2>1, <2>3, ChainRises DEF Sending, SentCount, Welcoming
      <3>2. UpTo(0)' = UpTo(0)
        BY <1>2, <3>1, UpToStays
      <3>3. pend' = Null /\ SentCount' = 0 /\ forwarded' = UpTo(0)'
        BY <1>1, <2>1, <3>1, <3>2 DEF SentCount, Welcoming, originVars
      <3> QED BY <2>1, <3>3 DEF Sending
    <2>8. Fetching'
      <3>1. Pos' = Pos
        BY <1>1, <1>5, <2>1 DEF Pos
      <3>2. At(Pos, stage)'
        <4>1. PICK p, st : p = Pos /\ st = stage
          OBVIOUS
        <4>2. At(p, st)
          BY <2>3, <4>1 DEF Fetching
        <4>3. At(p, st)'
          BY <1>1, <1>2, <1>5, <4>2 DEF At, Ended, Final, MultiLine, Kind
        <4> QED BY <1>1, <3>1, <4>1, <4>3
      <3> QED BY <1>1, <1>5, <2>1, <2>3, <3>1, <3>2 DEF Fetching, Stages, Welcoming
    <2>9. Delivering'
      <3>1. Turn = 1
        BY <2>1, <2>3, EarlyClient DEF Early
      <3>2. 2..Turn' = {} /\ ~Writes' /\ ~Writes
        BY <1>2, <2>1, <3>1 DEF Writes
      <3>3. Pos' = Pos
        BY <1>1, <1>5, <2>1 DEF Pos
      <3> QED BY <1>1, <1>5, <2>1, <2>3, <3>2, <3>3 DEF Delivering
    <2> QED BY <2>5, <2>6, <2>7, <2>8, <2>9 DEF RelayInv
  <1> QED BY <1>7, <1>8

-----------------------------------------------------------------------------
(* The greeting.                                                           *)

\* Until the proxy sends its CAPA the origin has sent its greeting and no more.
LEMMA WelcomeIs ==
  ASSUME ClientInv, RelayInv, Alive, state \in Welcoming
  PROVE  /\ forwarded = UpTo(0) /\ 0 \in 0..Len(Chain) /\ Turn = 1
         /\ \A i \in 1..Len(replies) : replies[i].part = "greeting"
         /\ Pos = fetched - Len(wb.data) /\ Pos \in 0..fetched /\ fetched \in 0..Len(replies)
         /\ replies \in Seq(ReplyUnits) /\ Sound(wb)
         /\ wb.data = SubSeq(replies, Pos + 1, fetched)
         /\ sb = EmptyBuffer /\ stage = "status" /\ pend = Null /\ pipelining = FALSE
         /\ queue = NewQueue
         /\ OfOrigin(delivered) = OfOrigin(SubSeq(replies, 1, Pos)) /\ delivered \in Seq(ReplyUnits)
  <1>1. Sending /\ Fetching /\ Delivering /\ Ground /\ Replied
    BY DEF RelayInv
  <1>2. state \notin {"CAPA", "REQUEST", "RESPONSE"} /\ state \in Early
    BY DEF Welcoming, Early
  <1>3. pend = Null /\ forwarded = UpTo(0)
    BY <1>1, <1>2 DEF Sending, SentCount
  <1>4. Len(Chain) \in Nat /\ 0 \in 0..Len(Chain)
    BY ChainRises
  <1>5. PICK t \in 0..Len(Chain) : Served(t)
    BY <1>1 DEF Replied
  <1>6. t = 0
    <2>1. Len(UpTo(t)) <= Len(UpTo(0))
      BY <1>3, <1>5 DEF Served
    <2>2. ~(0 < t)
      <3>1. 0 < t => Len(UpTo(0)) < Len(UpTo(t))
        BY <1>4, UpToLength
      <3>2. Len(UpTo(0)) \in Nat /\ Len(UpTo(t)) \in Nat
        BY <1>4, UpToLength
      <3> QED BY <2>1, <3>1, <3>2
    <2> QED BY <1>4, <2>2
  <1>7. \A i \in 1..Len(replies) : replies[i].part = "greeting"
    BY <1>5, <1>6 DEF Served
  <1>8. Turn = 1 /\ queue = NewQueue
    BY <1>2, EarlyClient DEF ClientInv, NothingYet
  <1>9. Pos = fetched - Len(wb.data) /\ Pos \in 0..fetched /\ wb.data = SubSeq(replies, Pos + 1, fetched)
    BY <1>1, <1>2 DEF Pos, Fetching
  <1>10. fetched \in 0..Len(replies) /\ replies \in Seq(ReplyUnits) /\ Sound(wb) /\ delivered \in Seq(ReplyUnits)
    BY <1>1 DEF Ground, Replied, Scalars
  <1>11. stage = "status" /\ pipelining = FALSE
    BY <1>1, <1>2 DEF Fetching, Stages
  <1>12. sb = EmptyBuffer
    BY <1>1, <1>2 DEF Delivering, Writes
  <1>13. OfOrigin(delivered) = OfOrigin(SubSeq(replies, 1, Pos))
    <2>1. delivered \o sb.data = delivered
      <3>1. sb.data = <<>>
        BY <1>12 DEF EmptyBuffer
      <3> QED BY <1>10, <3>1, ConcatEmptySeq
    <2> QED BY <1>1, <2>1 DEF Delivering
  <1> QED BY <1>3, <1>4, <1>7, <1>8, <1>9, <1>10, <1>11, <1>12, <1>13

\* What is read is read in order.
LEMMA PrefixRead ==
  ASSUME replies \in Seq(ReplyUnits), NEW d \in Seq(ReplyUnits), NEW p \in 0..Len(replies),
         OfOrigin(d) = OfOrigin(SubSeq(replies, 1, p))
  PROVE  IsPrefix(OfOrigin(d), OfOrigin(replies))
  <1>1. d \in Seq(Units) /\ <<>> \in Seq(Units) /\ d \o <<>> = d
    BY RepliesAreUnits, EmptySeq, ConcatEmptySeq
  <1>2. OfOrigin(d \o <<>>) = OfOrigin(SubSeq(replies, 1, p))
    BY <1>1
  <1>3. PICK y : y = <<>>
    OBVIOUS
  <1>4. y \in Seq(Units) /\ OfOrigin(d \o y) = OfOrigin(SubSeq(replies, 1, p))
    BY <1>1, <1>2, <1>3
  <1> QED BY <1>1, <1>4, OriginPrefix

LEMMA WelcomeKept ==
  ASSUME ClientInv, ClientInv', RelayInv, Alive, state \in Welcoming, state' \in Welcoming \cup {"CAPA"},
         UNCHANGED <<reading, queue, taken, replies, offers, pend, sb, pipelining, originEnd, clientEnd>>,
         request' = Capa, stage' = "status",
         Scalars', fetched' \in 0..Len(replies), NEW p \in 0..fetched', fetched' - Len(wb'.data) = p,
         wb'.data = SubSeq(replies, p + 1, fetched'), OfOrigin(delivered') = OfOrigin(SubSeq(replies, 1, p)),
         forwarded' = IF state' = "CAPA" THEN forwarded \o Line(Capa) ELSE forwarded
  PROVE  RelayInv'
  <1>1. /\ forwarded = UpTo(0) /\ 0 \in 0..Len(Chain) /\ Turn = 1
        /\ \A i \in 1..Len(replies) : replies[i].part = "greeting"
        /\ replies \in Seq(ReplyUnits) /\ sb = EmptyBuffer /\ pend = Null /\ pipelining = FALSE
    BY WelcomeIs
  <1>2. Later /\ Chain' = Chain /\ Turn' = 1
    <2>1. Later /\ Chain' = Chain
      BY LaterReading
    <2> QED BY <1>1, <2>1 DEF Turn
  <1>3. state' \notin {"REQUEST", "RESPONSE"} /\ state' # "CLOSED"
    BY DEF Welcoming
  <1>4. PICK f \in 0..Len(Chain) : f = IF state' = "CAPA" THEN 1 ELSE 0
    BY ChainRises
  <1>5. forwarded' = UpTo(f) /\ Len(forwarded) <= Len(UpTo(f))
    <2>1. Chain[1] = Capa /\ 0 \in 0..(Len(Chain) - 1) /\ Len(Chain) \in Nat
      BY ChainRises
    <2>2. UpTo(0 + 1) = UpTo(0) \o Line(Chain[0 + 1])
      BY <2>1, UpToGrows
    <2>3. UpTo(1) = UpTo(0) \o Line(Capa)
      <3>1. 0 + 1 = 1
        OBVIOUS
      <3>2. Chain[0 + 1] = Capa /\ UpTo(0 + 1) = UpTo(1)
        BY <2>1, <3>1
      <3> QED BY <2>2, <3>2
    <2>4. forwarded' = UpTo(f)
      BY <1>1, <1>4, <2>3
    <2>5. Len(UpTo(0)) \in Nat /\ Len(UpTo(f)) \in Nat /\ (0 < f => Len(UpTo(0)) < Len(UpTo(f)))
      BY <1>1, UpToLength
    <2>6. 0 < f \/ f = 0
      BY <1>4
    <2> QED BY <1>1, <2>4, <2>5, <2>6, SMTT(60)
  <1>6. Replied'
    BY <1>2, <1>5, ProxyReplied
  <1>7. delivered' \in Seq(ReplyUnits) /\ p \in 0..Len(replies)
    <2>1. Len(replies) \in Nat
      BY <1>1, LenProperties
    <2> QED BY <2>1 DEF Scalars
  <1>8. sb'.data = <<>> /\ Len(sb'.data) = 0
    BY <1>1 DEF EmptyBuffer
  <1>9. Ground'
    <2>1. IsPrefix(OfOrigin(delivered'), OfOrigin(replies'))
      <3>1. PICK d \in Seq(ReplyUnits) : d = delivered'
        BY <1>7
      <3>2. IsPrefix(OfOrigin(d), OfOrigin(replies))
        BY <1>1, <1>7, <3>1, PrefixRead
      <3> QED BY <3>1, <3>2
    <2>2. \A i \in 1..Len(sb'.data) : sb'.data[i].id = request'
      BY <1>8
    <2>3. fetched' \in 0..Len(replies')
      OBVIOUS
    <2> QED BY <1>2, <1>5, <2>1, <2>2, <2>3, GroundKept DEF RelayInv
  <1>10. Sending'
    <2>1. UpTo(f)' = UpTo(f)
      BY <1>2, UpToStays
    <2>2. SentCount' = f
      BY <1>3, <1>4 DEF SentCount, Welcoming
    <2> QED BY <1>1, <1>3, <1>5, <2>1, <2>2 DEF Sending
  <1>11. Pos' = p
    BY <1>3 DEF Pos
  <1>12. Fetching'
    <2>1. \A i \in 1..p : replies[i].part = "greeting"
      <3>1. 1..p \subseteq 1..Len(replies)
        BY <1>7
      <3> QED BY <1>1, <3>1
    <2>2. At(Pos, stage)'
      <3>1. At(p, "status")'
        BY <1>2, <2>1 DEF At
      <3> QED BY <1>11, <3>1
    <2>3. stage' \in Stages'
      BY <1>3 DEF Stages
    <2> QED BY <1>1, <1>3, <1>11, <2>2, <2>3 DEF Fetching
  <1>13. Delivering'
    <2>1. delivered' \o sb'.data = delivered'
      BY <1>7, <1>8, ConcatEmptySeq
    <2>2. 2..Turn' = {} /\ ~Writes'
      BY <1>2, <1>3 DEF Writes
    <2> QED BY <1>1, <1>11, <2>1, <2>2 DEF Delivering
  <1> QED BY <1>6, <1>9, <1>10, <1>12, <1>13 DEF RelayInv

\* The greeting is received.
LEMMA WelcomeReads ==
  ASSUME ClientInv, ClientInv', RelayInv, WelcomeReadStep
  PROVE  RelayInv'
  <1>1. /\ state = "WELCOME_READ" /\ fault = "none" /\ state \in Welcoming /\ Alive
    BY DEF WelcomeReadStep, On, Welcoming, Alive
  <1>2. UNCHANGED <<rb, sb, parsed, queue, pend, request, stage, pipelining, fault, clientVars, forwarded,
                    taken, replies, offers, originEnd>>
    BY DEF WelcomeReadStep
  <1>3. UNCHANGED reading /\ Later /\ Chain' = Chain
    <2>1. UNCHANGED reading
      BY <1>2 DEF reading, clientVars
    <2> QED BY <2>1, LaterReading
  <1>4. PICK n \in FromOrigin(Room(wb)) :
       /\ greeting' = (n = Room(wb))
       /\ IF n > 0
          THEN /\ wb' = Put(wb, Slice(replies, fetched, n)) /\ fetched' = fetched + n
               /\ Leave(2, ToClient("WELCOME_WRITE", "WRITE"))
          ELSE Leave(2, Fail) /\ UNCHANGED <<wb, fetched>>
    BY DEF WelcomeReadStep
  <1>5. Scalars /\ delivered \in Seq(ReplyUnits) /\ IsPrefix(OfOrigin(delivered), OfOrigin(replies))
    BY DEF RelayInv, Ground, Scalars
  <1>6. /\ forwarded = UpTo(0) /\ 0 \in 0..Len(Chain) /\ Pos = fetched - Len(wb.data) /\ Pos \in 0..fetched
        /\ fetched \in 0..Len(replies) /\ replies \in Seq(ReplyUnits) /\ Sound(wb)
        /\ wb.data = SubSeq(replies, Pos + 1, fetched) /\ stage = "status"
        /\ OfOrigin(delivered) = OfOrigin(SubSeq(replies, 1, Pos))
    BY <1>1, WelcomeIs
  <1>7. Len(forwarded) \in Nat
    BY <1>6, UpToLength
  <1>8. CASE ~(n > 0)
    <2>1. state' = "CLOSED" /\ UNCHANGED <<wb, fetched>> /\ greeting' \in BOOLEAN
      BY <1>4, <1>8 DEF Leave, Closes, Fail, Outcome
    <2>2. Scalars'
      BY <1>2, <1>5, <2>1 DEF Scalars, clientVars
    <2>3. UNCHANGED <<taken, replies, offers, clientEnd, originEnd, delivered>>
      BY <1>2 DEF clientVars
    <2>4. forwarded' = UpTo(0) /\ Len(forwarded) <= Len(UpTo(0)) /\ fetched' \in 0..Len(replies)
      BY <1>2, <1>6, <1>7, <2>1
    <2> QED BY <1>3, <1>5, <1>6, <2>1, <2>2, <2>3, <2>4, ClosedStep
  <1>9. CASE n > 0
    <2>1. PICK b : b = Put(wb, Slice(replies, fetched, n))
      OBVIOUS
    <2>2. Sound(b) /\ b.data = SubSeq(replies, Pos + 1, fetched + n) /\ n \in Nat /\ fetched + n \in 0..Len(replies)
      <3>1. PICK p \in 0..fetched : p = Pos
        BY <1>6
      <3>2. Sound(b) /\ b.data = SubSeq(replies, p + 1, fetched + n) /\ n \in Nat /\ fetched + n \in 0..Len(replies)
        BY <1>6, <1>9, <2>1, <3>1, Receives
      <3> QED BY <3>1, <3>2
    <2>3. wb' = b /\ fetched' = fetched + n /\ state' = "WELCOME_WRITE" /\ greeting' \in BOOLEAN
      BY <1>4, <1>9, <2>1 DEF Leave, Closes, ToClient, Outcome
    <2>4. Len(b.data) = (fetched + n) - Pos /\ Pos \in 0..(fetched + n)
      <3>1. Len(replies) \in Nat /\ fetched \in Nat /\ Pos \in Nat
        BY <1>6, LenProperties
      <3>2. PICK p \in Nat, q \in Nat : p = Pos /\ q = fetched + n
        BY <2>2, <3>1
      <3>3. p \in 0..q /\ q \in p..Len(replies)
        BY <1>6, <2>2, <3>1, <3>2
      <3>4. Len(SubSeq(replies, p + 1, q)) = q - p
        BY <1>6, <3>3, Window
      <3> QED BY <2>2, <3>2, <3>3, <3>4
    <2>5. Scalars'
      BY <1>2, <1>5, <2>2, <2>3 DEF Scalars, LiveStates, clientVars
    <2>6. PICK p \in 0..(fetched + n) : p = Pos
      BY <2>4
    <2>7. /\ fetched' \in 0..Len(replies) /\ p \in 0..fetched' /\ fetched' - Len(wb'.data) = p
          /\ wb'.data = SubSeq(replies, p + 1, fetched') /\ OfOrigin(delivered') = OfOrigin(SubSeq(replies, 1, p))
      <3>1. fetched' - Len(wb'.data) = p
        <4>1. fetched \in Nat
          BY <1>6
        <4> QED BY <2>2, <2>3, <2>4, <2>6, <4>1
      <3>2. delivered' = delivered
        BY <1>2 DEF clientVars
      <3> QED BY <1>6, <2>2, <2>3, <2>6, <3>1, <3>2
    <2>8. state' \in Welcoming \cup {"CAPA"} /\ state' # "CAPA"
      BY <2>3 DEF Welcoming
    <2>9. request' = Capa /\ stage' = "status"
      <3>1. request = Capa
        BY <1>1, EarlyClient DEF Welcoming, Early
      <3> QED BY <1>2, <1>6, <3>1
    <2>10. UNCHANGED <<reading, queue, taken, replies, offers, pend, sb, pipelining, originEnd, clientEnd>>
      BY <1>2, <1>3 DEF clientVars
    <2>11. forwarded' = forwarded
      BY <1>2
    <2> QED BY <1>1, <2>5, <2>7, <2>8, <2>9, <2>10, <2>11, WelcomeKept
  <1> QED BY <1>8, <1>9

\* A send takes some of what a buffer holds.
LEMMA Writing ==
  ASSUME NEW b, Sound(b), NEW n \in ToClientSends(Len(b.data)), n # -1, NEW left, left = Drop(b, n)
  PROVE  /\ n \in 0..Len(b.data) /\ Sound(left) /\ left.data = SubSeq(b.data, n + 1, Len(b.data))
         /\ (left.data = <<>> <=> n = Len(b.data)) /\ b.data = SubSeq(b.data, 1, n) \o left.data
         /\ (b.data # <<>> => n > 0)
  <1>1. b.data \in Seq(Units) /\ Len(b.data) \in Nat
    BY RoomIs
  <1>2. n \in 0..Len(b.data)
    BY <1>1 DEF ToClientSends
  <1>3. Sound(left) /\ left.data = SubSeq(b.data, n + 1, Len(b.data)) /\ (left.data = <<>> <=> n = Len(b.data))
    BY <1>2, DropSound
  <1>4. SubSeq(b.data, 1, n) \o SubSeq(b.data, n + 1, Len(b.data)) = b.data
    <2>1. /\ 0 \in Nat /\ n \in 0..Len(b.data) /\ Len(b.data) \in n..Len(b.data) /\ 0 + 1 = 1
      BY <1>1, <1>2
    <2>2. SubSeq(b.data, 0 + 1, n) \o SubSeq(b.data, n + 1, Len(b.data)) = SubSeq(b.data, 0 + 1, Len(b.data))
      BY <1>1, <2>1, WindowGrows
    <2>3. SubSeq(b.data, 1, Len(b.data)) = b.data
      BY <1>1, SubSeqFull
    <2> QED BY <2>1, <2>2, <2>3
  <1>5. b.data # <<>> => n > 0
    <2>1. b.data # <<>> => Len(b.data) # 0
      BY <1>1, EmptySeq
    <2> QED BY <1>1, <2>1 DEF ToClientSends
  <1> QED BY <1>2, <1>3, <1>4, <1>5

\* The greeting is written to the client, and then the proxy asks for capabilities.
LEMMA WelcomeWrites ==
  ASSUME ClientInv, ClientInv', RelayInv, WelcomeWriteStep
  PROVE  RelayInv'
  <1>1. /\ state = "WELCOME_WRITE" /\ fault = "none" /\ state \in Welcoming /\ Alive
    BY DEF WelcomeWriteStep, On, Welcoming, Alive
  <1>2. UNCHANGED <<rb, sb, greeting, parsed, queue, pend, pipelining, sent, written, received,
                    clientEnd, taken, replies, fetched, offers, originEnd>>
    BY DEF WelcomeWriteStep
  <1>3. UNCHANGED reading /\ Later
    <2>1. UNCHANGED reading
      BY <1>2 DEF reading
    <2> QED BY <2>1, LaterReading
  <1>4a. PICK n \in ToClientSends(Len(wb.data)) :
       IF n = -1 THEN Leave(1, Fail) /\ UNCHANGED <<wb, request, stage, fault, delivered, forwarded>>
       ELSE /\ wb' = Drop(wb, n)
            /\ delivered' = delivered \o SubSeq(wb.data, 1, n)
            /\ IF greeting THEN Leave(1, ToOrigin("WELCOME_READ", "READ"))
               ELSE IF CanRead(Drop(wb, n)) THEN Leave(1, Stay("WELCOME_WRITE"))
               ELSE Leave(1, ToOrigin("CAPA", "READ"))
            /\ IF state' = "CAPA"
               THEN /\ forwarded' = forwarded \o Line(Capa)
                    /\ request' = Capa /\ stage' = "status"
                    /\ fault' \in Broken(originEnd)
               ELSE UNCHANGED <<request, stage, fault, forwarded>>
    BY DEF WelcomeWriteStep
  <1>4b. PICK left : left = Drop(wb, n)
    OBVIOUS
  <1>4. IF n = -1 THEN Leave(1, Fail) /\ UNCHANGED <<wb, request, stage, fault, delivered, forwarded>>
        ELSE /\ wb' = left
             /\ delivered' = delivered \o SubSeq(wb.data, 1, n)
             /\ IF greeting THEN Leave(1, ToOrigin("WELCOME_READ", "READ"))
                ELSE IF CanRead(left) THEN Leave(1, Stay("WELCOME_WRITE"))
                ELSE Leave(1, ToOrigin("CAPA", "READ"))
             /\ IF state' = "CAPA"
                THEN /\ forwarded' = forwarded \o Line(Capa)
                     /\ request' = Capa /\ stage' = "status"
                     /\ fault' \in Broken(originEnd)
                ELSE UNCHANGED <<request, stage, fault, forwarded>>
    BY <1>4a, <1>4b
  <1>5. Scalars /\ delivered \in Seq(ReplyUnits) /\ IsPrefix(OfOrigin(delivered), OfOrigin(replies))
    BY DEF RelayInv, Ground, Scalars
  <1>6. /\ forwarded = UpTo(0) /\ 0 \in 0..Len(Chain) /\ Pos = fetched - Len(wb.data) /\ Pos \in 0..fetched
        /\ fetched \in 0..Len(replies) /\ replies \in Seq(ReplyUnits) /\ Sound(wb)
        /\ \A i \in 1..Len(replies) : replies[i].part = "greeting"
        /\ wb.data = SubSeq(replies, Pos + 1, fetched) /\ stage = "status"
        /\ OfOrigin(delivered) = OfOrigin(SubSeq(replies, 1, Pos))
    BY <1>1, WelcomeIs
  <1>7. Len(forwarded) \in Nat /\ Len(replies) \in Nat
    BY <1>6, UpToLength, LenProperties
  <1>8. CASE n = -1
    <2>1. state' = "CLOSED" /\ UNCHANGED <<wb, request, stage, fault, delivered, forwarded>>
      BY <1>4, <1>8 DEF Leave, Closes, Fail, Outcome
    <2>2. Scalars'
      BY <1>2, <1>5, <2>1 DEF Scalars
    <2>3. forwarded' = UpTo(0) /\ Len(forwarded) <= Len(UpTo(0)) /\ fetched' \in 0..Len(replies)
      BY <1>2, <1>6, <1>7, <2>1
    <2> QED BY <1>2, <1>3, <1>5, <1>6, <2>1, <2>2, <2>3, ClosedStep
  <1>9. CASE n # -1
    <2>1. /\ n \in 0..Len(wb.data) /\ Sound(left) /\ left.data = SubSeq(wb.data, n + 1, Len(wb.data))
      BY <1>4b, <1>6, <1>9, Writing
    <2>2. PICK p \in Nat, f \in Nat, l \in Nat : p = Pos /\ f = fetched /\ l = Len(wb.data)
      <3>1. Pos \in Nat /\ fetched \in Nat /\ Len(wb.data) \in Nat
        BY <1>6, <1>7, RoomIs, SMTT(60)
      <3> QED BY <3>1
    <2>3. p = f - l /\ p + n \in p..f /\ p + n \in Nat /\ f \in p..Len(replies) /\ p + n \in 0..f
          /\ p + n \in p..Len(replies) /\ n \in Nat /\ p + n \in 0..Len(replies) /\ l = f - p /\ n \in 0..(f - p) /\ f - p \in n..(f - p)
      <3>1. PICK r \in Nat : r = Len(replies)
        BY <1>6, LenProperties
      <3>2. p \in Nat /\ f \in Nat /\ l \in Nat /\ p = f - l /\ n \in 0..l /\ f \in 0..r
        BY <1>6, <1>7, <2>1, <2>2, <3>1
      <3>3. /\ p = f - l /\ p + n \in p..f /\ p + n \in Nat /\ f \in p..r /\ p + n \in 0..f
            /\ p + n \in p..r /\ n \in Nat /\ p + n \in 0..r /\ l = f - p /\ n \in 0..(f - p) /\ f - p \in n..(f - p)
        BY ONLY <3>2, <3>1
      <3> QED BY <3>1, <3>3
    <2>4. left.data = SubSeq(replies, (p + n) + 1, f)
      <3>1. SubSeq(SubSeq(replies, p + 1, f), n + 1, f - p) = SubSeq(replies, p + n + 1, p + (f - p))
        BY <1>6, <2>3, WindowOfWindow
      <3>2. p + (f - p) = f
        BY <2>2
      <3> QED BY <1>6, <2>1, <2>2, <2>3, <3>1, <3>2
    <2>5. SubSeq(wb.data, 1, n) = SubSeq(replies, p + 1, p + n)
      <3>1. SubSeq(SubSeq(replies, p + 1, f), 0 + 1, n) = SubSeq(replies, p + 0 + 1, p + n)
        <4>1. 0 \in Nat /\ n \in 0..(f - p)
          BY <2>3
        <4> QED BY <1>6, <2>3, <4>1, WindowOfWindow
      <3>2. p + 0 + 1 = p + 1 /\ 0 + 1 = 1
        BY <2>2
      <3> QED BY <1>6, <2>2, <3>1, <3>2
    <2>6. PICK z : z = SubSeq(replies, p + 1, p + n)
      OBVIOUS
    <2>7. z \in Seq(ReplyUnits) /\ delivered' = delivered \o z /\ delivered' \in Seq(ReplyUnits)
      <3>1. z \in Seq(ReplyUnits)
        BY <1>6, <2>2, <2>3, <2>6, Window
      <3>2. delivered' = delivered \o z
        BY <1>4, <1>9, <2>5, <2>6
      <3> QED BY <1>5, <3>1, <3>2, ConcatProperties
    <2>8. OfOrigin(delivered') = OfOrigin(SubSeq(replies, 1, p + n))
      <3>1. delivered \in Seq(Units) /\ <<>> \in Seq(Units) /\ delivered \o <<>> = delivered /\ <<>> \o z = z
        BY <1>5, <2>7, RepliesAreUnits, EmptySeq, ConcatEmptySeq
      <3>2. PICK y : y = <<>>
        OBVIOUS
      <3>3. PICK d, a : d = delivered /\ a = SubSeq(replies, 1, p)
        OBVIOUS
      <3>4. a \in Seq(Units) /\ a \o z = SubSeq(replies, 1, p + n) /\ z \in Seq(Units)
        <4>1. 0 \in Nat /\ p \in 0..Len(replies) /\ 0 + 1 = 1
          BY <2>2, <2>3
        <4>2. SubSeq(replies, 0 + 1, p) \o SubSeq(replies, p + 1, p + n) = SubSeq(replies, 0 + 1, p + n)
          BY <1>6, <2>3, <4>1, WindowGrows
        <4>3. SubSeq(replies, 0 + 1, p) \in Seq(ReplyUnits)
          BY <1>6, <4>1, Window
        <4> QED BY <2>6, <2>7, <3>3, <4>1, <4>2, <4>3, RepliesAreUnits
      <3>5. d \in Seq(Units) /\ y \in Seq(Units) /\ OfOrigin(d \o y) = OfOrigin(a)
        BY <1>6, <2>2, <3>1, <3>2, <3>3
      <3>6. OfOrigin(d \o (y \o z)) = OfOrigin(a \o z)
        <4>1. a \in Seq(Units) /\ z \in Seq(Units) /\ d \in Seq(Units) /\ y \in Seq(Units)
          BY <3>4, <3>5
        <4>2. OfOrigin(d \o y) = OfOrigin(a)
          BY <3>5
        <4>3. d \o (y \o z) = (d \o y) \o z
          BY ONLY <4>1, ConcatAssociative, SMTT(30)
        <4>4. OfOrigin((d \o y) \o z) = OfOrigin(a \o z)
          BY ONLY <4>1, <4>2, OriginPasses
        <4> QED BY <4>3, <4>4
      <3>7. d \o (y \o z) = delivered'
        BY <2>7, <3>1, <3>2, <3>3
      <3> QED BY <3>4, <3>6, <3>7
    <2>9. wb' = left /\ state' \in Welcoming \cup {"CAPA"} /\ state' \in LiveStates
      BY <1>4, <1>9 DEF Leave, Closes, Outcome, ToOrigin, Stay, Welcoming, LiveStates
    <2>10. /\ request' = Capa /\ stage' = "status" /\ fault' \in Faults
           /\ forwarded' = IF state' = "CAPA" THEN forwarded \o Line(Capa) ELSE forwarded
      <3>1. request = Capa
        BY <1>1, EarlyClient DEF Welcoming, Early
      <3> QED BY <1>1, <1>4, <1>6, <1>9, <3>1 DEF Broken, Faults
    <2>11. Scalars'
      BY <1>2, <1>5, <2>1, <2>7, <2>9, <2>10 DEF Scalars
    <2>12. fetched' - Len(wb'.data) = p + n
      <3>1. Len(left.data) = f - (p + n)
        BY <1>6, <2>3, <2>4, Window
      <3> QED BY <1>2, <2>2, <2>3, <2>9, <3>1
    <2>13. UNCHANGED <<reading, queue, taken, replies, offers, pend, sb, pipelining, originEnd, clientEnd>>
      BY <1>2, <1>3
    <2>14. PICK q \in 0..f : q = p + n
      BY <2>3
    <2>15. /\ fetched' \in 0..Len(replies) /\ q \in 0..fetched' /\ fetched' - Len(wb'.data) = q
           /\ wb'.data = SubSeq(replies, q + 1, fetched') /\ OfOrigin(delivered') = OfOrigin(SubSeq(replies, 1, q))
      BY <1>2, <1>6, <2>2, <2>4, <2>8, <2>9, <2>12, <2>14
    <2> QED BY <1>1, <2>9, <2>10, <2>11, <2>13, <2>15, WelcomeKept
  <1> QED BY <1>8, <1>9

-----------------------------------------------------------------------------
(* The answer to the proxy's CAPA.                                         *)

\* Some of the units of a buffer that holds a window of the replies.
LEMMA Taking ==
  ASSUME replies \in Seq(ReplyUnits), NEW p \in Nat, NEW f \in p..Len(replies),
         NEW data, data = SubSeq(replies, p + 1, f), NEW n \in 0..(f - p)
  PROVE  /\ Len(data) = f - p /\ data \in Seq(ReplyUnits)
         /\ SubSeq(data, 1, n) \in Seq(ReplyUnits) /\ Len(SubSeq(data, 1, n)) = n
         /\ \A i \in 1..n : SubSeq(data, 1, n)[i] = data[i]
         /\ SubSeq(data, n + 1, f - p) = SubSeq(replies, (p + n) + 1, f)
         /\ SubSeq(replies, 1, p) \in Seq(ReplyUnits)
         /\ SubSeq(replies, 1, p) \o SubSeq(data, 1, n) = SubSeq(replies, 1, p + n)
         /\ p + n \in p..f
  <1>1. /\ f \in Nat /\ Len(replies) \in Nat /\ 0 \in Nat /\ p \in 0..Len(replies) /\ 0 + 1 = 1
        /\ f - p \in n..(f - p) /\ f - p \in Nat /\ p + n \in p..Len(replies) /\ p + n \in p..f
        /\ p + (f - p) = f /\ n \in Nat
    BY LenProperties
  <1>2. data \in Seq(ReplyUnits) /\ Len(data) = f - p
    BY Window
  <1>3. /\ SubSeq(data, 0 + 1, n) \in Seq(ReplyUnits) /\ Len(SubSeq(data, 0 + 1, n)) = n - 0
        /\ \A i \in 1..(n - 0) : SubSeq(data, 0 + 1, n)[i] = data[0 + i]
    <2>1. n \in 0..Len(data)
      BY <1>2
    <2> QED BY <1>1, <1>2, <2>1, Window
  <1>4. n - 0 = n /\ \A i \in 1..n : 0 + i = i
    BY <1>1
  <1>5. /\ SubSeq(data, 1, n) \in Seq(ReplyUnits) /\ Len(SubSeq(data, 1, n)) = n
        /\ \A i \in 1..n : SubSeq(data, 1, n)[i] = data[i]
    BY <1>1, <1>3, <1>4
  <1>6. SubSeq(data, n + 1, f - p) = SubSeq(replies, p + n + 1, p + (f - p))
    BY <1>1, WindowOfWindow
  <1>7. SubSeq(data, 0 + 1, n) = SubSeq(replies, p + 0 + 1, p + n)
    BY <1>1, WindowOfWindow
  <1>8. SubSeq(replies, 0 + 1, p) \o SubSeq(replies, p + 1, p + n) = SubSeq(replies, 0 + 1, p + n)
    BY <1>1, WindowGrows
  <1>9. SubSeq(replies, 0 + 1, p) \in Seq(ReplyUnits)
    BY <1>1, Window
  <1>10. p + 0 + 1 = p + 1
    OBVIOUS
  <1> QED BY <1>1, <1>2, <1>5, <1>6, <1>7, <1>8, <1>9, <1>10

\* A step of the proxy by which it sends the origin no more.
LEMMA ProxyStep ==
  ASSUME ClientInv, ClientInv', Later, RelayInv, UNCHANGED <<taken, replies, offers, forwarded>>,
         Scalars', fetched' \in 0..Len(replies), IsPrefix(OfOrigin(delivered'), OfOrigin(replies)),
         state' \in {"CAPA", "RESPONSE"} => \A i \in 1..Len(sb'.data) : sb'.data[i].id = request',
         Alive' => Sending' /\ Fetching' /\ Delivering'
  PROVE  RelayInv'
  <1>1. PICK f \in 0..Len(Chain) : forwarded = UpTo(f)
    BY DEF RelayInv, Ground
  <1>2. forwarded' = UpTo(f) /\ Len(forwarded) <= Len(UpTo(f))
    <2>1. Len(forwarded) \in Nat
      BY <1>1, UpToLength
    <2> QED BY <1>1, <2>1
  <1>3. Replied'
    BY <1>2, ProxyReplied
  <1>4. fetched' \in 0..Len(replies') /\ IsPrefix(OfOrigin(delivered'), OfOrigin(replies'))
    OBVIOUS
  <1>5. Ground'
    BY <1>2, <1>4, GroundKept DEF RelayInv
  <1> QED BY <1>3, <1>5 DEF RelayInv

\* Units of the proxy's own conversation are not passed on.
LEMMA CapaUnits ==
  ASSUME NEW z \in Seq(ReplyUnits), \A i \in 1..Len(z) : z[i].id = Capa, NEW d \in Seq(ReplyUnits)
  PROVE  OfOrigin(d \o z) = OfOrigin(d)
  <1>1. z \in Seq(Units) /\ d \in Seq(Units)
    BY RepliesAreUnits
  <1>2. OfOrigin(z) = <<>>
    BY <1>1, NothingOfOrigin
  <1>3. OfOrigin(d \o z) = OfOrigin(d) \o OfOrigin(z) /\ OfOrigin(d) \in Seq(Units)
    BY <1>1, OriginConcat
  <1>4. OfOrigin(d) \o <<>> = OfOrigin(d)
    BY <1>3, ConcatEmptySeq
  <1> QED BY <1>2, <1>3, <1>4

LEMMA CapaIs ==
  ASSUME ClientInv, RelayInv, Alive, state = "CAPA"
  PROVE  /\ forwarded = UpTo(1) /\ Turn = 1 /\ request = Capa /\ Len(Chain) = 1 /\ queue = NewQueue
         /\ pend = Null /\ stage \in {"status", "body"} /\ pipelining = FALSE
         /\ Pos = fetched - Len(wb.data) /\ Pos \in 0..fetched /\ fetched \in 0..Len(replies)
         /\ replies \in Seq(ReplyUnits) /\ Sound(wb) /\ wb.data = SubSeq(replies, Pos + 1, fetched)
         /\ At(Pos, stage) /\ delivered \in Seq(ReplyUnits)
         /\ sb.data \in Seq(ReplyUnits) /\ \A i \in 1..Len(sb.data) : sb.data[i].id = Capa
         /\ OfOrigin(delivered) = OfOrigin(SubSeq(replies, 1, Pos))
  <1>1. Sending /\ Fetching /\ Delivering /\ Ground /\ Replied
    BY DEF RelayInv
  <1>2. state \in Early /\ state \notin Welcoming
    BY DEF Welcoming, Early
  <1>3. request = Capa /\ Turn = 1 /\ Len(Chain) = 1 /\ queue = NewQueue
    BY <1>2, EarlyClient DEF ClientInv, NothingYet
  <1>4. pend = Null /\ forwarded = UpTo(1)
    BY <1>1, <1>2 DEF Sending, SentCount
  <1>5. /\ Pos = fetched - Len(wb.data) /\ Pos \in 0..fetched /\ wb.data = SubSeq(replies, Pos + 1, fetched)
        /\ At(Pos, stage) /\ stage \in {"status", "body"} /\ pipelining = FALSE
    BY <1>1, <1>2 DEF Pos, Fetching, Stages
  <1>6. /\ fetched \in 0..Len(replies) /\ replies \in Seq(ReplyUnits) /\ Sound(wb) /\ delivered \in Seq(ReplyUnits)
        /\ sb.data \in Seq(ReplyUnits) /\ \A i \in 1..Len(sb.data) : sb.data[i].id = Capa
    BY <1>1, <1>3 DEF Ground, Replied, Scalars
  <1>7. OfOrigin(delivered) = OfOrigin(SubSeq(replies, 1, Pos))
    BY <1>1, <1>6, CapaUnits DEF Delivering
  <1> QED BY <1>3, <1>4, <1>5, <1>6, <1>7

\* What the parser takes of a buffer b that holds the replies behind the p-th, up to
\* the f-th: k units, after which it is in stage st.
Consumes(p, f, b, k, st) ==
  LET z == SubSeq(b.data, 1, k) IN
  /\ k \in 1..Len(b.data) /\ st \in {"body", "done", "error"} /\ f \in 0..Len(replies)
  /\ p + k \in 0..f /\ p + k \in Nat /\ p \in Nat
  /\ Sound(Drop(b, k)) /\ Drop(b, k).data = SubSeq(replies, (p + k) + 1, f)
  /\ f - Len(Drop(b, k).data) = p + k
  /\ z \in Seq(ReplyUnits) /\ Len(z) = k /\ k \in Nat \ {0} /\ k <= BufferSize /\ z[k] = b.data[k]
  /\ b.data[k] = replies[p + k] /\ p + k \in 1..Len(replies)
  /\ SubSeq(replies, 1, p) \o z = SubSeq(replies, 1, p + k) /\ SubSeq(replies, 1, p) \in Seq(ReplyUnits)
  /\ st # "error" => At(p + k, st) /\ \A i \in 1..k : z[i].id = request

LEMMA Consumption ==
  ASSUME ClientInv, Replied, Sound(wb), NEW p \in 0..fetched, fetched \in 0..Len(replies),
         wb.data = SubSeq(replies, p + 1, fetched), stage \in {"status", "body"}, At(p, stage),
         NEW n \in FromOrigin(Room(wb)), NEW got, got = (IF n > 0 THEN n ELSE 0),
         NEW b, b = Put(wb, Slice(replies, fetched, got)), wb.data # <<>> \/ n > 0,
         NEW k, k = Consumed(b.data), NEW st, st = StageAfter(b.data)[k]
  PROVE  Consumes(p, fetched + got, b, k, st)
  <1>1. replies \in Seq(ReplyUnits) /\ Len(replies) \in Nat
    BY RepliesAre
  <1>2. /\ Sound(b) /\ b.data = SubSeq(replies, p + 1, fetched + got)
        /\ got \in Nat /\ fetched + got \in 0..Len(replies) /\ n \in Int
    BY <1>1, Receives
  <1>3a. PICK d : d = b.data
    OBVIOUS
  <1>3b. PICK f \in Nat : f = fetched + got
    BY <1>1, <1>2
  <1>3. f = fetched + got /\ d = b.data
    BY <1>3a, <1>3b
  <1>4. p \in Nat /\ fetched \in Nat /\ p \in 0..Len(replies) /\ p <= fetched /\ fetched <= f /\ f <= Len(replies)
    BY <1>1, <1>2, <1>3
  <1>5. p < f
    <2>1. CASE n > 0
      <3>1. fetched < f
        BY <1>2, <1>3, <1>4, <2>1
      <3> QED BY <1>4, <3>1
    <2>2. CASE wb.data # <<>>
      <3>1. fetched \in p..Len(replies)
        BY <1>1, <1>4
      <3>2. Len(wb.data) = fetched - p /\ wb.data \in Seq(ReplyUnits)
        BY <1>1, <1>4, <3>1, Window
      <3>3. Len(wb.data) # 0
        BY <2>2, <3>2, EmptySeq
      <3> QED BY <1>4, <3>2, <3>3
    <2> QED BY <2>1, <2>2
  <1>6. /\ Consumed(d) \in 1..(f - p) /\ Len(d) = f - p
        /\ \A i \in 1..(f - p) : d[i] = replies[p + i]
        /\ StageAfter(d)[Consumed(d)] \in {"body", "done", "error"}
        /\ StageAfter(d)[Consumed(d)] # "error" =>
             /\ At(p + Consumed(d), StageAfter(d)[Consumed(d)])
             /\ \A i \in 1..Consumed(d) : d[i].id = request
    <2>1. d = SubSeq(replies, p + 1, f)
      BY <1>2, <1>3
    <2> QED BY <1>4, <1>5, <2>1, Consuming, ZenonT(60)
  <1>7. /\ k \in 1..(f - p) /\ Len(d) = f - p /\ k = Consumed(d) /\ st = StageAfter(d)[k]
        /\ d[k] = replies[p + k] /\ st \in {"body", "done", "error"}
        /\ st # "error" => At(p + k, st) /\ \A i \in 1..k : d[i].id = request
    BY <1>3, <1>6
  <1>8. /\ k \in 0..(f - p) /\ k \in Nat \ {0} /\ f \in p..Len(replies) /\ p + k \in 0..f /\ p + k \in 1..Len(replies)
        /\ p + k \in Nat /\ k \in 0..Len(d) /\ f \in 0..Len(replies)
    BY <1>1, <1>4, <1>5, <1>7
  <1>9. /\ SubSeq(d, 1, k) \in Seq(ReplyUnits) /\ Len(SubSeq(d, 1, k)) = k
        /\ \A i \in 1..k : SubSeq(d, 1, k)[i] = d[i]
        /\ SubSeq(d, k + 1, f - p) = SubSeq(replies, (p + k) + 1, f)
        /\ SubSeq(replies, 1, p) \in Seq(ReplyUnits)
        /\ SubSeq(replies, 1, p) \o SubSeq(d, 1, k) = SubSeq(replies, 1, p + k)
    <2>1. d = SubSeq(replies, p + 1, f)
      BY <1>2, <1>3
    <2>2. p \in Nat /\ f \in p..Len(replies) /\ k \in 0..(f - p) /\ replies \in Seq(ReplyUnits)
      BY <1>1, <1>4, <1>8
    <2> QED BY ONLY <2>1, <2>2, Taking, SMTT(60)
  <1>10. Sound(Drop(b, k)) /\ Drop(b, k).data = SubSeq(replies, (p + k) + 1, f)
    <2>1. Sound(Drop(b, k)) /\ Drop(b, k).data = SubSeq(d, k + 1, Len(d))
      BY <1>2, <1>3, <1>8, DropSound
    <2> QED BY <1>7, <1>9, <2>1
  <1>11. f - Len(Drop(b, k).data) = p + k
    <2>1. PICK q \in Nat : q = p + k
      BY <1>8
    <2>2. f \in q..Len(replies)
      BY <1>8, <2>1
    <2>3. Len(SubSeq(replies, q + 1, f)) = f - q
      BY <1>1, <2>2, Window
    <2> QED BY <1>10, <2>1, <2>3
  <1>12. k <= BufferSize
    <2>1. Len(b.data) <= BufferSize
      <3>1. Room(b) \in Nat /\ Room(b) = BufferSize - (b.off + Len(b.data)) /\ Len(b.data) \in Nat /\ b.off \in Nat
        BY <1>2, RoomIs
      <3>2. PICK o \in Nat, l \in Nat, r \in Nat : o = b.off /\ l = Len(b.data) /\ r = Room(b) /\ r = BufferSize - (o + l)
        BY <3>1
      <3>3. l <= BufferSize
        BY <3>2, BufferSizeAssumption
      <3> QED BY <3>2, <3>3
    <2> QED BY <1>3, <1>7, <1>8, <2>1, BufferSizeAssumption
  <1>13. k \in 1..k
    BY <1>8
  <1> QED BY <1>3, <1>4, <1>7, <1>8, <1>9, <1>10, <1>11, <1>12, <1>13 DEF Consumes

\* What the proxy makes of a reply to a CAPA that it survives.
LEMMA CapaSays ==
  ASSUME ClientInv, Replied, NEW p, Ended(p, request), Kind(request) = "capa", CapaResult(replies[p]),
         offers \in BOOLEAN
  PROVE  pipelining' \in BOOLEAN /\ fault' \in Faults /\ (fault' = "none" => pipelining' = offers)
  <1>1. /\ p \in 1..Len(replies) /\ replies[p].id = request /\ replies[p].part \in {"status", "end"}
    BY DEF Ended
  <1>2. pipelining' = (replies[p].mark = "pipe") /\ (replies[p].part = "status" => fault' = "null CAPA reply")
        /\ fault' \in Faults
    BY DEF CapaResult, Faults
  <1>3. replies[p].part = "end" => (replies[p].mark = "pipe" <=> offers)
    BY <1>1 DEF Replied
  <1>4. replies[p].part = "end" => pipelining' = offers
    BY <1>2, <1>3
  <1>5. CASE replies[p].part = "status"
    BY <1>2, <1>5
  <1>6. CASE replies[p].part = "end"
    BY <1>2, <1>4, <1>6
  <1> QED BY <1>1, <1>5, <1>6

\* A single-byte or short answer, or all of it.
LEMMA CapaReads ==
  ASSUME ClientInv, ClientInv', ArmedFor, RelayInv, CapaReadStep
  PROVE  RelayInv'
  <1>1. state = "CAPA" /\ fault = "none" /\ Alive
    BY DEF CapaReadStep, On, Alive
  <1>2. UNCHANGED <<rb, greeting, queue, pend, request, sent, written, received, clientEnd,
                    forwarded, taken, replies, offers, originEnd>>
    BY DEF CapaReadStep
  <1>3. UNCHANGED reading /\ Later /\ Chain' = Chain
    <2>1. UNCHANGED reading
      BY <1>2 DEF reading
    <2> QED BY <2>1, LaterReading
  <1>4. /\ forwarded = UpTo(1) /\ Turn = 1 /\ request = Capa /\ Len(Chain) = 1 /\ queue = NewQueue
        /\ pend = Null /\ stage \in {"status", "body"} /\ pipelining = FALSE
        /\ Pos = fetched - Len(wb.data) /\ Pos \in 0..fetched /\ fetched \in 0..Len(replies)
        /\ replies \in Seq(ReplyUnits) /\ Sound(wb) /\ wb.data = SubSeq(replies, Pos + 1, fetched)
        /\ At(Pos, stage) /\ delivered \in Seq(ReplyUnits)
        /\ sb.data \in Seq(ReplyUnits) /\ \A i \in 1..Len(sb.data) : sb.data[i].id = Capa
        /\ OfOrigin(delivered) = OfOrigin(SubSeq(replies, 1, Pos))
    BY <1>1, CapaIs
  <1>5. Scalars /\ Replied /\ Delivering /\ Fetching /\ IsPrefix(OfOrigin(delivered), OfOrigin(replies))
    BY <1>1 DEF RelayInv, Ground
  <1>6. PICK n \in FromOrigin(Room(wb)) :
       IF n <= 0 THEN Leave(2, Fail) /\ UNCHANGED <<wb, sb, stage, parsed, pipelining, fault, delivered, fetched>>
       ELSE LET b  == Put(wb, Slice(replies, fetched, n))
                k  == Consumed(b.data)
                st == StageAfter(b.data)[k] IN
            /\ fetched' = fetched + n
            /\ wb' = Drop(b, k)
            /\ IF st = "error"
               THEN /\ Leave(2, FailMute)
                    /\ delivered' = delivered \o Notice(Capa)
                    /\ fault' \in Broken(clientEnd) \cup {"unset response"}
                    /\ UNCHANGED <<sb, stage, parsed, pipelining>>
               ELSE /\ stage' = st
                    /\ UNCHANGED delivered
                    /\ IF st = "done"
                       THEN /\ sb' = EmptyBuffer /\ parsed' = <<>>
                            /\ CapaResult(b.data[k])
                            /\ Leave(2, ToClient("REQUEST", "READ"))
                       ELSE /\ sb' = Put(sb, Fitting(sb, SubSeq(b.data, 1, k)))
                            /\ Leave(2, Stay("CAPA"))
                            /\ UNCHANGED <<parsed, pipelining, fault>>
    BY DEF CapaReadStep
  <1>7. UNCHANGED <<taken, replies, offers, forwarded>>
    BY <1>2
  <1>8. CASE n <= 0
    <2>1. state' = "CLOSED" /\ UNCHANGED <<wb, sb, stage, pipelining, fault, delivered, fetched>>
      BY <1>6, <1>8 DEF Leave, Closes, Fail, Outcome
    <2>2. Scalars'
      BY <1>2, <1>5, <2>1 DEF Scalars
    <2>3. ~Alive' /\ fetched' \in 0..Len(replies) /\ IsPrefix(OfOrigin(delivered'), OfOrigin(replies))
      BY <1>4, <1>5, <2>1 DEF Alive
    <2> QED BY <1>3, <1>7, <2>1, <2>2, <2>3, ProxyStep
  <1>9. CASE ~(n <= 0)
    <2>1. PICK b : b = Put(wb, Slice(replies, fetched, n))
      OBVIOUS
    <2>2. PICK k : k = Consumed(b.data)
      OBVIOUS
    <2>3. PICK st : st = StageAfter(b.data)[k]
      OBVIOUS
    <2>4. /\ fetched' = fetched + n
          /\ wb' = Drop(b, k)
          /\ IF st = "error"
             THEN /\ Leave(2, FailMute)
                  /\ delivered' = delivered \o Notice(Capa)
                  /\ fault' \in Broken(clientEnd) \cup {"unset response"}
                  /\ UNCHANGED <<sb, stage, parsed, pipelining>>
             ELSE /\ stage' = st
                  /\ UNCHANGED delivered
                  /\ IF st = "done"
                     THEN /\ sb' = EmptyBuffer /\ parsed' = <<>>
                          /\ CapaResult(b.data[k])
                          /\ Leave(2, ToClient("REQUEST", "READ"))
                     ELSE /\ sb' = Put(sb, Fitting(sb, SubSeq(b.data, 1, k)))
                          /\ Leave(2, Stay("CAPA"))
                          /\ UNCHANGED <<parsed, pipelining, fault>>
      BY <1>6, <1>9, <2>1, <2>2, <2>3
    <2>5. n \in Int /\ n > 0
      <3>1. Room(wb) \in Nat /\ Len(replies) \in Nat
        BY <1>4, RoomIs, LenProperties
      <3>2. n \in Int
        BY <1>4, <3>1 DEF FromOrigin, Received, Min2
      <3> QED BY <1>9, <3>2
    <2>6. PICK p \in 0..fetched : p = Pos
      BY <1>4
    <2>7. PICK got : got = IF n > 0 THEN n ELSE 0
      OBVIOUS
    <2>8. Consumes(p, fetched + n, b, k, st)
      <3>1. got = n
        BY <2>5, <2>7
      <3>2. Consumes(p, fetched + got, b, k, st)
        <4>1. /\ wb.data = SubSeq(replies, p + 1, fetched) /\ At(p, stage) /\ b = Put(wb, Slice(replies, fetched, got))
          BY <1>4, <2>1, <2>6, <3>1
        <4> QED BY <1>4, <1>5, <2>2, <2>3, <2>5, <2>7, <4>1, Consumption
      <3> QED BY <3>1, <3>2
    <2>9. PICK z, q : z = SubSeq(b.data, 1, k) /\ q = p + k
      OBVIOUS
    <2>10. /\ st \in {"body", "done", "error"} /\ fetched + n \in 0..Len(replies) /\ q \in 0..(fetched + n)
           /\ q \in 1..Len(replies) /\ q \in Nat /\ p \in Nat
           /\ Sound(Drop(b, k)) /\ Drop(b, k).data = SubSeq(replies, q + 1, fetched + n)
           /\ (fetched + n) - Len(Drop(b, k).data) = q
           /\ z \in Seq(ReplyUnits) /\ Len(z) = k /\ k \in Nat \ {0}
           /\ b.data[k] = replies[q] /\ SubSeq(replies, 1, p) \o z = SubSeq(replies, 1, q)
           /\ SubSeq(replies, 1, p) \in Seq(ReplyUnits)
           /\ st # "error" => At(q, st) /\ \A i \in 1..k : z[i].id = request
      BY <2>8, <2>9 DEF Consumes
    <2>11. CASE st = "error"
      <3>1. state' = "CLOSED" /\ delivered' = delivered \o Notice(Capa) /\ fault' \in Faults
            /\ UNCHANGED <<sb, stage, pipelining>>
        BY <2>4, <2>11 DEF Leave, Closes, FailMute, Outcome, Broken, Faults
      <3>2. Capa \in Ids
        BY DEF Ids
      <3>3. delivered' \in Seq(ReplyUnits) /\ OfOrigin(delivered') = OfOrigin(delivered)
        BY <1>4, <3>1, <3>2, NoticeAdded
      <3>4. Scalars'
        BY <1>2, <1>5, <2>4, <2>10, <3>1, <3>3 DEF Scalars
      <3>5. ~Alive' /\ fetched' \in 0..Len(replies) /\ IsPrefix(OfOrigin(delivered'), OfOrigin(replies))
        BY <1>5, <2>4, <2>10, <3>1, <3>3 DEF Alive
      <3> QED BY <1>3, <1>7, <3>1, <3>4, <3>5, ProxyStep
    <2>12. ASSUME st # "error"
           PROVE  /\ stage' = st /\ delivered' = delivered /\ wb' = Drop(b, k) /\ fetched' = fetched + n
                  /\ At(q, st)' /\ OfOrigin(delivered) = OfOrigin(SubSeq(replies, 1, q))
                  /\ \A i \in 1..k : z[i].id = Capa
                  /\ IsPrefix(OfOrigin(delivered'), OfOrigin(replies)) /\ fetched' \in 0..Len(replies)
      <3>1. \A i \in 1..Len(z) : z[i].id = Capa
        BY <1>4, <2>10, <2>12
      <3>2. OfOrigin(SubSeq(replies, 1, q)) = OfOrigin(SubSeq(replies, 1, p))
        <4>1. PICK d : d = SubSeq(replies, 1, p)
          OBVIOUS
        <4>2. OfOrigin(d \o z) = OfOrigin(d)
          BY <2>10, <3>1, <4>1, CapaUnits
        <4> QED BY <2>10, <4>1, <4>2
      <3>3. Turn' = Turn
        BY <1>2, <1>3 DEF Turn
      <3>4. At(q, st)'
        <4>1. At(q, st)
          BY <2>10, <2>12
        <4> QED BY <1>2, <1>3, <3>3, <4>1 DEF At, Ended, Final, MultiLine, Kind
      <3> QED BY <1>4, <1>5, <2>4, <2>6, <2>10, <2>12, <3>1, <3>2, <3>4
    <2>13. CASE st = "done"
      <3>1. /\ sb' = EmptyBuffer /\ CapaResult(replies[q]) /\ Leave(2, ToClient("REQUEST", "READ"))
        BY <2>4, <2>10, <2>13
      <3>2. state' = "REQUEST" /\ armed' = <<"READ", "NOOP">>
        <4>1. armed = <<"NOOP", "READ">>
          BY <1>1 DEF ArmedFor, Armed
        <4>2. PICK o : o = ToClient("REQUEST", "READ")
          OBVIOUS
        <4>3. ~Closes(o.next) /\ o.client = "READ" /\ o.origin = "KEEP" /\ o.key = "NOOP" /\ o.next = "REQUEST"
          BY <4>2 DEF Outcome, Closes, ToClient
        <4>4. state' = "REQUEST" /\ armed' = <<Given(o.client, "NOOP"), Given(o.origin, Given(o.key, "READ"))>>
          BY <3>1, <4>1, <4>2, <4>3, LeaveIs
        <4> QED BY <4>3, <4>4 DEF Given
      <3>3. At(q, "done")
        BY <2>10, <2>13
      <3>4. Ended(q, request) /\ Kind(request) = "capa"
        BY <1>4, <3>3 DEF At, Kind
      <3>5. pipelining' \in BOOLEAN /\ fault' \in Faults /\ (fault' = "none" => pipelining' = offers)
        BY <1>5, <3>1, <3>4, CapaSays DEF Scalars
      <3>6. q = Len(replies)
        BY <1>4, <1>5, <3>3, NothingMore
      <3>7. fetched' = q /\ wb' = EmptyBuffer
        <4>1. q \in Nat /\ fetched + n \in 0..q /\ q \in 0..(fetched + n)
          BY <2>10, <3>6
        <4>2. fetched + n = q
          BY <4>1
        <4>3. Len(Drop(b, k).data) = 0
          <5>1. Len(Drop(b, k).data) \in Nat
            BY <2>10, RoomIs
          <5> QED BY <2>10, <4>2, <5>1
        <4>4. Drop(b, k) = EmptyBuffer
          <5>1. Drop(b, k).data \in Seq(Units)
            BY <2>10, RoomIs
          <5>2. Drop(b, k).data = <<>>
            BY <4>3, <5>1, EmptySeq
          <5> QED BY <2>10, <5>2, RoomIs
        <4> QED BY <2>4, <4>2, <4>4
      <3>8. sb'.data = <<>> /\ sb'.data \in Seq(ReplyUnits) /\ Sound(sb')
        BY <3>1, EmptySound, EmptySeq DEF EmptyBuffer
      <3>9. Scalars'
        BY <1>2, <1>5, <2>4, <2>10, <2>12, <2>13, <3>2, <3>5, <3>8 DEF Scalars, LiveStates
      <3>10. ASSUME Alive' PROVE Sending' /\ Fetching' /\ Delivering'
        <4>1. pipelining' = offers
          BY <3>5, <3>10 DEF Alive
        <4>2. Turn' = 1 /\ UpTo(1)' = UpTo(1)
          <5>1. 1 \in 0..Len(Chain)
            BY <1>4
          <5> QED BY <1>2, <1>3, <1>4, <5>1, UpToStays DEF Turn
        <4>3. Sending'
          <5>1. SentCount' = 1
            BY <3>2, <4>2 DEF SentCount, Welcoming
          <5>2. queue'.current = PeekData(queue')
            BY <1>2, <1>4 DEF NewQueue, PeekData, IsEmpty
          <5> QED BY <1>2, <1>4, <3>2, <3>7, <4>2, <5>1, <5>2 DEF Sending
        <4>4. Pos' = q
          BY <3>2, <3>7 DEF Pos
        <4>5. Fetching'
          <5>1. At(Pos, stage)'
            BY <2>12, <2>13, <4>4
          <5>2. stage' \in Stages'
            BY <2>12, <2>13, <3>2 DEF Stages, Welcoming
          <5>3. Pos' \in 0..fetched'
            BY <2>10, <3>7, <4>4
          <5>4. pipelining' = (offers' /\ state' \in {"REQUEST", "RESPONSE"})
            <6>1. offers \in BOOLEAN
              BY <1>5 DEF Scalars
            <6> QED BY <1>2, <3>2, <4>1, <6>1
          <5> QED BY <3>2, <5>1, <5>2, <5>3, <5>4 DEF Fetching
        <4>6. Delivering'
          <5>1. delivered' \o sb'.data = delivered
            BY <1>4, <2>12, <2>13, <3>8, ConcatEmptySeq
          <5>2. ~Writes' /\ 2..Turn' = {}
            BY <3>2, <4>2 DEF Writes
          <5> QED BY <1>2, <2>12, <2>13, <3>1, <4>4, <5>1, <5>2 DEF Delivering
        <4> QED BY <4>3, <4>5, <4>6
      <3> QED BY <1>3, <1>7, <2>12, <2>13, <3>2, <3>9, <3>10, ProxyStep
    <2>14. CASE st = "body"
      <3>1. /\ sb' = Put(sb, Fitting(sb, z)) /\ Leave(2, Stay("CAPA")) /\ UNCHANGED <<pipelining, fault>>
        BY <2>4, <2>9, <2>14
      <3>2. state' = "CAPA"
        BY <3>1 DEF Leave, Closes, Stay, Outcome
      <3>3. PICK y : y = Fitting(sb, z)
        OBVIOUS
      <3>4. /\ y \in Seq(ReplyUnits) /\ Len(y) <= Room(sb) /\ \A i \in 1..Len(y) : i \in 1..Len(z) /\ y[i] = z[i]
        <4>1. Sound(sb) /\ ReplyUnits \subseteq Units
          BY <1>5 DEF Scalars, Units
        <4> QED BY <2>10, <3>3, <4>1, FittingFits, SMTT(60)
      <3>5. Sound(sb') /\ sb'.data = sb.data \o y /\ sb'.data \in Seq(ReplyUnits)
        <4>1. Sound(sb) /\ y \in Seq(Units)
          BY <1>5, <3>4, RepliesAreUnits DEF Scalars
        <4>2. Sound(Put(sb, y)) /\ Put(sb, y).data = sb.data \o y
          BY <3>4, <4>1, PutSound
        <4>3. sb.data \o y \in Seq(ReplyUnits)
          BY <1>4, <3>4, ConcatProperties
        <4> QED BY <3>1, <3>3, <4>2, <4>3
      <3>6. \A i \in 1..Len(sb'.data) : sb'.data[i].id = Capa
        <4>1. PICK a \in Nat, c \in Nat : a = Len(sb.data) /\ c = Len(y)
          BY <1>4, <3>4, LenProperties
        <4>2. /\ Len(sb'.data) = a + c /\ \A i \in 1..a : sb'.data[i] = sb.data[i]
              /\ \A i \in 1..c : sb'.data[a + i] = y[i]
          <5>1. PICK d \in Seq(ReplyUnits) : d = sb.data
            BY <1>4
          <5>2. /\ Len(d \o y) = Len(d) + Len(y)
                /\ \A i \in 1..(Len(d) + Len(y)) :
                     (d \o y)[i] = IF i <= Len(d) THEN d[i] ELSE y[i - Len(d)]
            BY <3>4, ConcatProperties
          <5>3. Len(d) = a /\ Len(y) = c /\ sb'.data = d \o y
            BY <3>5, <4>1, <5>1
          <5>4. ASSUME NEW i \in 1..c PROVE (d \o y)[a + i] = y[i]
            <6>1. a + i \in 1..(a + c) /\ ~(a + i <= a) /\ (a + i) - a = i
              OBVIOUS
            <6> QED BY <5>2, <5>3, <6>1
          <5>5. \A i \in 1..a : (d \o y)[i] = d[i]
            BY <5>2, <5>3
          <5> QED BY <5>1, <5>2, <5>3, <5>4, <5>5
        <4>3. \A i \in 1..c : y[i].id = Capa
          BY <2>10, <2>12, <2>14, <3>4, <4>1
        <4>4. ASSUME NEW i \in 1..(a + c) PROVE sb'.data[i].id = Capa
          <5>1. CASE i <= a
            <6>1. i \in 1..a /\ i \in 1..Len(sb.data)
              BY <4>1, <5>1
            <6> QED BY <1>4, <4>2, <6>1
          <5>2. CASE ~(i <= a)
            <6>1. i - a \in 1..c /\ i = a + (i - a)
              BY <4>1, <5>2
            <6> QED BY <4>2, <4>3, <6>1
          <5> QED BY <5>1, <5>2
        <4> QED BY <4>2, <4>4
      <3>7. Scalars'
        BY <1>2, <1>5, <2>4, <2>10, <2>12, <2>14, <3>1, <3>2, <3>5 DEF Scalars, LiveStates
      <3>8. Turn' = 1 /\ UpTo(1)' = UpTo(1)
        <4>1. 1 \in 0..Len(Chain)
          BY <1>4
        <4> QED BY <1>2, <1>3, <1>4, <4>1, UpToStays DEF Turn
      <3>9. Sending'
        <4>1. SentCount' = 1
          BY <3>2 DEF SentCount, Welcoming
        <4> QED BY <1>2, <1>4, <3>2, <3>8, <4>1 DEF Sending
      <3>10. Pos' = q
        BY <2>10, <2>12, <2>14, <3>2 DEF Pos
      <3>11. Fetching'
        <4>1. At(Pos, stage)'
          BY <2>12, <2>14, <3>10
        <4>2. stage' \in Stages' /\ pipelining' = FALSE
          BY <1>4, <2>12, <2>14, <3>1, <3>2 DEF Stages, Welcoming
        <4>3. Pos' \in 0..fetched'
          BY <2>4, <2>10, <3>10
        <4>4. wb'.data = SubSeq(replies', Pos' + 1, fetched')
          BY <1>2, <2>10, <2>12, <2>14, <3>10
        <4> QED BY <3>2, <4>1, <4>2, <4>3, <4>4 DEF Fetching
      <3>12. Delivering'
        <4>1. OfOrigin(delivered \o sb'.data) = OfOrigin(delivered)
          BY <1>4, <3>5, <3>6, CapaUnits
        <4>2. ~Writes' /\ 2..Turn' = {}
          BY <3>2, <3>8 DEF Writes
        <4> QED BY <1>2, <2>12, <2>14, <3>2, <3>10, <4>1, <4>2 DEF Delivering
      <3>13. \A i \in 1..Len(sb'.data) : sb'.data[i].id = request'
        BY <1>2, <1>4, <3>6
      <3> QED BY <1>3, <1>7, <2>12, <2>14, <3>7, <3>9, <3>11, <3>12, <3>13, ProxyStep
    <2> QED BY <2>10, <2>11, <2>13, <2>14
  <1> QED BY <1>8, <1>9

-----------------------------------------------------------------------------
(* Requests are read.                                                      *)

\* What the proxy tells the client while it reads requests, and when it goes on to
\* write them.
LEMMA RequestOutcome ==
  ASSUME ClientInv, ArmedFor, RequestReadStep
  PROVE  /\ state' \in {"REQUEST", "CLOSED"}
         /\ \/ UNCHANGED <<fault, delivered>>
            \/ \E r \in Ids : delivered' = delivered \o Notice(r) /\ fault' \in Faults
         /\ state' = "REQUEST" /\ armed'[2] = "WRITE" => queue'.nodes # <<>>
  <1>1. armed = <<"READ", "NOOP">> /\ UNCHANGED <<sent, written>>
    BY DEF RequestReadStep, On, ArmedFor, Armed
  <1>2. PICK n \in FromClient(Room(rb)) :
       IF n <= 0 /\ ~CanRead(rb)
       THEN /\ Leave(1, IF pipelining /\ IsEmpty(queue) THEN Stay("DONE") ELSE Fail)
            /\ UNCHANGED <<rb, parsed, queue, fault, received, delivered>>
       ELSE LET got   == IF n > 0 THEN n ELSE 0
                b     == Put(rb, Slice(written, received, got))
                k     == FirstLine(b.data)
                units == parsed \o SubSeq(b.data, 1, k) IN
            /\ received' = received + got
            /\ rb' = Drop(b, k)
            /\ IF LineEnds(b.data) # {} THEN ProcessRequest(units, Drop(b, k))
               ELSE /\ parsed' = units
                    /\ Leave(1, Stay("REQUEST"))
                    /\ UNCHANGED <<queue, fault, delivered>>
    BY DEF RequestReadStep
  <1>3. Leave(1, Stay("REQUEST")) => state' = "REQUEST" /\ armed'[2] = "NOOP"
    <2> SUFFICES ASSUME Leave(1, Stay("REQUEST")) PROVE state' = "REQUEST" /\ armed'[2] = "NOOP"
      OBVIOUS
    <2>1. PICK o : o = Stay("REQUEST")
      OBVIOUS
    <2>2. ~Closes(o.next) /\ o.next = "REQUEST" /\ o.client = "KEEP" /\ o.origin = "KEEP" /\ o.key = "KEEP"
      BY <2>1 DEF Stay, Outcome, Closes
    <2>3. state' = "REQUEST" /\ armed' = <<Given(o.client, Given(o.key, "READ")), Given(o.origin, "NOOP")>>
      BY <1>1, <2>1, <2>2, LeaveIs
    <2> QED BY <2>2, <2>3 DEF Given
  <1>4. Leave(1, ToOrigin("REQUEST", "WRITE")) => state' = "REQUEST"
    BY DEF Leave, Closes, ToOrigin, Outcome
  <1>5. CASE n <= 0 /\ ~CanRead(rb)
    BY <1>2, <1>5 DEF Leave, Closes, Stay, Fail, Outcome
  <1>6. CASE ~(n <= 0 /\ ~CanRead(rb))
    <2>1. PICK got, b, k, units :
            /\ got = IF n > 0 THEN n ELSE 0
            /\ b = Put(rb, Slice(written, received, got))
            /\ k = FirstLine(b.data)
            /\ units = parsed \o SubSeq(b.data, 1, k)
      OBVIOUS
    <2>2. /\ received' = received + got
          /\ rb' = Drop(b, k)
          /\ IF LineEnds(b.data) # {} THEN ProcessRequest(units, Drop(b, k))
             ELSE /\ parsed' = units
                  /\ Leave(1, Stay("REQUEST"))
                  /\ UNCHANGED <<queue, fault, delivered>>
      BY <1>2, <1>6, <2>1
    <2>3. CASE LineEnds(b.data) = {}
      BY <1>3, <2>2, <2>3
    <2>4. CASE LineEnds(b.data) # {}
      <3>1. ProcessRequest(units, Drop(b, k))
        BY <2>2, <2>4
      <3>2. CASE Accepts(units)
        <4>1. queue' = Enqueue(queue, Last(units).id) /\ UNCHANGED <<delivered, fault>> /\ state' = "REQUEST"
          BY <1>3, <1>4, <3>1, <3>2 DEF ProcessRequest
        <4>2. queue'.nodes = Append(queue.nodes, Last(units).id) /\ queue.nodes \in Seq(1..MaxCommands)
          BY <4>1 DEF Enqueue, ClientInv, QueueIsRest
        <4>3. queue'.nodes # <<>>
          BY <4>2
        <4> QED BY <4>1, <4>3
      <3>3. CASE ~Accepts(units)
        <4>1. Tell(Last(units).id) /\ queue' = queue /\ state' = "REQUEST"
              /\ (IsEmpty(queue) => armed'[2] = "NOOP")
          BY <1>3, <1>4, <3>1, <3>3 DEF ProcessRequest
        <4>2. fault' \in Faults
          BY <4>1 DEF Tell, Broken, Faults
        <4>3. Last(units).id \in Ids
          <5>1. n > 0 \/ CanRead(rb)
            <6>1. n \in Int
              <7>1. Len(written) \in Nat /\ received \in Int
                <8>1. written \in Seq(LineUnits) /\ received \in 0..Len(written)
                  BY DEF ClientInv, WrittenIsSent, ReadIsWritten
                <8> QED BY <8>1, LenProperties
              <7> QED BY <7>1 DEF FromClient, Received
            <6> QED BY <6>1, <1>6
          <5>2. Reads(n, got, b, k)
            BY <1>1, <2>1, <2>2, <5>1 DEF Reads
          <5>3. /\ k \in Nat \ {0} /\ Read + k <= Len(written)
                /\ SubSeq(b.data, 1, k) = SubSeq(written, Read + 1, Read + k)
            BY <5>2, ReadsOn
          <5>4. written \in Seq(LineUnits) /\ Read \in Nat /\ parsed \in Seq(LineUnits) /\ Len(written) \in Nat
            <6>1. Read \in 0..received
              BY DEF ClientInv, ReadIsWritten
            <6>2. written \in Seq(LineUnits) /\ parsed \in Seq(LineUnits)
              BY DEF ClientInv, WrittenIsSent
            <6> QED BY <6>1, <6>2, LenProperties
          <5>5. PICK p \in Nat : p = Read
            BY <5>4
          <5>6. p + k \in p..Len(written) /\ (p + k) - p = k
            BY <5>3, <5>4, <5>5
          <5>7. SubSeq(written, p + 1, p + k) \in Seq(LineUnits) /\ Len(SubSeq(written, p + 1, p + k)) = k
            BY <5>4, <5>6, Window
          <5>8. PICK w : w = SubSeq(b.data, 1, k)
            OBVIOUS
          <5>9. w \in Seq(LineUnits) /\ Len(w) = k /\ units = parsed \o w
            BY <2>1, <5>3, <5>5, <5>7, <5>8
          <5>10. units \in Seq(LineUnits) /\ Len(units) = Len(parsed) + k
            BY <5>4, <5>9, ConcatProperties
          <5>11. Len(units) \in 1..Len(units)
            <6>1. Len(parsed) \in Nat
              BY <5>4, LenProperties
            <6> QED BY <5>3, <5>10, <6>1
          <5>12. units[Len(units)] \in LineUnits
            BY <5>10, <5>11, ElementOfSeq
          <5> QED BY <5>12 DEF Last, LineUnits
        <4>4. IsEmpty(queue) <=> queue.nodes = <<>>
          BY DEF IsEmpty
        <4> QED BY <4>1, <4>2, <4>3, <4>4 DEF Tell
      <3> QED BY <3>2, <3>3
    <2> QED BY <2>3, <2>4
  <1> QED BY <1>5, <1>6

LEMMA RequestReads ==
  ASSUME ClientInv, ClientInv', ArmedFor, RelayInv, RequestReadStep
  PROVE  RelayInv'
  <1>1. state = "REQUEST" /\ fault = "none" /\ Alive /\ pend = Null /\ armed[1] = "READ"
    BY DEF RequestReadStep, On, Alive
  <1>2. UNCHANGED <<wb, sb, greeting, pend, request, stage, pipelining, sent, written, clientEnd, originVars>>
    BY DEF RequestReadStep
  <1>3. Turn' = Turn /\ Accepting /\ Later
    BY <1>2, RequestStep, LaterAccepting
  <1>4. /\ state' \in {"REQUEST", "CLOSED"}
        /\ \/ UNCHANGED <<fault, delivered>>
           \/ \E r \in Ids : delivered' = delivered \o Notice(r) /\ fault' \in Faults
        /\ state' = "REQUEST" /\ armed'[2] = "WRITE" => queue'.nodes # <<>>
    BY RequestOutcome
  <1>5. Scalars /\ Sending /\ Fetching /\ Delivering /\ Replied /\ IsPrefix(OfOrigin(delivered), OfOrigin(replies))
        /\ delivered \in Seq(ReplyUnits) /\ fetched \in 0..Len(replies)
    BY <1>1 DEF RelayInv, Ground, Scalars
  <1>6. /\ delivered' \in Seq(ReplyUnits) /\ OfOrigin(delivered') = OfOrigin(delivered) /\ fault' \in Faults
        /\ \E x \in Seq(ReplyUnits) : delivered' = delivered \o x
    <2>1. CASE UNCHANGED <<fault, delivered>>
      <3>1. delivered' = delivered \o <<>> /\ <<>> \in Seq(ReplyUnits)
        BY <1>5, <2>1, EmptySeq, ConcatEmptySeq
      <3> QED BY <1>5, <2>1, <3>1 DEF Scalars
    <2>2. CASE \E r \in Ids : delivered' = delivered \o Notice(r) /\ fault' \in Faults
      <3>1. PICK r \in Ids : delivered' = delivered \o Notice(r) /\ fault' \in Faults
        BY <2>2
      <3> QED BY <1>5, <3>1, NoticeAdded, NoticeIs
    <2> QED BY <1>4, <2>1, <2>2
  <1>7. UNCHANGED <<taken, replies, offers, forwarded, fetched, originEnd>>
    BY <1>2 DEF originVars
  <1>8. PICK s, c : s = queue.nodes /\ c = queue.current
    OBVIOUS
  <1>9. queue = [nodes |-> s, current |-> c] /\ s \in Seq(1..MaxCommands) /\ c \in 0..MaxCommands /\ (s = <<>> => c = Null)
    BY <1>5, <1>8 DEF Scalars, ClientInv, QueueIsRest
  <1>10. /\ queue' = [nodes |-> queue'.nodes, current |-> queue'.current] /\ queue'.current \in 0..MaxCommands
         /\ (queue'.nodes = <<>> => queue'.current = Null)
         /\ (pipelining => queue'.current = PeekData(queue'))
    <2>1. pipelining => c = PeekData(queue)
      BY <1>1, <1>5, <1>8 DEF Sending
    <2>2. CASE queue' = queue
      BY <1>8, <1>9, <2>1, <2>2
    <2>3. CASE \E r \in 1..Len(sent) : queue' = Enqueue(queue, r)
      <3>1. PICK r \in 1..Len(sent) : queue' = Enqueue(queue, r)
        BY <2>3
      <3>2. r \in 1..MaxCommands /\ r \in 0..MaxCommands
        <4>1. Len(sent) \in Nat /\ Len(sent) <= MaxCommands /\ MaxCommands \in Nat
          BY ChainRises, SessionAssumption DEF ClientInv, WrittenIsSent
        <4> QED BY <4>1
      <3>3. queue' = [nodes |-> Append(s, r), current |-> IF s = <<>> THEN r ELSE c]
        BY <1>8, <3>1 DEF Enqueue, IsEmpty
      <3>4. PICK t : t = Append(s, r)
        OBVIOUS
      <3>5. t # <<>> /\ Head(t) = IF s = <<>> THEN r ELSE Head(s)
        <4>1. t # <<>> /\ Len(t) = Len(s) + 1 /\ Len(s) \in Nat /\ t[Len(s) + 1] = r /\ \A i \in 1..Len(s) : t[i] = s[i]
          BY <1>9, <3>2, <3>4
        <4>2. CASE s = <<>>
          <5>1. t[1] = r
            BY <4>1, <4>2
          <5> QED BY <4>1, <4>2, <5>1
        <4>3. CASE s # <<>>
          <5>1. Len(s) # 0
            BY <1>9, <4>3, EmptySeq
          <5>2. 1 \in 1..Len(s)
            BY <4>1, <5>1
          <5> QED BY <4>1, <4>3, <5>2
        <4> QED BY <4>2, <4>3
      <3>6. queue'.nodes = t /\ queue'.current = IF s = <<>> THEN r ELSE c
        BY <3>3, <3>4
      <3>7. PeekData(queue') = Head(t)
        BY <3>5, <3>6 DEF PeekData, IsEmpty
      <3>8. pipelining => (s # <<>> => c = Head(s))
        BY <1>8, <2>1 DEF PeekData, IsEmpty
      <3>9. queue'.current \in 0..MaxCommands
        BY <1>9, <3>2, <3>6
      <3>10. queue' = [nodes |-> queue'.nodes, current |-> queue'.current]
        BY <3>3
      <3> QED BY <3>5, <3>6, <3>7, <3>8, <3>9, <3>10
    <2> QED BY <1>3, <2>2, <2>3 DEF Accepting
  <1>11. Scalars'
    BY <1>2, <1>4, <1>5, <1>6, <1>7, <1>10 DEF Scalars, LiveStates
  <1>12. ASSUME Alive' PROVE Sending' /\ Fetching' /\ Delivering'
    <2>1. state' = "REQUEST"
      BY <1>4, <1>12 DEF Alive
    <2>2. Turn \in 1..Len(Chain) /\ Len(Chain) \in Nat /\ Turn \in 0..Len(Chain)
      BY NodesAre
    <2>3. Sending'
      <3>1. forwarded = UpTo(Turn) /\ wb = EmptyBuffer
        BY <1>1, <1>5 DEF Sending, SentCount, Welcoming
      <3>2. UpTo(Turn)' = UpTo(Turn)
        <4>1. PICK m \in 0..Len(Chain) : m = Turn
          BY <2>2
        <4>2. UpTo(m)' = UpTo(m)
          BY <1>3, UpToStays
        <4> QED BY <1>3, <4>1, <4>2
      <3>3. SentCount' = Turn'
        BY <2>1 DEF SentCount, Welcoming
      <3>4. forwarded' = UpTo(SentCount)'
        BY <1>7, <3>1, <3>2, <3>3
      <3> QED BY <1>1, <1>2, <1>4, <1>10, <2>1, <3>1, <3>4 DEF Sending
    <2>4. Pos' = Pos /\ Pos = fetched /\ Pos \in 0..Len(replies)
      BY <1>1, <1>5, <1>7, <2>1 DEF Pos
    <2>5. Fetching'
      <3>1. At(Pos, stage)'
        <4>1. At(Pos, stage) /\ stage \in {"status", "body", "done"}
          BY <1>5 DEF Fetching, Scalars
        <4>2. PICK p, st : p = Pos /\ st = stage
          OBVIOUS
        <4>3. Len(replies) \in Nat /\ Len(replies') = Len(replies) /\ \A i \in 1..Len(replies) : replies'[i] = replies[i]
          BY <1>5, <1>7, RepliesAre
        <4>4. At(p, st)'
          BY <1>2, <1>3, <1>5, <2>4, <4>1, <4>2, <4>3, AtKept
        <4> QED BY <1>2, <2>4, <4>2, <4>4
      <3>2. Stages' = {"done"} /\ Stages = {"done"}
        BY <1>1, <2>1 DEF Stages, Welcoming
      <3> QED BY <1>1, <1>2, <1>5, <1>7, <2>1, <2>4, <3>1, <3>2 DEF Fetching
    <2>6. Delivering'
      <3>1. sb = EmptyBuffer
        BY <1>1, <1>5 DEF Delivering, Writes
      <3>2. delivered \o sb.data = delivered /\ delivered' \o sb'.data = delivered'
        BY <1>2, <1>5, <1>6, <3>1, ConcatEmptySeq DEF EmptyBuffer
      <3>3. OfOrigin(delivered') = OfOrigin(SubSeq(replies, 1, Pos))
        BY <1>5, <1>6, <3>2 DEF Delivering
      <3>4. ASSUME NEW i \in 2..Turn' PROVE AnsweredTo(Chain[i])'
        <4>1. i \in 2..Turn /\ i \in 1..Len(Chain) /\ AnsweredTo(Chain[i])
          BY <1>1, <1>3, <1>5, <2>2 DEF Delivering
        <4>2. PICK r \in 0..Len(sent) : r = Chain[i]
          BY <4>1, ChainRises
        <4>3. PICK x \in Seq(ReplyUnits) : delivered' = delivered \o x
          BY <1>6
        <4>4. AnsweredTo(r)'
          BY <1>3, <1>5, <4>1, <4>2, <4>3, AnsweredKept
        <4>5. Chain'[i] = Chain[i]
          BY <1>3, <4>1 DEF Later
        <4> QED BY <4>2, <4>4, <4>5
      <3>5. ~Writes'
        BY <2>1 DEF Writes
      <3> QED BY <1>2, <1>7, <2>1, <2>4, <3>1, <3>2, <3>3, <3>4, <3>5 DEF Delivering
    <2> QED BY <2>3, <2>5, <2>6
  <1>13. state' \notin {"CAPA", "RESPONSE"}
    BY <1>4
  <1>14. fetched' \in 0..Len(replies) /\ IsPrefix(OfOrigin(delivered'), OfOrigin(replies))
    BY <1>5, <1>6, <1>7
  <1> QED BY <1>3, <1>7, <1>11, <1>12, <1>13, <1>14, ProxyStep

-----------------------------------------------------------------------------
(* Requests are written.                                                   *)

\* A step that sends the origin more.
LEMMA SendingStep ==
  ASSUME ClientInv, ClientInv', Later, RelayInv, UNCHANGED <<taken, replies, offers>>,
         NEW f \in 0..Len(Chain), forwarded' = UpTo(f), Len(forwarded) <= Len(UpTo(f)),
         Scalars', fetched' \in 0..Len(replies), IsPrefix(OfOrigin(delivered'), OfOrigin(replies)),
         state' \in {"CAPA", "RESPONSE"} => \A i \in 1..Len(sb'.data) : sb'.data[i].id = request',
         Alive' => Sending' /\ Fetching' /\ Delivering'
  PROVE  RelayInv'
  <1>1. Replied'
    BY ProxyReplied
  <1>2. Ground'
    BY GroundKept DEF RelayInv
  <1> QED BY <1>1, <1>2 DEF RelayInv

LEMMA AnswersStay ==
  ASSUME UNCHANGED <<sent, delivered>>, NEW r, AnsweredTo(r)
  PROVE  AnsweredTo(r)'
  BY DEF AnsweredTo, Final, MultiLine, Kind

\* What a call of request_to_buffer that leaves a request over makes of the loop.
LEMMA LoopGoesOn ==
  ASSUME ClientInv, ClientInv', Later, Chain' = Chain, RelayInv, Alive, state = "REQUEST", armed[2] = "WRITE",
         UNCHANGED <<state, armed, sb, greeting, request, stage, pipelining, fault, sent, written, received, rb,
                     delivered, clientEnd, taken, replies, fetched, offers, originEnd>>,
         NEW s, s = queue.nodes, NEW call, NEW e \in 0..Len(s), Passed(call, e), call.ret # Null, ~TooLong(call),
         pend' = call.ret, queue' = call.queue, Sound(wb'), wb'.data \in Seq(LineUnits),
         NEW f \in 0..Len(Chain), forwarded' = UpTo(f), Len(forwarded) <= Len(UpTo(f)),
         originEnd # "reset" => wb' = EmptyBuffer /\ forwarded' = UpTo(Turn + e)
  PROVE  RelayInv'
  <1>1. Scalars /\ Sending /\ Fetching /\ Delivering /\ Replied /\ IsPrefix(OfOrigin(delivered), OfOrigin(replies))
        /\ fetched \in 0..Len(replies)
    BY DEF RelayInv, Ground
  <1>2. /\ s \in Seq(1..MaxCommands) /\ Len(s) \in Nat /\ \A i \in 1..Len(s) : s[i] # Null /\ s[i] \in 1..MaxCommands
        /\ Len(Chain) \in Nat /\ Turn \in 1..Len(Chain) /\ Turn + Len(s) = Len(Chain)
    <2>1. /\ s \in Seq(1..MaxCommands) /\ Len(s) \in Nat /\ \A i \in 1..Len(s) : s[i] # Null
          /\ Len(Chain) \in Nat /\ Turn \in 1..Len(Chain) /\ Turn + Len(s) = Len(Chain)
      BY NodesAre
    <2>2. \A i \in 1..Len(s) : s[i] \in 1..MaxCommands
      BY <2>1, ElementOfSeq
    <2> QED BY <2>1, <2>2
  <1>3. PICK c : c = call.queue.current
    OBVIOUS
  <1>4. /\ call.queue = [nodes |-> s, current |-> c] /\ c \in 0..MaxCommands
        /\ pipelining /\ e < Len(s) /\ call.ret = s[e + 1]
        /\ c = IF e + 1 < Len(s) THEN s[(e + 1) + 1] ELSE Null
    BY <1>3 DEF Passed
  <1>5. queue'.nodes = s /\ queue'.current = c /\ queue' = [nodes |-> s, current |-> c] /\ s # <<>>
    <2>1. Len(s) # 0
      BY <1>2, <1>4
    <2>2. s # <<>>
      BY <1>2, <2>1, EmptySeq
    <2> QED BY <1>4, <2>2
  <1>6. e + 1 \in 1..Len(s) /\ pend' = s[e + 1] /\ pend' # Null /\ pend' \in 0..MaxCommands
    <2>1. e + 1 \in 1..Len(s)
      BY <1>2, <1>4
    <2>2. s[e + 1] # Null /\ s[e + 1] \in 1..MaxCommands
      BY <1>2, <2>1
    <2> QED BY <1>4, <2>1, <2>2
  <1>7. Turn' = Turn
    BY <1>5 DEF Turn
  <1>8. Scalars'
    <2>1. queue' = [nodes |-> queue'.nodes, current |-> queue'.current]
      BY <1>5
    <2> QED BY <1>1, <1>4, <1>5, <1>6, <2>1 DEF Scalars
  <1>9. InLoop(e + 1)'
    <2>1. ASSUME originEnd # "reset" PROVE forwarded' = UpTo(Turn + ((e + 1) - 1))'
      <3>1. PICK m \in 0..Len(Chain) : m = Turn + e
        BY <1>2
      <3>2. UpTo(m)' = UpTo(m) /\ (e + 1) - 1 = e
        BY UpToStays
      <3> QED BY <1>7, <2>1, <3>1, <3>2
    <2>2. Size(pend)' <= BufferSize
      <3>1. pend' \in 0..Len(sent)
        <4>1. s \in Seq(0..Len(sent))
          BY NodesAre
        <4> QED BY <1>6, <4>1, ElementOfSeq
      <3>2. PICK r \in 0..Len(sent) : r = pend' /\ r = call.ret
        BY <3>1
      <3>3. Size(r)' = Size(r)
        BY DEF Later
      <3>4. Size(r) \in Nat /\ BufferSize \in Nat
        BY LineIs, BufferSizeAssumption DEF ClientInv
      <3> QED BY <3>2, <3>3, <3>4 DEF TooLong
    <2> QED BY <1>4, <1>5, <1>6, <2>1, <2>2 DEF InLoop
  <1>10. Sending'
    BY <1>4, <1>5, <1>6, <1>9 DEF Sending
  <1>11. Pos' = Pos /\ Pos = fetched /\ Pos \in 0..Len(replies)
    BY <1>1 DEF Pos
  <1>12. Fetching'
    <2>1. At(Pos, stage)'
      <3>1. At(Pos, stage) /\ stage \in {"status", "body", "done"}
        BY <1>1 DEF Fetching, Scalars
      <3>2. PICK p, st : p = Pos /\ st = stage
        OBVIOUS
      <3>3. Len(replies) \in Nat /\ Len(replies') = Len(replies) /\ \A i \in 1..Len(replies) : replies'[i] = replies[i]
        BY <1>1, RepliesAre
      <3>4. At(p, st)'
        BY <1>1, <1>7, <1>11, <3>1, <3>2, <3>3, AtKept
      <3> QED BY <1>11, <3>2, <3>4
    <2>2. Stages' = Stages
      BY DEF Stages
    <2> QED BY <1>1, <1>11, <2>1, <2>2 DEF Fetching
  <1>13. Delivering'
    <2>1. \A i \in 2..Turn' : AnsweredTo(Chain[i])'
      <3> SUFFICES ASSUME NEW i \in 2..Turn PROVE AnsweredTo(Chain[i])'
        BY <1>7
      <3>1. AnsweredTo(Chain[i])
        BY <1>1 DEF Delivering
      <3>2. PICK r : r = Chain[i]
        OBVIOUS
      <3>3. AnsweredTo(r)'
        BY <3>1, <3>2, AnswersStay
      <3> QED BY <3>2, <3>3
    <2>2. Writes' = Writes
      BY DEF Writes
    <2>3. OfOrigin(delivered' \o sb'.data) = OfOrigin(SubSeq(replies', 1, Pos'))
      BY <1>1, <1>11 DEF Delivering
    <2>4. ~Writes /\ state # "CAPA" /\ sb = EmptyBuffer
      BY <1>1 DEF Delivering, Writes
    <2> QED BY <2>1, <2>2, <2>3, <2>4 DEF Delivering
  <1>14. state' \notin {"CAPA", "RESPONSE"} /\ fetched' \in 0..Len(replies) /\ IsPrefix(OfOrigin(delivered'), OfOrigin(replies))
    BY <1>1
  <1> QED BY <1>8, <1>10, <1>12, <1>13, <1>14, SendingStep

\* All is sent, and the first reply is awaited.
LEMMA LoopIsDone ==
  ASSUME ClientInv, ClientInv', Later, Chain' = Chain, RelayInv, Alive, state = "REQUEST",
         UNCHANGED <<sb, greeting, pipelining, sent, written, received, rb,
                     delivered, clientEnd, taken, replies, fetched, offers, originEnd>>,
         NEW s, s = queue.nodes, s # <<>>, NEW call, NEW e \in 0..Len(s), Passed(call, e), call.ret = Null,
         pend' = Null, NextResponse(call.queue), wb' = EmptyBuffer,
         forwarded' = UpTo(Turn + e), Len(forwarded) <= Len(UpTo(Turn + e)),
         state' = "RESPONSE", armed' = <<"NOOP", "READ">>
  PROVE  RelayInv'
  <1>1. Scalars /\ Sending /\ Fetching /\ Delivering /\ Replied /\ IsPrefix(OfOrigin(delivered), OfOrigin(replies))
        /\ fetched \in 0..Len(replies)
    BY DEF RelayInv, Ground
  <1>2. /\ s \in Seq(1..MaxCommands) /\ Len(s) \in Nat
        /\ Len(Chain) \in Nat /\ Turn \in 1..Len(Chain) /\ Turn + Len(s) = Len(Chain)
    BY NodesAre
  <1>3. PICK c : c = call.queue.current
    OBVIOUS
  <1>4. /\ call.queue = [nodes |-> s, current |-> c] /\ c \in 0..MaxCommands
        /\ e = IF pipelining THEN Len(s) ELSE 1
    BY <1>3 DEF Passed
  <1>5. Turn' = Turn + 1 /\ queue' = Dequeue(call.queue) /\ stage' = "status" /\ fault' = fault
    <2>1. QueueIsRest /\ AcceptedInOrder /\ UNCHANGED reading
      BY DEF ClientInv, reading
    <2>2. PICK q : q = call.queue
      OBVIOUS
    <2>3. q.nodes = queue.nodes /\ NextResponse(q)
      BY <1>4, <2>2
    <2>4. /\ Turn' = Turn + 1 /\ queue' = Dequeue(q) /\ stage' = "status" /\ fault' = fault
      BY <2>1, <2>3, QueueMoves
    <2> QED BY <2>2, <2>4
  <1>6. PICK t, x : t = Tail(s) /\ x = IF Len(s) = 1 THEN Null ELSE c
    OBVIOUS
  <1>7. queue' = [nodes |-> t, current |-> x] /\ x \in 0..MaxCommands /\ (t = <<>> => x = Null)
    <2>1. queue' = [nodes |-> t, current |-> x]
      BY <1>4, <1>5, <1>6 DEF Dequeue
    <2>2. t = <<>> => Len(s) = 1
      <3>1. Len(s) # 0
        BY <1>2, EmptySeq
      <3>2. Len(t) = Len(s) - 1
        BY <1>2, <1>6, <3>1
      <3> QED BY <1>2, <3>2, EmptySeq
    <2>3. 0 \in 0..MaxCommands
      BY SessionAssumption
    <2> QED BY <1>4, <1>6, <2>1, <2>2, <2>3 DEF Null
  <1>8. Scalars'
    <2>1. queue' = [nodes |-> queue'.nodes, current |-> queue'.current] /\ queue'.nodes = t /\ queue'.current = x
      BY <1>7
    <2>2. Sound(wb') /\ pend' \in 0..MaxCommands
      BY EmptySound, SessionAssumption DEF Null
    <2> QED BY <1>1, <1>5, <1>7, <2>1, <2>2 DEF Scalars, LiveStates
  <1>9. PICK m \in 0..Len(Chain) : m = Turn + e /\ m = IF pipelining THEN Len(Chain) ELSE Turn + 1
    <2>1. CASE pipelining
      BY <1>2, <1>4, <2>1
    <2>2. CASE ~pipelining
      BY <1>2, <1>4, <2>2
    <2> QED BY <2>1, <2>2
  <1>10. forwarded' = UpTo(m) /\ Len(forwarded) <= Len(UpTo(m)) /\ UpTo(m)' = UpTo(m)
    BY <1>9, UpToStays
  <1>11. Sending'
    <2>1. SentCount' = m
      BY <1>5, <1>9 DEF SentCount, Welcoming
    <2>2. forwarded' = UpTo(SentCount)'
      BY <1>10, <2>1
    <2> QED BY <2>2 DEF Sending
  <1>12. Pos = fetched /\ Pos' = fetched /\ stage = "done" /\ At(fetched, "done") /\ fetched \in Nat
    <2>1. Pos = fetched
      BY DEF Pos
    <2>2. stage = "done" /\ At(fetched, "done")
      <3>1. Stages = {"done"}
        BY DEF Stages, Welcoming
      <3> QED BY <1>1, <2>1, <3>1 DEF Fetching
    <2>3. Len(wb'.data) = 0 /\ fetched \in Nat
      BY <1>1 DEF EmptyBuffer
    <2>4. Pos' = fetched
      BY <2>3 DEF Pos
    <2> QED BY <2>1, <2>2, <2>3, <2>4
  <1>13. Fetching'
    <2>1. At(Pos, stage)'
      <3>1. PICK p : p = fetched
        OBVIOUS
      <3>2. At(p, "status")'
        BY <1>5, <1>12, <3>1, AtMoves
      <3> QED BY <1>5, <1>12, <3>1, <3>2
    <2>2. stage' \in Stages'
      BY <1>5 DEF Stages, Welcoming
    <2>3. Pos' \in 0..fetched'
      BY <1>12
    <2>4. wb'.data = SubSeq(replies', Pos' + 1, fetched')
      BY <1>12 DEF EmptyBuffer
    <2>5. Turn' > 1
      BY <1>2, <1>5
    <2>6. pipelining' = (offers' /\ state' \in {"REQUEST", "RESPONSE"})
      BY <1>1 DEF Fetching
    <2> QED BY <2>1, <2>2, <2>3, <2>4, <2>5, <2>6 DEF Fetching
  <1>14. ~Writes /\ state # "CAPA" /\ sb = EmptyBuffer
    BY <1>1 DEF Delivering, Writes
  <1>15. Delivering'
    <2>1. \A i \in 2..Turn' : i < Turn' => AnsweredTo(Chain[i])'
      <3> SUFFICES ASSUME NEW i \in 2..(Turn + 1), i < Turn + 1 PROVE AnsweredTo(Chain[i])'
        BY <1>5
      <3>1. i \in 2..Turn
        BY <1>2
      <3>2. AnsweredTo(Chain[i])
        BY <1>1, <3>1 DEF Delivering
      <3>3. PICK r : r = Chain[i]
        OBVIOUS
      <3>4. AnsweredTo(r)'
        BY <3>2, <3>3, AnswersStay
      <3> QED BY <3>3, <3>4
    <2>2. ~Writes'
      BY DEF Writes
    <2>3. OfOrigin(delivered' \o sb'.data) = OfOrigin(SubSeq(replies', 1, Pos'))
      BY <1>1, <1>12 DEF Delivering
    <2> QED BY <1>14, <2>1, <2>2, <2>3 DEF Delivering
  <1>16. \A i \in 1..Len(sb'.data) : sb'.data[i].id = request'
    BY <1>14 DEF EmptyBuffer
  <1>17. fetched' \in 0..Len(replies) /\ IsPrefix(OfOrigin(delivered'), OfOrigin(replies))
    BY <1>1
  <1> QED BY <1>8, <1>10, <1>11, <1>13, <1>15, <1>16, <1>17, SendingStep

LEMMA RequestWrites ==
  ASSUME ClientInv, ClientInv', ArmedFor, RelayInv, RequestWriteStep, ~cut'
  PROVE  RelayInv'
  <1>1. state = "REQUEST" /\ fault = "none" /\ Alive /\ armed[2] = "WRITE" /\ armed = <<"NOOP", "WRITE">>
    <2>1. state = "REQUEST" /\ fault = "none" /\ armed[2] = "WRITE"
      BY DEF RequestWriteStep
    <2> QED BY <2>1 DEF Alive, ArmedFor, Armed
  <1>2. UNCHANGED <<rb, sb, greeting, parsed, pipelining, sent, written, received, delivered, clientEnd, taken,
                    replies, fetched, offers, originEnd>>
    BY DEF RequestWriteStep, clientVars
  <1>3. UNCHANGED reading /\ Later /\ Chain' = Chain
    <2>1. UNCHANGED reading
      BY <1>2 DEF reading
    <2> QED BY <2>1, LaterReading
  <1>4. Scalars /\ Sending /\ Fetching /\ Delivering /\ Replied /\ IsPrefix(OfOrigin(delivered), OfOrigin(replies))
        /\ fetched \in 0..Len(replies)
    BY <1>1 DEF RelayInv, Ground
  <1>5. PICK s, call, b : s = queue.nodes /\ call = RequestToBuffer /\ b = call.buf
    OBVIOUS
  <1>50. ~(IsEmpty(queue) \/ ((pipelining \/ pend # Null) /\ Dangling(queue)))
    BY <1>1, <1>4, QueueWalks
  <1>51. ~TooLong(call)
    BY <1>5, <1>50 DEF RequestWriteStep
  <1>6. /\ Sound(b) /\ b.data \in Seq(LineUnits) /\ \E e \in 0..Len(s) : Passed(call, e)
    BY <1>1, <1>4, <1>5, <1>51, CallIs
  <1>7. PICK e \in 0..Len(s) : Passed(call, e)
    BY <1>6
  <1>8. PICK n \in ToOriginSends(Len(b.data)) :
          /\ wb' = IF n = -1 THEN b ELSE Drop(b, n)
          /\ forwarded' = IF n = -1 THEN forwarded ELSE forwarded \o SubSeq(b.data, 1, n)
          /\ pend' = call.ret /\ ~Short(call, n)
          /\ IF call.ret # Null
             THEN queue' = call.queue /\ UNCHANGED <<state, armed, request, stage, fault>>
             ELSE IF n = -1
             THEN queue' = call.queue /\ Leave(2, Fail) /\ UNCHANGED <<request, stage, fault>>
             ELSE IF CanRead(Drop(b, n))
             THEN queue' = call.queue /\ Leave(2, Stay("REQUEST")) /\ UNCHANGED <<request, stage, fault>>
             ELSE NextResponse(call.queue) /\ Leave(2, Outcome("RESPONSE", "READ", "KEEP", "KEEP"))
    BY <1>5, <1>50 DEF RequestWriteStep
  <1>9. /\ s \in Seq(1..MaxCommands) /\ Len(s) \in Nat /\ s # <<>>
        /\ Len(Chain) \in Nat /\ Turn \in 1..Len(Chain) /\ Turn + Len(s) = Len(Chain)
    BY <1>5, <1>50, NodesAre DEF IsEmpty
  <1>10. PICK g \in 0..Len(Chain) : g = Turn + e
    BY <1>9
  <1>11. originEnd # "reset" => forwarded \o b.data = UpTo(g)
    BY <1>5, <1>7, <1>10 DEF Passed
  <1>12. PICK f \in 0..Len(Chain) : forwarded = UpTo(f)
    BY DEF RelayInv, Ground
  <1>13. forwarded \in Seq(LineUnits) /\ Len(forwarded) \in Nat
    BY <1>12, UpToGrows, LenProperties
  <1>14. IF originEnd = "reset" THEN n = -1 ELSE n = Len(b.data) /\ n # -1
    BY <1>5, <1>6, <1>8, LenProperties DEF ToOriginSends, Short
  <1>15. CASE originEnd = "reset"
    <2>1. n = -1 /\ wb' = b /\ forwarded' = UpTo(f) /\ Len(forwarded) <= Len(UpTo(f))
      BY <1>8, <1>12, <1>13, <1>14, <1>15
    <2>2. CASE call.ret # Null
      <3>1. pend' = call.ret /\ queue' = call.queue /\ UNCHANGED <<state, armed, request, stage, fault>>
        BY <1>8, <2>2
      <3>2. Sound(wb') /\ wb'.data \in Seq(LineUnits)
        BY <1>6, <2>1
      <3> QED BY <1>1, <1>2, <1>3, <1>5, <1>7, <1>15, <2>1, <2>2, <3>1, <3>2, <1>51, LoopGoesOn
    <2>3. CASE call.ret = Null
      <3>1. pend' = Null /\ queue' = call.queue /\ state' = "CLOSED" /\ UNCHANGED <<request, stage, fault>>
        BY <1>8, <2>1, <2>3 DEF Leave, Closes, Fail, Outcome
      <3>2. PICK c : c = call.queue.current
        OBVIOUS
      <3>3. call.queue = [nodes |-> s, current |-> c] /\ c \in 0..MaxCommands
        BY <1>5, <1>7, <3>2 DEF Passed
      <3>4. queue' = [nodes |-> queue'.nodes, current |-> queue'.current] /\ queue'.nodes = s /\ queue'.current = c
        BY <3>1, <3>3
      <3>5. Sound(wb') /\ pend' \in 0..MaxCommands
        BY <1>6, <2>1, <3>1, SessionAssumption DEF Null
      <3>6. Scalars'
        BY <1>2, <1>4, <1>9, <3>1, <3>3, <3>4, <3>5 DEF Scalars
      <3>7. fetched' \in 0..Len(replies) /\ IsPrefix(OfOrigin(delivered'), OfOrigin(replies))
        BY <1>2, <1>4
      <3>8. UNCHANGED <<taken, replies, offers, clientEnd, originEnd>>
        BY <1>2
      <3> QED BY <1>3, <2>1, <3>1, <3>6, <3>7, <3>8, ClosedStep
    <2> QED BY <2>2, <2>3
  <1>16. CASE originEnd # "reset"
    <2>1. PICK d, m : d = b.data /\ m = Len(b.data)
      OBVIOUS
    <2>2. d \in Seq(LineUnits) /\ m = Len(d) /\ m \in Nat /\ n = m /\ n # -1
      BY <1>6, <1>14, <1>16, <2>1, LenProperties
    <2>3. SubSeq(d, 1, m) = d
      BY <2>2, SubSeqFull
    <2>4. wb' = EmptyBuffer /\ Drop(b, n) = EmptyBuffer
      BY <1>8, <2>1, <2>2 DEF Drop
    <2>5. forwarded' = UpTo(g)
      BY <1>8, <1>11, <1>16, <2>1, <2>2, <2>3
    <2>6. Len(forwarded) <= Len(UpTo(g))
      <3>1. Len(forwarded \o d) = Len(forwarded) + Len(d)
        BY <1>13, <2>2, ConcatProperties
      <3>2. Len(UpTo(g)) = Len(forwarded) + m
        BY <1>11, <1>16, <2>1, <2>2, <3>1
      <3> QED BY <1>13, <2>2, <3>2
    <2>7. CASE call.ret # Null
      <3>1. pend' = call.ret /\ queue' = call.queue /\ UNCHANGED <<state, armed, request, stage, fault>>
        BY <1>8, <2>7
      <3>2. Sound(wb') /\ wb'.data \in Seq(LineUnits)
        BY <2>4, EmptySound, EmptySeq DEF EmptyBuffer
      <3>3. wb' = EmptyBuffer /\ forwarded' = UpTo(Turn + e)
        BY <1>10, <2>4, <2>5
      <3> QED BY <1>1, <1>2, <1>3, <1>5, <1>7, <2>5, <2>6, <2>7, <3>1, <3>2, <3>3, <1>51, LoopGoesOn
    <2>8. CASE call.ret = Null
      <3>1. pend' = Null /\ NextResponse(call.queue) /\ Leave(2, Outcome("RESPONSE", "READ", "KEEP", "KEEP"))
        <4>1. ~CanRead(Drop(b, n))
          BY <2>4 DEF CanRead, EmptyBuffer
        <4> QED BY <1>8, <2>2, <2>8, <4>1
      <3>2. state' = "RESPONSE" /\ armed' = <<"NOOP", "READ">>
        <4>1. PICK o : o = Outcome("RESPONSE", "READ", "KEEP", "KEEP")
          OBVIOUS
        <4>2. ~Closes(o.next) /\ o.client = "KEEP" /\ o.origin = "KEEP" /\ o.key = "READ" /\ o.next = "RESPONSE"
          BY <4>1 DEF Outcome, Closes
        <4>3. state' = "RESPONSE" /\ armed' = <<Given(o.client, "NOOP"), Given(o.origin, Given(o.key, "WRITE"))>>
          BY <1>1, <3>1, <4>1, <4>2, LeaveIs
        <4> QED BY <4>2, <4>3 DEF Given
      <3>3. forwarded' = UpTo(Turn + e) /\ Len(forwarded) <= Len(UpTo(Turn + e))
        BY <1>10, <2>5, <2>6
      <3> QED BY <1>1, <1>2, <1>3, <1>5, <1>7, <1>9, <2>4, <2>8, <3>1, <3>2, <3>3, LoopIsDone
    <2> QED BY <2>7, <2>8
  <1> QED BY <1>15, <1>16

-----------------------------------------------------------------------------
(* Replies are read.                                                       *)

LEMMA ResponseIs ==
  ASSUME ClientInv, RelayInv, Alive, state = "RESPONSE"
  PROVE  /\ Scalars /\ Replied /\ Turn > 1 /\ Turn \in 1..Len(Chain) /\ Len(Chain) \in Nat
         /\ pend = Null /\ pipelining = offers
         /\ forwarded = UpTo(IF pipelining THEN Len(Chain) ELSE Turn)
         /\ Pos = fetched - Len(wb.data) /\ Pos \in 0..fetched /\ fetched \in 0..Len(replies)
         /\ replies \in Seq(ReplyUnits) /\ Sound(wb) /\ wb.data = SubSeq(replies, Pos + 1, fetched)
         /\ At(Pos, stage) /\ stage \in Stages /\ delivered \in Seq(ReplyUnits)
         /\ sb.data \in Seq(ReplyUnits) /\ Sound(sb)
         /\ \A i \in 1..Len(sb.data) : sb.data[i].id = request
         /\ OfOrigin(delivered \o sb.data) = OfOrigin(SubSeq(replies, 1, Pos))
         /\ IsPrefix(OfOrigin(delivered), OfOrigin(replies))
         /\ \A i \in 2..(Turn - 1) : AnsweredTo(Chain[i])
  <1>1. Sending /\ Fetching /\ Delivering /\ Ground /\ Replied
    BY DEF RelayInv
  <1>2. Scalars
    BY <1>1 DEF Ground
  <1>3. Turn \in 1..Len(Chain) /\ Len(Chain) \in Nat
    BY NodesAre
  <1>4. pend = Null /\ forwarded = UpTo(SentCount)
    BY <1>1 DEF Sending
  <1>5. SentCount = IF pipelining THEN Len(Chain) ELSE Turn
    BY DEF SentCount, Welcoming
  <1>6. pipelining = offers
    <2>1. pipelining = (offers /\ state \in {"REQUEST", "RESPONSE"})
      BY <1>1 DEF Fetching
    <2>2. offers \in BOOLEAN
      BY <1>2 DEF Scalars
    <2> QED BY <2>1, <2>2
  <1>7. Pos = fetched - Len(wb.data)
    BY DEF Pos
  <1>8. Turn > 1 /\ Pos \in 0..fetched /\ wb.data = SubSeq(replies, Pos + 1, fetched) /\ At(Pos, stage) /\ stage \in Stages
    BY <1>1 DEF Fetching
  <1>9. \A i \in 2..(Turn - 1) : AnsweredTo(Chain[i])
    <2>1. \A i \in 2..(Turn - 1) : i \in 2..Turn /\ i < Turn
      BY <1>3
    <2> QED BY <1>1, <2>1 DEF Delivering
  <1>10. /\ fetched \in 0..Len(replies) /\ IsPrefix(OfOrigin(delivered), OfOrigin(replies))
         /\ \A i \in 1..Len(sb.data) : sb.data[i].id = request
    BY <1>1 DEF Ground
  <1>11. OfOrigin(delivered \o sb.data) = OfOrigin(SubSeq(replies, 1, Pos))
    BY <1>1 DEF Delivering
  <1>12. replies \in Seq(ReplyUnits)
    BY <1>1 DEF Replied
  <1>13. Sound(wb) /\ Sound(sb) /\ sb.data \in Seq(ReplyUnits) /\ delivered \in Seq(ReplyUnits)
    BY <1>2 DEF Scalars
  <1> QED BY <1>1, <1>2, <1>3, <1>4, <1>5, <1>6, <1>7, <1>8, <1>9, <1>10, <1>11, <1>12, <1>13

\* A step on the reply to the same request.
LEMMA ResponseKept ==
  ASSUME ClientInv, ClientInv', RelayInv, Alive, state = "RESPONSE", state' = "RESPONSE",
         UNCHANGED <<reading, queue, request, taken, replies, offers, forwarded, pend>>,
         fault' = "none" => pipelining' = offers,
         Scalars', fetched' \in 0..Len(replies), NEW p \in 0..fetched', fetched' - Len(wb'.data) = p,
         wb'.data = SubSeq(replies, p + 1, fetched'), At(p, stage)', stage' \in Stages',
         NEW x \in Seq(ReplyUnits), delivered' = delivered \o x,
         OfOrigin(delivered' \o sb'.data) = OfOrigin(SubSeq(replies, 1, p)),
         ~Writes' => sb' = EmptyBuffer,
         (Writes => sb.data # <<>> /\ (stage = "done" => Final(sb.data[Len(sb.data)])))',
         \A i \in 1..Len(sb'.data) : sb'.data[i].id = request
  PROVE  RelayInv'
  <1>1. /\ Scalars /\ Replied /\ Turn > 1 /\ Turn \in 1..Len(Chain) /\ Len(Chain) \in Nat
        /\ pend = Null /\ pipelining = offers
        /\ forwarded = UpTo(IF pipelining THEN Len(Chain) ELSE Turn)
        /\ replies \in Seq(ReplyUnits) /\ delivered \in Seq(ReplyUnits)
        /\ \A i \in 2..(Turn - 1) : AnsweredTo(Chain[i])
    BY ResponseIs
  <1>2. Later /\ Chain' = Chain
    BY LaterReading
  <1>3. Turn' = Turn
    BY <1>2 DEF Turn
  <1>4. IsPrefix(OfOrigin(delivered'), OfOrigin(replies))
    <2>1. delivered' \in Seq(ReplyUnits) /\ sb'.data \in Seq(ReplyUnits)
      BY DEF Scalars
    <2>2. PICK d, y : d = delivered' /\ y = sb'.data
      OBVIOUS
    <2>3. d \in Seq(Units) /\ y \in Seq(Units)
      BY <2>1, <2>2, RepliesAreUnits
    <2>4. p \in 0..Len(replies)
      BY <1>1, LenProperties
    <2>5. IsPrefix(OfOrigin(d), OfOrigin(replies))
      BY <1>1, <2>2, <2>3, <2>4, OriginPrefix
    <2> QED BY <2>2, <2>5
  <1>5. ASSUME Alive' PROVE Sending' /\ Fetching' /\ Delivering'
    <2>1. pipelining' = offers /\ pipelining' = pipelining
      BY <1>1, <1>5 DEF Alive
    <2>2. PICK m \in 0..Len(Chain) : m = IF pipelining THEN Len(Chain) ELSE Turn
      BY <1>1
    <2>3. UpTo(m)' = UpTo(m)
      BY <1>2, UpToStays
    <2>4. SentCount' = m
      BY <1>2, <1>3, <2>1, <2>2 DEF SentCount, Welcoming
    <2>5. Sending'
      BY <1>1, <2>2, <2>3, <2>4 DEF Sending
    <2>6. Pos' = p
      BY DEF Pos
    <2>7. Fetching'
      <3>1. pipelining' = (offers' /\ state' \in {"REQUEST", "RESPONSE"})
        <4>1. offers \in BOOLEAN
          BY <1>1 DEF Scalars
        <4> QED BY <2>1, <4>1
      <3>2. At(Pos, stage)'
        BY <2>6
      <3>3. Pos' \in 0..fetched' /\ wb'.data = SubSeq(replies', Pos' + 1, fetched')
        BY <2>6
      <3> QED BY <1>1, <1>3, <3>1, <3>2, <3>3 DEF Fetching
    <2>8. Delivering'
      <3>1. ASSUME NEW i \in 2..Turn', i < Turn' PROVE AnsweredTo(Chain[i])'
        <4>1. i \in 2..(Turn - 1) /\ i \in 1..Len(Chain)
          <5>1. PICK t, c : t = Turn /\ c = Len(Chain)
            OBVIOUS
          <5>2. t \in 1..c /\ c \in Nat /\ i \in 2..t /\ i < t
            BY <1>1, <1>3, <3>1, <5>1
          <5>3. i \in 2..(t - 1) /\ i \in 1..c
            BY ONLY <5>2
          <5> QED BY <5>1, <5>3
        <4>2. PICK r \in 0..Len(sent) : r = Chain[i]
          BY <4>1, ChainRises
        <4>3. AnsweredTo(r)
          BY <1>1, <4>1, <4>2
        <4>4. AnsweredTo(r)'
          BY <1>1, <1>2, <4>2, <4>3, AnsweredKept
        <4> QED BY <1>2, <4>2, <4>4
      <3>2. OfOrigin(delivered' \o sb'.data) = OfOrigin(SubSeq(replies', 1, Pos'))
        BY <2>6
      <3>3. Writes' => sb'.data # <<>> /\ (stage = "done" => Final(sb.data[Len(sb.data)]))'
        OBVIOUS
      <3> QED BY <3>1, <3>2, <3>3 DEF Delivering
    <2> QED BY <2>5, <2>7, <2>8
  <1> QED BY <1>2, <1>4, <1>5, ProxyStep

LEMMA ResponseReads ==
  ASSUME ClientInv, ClientInv', ArmedFor, RelayInv, ResponseReadStep
  PROVE  RelayInv'
  <1>1. state = "RESPONSE" /\ fault = "none" /\ Alive /\ armed = <<"NOOP", "READ">>
    <2>1. state = "RESPONSE" /\ fault = "none" /\ armed[2] = "READ"
      BY DEF ResponseReadStep, On
    <2> QED BY <2>1 DEF Alive, ArmedFor, Armed
  <1>2. UNCHANGED <<rb, greeting, parsed, queue, pend, request, sent, written, received, clientEnd, forwarded,
                    taken, replies, offers, originEnd>>
    BY DEF ResponseReadStep
  <1>3. UNCHANGED reading /\ Later /\ Chain' = Chain
    <2>1. UNCHANGED reading
      BY <1>2 DEF reading
    <2> QED BY <2>1, LaterReading
  <1>4. Turn' = Turn
    BY <1>2, <1>3 DEF Turn
  <1>5. /\ Scalars /\ Replied
        /\ pend = Null /\ pipelining = offers
        /\ Pos = fetched - Len(wb.data) /\ Pos \in 0..fetched /\ fetched \in 0..Len(replies)
        /\ replies \in Seq(ReplyUnits) /\ Sound(wb) /\ wb.data = SubSeq(replies, Pos + 1, fetched)
        /\ At(Pos, stage) /\ stage \in Stages /\ delivered \in Seq(ReplyUnits)
        /\ OfOrigin(delivered \o sb.data) = OfOrigin(SubSeq(replies, 1, Pos))
        /\ IsPrefix(OfOrigin(delivered), OfOrigin(replies))
    BY <1>1, ResponseIs
  <1>6. stage \in {"status", "body"}
    BY <1>1, <1>5 DEF Stages, Welcoming
  <1>7. sb = EmptyBuffer
    BY <1>1 DEF RelayInv, Delivering, Writes
  <1>8. PICK n \in FromOrigin(Room(wb)) :
       IF n <= 0 /\ ~CanRead(wb)
       THEN /\ Leave(2, IF n = -1 THEN Fail ELSE Stay("RESPONSE"))
            /\ fault' \in {"none"} \cup
                 IF n = -1 /\ stage = "status" THEN {"unset response"} ELSE {}
            /\ UNCHANGED <<wb, sb, stage, pipelining, delivered, fetched>>
       ELSE LET got == IF n > 0 THEN n ELSE 0
                b   == Put(wb, Slice(replies, fetched, got))
                k   == Consumed(b.data)
                st  == StageAfter(b.data)[k] IN
            /\ fetched' = fetched + got
            /\ wb' = Drop(b, k)
            /\ IF st = "error"
               THEN Leave(2, FailMute) /\ Tell(request) /\ UNCHANGED <<sb, stage, pipelining>>
               ELSE /\ sb' = Put(sb, Fitting(sb, SubSeq(b.data, 1, k)))
                    /\ stage' = st
                    /\ Leave(2, ToClient("RESPONSE", "WRITE"))
                    /\ IF st = "done" /\ Kind(request) = "capa" THEN CapaResult(b.data[k])
                       ELSE UNCHANGED <<pipelining, fault>>
                    /\ UNCHANGED delivered
    BY DEF ResponseReadStep
  <1>9. PICK p \in 0..fetched : p = Pos
    BY <1>5
  <1>10. UNCHANGED <<taken, replies, offers, forwarded>> /\ UNCHANGED <<reading, queue, request, taken, replies, offers, forwarded, pend>>
    BY <1>2, <1>3
  <1>11. CASE n <= 0 /\ ~CanRead(wb)
    <2>1. /\ Leave(2, IF n = -1 THEN Fail ELSE Stay("RESPONSE"))
          /\ fault' \in Faults
          /\ UNCHANGED <<wb, sb, stage, pipelining, delivered, fetched>>
      BY <1>8, <1>11 DEF Faults
    <2>2. state' \in {"RESPONSE", "CLOSED"}
      BY <2>1 DEF Leave, Closes, Stay, Fail, Outcome
    <2>3. Scalars'
      BY <1>2, <1>5, <2>1, <2>2 DEF Scalars, LiveStates
    <2>4. CASE state' = "CLOSED"
      <3>1. ~Alive' /\ fetched' \in 0..Len(replies) /\ IsPrefix(OfOrigin(delivered'), OfOrigin(replies))
        BY <1>5, <2>1, <2>4 DEF Alive
      <3> QED BY <1>3, <1>10, <2>3, <2>4, <3>1, ProxyStep
    <2>5. CASE state' = "RESPONSE"
      <3>1. armed' = <<"NOOP", "READ">>
        <4>1. n # -1
          BY <2>1, <2>5 DEF Leave, Closes, Fail, Outcome
        <4>2. PICK o : o = Stay("RESPONSE")
          OBVIOUS
        <4>3. ~Closes(o.next) /\ o.client = "KEEP" /\ o.origin = "KEEP" /\ o.key = "KEEP" /\ o.next = "RESPONSE"
          BY <4>2 DEF Outcome, Closes, Stay
        <4>4. Leave(2, o)
          BY <2>1, <4>1, <4>2
        <4>5. armed' = <<Given(o.client, "NOOP"), Given(o.origin, Given(o.key, "READ"))>>
          BY <1>1, <4>3, <4>4, LeaveIs
        <4> QED BY <4>3, <4>5 DEF Given
      <3>2. ~Writes' /\ stage' \in Stages'
        BY <1>6, <2>1, <2>5, <3>1 DEF Writes, Stages, Welcoming
      <3>3. At(p, stage)'
        <4>1. PICK st : st = stage
          OBVIOUS
        <4>2. Len(replies) \in Nat /\ Len(replies') = Len(replies) /\ \A i \in 1..Len(replies) : replies'[i] = replies[i]
          BY <1>5, <1>10, RepliesAre
        <4>3. p \in 0..Len(replies) /\ st \in {"status", "body", "done"} /\ At(p, st)
          BY <1>5, <1>6, <1>9, <4>1, <4>2
        <4>4. At(p, st)'
          BY <1>2, <1>3, <1>4, <1>5, <4>2, <4>3, AtKept
        <4> QED BY <2>1, <4>1, <4>4
      <3>4. PICK x : x = <<>>
        OBVIOUS
      <3>5. x \in Seq(ReplyUnits) /\ delivered' = delivered \o x
        BY <1>5, <2>1, <3>4, EmptySeq, ConcatEmptySeq
      <3>6. /\ p \in 0..fetched' /\ fetched' - Len(wb'.data) = p /\ wb'.data = SubSeq(replies, p + 1, fetched')
            /\ fetched' \in 0..Len(replies)
            /\ OfOrigin(delivered' \o sb'.data) = OfOrigin(SubSeq(replies, 1, p))
            /\ pipelining' = offers /\ sb' = EmptyBuffer
        BY <1>5, <1>7, <1>9, <2>1
      <3>7. \A i \in 1..Len(sb'.data) : sb'.data[i].id = request
        BY <3>6 DEF EmptyBuffer
      <3>8. (Writes => sb.data # <<>> /\ (stage = "done" => Final(sb.data[Len(sb.data)])))'
        BY <3>2
      <3> QED BY <1>1, <1>10, <2>3, <2>5, <3>2, <3>3, <3>5, <3>6, <3>7, <3>8, ResponseKept
    <2> QED BY <2>2, <2>4, <2>5
  <1>12. CASE ~(n <= 0 /\ ~CanRead(wb))
    <2>1. PICK got : got = IF n > 0 THEN n ELSE 0
      OBVIOUS
    <2>2. PICK b : b = Put(wb, Slice(replies, fetched, got))
      OBVIOUS
    <2>3. PICK k : k = Consumed(b.data)
      OBVIOUS
    <2>4. PICK st : st = StageAfter(b.data)[k]
      OBVIOUS
    <2>5. /\ fetched' = fetched + got
          /\ wb' = Drop(b, k)
          /\ IF st = "error"
             THEN Leave(2, FailMute) /\ Tell(request) /\ UNCHANGED <<sb, stage, pipelining>>
             ELSE /\ sb' = Put(sb, Fitting(sb, SubSeq(b.data, 1, k)))
                  /\ stage' = st
                  /\ Leave(2, ToClient("RESPONSE", "WRITE"))
                  /\ IF st = "done" /\ Kind(request) = "capa" THEN CapaResult(b.data[k])
                     ELSE UNCHANGED <<pipelining, fault>>
                  /\ UNCHANGED delivered
      BY <1>8, <1>12, <2>1, <2>2, <2>3, <2>4
    <2>6. wb.data # <<>> \/ n > 0
      <3>1. n \in Int
        <4>1. Room(wb) \in Nat /\ Len(replies) \in Nat
          BY <1>5, RoomIs, LenProperties
        <4> QED BY <1>5, <4>1 DEF FromOrigin, Received, Min2
      <3> QED BY <1>12, <3>1 DEF CanRead
    <2>7. Consumes(p, fetched + got, b, k, st)
      <3>1. wb.data = SubSeq(replies, p + 1, fetched) /\ At(p, stage)
        BY <1>5, <1>9
      <3> QED BY <1>5, <1>6, <2>1, <2>2, <2>3, <2>4, <2>6, <3>1, Consumption
    <2>8. PICK z, q : z = SubSeq(b.data, 1, k) /\ q = p + k
      OBVIOUS
    <2>9. /\ st \in {"body", "done", "error"} /\ fetched + got \in 0..Len(replies) /\ q \in 0..(fetched + got)
          /\ q \in 1..Len(replies) /\ q \in Nat /\ p \in Nat
          /\ Sound(Drop(b, k)) /\ Drop(b, k).data = SubSeq(replies, q + 1, fetched + got)
          /\ (fetched + got) - Len(Drop(b, k).data) = q
          /\ z \in Seq(ReplyUnits) /\ Len(z) = k /\ k \in Nat \ {0} /\ k <= BufferSize /\ z[k] = b.data[k]
          /\ b.data[k] = replies[q] /\ SubSeq(replies, 1, p) \o z = SubSeq(replies, 1, q)
          /\ SubSeq(replies, 1, p) \in Seq(ReplyUnits)
          /\ st # "error" => At(q, st) /\ \A i \in 1..k : z[i].id = request
      BY <2>7, <2>8 DEF Consumes
    <2>10. CASE st = "error"
      <3>1. state' = "CLOSED" /\ delivered' = delivered \o Notice(request) /\ fault' \in Faults
            /\ UNCHANGED <<sb, stage, pipelining>>
        BY <2>5, <2>10 DEF Leave, Closes, FailMute, Outcome, Broken, Faults, Tell
      <3>2. request \in Ids
        BY RequestIs
      <3>3. delivered' \in Seq(ReplyUnits) /\ OfOrigin(delivered') = OfOrigin(delivered)
        BY <1>5, <3>1, <3>2, NoticeAdded
      <3>4. Scalars'
        BY <1>2, <1>5, <2>5, <2>9, <3>1, <3>3 DEF Scalars
      <3>5. ~Alive' /\ fetched' \in 0..Len(replies) /\ IsPrefix(OfOrigin(delivered'), OfOrigin(replies))
        BY <1>5, <2>5, <2>9, <3>1, <3>3 DEF Alive
      <3> QED BY <1>3, <1>10, <3>1, <3>4, <3>5, ProxyStep
    <2>11. CASE st # "error"
      <3>1. /\ stage' = st /\ delivered' = delivered /\ wb' = Drop(b, k) /\ fetched' = fetched + got
            /\ sb' = Put(sb, Fitting(sb, z)) /\ Leave(2, ToClient("RESPONSE", "WRITE"))
            /\ IF st = "done" /\ Kind(request) = "capa" THEN CapaResult(replies[q])
               ELSE UNCHANGED <<pipelining, fault>>
        BY <2>5, <2>8, <2>9, <2>11
      <3>2. state' = "RESPONSE" /\ armed' = <<"WRITE", "NOOP">>
        <4>1. PICK o : o = ToClient("RESPONSE", "WRITE")
          OBVIOUS
        <4>2. ~Closes(o.next) /\ o.client = "WRITE" /\ o.origin = "KEEP" /\ o.key = "NOOP" /\ o.next = "RESPONSE"
          BY <4>1 DEF Outcome, Closes, ToClient
        <4>3. state' = "RESPONSE" /\ armed' = <<Given(o.client, "NOOP"), Given(o.origin, Given(o.key, "READ"))>>
          BY <1>1, <3>1, <4>1, <4>2, LeaveIs
        <4> QED BY <4>2, <4>3 DEF Given
      <3>3. At(q, st) /\ At(q, st)' /\ \A i \in 1..k : z[i].id = request
        <4>1. At(q, st) /\ \A i \in 1..k : z[i].id = request
          BY <2>9, <2>11
        <4> QED BY <1>2, <1>3, <1>4, <4>1 DEF At, Ended, Final, MultiLine, Kind
      <3>4. sb'.data = z /\ Sound(sb')
        <4>1. z \in Seq(Units) /\ Sound(sb) /\ Room(sb) = BufferSize /\ sb.data = <<>>
          BY <1>7, <2>9, RepliesAreUnits, EmptySound DEF EmptyBuffer
        <4>2. Len(z) <= Room(sb)
          BY <2>9, <4>1
        <4>3. Fitting(sb, z) = z
          BY <4>1, <4>2, FittingAll
        <4>4. Sound(Put(sb, z)) /\ Put(sb, z).data = sb.data \o z
          BY <4>1, <4>2, PutSound
        <4>5. <<>> \o z = z
          BY <4>1, ConcatEmptySeq
        <4> QED BY <3>1, <4>1, <4>3, <4>4, <4>5
      <3>5. fault' \in Faults /\ pipelining' \in BOOLEAN /\ (fault' = "none" => pipelining' = offers)
        <4>1. CASE st = "done" /\ Kind(request) = "capa"
          <5>1. Ended(q, request)
            BY <3>3, <4>1 DEF At
          <5>2. CapaResult(replies[q]) /\ Kind(request) = "capa" /\ offers \in BOOLEAN
            BY <1>5, <3>1, <4>1 DEF Scalars
          <5> QED BY <1>5, <5>1, <5>2, CapaSays
        <4>2. CASE ~(st = "done" /\ Kind(request) = "capa")
          BY <1>5, <3>1, <4>2 DEF Scalars
        <4> QED BY <4>1, <4>2
      <3>6. Scalars'
        BY <1>2, <1>5, <2>9, <2>11, <3>1, <3>2, <3>4, <3>5 DEF Scalars, LiveStates
      <3>7. OfOrigin(delivered' \o sb'.data) = OfOrigin(SubSeq(replies, 1, q))
        <4>1. PICK d, e, a : d = delivered /\ e = <<>> /\ a = SubSeq(replies, 1, p)
          OBVIOUS
        <4>2. d \in Seq(Units) /\ e \in Seq(Units) /\ a \in Seq(Units) /\ z \in Seq(Units)
          BY <1>5, <2>9, <4>1, RepliesAreUnits, EmptySeq
        <4>3. d \o e = d /\ OfOrigin(d \o e) = OfOrigin(a)
          <5>1. d \o <<>> = d
            BY <4>2, ConcatEmptySeq
          <5>2. sb.data = <<>>
            BY <1>7 DEF EmptyBuffer
          <5> QED BY <1>5, <1>9, <4>1, <5>1, <5>2
        <4>4. OfOrigin((d \o e) \o z) = OfOrigin(a \o z)
          <5>1. OfOrigin(d \o e) = OfOrigin(a)
            BY <4>3
          <5> QED BY <4>2, <5>1, OriginPasses
        <4>5. OfOrigin(d \o z) = OfOrigin(a \o z)
          BY <4>3, <4>4
        <4> QED BY <2>9, <3>1, <3>4, <4>1, <4>5
      <3>8. Writes' /\ stage' \in Stages'
        BY <2>9, <2>11, <3>1, <3>2 DEF Writes, Stages, Welcoming
      <3>9. (Writes => sb.data # <<>> /\ (stage = "done" => Final(sb.data[Len(sb.data)])))'
        <4>1. sb'.data # <<>> /\ Len(sb'.data) = k
          BY <2>9, <3>4
        <4>2. st = "done" => Final(replies[q])'
          BY <1>2, <3>3 DEF At, Ended, Final, MultiLine, Kind
        <4>3. PICK u : u = replies[q]
          OBVIOUS
        <4>4. sb'.data[k] = u
          BY <2>9, <3>4, <4>3
        <4>5. st = "done" => Final(u)'
          BY <1>2, <4>2, <4>3
        <4> QED BY <3>1, <4>1, <4>4, <4>5
      <3>10. /\ q \in 0..fetched' /\ fetched' - Len(wb'.data) = q /\ wb'.data = SubSeq(replies, q + 1, fetched')
             /\ fetched' \in 0..Len(replies)
        BY <2>9, <3>1
      <3>11. \A i \in 1..Len(sb'.data) : sb'.data[i].id = request
        BY <2>9, <3>3, <3>4
      <3>12. At(q, stage)'
        BY <3>1, <3>3
      <3>13. PICK x : x = <<>>
        OBVIOUS
      <3>14. x \in Seq(ReplyUnits) /\ delivered' = delivered \o x
        BY <1>5, <3>1, <3>13, EmptySeq, ConcatEmptySeq
      <3> QED BY <1>1, <1>10, <3>2, <3>5, <3>6, <3>7, <3>8, <3>9, <3>10, <3>11, <3>12, <3>14, ResponseKept
    <2> QED BY <2>10, <2>11
  <1> QED BY <1>11, <1>12

-----------------------------------------------------------------------------
(* Replies are written.                                                    *)

LEMMA DequeueIs ==
  ASSUME NEW s \in Seq(1..MaxCommands), s # <<>>, NEW c \in 0..MaxCommands, NEW q, q = [nodes |-> s, current |-> c]
  PROVE  /\ Dequeue(q) = [nodes |-> Dequeue(q).nodes, current |-> Dequeue(q).current]
         /\ Dequeue(q).current \in 0..MaxCommands
         /\ (Dequeue(q).nodes = <<>> => Dequeue(q).current = Null)
  <1>1. PICK t, x : t = Tail(s) /\ x = IF Len(s) = 1 THEN Null ELSE c
    OBVIOUS
  <1>2. Dequeue(q) = [nodes |-> t, current |-> x]
    BY <1>1 DEF Dequeue
  <1>3. t = <<>> => Len(s) = 1
    <2>1. Len(s) # 0 /\ Len(s) \in Nat
      BY EmptySeq, LenProperties
    <2>2. Len(t) = Len(s) - 1
      BY <1>1, <2>1
    <2> QED BY <2>1, <2>2, EmptySeq
  <1>4. 0 \in 0..MaxCommands
    BY SessionAssumption
  <1> QED BY <1>1, <1>2, <1>3, <1>4 DEF Null

LEMMA AnsweredNow ==
  ASSUME sent' = sent, NEW S, delivered \in Seq(S), NEW y \in Seq(S), y # <<>>, delivered' = delivered \o y,
         NEW r, y[Len(y)].id = r, Final(y[Len(y)])
  PROVE  AnsweredTo(r)'
  <1>1. PICK a, m, u : a = Len(delivered) /\ m = Len(y) /\ u = y[Len(y)]
    OBVIOUS
  <1>2. a \in Nat /\ m \in Nat \ {0} /\ Len(delivered') = a + m
    <2>1. Len(y) # 0
      BY EmptySeq
    <2> QED BY <1>1, <2>1, LenProperties, ConcatProperties
  <1>3. a + m \in 1..(a + m) /\ ~(a + m <= a) /\ (a + m) - a = m
    BY <1>2
  <1>4. delivered'[a + m] = u
    BY <1>1, <1>3, ConcatProperties
  <1>5. Final(u)' /\ u.id = r
    BY <1>1 DEF Final, MultiLine, Kind
  <1>6. a + m \in 1..Len(delivered')
    BY <1>2, <1>3
  <1> QED BY <1>4, <1>5, <1>6 DEF AnsweredTo

\* What is known when the client has been written all of a reply.
LEMMA ReplyIsWritten ==
  ASSUME ClientInv, RelayInv, Alive, state = "RESPONSE", armed[1] = "WRITE", stage = "done", Later,
         sent' = sent, NEW y, y = sb.data, delivered' = delivered \o y
  PROVE  /\ At(Pos, "done") /\ delivered' \in Seq(ReplyUnits)
         /\ OfOrigin(delivered') = OfOrigin(SubSeq(replies, 1, Pos))
         /\ IsPrefix(OfOrigin(delivered'), OfOrigin(replies))
         /\ \A i \in 2..Turn : \E r \in 0..Len(sent) : r = Chain[i] /\ AnsweredTo(r)'
  <1>1. /\ Turn > 1 /\ Turn \in 1..Len(Chain) /\ Len(Chain) \in Nat
        /\ Pos \in 0..fetched /\ fetched \in 0..Len(replies)
        /\ replies \in Seq(ReplyUnits)
        /\ At(Pos, stage) /\ delivered \in Seq(ReplyUnits)
        /\ y \in Seq(ReplyUnits)
        /\ \A i \in 1..Len(y) : y[i].id = request
        /\ OfOrigin(delivered \o y) = OfOrigin(SubSeq(replies, 1, Pos))
        /\ \A i \in 2..(Turn - 1) : AnsweredTo(Chain[i])
    BY ResponseIs
  <1>2. y # <<>> /\ Final(y[Len(y)])
    BY DEF RelayInv, Delivering, Writes
  <1>3. delivered' \in Seq(ReplyUnits) /\ OfOrigin(delivered') = OfOrigin(SubSeq(replies, 1, Pos))
    BY <1>1, ConcatProperties
  <1>4. IsPrefix(OfOrigin(delivered'), OfOrigin(replies))
    <2>1. PICK d, p : d = delivered' /\ p = Pos
      OBVIOUS
    <2>2. p \in 0..Len(replies)
      BY <1>1, <2>1, LenProperties
    <2>3. d \in Seq(ReplyUnits) /\ OfOrigin(d) = OfOrigin(SubSeq(replies, 1, p))
      BY <1>3, <2>1
    <2>4. IsPrefix(OfOrigin(d), OfOrigin(replies))
      BY <1>1, <2>2, <2>3, PrefixRead
    <2> QED BY <2>1, <2>4
  <1>5. ASSUME NEW i \in 2..Turn PROVE \E r \in 0..Len(sent) : r = Chain[i] /\ AnsweredTo(r)'
    <2>1. i \in 1..Len(Chain)
      BY <1>1
    <2>2. PICK r \in 0..Len(sent) : r = Chain[i]
      BY <2>1, ChainRises
    <2>3. CASE i = Turn
      <3>1. Len(y) \in 1..Len(y)
        <4>1. Len(y) # 0 /\ Len(y) \in Nat
          BY <1>1, <1>2, EmptySeq, LenProperties
        <4> QED BY <4>1
      <3>2. y[Len(y)].id = r
        <4>1. Chain[Turn] = request
          BY DEF ClientInv, QueueIsRest
        <4> QED BY <1>1, <2>2, <2>3, <3>1, <4>1
      <3>3. AnsweredTo(r)'
        BY <1>1, <1>2, <3>2, AnsweredNow
      <3> QED BY <2>2, <3>3
    <2>4. CASE i # Turn
      <3>1. i \in 2..(Turn - 1)
        BY <1>1, <2>4
      <3>2. AnsweredTo(r)
        BY <1>1, <2>2, <3>1
      <3>3. AnsweredTo(r)'
        BY <1>1, <3>2, AnsweredKept
      <3> QED BY <2>2, <3>3
    <2> QED BY <2>3, <2>4
  <1>6. At(Pos, "done")
    BY <1>1
  <1>7. \A i \in 2..Turn : \E r \in 0..Len(sent) : r = Chain[i] /\ AnsweredTo(r)'
    BY <1>5
  <1> QED BY <1>3, <1>4, <1>6, <1>7

\* All of the reply has been written, and the next one is awaited.
LEMMA NextAwaited ==
  ASSUME ClientInv, ClientInv', RelayInv, Alive, state = "RESPONSE", armed[1] = "WRITE", stage = "done",
         UNCHANGED <<rb, wb, greeting, pend, pipelining, sent, written, received, clientEnd,
                     forwarded, taken, replies, fetched, offers, originEnd>>,
         delivered' = delivered \o sb.data, sb' = EmptyBuffer, pipelining, ~IsEmpty(queue), NextResponse(queue),
         state' = "RESPONSE", armed' = <<"NOOP", "READ">>
  PROVE  RelayInv'
  <1>1. UNCHANGED reading /\ Later /\ Chain' = Chain
    <2>1. UNCHANGED reading
      BY DEF reading
    <2> QED BY <2>1, LaterReading
  <1>2. /\ Scalars /\ Replied /\ Turn > 1 /\ Turn \in 1..Len(Chain) /\ Len(Chain) \in Nat
        /\ pend = Null /\ pipelining = offers
        /\ forwarded = UpTo(IF pipelining THEN Len(Chain) ELSE Turn)
        /\ Pos = fetched - Len(wb.data) /\ Pos \in 0..fetched /\ fetched \in 0..Len(replies)
        /\ replies \in Seq(ReplyUnits) /\ wb.data = SubSeq(replies, Pos + 1, fetched)
    BY ResponseIs
  <1>3. PICK y : y = sb.data
    OBVIOUS
  <1>4. /\ At(Pos, "done") /\ delivered' \in Seq(ReplyUnits)
        /\ OfOrigin(delivered') = OfOrigin(SubSeq(replies, 1, Pos))
        /\ IsPrefix(OfOrigin(delivered'), OfOrigin(replies))
        /\ \A i \in 2..Turn : \E r \in 0..Len(sent) : r = Chain[i] /\ AnsweredTo(r)'
    <2>1. delivered' = delivered \o y /\ sent' = sent
      BY <1>3
    <2> QED BY <1>1, <1>3, <2>1, ReplyIsWritten
  <1>5. Turn' = Turn + 1 /\ queue' = Dequeue(queue) /\ stage' = "status" /\ fault' = fault
    <2>1. QueueIsRest /\ AcceptedInOrder /\ queue.nodes # <<>>
      BY DEF ClientInv, IsEmpty
    <2>2. PICK q : q = queue
      OBVIOUS
    <2>3. q.nodes = queue.nodes /\ NextResponse(q)
      BY <2>2
    <2>4. /\ Turn' = Turn + 1 /\ queue' = Dequeue(q) /\ stage' = "status" /\ fault' = fault
      BY <1>1, <2>1, <2>3, QueueMoves
    <2> QED BY <2>2, <2>4
  <1>6. Scalars'
    <2>1. PICK q, s, c : q = queue /\ s = queue.nodes /\ c = queue.current
      OBVIOUS
    <2>2. q = [nodes |-> s, current |-> c] /\ s \in Seq(1..MaxCommands) /\ s # <<>> /\ c \in 0..MaxCommands
      BY <1>2, <2>1 DEF Scalars, ClientInv, QueueIsRest, IsEmpty
    <2>3. /\ Dequeue(q) = [nodes |-> Dequeue(q).nodes, current |-> Dequeue(q).current]
          /\ Dequeue(q).current \in 0..MaxCommands
          /\ (Dequeue(q).nodes = <<>> => Dequeue(q).current = Null)
      BY <2>2, DequeueIs
    <2>4. queue' = Dequeue(q)
      BY <1>5, <2>1
    <2>5. sb'.data \in Seq(ReplyUnits) /\ Sound(sb')
      BY EmptySound, EmptySeq DEF EmptyBuffer
    <2> QED BY <1>2, <1>4, <1>5, <2>3, <2>4, <2>5 DEF Scalars, LiveStates
  <1>7. PICK p : p = Pos
    OBVIOUS
  <1>8. Sending'
    <2>1. PICK m \in 0..Len(Chain) : m = Len(Chain)
      BY <1>2
    <2>2. UpTo(m)' = UpTo(m) /\ forwarded = UpTo(m)
      BY <1>1, <1>2, <2>1, UpToStays
    <2>3. SentCount' = m
      BY <1>1, <2>1 DEF SentCount, Welcoming
    <2> QED BY <1>2, <2>2, <2>3 DEF Sending
  <1>9. Pos' = p
    BY <1>2, <1>7 DEF Pos
  <1>10. Fetching'
    <2>1. At(Pos, stage)'
      <3>1. At(p, "status")'
        BY <1>1, <1>4, <1>5, <1>7, AtMoves
      <3> QED BY <1>5, <1>9, <3>1
    <2>2. stage' \in Stages'
      BY <1>5 DEF Stages, Welcoming
    <2>3. Turn' > 1
      BY <1>2, <1>5
    <2>4. pipelining' = (offers' /\ state' \in {"REQUEST", "RESPONSE"})
      BY <1>2 DEF Scalars
    <2>5. Pos' \in 0..fetched' /\ wb'.data = SubSeq(replies', Pos' + 1, fetched')
      BY <1>2, <1>7, <1>9
    <2> QED BY <2>1, <2>2, <2>3, <2>4, <2>5 DEF Fetching
  <1>11. Delivering'
    <2>1. ASSUME NEW i \in 2..Turn', i < Turn' PROVE AnsweredTo(Chain[i])'
      <3>1. i \in 2..Turn
        BY <1>2, <1>5, <2>1
      <3>2. PICK r \in 0..Len(sent) : r = Chain[i] /\ AnsweredTo(r)'
        BY <1>4, <3>1
      <3> QED BY <1>1, <3>2
    <2>2. ~Writes'
      BY DEF Writes
    <2>3. OfOrigin(delivered' \o sb'.data) = OfOrigin(SubSeq(replies', 1, Pos'))
      <3>1. delivered' \o <<>> = delivered'
        BY <1>4, ConcatEmptySeq
      <3> QED BY <1>4, <1>7, <1>9, <3>1 DEF EmptyBuffer
    <2> QED BY <2>1, <2>2, <2>3 DEF Delivering
  <1>12. \A i \in 1..Len(sb'.data) : sb'.data[i].id = request'
    BY DEF EmptyBuffer
  <1>13. fetched' \in 0..Len(replies)
    BY <1>2
  <1> QED BY <1>1, <1>4, <1>6, <1>8, <1>10, <1>11, <1>12, <1>13, ProxyStep

\* All of the reply has been written, and no other is awaited.
LEMMA BackToRequest ==
  ASSUME ClientInv, ClientInv', RelayInv, Alive, state = "RESPONSE", armed[1] = "WRITE", stage = "done",
         UNCHANGED <<rb, wb, greeting, pend, pipelining, sent, written, received, clientEnd,
                     forwarded, taken, replies, fetched, offers, originEnd, queue, request, stage, fault>>,
         delivered' = delivered \o sb.data, sb' = EmptyBuffer, pipelining => IsEmpty(queue),
         state' = "REQUEST", armed'[2] = "WRITE" => ~IsEmpty(queue)
  PROVE  RelayInv'
  <1>1. UNCHANGED reading /\ Later /\ Chain' = Chain
    <2>1. UNCHANGED reading
      BY DEF reading
    <2> QED BY <2>1, LaterReading
  <1>2. /\ Scalars /\ Replied /\ Turn > 1 /\ Turn \in 1..Len(Chain) /\ Len(Chain) \in Nat
        /\ pend = Null /\ pipelining = offers
        /\ forwarded = UpTo(IF pipelining THEN Len(Chain) ELSE Turn)
        /\ Pos = fetched - Len(wb.data) /\ Pos \in 0..fetched /\ fetched \in 0..Len(replies)
        /\ replies \in Seq(ReplyUnits) /\ wb.data = SubSeq(replies, Pos + 1, fetched) /\ Sound(wb)
    BY ResponseIs
  <1>3. PICK y : y = sb.data
    OBVIOUS
  <1>4. /\ At(Pos, "done") /\ delivered' \in Seq(ReplyUnits)
        /\ OfOrigin(delivered') = OfOrigin(SubSeq(replies, 1, Pos))
        /\ IsPrefix(OfOrigin(delivered'), OfOrigin(replies))
        /\ \A i \in 2..Turn : \E r \in 0..Len(sent) : r = Chain[i] /\ AnsweredTo(r)'
    <2>1. delivered' = delivered \o y /\ sent' = sent
      BY <1>3
    <2> QED BY <1>1, <1>3, <2>1, ReplyIsWritten
  <1>5. Turn' = Turn
    BY <1>1 DEF Turn
  <1>6. forwarded = UpTo(Turn)
    <2>1. pipelining => Len(queue.nodes) = 0
      BY DEF IsEmpty
    <2>2. pipelining => Len(Chain) = Turn
      <3>1. Turn + Len(queue.nodes) = Len(Chain)
        BY NodesAre
      <3> QED BY <1>2, <2>1, <3>1
    <2>3. CASE pipelining
      BY <1>2, <2>2, <2>3
    <2>4. CASE ~pipelining
      BY <1>2, <2>4
    <2> QED BY <2>3, <2>4
  <1>7. PICK p : p = Pos
    OBVIOUS
  <1>8. p = Len(replies) /\ fetched = p /\ wb = EmptyBuffer
    <2>1. p = Len(replies)
      BY <1>2, <1>4, <1>6, <1>7, NothingMore
    <2>2. Len(replies) \in Nat /\ Len(wb.data) \in Nat
      BY <1>2, LenProperties, RoomIs
    <2>3. fetched = p /\ Len(wb.data) = 0
      BY <1>2, <1>7, <2>1, <2>2
    <2>4. wb.data = <<>>
      <3>1. wb.data \in Seq(Units)
        BY <1>2, RoomIs
      <3> QED BY <2>3, <3>1, EmptySeq
    <2> QED BY <1>2, <2>1, <2>3, <2>4, RoomIs
  <1>9. Scalars'
    <2>1. sb'.data \in Seq(ReplyUnits) /\ Sound(sb')
      BY EmptySound, EmptySeq DEF EmptyBuffer
    <2> QED BY <1>2, <1>4, <2>1 DEF Scalars, LiveStates
  <1>10. Sending'
    <2>1. PICK m \in 0..Len(Chain) : m = Turn
      BY <1>2
    <2>2. UpTo(m)' = UpTo(m) /\ forwarded = UpTo(m)
      BY <1>1, <1>6, <2>1, UpToStays
    <2>3. SentCount' = m
      BY <1>5, <2>1 DEF SentCount, Welcoming
    <2>4. pipelining => queue.current = PeekData(queue)
      BY <1>2 DEF PeekData, IsEmpty, Scalars
    <2>5. armed'[2] = "WRITE" => queue'.nodes # <<>>
      BY DEF IsEmpty
    <2>6. PeekData(queue') = PeekData(queue)
      OBVIOUS
    <2> QED BY <1>2, <1>8, <2>2, <2>3, <2>4, <2>5, <2>6 DEF Sending
  <1>11. Pos' = p /\ p \in 0..fetched
    BY <1>2, <1>7, <1>8 DEF Pos
  <1>12. Fetching'
    <2>1. At(Pos, stage)'
      <3>1. At(p, "done")'
        BY <1>1, <1>4, <1>5, <1>7 DEF At, Ended, Final, MultiLine, Kind
      <3> QED BY <1>11, <3>1
    <2>2. stage' \in Stages'
      BY DEF Stages, Welcoming
    <2>3. pipelining' = (offers' /\ state' \in {"REQUEST", "RESPONSE"})
      BY <1>2 DEF Scalars
    <2> QED BY <1>11, <2>1, <2>2, <2>3 DEF Fetching
  <1>13. Delivering'
    <2>1. ASSUME NEW i \in 2..Turn' PROVE AnsweredTo(Chain[i])'
      <3>1. i \in 2..Turn
        BY <1>5
      <3>2. PICK r \in 0..Len(sent) : r = Chain[i] /\ AnsweredTo(r)'
        BY <1>4, <3>1
      <3> QED BY <1>1, <3>2
    <2>2. ~Writes'
      BY DEF Writes
    <2>3. OfOrigin(delivered' \o sb'.data) = OfOrigin(SubSeq(replies', 1, Pos'))
      <3>1. delivered' \o <<>> = delivered'
        BY <1>4, ConcatEmptySeq
      <3> QED BY <1>4, <1>7, <1>11, <3>1 DEF EmptyBuffer
    <2> QED BY <2>1, <2>2, <2>3 DEF Delivering
  <1>14. fetched' \in 0..Len(replies)
    BY <1>2
  <1> QED BY <1>1, <1>4, <1>9, <1>10, <1>12, <1>13, <1>14, ProxyStep

LEMMA ResponseWrites ==
  ASSUME ClientInv, ClientInv', ArmedFor, RelayInv, ResponseWriteStep
  PROVE  RelayInv'
  <1>1. state = "RESPONSE" /\ fault = "none" /\ Alive /\ armed = <<"WRITE", "NOOP">> /\ armed[1] = "WRITE"
    <2>1. state = "RESPONSE" /\ fault = "none" /\ armed[1] = "WRITE"
      BY DEF ResponseWriteStep, On
    <2> QED BY <2>1 DEF Alive, ArmedFor, Armed
  <1>2. UNCHANGED <<rb, wb, greeting, pend, pipelining, sent, written, received, clientEnd, forwarded,
                    taken, replies, fetched, offers, originEnd>>
    BY DEF ResponseWriteStep, originVars
  <1>3. UNCHANGED reading /\ Later /\ Chain' = Chain
    <2>1. UNCHANGED reading
      BY <1>2 DEF reading
    <2> QED BY <2>1, LaterReading
  <1>4. /\ Scalars /\ Replied /\ pipelining = offers
        /\ Pos = fetched - Len(wb.data) /\ Pos \in 0..fetched /\ fetched \in 0..Len(replies)
        /\ replies \in Seq(ReplyUnits) /\ wb.data = SubSeq(replies, Pos + 1, fetched)
        /\ At(Pos, stage) /\ stage \in Stages /\ delivered \in Seq(ReplyUnits)
        /\ sb.data \in Seq(ReplyUnits) /\ Sound(sb)
        /\ \A i \in 1..Len(sb.data) : sb.data[i].id = request
        /\ OfOrigin(delivered \o sb.data) = OfOrigin(SubSeq(replies, 1, Pos))
        /\ IsPrefix(OfOrigin(delivered), OfOrigin(replies))
    BY <1>1, ResponseIs
  <1>5. stage \in {"body", "done"} /\ sb.data # <<>> /\ (stage = "done" => Final(sb.data[Len(sb.data)]))
    <2>1. stage \in {"body", "done"}
      BY <1>1, <1>4 DEF Stages, Welcoming
    <2> QED BY <1>1, <2>1 DEF RelayInv, Delivering, Writes
  <1>6. PICK n \in ToClientSends(Len(sb.data)) :
       IF n = -1 THEN Leave(1, Fail) /\ UNCHANGED <<sb, delivered, queue, request, stage, parsed, fault>>
       ELSE /\ sb' = Drop(sb, n)
            /\ IF ~CanRead(Drop(sb, n)) /\ stage = "done"
               THEN ProcessResponse(delivered \o SubSeq(sb.data, 1, n))
               ELSE /\ delivered' = delivered \o SubSeq(sb.data, 1, n)
                    /\ Leave(1, IF CanRead(Drop(sb, n)) THEN Stay("RESPONSE")
                                ELSE ToOrigin("RESPONSE", "READ"))
                    /\ UNCHANGED <<queue, request, stage, parsed, fault>>
    BY DEF ResponseWriteStep
  <1>7. UNCHANGED <<taken, replies, offers, forwarded>> /\ fetched' \in 0..Len(replies)
    BY <1>2, <1>4
  <1>8. CASE n = -1
    <2>1. state' = "CLOSED" /\ UNCHANGED <<sb, delivered, queue, request, stage, fault>>
      BY <1>6, <1>8 DEF Leave, Closes, Fail, Outcome
    <2>2. Scalars'
      BY <1>2, <1>4, <2>1 DEF Scalars
    <2>3. ~Alive' /\ IsPrefix(OfOrigin(delivered'), OfOrigin(replies))
      BY <1>4, <2>1 DEF Alive
    <2> QED BY <1>3, <1>7, <2>1, <2>2, <2>3, ProxyStep
  <1>9. CASE n # -1
    <2>1. PICK left, x, y : left = Drop(sb, n) /\ x = SubSeq(sb.data, 1, n) /\ y = sb.data
      OBVIOUS
    <2>2. /\ n \in 0..Len(y) /\ Sound(left) /\ left.data = SubSeq(y, n + 1, Len(y))
          /\ (left.data = <<>> <=> n = Len(y)) /\ y = x \o left.data /\ n > 0
      BY <1>4, <1>5, <1>6, <1>9, <2>1, Writing
    <2>3. /\ x \in Seq(ReplyUnits) /\ left.data \in Seq(ReplyUnits) /\ Len(left.data) = Len(y) - n
          /\ \A i \in 1..(Len(y) - n) : left.data[i] = y[n + i]
          /\ Len(y) \in Nat /\ n \in Nat
      <3>1. y \in Seq(ReplyUnits) /\ Len(y) \in Nat /\ n \in Nat /\ 0 \in Nat /\ Len(y) \in n..Len(y) /\ n \in 0..Len(y) /\ 0 + 1 = 1
        <4>1. y \in Seq(ReplyUnits)
          BY <1>4, <2>1
        <4>2. Len(y) \in Nat
          BY <4>1, LenProperties
        <4>3. n \in 0..Len(y)
          BY <2>2
        <4> HIDE DEF ToClientSends
        <4> QED BY ONLY <4>1, <4>2, <4>3
      <3>2. SubSeq(y, 0 + 1, n) \in Seq(ReplyUnits)
        BY <3>1, Window
      <3>3. /\ SubSeq(y, n + 1, Len(y)) \in Seq(ReplyUnits) /\ Len(SubSeq(y, n + 1, Len(y))) = Len(y) - n
            /\ \A i \in 1..(Len(y) - n) : SubSeq(y, n + 1, Len(y))[i] = y[n + i]
        BY <3>1, Window
      <3> QED BY <2>1, <2>2, <3>1, <3>2, <3>3
    <2>4. /\ sb' = left
          /\ IF ~CanRead(left) /\ stage = "done" THEN ProcessResponse(delivered \o x)
             ELSE /\ delivered' = delivered \o x
                  /\ Leave(1, IF CanRead(left) THEN Stay("RESPONSE") ELSE ToOrigin("RESPONSE", "READ"))
                  /\ UNCHANGED <<queue, request, stage, parsed, fault>>
      BY <1>6, <1>9, <2>1
    <2>5. PICK p : p = Pos
      OBVIOUS
    <2>6. ASSUME ~(~CanRead(left) /\ stage = "done")
          PROVE  RelayInv'
      <3>1. /\ delivered' = delivered \o x /\ sb' = left
            /\ Leave(1, IF CanRead(left) THEN Stay("RESPONSE") ELSE ToOrigin("RESPONSE", "READ"))
            /\ UNCHANGED <<queue, request, stage, fault>>
        BY <2>4, <2>6
      <3>2. state' = "RESPONSE"
            /\ armed' = IF CanRead(left) THEN <<"WRITE", "NOOP">> ELSE <<"NOOP", "READ">>
        <4>1. CASE CanRead(left)
          <5>1. PICK o : o = Stay("RESPONSE")
            OBVIOUS
          <5>2. ~Closes(o.next) /\ o.client = "KEEP" /\ o.origin = "KEEP" /\ o.key = "KEEP" /\ o.next = "RESPONSE"
            BY <5>1 DEF Outcome, Closes, Stay
          <5>3. Leave(1, o)
            BY <3>1, <4>1, <5>1
          <5>4. state' = "RESPONSE" /\ armed' = <<Given(o.client, Given(o.key, "WRITE")), Given(o.origin, "NOOP")>>
            BY <1>1, <5>2, <5>3, LeaveIs
          <5> QED BY <4>1, <5>2, <5>4 DEF Given
        <4>2. CASE ~CanRead(left)
          <5>1. PICK o : o = ToOrigin("RESPONSE", "READ")
            OBVIOUS
          <5>2. ~Closes(o.next) /\ o.client = "KEEP" /\ o.origin = "READ" /\ o.key = "NOOP" /\ o.next = "RESPONSE"
            BY <5>1 DEF Outcome, Closes, ToOrigin
          <5>3. Leave(1, o)
            BY <3>1, <4>2, <5>1
          <5>4. state' = "RESPONSE" /\ armed' = <<Given(o.client, Given(o.key, "WRITE")), Given(o.origin, "NOOP")>>
            BY <1>1, <5>2, <5>3, LeaveIs
          <5> QED BY <4>2, <5>2, <5>4 DEF Given
        <4> QED BY <4>1, <4>2
      <3>3. Scalars'
        <4>1. delivered' \in Seq(ReplyUnits)
          BY <1>4, <2>3, <3>1, ConcatProperties
        <4> QED BY <1>2, <1>4, <2>2, <2>3, <3>1, <3>2, <4>1 DEF Scalars, LiveStates
      <3>4. (Writes <=> left.data # <<>>)' /\ Writes' = (left.data # <<>>)
        BY <3>2 DEF Writes, CanRead
      <3>5. stage' \in Stages'
        <4>1. CASE CanRead(left)
          BY <1>5, <3>1, <3>2, <4>1 DEF Stages, Welcoming
        <4>2. CASE ~CanRead(left)
          BY <1>5, <2>6, <3>1, <3>2, <4>2 DEF Stages, Welcoming
        <4> QED BY <4>1, <4>2
      <3>6. ~Writes' => sb' = EmptyBuffer
        BY <2>2, <3>1, <3>4, RoomIs
      <3>7. (Writes => sb.data # <<>> /\ (stage = "done" => Final(sb.data[Len(sb.data)])))'
        <4> SUFFICES ASSUME left.data # <<>> PROVE (sb.data # <<>> /\ (stage = "done" => Final(sb.data[Len(sb.data)])))'
          BY <3>4
        <4>1. n # Len(y)
          BY <2>2
        <4>2. Len(left.data) \in 1..(Len(y) - n) /\ n + Len(left.data) = Len(y)
          BY <2>2, <2>3, <4>1
        <4>3. left.data[Len(left.data)] = y[Len(y)]
          BY <2>3, <4>2
        <4>4. PICK u : u = y[Len(y)]
          OBVIOUS
        <4>5. stage = "done" => Final(u)
          BY <1>5, <2>1, <4>4
        <4>6. Final(u)' <=> Final(u)
          BY <1>2 DEF Final, MultiLine, Kind
        <4>7. sb'.data[Len(sb'.data)] = u
          BY <3>1, <4>3, <4>4
        <4> QED BY <3>1, <4>5, <4>6, <4>7
      <3>8. OfOrigin(delivered' \o sb'.data) = OfOrigin(SubSeq(replies, 1, p))
        <4>1. (delivered \o x) \o left.data = delivered \o (x \o left.data)
          <5>1. PICK a, b : a = delivered /\ b = left.data
            OBVIOUS
          <5>2. a \in Seq(ReplyUnits) /\ x \in Seq(ReplyUnits) /\ b \in Seq(ReplyUnits)
            BY <1>4, <2>3, <5>1
          <5>3. (a \o x) \o b = a \o (x \o b)
            BY ONLY <5>2, ConcatAssociative, SMTT(30)
          <5> QED BY <5>1, <5>3
        <4> QED BY <1>4, <2>1, <2>2, <2>5, <3>1, <4>1
      <3>9. \A i \in 1..Len(sb'.data) : sb'.data[i].id = request
        <4>1. ASSUME NEW i \in 1..Len(left.data) PROVE left.data[i].id = request
          <5>1. i \in 1..(Len(y) - n) /\ n + i \in 1..Len(y)
            BY <2>2, <2>3
          <5> QED BY <1>4, <2>1, <2>3, <5>1
        <4> QED BY <3>1, <4>1
      <3>10. At(p, stage)'
        <4>1. PICK st : st = stage
          OBVIOUS
        <4>2. Turn' = Turn
          <5>1. queue' = queue /\ Chain' = Chain
            BY <1>3, <3>1
          <5> QED BY ONLY <5>1 DEF Turn
        <4>3. At(p, st)'
          BY <1>2, <1>3, <1>4, <2>5, <3>1, <4>1, <4>2 DEF At, Ended, Final, MultiLine, Kind
        <4> QED BY <3>1, <4>1, <4>3
      <3>11. /\ p \in 0..fetched' /\ fetched' - Len(wb'.data) = p /\ wb'.data = SubSeq(replies, p + 1, fetched')
             /\ fetched' \in 0..Len(replies) /\ pipelining' = offers
        BY <1>2, <1>4, <2>5
      <3>12. UNCHANGED <<reading, queue, request, taken, replies, offers, forwarded, pend>>
        BY <1>2, <1>3, <3>1
      <3> QED BY <1>1, <2>3, <3>1, <3>2, <3>3, <3>5, <3>6, <3>7, <3>8, <3>9, <3>10, <3>11, <3>12, ResponseKept
    <2>7. ASSUME ~CanRead(left), stage = "done"
          PROVE  RelayInv'
      <3>1. x = y /\ sb' = EmptyBuffer /\ ProcessResponse(delivered \o y)
        <4>1. left.data = <<>> /\ left = EmptyBuffer
          BY <2>2, <2>7, RoomIs DEF CanRead
        <4>2. n = Len(y)
          BY <2>2, <4>1
        <4>3. SubSeq(y, 1, Len(y)) = y
          BY <1>4, <2>1, SubSeqFull
        <4>4. x = y
          BY <2>1, <4>2, <4>3
        <4> QED BY <2>4, <2>7, <4>1, <4>4
      <3>2. sb'.data \in Seq(ReplyUnits) /\ Sound(sb')
        BY <3>1, EmptySound, EmptySeq DEF EmptyBuffer
      <3>3. PICK d : d = delivered \o y
        OBVIOUS
      <3>4. d \in Seq(ReplyUnits) /\ IsPrefix(OfOrigin(d), OfOrigin(replies))
        <4>1. d \in Seq(ReplyUnits)
          BY <1>4, <2>1, <3>3, ConcatProperties
        <4>2. p \in 0..Len(replies) /\ OfOrigin(d) = OfOrigin(SubSeq(replies, 1, p))
          <5>1. Len(replies) \in Nat
            BY <1>4, LenProperties
          <5> QED BY <1>4, <2>1, <2>5, <3>3, <5>1
        <4> QED BY <1>4, <4>1, <4>2, PrefixRead
      <3>5. CASE Kind(request) = "user"
        <4>1. state' = "CLOSED" /\ delivered' = d \o Notice(request) /\ fault' \in Faults
              /\ UNCHANGED <<queue, request, stage>>
          BY <3>1, <3>3, <3>5 DEF ProcessResponse, Leave, Closes, FailMute, Outcome, Broken, Faults
        <4>2. request \in Ids
          BY RequestIs
        <4>3. delivered' \in Seq(ReplyUnits) /\ OfOrigin(delivered') = OfOrigin(d)
          BY <3>4, <4>1, <4>2, NoticeAdded
        <4>4. Scalars'
          BY <1>2, <1>4, <3>2, <4>1, <4>3 DEF Scalars
        <4>5. ~Alive' /\ IsPrefix(OfOrigin(delivered'), OfOrigin(replies))
          BY <3>4, <4>1, <4>3 DEF Alive
        <4> QED BY <1>3, <1>7, <4>1, <4>4, <4>5, ProxyStep
      <3>6. CASE Kind(request) = "quit"
        <4>1. state' = "CLOSED" /\ delivered' = d /\ UNCHANGED <<queue, request, stage, fault>>
          BY <3>1, <3>3, <3>6 DEF ProcessResponse, Leave, Closes, Outcome
        <4>2. Scalars'
          BY <1>2, <1>4, <3>2, <3>4, <4>1 DEF Scalars
        <4>3. ~Alive' /\ IsPrefix(OfOrigin(delivered'), OfOrigin(replies))
          BY <3>4, <4>1 DEF Alive
        <4> QED BY <1>3, <1>7, <4>1, <4>2, <4>3, ProxyStep
      <3>7. CASE Kind(request) \notin {"user", "quit"} /\ MoreToAwait
        <4>1. NextResponse(queue) /\ Leave(1, ToOrigin("RESPONSE", "READ")) /\ delivered' = d
          BY <3>1, <3>3, <3>7 DEF ProcessResponse
        <4>2. state' = "RESPONSE" /\ armed' = <<"NOOP", "READ">>
          <5>1. PICK o : o = ToOrigin("RESPONSE", "READ")
            OBVIOUS
          <5>2. ~Closes(o.next) /\ o.client = "KEEP" /\ o.origin = "READ" /\ o.key = "NOOP" /\ o.next = "RESPONSE"
            BY <5>1 DEF Outcome, Closes, ToOrigin
          <5>3. state' = "RESPONSE" /\ armed' = <<Given(o.client, Given(o.key, "WRITE")), Given(o.origin, "NOOP")>>
            BY <1>1, <4>1, <5>1, <5>2, LeaveIs
          <5> QED BY <5>2, <5>3 DEF Given
        <4>3. pipelining /\ ~IsEmpty(queue)
          BY <3>7 DEF MoreToAwait
        <4>4. delivered' = delivered \o sb.data
          BY <2>1, <3>3, <4>1
        <4> QED BY <1>1, <1>2, <2>7, <3>1, <4>1, <4>2, <4>3, <4>4, NextAwaited
      <3>8. CASE Kind(request) \notin {"user", "quit"} /\ ~MoreToAwait
        <4>1. /\ Leave(1, IF IsEmpty(queue) THEN Outcome("REQUEST", "READ", "KEEP", "NOOP")
                           ELSE ToOrigin("REQUEST", "WRITE"))
              /\ UNCHANGED <<queue, request, stage, fault>> /\ delivered' = d
          BY <3>1, <3>3, <3>8 DEF ProcessResponse
        <4>2. state' = "REQUEST" /\ (armed'[2] = "WRITE" => ~IsEmpty(queue))
          <5>1. CASE IsEmpty(queue)
            <6>1. PICK o : o = Outcome("REQUEST", "READ", "KEEP", "NOOP")
              OBVIOUS
            <6>2. ~Closes(o.next) /\ o.client = "KEEP" /\ o.origin = "NOOP" /\ o.key = "READ" /\ o.next = "REQUEST"
              BY <6>1 DEF Outcome, Closes
            <6>3. Leave(1, o)
              BY <4>1, <5>1, <6>1
            <6>4. state' = "REQUEST" /\ armed' = <<Given(o.client, Given(o.key, "WRITE")), Given(o.origin, "NOOP")>>
              BY <1>1, <6>2, <6>3, LeaveIs
            <6> QED BY <6>2, <6>4 DEF Given
          <5>2. CASE ~IsEmpty(queue)
            BY <4>1, <5>2 DEF Leave, Closes, ToOrigin, Outcome
          <5> QED BY <5>1, <5>2
        <4>3. pipelining => IsEmpty(queue)
          BY <3>8 DEF MoreToAwait
        <4>4. delivered' = delivered \o sb.data
          BY <2>1, <3>3, <4>1
        <4> QED BY <1>1, <1>2, <2>7, <3>1, <4>1, <4>2, <4>3, <4>4, BackToRequest
      <3> QED BY <3>5, <3>6, <3>7, <3>8
    <2> QED BY <2>6, <2>7
  <1> QED BY <1>8, <1>9

-----------------------------------------------------------------------------
(* The relay's invariant.                                                  *)

LEMMA RelayInit == Init => RelayInv
  <1> SUFFICES ASSUME Init PROVE RelayInv
    OBVIOUS
  <1>0. ClientInv
    BY ClientInit
  <1>1. PICK n \in BannerSizes : replies = [k \in 1..n |-> ReplyUnit(Banner, "greeting", "none")]
    BY DEF Init
  <1>2. n \in Nat \ {0}
    BY SessionAssumption
  <1>3. PICK u : u = ReplyUnit(Banner, "greeting", "none")
    OBVIOUS
  <1>4. u \in ReplyUnits /\ u.part = "greeting"
    BY <1>3 DEF ReplyUnit, ReplyUnits, Ids
  <1>5. replies = [k \in 1..n |-> u] /\ n \in Nat
    BY <1>1, <1>2, <1>3
  <1>6. replies \in Seq(ReplyUnits) /\ Len(replies) = n /\ \A i \in 1..n : replies[i] = u
    <2>1. PICK S : S = ReplyUnits
      OBVIOUS
    <2>2. [k \in 1..n |-> u] \in Seq(S) /\ Len([k \in 1..n |-> u]) = n /\ \A i \in 1..n : [k \in 1..n |-> u][i] = u
      <3>1. n \in Nat /\ u \in S
        BY <1>2, <1>4, <2>1
      <3> QED BY ONLY <3>1
    <2> QED BY <1>5, <2>1, <2>2
  <1>7. \A i \in 1..Len(replies) : replies[i].part = "greeting"
    BY <1>4, <1>6
  <1>8. /\ state = "CONNECTING" /\ armed = <<"NOOP", "WRITE">> /\ wb = EmptyBuffer /\ sb = EmptyBuffer
        /\ greeting = FALSE /\ queue = NewQueue /\ pend = Null /\ request = Capa /\ stage = "status"
        /\ pipelining = FALSE /\ fault = "none" /\ delivered = <<>> /\ forwarded = <<>> /\ taken = 0
        /\ fetched = 0 /\ offers \in BOOLEAN /\ clientEnd = "open" /\ originEnd = "open"
        /\ wb.data = <<>> /\ sb.data = <<>>
    BY DEF Init, EmptyBuffer
  <1>9. Len(Chain) \in Nat \ {0} /\ Turn = 1 /\ Chain[1] = Capa
    <2>1. sent = <<>> /\ Len(sent) = 0 /\ Accepted \in Seq(1..Len(sent))
      BY <1>0, EmptySeq DEF Init, ClientInv, AcceptedInOrder
    <2>2. Len(Accepted) = 0
      <3>1. ASSUME Len(Accepted) # 0 PROVE FALSE
        <4>1. 1 \in 1..Len(Accepted)
          BY <2>1, <3>1, LenProperties
        <4>2. Accepted[1] \in 1..0
          BY <2>1, <4>1, ElementOfSeq
        <4> QED BY <4>2
      <3> QED BY <3>1
    <2>3. Len(Chain) = 1 /\ Chain[1] = Capa
      BY <1>0, <2>2, ChainIs DEF ClientInv
    <2>4. queue.nodes = <<>> /\ Len(<<>>) = 0
      BY <1>8, EmptySeq DEF NewQueue
    <2> QED BY <2>3, <2>4 DEF Turn
  <1>10. Scalars
    <2>1. queue = [nodes |-> <<>>, current |-> 0] /\ MaxCommands \in Nat
      BY <1>8, SessionAssumption DEF NewQueue, Null
    <2>2. /\ queue = [nodes |-> queue.nodes, current |-> queue.current] /\ queue.current = Null
          /\ queue.current \in 0..MaxCommands /\ pend \in 0..MaxCommands
      BY <2>1, <1>8 DEF Null
    <2>3. Sound(wb) /\ Sound(sb)
      BY <1>8, EmptySound
    <2>4. sb.data \in Seq(ReplyUnits) /\ delivered \in Seq(ReplyUnits)
      BY <1>8, EmptySeq
    <2>5. /\ state \in LiveStates \cup {"CLOSED"} /\ fault \in Faults /\ greeting \in BOOLEAN /\ pipelining \in BOOLEAN
          /\ stage \in {"status", "body", "done"} /\ clientEnd \in Ends /\ originEnd \in Ends
      BY <1>8 DEF LiveStates, Faults, Ends
    <2> QED BY <1>8, <2>2, <2>3, <2>4, <2>5 DEF Scalars
  <1>11. forwarded = UpTo(0) /\ 0 \in 0..Len(Chain) /\ Len(UpTo(0)) = 0
    <2>1. UpTo(0) = <<>>
      BY <1>0, UpToGrows
    <2> QED BY <1>8, <1>9, <2>1, EmptySeq
  <1>12. OfOrigin(delivered) = <<>> /\ SubSeq(replies, 1, 0) = <<>> /\ OfOrigin(<<>>) = <<>>
    <2>1. PICK e : e = delivered
      OBVIOUS
    <2>2. e = <<>>
      BY <1>8, <2>1
    <2>3. e \in Seq(Units) /\ Len(e) = 0
      BY <2>2, EmptySeq
    <2>4. \A i \in 1..Len(e) : e[i].part = "notice" \/ e[i].part = "line" \/ e[i].id = Capa
      BY <2>3
    <2>5. OfOrigin(e) = <<>>
      BY <2>3, <2>4, NothingOfOrigin
    <2>6. SubSeq(replies, 1, 0) = <<>>
      BY SubSeqEmpty
    <2> QED BY <2>1, <2>2, <2>5, <2>6
  <1>13. IsPrefix(OfOrigin(delivered), OfOrigin(replies))
    <2>1. delivered \in Seq(ReplyUnits) /\ 0 \in 0..Len(replies)
      BY <1>6, <1>8, EmptySeq
    <2>2. OfOrigin(delivered) = OfOrigin(SubSeq(replies, 1, 0))
      BY <1>12
    <2> QED BY <1>6, <2>1, <2>2, PrefixRead
  <1>14. Ground
    <2>1. fetched \in 0..Len(replies) /\ state \notin {"CAPA", "RESPONSE"}
      BY <1>2, <1>6, <1>8
    <2> QED BY <1>10, <1>11, <1>13, <2>1 DEF Ground
  <1>15. Replied
    <2>1. replies # <<>> /\ 1 \in 1..n /\ n \in 1..n
      BY <1>2, <1>6, EmptySeq
    <2>2. Served(0)
      <3>1. Len(forwarded) = 0
        BY <1>8, EmptySeq
      <3>2. replies[Len(replies)].part = "greeting"
        BY <1>6, <1>7, <2>1
      <3>3. 0 <= 0 /\ taken = Len(UpTo(0)) /\ taken <= Len(forwarded)
        BY <1>8, <1>11, <3>1
      <3>4. \A i \in 1..Len(replies) : replies[i].part = "greeting"
        BY <1>7
      <3> QED BY ONLY <3>2, <3>3, <3>4 DEF Served
    <2>3. ASSUME NEW i \in 1..(Len(replies) - 1) PROVE NextReply(replies[i], replies[i + 1])
      <3>1. i \in 1..Len(replies) /\ i + 1 \in 1..Len(replies)
        BY <1>2, <1>6
      <3> QED BY <3>1, <1>7 DEF NextReply
    <2>4. \A i \in 1..Len(replies) : replies[i].part # "end"
      BY <1>7
    <2>5. 0 \in 0..Len(Chain) /\ replies[1].part = "greeting"
      BY <1>6, <1>7, <1>11, <2>1
    <2> QED BY <1>6, <2>1, <2>2, <2>3, <2>4, <2>5 DEF Replied
  <1>16. Sending
    BY <1>8, <1>11 DEF Sending, SentCount, Welcoming
  <1>17. Len(wb.data) = 0 /\ Pos = 0
    <2>1. Len(wb.data) = 0
      BY <1>8, EmptySeq
    <2>2. fetched = 0 /\ state = "CONNECTING"
      BY <1>8
    <2>3. Pos = fetched - Len(wb.data)
      BY <2>2 DEF Pos
    <2> QED BY <2>1, <2>2, <2>3
  <1>18. Fetching
    <2>1. At(Pos, stage)
      BY <1>8, <1>9, <1>17 DEF At
    <2>2. wb.data = SubSeq(replies, Pos + 1, fetched)
      <3>1. SubSeq(replies, 0 + 1, 0) = <<>>
        BY <1>12
      <3> QED BY <1>8, <1>17, <3>1
    <2>3. stage \in Stages
      BY <1>8 DEF Stages, Welcoming
    <2>4. Pos \in 0..fetched
      BY <1>8, <1>17
    <2> QED BY <1>8, <2>1, <2>2, <2>3, <2>4 DEF Fetching
  <1>19. Delivering
    <2>1. delivered \o sb.data = delivered
      <3>1. <<>> \o <<>> = <<>>
        BY EmptySeq, ConcatEmptySeq
      <3> QED BY <1>8, <3>1
    <2>2. ~Writes
      BY <1>8 DEF Writes
    <2>3. OfOrigin(delivered \o sb.data) = OfOrigin(SubSeq(replies, 1, Pos))
      BY <1>12, <1>17, <2>1
    <2>4. \A i \in 2..Turn : FALSE
      BY <1>9
    <2> QED BY <1>8, <2>2, <2>3, <2>4 DEF Delivering
  <1> QED BY <1>14, <1>15, <1>16, <1>18, <1>19 DEF RelayInv

\* What has been cut off stays so.
LEMMA CutStays == [Next]_vars /\ cut => cut'
  <1> USE DEF vars, proxyVars, clientVars, originVars
  <1>1. CASE Refused \/ Connected \/ WelcomeReadStep \/ WelcomeWriteStep \/ CapaReadStep
    BY <1>1 DEF Refused, Connected, WelcomeReadStep, WelcomeWriteStep, CapaReadStep
  <1>2. CASE RequestReadStep \/ ResponseReadStep \/ ResponseWriteStep
    BY <1>2 DEF RequestReadStep, ResponseReadStep, ResponseWriteStep
  <1>3. CASE RequestWriteStep
    BY <1>3 DEF RequestWriteStep
  <1>4. CASE ClientSend \/ ClientEnds \/ OriginEnds \/ OriginServe \/ UNCHANGED vars
    BY <1>4 DEF ClientSend, ClientEnds, OriginEnds, OriginServe
  <1> QED BY <1>1, <1>2, <1>3, <1>4 DEF Next, Proxy

LEMMA RelayStep == (~cut => RelayInv) /\ ClientInv /\ ClientInv' /\ ArmedFor /\ [Next]_vars => (~cut' => RelayInv')
  <1> SUFFICES ASSUME ~cut => RelayInv, ClientInv, ClientInv', ArmedFor, [Next]_vars, ~cut' PROVE RelayInv'
    OBVIOUS
  <1>0. RelayInv
    BY CutStays
  <1>1. CASE Refused \/ Connected
    BY <1>0, <1>1, ConnectStep
  <1>2. CASE WelcomeReadStep
    BY <1>0, <1>2, WelcomeReads
  <1>3. CASE WelcomeWriteStep
    BY <1>0, <1>3, WelcomeWrites
  <1>4. CASE CapaReadStep
    BY <1>0, <1>4, CapaReads
  <1>5. CASE RequestReadStep
    BY <1>0, <1>5, RequestReads
  <1>6. CASE RequestWriteStep
    BY <1>0, <1>6, RequestWrites
  <1>7. CASE ResponseReadStep
    BY <1>0, <1>7, ResponseReads
  <1>8. CASE ResponseWriteStep
    BY <1>0, <1>8, ResponseWrites
  <1>9. CASE ClientSend \/ ClientEnds \/ OriginEnds \/ UNCHANGED vars
    BY <1>0, <1>9, PeerStep
  <1>10. CASE OriginServe
    BY <1>0, <1>10, ServeStep
  <1> QED BY <1>1, <1>2, <1>3, <1>4, <1>5, <1>6, <1>7, <1>8, <1>9, <1>10 DEF Next, Proxy

LEMMA AlwaysRelayInv == Spec => [](ClientInv /\ (~cut => RelayInv))
  <1>1. Init => (~cut => RelayInv)
    BY RelayInit
  <1>2. (~cut => RelayInv) /\ ClientInv /\ ClientInv' /\ ArmedFor /\ [Next]_vars => (~cut' => RelayInv')
    BY RelayStep
  <1>3. Spec => []ClientInv
    BY AlwaysClientInv
  <1>4. Spec => []ArmedFor
    BY RelayArms
  <1> QED BY <1>1, <1>2, <1>3, <1>4, PTL DEF Spec

-----------------------------------------------------------------------------
(* What it says of the relay.                                              *)

LEMMA BufferIs ==
  ASSUME NEW b, Sound(b)
  PROVE  b \in Buffers(LineUnits \cup ReplyUnits) /\ b.off \in 0..(BufferSize - 1) /\ InBounds(b)
  <1>1. b \in Buffers(LineUnits \cup ReplyUnits) /\ b.off \in Nat /\ b.data \in Seq(LineUnits \cup ReplyUnits)
        /\ b.off + Len(b.data) <= BufferSize /\ BufferSize \in Nat \ {0} /\ (b.data = <<>> => b.off = 0)
    BY BufferSizeAssumption DEF Sound, Buffers, InBounds
  <1>2. Len(b.data) \in Nat /\ (b.data # <<>> => Len(b.data) > 0)
    BY <1>1, LenProperties, EmptySeq
  <1>3. b.off \in 0..(BufferSize - 1)
    <2>1. CASE b.data = <<>>
      BY <2>1, <1>1
    <2>2. CASE b.data # <<>>
      BY <2>2, <1>1, <1>2
    <2> QED BY <2>1, <2>2
  <1> QED BY <1>1, <1>3 DEF InBounds

LEMMA RelayPassesReplies == ClientInv /\ RelayInv => RepliesInOrder
  <1> SUFFICES ASSUME ClientInv, RelayInv PROVE RepliesInOrder
    OBVIOUS
  <1>1. /\ Scalars /\ replies \in Seq(ReplyUnits) /\ fetched \in 0..Len(replies)
        /\ IsPrefix(OfOrigin(delivered), OfOrigin(replies))
    BY DEF RelayInv, Ground, Replied
  <1>2. ASSUME Alive
        PROVE  OfOrigin(delivered \o sb.data \o wb.data) = OfOrigin(SubSeq(replies, 1, fetched))
    <2>1. Sending /\ Fetching /\ Delivering
      BY <1>2 DEF RelayInv
    <2>2. PICK d, x, w, p, f, R : d = delivered /\ x = sb.data /\ w = wb.data /\ p = Pos /\ f = fetched /\ R = replies
      OBVIOUS
    <2>3. d \in Seq(Units) /\ x \in Seq(Units) /\ R \in Seq(Units) /\ Len(R) \in Nat /\ f \in 0..Len(R) /\ p \in 0..f
      BY <1>1, <2>1, <2>2, RepliesAreUnits, LenProperties DEF Scalars, Fetching
    <2>4. OfOrigin(d \o x) = OfOrigin(SubSeq(R, 1, p))
      BY <2>1, <2>2 DEF Delivering
    <2>5. SubSeq(R, 1, p) \in Seq(Units) /\ SubSeq(R, p + 1, f) \in Seq(Units)
          /\ SubSeq(R, 1, p) \o SubSeq(R, p + 1, f) = SubSeq(R, 1, f)
      <3>1. 0 \in Nat /\ 0 + 1 = 1 /\ p \in 0..Len(R) /\ p \in Nat /\ f \in p..Len(R)
        BY <2>3
      <3>2. SubSeq(R, 0 + 1, p) \in Seq(Units)
        BY ONLY <2>3, <3>1, Window
      <3>3. SubSeq(R, p + 1, f) \in Seq(Units)
        BY ONLY <2>3, <3>1, Window
      <3>4. SubSeq(R, 0 + 1, p) \o SubSeq(R, p + 1, f) = SubSeq(R, 0 + 1, f)
        BY ONLY <2>3, <3>1, WindowGrows
      <3> QED BY ONLY <3>1, <3>2, <3>3, <3>4
    <2>6. ASSUME NEW z \in Seq(Units), NEW a \in Seq(Units), a = SubSeq(R, 1, p)
          PROVE  OfOrigin((d \o x) \o z) = OfOrigin(a \o z)
      <3>1. OfOrigin(d \o x) = OfOrigin(a) /\ z \in Seq(Units) /\ a \in Seq(Units)
        BY <2>4, <2>6
      <3> QED BY ONLY <2>3, <3>1, OriginPasses
    <2>7. CASE state # "REQUEST"
      <3>1. w = SubSeq(R, p + 1, f)
        BY <2>1, <2>2, <2>7 DEF Fetching
      <3>2. OfOrigin((d \o x) \o w) = OfOrigin(SubSeq(R, 1, p) \o w)
        BY <2>5, <2>6, <3>1
      <3> QED BY <2>2, <2>5, <3>1, <3>2
    <2>8. CASE state = "REQUEST"
      <3>1. p = f
        BY <2>2, <2>8 DEF Pos
      <3>2. w \in Seq(LineUnits)
        <4>1. CASE pend = Null
          <5>1. wb = EmptyBuffer
            BY <2>1, <2>8, <4>1 DEF Sending
          <5>2. w = <<>>
            BY <2>2, <5>1 DEF EmptyBuffer
          <5> QED BY <5>2, EmptySeq
        <4>2. CASE pend # Null
          BY <2>1, <2>2, <4>2 DEF Sending
        <4> QED BY <4>1, <4>2
      <3>3. w \in Seq(Units) /\ \A i \in 1..Len(w) : w[i].part = "line"
        <4>1. \A i \in 1..Len(w) : w[i] \in LineUnits
          BY <3>2, ElementOfSeq
        <4> QED BY <3>2, <4>1, RepliesAreUnits DEF LineUnits
      <3>4. OfOrigin(w) = <<>>
        BY <3>3, NothingOfOrigin
      <3>5. OfOrigin((d \o x) \o w) = OfOrigin(d \o x)
        <4>1. d \o x \in Seq(Units)
          BY <2>3, ConcatProperties
        <4>2. OfOrigin((d \o x) \o w) = OfOrigin(d \o x) \o OfOrigin(w) /\ OfOrigin(d \o x) \in Seq(Units)
          BY <3>3, <4>1, OriginConcat
        <4> QED BY <3>4, <4>2, ConcatEmptySeq
      <3> QED BY <2>2, <2>4, <3>1, <3>5
    <2> QED BY <2>7, <2>8
  <1> QED BY <1>1, <1>2 DEF RepliesInOrder

LEMMA LinesAre ==
  ASSUME ClientInv, NEW f \in 0..Len(Chain)
  PROVE  IsPrefix(OfClient(UpTo(f)), LinesOf(Accepted))
  <1>1. PICK A, C, T : A = Accepted /\ C = Chain /\ T = 1..Len(sent)
    OBVIOUS
  <1>2. /\ A \in Seq(T) /\ Len(A) \in Nat /\ C = <<Capa>> \o A /\ T \in SUBSET (0..Len(sent)) /\ Len(sent) \in Nat
        /\ WrittenIsSent /\ 0 \in Nat /\ 0 + 1 = 1
    BY <1>1, LenProperties DEF ClientInv, AcceptedInOrder, Chain, WrittenIsSent
  <1>3. LinesOf(A) \in Seq(UnitsOf(T))
    BY <1>2, LinesOfConcat
  <1>4. UnitsOf(T) \subseteq LineUnits /\ UnitsOf(T) \subseteq Units /\ UnitsOf(T) \subseteq Asked
    <2>1. \A u \in UnitsOf(T) : u \in LineUnits /\ u.id \in T /\ u.part = "line"
      BY DEF UnitsOf, LineUnits
    <2>2. 0 \notin T
      BY <1>1, <1>2
    <2> QED BY <2>1, <2>2 DEF Units, Asked, Capa
  <1>5. CASE f = 0
    <2>1. UpTo(f) = <<>>
      BY <1>5, UpToGrows
    <2>2. PICK e : e = UpTo(f)
      OBVIOUS
    <2>3. e \in Seq(Units) /\ Len(e) = 0
      BY <2>1, <2>2, EmptySeq
    <2>4. Filter(e, Asked) = <<>>
      <3>1. \A i \in 1..Len(e) : e[i] \notin Asked
        BY <2>3
      <3> QED BY <2>3, <3>1, FilterNone
    <2>5. OfClient(e) = <<>>
      BY <2>3, <2>4, OfClientIs
    <2>6. PICK L : L = LinesOf(A)
      OBVIOUS
    <2>7. IsPrefix(<<>>, <<>> \o L) /\ <<>> \o L = L
      <3>1. L \in Seq(UnitsOf(T)) /\ <<>> \in Seq(UnitsOf(T))
        BY <1>3, <2>6, EmptySeq
      <3>2. IsPrefix(<<>>, <<>> \o L)
        BY ONLY <3>1, PrefixOfConcat
      <3> QED BY <3>1, <3>2, ConcatEmptySeq
    <2> QED BY <1>1, <2>2, <2>5, <2>6, <2>7
  <1>6. CASE f # 0
    <2>1. PICK g : g = f - 1
      OBVIOUS
    <2>2. Len(C) = Len(A) + 1 /\ g \in 0..Len(A) /\ f = g + 1 /\ g \in Nat
      BY <1>1, <1>2, <1>6, <2>1, ChainIs DEF ClientInv, AcceptedInOrder
    <2>3. PICK x, y, z : x = SubSeq(A, 1, g) /\ y = SubSeq(A, g + 1, Len(A)) /\ z = <<Capa>>
      OBVIOUS
    <2>4. x \in Seq(T) /\ y \in Seq(T) /\ x \o y = A /\ Len(x) = g
      <3>1. 0 \in Nat /\ 0 + 1 = 1 /\ g \in 0..Len(A) /\ Len(A) \in g..Len(A) /\ g - 0 = g
        BY <1>2, <2>2
      <3>2. SubSeq(A, 0 + 1, g) \in Seq(T) /\ Len(SubSeq(A, 0 + 1, g)) = g - 0
        BY ONLY <1>2, <3>1, Window
      <3>3. SubSeq(A, g + 1, Len(A)) \in Seq(T)
        BY ONLY <1>2, <2>2, <3>1, Window
      <3>4. SubSeq(A, 0 + 1, g) \o SubSeq(A, g + 1, Len(A)) = SubSeq(A, 0 + 1, Len(A))
        BY ONLY <1>2, <3>1, WindowGrows
      <3>5. SubSeq(A, 1, Len(A)) = A
        BY ONLY <1>2, SubSeqFull
      <3> QED BY <2>3, <3>1, <3>2, <3>3, <3>4, <3>5
    <2>5. PICK U : U = 0..Len(sent)
      OBVIOUS
    <2>6. z \in Seq(U) /\ x \in Seq(U) /\ Len(z) = 1 /\ U \in SUBSET (0..Len(sent)) /\ z[1] = Capa
      <3>1. x \in Seq(U)
        BY <1>2, <2>4, <2>5, SeqMonotonic
      <3>2. 0 \in U
        BY <1>2, <2>5
      <3> QED BY <2>3, <2>5, <3>1, <3>2 DEF Capa
    <2>7. SubSeq(C, 1, f) = z \o x
      <3>1. C \in Seq(U) /\ A \in Seq(U) /\ \A i \in 1..Len(A) : C[i + 1] = A[i]
        <4>1. A \in Seq(U)
          BY <1>2, <2>5, SeqMonotonic
        <4>2. \A i \in 1..Len(A) : C[i + 1] = A[i]
          BY <1>1, ChainIs DEF ClientInv
        <4> QED BY <1>1, <2>5, <4>1, <4>2, ChainRises
      <3>2. C[1] = Capa
        BY <1>1, ChainRises
      <3>3. PICK s, t : s = SubSeq(C, 1, f) /\ t = z \o x
        OBVIOUS
      <3>4. s \in Seq(U) /\ Len(s) = f /\ \A i \in 1..f : s[i] = C[i]
        <4>1. 0 \in Nat /\ 0 + 1 = 1 /\ f \in 0..Len(C) /\ f - 0 = f /\ \A i \in 1..f : 0 + i = i
          BY <1>2, <2>2
        <4>2. SubSeq(C, 0 + 1, f) \in Seq(U) /\ Len(SubSeq(C, 0 + 1, f)) = f - 0
              /\ \A i \in 1..(f - 0) : SubSeq(C, 0 + 1, f)[i] = C[0 + i]
          BY ONLY <3>1, <4>1, Window
        <4> QED BY <3>3, <4>1, <4>2
      <3>5. t \in Seq(U) /\ Len(t) = 1 + g /\ \A i \in 1..(1 + g) : t[i] = IF i <= 1 THEN z[i] ELSE x[i - 1]
        <4>1. x \in Seq(U) /\ z \in Seq(U)
          BY <2>6
        <4>2. z \o x \in Seq(U) /\ Len(z \o x) = Len(z) + Len(x)
              /\ \A i \in 1..(Len(z) + Len(x)) : (z \o x)[i] = IF i <= Len(z) THEN z[i] ELSE x[i - Len(z)]
          BY ONLY <4>1, ConcatProperties
        <4>3. Len(z) = 1 /\ Len(x) = g
          BY <2>4, <2>6
        <4> QED BY <3>3, <4>2, <4>3
      <3>6. \A i \in 1..g : x[i] = A[i]
        <4>1. 0 \in Nat /\ 0 + 1 = 1 /\ g \in 0..Len(A) /\ g - 0 = g /\ \A i \in 1..g : 0 + i = i
          BY <2>2
        <4>2. \A i \in 1..(g - 0) : SubSeq(A, 0 + 1, g)[i] = A[0 + i]
          BY ONLY <1>2, <4>1, Window
        <4> QED BY <2>3, <4>1, <4>2
      <3>7. ASSUME NEW i \in 1..f PROVE s[i] = t[i]
        <4>1. CASE i = 1
          BY <4>1, <2>2, <2>6, <3>2, <3>4, <3>5
        <4>2. CASE i # 1
          <5>1. i - 1 \in 1..g /\ i - 1 \in 1..Len(A) /\ (i - 1) + 1 = i /\ ~(i <= 1) /\ i \in 1..(1 + g)
            BY <4>2, <2>2
          <5> QED BY <5>1, <3>1, <3>4, <3>5, <3>6
        <4> QED BY <4>1, <4>2
      <3>8. s = t
        <4>1. s \in Seq(U) /\ t \in Seq(U) /\ Len(s) = Len(t) /\ \A i \in 1..Len(s) : s[i] = t[i]
          BY <2>2, <3>4, <3>5, <3>7
        <4> QED BY ONLY <4>1, SeqEqual
      <3> QED BY <3>3, <3>8
    <2>8. UpTo(f) = LinesOf(z) \o LinesOf(x) /\ LinesOf(z) \in Seq(UnitsOf(U))
      <3>1. LinesOf(z \o x) = LinesOf(z) \o LinesOf(x) /\ LinesOf(z) \in Seq(UnitsOf(U))
        BY <1>2, <2>6, LinesOfConcat
      <3> QED BY <1>1, <2>7, <3>1 DEF UpTo
    <2>9. LinesOf(A) = LinesOf(x) \o LinesOf(y) /\ LinesOf(x) \in Seq(UnitsOf(T)) /\ LinesOf(y) \in Seq(UnitsOf(T))
      BY <1>2, <2>4, LinesOfConcat
    <2>10. PICK lz, lx, ly : lz = LinesOf(z) /\ lx = LinesOf(x) /\ ly = LinesOf(y)
      OBVIOUS
    <2>11. lz \in Seq(UnitsOf({Capa}))
      <3>1. z \in Seq({Capa}) /\ {Capa} \in SUBSET (0..Len(sent))
        BY <1>2, <2>3 DEF Capa
      <3>2. LinesOf(z) \in Seq(UnitsOf({Capa}))
        BY <1>2, <3>1, LinesOfConcat
      <3> QED BY <2>10, <3>2
    <2>12. lz \in Seq(Units) /\ \A i \in 1..Len(lz) : lz[i] \notin Asked
      <3>1. UnitsOf({Capa}) \subseteq Units
        BY DEF UnitsOf, Units
      <3>2. \A i \in 1..Len(lz) : lz[i] \in UnitsOf({Capa})
        BY <2>11, ElementOfSeq
      <3> QED BY <2>11, <3>1, <3>2, SeqMonotonic DEF UnitsOf, Asked
    <2>13. lx \in Seq(Units) /\ lx \in Seq(UnitsOf(T)) /\ ly \in Seq(UnitsOf(T)) /\ \A i \in 1..Len(lx) : lx[i] \in Asked
      <3>1. lx \in Seq(UnitsOf(T)) /\ ly \in Seq(UnitsOf(T))
        BY <2>9, <2>10
      <3>2. \A i \in 1..Len(lx) : lx[i] \in UnitsOf(T)
        BY <3>1, ElementOfSeq
      <3> QED BY <1>4, <3>1, <3>2, SeqMonotonic
    <2>14. Filter(lz, Asked) = <<>> /\ Filter(lx, Asked) = lx
      <3>1. Filter(lz, Asked) = <<>>
        BY <2>12, FilterNone
      <3>2. Filter(lx, Asked) = lx
        BY <2>13, FilterAll
      <3> QED BY <3>1, <3>2
    <2>15. OfClient(lz \o lx) = lx
      <3>1. lz \o lx \in Seq(Units)
        BY <2>12, <2>13, ConcatProperties
      <3>2. Filter(lz \o lx, Asked) = Filter(lz, Asked) \o Filter(lx, Asked)
        BY <2>12, <2>13, FilterConcat
      <3>3. <<>> \o lx = lx
        BY <2>13, ConcatEmptySeq
      <3> QED BY <2>14, <3>1, <3>2, <3>3, OfClientIs
    <2>16. IsPrefix(lx, lx \o ly)
      BY <2>13, PrefixOfConcat
    <2> QED BY <1>1, <2>8, <2>9, <2>10, <2>15, <2>16
  <1> QED BY <1>5, <1>6

LEMMA RelayPassesRequests == ClientInv /\ RelayInv => RequestsInOrder
  BY LinesAre DEF RelayInv, Ground, RequestsInOrder

LEMMA SuffixIs ==
  ASSUME NEW S, NEW s \in Seq(S), NEW t \in Seq(S), NEW d \in Nat, Len(t) = d + Len(s),
         \A i \in 1..Len(s) : s[i] = t[d + i]
  PROVE  IsSuffix(s, t)
  <1>1. PICK m, n, x, y : m = Len(s) /\ n = Len(t) /\ x = Reverse(s) /\ y = Reverse(t)
    OBVIOUS
  <1>2. m \in Nat /\ n \in Nat /\ n = d + m /\ \A i \in 1..m : s[i] = t[d + i]
    BY <1>1, LenProperties
  <1>3. \A i \in 1..m : s[i] \in S
    BY <1>1, ElementOfSeq
  <1>4. \A i \in 1..n : t[i] \in S
    BY <1>1, ElementOfSeq
  <1>5. x \in Seq(S) /\ Len(x) = m /\ \A i \in 1..m : x[i] = s[(m - i) + 1]
    <2>1. x = [i \in 1..m |-> s[(m - i) + 1]]
      BY <1>1 DEF Reverse
    <2>2. \A i \in 1..m : (m - i) + 1 \in 1..m
      BY <1>2
    <2>3. \A i \in 1..m : s[(m - i) + 1] \in S
      BY <1>3, <2>2
    <2> QED BY ONLY <1>2, <2>1, <2>3
  <1>6. y \in Seq(S) /\ Len(y) = n /\ \A i \in 1..n : y[i] = t[(n - i) + 1]
    <2>1. y = [i \in 1..n |-> t[(n - i) + 1]]
      BY <1>1 DEF Reverse
    <2>2. \A i \in 1..n : (n - i) + 1 \in 1..n
      BY <1>2
    <2>3. \A i \in 1..n : t[(n - i) + 1] \in S
      BY <1>4, <2>2
    <2> QED BY ONLY <1>2, <2>1, <2>3
  <1>7. ASSUME NEW i \in 1..m PROVE x[i] = y[i]
    <2>1. (m - i) + 1 \in 1..m /\ i \in 1..n /\ d + ((m - i) + 1) = (n - i) + 1
      BY <1>2
    <2>2. s[(m - i) + 1] = t[d + ((m - i) + 1)]
      BY <1>2, <2>1
    <2> QED BY <2>1, <2>2, <1>5, <1>6
  <1>8. PICK a, b : a = SubSeq(x, 1, m) /\ b = SubSeq(y, 1, m)
    OBVIOUS
  <1>9. 0 \in Nat /\ 0 + 1 = 1 /\ m - 0 = m /\ m \in 0..Len(x) /\ m \in 0..Len(y) /\ \A i \in 1..m : 0 + i = i
    BY <1>2, <1>5, <1>6
  <1>10. a \in Seq(S) /\ Len(a) = m /\ \A i \in 1..m : a[i] = x[i]
    <2>1. SubSeq(x, 0 + 1, m) \in Seq(S) /\ Len(SubSeq(x, 0 + 1, m)) = m - 0
          /\ \A i \in 1..(m - 0) : SubSeq(x, 0 + 1, m)[i] = x[0 + i]
      BY ONLY <1>5, <1>9, Window
    <2> QED BY <1>8, <1>9, <2>1
  <1>11. b \in Seq(S) /\ Len(b) = m /\ \A i \in 1..m : b[i] = y[i]
    <2>1. SubSeq(y, 0 + 1, m) \in Seq(S) /\ Len(SubSeq(y, 0 + 1, m)) = m - 0
          /\ \A i \in 1..(m - 0) : SubSeq(y, 0 + 1, m)[i] = y[0 + i]
      BY ONLY <1>6, <1>9, Window
    <2> QED BY <1>8, <1>9, <2>1
  <1>12. a = b
    <2>1. Len(a) = Len(b) /\ \A i \in 1..Len(a) : a[i] = b[i]
      BY <1>7, <1>10, <1>11
    <2> QED BY ONLY <1>10, <1>11, <2>1, SeqEqual
  <1>13. Len(x) <= Len(y)
    BY <1>2, <1>5, <1>6
  <1>14. IsPrefix(x, y)
    BY <1>5, <1>8, <1>12, <1>13 DEF IsPrefix
  <1> QED BY <1>1, <1>14 DEF IsSuffix

LEMMA RelayAccounts == ClientInv /\ RelayInv => CommandsAccountedFor
  <1> SUFFICES ASSUME ClientInv, RelayInv, state \in {"REQUEST", "RESPONSE"}, Alive,
                      NEW open, open = (IF state = "RESPONSE" THEN <<request>> ELSE <<>>) \o queue.nodes
               PROVE  /\ IsSuffix(open, Accepted)
                      /\ \A i \in 1..(Len(Accepted) - Len(open)) : AnsweredTo(Accepted[i])
    BY DEF CommandsAccountedFor
  <1>1. PICK A, C, Q, t, T : A = Accepted /\ C = Chain /\ Q = queue.nodes /\ t = Turn /\ T = 0..Len(sent)
    OBVIOUS
  <1>2. /\ Len(A) \in Nat /\ Len(C) = Len(A) + 1 /\ \A i \in 1..Len(A) : C[i + 1] = A[i]
        /\ C[1] = Capa
    BY <1>1, ChainIs DEF ClientInv
  <1>3. /\ t \in 1..Len(C) /\ Len(Q) \in Nat /\ t = Len(C) - Len(Q) /\ request = C[t]
        /\ \A i \in 1..Len(Q) : Q[i] = C[t + i]
    BY <1>1, LenProperties DEF ClientInv, QueueIsRest, Turn
  <1>11. PICK a, q, c : a = Len(A) /\ q = Len(Q) /\ c = Len(open)
    OBVIOUS
  <1>12. a \in Nat /\ q \in Nat /\ t \in 1..(a + 1) /\ t = (a + 1) - q
    BY <1>2, <1>3, <1>11
  <1>4. C \in Seq(T) /\ A \in Seq(T)
    <2>1. A \in Seq(1..Len(sent)) /\ 1..Len(sent) \subseteq T
      BY <1>1 DEF ClientInv, AcceptedInOrder
    <2> QED BY <1>1, <2>1, ChainRises, SeqMonotonic
  <1>5. \A i \in 1..Len(C) : C[i] \in T
    BY <1>4, ElementOfSeq
  <1>6. Q \in Seq(T)
    <2>1. \A i \in 1..Len(Q) : Q[i] \in T
      <3>1. ASSUME NEW i \in 1..Len(Q) PROVE Q[i] \in T
        <4>1. t + i \in 1..Len(C)
          BY <1>2, <1>3
        <4> QED BY <4>1, <1>3, <1>5
      <3> QED BY <3>1
    <2>2. Q \in Seq(1..MaxCommands)
      BY <1>1 DEF ClientInv, QueueIsRest
    <2>3. Q = [i \in 1..Len(Q) |-> Q[i]] /\ Len(Q) \in Nat
      BY <2>2, LenProperties
    <2> QED BY ONLY <2>1, <2>3
  <1>7. Sending /\ Fetching /\ Delivering
    BY DEF RelayInv
  <1>8. \A i \in 2..t : i < t \/ state = "REQUEST" => AnsweredTo(C[i])
    BY <1>1, <1>7 DEF Delivering
  <1>9. CASE state = "REQUEST"
    <2>1. open = Q
      BY <1>1, <1>6, <1>9, ConcatEmptySeq
    <2>2. PICK d : d = t - 1
      OBVIOUS
    <2>3. d \in Nat /\ Len(A) = d + Len(Q) /\ t = d + 1
      BY <1>2, <1>3, <2>2
    <2>4. ASSUME NEW i \in 1..Len(Q) PROVE Q[i] = A[d + i]
      <3>0. i \in 1..q /\ d \in Nat /\ a = d + q /\ t = d + 1
        BY <1>11, <2>3
      <3>1. d + i \in 1..Len(A) /\ (d + i) + 1 = t + i
        <4>1. d + i \in 1..a /\ (d + i) + 1 = t + i
          BY ONLY <1>12, <3>0
        <4> QED BY <1>11, <4>1
      <3> QED BY <3>1, <1>2, <1>3
    <2>5. IsSuffix(Q, A)
      BY <1>4, <1>6, <2>3, <2>4, SuffixIs
    <2>6. ASSUME NEW i \in 1..(Len(A) - Len(Q)) PROVE AnsweredTo(A[i])
      <3>0. i \in 1..(a - q)
        BY <1>11, <2>6
      <3>1. i \in 1..Len(A) /\ i + 1 \in 2..t
        <4>1. i \in 1..a /\ i + 1 \in 2..t
          BY ONLY <1>12, <3>0
        <4> QED BY <1>11, <4>1
      <3>2. AnsweredTo(C[i + 1])
        BY <1>8, <1>9, <3>1
      <3>3. C[i + 1] = A[i]
        BY <1>2, <3>1
      <3> QED BY <3>2, <3>3
    <2> QED BY <1>1, <2>1, <2>5, <2>6
  <1>10. CASE state = "RESPONSE"
    <2>1. t > 1
      BY <1>1, <1>7, <1>10 DEF Fetching
    <2>2. PICK d, r, z : d = t - 2 /\ r = request /\ z = <<r>>
      OBVIOUS
    <2>3. d \in Nat /\ t = d + 2 /\ Len(A) = d + (1 + Len(Q))
      BY <1>2, <1>3, <2>1, <2>2
    <2>4. z \in Seq(T) /\ Len(z) = 1 /\ z[1] = r
      <3>1. r \in T
        BY <1>3, <1>5, <2>2
      <3> QED BY <2>2, <3>1
    <2>5. open = z \o Q
      BY <1>1, <1>10, <2>2
    <2>6. open \in Seq(T) /\ Len(open) = 1 + Len(Q)
          /\ \A i \in 1..(1 + Len(Q)) : open[i] = IF i <= 1 THEN z[i] ELSE Q[i - 1]
      <3>1. z \o Q \in Seq(T) /\ Len(z \o Q) = Len(z) + Len(Q)
            /\ \A i \in 1..(Len(z) + Len(Q)) : (z \o Q)[i] = IF i <= Len(z) THEN z[i] ELSE Q[i - Len(z)]
        BY ONLY <1>6, <2>4, ConcatProperties
      <3> QED BY <2>4, <2>5, <3>1
    <2>7. ASSUME NEW i \in 1..Len(open) PROVE open[i] = A[d + i]
      <3>0. i \in 1..(1 + q) /\ d \in Nat /\ a = d + (1 + q)
        BY <1>11, <2>3, <2>6
      <3>1. d + i \in 1..Len(A) /\ i \in 1..(1 + Len(Q))
        <4>1. d + i \in 1..a
          BY ONLY <1>12, <3>0
        <4> QED BY <1>11, <3>0, <4>1
      <3>2. A[d + i] = C[(d + i) + 1]
        BY <1>2, <3>1
      <3>3. CASE i = 1
        <4>1. (d + i) + 1 = t
          BY <2>3, <3>3
        <4>2. A[d + i] = r
          BY <4>1, <3>2, <1>3, <2>2
        <4>3. 1 \in 1..(1 + Len(Q)) /\ 1 <= 1
          BY <1>3
        <4>4. open[1] = r
          BY <2>4, <2>6, <4>3
        <4> QED BY <3>3, <4>2, <4>4
      <3>4. CASE i # 1
        <4>1. i - 1 \in 1..Len(Q) /\ (d + i) + 1 = t + (i - 1) /\ ~(i <= 1)
          <5>1. i - 1 \in 1..q /\ (d + i) + 1 = (d + 2) + (i - 1) /\ ~(i <= 1)
            BY ONLY <1>12, <3>0, <3>4
          <5> QED BY <1>11, <2>3, <5>1
        <4>2. open[i] = Q[i - 1]
          BY <2>6, <3>1, <4>1
        <4>3. Q[i - 1] = C[t + (i - 1)]
          BY <1>3, <4>1
        <4> QED BY <3>2, <4>1, <4>2, <4>3
      <3> QED BY <3>3, <3>4
    <2>8. IsSuffix(open, A)
      <3>1. Len(A) = d + Len(open)
        BY <2>3, <2>6
      <3> QED BY <1>4, <2>3, <2>6, <2>7, <3>1, SuffixIs
    <2>9. ASSUME NEW i \in 1..(Len(A) - Len(open)) PROVE AnsweredTo(A[i])
      <3>0. i \in 1..(a - (1 + q)) /\ d \in Nat /\ t = d + 2 /\ a = d + (1 + q)
        BY <1>11, <2>3, <2>6, <2>9
      <3>1. i \in 1..Len(A) /\ i + 1 \in 2..t /\ i + 1 < t
        <4>1. i \in 1..a /\ i + 1 \in 2..t /\ i + 1 < t
          BY ONLY <1>12, <3>0
        <4> QED BY <1>11, <4>1
      <3>2. AnsweredTo(C[i + 1])
        BY <1>8, <3>1
      <3>3. C[i + 1] = A[i]
        BY <1>2, <3>1
      <3> QED BY <3>2, <3>3
    <2> QED BY <1>1, <2>8, <2>9
  <1> QED BY <1>9, <1>10

\* What the origin has been sent of a request.
LEMMA SentOf ==
  ASSUME ClientInv, NEW f \in 0..Len(Chain), NEW j \in 1..f
  PROVE  Only(UpTo(f), LAMBDA u : u.id = Chain[j]) = Line(Chain[j]) /\ Line(Chain[j]) \in Seq(LineUnits)
  <1>1. PICK C, T, r, s : C = Chain /\ T = 0..Len(sent) /\ r = Chain[j] /\ s = UpTo(f)
    OBVIOUS
  <1>2. /\ C \in Seq(T) /\ Len(C) \in Nat /\ T \in SUBSET (0..Len(sent)) /\ WrittenIsSent
        /\ \A i \in 1..Len(C) : C[i] \in T
        /\ \A i, k \in 1..Len(C) : i < k => C[i] < C[k]
        /\ \A i \in 1..Len(C) : C[i] \in Nat
    BY <1>1, ChainRises DEF ClientInv
  <1>3. f \in Nat /\ f <= Len(C) /\ j \in Nat /\ 1 <= j /\ j <= f /\ j \in 1..Len(C) /\ C[j] = r /\ r \in 0..Len(sent)
    BY <1>1, <1>2
  <1>4. PICK g : g = j - 1
    OBVIOUS
  <1>5. g \in 0..(Len(C) - 1) /\ g + 1 = j /\ g \in 0..Len(C) /\ j \in 0..Len(C) /\ f \in j..Len(C)
    BY <1>2, <1>3, <1>4
  <1>6. PICK x, y, c, d : x = UpTo(g) /\ y = Line(r) /\ c = SubSeq(C, 1, g) /\ d = SubSeq(C, j + 1, f)
    OBVIOUS
  <1>7. PICK z : z = LinesOf(d)
    OBVIOUS
  <1>8. s = (x \o y) \o z
    <2>1. UpTo(g + 1) = UpTo(g) \o Line(C[g + 1])
      BY <1>1, <1>5, UpToGrows
    <2>2. UpTo(f) = UpTo(j) \o LinesOf(SubSeq(C, j + 1, f))
      BY <1>1, <1>5, UpToGrows
    <2> QED BY <1>1, <1>3, <1>5, <1>6, <1>7, <2>1, <2>2
  <1>9. c \in Seq(T \ {r}) /\ d \in Seq(T \ {r})
    <2>1. 0 \in Nat /\ 0 + 1 = 1 /\ g \in 0..Len(C) /\ g - 0 = g /\ j \in Nat /\ f \in j..Len(C) /\ \A i \in 1..g : 0 + i = i
      BY <1>5, <1>3
    <2>2. SubSeq(C, 0 + 1, g) \in Seq(T) /\ Len(SubSeq(C, 0 + 1, g)) = g - 0
          /\ \A i \in 1..(g - 0) : SubSeq(C, 0 + 1, g)[i] = C[0 + i]
      BY ONLY <1>2, <2>1, Window
    <2>3. SubSeq(C, j + 1, f) \in Seq(T) /\ Len(SubSeq(C, j + 1, f)) = f - j
          /\ \A i \in 1..(f - j) : SubSeq(C, j + 1, f)[i] = C[j + i]
      BY ONLY <1>2, <2>1, Window
    <2>4. c \in Seq(T) /\ Len(c) = g /\ \A i \in 1..g : c[i] = C[i]
      BY <1>6, <2>1, <2>2
    <2>5. d \in Seq(T) /\ Len(d) = f - j /\ \A i \in 1..(f - j) : d[i] = C[j + i]
      BY <1>6, <2>3
    <2>6. \A i \in 1..Len(c) : c[i] \in T \ {r}
      <3>1. ASSUME NEW i \in 1..g PROVE c[i] \in T \ {r}
        <4>1. i \in 1..Len(C) /\ i < j
          BY <1>3, <1>5
        <4>2. C[i] < C[j] /\ C[i] \in Nat /\ C[j] \in Nat /\ C[i] \in T
          BY <1>2, <1>3, <4>1
        <4>3. C[i] # r
          BY <1>3, <4>2
        <4> QED BY <2>4, <4>2, <4>3
      <3> QED BY <2>4, <3>1
    <2>7. \A i \in 1..Len(d) : d[i] \in T \ {r}
      <3>1. ASSUME NEW i \in 1..(f - j) PROVE d[i] \in T \ {r}
        <4>1. j + i \in 1..Len(C) /\ j < j + i
          BY <1>3, <1>5
        <4>2. C[j] < C[j + i] /\ C[j + i] \in Nat /\ C[j] \in Nat /\ C[j + i] \in T
          BY <1>2, <1>3, <4>1
        <4>3. C[j + i] # r
          BY <1>3, <4>2
        <4> QED BY <2>5, <4>2, <4>3
      <3> QED BY <2>5, <3>1
    <2>8. c = [i \in 1..Len(c) |-> c[i]] /\ Len(c) \in Nat /\ d = [i \in 1..Len(d) |-> d[i]] /\ Len(d) \in Nat
      BY <2>4, <2>5, LenProperties
    <2>9. PICK S : S = T \ {r}
      OBVIOUS
    <2>10. c \in Seq(S)
      BY ONLY <2>6, <2>8, <2>9
    <2>11. d \in Seq(S)
      BY ONLY <2>7, <2>8, <2>9
    <2> QED BY <2>9, <2>10, <2>11
  <1>10. PICK V : V = T \ {r}
    OBVIOUS
  <1>11. x \in Seq(UnitsOf(V)) /\ z \in Seq(UnitsOf(V)) /\ y \in Seq(UnitsOf({r}))
    <2>1. V \in SUBSET (0..Len(sent)) /\ c \in Seq(V) /\ d \in Seq(V)
      BY <1>2, <1>9, <1>10
    <2>2. LinesOf(c) \in Seq(UnitsOf(V)) /\ LinesOf(d) \in Seq(UnitsOf(V))
      BY <1>2, <2>1, LinesOfConcat
    <2>3. Line(r) \in Seq(UnitsOf({r}))
      BY <1>2, <1>3, LineIs
    <2>4. x = LinesOf(c)
      BY <1>1, <1>6 DEF UpTo
    <2> QED BY <1>6, <1>7, <2>2, <2>3, <2>4
  <1>12. x \in Seq(LineUnits) /\ y \in Seq(LineUnits) /\ z \in Seq(LineUnits)
    BY <1>11, SeqMonotonic DEF UnitsOf
  <1> DEFINE Q == {u \in LineUnits : u.id = r}
  <1>13. Filter(x, Q) = <<>> /\ Filter(z, Q) = <<>> /\ Filter(y, Q) = y
    <2>1. \A i \in 1..Len(x) : x[i] \in UnitsOf(V)
      BY <1>11, ElementOfSeq
    <2>2. \A i \in 1..Len(z) : z[i] \in UnitsOf(V)
      BY <1>11, ElementOfSeq
    <2>3. \A i \in 1..Len(y) : y[i] \in UnitsOf({r})
      BY <1>11, ElementOfSeq
    <2>4. \A u \in UnitsOf(V) : u \notin Q
      BY <1>10 DEF UnitsOf
    <2>5. \A u \in UnitsOf({r}) : u \in Q
      BY DEF UnitsOf
    <2> HIDE DEF Q
    <2>6. Filter(x, Q) = <<>>
      BY <1>12, <2>1, <2>4, FilterNone
    <2>7. Filter(z, Q) = <<>>
      BY <1>12, <2>2, <2>4, FilterNone
    <2>8. Filter(y, Q) = y
      BY <1>12, <2>3, <2>5, FilterAll
    <2> QED BY <2>6, <2>7, <2>8
  <1>14. s \in Seq(LineUnits) /\ Filter(s, Q) = y
    <2> HIDE DEF Q
    <2>1. x \o y \in Seq(LineUnits) /\ Filter(x \o y, Q) = Filter(x, Q) \o Filter(y, Q)
      BY <1>12, FilterConcat, ConcatProperties
    <2>2. (x \o y) \o z \in Seq(LineUnits) /\ Filter((x \o y) \o z, Q) = Filter(x \o y, Q) \o Filter(z, Q)
      <3>1. PICK w : w = x \o y
        OBVIOUS
      <3>2. w \in Seq(LineUnits) /\ z \in Seq(LineUnits)
        BY <1>12, <2>1, <3>1
      <3>3. w \o z \in Seq(LineUnits)
        BY ONLY <3>2, ConcatProperties
      <3>4. Filter(w \o z, Q) = Filter(w, Q) \o Filter(z, Q)
        BY ONLY <3>2, FilterConcat
      <3> QED BY <3>1, <3>3, <3>4
    <2>3. <<>> \o y = y /\ y \o <<>> = y
      BY <1>12, ConcatEmptySeq
    <2> QED BY <1>8, <1>13, <2>1, <2>2, <2>3
  <1>15. Only(s, LAMBDA u : u.id = r) = Filter(s, Q)
    <2> DEFINE Is(h) == h = [n \in 0..Len(s) |-> IF n = 0 THEN <<>>
                               ELSE IF s[n].id = r THEN Append(h[n - 1], s[n]) ELSE h[n - 1]]
    <2>1. Only(s, LAMBDA u : u.id = r) = (CHOOSE h : Is(h))[Len(s)]
      BY DEF Only
    <2>2. \A n \in 0..Len(s) : n # 0 => (s[n] \in Q <=> s[n].id = r)
      <3>1. ASSUME NEW n \in 0..Len(s), n # 0 PROVE s[n] \in Q <=> s[n].id = r
        <4>1. n \in 1..Len(s)
          BY <1>14, <3>1, LenProperties
        <4>2. s[n] \in LineUnits
          BY <1>14, <4>1, ElementOfSeq
        <4> QED BY <4>2
      <3> QED BY <3>1
    <2> HIDE DEF Q
    <2>3. ASSUME NEW h PROVE IsFilter(h, s, Q) <=> Is(h)
      BY <2>2 DEF IsFilter
    <2>4. (CHOOSE h : IsFilter(h, s, Q)) = (CHOOSE h : Is(h))
      BY <2>3
    <2> QED BY <2>1, <2>4 DEF Filter
  <1> QED BY <1>1, <1>6, <1>12, <1>14, <1>15

LEMMA RelayAwaitsWhatItSent == ClientInv /\ RelayInv => AwaitedRequestWasSent
  <1> SUFFICES ASSUME ClientInv, RelayInv, state = "RESPONSE", Alive,
                      NEW r \in {request} \cup IF pipelining THEN ToSet(queue.nodes) ELSE {}
               PROVE  IsSuffix(Line(r), Only(forwarded, LAMBDA u : u.id = r))
    BY DEF AwaitedRequestWasSent
  <1>1. PICK f : f = IF pipelining THEN Len(Chain) ELSE Turn
    OBVIOUS
  <1>2. forwarded = UpTo(f) /\ Turn \in 1..Len(Chain) /\ Len(Chain) \in Nat
    BY <1>1, ResponseIs
  <1>3. f \in 0..Len(Chain) /\ Turn <= f
    BY <1>1, <1>2
  <1>4. \E j \in 1..f : r = Chain[j]
    <2>1. CASE r = request
      <3>1. Turn \in 1..f
        BY <1>2, <1>3
      <3> QED BY <2>1, <3>1 DEF ClientInv, QueueIsRest
    <2>2. CASE pipelining /\ r \in ToSet(queue.nodes)
      <3>1. PICK i \in 1..Len(queue.nodes) : r = queue.nodes[i]
        BY <2>2 DEF ToSet
      <3>2. r = Chain[Turn + i]
        BY <3>1 DEF ClientInv, QueueIsRest
      <3>3. Len(queue.nodes) \in Nat /\ Turn + Len(queue.nodes) = Len(Chain)
        BY <1>2, LenProperties DEF ClientInv, QueueIsRest, Turn
      <3>4. Turn + i \in 1..f
        BY <1>1, <1>2, <2>2, <3>3
      <3> QED BY <3>2, <3>4
    <2> QED BY <2>1, <2>2
  <1>5. PICK j \in 1..f : r = Chain[j]
    BY <1>4
  <1>6. PICK y : y = Line(r)
    OBVIOUS
  <1>7. Only(forwarded, LAMBDA u : u.id = r) = y /\ y \in Seq(LineUnits)
    <2>1. f \in 0..Len(Chain) /\ j \in 1..f
      BY <1>3, <1>5
    <2>2. /\ Only(UpTo(f), LAMBDA u : u.id = Chain[j]) = Line(Chain[j]) /\ Line(Chain[j]) \in Seq(LineUnits)
      BY <2>1, SentOf
    <2> QED BY <1>2, <1>5, <1>6, <2>2
  <1>8. IsSuffix(y, y)
    <2>1. 0 \in Nat /\ Len(y) = 0 + Len(y) /\ \A i \in 1..Len(y) : y[i] = y[0 + i]
      BY <1>7, LenProperties
    <2> QED BY <1>7, <2>1, SuffixIs
  <1> QED BY <1>6, <1>7, <1>8

\* No step of request_write's loop, and none that awaits a reply, finds the queue
\* empty or its cursor on a node that is not there.
LEMMA RelayQueueIsSound == RelayInv => QueueIsSound
  BY DEF RelayInv, Ground, Scalars, Faults, QueueIsSound

-----------------------------------------------------------------------------
(* No handler writes past the end of a buffer, whatever the lengths of the *)
(* lines and the socket of the origin: no hypothesis on either is needed.  *)

Filled ==
  /\ Sound(wb) /\ Sound(sb) /\ stage \in {"status", "body", "done"} /\ pend \in 0..Len(sent)
  /\ replies \in Seq(ReplyUnits) /\ fetched \in 0..Len(replies)
  /\ forwarded \in Seq(Units) /\ taken \in 0..Len(forwarded) /\ Len(forwarded) - taken <= SockCap
  /\ state \in Welcoming => forwarded = <<>>

\* The cursor of the queue.
CursorTyped(q) == q = [nodes |-> q.nodes, current |-> q.current] /\ q.current \in 0..MaxCommands

LEMMA CursorMoves ==
  ASSUME NEW q, CursorTyped(q), NEW c \in 0..MaxCommands
  PROVE  CursorTyped([q EXCEPT !.current = c])
  <1>1. PICK n, d : q = [nodes |-> n, current |-> d]
    BY DEF CursorTyped
  <1>2. [q EXCEPT !.current = c] = [nodes |-> n, current |-> c]
    BY ONLY <1>1
  <1>3. PICK x : x = [nodes |-> n, current |-> c] /\ x = [q EXCEPT !.current = c]
    BY <1>2
  <1>4. x.nodes = n /\ x.current = c
    BY ONLY <1>3
  <1> QED BY <1>3, <1>4 DEF CursorTyped

LEMMA DequeueTyped ==
  ASSUME NEW q, CursorTyped(q)
  PROVE  CursorTyped(Dequeue(q))
  <1>1. 0 \in 0..MaxCommands
    BY SessionAssumption
  <1>2. PICK n, c : n = Tail(q.nodes) /\ c = IF Len(q.nodes) = 1 THEN Null ELSE q.current
    OBVIOUS
  <1>3. PICK x : x = Dequeue(q) /\ x = [nodes |-> n, current |-> c]
    BY <1>2 DEF Dequeue
  <1>4. x.nodes = n /\ x.current = c
    BY ONLY <1>3
  <1> QED BY <1>1, <1>2, <1>3, <1>4 DEF CursorTyped, Null

\* What a receive from the origin puts into a buffer.
LEMMA ReceiveFits ==
  ASSUME Filled, NEW n \in FromOrigin(Room(wb)), NEW got, got = (IF n > 0 THEN n ELSE 0),
         NEW b, b = Put(wb, Slice(replies, fetched, got))
  PROVE  /\ Sound(b) /\ got \in Nat /\ fetched + got \in 0..Len(replies)
         /\ wb.data \in Seq(ReplyUnits) => b.data \in Seq(ReplyUnits)
  <1>1. /\ replies \in Seq(ReplyUnits) /\ Len(replies) \in Nat /\ fetched \in Nat /\ fetched <= Len(replies)
        /\ Sound(wb) /\ Room(wb) \in Nat
    BY LenProperties, RoomIs DEF Filled
  <1>2. n \in Int /\ got \in Nat /\ got <= Room(wb) /\ fetched + got <= Len(replies)
    BY <1>1 DEF FromOrigin, Received, Min2
  <1>3. fetched + got \in fetched..Len(replies) /\ (fetched + got) - fetched = got
    BY <1>1, <1>2
  <1>4. PICK x : x = SubSeq(replies, fetched + 1, fetched + got)
    OBVIOUS
  <1>5. x \in Seq(ReplyUnits) /\ Len(x) = got
    BY <1>1, <1>3, <1>4, Window
  <1>6. x \in Seq(Units) /\ b = Put(wb, x) /\ Len(x) <= Room(wb)
    BY <1>2, <1>4, <1>5, RepliesAreUnits DEF Slice
  <1>7. Sound(Put(wb, x)) /\ Put(wb, x).data = wb.data \o x
    BY <1>1, <1>6, PutSound
  <1>8. wb.data \in Seq(ReplyUnits) => wb.data \o x \in Seq(ReplyUnits)
    BY <1>5, ConcatProperties
  <1>9. Sound(b) /\ b.data = wb.data \o x
    BY <1>6, <1>7
  <1>10. fetched + got \in 0..Len(replies)
    BY <1>1, <1>2
  <1>11. wb.data \in Seq(ReplyUnits) => b.data \in Seq(ReplyUnits)
    BY <1>8, <1>9
  <1> QED BY <1>2, <1>9, <1>10, <1>11

\* What response_consume takes out of it, and puts into super_buffer.
LEMMA ConsumptionFits ==
  ASSUME Filled, NEW b, Sound(b), NEW k, k = Consumed(b.data)
  PROVE  /\ Sound(Drop(b, k)) /\ Sound(Put(sb, Fitting(sb, SubSeq(b.data, 1, k))))
         /\ StageAfter(b.data)[k] \in ParserStages /\ k \in 0..Len(b.data)
  <1>1. PICK d, f : d = b.data /\ f = StageAfter(b.data)
    OBVIOUS
  <1>2. d \in Seq(Units) /\ Len(d) \in Nat
    BY <1>1, RoomIs
  <1>3. \A i \in 0..Len(d) : f[i] \in ParserStages
    <2>1. stage \in ParserStages
      BY DEF Filled, ParserStages
    <2> QED BY <1>1, <1>2, <2>1, StageAfterIs
  <1>4. k \in 0..Len(d)
    <2>1. PICK E : E = {n \in 0..Len(d) : f[n] \in {"done", "error"}}
      OBVIOUS
    <2>2. k = IF E = {} THEN Len(d) ELSE CHOOSE n \in E : \A m \in E : n <= m
      BY <1>1, <2>1 DEF Consumed
    <2>3. CASE E = {}
      BY <1>2, <2>2, <2>3
    <2>4. CASE E # {}
      <3>1. E \subseteq Nat
        BY <1>2, <2>1
      <3>2. \E n \in E : \A m \in E : n <= m
        BY <2>4, <3>1, Least
      <3>3. k \in E
        BY <2>2, <2>4, <3>2
      <3> QED BY <2>1, <3>3
    <2> QED BY <2>3, <2>4
  <1>5. Sound(Drop(b, k))
    BY <1>1, <1>4, DropSound
  <1>6. PICK z : z = SubSeq(d, 1, k)
    OBVIOUS
  <1>7. z \in Seq(Units)
    <2>1. 0 \in Nat /\ k \in 0..Len(d) /\ 0 + 1 = 1
      BY <1>4
    <2>2. SubSeq(d, 0 + 1, k) \in Seq(Units)
      BY <1>2, <2>1, Window
    <2> QED BY <1>6, <2>1, <2>2
  <1>8. Sound(Put(sb, Fitting(sb, z)))
    <2>1. Sound(sb) /\ Units \subseteq Units
      BY DEF Filled
    <2>2. Fitting(sb, z) \in Seq(Units) /\ Len(Fitting(sb, z)) <= Room(sb)
      BY <1>7, <2>1, FittingFits
    <2> QED BY <2>1, <2>2, PutSound
  <1> QED BY <1>1, <1>3, <1>4, <1>5, <1>6, <1>8

\* request_marshall only puts into a buffer what fits it.
LEMMA MarshallingFits ==
  ASSUME WrittenIsSent, NEW b, Sound(b), NEW rs \in Seq(0..Len(sent)), NEW m, m = Marshalled(b, rs)
  PROVE  Sound(m.buf) /\ m.count \in 0..Len(rs)
  <1>1. Room(b) \in Nat
    BY RoomIs
  <1>2. PICK n \in 0..Len(rs) :
          /\ m = [buf |-> Put(b, LinesOf(SubSeq(rs, 1, n))), count |-> n]
          /\ SubSeq(rs, 1, n) \in Seq(0..Len(sent)) /\ Len(LinesOf(SubSeq(rs, 1, n))) <= Room(b)
    BY <1>1, MarshalledIs
  <1>3. PICK s, x, T : s = SubSeq(rs, 1, n) /\ x = LinesOf(s) /\ T = 0..Len(sent)
    OBVIOUS
  <1>4. T \in SUBSET (0..Len(sent)) /\ s \in Seq(T)
    BY <1>2, <1>3
  <1>5. x \in Seq(UnitsOf(T))
    BY <1>3, <1>4, LinesOfConcat
  <1>6. x \in Seq(Units)
    <2>1. UnitsOf(T) \subseteq Units
      BY DEF UnitsOf, Units
    <2> QED BY <1>5, <2>1, SeqMonotonic
  <1>7. m = [buf |-> Put(b, x), count |-> n] /\ Len(x) <= Room(b)
    BY <1>2, <1>3
  <1>8. Sound(Put(b, x))
    BY <1>6, <1>7, PutSound
  <1> QED BY <1>7, <1>8

\* What a call of request_to_buffer returns.
LEMMA CallFits ==
  ASSUME ClientInv, Filled, ~IsEmpty(queue), (pipelining \/ pend # Null) => ~Dangling(queue),
         NEW call, call = RequestToBuffer
  PROVE  /\ Sound(call.buf) /\ call.ret \in 0..Len(sent)
         /\ CursorTyped(queue) => CursorTyped(call.queue)
  <1>1. PICK s : s = queue.nodes
    OBVIOUS
  <1>2. s \in Seq(0..Len(sent)) /\ Len(s) \in Nat /\ s # <<>> /\ WrittenIsSent
    BY <1>1, NodesAre DEF ClientInv, IsEmpty
  <1>3. Null \in 0..Len(sent) /\ Sound(wb) /\ pend \in 0..Len(sent) /\ 0..Len(sent) \subseteq 0..MaxCommands
    <2>1. Len(sent) \in Nat /\ Len(sent) <= MaxCommands /\ MaxCommands \in Nat
      BY <1>2, LenProperties, SessionAssumption DEF WrittenIsSent
    <2> QED BY <2>1 DEF Null, Filled
  <1>30. PeekData(queue) \in 0..Len(sent)
    <2>1. PeekData(queue) = Head(s) /\ Len(s) > 0
      BY <1>1, <1>2, EmptySeq DEF PeekData, IsEmpty
    <2>2. PeekData(queue) = s[1] /\ 1 \in 1..Len(s)
      BY <1>2, <2>1
    <2> QED BY <1>2, <2>2, ElementOfSeq
  <1>4. CASE pend = Null /\ ~pipelining
    <2>1. PICK r : r = PeekData(queue)
      OBVIOUS
    <2>2. r \in 0..Len(sent)
      BY <1>30, <2>1
    <2>3. PICK rs, m : rs = <<r>> /\ m = Marshalled(wb, rs)
      OBVIOUS
    <2>4. rs \in Seq(0..Len(sent))
      BY <2>2, <2>3
    <2>5. Sound(m.buf)
      BY <1>2, <1>3, <2>3, <2>4, MarshallingFits
    <2>6. call = [buf |-> m.buf, queue |-> queue, ret |-> IF m.count = 1 THEN Null ELSE r]
      BY <1>4, <2>1, <2>3 DEF RequestToBuffer
    <2> QED BY <1>3, <2>2, <2>5, <2>6
  <1>5. CASE ~(pend = Null /\ ~pipelining)
    <2>1. PICK b : b = IF pend = Null THEN wb ELSE Marshalled(wb, <<pend>>).buf
      OBVIOUS
    <2>2. Sound(b)
      <3>1. PICK rs, m : rs = <<pend>> /\ m = Marshalled(wb, rs)
        OBVIOUS
      <3>2. rs \in Seq(0..Len(sent))
        BY <1>3, <3>1
      <3>3. Sound(m.buf)
        BY <1>2, <1>3, <3>1, <3>2, MarshallingFits
      <3> QED BY <1>3, <2>1, <3>1, <3>3
    <2>3. PICK rest : rest = FromCurrent(queue)
      OBVIOUS
    <2>4. rest \in Seq(0..Len(sent)) /\ Len(rest) \in Nat
      <3>1. CASE queue.current = Null
        BY <2>3, <3>1, EmptySeq, LenProperties DEF FromCurrent
      <3>2. CASE queue.current # Null
        <4>1. \E i \in 1..Len(s) : s[i] = queue.current
          BY <1>1, <1>5, <3>2 DEF Dangling, Holds
        <4>2. PICK at : at = CHOOSE i \in 1..Len(s) : s[i] = queue.current
          OBVIOUS
        <4>3. at \in 1..Len(s)
          BY <4>1, <4>2
        <4>4. rest = SubSeq(s, at, Len(s))
          BY <1>1, <2>3, <3>2, <4>2 DEF FromCurrent
        <4>5. at - 1 \in Nat /\ (at - 1) + 1 = at /\ Len(s) \in (at - 1)..Len(s)
          BY <1>2, <4>3
        <4>6. SubSeq(s, (at - 1) + 1, Len(s)) \in Seq(0..Len(sent))
          BY <1>2, <4>5, Window
        <4> QED BY <4>4, <4>5, <4>6, LenProperties
      <3> QED BY <3>1, <3>2
    <2>5. PICK m : m = Marshalled(b, rest)
      OBVIOUS
    <2>6. Sound(m.buf) /\ m.count \in 0..Len(rest)
      BY <1>2, <2>2, <2>4, <2>5, MarshallingFits
    <2>7. call = IF m.count = Len(rest)
                 THEN [buf |-> m.buf, queue |-> Rewind(queue), ret |-> Null]
                 ELSE [buf |-> m.buf, queue |-> Walked(queue, m.count + 1), ret |-> rest[m.count + 1]]
      BY <1>5, <2>1, <2>3, <2>5 DEF RequestToBuffer
    <2>8. CASE m.count = Len(rest)
      <3>1. call.buf = m.buf /\ call.queue = Rewind(queue) /\ call.ret = Null
        BY <2>7, <2>8
      <3>2. PeekData(queue) \in 0..MaxCommands
        BY <1>3, <1>30
      <3>3. CursorTyped(queue) => CursorTyped(Rewind(queue))
        BY <3>2, CursorMoves DEF Rewind
      <3> QED BY <1>3, <2>6, <3>1, <3>3
    <2>9. CASE m.count # Len(rest)
      <3>1. m.count + 1 \in 1..Len(rest)
        BY <2>4, <2>6, <2>9
      <3>2. rest[m.count + 1] \in 0..Len(sent)
        BY <2>4, <3>1, ElementOfSeq
      <3>3. PICK c : c = IF m.count + 1 < Len(rest) THEN rest[(m.count + 1) + 1] ELSE Null
        OBVIOUS
      <3>4. c \in 0..MaxCommands
        <4>1. CASE m.count + 1 < Len(rest)
          <5>1. (m.count + 1) + 1 \in 1..Len(rest)
            BY <2>4, <2>6, <4>1
          <5>2. rest[(m.count + 1) + 1] \in 0..Len(sent)
            BY <2>4, <5>1, ElementOfSeq
          <5> QED BY <1>3, <3>3, <4>1, <5>2
        <4>2. CASE ~(m.count + 1 < Len(rest))
          BY <1>3, <3>3, <4>2
        <4> QED BY <4>1, <4>2
      <3>5. Walked(queue, m.count + 1) = [queue EXCEPT !.current = c]
        BY <2>3, <3>3 DEF Walked
      <3>6. CursorTyped(queue) => CursorTyped(Walked(queue, m.count + 1))
        BY <3>4, <3>5, CursorMoves
      <3>7. call.buf = m.buf /\ call.queue = Walked(queue, m.count + 1) /\ call.ret = rest[m.count + 1]
        BY <2>7, <2>9
      <3> QED BY <2>6, <3>2, <3>6, <3>7
    <2> QED BY <2>8, <2>9
  <1> QED BY <1>4, <1>5

\* What one send leaves, and adds to what the origin was sent.
LEMMA SendFits ==
  ASSUME Filled, NEW b, Sound(b), NEW n \in ToOriginSends(Len(b.data))
  PROVE  /\ Sound(IF n = -1 THEN b ELSE Drop(b, n))
         /\ n # -1 => /\ forwarded \o SubSeq(b.data, 1, n) \in Seq(Units)
                      /\ taken \in 0..Len(forwarded \o SubSeq(b.data, 1, n))
                      /\ Len(forwarded \o SubSeq(b.data, 1, n)) - taken <= SockCap
  <1>1. PICK f, c : f = Len(forwarded) /\ c = Len(b.data)
    OBVIOUS
  <1>2. /\ forwarded \in Seq(Units) /\ f \in Nat /\ taken \in 0..f /\ f - taken <= SockCap
        /\ SockCap \in Nat /\ b.data \in Seq(Units) /\ c \in Nat
    BY <1>1, RoomIs, LenProperties, SessionAssumption DEF Filled
  <1>3. CASE n = -1
    BY <1>3
  <1>4. CASE n # -1
    <2>1. n = Min2(c, SockCap - (f - taken))
      BY <1>1, <1>4 DEF ToOriginSends
    <2>2. n \in 0..c /\ f + n \in Nat /\ taken \in 0..(f + n) /\ (f + n) - taken <= SockCap
      BY <1>2, <2>1 DEF Min2
    <2>3. Sound(Drop(b, n))
      BY <1>1, <2>2, DropSound
    <2>4. PICK x : x = SubSeq(b.data, 1, n)
      OBVIOUS
    <2>5. x \in Seq(Units) /\ Len(x) = n
      <3>1. 0 \in Nat /\ n \in 0..Len(b.data) /\ 0 + 1 = 1 /\ n - 0 = n
        BY <1>1, <1>2, <2>2
      <3>2. SubSeq(b.data, 0 + 1, n) \in Seq(Units) /\ Len(SubSeq(b.data, 0 + 1, n)) = n - 0
        BY <1>2, <3>1, Window
      <3> QED BY <2>4, <3>1, <3>2
    <2>6. forwarded \o x \in Seq(Units) /\ Len(forwarded \o x) = f + n
      BY <1>1, <1>2, <2>5, ConcatProperties
    <2> QED BY <1>4, <2>2, <2>3, <2>4, <2>6
  <1> QED BY <1>3, <1>4

LEMMA LeadsOn ==
  ASSUME NEW side, NEW o, Leave(side, o)
  PROVE  state' \in Welcoming => state' = o.next
  <1>1. "CLOSED" \notin Welcoming
    BY DEF Welcoming
  <1> QED BY <1>1 DEF Leave

\* What is not written to the origin leaves its side as it is.
LEMMA FilledKept ==
  ASSUME ClientInv, Filled, Sound(wb'), Sound(sb'), stage' \in {"status", "body", "done"}, pend' = pend,
         sent' = sent, UNCHANGED <<replies, forwarded, taken>>, fetched' \in 0..Len(replies),
         state' \in Welcoming => state \in Welcoming
  PROVE  Filled'
  BY DEF Filled

\* The steps of the peers, and those that touch neither buffer.
LEMMA PeerFills ==
  ASSUME ClientInv, Filled, ClientSend \/ ClientEnds \/ OriginEnds \/ UNCHANGED vars
  PROVE  Filled'
  <1>1. /\ UNCHANGED <<wb, sb, stage, pend, replies, fetched, forwarded, taken, state>>
        /\ Len(sent) \in Nat /\ Len(sent') \in Nat /\ Len(sent) <= Len(sent')
    <2>1. sent \in Seq(Command) /\ Len(sent) \in Nat
      BY LenProperties DEF ClientInv, WrittenIsSent
    <2>2. CASE ClientSend
      <3>1. PICK kind \in Kinds, size \in LineSizes : sent' = Append(sent, [kind |-> kind, size |-> size])
        BY <2>2 DEF ClientSend
      <3>2. PICK c \in Command : sent' = Append(sent, c)
        BY <3>1 DEF Command
      <3>3. Len(sent') = Len(sent) + 1
        BY <2>1, <3>2, AppendProperties
      <3> QED BY <2>1, <2>2, <3>3 DEF ClientSend, proxyVars, originVars
    <2>3. CASE ClientEnds \/ OriginEnds \/ UNCHANGED vars
      BY <2>1, <2>3 DEF ClientEnds, OriginEnds, vars, proxyVars, clientVars, originVars
    <2> QED BY <2>2, <2>3
  <1>2. pend \in 0..Len(sent')
    BY <1>1 DEF Filled
  <1> QED BY <1>1, <1>2 DEF Filled

LEMMA QuietFills ==
  ASSUME ClientInv, Filled, Refused \/ Connected \/ RequestReadStep
  PROVE  Filled'
  <1>1. UNCHANGED <<wb, sb, stage, pend, replies, fetched, forwarded, taken, sent>>
    BY DEF Refused, Connected, RequestReadStep, originVars, clientVars
  <1>2. state' \in Welcoming => state \in Welcoming
    <2>1. CASE Refused \/ Connected
      BY <2>1 DEF Refused, Connected, On, Welcoming
    <2>2. CASE RequestReadStep
      <3>1. \E o \in RequestRead : Leave(1, o)
        BY <2>2 DEF RequestReadStep, ProcessRequest, RequestRead
      <3>2. PICK o \in RequestRead : Leave(1, o)
        BY <3>1
      <3>3. o.next \in {"ERROR", "DONE", "REQUEST"}
        BY DEF RequestRead, Fail, Stay, ToOrigin, Outcome
      <3> QED BY <3>2, <3>3, LeadsOn DEF Welcoming
    <2> QED BY <2>1, <2>2
  <1> QED BY <1>1, <1>2 DEF Filled

LEMMA WelcomeReadFills ==
  ASSUME ClientInv, Filled, WelcomeReadStep
  PROVE  Filled'
  <1>1. PICK n \in FromOrigin(Room(wb)) :
          IF n > 0 THEN wb' = Put(wb, Slice(replies, fetched, n)) /\ fetched' = fetched + n
          ELSE UNCHANGED <<wb, fetched>>
    BY DEF WelcomeReadStep
  <1>2. /\ UNCHANGED <<sb, stage, pend, replies, forwarded, taken, sent>>
        /\ state \in Welcoming
    BY DEF WelcomeReadStep, clientVars, On, Welcoming
  <1>3. PICK got, b : got = (IF n > 0 THEN n ELSE 0) /\ b = Put(wb, Slice(replies, fetched, got))
    OBVIOUS
  <1>4. Sound(b) /\ fetched + got \in 0..Len(replies)
    BY <1>3, ReceiveFits
  <1>5. Sound(wb') /\ fetched' \in 0..Len(replies)
    BY <1>1, <1>3, <1>4 DEF Filled
  <1> QED BY <1>2, <1>5, FilledKept DEF Filled

LEMMA WelcomeWriteFills ==
  ASSUME ClientInv, Filled, WelcomeWriteStep
  PROVE  Filled'
  <1>1. PICK n \in ToClientSends(Len(wb.data)) :
          IF n = -1 THEN Leave(1, Fail) /\ UNCHANGED <<wb, request, stage, fault, delivered, forwarded>>
          ELSE /\ wb' = Drop(wb, n)
               /\ IF state' = "CAPA" THEN forwarded' = forwarded \o Line(Capa) /\ stage' = "status"
                  ELSE UNCHANGED <<stage, forwarded>>
    BY DEF WelcomeWriteStep
  <1>2. UNCHANGED <<sb, pend, replies, fetched, taken, sent>> /\ state = "WELCOME_WRITE"
    BY DEF WelcomeWriteStep, On
  <1>3. Sound(wb')
    <2>1. CASE n = -1
      BY <1>1, <2>1 DEF Filled
    <2>2. CASE n # -1
      <3>1. Sound(wb)
        BY DEF Filled
      <3>2. Sound(Drop(wb, n))
        BY <2>2, <3>1, Writing
      <3> QED BY <1>1, <2>2, <3>2
    <2> QED BY <2>1, <2>2
  <1>4. state \in Welcoming /\ "CAPA" \notin Welcoming
    BY <1>2 DEF Welcoming
  <1>5. stage' \in {"status", "body", "done"}
    BY <1>1 DEF Filled
  <1>6. CASE n = -1 \/ state' # "CAPA"
    BY <1>1, <1>2, <1>3, <1>4, <1>5, <1>6, FilledKept DEF Filled
  <1>7. CASE n # -1 /\ state' = "CAPA"
    <2>1. forwarded = <<>> /\ forwarded' = forwarded \o Line(Capa)
      BY <1>1, <1>4, <1>7 DEF Filled
    <2>2. Line(Capa) \in Seq(UnitsOf({Capa})) /\ Len(Line(Capa)) = 1
      <3>1. WrittenIsSent /\ Capa \in 0..Len(sent)
        BY ChainRises DEF ClientInv, Capa
      <3>2. Size(Capa) = 1
        BY DEF Size
      <3> QED BY <3>1, <3>2, LineIs
    <2>3. Line(Capa) \in Seq(Units)
      <3>1. UnitsOf({Capa}) \subseteq Units
        BY DEF UnitsOf, Units
      <3> QED BY <2>2, <3>1, SeqMonotonic
    <2>4. forwarded' = Line(Capa)
      BY <2>1, <2>3, ConcatEmptySeq
    <2>5. taken \in 0..0 /\ SockCap \in Nat \ {0}
      BY <2>1, EmptySeq, SessionAssumption DEF Filled
    <2>6. taken' \in 0..Len(forwarded') /\ Len(forwarded') - taken' <= SockCap
      <3>1. PICK g : g = Len(forwarded') /\ g = 1
        BY <2>2, <2>4
      <3>2. taken' = 0 /\ 1 - 0 <= SockCap /\ 0 \in 0..1
        BY <1>2, <2>5
      <3>3. taken' \in 0..g /\ g - taken' <= SockCap
        BY <3>1, <3>2
      <3> QED BY <3>1, <3>3
    <2> QED BY <1>2, <1>3, <1>4, <1>5, <1>7, <2>3, <2>4, <2>6 DEF Filled
  <1> QED BY <1>6, <1>7

LEMMA CapaReadFills ==
  ASSUME ClientInv, Filled, CapaReadStep
  PROVE  Filled'
  <1>1. /\ UNCHANGED <<pend, replies, forwarded, taken, sent>>
        /\ state' \in Welcoming => state \in Welcoming
    <2>1. \E o \in CapaRead : Leave(2, o)
      BY DEF CapaReadStep, CapaRead
    <2>2. PICK o \in CapaRead : Leave(2, o)
      BY <2>1
    <2>3. o.next \in {"ERROR", "CAPA", "REQUEST"}
      BY DEF CapaRead, Fail, FailMute, Stay, ToClient, Outcome
    <2> QED BY <2>2, <2>3, LeadsOn DEF CapaReadStep, Welcoming
  <1>2. PICK n \in FromOrigin(Room(wb)) :
          IF n <= 0 THEN UNCHANGED <<wb, sb, stage, fetched>>
          ELSE LET b  == Put(wb, Slice(replies, fetched, n))
                   k  == Consumed(b.data)
                   st == StageAfter(b.data)[k] IN
               /\ fetched' = fetched + n
               /\ wb' = Drop(b, k)
               /\ IF st = "error" THEN UNCHANGED <<sb, stage>>
                  ELSE stage' = st /\ sb' \in {EmptyBuffer, Put(sb, Fitting(sb, SubSeq(b.data, 1, k)))}
    BY DEF CapaReadStep
  <1>3. CASE n <= 0
    BY <1>1, <1>2, <1>3, FilledKept DEF Filled
  <1>4. CASE ~(n <= 0)
    <2>1. PICK b, k, st : /\ b = Put(wb, Slice(replies, fetched, n)) /\ k = Consumed(b.data)
                          /\ st = StageAfter(b.data)[k]
      OBVIOUS
    <2>2. /\ fetched' = fetched + n /\ wb' = Drop(b, k)
          /\ IF st = "error" THEN UNCHANGED <<sb, stage>>
             ELSE stage' = st /\ sb' \in {EmptyBuffer, Put(sb, Fitting(sb, SubSeq(b.data, 1, k)))}
      BY <1>2, <1>4, <2>1
    <2>3. Sound(b) /\ fetched + n \in 0..Len(replies)
      <3>1. n > 0
        <4>1. n \in Int
          <5>1. Room(wb) \in Nat /\ Len(replies) \in Nat /\ fetched \in Nat
            BY RoomIs, LenProperties DEF Filled
          <5> QED BY <5>1 DEF FromOrigin, Received, Min2
        <4> QED BY <1>4, <4>1
      <3>2. n = IF n > 0 THEN n ELSE 0
        BY <3>1
      <3> QED BY <2>1, <3>2, ReceiveFits
    <2>4. Sound(Drop(b, k)) /\ Sound(Put(sb, Fitting(sb, SubSeq(b.data, 1, k)))) /\ st \in ParserStages
      BY <2>1, <2>3, ConsumptionFits
    <2>5. Sound(wb') /\ Sound(sb') /\ stage' \in {"status", "body", "done"}
      BY <2>2, <2>4, EmptySound DEF Filled, ParserStages
    <2> QED BY <1>1, <2>2, <2>3, <2>5, FilledKept
  <1> QED BY <1>3, <1>4

LEMMA RequestWriteFills ==
  ASSUME ClientInv, Filled, RequestWriteStep
  PROVE  Filled'
  <1>1. UNCHANGED <<sb, replies, fetched, taken, sent>> /\ state = "REQUEST"
    BY DEF RequestWriteStep, clientVars
  <1>2. CASE IsEmpty(queue) \/ ((pipelining \/ pend # Null) /\ Dangling(queue))
    <2>1. UNCHANGED <<state, wb, pend, stage, forwarded>>
      BY <1>2 DEF RequestWriteStep
    <2> QED BY <1>1, <2>1, FilledKept DEF Filled
  <1>3. CASE ~(IsEmpty(queue) \/ ((pipelining \/ pend # Null) /\ Dangling(queue)))
    <2>1. PICK call : call = RequestToBuffer
      OBVIOUS
    <2>2. Sound(call.buf) /\ call.ret \in 0..Len(sent)
      BY <1>3, <2>1, CallFits
    <2>3. PICK n \in ToOriginSends(Len(call.buf.data)) :
            LET left == IF n = -1 THEN call.buf ELSE Drop(call.buf, n) IN
            /\ wb' = left
            /\ forwarded' = IF n = -1 THEN forwarded ELSE forwarded \o SubSeq(call.buf.data, 1, n)
            /\ pend' = call.ret
            /\ IF call.ret # Null THEN UNCHANGED <<state, stage>>
               ELSE IF n = -1 THEN Leave(2, Fail) /\ UNCHANGED stage
               ELSE IF CanRead(left) THEN Leave(2, Stay("REQUEST")) /\ UNCHANGED stage
               ELSE NextResponse(call.queue) /\ Leave(2, Outcome("RESPONSE", "READ", "KEEP", "KEEP"))
      BY <1>3, <2>1 DEF RequestWriteStep
    <2>4. Sound(wb') /\ pend' \in 0..Len(sent')
      BY <1>1, <2>2, <2>3, SendFits
    <2>5. forwarded' \in Seq(Units) /\ taken \in 0..Len(forwarded') /\ Len(forwarded') - taken <= SockCap
      <3>1. CASE n = -1
        BY <2>3, <3>1 DEF Filled
      <3>2. CASE n # -1
        BY <2>2, <2>3, <3>2, SendFits
      <3> QED BY <3>1, <3>2
    <2>6. stage' \in {"status", "body", "done"}
      BY <2>3 DEF NextResponse, Filled
    <2>7. state' \notin Welcoming
      <3>1. state' = "REQUEST" \/ \E o \in RequestWrite : Leave(2, o)
        BY <1>1, <2>3 DEF RequestWrite
      <3>2. \A o \in RequestWrite : o.next \in {"ERROR", "REQUEST", "RESPONSE"}
        BY DEF RequestWrite, Fail, Stay, Outcome
      <3> QED BY <3>1, <3>2, LeadsOn DEF Welcoming
    <2>8. Sound(sb') /\ replies' \in Seq(ReplyUnits) /\ fetched' \in 0..Len(replies')
      BY <1>1 DEF Filled
    <2> QED BY <1>1, <2>4, <2>5, <2>6, <2>7, <2>8 DEF Filled
  <1> QED BY <1>2, <1>3

LEMMA ResponseReadFills ==
  ASSUME ClientInv, Filled, ResponseReadStep
  PROVE  Filled'
  <1>1. /\ UNCHANGED <<pend, replies, forwarded, taken, sent>>
        /\ state' \in Welcoming => state \in Welcoming
    <2>1. \E o \in ResponseRead : Leave(2, o)
      BY DEF ResponseReadStep, ResponseRead
    <2>2. PICK o \in ResponseRead : Leave(2, o)
      BY <2>1
    <2>3. o.next \in {"ERROR", "RESPONSE"}
      BY DEF ResponseRead, Fail, FailMute, Stay, ToClient, Outcome
    <2> QED BY <2>2, <2>3, LeadsOn DEF ResponseReadStep, Welcoming
  <1>2. PICK n \in FromOrigin(Room(wb)) :
          IF n <= 0 /\ ~CanRead(wb) THEN UNCHANGED <<wb, sb, stage, fetched>>
          ELSE LET got == IF n > 0 THEN n ELSE 0
                   b   == Put(wb, Slice(replies, fetched, got))
                   k   == Consumed(b.data)
                   st  == StageAfter(b.data)[k] IN
               /\ fetched' = fetched + got
               /\ wb' = Drop(b, k)
               /\ IF st = "error" THEN UNCHANGED <<sb, stage>>
                  ELSE stage' = st /\ sb' = Put(sb, Fitting(sb, SubSeq(b.data, 1, k)))
    BY DEF ResponseReadStep
  <1>3. CASE n <= 0 /\ ~CanRead(wb)
    BY <1>1, <1>2, <1>3, FilledKept DEF Filled
  <1>4. CASE ~(n <= 0 /\ ~CanRead(wb))
    <2>1. PICK got, b, k, st : /\ got = (IF n > 0 THEN n ELSE 0)
                               /\ b = Put(wb, Slice(replies, fetched, got)) /\ k = Consumed(b.data)
                               /\ st = StageAfter(b.data)[k]
      OBVIOUS
    <2>2. /\ fetched' = fetched + got /\ wb' = Drop(b, k)
          /\ IF st = "error" THEN UNCHANGED <<sb, stage>>
             ELSE stage' = st /\ sb' = Put(sb, Fitting(sb, SubSeq(b.data, 1, k)))
      BY <1>2, <1>4, <2>1
    <2>3. Sound(b) /\ fetched + got \in 0..Len(replies)
      BY <2>1, ReceiveFits
    <2>4. Sound(Drop(b, k)) /\ Sound(Put(sb, Fitting(sb, SubSeq(b.data, 1, k)))) /\ st \in ParserStages
      BY <2>1, <2>3, ConsumptionFits
    <2>5. Sound(wb') /\ Sound(sb') /\ stage' \in {"status", "body", "done"}
      BY <2>2, <2>4 DEF Filled, ParserStages
    <2> QED BY <1>1, <2>2, <2>3, <2>5, FilledKept
  <1> QED BY <1>3, <1>4

LEMMA ResponseWriteFills ==
  ASSUME ClientInv, Filled, ResponseWriteStep
  PROVE  Filled'
  <1>1. UNCHANGED <<wb, pend, replies, fetched, forwarded, taken, sent>>
    BY DEF ResponseWriteStep, originVars
  <1>2. PICK n \in ToClientSends(Len(sb.data)) :
          IF n = -1 THEN UNCHANGED <<sb, stage>>
          ELSE sb' = Drop(sb, n) /\ stage' \in {stage, "status"}
    BY DEF ResponseWriteStep, ProcessResponse, NextResponse
  <1>3. Sound(sb') /\ Sound(wb') /\ stage' \in {"status", "body", "done"}
    <2>1. Sound(sb) /\ Sound(wb) /\ stage \in {"status", "body", "done"}
      BY DEF Filled
    <2>2. n # -1 => Sound(Drop(sb, n))
      BY <2>1, Writing
    <2> QED BY <1>1, <1>2, <2>1, <2>2
  <1>4. state' \in Welcoming => state \in Welcoming
    <2>1. \E o \in ResponseWrite : Leave(1, o)
      BY DEF ResponseWriteStep, ProcessResponse, ResponseWrite, ReplyWritten
    <2>2. \A o \in ResponseWrite : o.next \in {"ERROR", "DONE", "RESPONSE", "REQUEST"}
      BY DEF ResponseWrite, ReplyWritten, Fail, FailMute, Stay, ToOrigin, Outcome
    <2> QED BY <2>1, <2>2, LeadsOn DEF Welcoming
  <1> QED BY <1>1, <1>3, <1>4, FilledKept DEF Filled

\* What the origin answers, for a line of any command.
LEMMA ReplyTyped ==
  ASSUME NEW r \in Ids, NEW status \in StatusSet, NEW size \in ReplySizes
  PROVE  Reply(r, status, size) \in Seq(ReplyUnits)
  <1>1. CASE ~MultiLine(r, status)
    <2>1. PICK u : u = ReplyUnit(r, "status", status)
      OBVIOUS
    <2>2. u \in ReplyUnits
      BY <2>1 DEF ReplyUnit, ReplyUnits
    <2>3. Reply(r, status, size) = <<u>>
      BY <1>1, <2>1 DEF Reply
    <2> QED BY <2>2, <2>3
  <1>2. CASE MultiLine(r, status)
    <2>1. PICK m : m = IF Kind(r) = "capa" /\ offers THEN "pipe" ELSE "none"
      OBVIOUS
    <2>2. PICK a, b, c : a = ReplyUnit(r, "status", status) /\ b = ReplyUnit(r, "body", "none")
                         /\ c = ReplyUnit(r, "end", m)
      OBVIOUS
    <2>3. a \in ReplyUnits /\ b \in ReplyUnits /\ c \in ReplyUnits
      BY <2>1, <2>2 DEF ReplyUnit, ReplyUnits
    <2>4. Reply(r, status, size) = [k \in 1..size |-> IF k = 1 THEN a ELSE IF k < size THEN b ELSE c]
      BY <1>2, <2>1, <2>2 DEF Reply
    <2>5. PICK S, l : S = ReplyUnits /\ l = size
      OBVIOUS
    <2>6. [k \in 1..l |-> IF k = 1 THEN a ELSE IF k < l THEN b ELSE c] \in Seq(S)
      <3>1. a \in S /\ b \in S /\ c \in S /\ l \in Nat
        BY <2>3, <2>5, SessionAssumption
      <3> QED BY ONLY <3>1
    <2> QED BY <2>4, <2>5, <2>6
  <1> QED BY <1>1, <1>2

LEMMA ServeFills ==
  ASSUME ClientInv, Filled, OriginServe
  PROVE  Filled'
  <1>1. UNCHANGED <<wb, sb, stage, pend, fetched, forwarded, sent, state>>
    BY DEF OriginServe, proxyVars, clientVars
  <1>2. PICK n \in 1..(Len(forwarded) - taken) :
          LET u == forwarded[taken + n] IN
          /\ EndsLine(u) /\ taken' = taken + n
          /\ \E status \in IF u.id = Capa THEN CapaStatuses ELSE StatusSet, size \in ReplySizes :
               replies' = replies \o Reply(u.id, status, size)
    BY DEF OriginServe
  <1>3. PICK u : u = forwarded[taken + n]
    OBVIOUS
  <1>4. /\ forwarded \in Seq(Units) /\ Len(forwarded) \in Nat /\ taken \in 0..Len(forwarded)
        /\ Len(forwarded) - taken <= SockCap /\ replies \in Seq(ReplyUnits) /\ fetched \in 0..Len(replies)
        /\ SockCap \in Nat
    BY LenProperties, SessionAssumption DEF Filled
  <1>5. taken + n \in 1..Len(forwarded) /\ taken + n \in 0..Len(forwarded) /\ Len(forwarded) - (taken + n) <= SockCap
    BY <1>4
  <1>6. u.id \in Ids
    <2>1. u \in Units /\ EndsLine(u)
      BY <1>2, <1>3, <1>4, <1>5, ElementOfSeq
    <2> QED BY <2>1 DEF Units, LineUnits, ReplyUnits
  <1>7. PICK status \in StatusSet, size \in ReplySizes : replies' = replies \o Reply(u.id, status, size)
    BY <1>2, <1>3, SessionAssumption
  <1>8. PICK x : x = Reply(u.id, status, size)
    OBVIOUS
  <1>9. x \in Seq(ReplyUnits)
    BY <1>6, <1>8, ReplyTyped
  <1>10. replies' \in Seq(ReplyUnits) /\ Len(replies') = Len(replies) + Len(x)
    BY <1>4, <1>7, <1>8, <1>9, ConcatProperties
  <1>11. fetched' \in 0..Len(replies')
    BY <1>1, <1>4, <1>9, <1>10, LenProperties
  <1>12. taken' \in 0..Len(forwarded') /\ Len(forwarded') - taken' <= SockCap
    BY <1>1, <1>2, <1>5
  <1> QED BY <1>1, <1>10, <1>11, <1>12 DEF Filled

LEMMA FilledInit == Init => Filled
  <1> SUFFICES ASSUME Init PROVE Filled
    OBVIOUS
  <1>1. /\ wb = EmptyBuffer /\ sb = EmptyBuffer /\ stage = "status" /\ pend = Null /\ sent = <<>>
        /\ forwarded = <<>> /\ taken = 0 /\ fetched = 0 /\ SockCap \in Nat
    BY SessionAssumption DEF Init
  <1>2. PICK n \in BannerSizes : replies = [k \in 1..n |-> ReplyUnit(Banner, "greeting", "none")]
    BY DEF Init
  <1>3. PICK u, S, l : u = ReplyUnit(Banner, "greeting", "none") /\ S = ReplyUnits /\ l = n
    OBVIOUS
  <1>4. u \in S /\ l \in Nat
    BY <1>3, SessionAssumption DEF ReplyUnit, ReplyUnits, Ids
  <1>5. [k \in 1..l |-> u] \in Seq(S)
    <2>1. u \in S /\ l \in Nat
      BY <1>4
    <2> QED BY ONLY <2>1
  <1>6. replies \in Seq(ReplyUnits)
    BY <1>2, <1>3, <1>5
  <1>7. <<>> \in Seq(Units) /\ Len(<<>>) = 0
    BY EmptySeq
  <1>8. pend \in 0..Len(sent) /\ taken \in 0..Len(forwarded) /\ Len(forwarded) - taken <= SockCap
    BY <1>1, <1>7 DEF Null
  <1>9. fetched \in 0..Len(replies)
    BY <1>1, <1>6, LenProperties
  <1>10. Sound(wb) /\ Sound(sb) /\ forwarded \in Seq(Units)
    BY <1>1, <1>7, EmptySound
  <1> QED BY <1>1, <1>6, <1>8, <1>9, <1>10 DEF Filled

LEMMA FilledStep == ClientInv /\ Filled /\ [Next]_vars => Filled'
  <1> SUFFICES ASSUME ClientInv, Filled, [Next]_vars PROVE Filled'
    OBVIOUS
  <1>1. CASE Refused \/ Connected \/ RequestReadStep
    BY <1>1, QuietFills
  <1>2. CASE WelcomeReadStep
    BY <1>2, WelcomeReadFills
  <1>3. CASE WelcomeWriteStep
    BY <1>3, WelcomeWriteFills
  <1>4. CASE CapaReadStep
    BY <1>4, CapaReadFills
  <1>5. CASE RequestWriteStep
    BY <1>5, RequestWriteFills
  <1>6. CASE ResponseReadStep
    BY <1>6, ResponseReadFills
  <1>7. CASE ResponseWriteStep
    BY <1>7, ResponseWriteFills
  <1>8. CASE ClientSend \/ ClientEnds \/ OriginEnds \/ UNCHANGED vars
    BY <1>8, PeerFills
  <1>9. CASE OriginServe
    BY <1>9, ServeFills
  <1> QED BY <1>1, <1>2, <1>3, <1>4, <1>5, <1>6, <1>7, <1>8, <1>9 DEF Next, Proxy

\* No handler writes past the end of read_buffer, write_buffer or super_buffer
\* (the assertions of buffer.c), however long the lines and short the writes.
THEOREM BuffersStayInBounds == Spec => []BuffersInBounds
  <1>1. Init => Filled
    BY FilledInit
  <1>2. ClientInv /\ Filled /\ [Next]_vars => Filled'
    BY FilledStep
  <1>3. ClientInv /\ Filled => BuffersInBounds
    <2>1. ASSUME ClientInv, Filled PROVE Sound(rb) /\ Sound(wb) /\ Sound(sb)
      BY <2>1 DEF ClientInv, ReadIsWritten, Filled
    <2> QED BY <2>1, BufferIs DEF BuffersInBounds
  <1>4. Spec => []ClientInv
    BY AlwaysClientInv
  <1> QED BY <1>1, <1>2, <1>3, <1>4, PTL DEF Spec

-----------------------------------------------------------------------------
(* Types.                                                                  *)

Plain ==
  /\ greeting \in BOOLEAN /\ pipelining \in BOOLEAN /\ offers \in BOOLEAN /\ cut \in BOOLEAN
  /\ clientEnd \in Ends /\ originEnd \in Ends /\ fault \in Faults \cup {"queue"}

\* The client is only sent what the origin has sent: write_buffer holds lines in
\* REQUEST only, and super_buffer never does.
OnlyReplies ==
  /\ delivered \in Seq(ReplyUnits) /\ sb.data \in Seq(ReplyUnits)
  /\ state \notin {"REQUEST", "CLOSED"} => wb.data \in Seq(ReplyUnits)

Typed == Plain /\ CursorTyped(queue) /\ OnlyReplies

LEMMA PlainStep == Plain /\ [Next]_vars => Plain'
  <1> SUFFICES ASSUME Plain, [Next]_vars PROVE Plain'
    OBVIOUS
  <1> USE DEF Plain, Ends, Faults, Broken, Tell, vars, proxyVars, clientVars, originVars
  <1>1. CASE Refused \/ Connected
    BY <1>1 DEF Refused, Connected
  <1>2. CASE WelcomeReadStep
    BY <1>2 DEF WelcomeReadStep
  <1>3. CASE WelcomeWriteStep
    BY <1>3 DEF WelcomeWriteStep
  <1>4. CASE CapaReadStep
    <2>1. UNCHANGED <<greeting, offers, cut, clientEnd, originEnd>>
      BY <1>4 DEF CapaReadStep
    <2>2. pipelining' \in BOOLEAN /\ fault' \in Faults
      BY <1>4 DEF CapaReadStep, CapaResult, On
    <2> QED BY <2>1, <2>2
  <1>5. CASE RequestReadStep
    <2>1. UNCHANGED <<greeting, pipelining, offers, cut, clientEnd, originEnd>>
      BY <1>5 DEF RequestReadStep
    <2>2. fault' \in Faults \cup {"queue"}
      BY <1>5 DEF RequestReadStep, ProcessRequest
    <2> QED BY <2>1, <2>2
  <1>6. CASE RequestWriteStep
    <2>1. UNCHANGED <<greeting, pipelining, offers, clientEnd, originEnd>>
      BY <1>6 DEF RequestWriteStep
    <2>2. fault' \in Faults \cup {"queue"} /\ cut' \in BOOLEAN
      BY <1>6 DEF RequestWriteStep, NextResponse
    <2> QED BY <2>1, <2>2
  <1>7. CASE ResponseReadStep
    <2>1. UNCHANGED <<greeting, offers, cut, clientEnd, originEnd>>
      BY <1>7 DEF ResponseReadStep
    <2>2. pipelining' \in BOOLEAN /\ fault' \in Faults \cup {"queue"}
      BY <1>7 DEF ResponseReadStep, CapaResult, On
    <2> QED BY <2>1, <2>2
  <1>8. CASE ResponseWriteStep
    <2>1. UNCHANGED <<greeting, pipelining, offers, cut, clientEnd, originEnd>>
      BY <1>8 DEF ResponseWriteStep
    <2>2. fault' \in Faults \cup {"queue"}
      <3>1. ASSUME NEW out, ProcessResponse(out) PROVE fault' \in Faults \cup {"queue"}
        BY <3>1 DEF ProcessResponse, NextResponse
      <3>2. fault' = fault \/ \E out : ProcessResponse(out)
        BY <1>8 DEF ResponseWriteStep
      <3> QED BY <3>1, <3>2
    <2> QED BY <2>1, <2>2
  <1>9. CASE ClientSend
    <2>1. UNCHANGED <<greeting, pipelining, offers, cut, fault, clientEnd, originEnd>>
      BY <1>9 DEF ClientSend
    <2> QED BY <2>1
  <1>10. CASE OriginServe
    <2>1. UNCHANGED <<greeting, pipelining, offers, cut, fault, clientEnd, originEnd>>
      BY <1>10 DEF OriginServe
    <2> QED BY <2>1
  <1>11. CASE ClientEnds \/ OriginEnds
    <2>1. UNCHANGED <<greeting, pipelining, offers, cut, fault>>
      BY <1>11 DEF ClientEnds, OriginEnds
    <2>2. clientEnd' \in Ends /\ originEnd' \in Ends
      BY <1>11 DEF ClientEnds, OriginEnds, Ending
    <2> QED BY <2>1, <2>2
  <1>12. CASE UNCHANGED vars
    BY <1>12
  <1> QED BY <1>1, <1>2, <1>3, <1>4, <1>5, <1>6, <1>7, <1>8, <1>9, <1>10, <1>11, <1>12 DEF Next, Proxy

\* The cursor of the queue is moved by request_read, request_write and
\* process_response.
LEMMA CursorStep ==
  ClientInv /\ ArmedFor /\ Filled /\ CursorTyped(queue) /\ [Next]_vars => CursorTyped(queue')
  <1> SUFFICES ASSUME ClientInv, ArmedFor, Filled, CursorTyped(queue), [Next]_vars PROVE CursorTyped(queue')
    OBVIOUS
  <1>1. CASE RequestReadStep
    <2>1. Accepting
      BY <1>1, RequestStep
    <2>2. CASE queue' = queue
      BY <2>2
    <2>3. CASE \E r \in 1..Len(sent) : queue' = Enqueue(queue, r)
      <3>1. PICK r \in 1..Len(sent) : queue' = Enqueue(queue, r)
        BY <2>3
      <3>2. r \in 0..MaxCommands
        <4>1. Len(sent) \in Nat /\ Len(sent) <= MaxCommands /\ MaxCommands \in Nat
          BY ChainRises, SessionAssumption DEF ClientInv, WrittenIsSent
        <4> QED BY <4>1
      <3>3. PICK n, c : n = Append(queue.nodes, r) /\ c = IF IsEmpty(queue) THEN r ELSE queue.current
        OBVIOUS
      <3>4. PICK x : x = queue' /\ x = [nodes |-> n, current |-> c]
        BY <3>1, <3>3 DEF Enqueue
      <3>5. x.nodes = n /\ x.current = c
        BY ONLY <3>4
      <3>6. c \in 0..MaxCommands
        BY <3>2, <3>3 DEF CursorTyped
      <3>7. CursorTyped(x)
        BY <3>4, <3>5, <3>6 DEF CursorTyped
      <3> QED BY <3>4, <3>7
    <2> QED BY <2>1, <2>2, <2>3 DEF Accepting
  <1>2. CASE RequestWriteStep
    <2>1. CASE IsEmpty(queue) \/ ((pipelining \/ pend # Null) /\ Dangling(queue))
      <3>1. queue' = queue
        BY <1>2, <2>1 DEF RequestWriteStep
      <3> QED BY <3>1
    <2>2. CASE ~(IsEmpty(queue) \/ ((pipelining \/ pend # Null) /\ Dangling(queue)))
      <3>1. PICK call : call = RequestToBuffer
        OBVIOUS
      <3>2. CursorTyped(call.queue)
        BY <2>2, <3>1, CallFits
      <3>3. queue' = call.queue \/ NextResponse(call.queue)
        BY <1>2, <2>2, <3>1 DEF RequestWriteStep
      <3>4. queue' \in {queue, call.queue, Dequeue(call.queue)}
        BY <3>3 DEF NextResponse
      <3> QED BY <3>2, <3>4, DequeueTyped
    <2> QED BY <2>1, <2>2
  <1>3. CASE ResponseWriteStep
    <2>1. queue' = queue \/ NextResponse(queue)
      BY <1>3 DEF ResponseWriteStep, ProcessResponse
    <2>2. queue' \in {queue, Dequeue(queue)}
      BY <2>1 DEF NextResponse
    <2> QED BY <2>2, DequeueTyped
  <1>4. CASE Refused \/ Connected \/ WelcomeReadStep \/ WelcomeWriteStep \/ CapaReadStep \/ ResponseReadStep
    <2>1. queue' = queue
      BY <1>4 DEF Refused, Connected, WelcomeReadStep, WelcomeWriteStep, CapaReadStep, ResponseReadStep
    <2> QED BY <2>1
  <1>5. CASE ClientSend \/ ClientEnds \/ OriginServe \/ OriginEnds \/ UNCHANGED vars
    <2>1. queue' = queue
      BY <1>5 DEF ClientSend, ClientEnds, OriginServe, OriginEnds, vars, proxyVars
    <2> QED BY <2>1
  <1> QED BY <1>1, <1>2, <1>3, <1>4, <1>5 DEF Next, Proxy

\* Parts of replies are parts of replies.
LEMMA RepliesCut ==
  ASSUME NEW b, Sound(b), b.data \in Seq(ReplyUnits), NEW k \in 0..Len(b.data)
  PROVE  SubSeq(b.data, 1, k) \in Seq(ReplyUnits) /\ Drop(b, k).data \in Seq(ReplyUnits)
  <1>1. PICK d, l : d = b.data /\ l = Len(b.data)
    OBVIOUS
  <1>2. d \in Seq(ReplyUnits) /\ l = Len(d) /\ l \in Nat
    BY <1>1, LenProperties
  <1>3. k \in 0..Len(d) /\ k \in Nat /\ l \in k..Len(d) /\ 0 \in Nat /\ 0 + 1 = 1
    BY <1>1, <1>2
  <1>4. SubSeq(d, 0 + 1, k) \in Seq(ReplyUnits) /\ SubSeq(d, k + 1, l) \in Seq(ReplyUnits)
    BY <1>2, <1>3, Window
  <1>5. Drop(b, k).data = SubSeq(d, k + 1, l)
    BY <1>1, DropSound
  <1> QED BY <1>1, <1>3, <1>4, <1>5

LEMMA RepliesPut ==
  ASSUME NEW b, Sound(b), b.data \in Seq(ReplyUnits), NEW x \in Seq(ReplyUnits)
  PROVE  Put(b, Fitting(b, x)).data \in Seq(ReplyUnits)
  <1>1. PICK y : y = Fitting(b, x)
    OBVIOUS
  <1>2. ReplyUnits \subseteq Units
    BY DEF Units
  <1>3. y \in Seq(ReplyUnits) /\ Len(y) <= Room(b)
    BY <1>1, <1>2, FittingFits
  <1>4. y \in Seq(Units)
    BY <1>3, RepliesAreUnits
  <1>5. Put(b, y).data = b.data \o y
    BY <1>3, <1>4, PutSound
  <1>6. b.data \o y \in Seq(ReplyUnits)
    BY <1>3, ConcatProperties
  <1> QED BY <1>1, <1>5, <1>6

LEMMA OnlyRepliesRead ==
  ASSUME ClientInv, ArmedFor, Filled, OnlyReplies, Refused \/ Connected \/ WelcomeReadStep \/ RequestReadStep
  PROVE  OnlyReplies'
  <1>1. CASE Refused \/ Connected
    <2>1. UNCHANGED <<wb, sb>> /\ state = "CONNECTING"
      BY <1>1 DEF Refused, Connected, On
    <2>2. delivered' = delivered \/ delivered' = delivered \o Notice(Capa)
      BY <1>1 DEF Refused, Connected, Tell, clientVars
    <2>3. Capa \in Ids
      BY DEF Ids
    <2>4. delivered' \in Seq(ReplyUnits)
      BY <2>2, <2>3, NoticeAdded DEF OnlyReplies
    <2> QED BY <2>1, <2>4 DEF OnlyReplies
  <1>2. CASE WelcomeReadStep
    <2>1. PICK n \in FromOrigin(Room(wb)) :
            IF n > 0 THEN wb' = Put(wb, Slice(replies, fetched, n)) ELSE wb' = wb
      BY <1>2 DEF WelcomeReadStep
    <2>2. PICK got, b : got = (IF n > 0 THEN n ELSE 0) /\ b = Put(wb, Slice(replies, fetched, got))
      OBVIOUS
    <2>3. wb.data \in Seq(ReplyUnits) => b.data \in Seq(ReplyUnits)
      BY <2>2, ReceiveFits
    <2>4. state = "WELCOME_READ" /\ UNCHANGED <<sb, delivered>>
      BY <1>2 DEF WelcomeReadStep, On, clientVars
    <2>5. wb.data \in Seq(ReplyUnits)
      BY <2>4 DEF OnlyReplies
    <2>6. wb'.data \in Seq(ReplyUnits)
      <3>1. CASE n > 0
        BY <2>1, <2>2, <2>3, <2>5, <3>1
      <3>2. CASE ~(n > 0)
        BY <2>1, <2>5, <3>2
      <3> QED BY <3>1, <3>2
    <2> QED BY <2>4, <2>6 DEF OnlyReplies
  <1>3. CASE RequestReadStep
    <2>1. state' \in {"REQUEST", "CLOSED"}
          /\ (delivered' = delivered \/ \E r \in Ids : delivered' = delivered \o Notice(r))
      BY <1>3, RequestOutcome
    <2>2. delivered' \in Seq(ReplyUnits)
      BY <2>1, NoticeAdded DEF OnlyReplies
    <2>3. sb' = sb
      BY <1>3 DEF RequestReadStep
    <2> QED BY <2>1, <2>2, <2>3 DEF OnlyReplies
  <1> QED BY <1>1, <1>2, <1>3

\* What a handler that parses replies leaves in the two buffers.
LEMMA OnlyRepliesParsed ==
  ASSUME Filled, OnlyReplies, wb.data \in Seq(ReplyUnits),
         NEW n \in FromOrigin(Room(wb)), NEW got, got = (IF n > 0 THEN n ELSE 0),
         NEW b, b = Put(wb, Slice(replies, fetched, got)), NEW k, k = Consumed(b.data)
  PROVE  /\ Drop(b, k).data \in Seq(ReplyUnits)
         /\ Put(sb, Fitting(sb, SubSeq(b.data, 1, k))).data \in Seq(ReplyUnits)
  <1>1. Sound(b) /\ b.data \in Seq(ReplyUnits)
    BY ReceiveFits
  <1>2. k \in 0..Len(b.data)
    BY <1>1, ConsumptionFits
  <1>3. PICK x : x = SubSeq(b.data, 1, k)
    OBVIOUS
  <1>4. x \in Seq(ReplyUnits) /\ Drop(b, k).data \in Seq(ReplyUnits)
    BY <1>1, <1>2, <1>3, RepliesCut
  <1>5. Sound(sb) /\ sb.data \in Seq(ReplyUnits)
    BY DEF Filled, OnlyReplies
  <1>6. Put(sb, Fitting(sb, x)).data \in Seq(ReplyUnits)
    BY <1>4, <1>5, RepliesPut
  <1> QED BY <1>3, <1>4, <1>6

LEMMA OnlyRepliesCapa ==
  ASSUME ClientInv, Filled, OnlyReplies, CapaReadStep
  PROVE  OnlyReplies'
  <1>1. state = "CAPA" /\ wb.data \in Seq(ReplyUnits)
    BY DEF CapaReadStep, On, OnlyReplies
  <1>2. PICK n \in FromOrigin(Room(wb)) :
          IF n <= 0 THEN UNCHANGED <<wb, sb, delivered>>
          ELSE LET b  == Put(wb, Slice(replies, fetched, n))
                   k  == Consumed(b.data) IN
               /\ wb' = Drop(b, k)
               /\ sb' \in {sb, EmptyBuffer, Put(sb, Fitting(sb, SubSeq(b.data, 1, k)))}
               /\ delivered' \in {delivered, delivered \o Notice(Capa)}
    BY DEF CapaReadStep
  <1>3. CASE n <= 0
    BY <1>1, <1>2, <1>3 DEF OnlyReplies
  <1>4. CASE ~(n <= 0)
    <2>1. PICK b, k : b = Put(wb, Slice(replies, fetched, n)) /\ k = Consumed(b.data)
      OBVIOUS
    <2>2. /\ wb' = Drop(b, k)
          /\ sb' \in {sb, EmptyBuffer, Put(sb, Fitting(sb, SubSeq(b.data, 1, k)))}
          /\ delivered' \in {delivered, delivered \o Notice(Capa)}
      BY <1>2, <1>4, <2>1
    <2>3. n = IF n > 0 THEN n ELSE 0
      <3>1. n \in Int
        <4>1. Room(wb) \in Nat /\ Len(replies) \in Nat /\ fetched \in Nat
          BY RoomIs, LenProperties DEF Filled
        <4> QED BY <4>1 DEF FromOrigin, Received, Min2
      <3> QED BY <1>4, <3>1
    <2>4. /\ Drop(b, k).data \in Seq(ReplyUnits)
          /\ Put(sb, Fitting(sb, SubSeq(b.data, 1, k))).data \in Seq(ReplyUnits)
      BY <1>1, <2>1, <2>3, OnlyRepliesParsed
    <2>5. EmptyBuffer.data \in Seq(ReplyUnits) /\ Capa \in Ids
      BY EmptySeq DEF EmptyBuffer, Ids
    <2>6. delivered' \in Seq(ReplyUnits)
      BY <2>2, <2>5, NoticeAdded DEF OnlyReplies
    <2> QED BY <2>2, <2>4, <2>5, <2>6 DEF OnlyReplies
  <1> QED BY <1>3, <1>4

LEMMA OnlyRepliesResponse ==
  ASSUME ClientInv, Filled, OnlyReplies, ResponseReadStep
  PROVE  OnlyReplies'
  <1>1. state = "RESPONSE" /\ wb.data \in Seq(ReplyUnits)
    BY DEF ResponseReadStep, On, OnlyReplies
  <1>2. PICK n \in FromOrigin(Room(wb)) :
          IF n <= 0 /\ ~CanRead(wb) THEN UNCHANGED <<wb, sb, delivered>>
          ELSE LET got == IF n > 0 THEN n ELSE 0
                   b   == Put(wb, Slice(replies, fetched, got))
                   k   == Consumed(b.data) IN
               /\ wb' = Drop(b, k)
               /\ sb' \in {sb, Put(sb, Fitting(sb, SubSeq(b.data, 1, k)))}
               /\ delivered' \in {delivered, delivered \o Notice(request)}
    BY DEF ResponseReadStep, Tell
  <1>3. CASE n <= 0 /\ ~CanRead(wb)
    BY <1>1, <1>2, <1>3 DEF OnlyReplies
  <1>4. CASE ~(n <= 0 /\ ~CanRead(wb))
    <2>1. PICK got, b, k : /\ got = (IF n > 0 THEN n ELSE 0)
                           /\ b = Put(wb, Slice(replies, fetched, got)) /\ k = Consumed(b.data)
      OBVIOUS
    <2>2. /\ wb' = Drop(b, k)
          /\ sb' \in {sb, Put(sb, Fitting(sb, SubSeq(b.data, 1, k)))}
          /\ delivered' \in {delivered, delivered \o Notice(request)}
      BY <1>2, <1>4, <2>1
    <2>3. /\ Drop(b, k).data \in Seq(ReplyUnits)
          /\ Put(sb, Fitting(sb, SubSeq(b.data, 1, k))).data \in Seq(ReplyUnits)
      BY <1>1, <2>1, OnlyRepliesParsed
    <2>4. request \in Ids
      BY RequestIs
    <2>5. delivered' \in Seq(ReplyUnits)
      BY <2>2, <2>4, NoticeAdded DEF OnlyReplies
    <2> QED BY <2>2, <2>3, <2>5 DEF OnlyReplies
  <1> QED BY <1>3, <1>4

LEMMA OnlyRepliesWritten ==
  ASSUME ClientInv, Filled, OnlyReplies, WelcomeWriteStep \/ ResponseWriteStep
  PROVE  OnlyReplies'
  <1>1. CASE WelcomeWriteStep
    <2>1. state = "WELCOME_WRITE" /\ wb.data \in Seq(ReplyUnits) /\ sb' = sb /\ Sound(wb)
      BY <1>1 DEF WelcomeWriteStep, On, OnlyReplies, Filled
    <2>2. PICK n \in ToClientSends(Len(wb.data)) :
            IF n = -1 THEN UNCHANGED <<wb, delivered>>
            ELSE wb' = Drop(wb, n) /\ delivered' = delivered \o SubSeq(wb.data, 1, n)
      BY <1>1 DEF WelcomeWriteStep
    <2>3. CASE n = -1
      BY <2>1, <2>2, <2>3 DEF OnlyReplies
    <2>4. CASE n # -1
      <3>1. n \in 0..Len(wb.data)
        BY <2>1, <2>4, Writing
      <3>2. SubSeq(wb.data, 1, n) \in Seq(ReplyUnits) /\ Drop(wb, n).data \in Seq(ReplyUnits)
        BY <2>1, <3>1, RepliesCut
      <3>3. delivered' \in Seq(ReplyUnits)
        BY <2>2, <2>4, <3>2, ConcatProperties DEF OnlyReplies
      <3> QED BY <2>1, <2>2, <2>4, <3>2, <3>3 DEF OnlyReplies
    <2> QED BY <2>3, <2>4
  <1>2. CASE ResponseWriteStep
    <2>1. state = "RESPONSE" /\ wb.data \in Seq(ReplyUnits) /\ wb' = wb /\ Sound(sb) /\ sb.data \in Seq(ReplyUnits)
      BY <1>2 DEF ResponseWriteStep, On, OnlyReplies, Filled
    <2>2. PICK n \in ToClientSends(Len(sb.data)) :
            IF n = -1 THEN UNCHANGED <<sb, delivered>>
            ELSE LET out == delivered \o SubSeq(sb.data, 1, n) IN
                 sb' = Drop(sb, n) /\ delivered' \in {out, out \o Notice(request)}
      BY <1>2 DEF ResponseWriteStep, ProcessResponse
    <2>3. CASE n = -1
      BY <2>1, <2>2, <2>3 DEF OnlyReplies
    <2>4. CASE n # -1
      <3>1. n \in 0..Len(sb.data)
        BY <2>1, <2>4, Writing
      <3>2. SubSeq(sb.data, 1, n) \in Seq(ReplyUnits) /\ Drop(sb, n).data \in Seq(ReplyUnits)
        BY <2>1, <3>1, RepliesCut
      <3>3. PICK out : out = delivered \o SubSeq(sb.data, 1, n)
        OBVIOUS
      <3>4. out \in Seq(ReplyUnits) /\ request \in Ids
        BY <3>2, <3>3, ConcatProperties, RequestIs DEF OnlyReplies
      <3>5. delivered' \in {out, out \o Notice(request)} /\ sb' = Drop(sb, n)
        BY <2>2, <2>4, <3>3
      <3>6. delivered' \in Seq(ReplyUnits)
        BY <3>4, <3>5, NoticeAdded
      <3> QED BY <2>1, <3>2, <3>5, <3>6 DEF OnlyReplies
    <2> QED BY <2>3, <2>4
  <1> QED BY <1>1, <1>2

\* request_write enters RESPONSE with nothing left in write_buffer.
LEMMA OnlyRepliesSent ==
  ASSUME OnlyReplies, RequestWriteStep
  PROVE  OnlyReplies'
  <1>1. UNCHANGED <<sb, delivered>> /\ state = "REQUEST"
    BY DEF RequestWriteStep, clientVars
  <1>2. CASE IsEmpty(queue) \/ ((pipelining \/ pend # Null) /\ Dangling(queue))
    <2>1. state' = "REQUEST"
      BY <1>1, <1>2 DEF RequestWriteStep
    <2> QED BY <1>1, <2>1 DEF OnlyReplies
  <1>3. CASE ~(IsEmpty(queue) \/ ((pipelining \/ pend # Null) /\ Dangling(queue)))
    <2>1. \/ state' = state \/ Leave(2, Fail) \/ Leave(2, Stay("REQUEST"))
          \/ ~CanRead(wb')
      BY <1>3 DEF RequestWriteStep
    <2>2. state' \in {"REQUEST", "CLOSED"} \/ wb'.data = <<>>
      BY <1>1, <2>1 DEF Leave, Fail, Stay, Outcome, Closes, CanRead
    <2>3. <<>> \in Seq(ReplyUnits)
      BY EmptySeq
    <2> QED BY <1>1, <2>2, <2>3 DEF OnlyReplies
  <1> QED BY <1>2, <1>3

LEMMA TypedStep ==
  ClientInv /\ ArmedFor /\ Filled /\ Typed /\ [Next]_vars => Typed'
  <1> SUFFICES ASSUME ClientInv, ArmedFor, Filled, Typed, [Next]_vars PROVE Typed'
    OBVIOUS
  <1>1. OnlyReplies
    BY DEF Typed
  <1>2. OnlyReplies'
    <2>1. CASE Refused \/ Connected \/ WelcomeReadStep \/ RequestReadStep
      BY <1>1, <2>1, OnlyRepliesRead
    <2>2. CASE CapaReadStep
      BY <1>1, <2>2, OnlyRepliesCapa
    <2>3. CASE RequestWriteStep
      BY <1>1, <2>3, OnlyRepliesSent
    <2>4. CASE ResponseReadStep
      BY <1>1, <2>4, OnlyRepliesResponse
    <2>5. CASE WelcomeWriteStep \/ ResponseWriteStep
      BY <1>1, <2>5, OnlyRepliesWritten
    <2>6. CASE ClientSend \/ ClientEnds \/ OriginServe \/ OriginEnds \/ UNCHANGED vars
      <3>1. UNCHANGED <<wb, sb, delivered, state>>
        BY <2>6 DEF ClientSend, ClientEnds, OriginServe, OriginEnds, vars, proxyVars, clientVars
      <3> QED BY <1>1, <3>1 DEF OnlyReplies
    <2> QED BY <2>1, <2>2, <2>3, <2>4, <2>5, <2>6 DEF Next, Proxy
  <1>3. Plain' /\ CursorTyped(queue')
    BY PlainStep, CursorStep DEF Typed
  <1> QED BY <1>2, <1>3 DEF Typed

LEMMA TypedInit == Init => Typed
  <1> SUFFICES ASSUME Init PROVE Typed
    OBVIOUS
  <1>1. Plain
    BY DEF Init, Plain, Ends, Faults
  <1>2. PICK q : q = queue /\ q = [nodes |-> <<>>, current |-> Null]
    BY DEF Init, NewQueue
  <1>3. q.nodes = <<>> /\ q.current = Null
    BY ONLY <1>2
  <1>4. CursorTyped(queue)
    BY <1>2, <1>3, SessionAssumption DEF CursorTyped, Null
  <1>5. OnlyReplies
    BY EmptySeq DEF Init, OnlyReplies, EmptyBuffer
  <1> QED BY <1>1, <1>4, <1>5 DEF Typed

LEMMA RelayIsTyped == ClientInv /\ Filled /\ Typed /\ ArmedFor => TypeOK
  <1> SUFFICES ASSUME ClientInv, Filled, Typed, ArmedFor PROVE TypeOK
    OBVIOUS
  <1>1. state \in States \cup {"CLOSED"} /\ armed \in Interests \X Interests
    BY DEF ArmedFor, Armed, States, Interests
  <1>2. /\ {rb, wb, sb} \subseteq Buffers(LineUnits \cup ReplyUnits)
        /\ \A b \in {rb, wb, sb} : b.off \in 0..(BufferSize - 1)
    <2>1. \A b \in {rb, wb, sb} : Sound(b)
      BY DEF Filled, ClientInv, ReadIsWritten
    <2> QED BY <2>1, BufferIs
  <1>3. /\ greeting \in BOOLEAN /\ pipelining \in BOOLEAN /\ offers \in BOOLEAN /\ cut \in BOOLEAN
        /\ {clientEnd, originEnd} \subseteq Ends /\ delivered \in Seq(ReplyUnits)
        /\ fault \in {"none", "SIGPIPE", "queue", "null CAPA reply", "unset response"}
    BY DEF Typed, Plain, OnlyReplies, Faults
  <1>4. parsed \in Seq(LineUnits) /\ queue.nodes \in Seq(1..MaxCommands) /\ written \in Seq(LineUnits)
        /\ received \in 0..Len(written) /\ sent \in Seq([kind : Kinds, size : LineSizes])
    BY DEF ClientInv, QueueIsRest, WrittenIsSent, ReadIsWritten, Command
  <1>5. {queue.current, pend, request} \subseteq 0..MaxCommands
    <2>1. request \in 0..Len(sent) /\ Len(sent) <= MaxCommands /\ Len(sent) \in Nat /\ MaxCommands \in Nat
      BY RequestIs, LenProperties, SessionAssumption DEF ClientInv, WrittenIsSent
    <2>2. queue.current \in 0..MaxCommands /\ pend \in 0..Len(sent)
      BY DEF Typed, CursorTyped, Filled
    <2> QED BY <2>1, <2>2
  <1>6. /\ stage \in {"status", "body", "done"} /\ forwarded \in Seq(LineUnits \cup ReplyUnits)
        /\ taken \in 0..Len(forwarded) /\ replies \in Seq(ReplyUnits) /\ fetched \in 0..Len(replies)
    BY DEF Filled, Units
  <1> QED BY <1>1, <1>2, <1>3, <1>4, <1>5, <1>6 DEF TypeOK

-----------------------------------------------------------------------------
(* The relay keeps its promises, for any number of commands, sizes of      *)
(* lines, replies, greeting, buffer and socket, whichever way the bytes    *)
(* are fragmented: no theorem has a hypothesis.  Those about order and     *)
(* matching say what holds until something is cut off.                     *)

\* Every variable stays in its type, the cursor of the queue and the reasons of
\* a fault included.
THEOREM RelayTyped == Spec => []TypeOK
  <1>1. Init => Filled /\ Typed
    BY FilledInit, TypedInit
  <1>2. ClientInv /\ ArmedFor /\ Filled /\ Typed /\ [Next]_vars => Filled' /\ Typed'
    BY FilledStep, TypedStep
  <1>3. Spec => []ClientInv
    BY AlwaysClientInv
  <1>4. Spec => []ArmedFor
    BY RelayArms
  <1>5. ClientInv /\ Filled /\ Typed /\ ArmedFor => TypeOK
    BY RelayIsTyped
  <1> QED BY <1>1, <1>2, <1>3, <1>4, <1>5, PTL DEF Spec

\* request_read and request_write: the commands the parser accepts reach the
\* origin whole, in order, none twice and none left out.
THEOREM RequestsStayInOrder == Spec => []RequestsInOrder
  <1>1. Spec => [](ClientInv /\ (~cut => RelayInv))
    BY AlwaysRelayInv
  <1>2. ClientInv /\ (~cut => RelayInv) => RequestsInOrder
    BY RelayPassesRequests DEF RequestsInOrder
  <1> QED BY <1>1, <1>2, PTL

\* response_read and response_write: the replies reach the client whole and in
\* order, and what has been received and not delivered is in the two buffers.
THEOREM RepliesStayInOrder == Spec => []RepliesInOrder
  <1>1. Spec => [](ClientInv /\ (~cut => RelayInv))
    BY AlwaysRelayInv
  <1>2. ClientInv /\ (~cut => RelayInv) => RepliesInOrder
    BY RelayPassesReplies DEF RepliesInOrder
  <1> QED BY <1>1, <1>2, PTL

\* What is written to the client in RESPONSE is of the reply to response.request.
THEOREM RepliesMatch == Spec => []ReplyMatchesRequest
  <1>1. Spec => [](ClientInv /\ (~cut => RelayInv))
    BY AlwaysRelayInv
  <1>2. ClientInv /\ (~cut => RelayInv) => ReplyMatchesRequest
    BY DEF RelayInv, Ground, ReplyMatchesRequest
  <1> QED BY <1>1, <1>2, PTL

\* RESPONSE only waits for the reply to a request that has been sent whole, and
\* when pipelining so have been all that are queued.
THEOREM RequestsAreSentFirst == Spec => []AwaitedRequestWasSent
  <1>1. Spec => [](ClientInv /\ (~cut => RelayInv))
    BY AlwaysRelayInv
  <1>2. ClientInv /\ (~cut => RelayInv) => AwaitedRequestWasSent
    BY RelayAwaitsWhatItSent DEF AwaitedRequestWasSent
  <1> QED BY <1>1, <1>2, PTL

\* An accepted command is answered, or it is response.request, or it is in the
\* queue, in order: process_response and the queue lose none.
THEOREM NoCommandIsLost == Spec => []CommandsAccountedFor
  <1>1. Spec => [](ClientInv /\ (~cut => RelayInv))
    BY AlwaysRelayInv
  <1>2. ClientInv /\ (~cut => RelayInv) => CommandsAccountedFor
    BY RelayAccounts DEF CommandsAccountedFor
  <1> QED BY <1>1, <1>2, PTL

\* The process never dies of the queue: request_to_buffer follows no pointer to
\* a freed node, process_response finds no empty queue.
THEOREM QueueStaysSound == Spec => []QueueIsSound
  <1>1. Spec => [](ClientInv /\ (~cut => RelayInv))
    BY AlwaysRelayInv
  <1>2. ClientInv /\ (~cut => RelayInv) => QueueIsSound
    BY RelayQueueIsSound DEF QueueIsSound
  <1> QED BY <1>1, <1>2, PTL
=============================================================================
