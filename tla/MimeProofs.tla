----------------------------- MODULE MimeProofs -----------------------------
(***************************************************************************)
(* For streams of every length: the automaton of pop3_multi.c tells the    *)
(* end of a reply only where a line of a single dot ends, and it makes up  *)
(* no octet; in a stream made of lines it tells every such end and takes   *)
(* away the stuffing and nothing else.  What the filter feeds to it is one *)
(* of those streams, whatever the mail, so all that is proved of them      *)
(* holds inside the filter.  And the filter's own context keeps its types  *)
(* and bounds, by one lemma for each handler.                              *)
(***************************************************************************)
EXTENDS MimeStream, FiniteSetTheorems, SequenceLemmas, TLAPS

\* What each state of the automaton knows of the last octets of the stream s.
Behind(s, st) ==
  LET n == Len(s) IN
  /\ st = "NEWLINE" => LineStart(s, n + 1)
  /\ st = "CR"      => n > 0 /\ s[n] = "CR"
  /\ st = "DOT"     => n > 0 /\ LineStart(s, n) /\ s[n] = "."
  /\ st = "DOT_CR"  => n > 1 /\ LineStart(s, n - 1) /\ s[n - 1] = "." /\ s[n] = "CR"
  /\ st = "FIN"     => DotLine(s, n - 2)

\* How many of the octets fed have no event of theirs yet, or never get one.
Withheld(st) == CASE st \in {"CR", "DOT"}     -> 1
                  [] st \in {"DOT_CR", "FIN"} -> 2
                  [] OTHER                    -> 0

\* The inductive invariant.
IInv == /\ input \in Seq(Octets) /\ output \in Seq(Octets)
        /\ current \in ParserStates
        /\ Len(output) + Withheld(current) <= Len(input)
        /\ Behind(input, current)

\* A transition goes to a state of the table and carries octets.
LEMMA FeedGivesOctets ==
  ASSUME NEW st \in ParserStates, NEW c \in Octets
  PROVE  /\ ParserFeed(st, c).dest \in ParserStates
         /\ ParserFeed(st, c).out \in Seq(Octets)
  <1>1. /\ <<>> \in Seq(Octets) /\ <<c>> \in Seq(Octets) /\ <<"CR", c>> \in Seq(Octets)
    BY OctetsAssumption
  <1>2. ParserFeed(st, c).dest \in ParserStates
    BY DEF ParserStates, ParserFeed, To, Newline, Byte, Cr, Dot, DotCr, Fin
  <1>3. ParserFeed(st, c).out \in {<<>>, <<c>>, <<"CR", c>>}
    BY DEF ParserStates, ParserFeed, To, Newline, Byte, Cr, Dot, DotCr, Fin
  <1> QED BY <1>1, <1>2, <1>3

\* An octet that comes out was withheld or is the one fed.
LEMMA FeedKeepsCount ==
  ASSUME NEW st \in ParserStates, NEW c \in Octets
  PROVE  Len(ParserFeed(st, c).out) + Withheld(ParserFeed(st, c).dest) <= Withheld(st) + 1
  BY DEF ParserStates, ParserFeed, Withheld, To, Newline, Byte, Cr, Dot, DotCr, Fin

\* The state behind an octet knows of the stream with it.
LEMMA FeedKeepsBehind ==
  ASSUME NEW s \in Seq(Octets), NEW st \in ParserStates, NEW c \in Octets, Behind(s, st)
  PROVE  Behind(Append(s, c), ParserFeed(st, c).dest)
  <1> DEFINE t == Append(s, c)
             n == Len(s)
  <1>1. /\ n \in Nat /\ Len(t) = n + 1 /\ t[n + 1] = c
        /\ \A i \in 1..n : t[i] = s[i]
    OBVIOUS
  <1>2. \A i \in 1..(n + 1) : LineStart(s, i) => LineStart(t, i)
    BY <1>1 DEF LineStart
  <1> HIDE DEF t
  <1>3. CASE st = "NEWLINE"
    <2>1. ParserFeed(st, c).dest \in {"DOT", "CR", "BYTE"}
      BY <1>3 DEF ParserFeed, Newline, To
    <2>2. ParserFeed(st, c).dest = "DOT" => c = "."
      BY <1>3 DEF ParserFeed, Newline, To
    <2>3. ParserFeed(st, c).dest = "CR" => c = "CR"
      BY <1>3 DEF ParserFeed, Newline, To
    <2>4. LineStart(t, n + 1)
      BY <1>1, <1>2, <1>3 DEF Behind
    <2> QED BY <1>1, <2>1, <2>2, <2>3, <2>4 DEF Behind, t
  <1>4. CASE st = "BYTE"
    <2>1. /\ ParserFeed(st, c).dest \in {"CR", "BYTE"}
          /\ ParserFeed(st, c).dest = "CR" => c = "CR"
      BY <1>4 DEF ParserFeed, Byte, To
    <2> QED BY <1>1, <2>1 DEF Behind, t
  <1>5. CASE st = "CR"
    <2>1. /\ ParserFeed(st, c).dest \in {"NEWLINE", "BYTE"}
          /\ ParserFeed(st, c).dest = "NEWLINE" => c = "LF"
      BY <1>5 DEF ParserFeed, Cr, To
    <2>2. n > 0 /\ t[n] = "CR"
      BY <1>1, <1>5 DEF Behind
    <2>3. c = "LF" => LineStart(t, n + 2)
      BY <1>1, <2>2 DEF LineStart
    <2> QED BY <1>1, <2>1, <2>3 DEF Behind, t
  <1>6. CASE st = "DOT"
    <2>1. /\ ParserFeed(st, c).dest \in {"DOT_CR", "BYTE"}
          /\ ParserFeed(st, c).dest = "DOT_CR" => c = "CR"
      BY <1>6 DEF ParserFeed, Dot, To
    <2>2. n > 0 /\ LineStart(t, n) /\ t[n] = "."
      BY <1>1, <1>2, <1>6 DEF Behind
    <2> QED BY <1>1, <2>1, <2>2 DEF Behind, t
  <1>7. CASE st = "DOT_CR"
    <2>1. /\ ParserFeed(st, c).dest \in {"FIN", "BYTE"}
          /\ ParserFeed(st, c).dest = "FIN" => c = "LF"
      BY <1>7 DEF ParserFeed, DotCr, To
    <2>2. n > 1 /\ LineStart(t, n - 1) /\ t[n - 1] = "." /\ t[n] = "CR"
      BY <1>1, <1>2, <1>7 DEF Behind
    <2>3. c = "LF" => DotLine(t, n - 1)
      BY <1>1, <2>2 DEF DotLine
    <2> QED BY <1>1, <2>1, <2>3 DEF Behind, t
  <1>8. CASE st = "FIN"
    <2>1. ParserFeed(st, c).dest = "BYTE"
      BY <1>8 DEF ParserFeed, Fin, To
    <2> QED BY <2>1 DEF Behind, t
  <1> QED BY <1>3, <1>4, <1>5, <1>6, <1>7, <1>8 DEF ParserStates

-----------------------------------------------------------------------------
LEMMA InitIInv == Init => IInv
  BY DEF Init, IInv, ParserStates, Withheld, Behind, LineStart

LEMMA NextIInv == IInv /\ [Next]_vars => IInv'
  <1> SUFFICES ASSUME IInv, [Next]_vars PROVE IInv'
    OBVIOUS
  <1>1. CASE Next
    <2>1. PICK c \in Octets : Feed(c)
      BY <1>1 DEF Next
    <2> DEFINE f == ParserFeed(current, c)
    <2>2. f.dest \in ParserStates /\ f.out \in Seq(Octets)
      BY FeedGivesOctets DEF IInv
    <2>3. Len(f.out) + Withheld(f.dest) <= Withheld(current) + 1
      BY FeedKeepsCount DEF IInv
    <2>4. Behind(Append(input, c), f.dest)
      BY FeedKeepsBehind DEF IInv
    <2>5. Withheld(current) \in Nat /\ Withheld(f.dest) \in Nat
      BY DEF Withheld
    <2>6. input' = Append(input, c) /\ current' = f.dest /\ output' = output \o f.out
      BY <2>1 DEF Feed
    <2> HIDE DEF f
    <2>7. input' \in Seq(Octets) /\ output' \in Seq(Octets)
      BY <2>2, <2>6 DEF IInv
    <2>8. Len(output') = Len(output) + Len(f.out) /\ Len(input') = Len(input) + 1
      BY <2>2, <2>6 DEF IInv
    <2>9. Len(output') + Withheld(f.dest) <= Len(input')
      <3>1. /\ Len(output) \in Nat /\ Len(f.out) \in Nat /\ Len(input) \in Nat
            /\ Len(output) + Withheld(current) <= Len(input)
        BY <2>2 DEF IInv
      <3> QED BY <2>3, <2>5, <2>8, <3>1
    <2> QED BY <2>2, <2>4, <2>6, <2>7, <2>9 DEF IInv
  <1>2. CASE UNCHANGED vars
    BY <1>2 DEF vars, IInv
  <1> QED BY <1>1, <1>2

\* The end of a multi-line reply is told only behind CR LF . CR LF, or . CR LF at
\* the very start, in a stream of any length however it is cut.
THEOREM EndToldIsReal == Spec => []EndIsReal
  <1>1. IInv => EndIsReal
    BY DEF IInv, Behind, EndIsReal
  <1> QED BY <1>1, InitIInv, NextIInv, PTL DEF Spec

\* Types, and no octet comes out of the automaton that has not come in.
THEOREM StreamTypeCorrect == Spec => []TypeOK
  <1>1. IInv => TypeOK
    <2> SUFFICES ASSUME IInv PROVE Len(output) <= Len(input)
      BY DEF IInv, TypeOK
    <2>1. /\ Withheld(current) \in Nat /\ Len(output) \in Nat /\ Len(input) \in Nat
          /\ Len(output) + Withheld(current) <= Len(input)
      BY DEF IInv, Withheld
    <2> QED BY <2>1
  <1> QED BY <1>1, InitIInv, NextIInv, PTL DEF Spec

-----------------------------------------------------------------------------
(* That the end is found, and the stuffing undone, wants the converse: in a  *)
(* stream made of lines the state is a function of the last octets.          *)

StateOf(s) ==
  LET n == Len(s) IN
  CASE DotLine(s, n - 2)                                                  -> "FIN"
    [] ~DotLine(s, n - 2) /\ LineStart(s, n + 1)                          -> "NEWLINE"
    [] n > 0 /\ s[n] = "CR" /\ ~(n > 1 /\ LineStart(s, n - 1) /\ s[n - 1] = ".")
                                                                          -> "CR"
    [] n > 1 /\ s[n] = "CR" /\ LineStart(s, n - 1) /\ s[n - 1] = "."      -> "DOT_CR"
    [] n > 0 /\ s[n] = "." /\ LineStart(s, n)                             -> "DOT"
    [] OTHER                                                              -> "BYTE"

Follows == (OfLines(input) /\ Single(input)) => current = StateOf(input)

\* What comes before the last octet of such a stream is one without an end.
LEMMA BeforeTheLast ==
  ASSUME NEW s \in Seq(Octets), NEW c \in Octets, OfLines(Append(s, c))
  PROVE  /\ OfLines(s)
         /\ c = "LF" => Len(s) > 0 /\ s[Len(s)] = "CR"
         /\ Len(s) > 0 /\ s[Len(s)] = "CR" => c = "LF"
         /\ Single(Append(s, c)) => NoEnd(s)
         /\ NoEnd(Append(s, c)) => NoEnd(s)
         /\ NoEnd(s) => Single(s)
  <1> DEFINE t == Append(s, c)
             n == Len(s)
  <1>1. /\ n \in Nat /\ Len(t) = n + 1 /\ t[n + 1] = c
        /\ \A i \in 1..n : t[i] = s[i]
    OBVIOUS
  <1>2. \A i \in 1..n : DotLine(s, i) => DotLine(t, i) /\ i + 2 # n + 1
    BY <1>1 DEF DotLine, LineStart
  <1> HIDE DEF t
  <1>3. OfLines(t)
    BY DEF t
  <1>4. OfLines(s) /\ (c = "LF" => n > 0 /\ s[n] = "CR") /\ (n > 0 /\ s[n] = "CR" => c = "LF")
    BY <1>1, <1>3 DEF OfLines
  <1>5. (Single(t) => NoEnd(s)) /\ (NoEnd(t) => NoEnd(s)) /\ (NoEnd(s) => Single(s))
    BY <1>1, <1>2 DEF Single, NoEnd
  <1> QED BY <1>4, <1>5 DEF t

\* A transition follows the octets.
LEMMA FeedFollows ==
  ASSUME NEW s \in Seq(Octets), NEW c \in Octets, OfLines(Append(s, c)), NoEnd(s)
  PROVE  ParserFeed(StateOf(s), c).dest = StateOf(Append(s, c))
  <1> DEFINE t == Append(s, c)
             n == Len(s)
  <1>1. /\ n \in Nat /\ Len(t) = n + 1 /\ t[n + 1] = c
        /\ \A i \in 1..n : t[i] = s[i]
    OBVIOUS
  <1>2. \A i \in 1..(n + 1) : LineStart(t, i) <=> LineStart(s, i)
    BY <1>1 DEF LineStart
  <1>3. /\ c = "LF" => n > 0 /\ s[n] = "CR"
        /\ n > 0 /\ s[n] = "CR" => c = "LF"
    BY BeforeTheLast
  <1>4. ~DotLine(s, n - 2)
    BY <1>1 DEF NoEnd, DotLine
  <1>5. LineStart(t, n + 2) <=> c = "LF"
    BY <1>1, <1>3 DEF LineStart
  <1>6. DotLine(t, n - 1) <=> n > 1 /\ LineStart(s, n - 1) /\ s[n - 1] = "." /\ s[n] = "CR" /\ c = "LF"
    BY <1>1, <1>2 DEF DotLine
  <1>7. n > 0 /\ LineStart(s, n + 1) => s[n] = "LF"
    BY <1>1 DEF LineStart
  <1>8. n = 0 => LineStart(s, n + 1)
    BY DEF LineStart
  <1> HIDE DEF t, n
  <1>9. StateOf(s) = CASE LineStart(s, n + 1) -> "NEWLINE"
           [] n > 0 /\ s[n] = "CR" /\ ~(n > 1 /\ LineStart(s, n - 1) /\ s[n - 1] = ".") -> "CR"
           [] n > 1 /\ s[n] = "CR" /\ LineStart(s, n - 1) /\ s[n - 1] = "." -> "DOT_CR"
           [] n > 0 /\ s[n] = "." /\ LineStart(s, n) -> "DOT"
           [] OTHER -> "BYTE"
    BY <1>1, <1>4, <1>7 DEF StateOf, n
  <1>10. StateOf(t) = CASE DotLine(t, n - 1) -> "FIN"
           [] ~DotLine(t, n - 1) /\ c = "LF" -> "NEWLINE"
           [] c = "CR" /\ ~(n > 0 /\ LineStart(s, n) /\ s[n] = ".") -> "CR"
           [] n > 0 /\ c = "CR" /\ LineStart(s, n) /\ s[n] = "." -> "DOT_CR"
           [] c = "." /\ LineStart(s, n + 1) -> "DOT"
           [] OTHER -> "BYTE"
    BY <1>1, <1>2, <1>5 DEF StateOf
  <1>11. ParserFeed(StateOf(s), c).dest = StateOf(t)
    BY <1>1, <1>3, <1>6, <1>7, <1>8, <1>9, <1>10 DEF ParserFeed, Newline, Byte, Cr, Dot, DotCr, To
  <1> QED BY <1>11 DEF t
LEMMA NextFollows == IInv /\ Follows /\ [Next]_vars => Follows'
  <1> SUFFICES ASSUME IInv, Follows, [Next]_vars PROVE Follows'
    OBVIOUS
  <1>1. CASE Next
    <2>1. PICK c \in Octets : Feed(c)
      BY <1>1 DEF Next
    <2>2. input \in Seq(Octets) /\ input' = Append(input, c) /\ current' = ParserFeed(current, c).dest
      BY <2>1 DEF Feed, IInv
    <2> SUFFICES ASSUME OfLines(Append(input, c)), Single(Append(input, c))
                 PROVE  ParserFeed(current, c).dest = StateOf(Append(input, c))
      BY <2>2 DEF Follows
    <2>3. OfLines(input) /\ NoEnd(input) /\ Single(input)
      BY <2>2, BeforeTheLast
    <2>4. current = StateOf(input)
      BY <2>3 DEF Follows
    <2> QED BY <2>2, <2>3, <2>4, FeedFollows
  <1>2. CASE UNCHANGED vars
    BY <1>2 DEF vars, Follows
  <1> QED BY <1>1, <1>2

LEMMA InitFollows == Init => Follows
  BY DEF Init, Follows, StateOf, DotLine, LineStart

\* In a stream made of lines, of any length, the end of a reply is told as soon as
\* it is whole (pop3_multi.h: "detectar el final").
THEOREM EndToldIsFound == Spec => []EndIsFound
  <1>1. IInv /\ Follows => EndIsFound
    <2> SUFFICES ASSUME IInv, Follows, OfLines(input), Single(input), DotLine(input, Len(input) - 2)
                 PROVE  current = "FIN"
      BY DEF EndIsFound
    <2>1. Len(input) \in Nat /\ input[Len(input)] = "LF"
      <3>1. Len(input) \in Nat
        BY DEF IInv
      <3> QED BY <3>1 DEF DotLine
    <2>2. StateOf(input) = "FIN"
      BY <2>1 DEF StateOf
    <2> QED BY <2>2 DEF Follows
  <1> QED BY <1>1, InitIInv, NextIInv, InitFollows, NextFollows, PTL DEF Spec

-----------------------------------------------------------------------------
\* The octet a state still withholds and will give out with the next.
Pending(st) == IF st \in {"CR", "DOT_CR"} THEN <<"CR">> ELSE <<>>

Clean == (OfLines(input) /\ NoEnd(input)) => IsUnstuffed(output \o Pending(current), input)

\* How many octets of s are kept up to the octet i.
KeptUpTo(s, i) == Cardinality({j \in Kept(s) : j <= i})

LEMMA KeptIsFinite ==
  ASSUME NEW s \in Seq(Octets), NEW i \in 1..Len(s)
  PROVE  /\ IsFiniteSet(Kept(s)) /\ Cardinality(Kept(s)) \in Nat
         /\ KeptUpTo(s, i) \in Nat
         /\ i \in Kept(s) => KeptUpTo(s, i) \in 1..Cardinality(Kept(s))
  <1> Len(s) \in Nat
    OBVIOUS
  <1>1. IsFiniteSet(1..Len(s))
    BY FS_Interval
  <1>2. Kept(s) \subseteq 1..Len(s) /\ {j \in Kept(s) : j <= i} \subseteq Kept(s)
    BY DEF Kept
  <1>3. IsFiniteSet(Kept(s))
    BY <1>1, <1>2, FS_Subset
  <1>4. /\ IsFiniteSet({j \in Kept(s) : j <= i})
        /\ Cardinality({j \in Kept(s) : j <= i}) <= Cardinality(Kept(s))
    BY <1>2, <1>3, FS_Subset
  <1>5. Cardinality(Kept(s)) \in Nat /\ KeptUpTo(s, i) \in Nat
    BY <1>3, <1>4, FS_CardinalityType DEF KeptUpTo
  <1>6. ASSUME i \in Kept(s) PROVE KeptUpTo(s, i) # 0
    <2>1. i \in {j \in Kept(s) : j <= i}
      BY <1>6
    <2> QED BY <1>4, <2>1, FS_EmptySet DEF KeptUpTo
  <1> QED BY <1>3, <1>4, <1>5, <1>6 DEF KeptUpTo

\* An octet more: either a dot that begins a line, which is dropped, or one kept.
LEMMA OneMoreOctet ==
  ASSUME NEW s \in Seq(Octets), NEW c \in Octets, NEW u \in Seq(Octets), IsUnstuffed(u, s)
  PROVE  /\ LineStart(s, Len(s) + 1) /\ c = "." => IsUnstuffed(u, Append(s, c))
         /\ ~(LineStart(s, Len(s) + 1) /\ c = ".") => IsUnstuffed(Append(u, c), Append(s, c))
  <1> DEFINE t == Append(s, c)
             n == Len(s)
  <1>1. /\ n \in Nat /\ Len(t) = n + 1 /\ t[n + 1] = c
        /\ \A i \in 1..n : t[i] = s[i]
    OBVIOUS
  <1>2. \A i \in 1..(n + 1) : LineStart(t, i) <=> LineStart(s, i)
    BY <1>1 DEF LineStart
  <1>3. /\ Len(u) = Cardinality(Kept(s))
        /\ \A i \in Kept(s) : u[KeptUpTo(s, i)] = s[i]
    BY DEF IsUnstuffed, KeptUpTo
  <1> HIDE DEF t, n
  <1>4. CASE LineStart(s, n + 1) /\ c = "."
    <2>1. Kept(t) = Kept(s)
      BY <1>1, <1>2, <1>4 DEF Kept, n
    <2>2. \A i \in Kept(t) : t[i] = s[i]
      BY <1>1, <2>1 DEF Kept, n
    <2> QED BY <1>3, <1>4, <2>1, <2>2 DEF IsUnstuffed, KeptUpTo, t, n
  <1>5. CASE ~(LineStart(s, n + 1) /\ c = ".")
    <2>1. Kept(t) = Kept(s) \cup {n + 1} /\ n + 1 \notin Kept(s) /\ \A i \in Kept(s) : i \in 1..n
      BY <1>1, <1>2, <1>5 DEF Kept, n
    <2>2. IsFiniteSet(Kept(s))
      <3>1. IsFiniteSet(1..n) /\ Kept(s) \subseteq 1..n
        BY <1>1, <2>1, FS_Interval
      <3> QED BY <3>1, FS_Subset
    <2>3. Cardinality(Kept(t)) = Cardinality(Kept(s)) + 1
      BY <2>1, <2>2, FS_AddElement
    <2>4. ASSUME NEW i \in Kept(s) PROVE KeptUpTo(t, i) = KeptUpTo(s, i)
      <3>1. {j \in Kept(t) : j <= i} = {j \in Kept(s) : j <= i}
        BY <1>1, <2>1
      <3> QED BY <3>1 DEF KeptUpTo
    <2>5. KeptUpTo(t, n + 1) = Cardinality(Kept(t))
      <3>1. {j \in Kept(t) : j <= n + 1} = Kept(t)
        BY <1>1, <2>1
      <3> QED BY <3>1 DEF KeptUpTo
    <2>6. /\ Len(Append(u, c)) = Len(u) + 1 /\ Append(u, c)[Len(u) + 1] = c
          /\ \A i \in 1..Len(u) : Append(u, c)[i] = u[i]
      OBVIOUS
    <2>7. \A i \in Kept(s) : KeptUpTo(s, i) \in 1..Len(u)
      BY <1>3, <2>1, KeptIsFinite DEF n
    <2>8. ASSUME NEW i \in Kept(t) PROVE Append(u, c)[KeptUpTo(t, i)] = t[i]
      <3>1. CASE i \in Kept(s)
        BY <1>1, <1>3, <2>1, <2>4, <2>6, <2>7, <3>1
      <3>2. CASE i = n + 1
        BY <1>1, <1>3, <2>3, <2>5, <2>6, <3>2
      <3> QED BY <2>1, <3>1, <3>2
    <2>9. Len(Append(u, c)) = Cardinality(Kept(t))
      BY <1>3, <2>3, <2>6
    <2>10. IsUnstuffed(Append(u, c), t)
      BY <2>8, <2>9 DEF IsUnstuffed, KeptUpTo
    <2> QED BY <1>5, <2>10 DEF t, n
  <1> QED BY <1>4, <1>5 DEF n

\* What the automaton gives out with an octet and what it withholds behind it is what
\* it withheld and the octet, unless that is a dot it drops.
LEMMA FeedIsClean ==
  ASSUME NEW s \in Seq(Octets), NEW c \in Octets, NEW o \in Seq(Octets), NEW st, st = StateOf(s),
         OfLines(Append(s, c)), NoEnd(Append(s, c))
  PROVE  LET f == ParserFeed(st, c)
         IN  (o \o f.out) \o Pending(f.dest) =
               IF LineStart(s, Len(s) + 1) /\ c = "." THEN o \o Pending(st)
                                                      ELSE Append(o \o Pending(st), c)
  <1> DEFINE n == Len(s)
             f == ParserFeed(st, c)
  <1>1. /\ n \in Nat /\ Len(Append(s, c)) = n + 1 /\ Append(s, c)[n + 1] = c
        /\ \A i \in 1..n : Append(s, c)[i] = s[i]
    OBVIOUS
  <1>2. /\ NoEnd(s) /\ OfLines(s)
        /\ c = "LF" => n > 0 /\ s[n] = "CR"
        /\ n > 0 /\ s[n] = "CR" => c = "LF"
    BY BeforeTheLast
  <1>3. ~DotLine(s, n - 2)
    BY <1>1, <1>2 DEF NoEnd, DotLine
  <1>4. n > 0 /\ LineStart(s, n + 1) => s[n] = "LF"
    BY <1>1 DEF LineStart
  <1>5. n = 0 => LineStart(s, n + 1)
    BY DEF LineStart
  <1>6. st \in {"NEWLINE", "CR", "DOT", "BYTE"}
    <2>1. ASSUME n > 1, s[n] = "CR", LineStart(s, n - 1), s[n - 1] = "." PROVE FALSE
      <3>1. DotLine(Append(s, c), n - 1)
        BY <1>1, <1>2, <2>1 DEF DotLine, LineStart
      <3> QED BY <1>1, <2>1, <3>1 DEF NoEnd
    <2> QED BY <1>3, <2>1 DEF StateOf
  <1>7. /\ st = "NEWLINE" => LineStart(s, n + 1)
        /\ st = "CR" => n > 0 /\ s[n] = "CR" /\ ~LineStart(s, n + 1)
        /\ st = "DOT" => n > 0 /\ s[n] = "." /\ ~LineStart(s, n + 1)
        /\ st = "BYTE" => ~LineStart(s, n + 1) /\ n > 0 /\ s[n] # "CR"
    BY <1>3, <1>4, <1>5, <1>6 DEF StateOf
  <1>8. /\ <<>> \in Seq(Octets) /\ <<c>> \in Seq(Octets) /\ <<"CR">> \in Seq(Octets) /\ <<"CR", c>> \in Seq(Octets)
    BY OctetsAssumption
  <1>9. /\ o \o <<>> = o
        /\ o \o <<c>> = Append(o, c)
        /\ o \o <<"CR", c>> = Append(o \o <<"CR">>, c)
        /\ Append(o, c) \o <<>> = Append(o, c)
        /\ Append(o \o <<"CR">>, c) \o <<>> = Append(o \o <<"CR">>, c)
    BY <1>8
  <1> HIDE DEF n
  <1>10. CASE st = "NEWLINE"
    BY <1>2, <1>7, <1>9, <1>10 DEF ParserFeed, Newline, To, Pending, n
  <1>11. CASE st = "BYTE"
    BY <1>2, <1>7, <1>9, <1>11 DEF ParserFeed, Byte, To, Pending, n
  <1>12. CASE st = "CR"
    BY <1>2, <1>7, <1>9, <1>12 DEF ParserFeed, Cr, To, Pending, n
  <1>13. CASE st = "DOT"
    BY <1>2, <1>7, <1>9, <1>13 DEF ParserFeed, Dot, To, Pending, n
  <1> QED BY <1>6, <1>10, <1>11, <1>12, <1>13

LEMMA NextClean == IInv /\ Follows /\ Clean /\ [Next]_vars => Clean'
  <1> SUFFICES ASSUME IInv, Follows, Clean, [Next]_vars PROVE Clean'
    OBVIOUS
  <1>1. CASE Next
    <2>1. PICK c \in Octets : Feed(c)
      BY <1>1 DEF Next
    <2> DEFINE f == ParserFeed(current, c)
               u == output \o Pending(current)
    <2>2. /\ input \in Seq(Octets) /\ output \in Seq(Octets) /\ u \in Seq(Octets)
          /\ input' = Append(input, c) /\ current' = f.dest /\ output' = output \o f.out
      BY <2>1, OctetsAssumption DEF Feed, IInv, Pending
    <2> SUFFICES ASSUME OfLines(Append(input, c)), NoEnd(Append(input, c))
                 PROVE  IsUnstuffed((output \o f.out) \o Pending(f.dest), Append(input, c))
      <3> HIDE DEF f, u
      <3> QED BY <2>2 DEF Clean
    <2>3. OfLines(input) /\ NoEnd(input) /\ Single(input)
      BY <2>2, BeforeTheLast
    <2>4. current = StateOf(input)
      BY <2>3 DEF Follows
    <2>5. IsUnstuffed(u, input)
      BY <2>3 DEF Clean
    <2>6. (output \o f.out) \o Pending(f.dest) =
             IF LineStart(input, Len(input) + 1) /\ c = "." THEN u ELSE Append(u, c)
      <3>1. input \in Seq(Octets) /\ c \in Octets /\ output \in Seq(Octets)
        BY <2>2
      <3> HIDE DEF f, u
      <3> QED BY <2>4, <3>1, FeedIsClean, ZenonT(60) DEF f, u
    <2> HIDE DEF f, u
    <2> QED BY <2>2, <2>5, <2>6, OneMoreOctet
  <1>2. CASE UNCHANGED vars
    BY <1>2 DEF vars, Clean
  <1> QED BY <1>1, <1>2

LEMMA InitClean == Init => Clean
  <1> SUFFICES ASSUME Init PROVE IsUnstuffed(<<>>, <<>>)
    BY DEF Init, Clean, Pending
  <1>1. Kept(<<>>) = {}
    BY DEF Kept
  <1> QED BY <1>1, FS_EmptySet DEF IsUnstuffed

\* What comes out of such a stream is the stream without its stuffing, for streams of
\* any length (pop3_multi.h: "byte-stuffing").
THEOREM StuffingIsUndone == Spec => []Unstuffs
  <1>1. IInv /\ Clean => Unstuffs
    <2> SUFFICES ASSUME IInv, Clean, OfLines(input), NoEnd(input), current \in {"NEWLINE", "BYTE"}
                 PROVE  IsUnstuffed(output, input)
      BY DEF Unstuffs
    <2>1. output \o Pending(current) = output
      BY DEF Pending, IInv
    <2> QED BY <2>1 DEF Clean
  <1> QED BY <1>1, InitIInv, NextIInv, InitFollows, NextFollows, InitClean, NextClean, PTL DEF Spec

-----------------------------------------------------------------------------
\* Each octet main reads is one that is fed to the automaton.
LEMMA ReadingFeeds == ASSUME NEW c, Read(c) PROVE Next
  BY DEF Read, Next

\* A step of the filter is a step of the stream or none.
LEMMA StepFeeds == [MimeNext]_mimeVars => [Next]_vars
  <1> SUFFICES ASSUME [MimeNext]_mimeVars PROVE [Next]_vars
    OBVIOUS
  <1>1. CASE ReadMail
    BY <1>1, ReadingFeeds DEF ReadMail
  <1>2. CASE ReadAny
    <2>1. PICK c : Read(c)
      BY <1>2 DEF ReadAny
    <2> QED BY <2>1, ReadingFeeds
  <1>3. CASE UNCHANGED mimeVars
    BY <1>3 DEF mimeVars, vars
  <1> QED BY <1>1, <1>2, <1>3 DEF MimeNext

\* The filter's input is a stream of the automaton, for every set of mails.
THEOREM FilterFeedsTheAutomaton == MimeSpec => Spec
  <1>1. MimeInit => Init
    BY DEF MimeInit
  <1> QED BY <1>1, StepFeeds, PTL DEF MimeSpec, Spec

\* The filter ends a mail only behind a line of a single dot (the state FIN of
\* pop3_multi.c), for every mail.
THEOREM MailEndIsReal == MimeSpec => []EndIsReal
  BY FilterFeedsTheAutomaton, EndToldIsReal, PTL

\* In a mail made of lines the filter ends with the mail, and takes its stuffing away,
\* for every mail.
THEOREM MailIsUnstuffed == MimeSpec => [](EndIsFound /\ Unstuffs)
  BY FilterFeedsTheAutomaton, EndToldIsFound, StuffingIsUndone, PTL

-----------------------------------------------------------------------------
\* The inductive invariant of the filter's context: its types, the bounds of its
\* arrays, and what they need of its sequences.
CtxFields ==
  {"msg", "fields", "mimeType", "boundary", "list", "subtype", "stack", "newBoundaryPush",
   "firstAttempt", "toBeCensored", "boundaryDetected", "delimiterDetected",
   "delimiterEndDetected", "replace", "replaced", "attachment", "buffer", "out", "printed",
   "stopped"}
States == 0..3
Heading == [Fields -> [st : States, detected : Flag]]
Marks == Octets \cup {Dashes}
Delims == {d \in [delimiter : Seq(Marks), literal : Seq(Marks), st : Nat, endSt : Nat] :
             d.st <= Len(d.literal) + 1 /\ d.endSt <= Len(d.literal) + 2}
IsList(list) == Len(list) \in Nat /\ DOMAIN list = 1..Len(list)

CtxOK(x) ==
  /\ DOMAIN x = CtxFields
  /\ x.msg \in MsgStates /\ x.mimeType \in TypeStates /\ x.boundary \in 0..2
  /\ x.fields \in Heading
  /\ IsList(x.list) /\ x.subtype \in 0..Len(x.list)
  /\ x.toBeCensored \in Flag /\ x.boundaryDetected \in Flag
  /\ x.delimiterDetected \in Flag /\ x.delimiterEndDetected \in Flag
  /\ x.stack \in Seq(Delims)
  /\ x.buffer \in Seq(Octets) /\ Len(x.buffer) < MaxValue
  /\ (x.replaced => x.replace)

LEMMA ToldIsFlag == \A b : Told(b) \in Flag /\ Null \in Flag /\ T \in Flag /\ F \in Flag
  BY DEF Told, Flag

\* The comparison with a name of n octets is in one of n + 2 states.
LEMMA ComparedInName ==
  ASSUME NEW name, NEW n \in Nat, Len(name) = n, NEW st \in Nat, NEW c
  PROVE  Compared(name, st, c) \in 0..(n + 1)
  BY DEF Compared, Agrees

\* Each field's name is of two octets (see MimeParsers).
LEMMA FieldNames == \A f \in Fields : Len(FieldName[f]) = 2
  BY DEF Fields, FieldName

LEMMA UnheardIsHeading == Unheard \in Heading
  BY DEF Unheard, Heading, States, Flag

-----------------------------------------------------------------------------
\* Each handler keeps it.
LEMMA StopOK == ASSUME NEW x, CtxOK(x) PROVE CtxOK(Stop(x))
  BY DEF CtxOK, CtxFields, Stop

LEMMA PutOK == ASSUME NEW x, CtxOK(x), NEW o PROVE CtxOK(Put(x, o))
  BY DEF CtxOK, CtxFields, Put

LEMMA ShowOK == ASSUME NEW x, CtxOK(x), NEW c PROVE CtxOK(Show(x, c))
  BY DEF CtxOK, CtxFields, Show

LEMMA NameEndOK == ASSUME NEW x, CtxOK(x) PROVE CtxOK(NameEnd(x))
  <1>1. ASSUME NEW f \in Fields PROVE [x.fields[f] EXCEPT !.st = 0] \in [st : States, detected : Flag]
    <2>1. x.fields[f] \in [st : States, detected : Flag]
      BY DEF CtxOK, Heading
    <2> QED BY <2>1 DEF States
  <1>2. [f \in Fields |-> [x.fields[f] EXCEPT !.st = 0]] \in Heading
    BY <1>1 DEF Heading
  <1> QED BY <1>2 DEF CtxOK, CtxFields, NameEnd

LEMMA NameOK == ASSUME NEW x, CtxOK(x), NEW c PROVE CtxOK(Name(x, c))
  <1> DEFINE h == [f \in Fields |->
     IF x.fields[f].detected = F THEN x.fields[f]
     ELSE [st |-> Compared(FieldName[f], x.fields[f].st, c),
           detected |-> Told(Agrees(FieldName[f], x.fields[f].st, c))]]
  <1>1. ASSUME NEW f \in Fields PROVE x.fields[f] \in [st : States, detected : Flag]
    BY DEF CtxOK, Heading
  <1>2. ASSUME NEW f \in Fields, NEW b
        PROVE  [st |-> Compared(FieldName[f], x.fields[f].st, c), detected |-> Told(b)]
                  \in [st : States, detected : Flag]
    <2>1. x.fields[f].st \in Nat /\ Len(FieldName[f]) = 2
      BY <1>1, FieldNames DEF States
    <2>2. PICK n, s : n = FieldName[f] /\ s = x.fields[f].st
      OBVIOUS
    <2>3. Len(n) = 2 /\ s \in Nat
      BY <2>1, <2>2
    <2>4. Compared(n, s, c) \in 0..3
      BY ONLY <2>3 DEF Compared, Agrees
    <2> QED BY <2>2, <2>4, ToldIsFlag DEF States
  <1>3. h \in Heading
    BY <1>1, <1>2 DEF Heading
  <1>4. Name(x, c) = [x EXCEPT !.fields = h]
    BY DEF Name
  <1> HIDE DEF h
  <1> QED BY <1>3, <1>4 DEF CtxOK, CtxFields

\* The buffer is never filled to MAX.
LEMMA BufferedOK == ASSUME NEW x, CtxOK(x), NEW d \in Seq(Octets) PROVE CtxOK(Buffered(x, d))
  <1>1. CASE Len(x.buffer) + Len(d) >= MaxValue
    BY <1>1, StopOK DEF Buffered
  <1>2. CASE ~(Len(x.buffer) + Len(d) >= MaxValue)
    <2>1. x.buffer \o d \in Seq(Octets) /\ Len(x.buffer \o d) = Len(x.buffer) + Len(d)
      BY DEF CtxOK
    <2>2. Len(x.buffer \o d) < MaxValue
      BY <1>2, <2>1, MaxValueAssumption DEF CtxOK
    <2>3. Buffered(x, d) = [x EXCEPT !.buffer = x.buffer \o d]
      BY <1>2 DEF Buffered
    <2> QED BY <2>1, <2>2, <2>3 DEF CtxOK, CtxFields
  <1> QED BY <1>1, <1>2

\* The list keeps its length, whatever is noted in its nodes.
LEMMA FeedTypesIsList ==
  ASSUME NEW list, IsList(list), NEW c
  PROVE  IsList(FeedTypes(list, c)) /\ Len(FeedTypes(list, c)) = Len(list)
  BY DEF IsList, FeedTypes

LEMMA CleanListIsList ==
  ASSUME NEW list, IsList(list)
  PROVE  IsList(CleanList(list)) /\ Len(CleanList(list)) = Len(list)
  BY DEF IsList, CleanList

LEMMA ContentTypeTypeOK == ASSUME NEW x, CtxOK(x), NEW c PROVE CtxOK(ContentTypeType(x, c))
  <1>1. CASE x.list = <<>>
    BY <1>1, StopOK DEF ContentTypeType
  <1>2. CASE x.list # <<>>
    <2> DEFINE fed == FeedTypes(x.list, c)
    <2>1. IsList(fed) /\ Len(fed) = Len(x.list)
      BY FeedTypesIsList DEF CtxOK
    <2>2. PICK m \in Flag : m = Told(\E i \in 1..Len(fed) : fed[i].event = T)
      BY ToldIsFlag
    <2>3. ContentTypeType(x, c) = [x EXCEPT !.list = fed, !.toBeCensored = m]
      BY <1>2, <2>2 DEF ContentTypeType
    <2> HIDE DEF fed
    <2> QED BY <2>1, <2>3 DEF CtxOK, CtxFields
  <1> QED BY <1>1, <1>2

\* The subtype found is one of the list or none.
LEMMA ContextSetterOK == ASSUME NEW x, CtxOK(x) PROVE CtxOK(ContextSetter(x))
  <1> DEFINE I == {i \in 1..Len(x.list) : x.list[i].event = T}
             n == SelectInSeq(x.list, LAMBDA node : node.event = T)
  <1>1. n = IF I # {} THEN Min(I) ELSE 0
    BY DEF SelectInSeq
  <1>2. Len(x.list) \in Nat
    BY DEF CtxOK, IsList
  <1>3. ASSUME I # {} PROVE Min(I) \in I
    <2>1. I \subseteq Nat
      BY <1>2
    <2>2. \E m \in I : \A j \in I : m <= j
      BY ONLY <2>1, <1>3, Least
    <2> HIDE DEF I
    <2> QED BY <2>2 DEF Min
  <1>4. n \in 0..Len(x.list)
    BY <1>1, <1>2, <1>3
  <1>5. ContextSetter(x) = IF n = 0 THEN x ELSE [x EXCEPT !.subtype = n]
    BY DEF ContextSetter
  <1> HIDE DEF n
  <1> QED BY <1>4, <1>5 DEF CtxOK, CtxFields

LEMMA ContentTypeSubtypeOK == ASSUME NEW x, CtxOK(x), NEW c PROVE CtxOK(ContentTypeSubtype(x, c))
  <1>1. CASE x.subtype = 0
    BY <1>1, StopOK DEF ContentTypeSubtype
  <1>2. CASE x.subtype # 0
    <2> DEFINE nodes == x.list[x.subtype].subtypes
               new == [x.list EXCEPT ![x.subtype] = [@ EXCEPT !.subtypes = FeedSubtypes(nodes, c)]]
    <2>1. IsList(new) /\ Len(new) = Len(x.list)
      BY DEF CtxOK, IsList
    <2>2. PICK m \in Flag : m = Told(nodes[1].name = AnySubtype \/
                               \E j \in 1..Len(nodes) : Agrees(<<nodes[j].name>>, nodes[j].st, c))
      BY ToldIsFlag
    <2>3. ContentTypeSubtype(x, c) = [x EXCEPT !.toBeCensored = m, !.list = new]
      BY <1>2, <2>2 DEF ContentTypeSubtype, CtxOK, CtxFields
    <2> HIDE DEF new
    <2> QED BY <2>1, <2>3 DEF CtxOK, CtxFields
  <1> QED BY <1>1, <1>2

LEMMA BoundaryAnalizerOK == ASSUME NEW x, CtxOK(x), NEW c PROVE CtxOK(BoundaryAnalizer(x, c))
  <1>1. Compared(Boundary, x.boundary, c) \in 0..2
    <2>1. PICK b, s : b = Boundary /\ s = x.boundary
      OBVIOUS
    <2>2. Len(b) = 1 /\ s \in 0..2
      BY <2>1 DEF Boundary, CtxOK
    <2>3. Compared(b, s, c) \in 0..2
      BY <2>2 DEF Compared, Agrees
    <2> QED BY <2>1, <2>3
  <1> QED BY <1>1, ToldIsFlag DEF CtxOK, CtxFields, BoundaryAnalizer

\* A delimiter pushed, extended, closed, reset or compared with is one.
LEMMA InitDelims == DelimiterInit \in Delims
  BY DEF DelimiterInit, Delims, Marks

LEMMA PushDelimiterOK == ASSUME NEW x, CtxOK(x) PROVE CtxOK(PushDelimiter(x))
  <1>1. Append(x.stack, DelimiterInit) \in Seq(Delims)
    BY InitDelims DEF CtxOK
  <1> QED BY <1>1 DEF CtxOK, CtxFields, PushDelimiter

\* The element on top of the stack is one of it, and may be changed for another.
LEMMA TopOfStack ==
  ASSUME NEW s \in Seq(Delims), s # <<>>
  PROVE  s[Len(s)] \in Delims /\ \A d \in Delims : [s EXCEPT ![Len(s)] = d] \in Seq(Delims)
  OBVIOUS

LEMMA ExtendInDelims == ASSUME NEW d \in Delims, NEW c \in Octets PROVE Extend(d, c) \in Delims
  <1> DEFINE e == Extend(d, c)
  <1>1. d \in [delimiter : Seq(Marks), literal : Seq(Marks), st : Nat, endSt : Nat]
    BY DEF Delims
  <1>2. Append(d.delimiter, c) \in Seq(Marks)
    BY <1>1 DEF Marks
  <1>3. /\ e \in [delimiter : Seq(Marks), literal : Seq(Marks), st : Nat, endSt : Nat]
        /\ e.literal = d.literal /\ e.st = d.st /\ e.endSt = d.endSt
    BY <1>1, <1>2 DEF Extend
  <1> HIDE DEF e
  <1>4. e \in Delims
    BY <1>3 DEF Delims
  <1> QED BY <1>4 DEF e

LEMMA ExtendDelimiterOK == ASSUME NEW x, CtxOK(x), NEW c \in Octets PROVE CtxOK(ExtendDelimiter(x, c))
  <1>1. CASE x.boundaryDetected = T /\ x.stack = <<>>
    BY <1>1, StopOK DEF ExtendDelimiter
  <1>2. CASE x.boundaryDetected = T /\ x.stack # <<>>
    <2> DEFINE d == x.stack[Len(x.stack)]
               new == [x.stack EXCEPT ![Len(x.stack)] = Extend(d, c)]
    <2>1. d \in Delims
      BY <1>2, TopOfStack DEF CtxOK
    <2>2. Extend(d, c) \in Delims
      <3> HIDE DEF d
      <3> QED BY <2>1, ExtendInDelims
    <2>3. new \in Seq(Delims)
      BY <1>2, <2>2, TopOfStack DEF CtxOK
    <2>4. ExtendDelimiter(x, c) = [x EXCEPT !.stack = new]
      BY <1>2 DEF ExtendDelimiter, OnTop
    <2> HIDE DEF new
    <2> QED BY <2>3, <2>4 DEF CtxOK, CtxFields
  <1>3. CASE x.boundaryDetected # T
    BY <1>3 DEF ExtendDelimiter
  <1> QED BY <1>1, <1>2, <1>3

LEMMA ContentTypeValueOK ==
  ASSUME NEW w, CtxOK(w), NEW c \in Octets PROVE CtxOK(ContentTypeValue(w, c))
  <1> DEFINE fed == TypeFeed(w.mimeType, c)
             x == [w EXCEPT !.mimeType = fed.dest]
  <1>1. fed.dest \in TypeStates
    BY DEF TypeFeed, Enters, TypeStates
  <1>2. CtxOK(x)
    <2> HIDE DEF fed
    <2> QED BY <1>1 DEF CtxOK, CtxFields
  <1>3. ContentTypeValue(w, c) \in
          {x, Stop(x), ContentTypeType(x, c), ContextSetter(x), ContentTypeSubtype(x, c),
           BoundaryAnalizer(x, c), PushDelimiter(x), ExtendDelimiter(x, c)}
    BY DEF ContentTypeValue
  <1> HIDE DEF x
  <1> QED BY <1>2, <1>3, StopOK, ContentTypeTypeOK, ContextSetterOK, ContentTypeSubtypeOK,
             BoundaryAnalizerOK, PushDelimiterOK, ExtendDelimiterOK

LEMMA ValueOK == ASSUME NEW x, CtxOK(x), NEW c \in Octets PROVE CtxOK(Value(x, c))
  <1>1. <<c>> \in Seq(Octets)
    OBVIOUS
  <1>2. CtxOK(Buffered(x, <<c>>))
    BY <1>1, BufferedOK
  <1> QED BY <1>2, ContentTypeValueOK DEF Value

LEMMA CloseInDelims == ASSUME NEW d \in Delims PROVE CloseDelimiter(d) \in Delims
  <1>1. /\ d \in [delimiter : Seq(Marks), literal : Seq(Marks), st : Nat, endSt : Nat]
        /\ Len(d.delimiter) \in Nat
    BY DEF Delims
  <1>2. PICK e : e = CloseDelimiter(d)
    OBVIOUS
  <1>3. /\ e \in [delimiter : Seq(Marks), literal : Seq(Marks), st : Nat, endSt : Nat]
        /\ e.literal = d.delimiter /\ e.st = 0 /\ e.endSt = 0
    BY <1>1, <1>2 DEF CloseDelimiter
  <1>4. e \in Delims
    BY <1>1, <1>3 DEF Delims
  <1> QED BY <1>2, <1>4

LEMMA ResetInDelims == ASSUME NEW d \in Delims PROVE DelimiterReset(d) \in Delims
  <1>1. /\ d \in [delimiter : Seq(Marks), literal : Seq(Marks), st : Nat, endSt : Nat]
        /\ Len(d.literal) \in Nat
    BY DEF Delims
  <1>2. PICK e : e = DelimiterReset(d)
    OBVIOUS
  <1>3. /\ e \in [delimiter : Seq(Marks), literal : Seq(Marks), st : Nat, endSt : Nat]
        /\ e.literal = d.literal /\ e.st = 0 /\ e.endSt = 0
    BY <1>1, <1>2 DEF DelimiterReset
  <1>4. e \in Delims
    BY <1>1, <1>3 DEF Delims
  <1> QED BY <1>2, <1>4

LEMMA OnTopClosed ==
  ASSUME NEW s \in Seq(Delims)
  PROVE  OnTop(s, CloseDelimiter) \in Seq(Delims) /\ OnTop(s, DelimiterReset) \in Seq(Delims)
  BY TopOfStack, CloseInDelims, ResetInDelims DEF OnTop

LEMMA EndOfValueOK == ASSUME NEW x, CtxOK(x) PROVE CtxOK(EndOfValue(x))
  <1> DEFINE w == Put(x, ValueWritten(x))
  <1>1. CtxOK(w)
    BY PutOK
  <1>2. PICK stack \in Seq(Delims) : stack = OnTop(w.stack, CloseDelimiter)
    BY <1>1, OnTopClosed DEF CtxOK
  <1>3. PICK list : list = CleanList(w.list) /\ IsList(list) /\ Len(list) = Len(w.list)
    BY <1>1, CleanListIsList DEF CtxOK
  <1>4. <<>> \in Seq(Octets) /\ Len(<<>>) < MaxValue
    BY MaxValueAssumption
  <1>5. PICK a, b, f, r :
          /\ a = (w.attachment \/ Contains(x.buffer, "message"))
          /\ b = (w.newBoundaryPush \/ (IsMultipart(x.buffer) /\ ~x.firstAttempt))
          /\ f = (w.firstAttempt /\ ~IsMultipart(x.buffer))
          /\ r = (w.replace \/ x.toBeCensored = T)
    OBVIOUS
  <1>6. EndOfValue(x) =
          [w EXCEPT !.attachment = a, !.newBoundaryPush = b, !.firstAttempt = f,
                    !.replace = r, !.buffer = <<>>, !.stack = stack, !.mimeType = "TYPE0",
                    !.list = list, !.boundary = 0, !.fields = Unheard, !.toBeCensored = F]
    BY <1>2, <1>3, <1>5, Zenon DEF EndOfValue
  <1> HIDE DEF w
  <1>7. PICK y : y =
          [w EXCEPT !.attachment = a, !.newBoundaryPush = b, !.firstAttempt = f,
                    !.replace = r, !.buffer = <<>>, !.stack = stack, !.mimeType = "TYPE0",
                    !.list = list, !.boundary = 0, !.fields = Unheard, !.toBeCensored = F]
    OBVIOUS
  <1>8. /\ DOMAIN y = CtxFields
        /\ y.msg = w.msg /\ y.mimeType = "TYPE0" /\ y.boundary = 0 /\ y.fields = Unheard
        /\ y.list = list /\ y.subtype = w.subtype /\ y.toBeCensored = F
        /\ y.boundaryDetected = w.boundaryDetected /\ y.delimiterDetected = w.delimiterDetected
        /\ y.delimiterEndDetected = w.delimiterEndDetected /\ y.stack = stack
        /\ y.buffer = <<>> /\ y.replace = r /\ y.replaced = w.replaced
    <2>1. DOMAIN w = CtxFields
      BY <1>1 DEF CtxOK
    <2> QED BY ONLY <1>7, <2>1, ZenonT(60) DEF CtxFields
  <1>9. y.replaced => y.replace
    BY <1>1, <1>5, <1>8 DEF CtxOK
  <1>10. /\ IsList(y.list) /\ y.subtype \in 0..Len(y.list) /\ y.stack \in Seq(Delims)
        /\ y.buffer \in Seq(Octets) /\ Len(y.buffer) < MaxValue
    BY <1>1, <1>2, <1>3, <1>4, <1>8 DEF CtxOK
  <1>11. CtxOK(y)
    BY <1>1, <1>8, <1>9, <1>10, UnheardIsHeading, ToldIsFlag DEF CtxOK, TypeStates
  <1> QED BY <1>6, <1>7, <1>11

LEMMA DetectInDelims ==
  ASSUME NEW d \in Delims, NEW c
  PROVE  [d EXCEPT !.st = Compared(d.literal, @, c), !.endSt = Compared(EndOf(d), @, c)] \in Delims
  <1>1. /\ d \in [delimiter : Seq(Marks), literal : Seq(Marks), st : Nat, endSt : Nat]
        /\ Len(d.literal) \in Nat /\ Dashes \in Marks
    BY DEF Delims, Marks
  <1>2. PICK n : n = Len(d.literal)
    OBVIOUS
  <1>3. n \in Nat /\ Len(EndOf(d)) = n + 1
    BY <1>1, <1>2 DEF EndOf
  <1>4. PICK st \in 0..(n + 1) : st = Compared(d.literal, d.st, c)
    BY <1>1, <1>2, <1>3, ComparedInName
  <1>5. PICK endSt \in 0..(n + 2) : endSt = Compared(EndOf(d), d.endSt, c)
    <2>1. n + 1 \in Nat /\ d.endSt \in Nat /\ (n + 1) + 1 = n + 2
      BY <1>1, <1>3
    <2> QED BY <2>1, <1>3, ComparedInName
  <1>6. PICK e : e = [d EXCEPT !.st = st, !.endSt = endSt]
    OBVIOUS
  <1>7. /\ e \in [delimiter : Seq(Marks), literal : Seq(Marks), st : Nat, endSt : Nat]
        /\ e.literal = d.literal /\ e.st = st /\ e.endSt = endSt
    <2>1. st \in Nat /\ endSt \in Nat
      BY <1>3
    <2> QED BY ONLY <1>1, <1>6, <2>1
  <1>8. e \in Delims
    BY <1>2, <1>3, <1>4, <1>5, <1>7 DEF Delims
  <1> QED BY <1>4, <1>5, <1>6, <1>8

LEMMA DetectDelimiterOK == ASSUME NEW x, CtxOK(x), NEW c PROVE CtxOK(DetectDelimiter(x, c))
  <1>1. CASE x.stack = <<>> \/ Last(x.stack).literal = <<>>
    BY <1>1, StopOK DEF DetectDelimiter
  <1>2. CASE ~(x.stack = <<>> \/ Last(x.stack).literal = <<>>)
    <2>1. PICK d : d = x.stack[Len(x.stack)] /\ d \in Delims
      BY <1>2, TopOfStack DEF CtxOK
    <2>2. PICK e \in Delims :
            e = [d EXCEPT !.st = Compared(d.literal, @, c), !.endSt = Compared(EndOf(d), @, c)]
      BY <2>1, DetectInDelims
    <2>3. PICK stack \in Seq(Delims) : stack = [x.stack EXCEPT ![Len(x.stack)] = e]
      BY <1>2, <2>2, TopOfStack DEF CtxOK
    <2>4. PICK a \in Flag, b \in Flag : DetectDelimiter(x, c) =
            [x EXCEPT !.delimiterDetected = a, !.delimiterEndDetected = b, !.stack = stack]
      BY <1>2, <2>1, <2>2, <2>3, ToldIsFlag DEF DetectDelimiter, OnTop, Last
    <2> QED BY <2>3, <2>4 DEF CtxOK, CtxFields
  <1> QED BY <1>1, <1>2

LEMMA BodyOK == ASSUME NEW w, CtxOK(w), NEW c PROVE CtxOK(Body(w, c))
  <1> DEFINE x == CASE w.replace /\ ~w.replaced ->
                    [Put(w, <<Replacement, "CR", "LF">>) EXCEPT !.replaced = TRUE]
                    [] ~w.replace -> Show(w, c)
                    [] OTHER -> w
             y == DetectDelimiter(x, c)
  <1>1. CtxOK(x)
    <2>1. CASE w.replace /\ ~w.replaced
      <3>1. PICK v : v = Put(w, <<Replacement, "CR", "LF">>)
        OBVIOUS
      <3>2. CtxOK(v) /\ v.replace
        BY <2>1, <3>1, PutOK DEF Put, CtxOK, CtxFields
      <3>3. x = [v EXCEPT !.replaced = TRUE]
        BY <2>1, <3>1
      <3> HIDE DEF x
      <3> QED BY <3>2, <3>3 DEF CtxOK, CtxFields
    <2>2. CASE ~w.replace
      BY <2>2, ShowOK
    <2>3. CASE w.replace /\ w.replaced
      BY <2>3
    <2> QED BY <2>1, <2>2, <2>3
  <1> HIDE DEF x
  <1>2. CtxOK(y)
    BY <1>1, DetectDelimiterOK
  <1>3. Body(w, c) \in {x, y, Put(y, <<c>>)}
    BY DEF Body, x
  <1> HIDE DEF y
  <1> QED BY <1>1, <1>2, <1>3, PutOK

LEMMA StartAttachmentOK == ASSUME NEW x, CtxOK(x) PROVE CtxOK(StartAttachment(x))
  <1>1. Append(x.stack, DelimiterInit) \in Seq(Delims)
    BY InitDelims DEF CtxOK
  <1> QED BY <1>1 DEF CtxOK, CtxFields, StartAttachment, MsgStates

LEMMA PopDelimiterOK == ASSUME NEW x, CtxOK(x) PROVE CtxOK(PopDelimiter(x))
  <1>1. PICK stack : stack = StackPop(x.stack) /\ stack \in Seq(Delims)
    <2>1. CASE x.stack = <<>>
      BY <2>1 DEF StackPop, CtxOK
    <2>2. CASE x.stack # <<>>
      <3>1. x.stack \in Seq(Delims) /\ Len(x.stack) \in Nat
        BY DEF CtxOK
      <3>2. Front(x.stack) \in Seq(Delims)
        BY <3>1, SubSeqProperties, ElementOfSeq DEF Front
      <3> QED BY <2>2, <3>2 DEF StackPop
    <2> QED BY <2>1, <2>2
  <1>2. PopDelimiter(x) \in {x, [x EXCEPT !.stack = stack]}
    BY <1>1 DEF PopDelimiter
  <1>3. CtxOK([x EXCEPT !.stack = stack])
    BY <1>1 DEF CtxOK, CtxFields
  <1> QED BY <1>2, <1>3

LEMMA StartPartOK == ASSUME NEW x, CtxOK(x) PROVE CtxOK(StartPart(x))
  <1>1. PICK list : list = CleanList(x.list) /\ IsList(list) /\ Len(list) = Len(x.list)
    BY CleanListIsList DEF CtxOK
  <1>2. PICK y : y = [x EXCEPT !.replace = FALSE, !.replaced = FALSE, !.toBeCensored = F,
            !.boundaryDetected = F, !.delimiterDetected = Null,
            !.delimiterEndDetected = Null, !.subtype = 0, !.fields = Unheard,
            !.msg = "NAME0", !.list = list, !.mimeType = "TYPE0", !.boundary = 0]
    OBVIOUS
  <1>3. /\ DOMAIN y = CtxFields
        /\ y.msg = "NAME0" /\ y.mimeType = "TYPE0" /\ y.boundary = 0 /\ y.fields = Unheard
        /\ y.list = list /\ y.subtype = 0 /\ y.toBeCensored = F
        /\ y.boundaryDetected = F /\ y.delimiterDetected = Null
        /\ y.delimiterEndDetected = Null /\ y.stack = x.stack
        /\ y.buffer = x.buffer /\ ~y.replaced
    BY ONLY <1>2, CtxOK(x) DEF CtxOK, CtxFields
  <1>4. CtxOK(y)
    BY <1>1, <1>3, UnheardIsHeading, ToldIsFlag DEF CtxOK, TypeStates, MsgStates, IsList
  <1>5. StartPart(x) \in {x, Stop(x), y}
    BY <1>1, <1>2 DEF StartPart
  <1> QED BY <1>4, <1>5, StopOK

LEMMA BodyNewlineOK == ASSUME NEW w, CtxOK(w) PROVE CtxOK(BodyNewline(w))
  <1>1. PICK x : x = StartPart(PopDelimiter(w)) /\ CtxOK(x)
    BY PopDelimiterOK, StartPartOK
  <1>2. PICK stack \in Seq(Delims) : stack = OnTop(x.stack, DelimiterReset)
    BY <1>1, OnTopClosed DEF CtxOK
  <1>3. CtxOK([x EXCEPT !.stack = stack])
    BY <1>1, <1>2 DEF CtxOK, CtxFields
  <1>4. BodyNewline(w) \in {StartAttachment(w), Stop(x), [x EXCEPT !.stack = stack]}
    BY <1>1, <1>2 DEF BodyNewline
  <1> QED BY <1>1, <1>3, <1>4, StopOK, StartAttachmentOK

\* An octet goes to a state of mime_msg.c with one event or two, and the events that
\* carry a header's value carry octets.
EventOK(e) == /\ e.type = "VALUE" => e.data[1] \in Octets
              /\ e.type = "VALUE_FOLD" => e.data \in Seq(Octets)

LEMMA MsgFeedOK ==
  ASSUME NEW s \in MsgStates, NEW c \in Octets
  PROVE  LET fed == MsgFeed(s, c)
         IN  /\ fed.dest \in MsgStates
             /\ fed.events # <<>> /\ EventOK(fed.events[1])
             /\ Len(fed.events) # 1 => EventOK(fed.events[2])
  <1> <<c>> \in Seq(Octets) /\ <<"CR", "LF">> \in Seq(Octets) /\ "CR" \in Octets
    BY OctetsAssumption
  <1> USE DEF MsgFeed, MsgStates, EventOK, With, Wait, Goes, Event, Unexpected
  <1>1. CASE s = "NAME0"
    BY <1>1 DEF MsgName0
  <1>2. CASE s = "NAME"
    BY <1>2 DEF MsgName, MsgName0
  <1>3. CASE s = "VALUE"
    BY <1>3 DEF MsgValue
  <1>4. CASE s = "VALUE_CR"
    BY <1>4 DEF MsgValueCr
  <1>5. CASE s = "VALUE_CRLF"
    BY <1>5 DEF MsgValueCrlf, ValueEnd
  <1>6. CASE s = "FOLD"
    BY <1>6 DEF MsgFold
  <1>7. CASE s = "VALUE_CRLF_CR"
    BY <1>7 DEF MsgValueCrlfCr, ValueEnd
  <1>8. CASE s = "BODY"
    BY <1>8 DEF MsgBody
  <1>9. CASE s = "BODY_CR"
    BY <1>9 DEF MsgBodyCr
  <1>10. CASE s = "ERROR"
    BY <1>10
  <1> QED BY <1>1, <1>2, <1>3, <1>4, <1>5, <1>6, <1>7, <1>8, <1>9, <1>10

LEMMA HeardOK ==
  ASSUME NEW x, CtxOK(x), NEW e, EventOK(e), NEW c \in Octets PROVE CtxOK(Heard(x, e, c))
  <1>1. CtxOK(Handled(x, e, c))
    BY NameOK, NameEndOK, ValueOK, BufferedOK, EndOfValueOK, BodyOK, BodyNewlineOK DEF Handled, EventOK
  <1> QED BY <1>1, ShowOK DEF Heard, Echoed

LEMMA MimeMsgOK == ASSUME NEW x, CtxOK(x), NEW c \in Octets PROVE CtxOK(MimeMsg(x, c))
  <1> DEFINE fed == MsgFeed(x.msg, c)
  <1>1. /\ fed.dest \in MsgStates
        /\ EventOK(fed.events[1])
        /\ Len(fed.events) # 1 => EventOK(fed.events[2])
    BY MsgFeedOK DEF CtxOK
  <1>2. PICK w : w = [x EXCEPT !.msg = fed.dest, !.printed = FALSE]
    OBVIOUS
  <1>3. PICK y : y = Heard(w, fed.events[1], c)
    OBVIOUS
  <1>4. MimeMsg(x, c) = IF Len(fed.events) = 1 THEN y ELSE Heard(y, fed.events[2], c)
    BY <1>2, <1>3 DEF MimeMsg
  <1> HIDE DEF fed
  <1>5. CtxOK(w)
    BY <1>1, <1>2 DEF CtxOK, CtxFields
  <1>6. CtxOK(y)
    BY <1>1, <1>3, <1>5, HeardOK
  <1> QED BY <1>1, <1>4, <1>6, HeardOK

LEMMA GivenOK == ASSUME NEW x, CtxOK(x), NEW c \in Octets PROVE CtxOK(Given(x, c))
  BY MimeMsgOK DEF Given

\* What main does with an octet keeps the context.
LEMMA Pop3MultiOctetOK ==
  ASSUME NEW w, CtxOK(w), NEW s \in ParserStates, NEW c \in Octets
  PROVE  CtxOK(Pop3MultiOctet(w, s, c))
  <1> DEFINE fed == MultiFeed(s, c)
             x == CASE fed.out = <<>>     -> w
                    [] Len(fed.out) = 1   -> Given(w, fed.out[1])
                    [] OTHER -> Given(Given(w, fed.out[1]), fed.out[2])
  <1>1. fed.out \in {<<>>, <<c>>, <<"CR", c>>}
    BY DEF MultiFeed, ParserStates, ParserFeed, To, Newline, Byte, Cr, Dot, DotCr, Fin
  <1>2. x \in {w, Given(w, c), Given(Given(w, "CR"), c)}
    <2> HIDE DEF fed
    <2> QED BY <1>1
  <1>3. CtxOK(x)
    BY <1>2, GivenOK, OctetsAssumption
  <1>4. Pop3MultiOctet(w, s, c) =
          IF fed.dest # "FIN" THEN x
          ELSE [x EXCEPT !.msg = "NAME0",
                         !.fields = [@ EXCEPT !["type"].detected = Null,
                                              !["transfer"].detected = Null]]
    BY DEF Pop3MultiOctet
  <1> HIDE DEF x
  <1>5. PICK h : h = [x.fields EXCEPT !["type"].detected = Null, !["transfer"].detected = Null]
    OBVIOUS
  <1>6. h \in Heading
    <2>1. \A r \in [st : States, detected : Flag] :
            [r EXCEPT !.detected = Null] \in [st : States, detected : Flag]
      BY ToldIsFlag
    <2>2. x.fields \in Heading
      BY <1>3 DEF CtxOK
    <2> QED BY <1>5, <2>1, <2>2 DEF Heading
  <1>7. CtxOK([x EXCEPT !.msg = "NAME0", !.fields = h])
    BY <1>3, <1>6 DEF CtxOK, CtxFields, MsgStates
  <1> QED BY <1>3, <1>4, <1>5, <1>7

-----------------------------------------------------------------------------
\* The list of the media types is one, however many there are.

\* The nodes of lists made of the names of N.
NodesOf(N) ==
  [name : N, st : {0}, event : {F}, subtypes : Seq([name : N, st : {0}])]

\* add_new keeps the list one of nodes.
LEMMA AddNewNodes ==
  ASSUME NEW N, AnySubtype \in N, NEW type \in N, NEW subtype \in N, NEW list \in Seq(NodesOf(N))
  PROVE  AddNew(list, type, subtype) \in Seq(NodesOf(N))
  <1> DEFINE I == {i \in 1..Len(list) : list[i].name = type}
  <1>1. PICK n : n = SearchForType(list, type)
    OBVIOUS
  <1>2. n = IF I # {} THEN Min(I) ELSE 0
    BY <1>1 DEF SearchForType, SelectInSeq
  <1>3. Len(list) \in Nat
    OBVIOUS
  <1>4. ASSUME I # {} PROVE Min(I) \in I
    <2>1. I \subseteq Nat
      BY <1>3
    <2>2. \E m \in I : \A j \in I : m <= j
      BY ONLY <2>1, <1>4, Least
    <2> HIDE DEF I
    <2> QED BY <2>2 DEF Min
  <1>5. n \in 0..Len(list)
    BY <1>2, <1>3, <1>4
  <1>6. \A x \in N : TypeNode(type, x) \in NodesOf(N) /\ <<Subtype(x)>> \in Seq([name : N, st : {0}])
    BY DEF TypeNode, Subtype, NodesOf
  <1>7. ASSUME NEW u \in Seq([name : N, st : {0}]), n # 0
        PROVE  [list EXCEPT ![n].subtypes = u] \in Seq(NodesOf(N))
    <2>1. n \in 1..Len(list) /\ list[n] \in NodesOf(N)
      BY <1>3, <1>5, <1>7
    <2>2. PICK node : node = [list[n] EXCEPT !.subtypes = u] /\ node \in NodesOf(N)
      <3>1. ASSUME NEW l \in NodesOf(N) PROVE [l EXCEPT !.subtypes = u] \in NodesOf(N)
        BY DEF NodesOf
      <3> QED BY <2>1, <3>1
    <2>3. [list EXCEPT ![n] = node] \in Seq(NodesOf(N))
      BY <2>1, <2>2, ExceptSeq
    <2> QED BY <2>2, <2>3
  <1>8. \A x \in N : n # 0 => Append(list[n].subtypes, Subtype(x)) \in Seq([name : N, st : {0}])
    <2>1. n # 0 => list[n] \in NodesOf(N)
      BY <1>3, <1>5
    <2> QED BY <2>1 DEF NodesOf, Subtype
  <1>9. CASE subtype = AnySubtype
    <2>1. CASE n = 0
      BY <1>1, <1>6, <1>9, <2>1 DEF AddNew, MakeSubtypeWildcard
    <2>2. CASE n # 0
      BY <1>1, <1>6, <1>7, <1>9, <2>2 DEF AddNew, MakeSubtypeWildcard
    <2> QED BY <2>1, <2>2
  <1>10. CASE subtype # AnySubtype
    <2>1. CASE n = 0
      BY <1>1, <1>6, <1>10, <2>1 DEF AddNew
    <2>2. CASE n # 0
      <3>1. PICK u \in Seq([name : N, st : {0}]) : u = Append(list[n].subtypes, Subtype(subtype))
        BY <1>8, <2>2
      <3>2. AddNew(list, type, subtype) \in {list, [list EXCEPT ![n].subtypes = u]}
        BY <1>1, <1>10, <2>2, <3>1 DEF AddNew
      <3> QED BY <1>7, <2>2, <3>1, <3>2
    <2> QED BY <2>1, <2>2
  <1> QED BY <1>9, <1>10

LEMMA MediaListIsList ==
  ASSUME NEW medias, Len(medias) \in Nat
  PROVE  IsList(MediaList(medias))
  <1> DEFINE m == Len(medias)
             N == {medias[i][1] : i \in 1..m} \cup {medias[i][2] : i \in 1..m} \cup {AnySubtype}
             V == Seq(NodesOf(N))
             a == <<>>
             h == [p \in (1..m) \X V |-> AddNew(p[2], medias[p[1]][1], medias[p[1]][2])]
             Is(g) == g = [n \in 0..m |->
                        IF n = 0 THEN a ELSE AddNew(g[n - 1], medias[n][1], medias[n][2])]
  <1>1. m \in Nat /\ a \in V
    OBVIOUS
  <1>2. ASSUME NEW i \in 1..m, NEW x \in V PROVE AddNew(x, medias[i][1], medias[i][2]) \in V
    BY AddNewNodes
  <1>3. \A i \in 1..m, x \in V : h[<<i, x>>] = AddNew(x, medias[i][1], medias[i][2])
    OBVIOUS
  <1>4. \A i \in 1..m, x \in V : h[<<i, x>>] \in V
    BY <1>2, <1>3
  <1>5. MediaList(medias) = (CHOOSE g : Is(g))[m]
    BY DEF MediaList
  <1>6. ASSUME NEW l \in V PROVE IsList(l)
    BY <1>6 DEF IsList
  <1> HIDE DEF V, a, h, m
  <1>7. PICK f : Recursive(f, V, a, m, h)
    BY <1>1, <1>4, Recursion
  <1>8. f \in [0..m -> V] /\ f[0] = a /\ \A i \in 1..m : f[i] = h[<<i, f[i - 1]>>]
    BY <1>7 DEF Recursive
  <1>9. ASSUME NEW i \in 0..m, i # 0
        PROVE  f[i] = AddNew(f[i - 1], medias[i][1], medias[i][2])
    <2>1. i \in 1..m /\ i - 1 \in 0..m
      BY <1>1, <1>9
    <2>2. f[i - 1] \in V
      BY <2>1, <1>8
    <2> QED BY <2>1, <2>2, <1>3, <1>8
  <1>10. Is(f)
    BY <1>1, <1>8, <1>9
  <1>11. PICK g : Is(g) /\ MediaList(medias) = g[m]
    BY <1>5, <1>10
  <1>12. Obeys(g, V, a, m, h)
    <2>1. ASSUME NEW i \in 1..m, g[i - 1] \in V PROVE g[i] = h[<<i, g[i - 1]>>]
      <3>1. i \in 0..m /\ i # 0
        BY <1>1
      <3> QED BY <3>1, <2>1, <1>3, <1>11
    <2>2. g[0] = a
      BY <1>1, <1>11
    <2> QED BY <2>1, <2>2 DEF Obeys
  <1>13. \A i \in 0..m : g[i] = f[i]
    BY <1>1, <1>7, <1>12, RecursionUnique
  <1>14. g[m] \in V
    BY <1>1, <1>8, <1>13
  <1> QED BY <1>6, <1>11, <1>14

\* The mails all come with a list of media types.
LEMMA MediasAreListed == ASSUME NEW m \in Mails \cup {AnyStream} PROVE Len(m.medias) \in Nat
  <1>1. \A s \in Medias \cup {<<>>, <<Png>>} : Len(s) \in Nat
    BY DEF Medias
  <1>2. \A s, d, f : Mail(s, d, f).medias = s
    BY DEF Mail
  <1>3. ASSUME m \in Mails PROVE \E s \in Medias \cup {<<>>} : \E d, f : m = Mail(s, d, f)
    <2> DEFINE first(doc) == Joined(<<Plain(<<Subject>>, <<>>), doc>>)
               some(s, n) == {Mail(n, first(d), s = "fatal") : d \in Docs(s, n)}
               A1 == UNION {some(s, n) : s \in Shapes, n \in Medias}
               A2 == {Mail(n, Leaf(Picture, n, <<>>), TRUE) : n \in Medias}
               A3 == {Mail(<<>>, first(Leaf(p, <<>>, <<>>)), TRUE) : p \in {Text, Odd}}
    <2>1. m \in A1 \/ m \in A2 \/ m \in A3
      <3>1. Mails = A1 \cup IF "fatal" \notin Shapes THEN {} ELSE A2 \cup A3
        BY DEF Mails
      <3> HIDE DEF A1, A2, A3
      <3> QED BY <1>3, <3>1
    <2>2. ASSUME m \in A1 PROVE \E s \in Medias : \E d, f : m = Mail(s, d, f)
      <3>1. PICK s \in Shapes, n \in Medias : m \in some(s, n)
        BY <2>2
      <3>2. PICK d \in Docs(s, n) : m = Mail(n, first(d), s = "fatal")
        BY <3>1
      <3> HIDE DEF first
      <3> QED BY <3>2
    <2>3. ASSUME m \in A2 PROVE \E s \in Medias : \E d, f : m = Mail(s, d, f)
      BY <2>3
    <2>4. ASSUME m \in A3 PROVE \E d, f : m = Mail(<<>>, d, f)
      <3> HIDE DEF first
      <3> QED BY <2>4
    <2> HIDE DEF A1, A2, A3
    <2> QED BY <2>1, <2>2, <2>3, <2>4
  <1>4. AnyStream.medias = <<Png>>
    BY DEF AnyStream
  <1> QED BY <1>1, <1>2, <1>3, <1>4

LEMMA InitCtxOK == ASSUME NEW medias, Len(medias) \in Nat PROVE CtxOK(InitCtx(medias))
  <1>1. PICK list : list = MediaList(medias) /\ IsList(list)
    BY MediaListIsList
  <1>2. <<>> \in Seq(Octets) /\ <<>> \in Seq(Delims) /\ Len(<<>>) < MaxValue
    BY MaxValueAssumption
  <1>3. 0 \in 0..Len(list)
    BY <1>1 DEF IsList
  <1> QED BY <1>1, <1>2, <1>3, UnheardIsHeading, ToldIsFlag
          DEF InitCtx, CtxOK, CtxFields, MsgStates, TypeStates

\* In every mail and any stream, the context keeps its types and every index and
\* counter of it its bounds: the buffer of a header's value, the states of the
\* comparisons, the subtype found (mime_filter.c); and a part is only replaced if
\* it is to be.
THEOREM MimeTypeCorrect == MimeSpec => []MimeTypeOK
  <1>1. MimeInit => CtxOK(filter)
    BY InitCtxOK, MediasAreListed DEF MimeInit
  <1>2. TypeOK /\ CtxOK(filter) /\ [MimeNext]_mimeVars => CtxOK(filter)'
    <2> SUFFICES ASSUME TypeOK, CtxOK(filter), [MimeNext]_mimeVars PROVE CtxOK(filter')
      OBVIOUS
    <2>1. ASSUME NEW c, Read(c) PROVE CtxOK(filter')
      BY <2>1, Pop3MultiOctetOK DEF Read, TypeOK
    <2>2. CASE UNCHANGED mimeVars
      BY <2>2 DEF mimeVars
    <2> QED BY <2>1, <2>2 DEF MimeNext, ReadMail, ReadAny
  <1>3. TypeOK /\ CtxOK(filter) => MimeTypeOK
    <2> SUFFICES ASSUME TypeOK, CtxOK(filter) PROVE MimeTypeOK
      OBVIOUS
    <2>1. \A f \in Fields : /\ filter.fields[f].st \in 0..(Len(FieldName[f]) + 1)
                            /\ filter.fields[f].detected \in Flag
      <3>1. filter.fields \in Heading
        BY DEF CtxOK
      <3>2. \A f \in Fields : filter.fields[f] \in [st : 0..3, detected : Flag]
        BY <3>1 DEF Heading, States
      <3>3. ASSUME NEW f \in Fields
            PROVE  filter.fields[f].st \in 0..(Len(FieldName[f]) + 1)
        <4>1. PICK n : n = Len(FieldName[f])
          OBVIOUS
        <4>2. n = 2
          BY <4>1, FieldNames
        <4> QED BY <3>2, <4>1, <4>2
      <3> QED BY <3>2, <3>3
    <2>2. \A i \in 1..Len(filter.stack) : filter.stack[i] \in Delims
      BY DEF CtxOK
    <2>3. \A d \in Delims : d.st <= Len(d.literal) + 1 /\ d.endSt <= Len(d.literal) + 2
      BY DEF Delims
    <2>4. Len(Boundary) = 1
      BY DEF Boundary
    <2> QED BY <2>1, <2>2, <2>3, <2>4 DEF CtxOK, MimeTypeOK
  <1>4. MimeSpec => []TypeOK
    BY FilterFeedsTheAutomaton, StreamTypeCorrect, PTL
  <1> QED BY <1>1, <1>2, <1>3, <1>4, PTL DEF MimeSpec
=============================================================================
