--------------------------- MODULE TransformationProofs ---------------------------
(***************************************************************************)
(* Proofs about Transformation: what the scan for the end of a mail finds  *)
(* when the mail arrives in pieces, and the invariant behind its safety    *)
(* properties.                                                             *)
(***************************************************************************)
EXTENDS Transformation, SequenceLemmas

(***************************************************************************)
(* Lines that the dot and the lf of an end may follow; where the automaton *)
(* is behind the first i of them.                                          *)
(***************************************************************************)
Mailing(s) ==
  /\ s \in Seq(Units)
  /\ \A i \in 1..Len(s) : /\ s[i] = "dot" => i >= Len(s) - 1
                          /\ s[i] = "lf" <=> i > 1 /\ s[i - 1] = "dot"

Complete(s) == s # <<>> /\ s[Len(s)] = "lf"

Behind(s, i) == IF i = 0 \/ s[i] = "text" THEN "NEWLINE"
                ELSE IF s[i] = "dot" THEN "DOT_CR" ELSE "FIN"


LEMMA FeedIs ==
  /\ \A p \in ParserStates, u \in Units : Feed(p, u) \in ParserStates
  /\ Feed("NEWLINE", "text") = "NEWLINE" /\ Feed("NEWLINE", "dot") = "DOT_CR"
  /\ Feed("DOT_CR", "lf") = "FIN"
  <1>1. ASSUME NEW p \in ParserStates, NEW c PROVE After(p, c) \in ParserStates
    BY DEF After, ParserFeed, ParserStates, Newline, Byte, Cr, Dot, DotCr, Fin, To
  <1>2. ASSUME NEW p \in ParserStates, NEW u \in Units PROVE Feed(p, u) \in ParserStates
    BY <1>1 DEF Feed, Units
  <1>3. /\ After("NEWLINE", "x") = "BYTE" /\ After("BYTE", "CR") = "CR" /\ After("CR", "LF") = "NEWLINE"
        /\ After("NEWLINE", ".") = "DOT" /\ After("DOT", "CR") = "DOT_CR"
        /\ After("DOT_CR", "LF") = "FIN"
    BY DEF After, ParserFeed, Newline, Byte, Cr, Dot, DotCr, To
  <1> QED BY <1>2, <1>3 DEF Feed

LEMMA FedIs ==
  ASSUME NEW p \in ParserStates, NEW data \in Seq(Units), NEW f, f = Fed(p, data)
  PROVE  /\ f \in [0..Len(data) -> ParserStates] /\ f[0] = p
         /\ \A i \in 1..Len(data) : f[i] = Feed(f[i - 1], data[i])
  <1> DEFINE m == Len(data)
             h == [x \in (1..m) \X ParserStates |-> Feed(x[2], data[x[1]])]
             Is(g) == g = [i \in 0..m |-> IF i = 0 THEN p ELSE Feed(g[i - 1], data[i])]
  <1>1. m \in Nat /\ \A i \in 1..m : data[i] \in Units
    BY LenProperties, ElementOfSeq
  <1>2. \A i \in 1..m, x \in ParserStates : h[<<i, x>>] = Feed(x, data[i]) /\ h[<<i, x>>] \in ParserStates
    BY <1>1, FeedIs
  <1> HIDE DEF h, m
  <1>3. PICK g : Recursive(g, ParserStates, p, m, h)
    BY <1>1, <1>2, Recursion
  <1>4. g \in [0..m -> ParserStates] /\ g[0] = p /\ \A i \in 1..m : g[i] = Feed(g[i - 1], data[i])
    <2>1. ASSUME NEW i \in 1..m PROVE g[i] = Feed(g[i - 1], data[i])
      <3>1. i - 1 \in 0..m
        BY <1>1
      <3> QED BY <3>1, <1>2, <1>3 DEF Recursive
    <2> QED BY <2>1, <1>3 DEF Recursive
  <1>5. Is(g)
    <2>1. \A i \in 0..m : i # 0 => i \in 1..m
      BY <1>1
    <2> QED BY <1>4, <2>1
  <1>6. Is(f)
    <2>1. f = CHOOSE e : Is(e)
      BY DEF Fed, m
    <2> HIDE DEF Is
    <2> QED BY <2>1, <1>5
  <1>7. Obeys(f, ParserStates, p, m, h)
    <2>1. ASSUME NEW i \in 1..m, f[i - 1] \in ParserStates PROVE f[i] = h[<<i, f[i - 1]>>]
      <3>1. i \in 0..m /\ i # 0
        BY <1>1
      <3> QED BY <3>1, <2>1, <1>2, <1>6
    <2>2. f[0] = p
      BY <1>1, <1>6
    <2> QED BY <2>1, <2>2 DEF Obeys
  <1>8. \A i \in 0..m : f[i] = g[i]
    BY ONLY <1>1, <1>3, <1>7, RecursionUnique
  <1>9. f = g
    BY <1>4, <1>6, <1>8
  <1> QED BY <1>4, <1>9 DEF m

\* The scan goes through what it is given, or up to the end that it finds.
Ends(f, data) == {i \in 1..Len(data) : f[i] = "FIN"}

LEMMA ParseMailIs ==
  ASSUME NEW p \in ParserStates, NEW data \in Seq(Units), NEW f, f = Fed(p, data)
  PROVE  /\ ParseMail(p, data).parser \in ParserStates /\ ParseMail(p, data).upTo \in 0..Len(data)
         /\ Ends(f, data) = {} => ParseMail(p, data) = [parser |-> f[Len(data)], upTo |-> 0]
         /\ \A i \in Ends(f, data) : (\A j \in Ends(f, data) : i <= j) =>
                                        ParseMail(p, data) = [parser |-> "FIN", upTo |-> i]
  <1>1. f \in [0..Len(data) -> ParserStates] /\ Len(data) \in Nat
    BY FedIs, LenProperties
  <1>2. CASE Ends(f, data) = {}
    <2>1. ParseMail(p, data) = [parser |-> f[Len(data)], upTo |-> 0]
      BY <1>2 DEF ParseMail, Ends
    <2>2. f[Len(data)] \in ParserStates
      BY <1>1
    <2> QED BY <1>1, <1>2, <2>1, <2>2
  <1>3. CASE Ends(f, data) # {}
    <2>1. PICK E : E = Ends(f, data)
      OBVIOUS
    <2>2. E \subseteq 1..Len(data) /\ E \subseteq Nat /\ \A i \in E : f[i] = "FIN"
      BY <1>1, <2>1 DEF Ends
    <2>3. PICK m \in E : \A n \in E : m <= n
      BY <1>3, <2>1, <2>2, Least
    <2>4. \A i \in E : (\A j \in E : i <= j) => i = m
      BY <2>2, <2>3
    <2>5. (CHOOSE i \in E : \A j \in E : i <= j) = m
      BY <2>3, <2>4
    <2>6. ParseMail(p, data) = [parser |-> f[m], upTo |-> m]
      BY <1>3, <2>1, <2>5 DEF ParseMail, Ends, UpTo
    <2>7. f[m] = "FIN" /\ m \in 0..Len(data)
      BY <1>1, <2>2
    <2>8. "FIN" \in ParserStates
      BY DEF ParserStates
    <2>9. ParseMail(p, data).parser = "FIN" /\ ParseMail(p, data).upTo = m
      BY <2>6, <2>7
    <2>10. \A i \in E : (\A j \in E : i <= j) => ParseMail(p, data) = [parser |-> "FIN", upTo |-> i]
      BY <2>4, <2>6, <2>7
    <2> QED BY <1>3, <2>1, <2>7, <2>8, <2>9, <2>10
  <1> QED BY <1>2, <1>3

LEMMA BehindIs ==
  ASSUME NEW s, Mailing(s)
  PROVE  /\ Len(s) \in Nat /\ Behind(s, 0) = "NEWLINE"
         /\ \A i \in 0..Len(s) : /\ Behind(s, i) \in ParserStates
                                 /\ Behind(s, i) = "FIN" => i = Len(s) /\ Complete(s)
         /\ Complete(s) => Len(s) >= 2 /\ Behind(s, Len(s)) = "FIN"
         /\ \A i \in 1..Len(s) : Feed(Behind(s, i - 1), s[i]) = Behind(s, i)
  <1>1. Len(s) \in Nat /\ \A i \in 1..Len(s) : s[i] \in Units
    BY LenProperties, ElementOfSeq DEF Mailing
  <1>2. \A i \in 1..Len(s) : /\ s[i] = "dot" => i >= Len(s) - 1
                             /\ s[i] = "lf" <=> i > 1 /\ s[i - 1] = "dot"
    BY DEF Mailing
  <1>3. ASSUME NEW i \in 1..Len(s), s[i] = "lf" PROVE i > 1 /\ i = Len(s) /\ s[i - 1] = "dot"
    <2>1. i > 1 /\ s[i - 1] = "dot" /\ i - 1 \in 1..Len(s)
      BY <1>1, <1>2, <1>3
    <2>2. i - 1 >= Len(s) - 1
      BY <1>2, <2>1
    <2> QED BY <1>1, <2>1, <2>2
  <1>4. ASSUME NEW i \in 0..Len(s)
        PROVE  Behind(s, i) \in ParserStates /\ (Behind(s, i) = "FIN" => i = Len(s) /\ Complete(s))
    <2>1. Behind(s, i) \in ParserStates
      BY DEF Behind, ParserStates
    <2>2. ASSUME Behind(s, i) = "FIN" PROVE i = Len(s) /\ Complete(s)
      <3>1. i \in 1..Len(s) /\ s[i] = "lf"
        BY <1>1, <2>2 DEF Behind, Units
      <3>2. i = Len(s)
        BY <1>3, <3>1
      <3>3. s # <<>>
        BY <1>1, <3>1, EmptySeq
      <3> QED BY <3>1, <3>2, <3>3 DEF Complete
    <2> QED BY <2>1, <2>2
  <1>5. ASSUME Complete(s) PROVE Len(s) >= 2 /\ Behind(s, Len(s)) = "FIN"
    <2>1. Len(s) \in 1..Len(s) /\ s[Len(s)] = "lf"
      BY <1>1, <1>5, EmptySeq DEF Complete, Mailing
    <2>2. Len(s) > 1
      BY <1>3, <2>1
    <2> QED BY <1>1, <2>1, <2>2 DEF Behind
  <1>6. ASSUME NEW i \in 1..Len(s) PROVE Feed(Behind(s, i - 1), s[i]) = Behind(s, i)
    <2>1. i # 0 /\ s[i] \in Units /\ (i = 1 <=> i - 1 = 0) /\ (i # 1 => i - 1 \in 1..Len(s) /\ i > 1)
      BY <1>1
    <2>2. i # 1 => s[i - 1] # "lf" /\ s[i - 1] \in Units
      BY <1>1, <1>3, <2>1
    <2>3. CASE i # 1 /\ s[i - 1] = "dot"
      <3>1. s[i] = "lf"
        BY <1>2, <2>1, <2>3
      <3>2. Behind(s, i - 1) = "DOT_CR" /\ Behind(s, i) = "FIN"
        BY <2>1, <2>3, <3>1 DEF Behind
      <3> QED BY <3>1, <3>2, FeedIs
    <2>4. CASE ~(i # 1 /\ s[i - 1] = "dot")
      <3>1. Behind(s, i - 1) = "NEWLINE"
        BY <2>1, <2>2, <2>4 DEF Behind, Units
      <3>2. s[i] # "lf"
        BY <1>2, <2>1, <2>4
      <3>3. CASE s[i] = "text"
        BY <3>1, <3>3, FeedIs DEF Behind
      <3>4. CASE s[i] = "dot"
        <4>1. Behind(s, i) = "DOT_CR"
          BY <2>1, <3>4 DEF Behind
        <4> QED BY <3>1, <3>4, <4>1, FeedIs
      <3> QED BY <2>1, <3>2, <3>3, <3>4 DEF Units
    <2> QED BY <2>3, <2>4
  <1> QED BY <1>1, <1>4, <1>5, <1>6 DEF Behind

\* Behind c units of a mail and m more that data begins with.
Continues(s, c, data, m) ==
  /\ Mailing(s) /\ c \in Nat /\ data \in Seq(Units) /\ m \in 0..Len(data) /\ c + m <= Len(s)
  /\ \A i \in 1..m : data[i] = s[c + i]

LEMMA ScanFollows ==
  ASSUME NEW s, NEW c, NEW data, NEW m, Continues(s, c, data, m), NEW f, f = Fed(Behind(s, c), data)
  PROVE  Behind(s, c) \in ParserStates /\ \A i \in 0..m : f[i] = Behind(s, c + i)
  <1>1. /\ c \in Nat /\ m \in Nat /\ Len(s) \in Nat /\ c + m <= Len(s) /\ Len(data) \in Nat /\ m <= Len(data)
        /\ data \in Seq(Units) /\ Mailing(s)
    BY BehindIs, LenProperties DEF Continues
  <1>2. Behind(s, c) \in ParserStates
    BY <1>1, BehindIs
  <1>3. f[0] = Behind(s, c) /\ \A i \in 1..Len(data) : f[i] = Feed(f[i - 1], data[i])
    BY <1>1, <1>2, FedIs
  <1> DEFINE M == {n \in Nat : n <= m => f[n] = Behind(s, c + n)}
  <1>4. 0 \in M
    BY <1>1, <1>3
  <1>5. ASSUME NEW n \in Nat, n \in M PROVE n + 1 \in M
    <2> SUFFICES ASSUME n + 1 <= m PROVE f[n + 1] = Behind(s, c + (n + 1))
      OBVIOUS
    <2>1. /\ n + 1 \in 1..Len(data) /\ (n + 1) - 1 = n /\ n + 1 \in 1..m
          /\ c + (n + 1) \in 1..Len(s) /\ (c + (n + 1)) - 1 = c + n
      BY <1>1
    <2>2. f[n] = Behind(s, c + n)
      BY <1>1, <1>5
    <2>3. f[n + 1] = Feed(f[n], data[n + 1])
      BY <1>3, <2>1
    <2>4. data[n + 1] = s[c + (n + 1)]
      BY <2>1 DEF Continues
    <2>5. Feed(Behind(s, c + n), s[c + (n + 1)]) = Behind(s, c + (n + 1))
      <3>1. Feed(Behind(s, (c + (n + 1)) - 1), s[c + (n + 1)]) = Behind(s, c + (n + 1))
        BY ONLY <1>1, <2>1, BehindIs
      <3> QED BY <2>1, <3>1
    <2> QED BY <2>2, <2>3, <2>4, <2>5
  <1> HIDE DEF M
  <1>6. Nat \subseteq M
    BY <1>4, <1>5, Induction
  <1> QED BY <1>1, <1>2, <1>6 DEF M

\* The scan stops exactly behind the end of the mail, whatever lies behind it.
LEMMA ScanFindsEnd ==
  ASSUME NEW s, NEW c, NEW data, NEW m, Continues(s, c, data, m), Complete(s), m > 0, c + m = Len(s)
  PROVE  ParseMail(Behind(s, c), data) = [parser |-> "FIN", upTo |-> m]
  <1>1. PICK f, p : f = Fed(p, data) /\ p = Behind(s, c)
    OBVIOUS
  <1>2. p \in ParserStates /\ \A i \in 0..m : f[i] = Behind(s, c + i)
    BY <1>1, ScanFollows
  <1>3. /\ c \in Nat /\ m \in Nat /\ Len(s) \in Nat /\ Len(data) \in Nat /\ m <= Len(data)
        /\ data \in Seq(Units) /\ Mailing(s)
    BY BehindIs, LenProperties DEF Continues
  <1>4. f[m] = "FIN" /\ m \in 1..Len(data)
    <2>1. Behind(s, Len(s)) = "FIN"
      BY <1>3, BehindIs
    <2>2. m \in 0..m /\ m \in 1..Len(data)
      BY <1>3
    <2> QED BY <1>2, <2>1, <2>2
  <1>5. ASSUME NEW j \in Ends(f, data) PROVE m <= j
    <2> SUFFICES ASSUME j < m PROVE FALSE
      BY <1>3 DEF Ends
    <2>1. j \in 0..m /\ c + j \in 0..Len(s) /\ c + j # Len(s) /\ f[j] = "FIN"
      BY <1>3 DEF Ends
    <2>2. Behind(s, c + j) = "FIN"
      BY <1>2, <2>1
    <2> QED BY <1>3, <2>1, <2>2, BehindIs
  <1>6. m \in Ends(f, data)
    BY <1>4 DEF Ends
  <1> QED BY <1>1, <1>2, <1>3, <1>5, <1>6, ParseMailIs

LEMMA ScanPasses ==
  ASSUME NEW s, NEW c, NEW data, Continues(s, c, data, Len(data)), Behind(s, c + Len(data)) # "FIN"
  PROVE  ParseMail(Behind(s, c), data) = [parser |-> Behind(s, c + Len(data)), upTo |-> 0]
  <1>1. PICK f, p, m : f = Fed(p, data) /\ p = Behind(s, c) /\ m = Len(data)
    OBVIOUS
  <1>2. p \in ParserStates /\ \A i \in 0..m : f[i] = Behind(s, c + i)
    BY <1>1, ScanFollows
  <1>3. c \in Nat /\ m \in Nat /\ Len(s) \in Nat /\ c + m <= Len(s) /\ data \in Seq(Units) /\ Mailing(s)
    BY <1>1, BehindIs, LenProperties DEF Continues
  <1>4. ASSUME NEW j \in Ends(f, data) PROVE FALSE
    <2>1. j \in 0..m /\ c + j \in 0..Len(s) /\ f[j] = "FIN"
      BY <1>1, <1>3 DEF Ends
    <2>2. Behind(s, c + j) = "FIN"
      BY <1>2, <2>1
    <2>3. c + j = Len(s)
      BY <1>3, <2>1, <2>2, BehindIs
    <2>4. j = m
      BY <1>3, <2>1, <2>3
    <2> QED BY <1>1, <2>2, <2>4
  <1>5. Ends(f, data) = {} /\ f[m] = Behind(s, c + m)
    BY <1>2, <1>3, <1>4
  <1> QED BY <1>1, <1>2, <1>3, <1>5, ParseMailIs

-----------------------------------------------------------------------------
Interests == {"none", "off", "NOOP", "READ", "WRITE"}
FlagsType == [finishRead : BOOLEAN, finishWrite : BOOLEAN, errorWrite : BOOLEAN, didWrite : BOOLEAN,
              writeError : BOOLEAN, sendRead : Nat, sendWrite : Nat]

Types ==
  /\ state \in {"RESPONSE", "EXTERNAL_TRANSFORMATION", "REQUEST", "ERROR"}
  /\ interest \in [client : Interests, origin : Interests, extRead : Interests, extWrite : Interests]
  /\ inbuf \in Buffers(Units) /\ InBounds(inbuf)
  /\ outbuf \in Buffers(Units) /\ InBounds(outbuf)
  /\ et \in FlagsType
  /\ et.sendRead <= Len(inbuf.data) /\ et.sendWrite <= Len(outbuf.data)
  /\ parserRead \in ParserStates /\ parserWrite \in ParserStates
  /\ wire \in Seq(Units) /\ toFilter \in Seq(Units) /\ fromFilter \in Seq(Units)
  /\ taken \in Seq(Units) /\ given \in Seq(Units) /\ received \in Seq(Units)
  /\ filter \in {"runs", "ended"}
  /\ died \in {"no", "assertion", "SIGPIPE"}

Within == state = "EXTERNAL_TRANSFORMATION"

Passed  == Len(taken) + Len(toFilter)
Arrived == Passed + Len(inbuf.data)
Output  == IF et.writeError THEN given \o Terminator ELSE given
Fetched == Len(received) + Len(outbuf.data)
Broken  == filter = "ended" /\ fromFilter = <<>>

\* The step before the state.
Begins ==
  state = "RESPONSE" /\ interest.extRead = "none" =>
    /\ et = Flags /\ parserWrite = "NEWLINE" /\ Passed = 0
    /\ outbuf = EmptyBuffer /\ received = <<>>
    /\ interest.origin # "READ" /\ interest.client # "WRITE"

(***************************************************************************)
(* The way in.  What the origin has sent behind the +OK line lies in four  *)
(* places; the filter has been given the first Passed units of it.         *)
(***************************************************************************)
InOrder ==
  /\ mail \in Seq(Units) /\ next \in Seq(Units) /\ Mailing(mail) /\ Complete(mail)
  /\ ((taken \o toFilter) \o inbuf.data) \o wire = mail \o next
  /\ Passed <= Len(mail)

\* The end of the mail was found, and what is passed on stops there.
EndFound ==
  /\ interest.origin # "READ"
  /\ Passed + et.sendRead = Len(mail)
  /\ et.sendRead = 0 => interest.extWrite = "off"

\* The end has not arrived, and the parser is behind all that has.
EndAwaited ==
  /\ et.sendRead = 0 /\ Arrived < Len(mail)
  /\ parserRead = Behind(mail, Arrived)
  /\ interest.origin = "READ" => inbuf.data = <<>>

InputInv == InOrder /\ (Within => IF et.finishRead THEN EndFound ELSE EndAwaited)

(***************************************************************************)
(* The way out.  What the filter gave, and the end that the proxy may put  *)
(* behind it, lies in three places.                                        *)
(***************************************************************************)
OutOfFilter ==
  /\ Mailing(given)
  /\ (received \o outbuf.data) \o fromFilter = Output
  /\ et.writeError => et.errorWrite /\ Broken

\* The filter broke off, or a read without room was taken for that.
BrokenOff == interest.extRead = "off" /\ (et.writeError \/ Broken \/ Room(outbuf) = 0)

(***************************************************************************)
(* As long as every send took all it was given: the two descriptors take   *)
(* turns, and the parser is behind all that the filter's output was        *)
(* fetched, until the end was found or the output broke off.               *)
(***************************************************************************)
TakesTurns ==
  IF interest.extRead = "READ"
  THEN outbuf = EmptyBuffer /\ interest.client # "WRITE" /\ et.sendWrite = 0 /\ ~et.finishWrite
  ELSE interest.client # "WRITE" => outbuf = EmptyBuffer /\ (et.finishWrite \/ et.writeError)

Fetching == /\ parserWrite = Behind(given, Fetched) /\ parserWrite # "FIN"
            /\ interest.extRead # "off"

EndFetched == /\ Fetched = Len(given) /\ Complete(given) /\ ~et.errorWrite
              /\ interest.extRead = "off"
              /\ et.sendWrite = IF et.finishWrite THEN 0 ELSE Len(outbuf.data)
              /\ et.finishWrite => outbuf = EmptyBuffer

BrokeOff == /\ Broken /\ ~Complete(given) /\ et.sendWrite = 0 /\ ~et.finishWrite
            /\ IF et.writeError THEN interest.client # "WRITE" ELSE outbuf = EmptyBuffer

WholeSends ==
  /\ TakesTurns
  /\ IF et.errorWrite THEN BrokeOff
     ELSE IF et.sendWrite # 0 \/ et.finishWrite THEN EndFetched ELSE Fetching

\* The reply is whole: nothing is left of it, and it ends.
Whole == /\ outbuf = EmptyBuffer /\ fromFilter = <<>>
         /\ IF et.writeError THEN Broken /\ ~Complete(given) ELSE Complete(given)

OutputInv ==
  /\ OutOfFilter
  /\ Within => (et.errorWrite => BrokenOff) /\ (~short => WholeSends)
  /\ Over /\ Passed = Len(mail) /\ ~short => Whole

TInv == Types /\ Begins /\ InputInv /\ OutputInv

-----------------------------------------------------------------------------
LEMMA Splits ==
  ASSUME NEW S, NEW w \in Seq(S), NEW n \in 0..Len(w)
  PROVE  /\ SubSeq(w, 1, n) \in Seq(S) /\ Len(SubSeq(w, 1, n)) = n
         /\ SubSeq(w, n + 1, Len(w)) \in Seq(S) /\ Len(SubSeq(w, n + 1, Len(w))) = Len(w) - n
         /\ SubSeq(w, 1, n) \o SubSeq(w, n + 1, Len(w)) = w
  <1>1. Len(w) \in Nat /\ n \in Nat /\ 0 \in Nat /\ 0 + 1 = 1 /\ n - 0 = n /\ Len(w) \in n..Len(w) /\ n \in 0..Len(w)
    BY LenProperties
  <1>2. SubSeq(w, 0 + 1, n) \in Seq(S) /\ Len(SubSeq(w, 0 + 1, n)) = n - 0
    BY ONLY <1>1, w \in Seq(S), Window
  <1>3. SubSeq(w, n + 1, Len(w)) \in Seq(S) /\ Len(SubSeq(w, n + 1, Len(w))) = Len(w) - n
    BY ONLY <1>1, w \in Seq(S), Window
  <1>4. SubSeq(w, 0 + 1, n) \o SubSeq(w, n + 1, Len(w)) = SubSeq(w, 0 + 1, Len(w))
    BY ONLY <1>1, w \in Seq(S), WindowGrows
  <1>5. SubSeq(w, 1, Len(w)) = w
    BY SubSeqFull
  <1> QED BY ONLY <1>1, <1>2, <1>3, <1>4, <1>5

Regroups(a, b, c, d) ==
  (a \o b) \o c = a \o (b \o c) /\ (a \o (b \o c)) \o d = (a \o b) \o (c \o d)

LEMMA Regrouped ==
  ASSUME NEW a \in Seq(Units), NEW b \in Seq(Units), NEW c \in Seq(Units), NEW d \in Seq(Units)
  PROVE  Regroups(a, b, c, d)
  <1>1. a \in Seq(Units) /\ b \in Seq(Units) /\ c \in Seq(Units) /\ d \in Seq(Units) /\ a \o b \in Seq(Units)
    BY ConcatProperties
  <1>2. (a \o b) \o c = a \o (b \o c)
    BY ONLY <1>1, ConcatAssociative, SMTT(30)
  <1>3. ((a \o b) \o c) \o d = (a \o b) \o (c \o d)
    <2>1. PICK ab : ab = a \o b
      OBVIOUS
    <2>2. ab \in Seq(Units)
      BY <1>1, <2>1
    <2>3. (ab \o c) \o d = ab \o (c \o d)
      BY ONLY <1>1, <2>2, ConcatAssociative, SMTT(30)
    <2> QED BY <2>1, <2>3
  <1> QED BY <1>2, <1>3 DEF Regroups

\* The middle of three parts, in a stream cut in two.
LEMMA Middle ==
  ASSUME NEW S, NEW a \in Seq(S), NEW b \in Seq(S), NEW c \in Seq(S), NEW d \in Seq(S), NEW e \in Seq(S),
         (a \o b) \o c = d \o e
  PROVE  /\ Len(a) + Len(b) + Len(c) = Len(d) + Len(e)
         /\ \A k \in 1..Len(b) : Len(a) + k <= Len(d) => b[k] = d[Len(a) + k]
  <1>1. /\ a \o b \in Seq(S) /\ Len(a \o b) = Len(a) + Len(b)
        /\ \A i \in 1..(Len(a) + Len(b)) : (a \o b)[i] = IF i <= Len(a) THEN a[i] ELSE b[i - Len(a)]
    BY ConcatProperties
  <1>2. /\ Len((a \o b) \o c) = Len(a \o b) + Len(c)
        /\ \A i \in 1..(Len(a \o b) + Len(c)) :
             ((a \o b) \o c)[i] = IF i <= Len(a \o b) THEN (a \o b)[i] ELSE c[i - Len(a \o b)]
    BY <1>1, ConcatProperties
  <1>3. /\ Len(d \o e) = Len(d) + Len(e)
        /\ \A i \in 1..(Len(d) + Len(e)) : (d \o e)[i] = IF i <= Len(d) THEN d[i] ELSE e[i - Len(d)]
    BY ConcatProperties
  <1>4. Len(a) \in Nat /\ Len(b) \in Nat /\ Len(c) \in Nat /\ Len(d) \in Nat /\ Len(e) \in Nat
    BY LenProperties
  <1>5. ASSUME NEW k \in 1..Len(b), Len(a) + k <= Len(d) PROVE b[k] = d[Len(a) + k]
    <2>1. PICK i : i = Len(a) + k
      OBVIOUS
    <2>2. /\ i \in 1..(Len(a) + Len(b)) /\ i \in 1..(Len(a \o b) + Len(c)) /\ i \in 1..(Len(d) + Len(e))
          /\ i <= Len(d) /\ ~(i <= Len(a)) /\ i <= Len(a \o b) /\ i - Len(a) = k
      BY <1>1, <1>4, <1>5, <2>1
    <2>3. (a \o b)[i] = b[k] /\ ((a \o b) \o c)[i] = (a \o b)[i] /\ (d \o e)[i] = d[i]
      BY <1>1, <1>2, <1>3, <2>2
    <2> QED BY <2>1, <2>3
  <1> QED BY <1>1, <1>2, <1>3, <1>5

LEMMA UnitSeqs ==
  /\ Terminator \in Seq(Units) /\ Len(Terminator) = 3 /\ Terminator[3] = "lf"
  /\ EmptyBuffer \in Buffers(Units) /\ InBounds(EmptyBuffer) /\ Len(EmptyBuffer.data) = 0
  /\ Room(EmptyBuffer) = BufferSize /\ BufferSize > 0 /\ BufferSize \in Nat
  <1>1. PICK x, y : x = <<"text">> /\ y = End
    OBVIOUS
  <1>2. x \in Seq(Units) /\ Len(x) = 1
    BY <1>1 DEF Units
  <1>3. y \in Seq(Units) /\ Len(y) = 2 /\ y[2] = "lf"
    BY <1>1 DEF Units, End
  <1>4. /\ x \o y \in Seq(Units) /\ Len(x \o y) = Len(x) + Len(y)
        /\ \A i \in 1..(Len(x) + Len(y)) : (x \o y)[i] = IF i <= Len(x) THEN x[i] ELSE y[i - Len(x)]
    BY <1>2, <1>3, ConcatProperties
  <1>5. (x \o y)[3] = "lf"
    BY <1>2, <1>3, <1>4
  <1>6. <<>> \in Seq(Units) /\ Len(<<>>) = 0
    BY EmptySeq
  <1>7. EmptyBuffer \in Buffers(Units) /\ EmptyBuffer.data = <<>> /\ EmptyBuffer.off = 0
    BY <1>6 DEF EmptyBuffer, Buffers
  <1>8. InBounds(EmptyBuffer) /\ Room(EmptyBuffer) = BufferSize /\ BufferSize > 0 /\ BufferSize \in Nat
    BY <1>6, <1>7, BufferSizeAssumption DEF InBounds, Room
  <1> QED BY <1>1, <1>2, <1>3, <1>4, <1>5, <1>6, <1>7, <1>8 DEF Terminator

LEMMA PutIs ==
  ASSUME NEW b \in Buffers(Units), NEW x \in Seq(Units)
  PROVE  /\ Put(b, x) \in Buffers(Units) /\ Put(b, x).data = b.data \o x
         /\ Len(Put(b, x).data) = Len(b.data) + Len(x) /\ Len(b.data) \in Nat /\ Len(x) \in Nat
         /\ Put(b, x).off = b.off
         /\ InBounds(Put(b, x)) <=> Len(x) <= Room(b)
  <1>1. b.data \in Seq(Units) /\ b.off \in Nat
    BY DEF Buffers
  <1>2. b.data \o x \in Seq(Units) /\ Len(b.data \o x) = Len(b.data) + Len(x)
    BY <1>1, ConcatProperties
  <1>3. Len(b.data) \in Nat /\ Len(x) \in Nat
    BY <1>1, LenProperties
  <1>4. Put(b, x) \in Buffers(Units) /\ Put(b, x).data = b.data \o x /\ Put(b, x).off = b.off
    <2>1. PICK y : y = b.data \o x
      OBVIOUS
    <2>2. Put(b, x) = [b EXCEPT !.data = y] /\ y \in Seq(Units)
      BY <1>2, <2>1 DEF Put
    <2> QED BY <1>1, <2>1, <2>2 DEF Buffers
  <1>5. InBounds(Put(b, x)) <=> Len(x) <= Room(b)
    BY <1>1, <1>2, <1>3, <1>4, BufferSizeAssumption DEF InBounds, Room
  <1> QED BY <1>2, <1>3, <1>4, <1>5

LEMMA DropIs ==
  ASSUME NEW b \in Buffers(Units), NEW n \in 0..Len(b.data), InBounds(b)
  PROVE  /\ Drop(b, n) \in Buffers(Units) /\ InBounds(Drop(b, n))
         /\ SubSeq(b.data, 1, n) \in Seq(Units) /\ Drop(b, n).data \in Seq(Units)
         /\ b.data = SubSeq(b.data, 1, n) \o Drop(b, n).data
         /\ Len(SubSeq(b.data, 1, n)) = n /\ Len(Drop(b, n).data) = Len(b.data) - n
         /\ n = Len(b.data) => Drop(b, n) = EmptyBuffer
  <1>1. b.data \in Seq(Units) /\ b.off \in Nat /\ b.off + Len(b.data) <= BufferSize /\ Len(b.data) \in Nat
    BY LenProperties DEF Buffers, InBounds
  <1>2. /\ SubSeq(b.data, 1, n) \in Seq(Units) /\ Len(SubSeq(b.data, 1, n)) = n
        /\ SubSeq(b.data, n + 1, Len(b.data)) \in Seq(Units)
        /\ Len(SubSeq(b.data, n + 1, Len(b.data))) = Len(b.data) - n
        /\ SubSeq(b.data, 1, n) \o SubSeq(b.data, n + 1, Len(b.data)) = b.data
    BY <1>1, Splits
  <1>3. CASE n = Len(b.data)
    <2>1. Drop(b, n) = EmptyBuffer
      BY <1>3 DEF Drop
    <2>2. SubSeq(b.data, 1, n) = b.data /\ EmptyBuffer.data = <<>>
      BY <1>1, <1>3, SubSeqFull DEF EmptyBuffer
    <2>3. b.data = b.data \o <<>>
      BY <1>1, ConcatEmptySeq
    <2>4. <<>> \in Seq(Units) /\ Len(<<>>) = 0
      BY EmptySeq
    <2> QED BY <1>1, <1>2, <1>3, <2>1, <2>2, <2>3, <2>4, UnitSeqs
  <1>4. CASE n # Len(b.data)
    <2>1. Drop(b, n) = [data |-> SubSeq(b.data, n + 1, Len(b.data)), off |-> b.off + n]
      BY <1>4 DEF Drop
    <2>2. Drop(b, n).data = SubSeq(b.data, n + 1, Len(b.data)) /\ Drop(b, n).off = b.off + n
      BY <2>1
    <2>3. Drop(b, n) \in Buffers(Units)
      BY <1>1, <1>2, <2>1 DEF Buffers
    <2>4. InBounds(Drop(b, n))
      BY <1>1, <1>2, <2>2 DEF InBounds
    <2> QED BY <1>2, <1>4, <2>2, <2>3, <2>4
  <1> QED BY <1>3, <1>4

-----------------------------------------------------------------------------
(* Types.                                                                  *)

LEMMA ParseTypes ==
  ASSUME NEW p \in ParserStates, NEW data \in Seq(Units)
  PROVE  ParseMail(p, data).parser \in ParserStates /\ ParseMail(p, data).upTo \in 0..Len(data)
  BY ParseMailIs

Interest == [client : Interests, origin : Interests, extRead : Interests, extWrite : Interests]

\* What a handler does to the descriptors.
LEMMA InterestTypes ==
  ASSUME interest \in Interest
  PROVE  /\ \A f \in {"client", "origin", "extRead", "extWrite"}, want \in Interests :
              /\ [interest EXCEPT ![f] = want] \in Interest /\ Set(interest, f, want) \in Interest
              /\ interest[f] \in Interests
         /\ \A x, y \in Interests : [interest EXCEPT !.extWrite = x, !.origin = y] \in Interest
         /\ \A x, y \in Interests : [interest EXCEPT !.extRead = x, !.client = y] \in Interest
         /\ \A x, y \in Interests : [interest EXCEPT !.extRead = x, !.extWrite = y] \in Interest
         /\ \A x, y \in Interests : [interest EXCEPT !.client = x, !.origin = y] \in Interest
         /\ {"none", "off", "NOOP", "READ", "WRITE"} = Interests
  <1>1. ASSUME NEW f \in {"client", "origin", "extRead", "extWrite"}, NEW want \in Interests
        PROVE  [interest EXCEPT ![f] = want] \in Interest
    BY <1>1 DEF Interest
  <1>2. ASSUME NEW f \in {"client", "origin", "extRead", "extWrite"}, NEW want \in Interests
        PROVE  Set(interest, f, want) \in Interest /\ interest[f] \in Interests
    BY <1>1 DEF Set, Interest
  <1>3. \A x, y \in Interests : [interest EXCEPT !.extWrite = x, !.origin = y] \in Interest
    BY DEF Interest
  <1>4. \A x, y \in Interests : [interest EXCEPT !.extRead = x, !.client = y] \in Interest
    BY DEF Interest
  <1>5. \A x, y \in Interests : [interest EXCEPT !.extRead = x, !.extWrite = y] \in Interest
    BY DEF Interest
  <1>6. \A x, y \in Interests : [interest EXCEPT !.client = x, !.origin = y] \in Interest
    BY DEF Interest
  <1> QED BY <1>1, <1>2, <1>3, <1>4, <1>5, <1>6 DEF Interests

LEMMA LeaveTypes ==
  ASSUME Leave
  PROVE  /\ interest' \in Interest /\ state' \in {"RESPONSE", "REQUEST"}
         /\ interest'.extRead = "off"
  BY DEF Leave, Interest, Interests

LEMMA FailTypes ==
  ASSUME Types, Fail
  PROVE  /\ interest' \in Interest /\ state' = "ERROR"
         /\ UNCHANGED <<inbuf, outbuf, et, parserRead, parserWrite, received, died>>
  <1>1. interest \in Interest /\ "off" \in Interests
    BY DEF Types, Interest, Interests
  <1> QED BY <1>1, InterestTypes DEF Fail

LEMMA FilterTypes ==
  ASSUME Types, FilterTakes \/ FilterGives \/ FilterEnds \/ PeerGoes
  PROVE  Types'
  <1>1. CASE FilterTakes
    <2>1. PICK h, t : h = Head(toFilter) /\ t = Tail(toFilter)
      OBVIOUS
    <2>2. h \in Units /\ t \in Seq(Units)
      BY <1>1, <2>1, HeadTailProperties DEF FilterTakes, Types
    <2>3. Append(taken, h) \in Seq(Units)
      BY <2>2, AppendProperties DEF Types
    <2>4. toFilter' = t /\ taken' = Append(taken, h)
      BY <1>1, <2>1 DEF FilterTakes
    <2> QED BY <1>1, <2>2, <2>3, <2>4 DEF FilterTakes, Types, relay, fixed, peers
  <1>2. CASE FilterGives
    <2>1. PICK u \in Units : given' = Append(given, u) /\ fromFilter' = Append(fromFilter, u)
      BY <1>2 DEF FilterGives, Units
    <2>2. Append(given, u) \in Seq(Units) /\ Append(fromFilter, u) \in Seq(Units)
      BY AppendProperties DEF Types
    <2> QED BY <1>2, <2>1, <2>2 DEF FilterGives, Types, relay, fixed, peers
  <1>3. CASE FilterEnds
    BY <1>3 DEF FilterEnds, Types, relay, fixed, peers
  <1>4. CASE PeerGoes
    BY <1>4 DEF PeerGoes, Types, relay, fixed, pipes
  <1> QED BY <1>1, <1>2, <1>3, <1>4

LEMMA StartTypes ==
  ASSUME Types, Start
  PROVE  Types'
  <1>1. PICK q : q = ParseMail("NEWLINE", inbuf.data)
    OBVIOUS
  <1>2. q.parser \in ParserStates /\ q.upTo \in 0..Len(inbuf.data) /\ Len(inbuf.data) \in Nat
    <2>1. inbuf.data \in Seq(Units) /\ "NEWLINE" \in ParserStates
      BY DEF Types, Buffers, ParserStates
    <2> QED BY <1>1, <2>1, ParseTypes, LenProperties
  <1>3. /\ parserRead' = q.parser /\ et' = [et EXCEPT !.finishRead = q.upTo # 0, !.sendRead = q.upTo]
        /\ state' = "EXTERNAL_TRANSFORMATION"
        /\ interest' = [interest EXCEPT !.extRead = "READ", !.extWrite = "WRITE"]
        /\ UNCHANGED <<inbuf, outbuf, parserWrite, received, died, wire, pipes>>
    BY <1>1 DEF Start
  <1>4. et' \in FlagsType /\ et'.sendRead = q.upTo /\ et'.sendWrite = et.sendWrite
    <2>1. PICK u, x : u = q.upTo /\ x = (q.upTo # 0)
      OBVIOUS
    <2>2. et' = [et EXCEPT !.finishRead = x, !.sendRead = u] /\ u \in Nat /\ x \in BOOLEAN
      BY <1>2, <1>3, <2>1
    <2>3. et \in FlagsType
      BY DEF Types
    <2> QED BY ONLY <2>1, <2>2, <2>3 DEF FlagsType
  <1>5. interest' \in Interest
    <2>1. interest \in Interest /\ "READ" \in Interests /\ "WRITE" \in Interests
      BY DEF Types, Interest, Interests
    <2> QED BY <1>3, <2>1, InterestTypes
  <1> QED BY <1>2, <1>3, <1>4, <1>5 DEF Types, Interest, pipes

LEMMA ReadTypes ==
  ASSUME Types, TransformationRead
  PROVE  Types'
  <1>1. PICK n \in 1..Len(wire) :
          /\ n <= Room(inbuf)
          /\ wire' = SubSeq(wire, n + 1, Len(wire))
          /\ inbuf' = Put(inbuf, SubSeq(wire, 1, n))
    BY DEF TransformationRead
  <1>2. PICK q : q = ParseMail(parserRead, inbuf'.data)
    OBVIOUS
  <1>3. wire' \in Seq(Units) /\ inbuf' \in Buffers(Units) /\ InBounds(inbuf') /\ Len(inbuf'.data) \in Nat
    <2>1. wire \in Seq(Units) /\ n \in 0..Len(wire)
      BY LenProperties DEF Types
    <2>2. SubSeq(wire, 1, n) \in Seq(Units) /\ wire' \in Seq(Units) /\ Len(SubSeq(wire, 1, n)) = n
      BY <1>1, <2>1, Splits
    <2>3. inbuf' \in Buffers(Units) /\ InBounds(inbuf')
      BY <1>1, <2>2, PutIs DEF Types
    <2> QED BY <2>2, <2>3, LenProperties DEF Buffers
  <1>4. q.parser \in ParserStates /\ q.upTo \in 0..Len(inbuf'.data)
    <2>1. inbuf'.data \in Seq(Units)
      BY <1>3 DEF Buffers
    <2> QED BY <1>2, <2>1, ParseTypes DEF Types
  <1>5. /\ parserRead' = q.parser
        /\ et' = [et EXCEPT !.sendRead = q.upTo, !.finishRead = @ \/ q.upTo # 0]
        /\ UNCHANGED <<outbuf, parserWrite, received, died, pipes>>
    BY <1>2 DEF TransformationRead
  <1>6. et' \in FlagsType /\ et'.sendRead = q.upTo /\ et'.sendWrite = et.sendWrite
    <2>1. PICK u, x : u = q.upTo /\ x = (et.finishRead \/ q.upTo # 0)
      OBVIOUS
    <2>2. et' = [et EXCEPT !.sendRead = u, !.finishRead = x] /\ u \in Nat /\ x \in BOOLEAN
      <3>1. u \in Nat /\ x \in BOOLEAN
        BY <1>3, <1>4, <2>1
      <3> QED BY <1>5, <2>1, <3>1
    <2>3. et \in FlagsType
      BY DEF Types
    <2> QED BY ONLY <2>1, <2>2, <2>3 DEF FlagsType
  <1>7. interest' \in Interest /\ state' \in {"RESPONSE", "REQUEST", "EXTERNAL_TRANSFORMATION"}
    <2>1. CASE Leave
      BY <2>1, LeaveTypes
    <2>2. CASE Stay([Set(interest, "extWrite", "WRITE") EXCEPT !.origin = "NOOP"])
      <3>1. interest \in Interest /\ "NOOP" \in Interests /\ "WRITE" \in Interests
        BY DEF Types, Interest, Interests
      <3>2. Set(interest, "extWrite", "WRITE") \in Interest
        BY <3>1, InterestTypes
      <3>3. interest' \in Interest
        BY <2>2, <3>1, <3>2 DEF Stay, Interest
      <3> QED BY <2>2, <3>3 DEF Stay, TransformationRead, On
    <2> QED BY <2>1, <2>2 DEF TransformationRead
  <1> QED BY <1>3, <1>4, <1>5, <1>6, <1>7 DEF Types, Interest, pipes

LEMMA BreakTypes ==
  ASSUME Types, TransformationReadFails \/ ExtWriteBreaks \/ StartFails \/ TransformationWriteBreaks
  PROVE  Types'
  <1>1. CASE Fail /\ UNCHANGED <<wire, pipes>>
    BY <1>1, FailTypes DEF Types, Interest, pipes
  <1>2. ASSUME NEW why \in {"assertion", "SIGPIPE"}, Die(why), UNCHANGED <<wire, pipes>>
        PROVE  Types'
    BY <1>2 DEF Types, Die, pipes
  <1> QED BY <1>1, <1>2 DEF TransformationReadFails, ExtWriteBreaks, StartFails, TransformationWriteBreaks

LEMMA PortionIs ==
  ASSUME Types
  PROVE  /\ Len(inbuf.data) \in Nat /\ Len(outbuf.data) \in Nat
         /\ inbuf.data \in Seq(Units) /\ outbuf.data \in Seq(Units)
         /\ Portion(inbuf, et.sendRead) \in 0..Len(inbuf.data)
         /\ et.sendRead \in Nat /\ et.sendWrite \in Nat
         /\ Fitted \in Buffers(Units) /\ Len(Fitted.data) \in Nat /\ Fitted.data \in Seq(Units)
         /\ Fitted.data = outbuf.data \o (IF NeedsEnd THEN Terminator ELSE <<>>)
         /\ Portion(Fitted, et.sendWrite) \in 0..Len(Fitted.data)
  <1>1. /\ inbuf.data \in Seq(Units) /\ outbuf.data \in Seq(Units)
        /\ Len(inbuf.data) \in Nat /\ Len(outbuf.data) \in Nat
        /\ et.sendRead \in Nat /\ et.sendWrite \in Nat
        /\ et.sendRead <= Len(inbuf.data) /\ et.sendWrite <= Len(outbuf.data)
    BY LenProperties DEF Types, Buffers, FlagsType
  <1>2. /\ Fitted \in Buffers(Units) /\ et.sendWrite <= Len(Fitted.data)
        /\ Fitted.data = outbuf.data \o (IF NeedsEnd THEN Terminator ELSE <<>>)
    <2>1. CASE NeedsEnd
      <3>1. Fitted = Put(outbuf, Terminator)
        BY <2>1 DEF Fitted
      <3>2. outbuf \in Buffers(Units) /\ Terminator \in Seq(Units)
        BY UnitSeqs DEF Types
      <3>3. /\ Put(outbuf, Terminator) \in Buffers(Units) /\ Put(outbuf, Terminator).data = outbuf.data \o Terminator
            /\ Len(Put(outbuf, Terminator).data) = Len(outbuf.data) + Len(Terminator) /\ Len(Terminator) \in Nat
        BY ONLY <3>2, PutIs
      <3> QED BY <1>1, <2>1, <3>1, <3>3
    <2>2. CASE ~NeedsEnd
      <3>1. Fitted = outbuf
        BY <2>2 DEF Fitted
      <3>2. outbuf.data \o <<>> = outbuf.data
        BY <1>1, ConcatEmptySeq
      <3> QED BY <1>1, <2>2, <3>1, <3>2 DEF Types
    <2> QED BY <2>1, <2>2
  <1>3. Len(Fitted.data) \in Nat /\ Fitted.data \in Seq(Units)
    BY <1>2, LenProperties DEF Buffers
  <1>4. Portion(inbuf, et.sendRead) \in 0..Len(inbuf.data)
    BY ONLY <1>1 DEF Portion
  <1>5. Portion(Fitted, et.sendWrite) \in 0..Len(Fitted.data)
    <2>1. PICK F, w : F = Fitted /\ w = et.sendWrite
      OBVIOUS
    <2>2. w \in Nat /\ w <= Len(F.data) /\ Len(F.data) \in Nat
      BY <1>1, <1>2, <1>3, <2>1
    <2>3. Portion(F, w) \in 0..Len(F.data)
      BY ONLY <2>2 DEF Portion
    <2> QED BY <2>1, <2>3
  <1> QED BY <1>1, <1>2, <1>3, <1>4, <1>5

LEMMA ExtWriteTypes ==
  ASSUME Types, ExtWrite
  PROVE  Types'
  <1>1. PICK n : n = Portion(inbuf, et.sendRead)
    OBVIOUS
  <1>2. /\ toFilter' = toFilter \o SubSeq(inbuf.data, 1, n) /\ inbuf' = Drop(inbuf, n)
        /\ et' = [et EXCEPT !.sendRead = 0]
        /\ Stay(IF et.finishRead THEN [interest EXCEPT !.extWrite = "off"]
                ELSE [interest EXCEPT !.extWrite = "NOOP", !.origin = "READ"])
        /\ UNCHANGED <<outbuf, parserRead, parserWrite, received, died, wire, fromFilter, filter, taken, given>>
    BY <1>1 DEF ExtWrite, OriginWanted
  <1>3. n \in 0..Len(inbuf.data)
    BY <1>1, PortionIs
  <1>4. /\ inbuf' \in Buffers(Units) /\ InBounds(inbuf') /\ SubSeq(inbuf.data, 1, n) \in Seq(Units)
        /\ Len(inbuf'.data) \in Nat
    <2>1. inbuf' \in Buffers(Units) /\ InBounds(inbuf') /\ SubSeq(inbuf.data, 1, n) \in Seq(Units)
      BY <1>2, <1>3, DropIs DEF Types
    <2> QED BY <2>1, LenProperties DEF Buffers
  <1>5. toFilter' \in Seq(Units)
    BY <1>2, <1>4, ConcatProperties DEF Types
  <1>6. et' \in FlagsType /\ et'.sendRead = 0 /\ et'.sendWrite = et.sendWrite
    BY <1>2 DEF Types, FlagsType
  <1>7. interest' \in Interest /\ state' = state
    <2>1. interest \in Interest /\ "NOOP" \in Interests /\ "READ" \in Interests /\ "off" \in Interests
      BY DEF Types, Interest, Interests
    <2> QED BY <1>2, <2>1, InterestTypes DEF Stay
  <1> QED BY <1>2, <1>4, <1>5, <1>6, <1>7 DEF Types, Interest

\* What ext_read does with n units that it takes.
Takes(n, p) ==
  /\ n \in 0..Len(fromFilter) /\ n <= Room(outbuf)
  /\ n = 0 => fromFilter = <<>> \/ Room(outbuf) = 0
  /\ fromFilter' = SubSeq(fromFilter, n + 1, Len(fromFilter))
  /\ outbuf' = Put(outbuf, SubSeq(fromFilter, 1, n))
  /\ p = ParseMail(parserWrite, outbuf'.data)
  /\ parserWrite' = p.parser
  /\ et' = [et EXCEPT !.sendWrite = p.upTo, !.errorWrite = @ \/ (n = 0 /\ p.upTo = 0)]
  /\ interest' = [interest EXCEPT !.extRead = IF n = 0 \/ p.upTo # 0 THEN "off" ELSE "NOOP",
                                  !.client = "WRITE"]

LEMMA ExtReadIs ==
  ASSUME Types, ExtRead
  PROVE  \E n, p : /\ Takes(n, p) /\ outbuf' \in Buffers(Units) /\ InBounds(outbuf')
                   /\ fromFilter' \in Seq(Units) /\ SubSeq(fromFilter, 1, n) \in Seq(Units)
                   /\ fromFilter = SubSeq(fromFilter, 1, n) \o fromFilter'
                   /\ outbuf'.data = outbuf.data \o SubSeq(fromFilter, 1, n)
                   /\ Len(outbuf'.data) = Len(outbuf.data) + n /\ Len(outbuf'.data) \in Nat
                   /\ p.parser \in ParserStates /\ p.upTo \in 0..Len(outbuf'.data)
                   /\ et' \in FlagsType /\ et'.sendWrite = p.upTo
                   /\ et'.errorWrite = (et.errorWrite \/ (n = 0 /\ p.upTo = 0))
                   /\ et'.sendRead = et.sendRead /\ et'.finishRead = et.finishRead
                   /\ et'.finishWrite = et.finishWrite /\ et'.writeError = et.writeError
                   /\ interest' \in Interest /\ interest'.client = "WRITE"
                   /\ interest'.origin = interest.origin /\ interest'.extWrite = interest.extWrite
                   /\ interest'.extRead = IF n = 0 \/ p.upTo # 0 THEN "off" ELSE "NOOP"
                   /\ state' = state /\ n \in 0..Len(fromFilter)
                   /\ UNCHANGED <<inbuf, parserRead, received, died, wire, toFilter, filter, taken, given>>
  <1>1. PICK n, p : Takes(n, p)
    BY DEF ExtRead, Takes, Stay
  <1>2. /\ SubSeq(fromFilter, 1, n) \in Seq(Units) /\ fromFilter' \in Seq(Units)
        /\ Len(SubSeq(fromFilter, 1, n)) = n /\ fromFilter = SubSeq(fromFilter, 1, n) \o fromFilter'
    BY <1>1, Splits DEF Takes, Types
  <1>3. /\ outbuf' \in Buffers(Units) /\ InBounds(outbuf') /\ outbuf'.data = outbuf.data \o SubSeq(fromFilter, 1, n)
        /\ Len(outbuf'.data) = Len(outbuf.data) + n
    BY <1>1, <1>2, PutIs DEF Takes, Types
  <1>4. outbuf'.data \in Seq(Units) /\ Len(outbuf'.data) \in Nat
    BY <1>3, LenProperties DEF Buffers
  <1>5. p.parser \in ParserStates /\ p.upTo \in 0..Len(outbuf'.data)
    BY <1>1, <1>4, ParseTypes DEF Takes, Types
  <1>6. /\ et' \in FlagsType /\ et'.sendWrite = p.upTo
        /\ et'.errorWrite = (et.errorWrite \/ (n = 0 /\ p.upTo = 0))
        /\ et'.sendRead = et.sendRead /\ et'.finishRead = et.finishRead
        /\ et'.finishWrite = et.finishWrite /\ et'.writeError = et.writeError
    <2>1. PICK u, x : u = p.upTo /\ x = (et.errorWrite \/ (n = 0 /\ p.upTo = 0))
      OBVIOUS
    <2>2. et' = [et EXCEPT !.sendWrite = u, !.errorWrite = x]
      BY <1>1, <2>1 DEF Takes
    <2>3. et \in FlagsType /\ u \in Nat /\ x \in BOOLEAN
      BY <1>4, <1>5, <2>1 DEF Types
    <2> QED BY ONLY <2>1, <2>2, <2>3 DEF FlagsType
  <1>7. /\ interest' \in Interest /\ interest'.client = "WRITE"
        /\ interest'.origin = interest.origin /\ interest'.extWrite = interest.extWrite
        /\ interest'.extRead = IF n = 0 \/ p.upTo # 0 THEN "off" ELSE "NOOP"
    <2>1. PICK x : x = IF n = 0 \/ p.upTo # 0 THEN "off" ELSE "NOOP"
      OBVIOUS
    <2>2. interest' = [interest EXCEPT !.extRead = x, !.client = "WRITE"]
      BY <1>1, <2>1 DEF Takes
    <2>3. interest \in Interest /\ x \in Interests /\ "WRITE" \in Interests
      BY <2>1 DEF Types, Interest, Interests
    <2> QED BY ONLY <2>1, <2>2, <2>3 DEF Interest
  <1>8. /\ state' = state /\ n \in 0..Len(fromFilter)
        /\ UNCHANGED <<inbuf, parserRead, received, died, wire, toFilter, filter, taken, given>>
    BY <1>1 DEF ExtRead, Stay, Takes
  <1> QED BY <1>1, <1>2, <1>3, <1>4, <1>5, <1>6, <1>7, <1>8

LEMMA ExtReadTypes ==
  ASSUME Types, ExtRead
  PROVE  Types'
  <1>1. PICK n, p : /\ Takes(n, p) /\ outbuf' \in Buffers(Units) /\ InBounds(outbuf')
                    /\ fromFilter' \in Seq(Units)
                    /\ p.parser \in ParserStates /\ p.upTo \in 0..Len(outbuf'.data) /\ Len(outbuf'.data) \in Nat
                    /\ et' \in FlagsType /\ et'.sendWrite = p.upTo /\ et'.sendRead = et.sendRead
                    /\ interest' \in Interest /\ state' = state
                    /\ UNCHANGED <<inbuf, parserRead, received, died, wire, toFilter, filter, taken, given>>
    BY ExtReadIs
  <1>2. parserWrite' = p.parser
    BY <1>1 DEF Takes
  <1> QED BY <1>1, <1>2 DEF Types, Interest

\* The flags behind a send of n of the units that were passed to it.
FlagsAfter(n) == [et EXCEPT !.writeError  = @ \/ NeedsEnd, !.didWrite = TRUE,
                            !.finishWrite = @ \/ LastWrite(et),
                            !.sendWrite   = IF @ = 0 THEN 0 ELSE @ - n]

LEMMA WriteIs ==
  ASSUME Types, TransformationWrite
  PROVE  \E n \in 1..Portion(Fitted, et.sendWrite) :
           /\ n \in 0..Len(Fitted.data) /\ et' = FlagsAfter(n) /\ et' \in FlagsType
           /\ et'.writeError = (et.writeError \/ NeedsEnd) /\ et'.errorWrite = et.errorWrite
           /\ et'.finishWrite = (et.finishWrite \/ et.sendWrite # 0)
           /\ et'.sendWrite = (IF et.sendWrite = 0 THEN 0 ELSE et.sendWrite - n)
           /\ et'.sendRead = et.sendRead /\ et'.finishRead = et.finishRead
           /\ outbuf' = Drop(Fitted, n) /\ outbuf' \in Buffers(Units) /\ InBounds(outbuf')
           /\ SubSeq(Fitted.data, 1, n) \in Seq(Units) /\ received' = received \o SubSeq(Fitted.data, 1, n)
           /\ Fitted.data = SubSeq(Fitted.data, 1, n) \o outbuf'.data
           /\ Len(outbuf'.data) = Len(Fitted.data) - n
           /\ short' = (short \/ n < Portion(Fitted, et.sendWrite))
           /\ IF (et'.errorWrite \/ et'.finishWrite) /\ et'.sendWrite = 0 /\ Finished(et') THEN Leave
              ELSE Stay(IF et'.errorWrite /\ et'.sendWrite # 0 THEN interest
                        ELSE [Set(interest, "extRead", "READ") EXCEPT !.client = "NOOP"])
           /\ InBounds(Fitted) /\ ~NeedsNotice /\ interest.client = "WRITE"
           /\ UNCHANGED <<inbuf, parserRead, parserWrite, died, wire, pipes, mail, next, queued, peers>>
  <1>1. PICK n \in 1..Portion(Fitted, et.sendWrite) :
           /\ received' = received \o SubSeq(Fitted.data, 1, n)
           /\ outbuf' = Drop(Fitted, n)
           /\ short' = (short \/ n < Portion(Fitted, et.sendWrite))
           /\ et' = FlagsAfter(n)
           /\ IF (et'.errorWrite \/ et'.finishWrite) /\ et'.sendWrite = 0 /\ Finished(et') THEN Leave
              ELSE Stay(IF et'.errorWrite /\ et'.sendWrite # 0 THEN interest
                        ELSE [Set(interest, "extRead", "READ") EXCEPT !.client = "NOOP"])
    BY DEF TransformationWrite, FlagsAfter
  <1>2. n \in 0..Len(Fitted.data) /\ InBounds(Fitted) /\ Fitted \in Buffers(Units)
    BY <1>1, PortionIs, SMTT(60) DEF TransformationWrite
  <1>3. /\ outbuf' \in Buffers(Units) /\ InBounds(outbuf') /\ SubSeq(Fitted.data, 1, n) \in Seq(Units)
        /\ Fitted.data = SubSeq(Fitted.data, 1, n) \o outbuf'.data
        /\ Len(outbuf'.data) = Len(Fitted.data) - n
    BY <1>1, <1>2, DropIs
  <1>4. /\ et' \in FlagsType
        /\ et'.writeError = (et.writeError \/ NeedsEnd) /\ et'.errorWrite = et.errorWrite
        /\ et'.finishWrite = (et.finishWrite \/ et.sendWrite # 0)
        /\ et'.sendWrite = (IF et.sendWrite = 0 THEN 0 ELSE et.sendWrite - n)
        /\ et'.sendRead = et.sendRead /\ et'.finishRead = et.finishRead
    <2>1. PICK x, y, u : /\ x = (et.writeError \/ NeedsEnd) /\ y = (et.finishWrite \/ et.sendWrite # 0)
                         /\ u = (IF et.sendWrite = 0 THEN 0 ELSE et.sendWrite - n)
      OBVIOUS
    <2>2. et' = [et EXCEPT !.writeError = x, !.didWrite = TRUE, !.finishWrite = y, !.sendWrite = u]
      BY <1>1, <2>1 DEF FlagsAfter, LastWrite
    <2>3. et \in FlagsType /\ x \in BOOLEAN /\ y \in BOOLEAN
      BY <2>1 DEF Types
    <2>4. u \in Nat
      <3>1. et.sendWrite # 0 => n <= et.sendWrite
        BY <1>1, <1>2, PortionIs DEF Portion
      <3> QED BY <2>1, <3>1, PortionIs
    <2> QED BY ONLY <2>1, <2>2, <2>3, <2>4 DEF FlagsType
  <1>5. /\ ~NeedsNotice /\ interest.client = "WRITE"
        /\ UNCHANGED <<inbuf, parserRead, parserWrite, died, wire, pipes, mail, next, queued, peers>>
    BY DEF TransformationWrite, On
  <1> QED BY <1>1, <1>2, <1>3, <1>4, <1>5

LEMMA WriteTypes ==
  ASSUME Types, TransformationWrite
  PROVE  Types'
  <1>1. PICK n \in 1..Portion(Fitted, et.sendWrite) :
           /\ n \in 0..Len(Fitted.data) /\ et' \in FlagsType
           /\ et'.sendWrite = (IF et.sendWrite = 0 THEN 0 ELSE et.sendWrite - n)
           /\ et'.sendRead = et.sendRead
           /\ outbuf' \in Buffers(Units) /\ InBounds(outbuf')
           /\ SubSeq(Fitted.data, 1, n) \in Seq(Units) /\ received' = received \o SubSeq(Fitted.data, 1, n)
           /\ Len(outbuf'.data) = Len(Fitted.data) - n
           /\ IF (et'.errorWrite \/ et'.finishWrite) /\ et'.sendWrite = 0 /\ Finished(et') THEN Leave
              ELSE Stay(IF et'.errorWrite /\ et'.sendWrite # 0 THEN interest
                        ELSE [Set(interest, "extRead", "READ") EXCEPT !.client = "NOOP"])
           /\ UNCHANGED <<inbuf, parserRead, parserWrite, died, wire, pipes>>
    BY WriteIs
  <1>2. received' \in Seq(Units)
    BY <1>1, ConcatProperties DEF Types
  <1>3. et'.sendWrite <= Len(outbuf'.data)
    <2>1. et.sendWrite # 0 => Portion(Fitted, et.sendWrite) = et.sendWrite
      BY DEF Portion
    <2> QED BY <1>1, <2>1, PortionIs
  <1>4. interest' \in Interest /\ state' \in {"RESPONSE", "REQUEST", "EXTERNAL_TRANSFORMATION"}
    <2>1. CASE Leave
      BY <2>1, LeaveTypes
    <2>2. ASSUME NEW i \in Interest, Stay(i) PROVE interest' \in Interest /\ state' = "EXTERNAL_TRANSFORMATION"
      BY <2>2 DEF Stay, TransformationWrite, On
    <2>3. interest \in Interest /\ [Set(interest, "extRead", "READ") EXCEPT !.client = "NOOP"] \in Interest
      <3>1. interest \in Interest /\ "NOOP" \in Interests /\ "READ" \in Interests
        BY DEF Types, Interest, Interests
      <3>2. Set(interest, "extRead", "READ") \in Interest
        BY <3>1, InterestTypes
      <3> QED BY <3>1, <3>2 DEF Interest
    <2> QED BY <1>1, <2>1, <2>2, <2>3
  <1> QED BY <1>1, <1>2, <1>3, <1>4 DEF Types, Interest, pipes

-----------------------------------------------------------------------------
(* The way in.                                                             *)

LEMMA HeadFirst ==
  ASSUME NEW S, NEW s \in Seq(S), s # <<>>
  PROVE  /\ Head(s) \in S /\ Tail(s) \in Seq(S) /\ <<Head(s)>> \in Seq(S)
         /\ s = <<Head(s)>> \o Tail(s) /\ Len(Tail(s)) = Len(s) - 1
  <1>1. Len(s) \in Nat \ {0}
    BY EmptySeq
  <1>2. 1 \in 1..Len(s) /\ Len(s) \in 1..Len(s) /\ 1 + 1 = 2
    BY <1>1
  <1>3. SubSeq(s, 1, Len(s)) = <<s[1]>> \o SubSeq(s, 1 + 1, Len(s))
    BY ONLY <1>2, s \in Seq(S), SubSeqRecursiveFirst
  <1>4. SubSeq(s, 1, Len(s)) = s /\ Tail(s) = SubSeq(s, 2, Len(s))
    BY SubSeqFull, TailIsSubSeq
  <1>5. Head(s) = s[1]
    <2>1. Head(SubSeq(s, 1, Len(s))) = s[1]
      BY ONLY <1>2, s \in Seq(S), HeadTailOfSubSeq
    <2> QED BY <1>4, <2>1
  <1>6. Head(s) \in S /\ Tail(s) \in Seq(S) /\ Len(Tail(s)) = Len(s) - 1
    BY HeadTailProperties
  <1>7. <<Head(s)>> \in Seq(S)
    BY <1>6
  <1> QED BY <1>2, <1>3, <1>4, <1>5, <1>6, <1>7

\* The steps that do not touch the way in.
LEMMA InputKept ==
  ASSUME InputInv, UNCHANGED <<mail, next, taken, toFilter, inbuf, wire>>,
         Within' => /\ Within /\ parserRead' = parserRead
                    /\ et'.finishRead = et.finishRead /\ et'.sendRead = et.sendRead
                    /\ interest'.origin = interest.origin /\ interest'.extWrite = interest.extWrite
  PROVE  InputInv'
  <1>1. InOrder' /\ Passed' = Passed /\ Arrived' = Arrived
    BY DEF InputInv, InOrder, Passed, Arrived
  <1>2. ASSUME Within' PROVE (IF et.finishRead THEN EndFound ELSE EndAwaited)'
    <2>1. CASE et.finishRead
      BY <1>1, <1>2, <2>1 DEF InputInv, EndFound
    <2>2. CASE ~et.finishRead
      BY <1>1, <1>2, <2>2 DEF InputInv, EndAwaited
    <2> QED BY <1>2, <2>1, <2>2
  <1> QED BY <1>1, <1>2 DEF InputInv

LEMMA FilterTakesInput ==
  ASSUME Types, InputInv, FilterTakes
  PROVE  InputInv' /\ Passed' = Passed
  <1>1. PICK h, t : h = <<Head(toFilter)>> /\ t = Tail(toFilter)
    OBVIOUS
  <1>2. toFilter \in Seq(Units) /\ toFilter # <<>> /\ taken \in Seq(Units)
    BY DEF FilterTakes, Types
  <1>3. /\ h \in Seq(Units) /\ t \in Seq(Units) /\ toFilter = h \o t /\ Len(t) = Len(toFilter) - 1
        /\ Head(toFilter) \in Units
    BY <1>1, <1>2, HeadFirst
  <1>4. taken' = taken \o h /\ toFilter' = t /\ Len(taken') = Len(taken) + 1
    BY <1>1, <1>2, <1>3, AppendIsConcat, AppendProperties DEF FilterTakes
  <1>5. taken' \o toFilter' = taken \o toFilter
    <2>1. (taken \o h) \o t = taken \o (h \o t)
      <3>1. taken \in Seq(Units) /\ h \in Seq(Units) /\ t \in Seq(Units)
        BY <1>2, <1>3
      <3>2. Regroups(taken, h, t, t)
        BY <3>1, Regrouped
      <3> QED BY ONLY <3>2 DEF Regroups
    <2> QED BY <1>3, <1>4, <2>1
  <1>6. Passed' = Passed
    <2>1. Len(taken) \in Nat /\ Len(toFilter) \in Nat
      BY <1>2, LenProperties
    <2>2. Len(toFilter') = Len(toFilter) - 1
      BY <1>3, <1>4
    <2> QED BY <1>4, <2>1, <2>2 DEF Passed
  <1>7. Arrived' = Arrived /\ Within' = Within /\ UNCHANGED <<mail, next, inbuf, wire, et, parserRead, interest>>
    BY <1>6 DEF FilterTakes, Arrived, Within, relay, fixed
  <1>8. InOrder'
    BY <1>5, <1>6, <1>7 DEF InputInv, InOrder
  <1>9. EndFound' = EndFound /\ EndAwaited' = EndAwaited
    BY <1>6, <1>7 DEF EndFound, EndAwaited
  <1> QED BY <1>6, <1>7, <1>8, <1>9 DEF InputInv

\* The scan of what lies behind the first Len(P) units of a mail tells where it ends.
LEMMA Scanned ==
  ASSUME NEW s, Mailing(s), NEW P \in Seq(Units), NEW i \in Seq(Units), NEW w \in Seq(Units),
         NEW e \in Seq(Units), (P \o i) \o w = s \o e, Len(P) + Len(i) <= Len(s) \/ Complete(s),
         Behind(s, Len(P)) # "FIN" /\ Len(P) <= Len(s)
  PROVE  LET q == ParseMail(Behind(s, Len(P)), i)
             n == Len(P) + Len(i)
         IN  IF n >= Len(s) /\ Complete(s)
             THEN q.upTo # 0 /\ Len(P) + q.upTo = Len(s)
             ELSE q.upTo = 0 /\ q.parser = Behind(s, n)
  <1>1. /\ s \in Seq(Units) /\ Len(s) \in Nat /\ Len(P) \in Nat /\ Len(i) \in Nat
        /\ \A k \in 1..Len(i) : Len(P) + k <= Len(s) => i[k] = s[Len(P) + k]
    <2>1. s \in Seq(Units)
      BY DEF Mailing
    <2>2. \A k \in 1..Len(i) : Len(P) + k <= Len(s) => i[k] = s[Len(P) + k]
      BY <2>1, Middle
    <2> QED BY <2>1, <2>2, LenProperties
  <1>2. ASSUME NEW m \in 0..Len(i), Len(P) + m <= Len(s) PROVE Continues(s, Len(P), i, m)
    <2>1. \A k \in 1..m : k \in 1..Len(i) /\ Len(P) + k <= Len(s)
      BY <1>1, <1>2
    <2> QED BY <1>1, <1>2, <2>1 DEF Continues
  <1>3. CASE Len(P) + Len(i) >= Len(s) /\ Complete(s)
    <2>1. PICK m : m = Len(s) - Len(P)
      OBVIOUS
    <2>2. Len(P) # Len(s)
      BY <1>3, BehindIs
    <2>3. m \in 0..Len(i) /\ Len(P) + m = Len(s) /\ m > 0
      BY <1>1, <1>3, <2>1, <2>2
    <2>4. Continues(s, Len(P), i, m)
      BY <1>1, <1>2, <2>3
    <2>5. ParseMail(Behind(s, Len(P)), i) = [parser |-> "FIN", upTo |-> m]
      BY <1>3, <2>3, <2>4, ScanFindsEnd
    <2> QED BY <1>3, <2>3, <2>5
  <1>4. CASE ~(Len(P) + Len(i) >= Len(s) /\ Complete(s))
    <2>1. Len(P) + Len(i) <= Len(s)
      BY <1>1, <1>4
    <2>2. Continues(s, Len(P), i, Len(i))
      BY <1>1, <1>2, <2>1
    <2>3. Behind(s, Len(P) + Len(i)) # "FIN"
      BY <1>1, <1>4, <2>1, BehindIs
    <2>4. ParseMail(Behind(s, Len(P)), i) = [parser |-> Behind(s, Len(P) + Len(i)), upTo |-> 0]
      BY <2>2, <2>3, ScanPasses
    <2> QED BY <1>4, <2>4
  <1> QED BY <1>3, <1>4

LEMMA InputSeqs ==
  ASSUME Types, InputInv
  PROVE  /\ Passed \in Nat /\ Len(inbuf.data) \in Nat /\ Len(mail) \in Nat /\ Len(mail) >= 2
         /\ taken \o toFilter \in Seq(Units) /\ Len(taken \o toFilter) = Passed
         /\ inbuf.data \in Seq(Units) /\ mail \in Seq(Units) /\ next \in Seq(Units)
         /\ taken \in Seq(Units) /\ toFilter \in Seq(Units) /\ wire \in Seq(Units)
         /\ Mailing(mail) /\ Complete(mail) /\ Passed <= Len(mail)
  <1>1. inbuf.data \in Seq(Units) /\ taken \in Seq(Units) /\ toFilter \in Seq(Units) /\ wire \in Seq(Units)
    BY DEF Types, Buffers
  <1>2. mail \in Seq(Units) /\ next \in Seq(Units) /\ Mailing(mail) /\ Complete(mail) /\ Passed <= Len(mail)
    BY DEF InputInv, InOrder
  <1>3. taken \o toFilter \in Seq(Units) /\ Len(taken \o toFilter) = Passed
    BY <1>1, ConcatProperties DEF Passed
  <1>4. Passed \in Nat /\ Len(inbuf.data) \in Nat /\ Len(mail) \in Nat
    BY <1>1, <1>2, <1>3, LenProperties
  <1>5. Len(mail) >= 2
    BY <1>2, BehindIs
  <1> QED BY <1>1, <1>2, <1>3, <1>4, <1>5

LEMMA StartInput ==
  ASSUME Types, Begins, InputInv, Start
  PROVE  InputInv'
  <1>1. state = "RESPONSE" /\ interest.extRead = "none"
    BY DEF Start
  <1>2. et = Flags /\ Passed = 0 /\ interest.origin # "READ"
    BY <1>1 DEF Begins
  <1>3. PICK q : q = ParseMail("NEWLINE", inbuf.data)
    OBVIOUS
  <1>4. PICK P, i : P = taken \o toFilter /\ i = inbuf.data
    OBVIOUS
  <1>5. (P \o i) \o wire = mail \o next
    BY <1>4 DEF InputInv, InOrder
  <1>6. Behind(mail, 0) = "NEWLINE" /\ Len(P) = 0 /\ Len(P) <= Len(mail)
    BY <1>2, <1>4, InputSeqs, BehindIs
  <1>7. /\ P \in Seq(Units) /\ i \in Seq(Units) /\ wire \in Seq(Units) /\ next \in Seq(Units)
        /\ Mailing(mail) /\ Complete(mail) /\ Len(mail) \in Nat
    BY <1>4, InputSeqs
  <1>8. IF Len(P) + Len(i) >= Len(mail) /\ Complete(mail)
        THEN q.upTo # 0 /\ Len(P) + q.upTo = Len(mail)
        ELSE q.upTo = 0 /\ q.parser = Behind(mail, Len(P) + Len(i))
    <2>1. Behind(mail, Len(P)) = "NEWLINE" /\ "NEWLINE" # "FIN"
      BY <1>6
    <2>2. q = ParseMail(Behind(mail, Len(P)), i)
      BY <1>3, <1>4, <2>1
    <2> QED BY ONLY <1>5, <1>6, <1>7, <2>1, <2>2, Scanned
  <1>9. /\ UNCHANGED <<mail, next, taken, toFilter, inbuf, wire>> /\ parserRead' = q.parser
        /\ et' = [et EXCEPT !.finishRead = q.upTo # 0, !.sendRead = q.upTo]
        /\ interest' = [interest EXCEPT !.extRead = "READ", !.extWrite = "WRITE"]
    BY <1>3 DEF Start, pipes, fixed
  <1>10. et'.finishRead = (q.upTo # 0) /\ et'.sendRead = q.upTo /\ interest'.origin = interest.origin
    BY <1>9 DEF Types, FlagsType
  <1>11. InOrder' /\ Passed' = Passed /\ Arrived' = Arrived /\ Arrived = Len(P) + Len(i)
    BY <1>2, <1>4, <1>6, <1>9 DEF InputInv, InOrder, Passed, Arrived
  <1>12. CASE q.upTo # 0
    <2>1. EndFound'
      BY <1>2, <1>6, <1>8, <1>9, <1>10, <1>11, <1>12 DEF EndFound
    <2> QED BY <1>10, <1>11, <1>12, <2>1 DEF InputInv
  <1>13. CASE q.upTo = 0
    <2>1. EndAwaited'
      <3>1. Len(P) + Len(i) < Len(mail) /\ q.parser = Behind(mail, Len(P) + Len(i))
        BY <1>4, <1>6, <1>7, <1>8, <1>13, InputSeqs
      <3>2. interest'.origin # "READ"
        BY <1>2, <1>10
      <3> QED BY <1>9, <1>10, <1>11, <1>13, <3>1, <3>2 DEF EndAwaited
    <2> QED BY <1>10, <1>11, <1>13, <2>1 DEF InputInv
  <1> QED BY <1>12, <1>13

LEMMA ReadInput ==
  ASSUME Types, InputInv, TransformationRead
  PROVE  InputInv' /\ Passed' = Passed /\ Passed < Len(mail) /\ mail' = mail
  <1>1. Within /\ interest.origin = "READ" /\ ~et.finishRead /\ EndAwaited
    BY DEF TransformationRead, On, Within, InputInv, EndFound
  <1>2. /\ inbuf.data = <<>> /\ Passed < Len(mail) /\ parserRead = Behind(mail, Passed)
    <2>1. inbuf.data = <<>>
      BY <1>1 DEF EndAwaited
    <2>2. Arrived = Passed
      BY <2>1, InputSeqs, EmptySeq DEF Arrived
    <2> QED BY <1>1, <2>1, <2>2 DEF EndAwaited
  <1>3. PICK n \in 1..Len(wire) :
          wire' = SubSeq(wire, n + 1, Len(wire)) /\ inbuf' = Put(inbuf, SubSeq(wire, 1, n))
    BY DEF TransformationRead
  <1>4. PICK P, i, q : P = taken \o toFilter /\ i = inbuf'.data /\ q = ParseMail(parserRead, inbuf'.data)
    OBVIOUS
  <1>5. /\ i \in Seq(Units) /\ wire' \in Seq(Units) /\ wire = i \o wire' /\ Len(i) = n
    <2>1. n \in 0..Len(wire) /\ wire \in Seq(Units)
      BY InputSeqs
    <2>2. PICK x : x = SubSeq(wire, 1, n)
      OBVIOUS
    <2>3. x \in Seq(Units) /\ wire' \in Seq(Units) /\ x \o wire' = wire /\ Len(x) = n
      BY <1>3, <2>1, <2>2, Splits
    <2>4. i = inbuf.data \o x
      BY <1>3, <1>4, <2>2, <2>3, PutIs DEF Types
    <2>5. i = x
      BY <1>2, <2>3, <2>4, ConcatEmptySeq
    <2> QED BY <2>3, <2>5
  <1>6. (P \o i) \o wire' = mail \o next
    <2>1. (P \o <<>>) \o wire = mail \o next
      BY <1>2, <1>4 DEF InputInv, InOrder
    <2>2. P \in Seq(Units)
      BY <1>4, InputSeqs
    <2>3. P \o <<>> = P
      BY <2>2, ConcatEmptySeq
    <2>4. (P \o i) \o wire' = P \o (i \o wire')
      <3>1. Regroups(P, i, wire', wire')
        BY <1>5, <2>2, Regrouped
      <3> QED BY ONLY <3>1 DEF Regroups
    <2> QED BY <1>5, <2>1, <2>3, <2>4
  <1>7. /\ P \in Seq(Units) /\ next \in Seq(Units) /\ Len(P) = Passed
        /\ Mailing(mail) /\ Complete(mail) /\ Len(mail) \in Nat /\ Passed \in Nat
    BY <1>4, InputSeqs
  <1>8. IF Len(P) + Len(i) >= Len(mail) /\ Complete(mail)
        THEN q.upTo # 0 /\ Len(P) + q.upTo = Len(mail)
        ELSE q.upTo = 0 /\ q.parser = Behind(mail, Len(P) + Len(i))
    <2>1. Behind(mail, Len(P)) # "FIN" /\ Len(P) <= Len(mail)
      BY <1>2, <1>7, BehindIs, SMTT(60)
    <2>2. q = ParseMail(Behind(mail, Len(P)), i)
      BY <1>2, <1>4, <1>7
    <2> QED BY ONLY <1>5, <1>6, <1>7, <2>1, <2>2, Scanned
  <1>9. /\ UNCHANGED <<mail, next, taken, toFilter>> /\ parserRead' = q.parser
        /\ et' = [et EXCEPT !.sendRead = q.upTo, !.finishRead = @ \/ q.upTo # 0]
    BY <1>4 DEF TransformationRead, pipes, fixed
  <1>10. et'.finishRead = (q.upTo # 0) /\ et'.sendRead = q.upTo
    BY <1>1, <1>9 DEF Types, FlagsType
  <1>11. InOrder' /\ Passed' = Passed /\ Arrived' = Len(P) + Len(i)
    BY <1>4, <1>6, <1>7, <1>9 DEF InputInv, InOrder, Passed, Arrived
  <1>12. ASSUME Within' PROVE interest'.origin = "NOOP"
    <2>1. Stay([Set(interest, "extWrite", "WRITE") EXCEPT !.origin = "NOOP"])
      BY <1>12 DEF TransformationRead, Leave, Within
    <2>2. interest \in Interest /\ "WRITE" \in Interests
      BY DEF Types, Interest, Interests
    <2>3. Set(interest, "extWrite", "WRITE") \in Interest
      BY <2>2, InterestTypes
    <2> QED BY <2>1, <2>3 DEF Stay, Interest
  <1>13. CASE q.upTo # 0
    <2>1. ASSUME Within' PROVE EndFound'
      BY <1>7, <1>8, <1>9, <1>10, <1>11, <1>12, <1>13, <2>1 DEF EndFound
    <2> QED BY <1>2, <1>9, <1>10, <1>11, <1>13, <2>1 DEF InputInv
  <1>14. CASE q.upTo = 0
    <2>1. ASSUME Within' PROVE EndAwaited'
      <3>1. Len(P) + Len(i) < Len(mail) /\ q.parser = Behind(mail, Len(P) + Len(i))
        BY <1>5, <1>7, <1>8, <1>14, LenProperties
      <3> QED BY <1>9, <1>10, <1>11, <1>12, <1>14, <2>1, <3>1 DEF EndAwaited
    <2> QED BY <1>2, <1>9, <1>10, <1>11, <1>14, <2>1 DEF InputInv
  <1> QED BY <1>13, <1>14

LEMMA ExtWriteInput ==
  ASSUME Types, InputInv, ExtWrite
  PROVE  InputInv'
  <1>1. PICK n, x, y : /\ n = Portion(inbuf, et.sendRead) /\ x = SubSeq(inbuf.data, 1, n)
                       /\ y = Drop(inbuf, n).data
    OBVIOUS
  <1>2. /\ toFilter' = toFilter \o x /\ inbuf'.data = y
        /\ et' = [et EXCEPT !.sendRead = 0]
        /\ Stay(IF et.finishRead THEN [interest EXCEPT !.extWrite = "off"]
                ELSE [interest EXCEPT !.extWrite = "NOOP", !.origin = "READ"])
        /\ UNCHANGED <<mail, next, taken, wire, parserRead>>
    BY <1>1 DEF ExtWrite, OriginWanted, fixed
  <1>3. Within /\ interest.extWrite = "WRITE"
    BY DEF ExtWrite, On, Within
  <1>4. /\ x \in Seq(Units) /\ y \in Seq(Units) /\ inbuf.data = x \o y /\ Len(x) = n
        /\ Len(y) = Len(inbuf.data) - n /\ n \in 0..Len(inbuf.data)
        /\ n = Len(inbuf.data) => y = <<>>
    <2>1. n \in 0..Len(inbuf.data)
      BY <1>1, PortionIs
    <2>2. n = Len(inbuf.data) => Drop(inbuf, n) = EmptyBuffer
      BY DEF Drop
    <2>3. inbuf \in Buffers(Units) /\ InBounds(inbuf) /\ Len(inbuf.data) \in Nat
      BY InputSeqs DEF Types
    <2>4. x \in Seq(Units) /\ y \in Seq(Units) /\ inbuf.data = x \o y /\ Len(x) = n /\ Len(y) = Len(inbuf.data) - n
      BY ONLY <1>1, <2>1, <2>3, DropIs
    <2>5. n = Len(inbuf.data) => y = <<>>
      BY <1>1, <2>2 DEF EmptyBuffer
    <2> QED BY <2>1, <2>4, <2>5
  <1>5. Passed' = Passed + n /\ Arrived' = Arrived
    <2>1. toFilter \in Seq(Units) /\ Len(toFilter) \in Nat /\ Len(taken) \in Nat /\ Len(inbuf.data) \in Nat
      BY InputSeqs, LenProperties
    <2>2. Len(toFilter \o x) = Len(toFilter) + n
      BY <1>4, <2>1, ConcatProperties
    <2> QED BY <1>2, <1>4, <2>1, <2>2 DEF Passed, Arrived
  <1>6. ((taken' \o toFilter') \o inbuf'.data) \o wire' = mail' \o next'
    <2>1. PICK a, b : a = taken /\ b = toFilter
      OBVIOUS
    <2>2. a \in Seq(Units) /\ b \in Seq(Units) /\ x \in Seq(Units) /\ y \in Seq(Units)
      BY <1>4, <2>1, InputSeqs
    <2>3. (a \o (b \o x)) \o y = (a \o b) \o (x \o y)
      <3>1. Regroups(a, b, x, y)
        BY <2>2, Regrouped
      <3> QED BY ONLY <3>1 DEF Regroups
    <2>4. ((a \o b) \o (x \o y)) \o wire = mail \o next
      BY <1>4, <2>1 DEF InputInv, InOrder
    <2> QED BY <1>2, <2>1, <2>3, <2>4
  <1>7. /\ Len(inbuf.data) \in Nat /\ Passed \in Nat /\ Len(mail) \in Nat
        /\ Within' /\ et'.finishRead = et.finishRead /\ et'.sendRead = 0
    BY <1>2, <1>3, InputSeqs DEF Types, FlagsType, Stay, Within
  <1>8. CASE et.finishRead
    <2>1. EndFound
      BY <1>3, <1>8 DEF InputInv
    <2>2. et.sendRead # 0 /\ n = et.sendRead /\ Passed' = Len(mail)
      BY <1>1, <1>3, <1>5, <2>1 DEF EndFound, Portion
    <2>3. interest'.origin # "READ" /\ interest'.extWrite = "off"
      BY <1>2, <1>8, <2>1 DEF Types, Stay, EndFound
    <2>4. EndFound'
      BY <1>2, <1>7, <2>2, <2>3 DEF EndFound
    <2>5. InOrder'
      BY <1>2, <1>6, <1>7, <2>2 DEF InOrder, InputInv
    <2> QED BY <1>7, <1>8, <2>4, <2>5 DEF InputInv
  <1>9. CASE ~et.finishRead
    <2>1. EndAwaited
      BY <1>3, <1>9 DEF InputInv
    <2>2. n = Len(inbuf.data) /\ Passed' < Len(mail) /\ y = <<>>
      BY <1>1, <1>4, <1>5, <1>7, <2>1 DEF EndAwaited, Portion, Arrived
    <2>3. EndAwaited'
      BY <1>2, <1>5, <1>7, <2>1, <2>2 DEF EndAwaited
    <2>4. InOrder'
      BY <1>2, <1>5, <1>6, <1>7, <2>2 DEF InOrder, InputInv
    <2> QED BY <1>7, <1>9, <2>3, <2>4 DEF InputInv
  <1> QED BY <1>8, <1>9

-----------------------------------------------------------------------------
(* The way out.                                                            *)

LEMMA SuffixIs ==
  ASSUME NEW s \in Seq(Units)
  PROVE  IsSuffix(End, s) <=> Len(s) >= 2 /\ s[Len(s) - 1] = "dot" /\ s[Len(s)] = "lf"
  <1>1. PICK e, r, t : e = End /\ r = Reverse(e) /\ t = Reverse(s)
    OBVIOUS
  <1>2. Len(s) \in Nat /\ \A i \in 1..Len(s) : s[i] \in Units
    BY LenProperties, ElementOfSeq
  <1>3. e \in Seq(Units) /\ Len(e) = 2 /\ e[1] = "dot" /\ e[2] = "lf"
    BY <1>1 DEF Units, End
  <1>4. /\ t = [i \in 1..Len(s) |-> s[(Len(s) - i) + 1]] /\ r = [i \in 1..2 |-> e[(2 - i) + 1]]
    BY <1>1, <1>3 DEF Reverse
  <1>5. t \in Seq(Units) /\ Len(t) = Len(s)
    <2>1. \A i \in 1..Len(s) : (Len(s) - i) + 1 \in 1..Len(s)
      BY <1>2
    <2>2. t \in [1..Len(s) -> Units]
      BY <1>2, <1>4, <2>1
    <2> QED BY <1>2, <2>2, SeqDef
  <1>6. r \in Seq(Units) /\ Len(r) = 2 /\ r[1] = "lf" /\ r[2] = "dot"
    <2>1. r[1] = "lf" /\ r[2] = "dot" /\ r \in [1..2 -> Units]
      BY <1>3, <1>4 DEF Units
    <2>2. PICK n \in Nat : n = 2
      OBVIOUS
    <2>3. r \in [1..n -> Units]
      BY <2>1, <2>2
    <2>4. r \in Seq(Units) /\ Len(r) = n
      BY <2>3, SeqDef
    <2> QED BY <2>1, <2>2, <2>4
  <1>7. SubSeq(r, 1, 2) = r
    BY <1>6, SubSeqFull
  <1>8. IsSuffix(End, s) <=> 2 <= Len(s) /\ r = SubSeq(t, 1, 2)
    BY <1>1, <1>5, <1>6, <1>7 DEF IsSuffix, IsPrefix
  <1>9. CASE 2 <= Len(s)
    <2>1. t[1] = s[Len(s)] /\ t[2] = s[Len(s) - 1]
      <3>1. 1 \in 1..Len(s) /\ 2 \in 1..Len(s) /\ (Len(s) - 1) + 1 = Len(s) /\ (Len(s) - 2) + 1 = Len(s) - 1
        BY <1>2, <1>9
      <3> QED BY <1>4, <3>1
    <2>2. PICK w : w = SubSeq(t, 1, 2)
      OBVIOUS
    <2>3. w \in Seq(Units) /\ Len(w) = 2 /\ w[1] = t[1] /\ w[2] = t[2]
      <3>1. 0 \in Nat /\ 2 \in 0..Len(t) /\ 0 + 1 = 1
        BY <1>2, <1>5, <1>9
      <3>2. /\ SubSeq(t, 0 + 1, 2) \in Seq(Units) /\ Len(SubSeq(t, 0 + 1, 2)) = 2 - 0
            /\ \A i \in 1..(2 - 0) : SubSeq(t, 0 + 1, 2)[i] = t[0 + i]
        BY ONLY <1>5, <3>1, Window
      <3> QED BY <2>2, <3>1, <3>2
    <2>4. r = w <=> r[1] = w[1] /\ r[2] = w[2]
      <3>1. ASSUME r[1] = w[1], r[2] = w[2] PROVE r = w
        <4>1. \A i \in 1..Len(r) : r[i] = w[i]
          BY <1>6, <3>1
        <4> QED BY <1>6, <2>3, <4>1, SeqEqual
      <3> QED BY <3>1
    <2> QED BY <1>6, <1>8, <1>9, <2>1, <2>2, <2>3, <2>4
  <1>10. CASE ~(2 <= Len(s))
    BY <1>2, <1>8, <1>10
  <1> QED BY <1>9, <1>10

\* Lines and their end, as far as they go: the end is where it is complete.
LEMMA CompleteIs ==
  ASSUME NEW s, Mailing(s)
  PROVE  s \in Seq(Units) /\ (Complete(s) <=> IsSuffix(End, s))
  <1>1. s \in Seq(Units) /\ Len(s) \in Nat
    BY BehindIs DEF Mailing
  <1>2. ASSUME Complete(s) PROVE Len(s) >= 2 /\ s[Len(s) - 1] = "dot" /\ s[Len(s)] = "lf"
    <2>1. Len(s) >= 2 /\ s[Len(s)] = "lf" /\ Len(s) \in 1..Len(s)
      BY <1>1, <1>2, BehindIs DEF Complete
    <2> QED BY <2>1 DEF Mailing
  <1>3. ASSUME Len(s) >= 2, s[Len(s)] = "lf" PROVE Complete(s)
    BY <1>3, EmptySeq DEF Complete
  <1> QED BY <1>1, <1>2, <1>3, SuffixIs

\* The steps that do not touch the way out.
LEMMA OutputKept ==
  ASSUME OutputInv, UNCHANGED <<given, received, outbuf, fromFilter, parserWrite, short>>,
         filter' = filter \/ filter' = "ended",
         et'.writeError = et.writeError /\ et'.errorWrite = et.errorWrite,
         et'.finishWrite = et.finishWrite /\ et'.sendWrite = et.sendWrite,
         Within' => Within /\ interest'.client = interest.client /\ interest'.extRead = interest.extRead,
         Over' /\ Passed' = Len(mail') => Over /\ Passed = Len(mail)
  PROVE  OutputInv'
  <1>1. Output' = Output /\ Fetched' = Fetched /\ (Broken => Broken')
    BY DEF Output, Fetched, Broken
  <1>2. OutOfFilter'
    BY <1>1 DEF OutputInv, OutOfFilter
  <1>3. Over' /\ Passed' = Len(mail') /\ ~short' => Whole'
    BY <1>1 DEF OutputInv, Whole
  <1>4. ASSUME Within' PROVE (et.errorWrite => BrokenOff)'
    BY <1>1, <1>4 DEF OutputInv, BrokenOff
  <1>5. ASSUME Within', ~short' PROVE WholeSends'
    <2>1. WholeSends
      BY <1>5 DEF OutputInv
    <2>2. /\ TakesTurns => TakesTurns'
          /\ EndFetched => EndFetched'
      BY <1>1, <1>5 DEF TakesTurns, EndFetched
    <2>3. Fetching => Fetching'
      BY <1>1, <1>5 DEF Fetching
    <2>4. BrokeOff => BrokeOff'
      BY <1>1, <1>5 DEF BrokeOff
    <2> QED BY <2>1, <2>2, <2>3, <2>4 DEF WholeSends
  <1> QED BY <1>2, <1>3, <1>4, <1>5 DEF OutputInv

\* Where the parser is does not depend on what the filter gives later.
LEMMA MailingGrows ==
  ASSUME NEW s, Mailing(s), NEW u \in Units, NEW t, t = Append(s, u), ~IsSuffix(End, s),
         u = "text" => ~Contains(s, "dot"),
         u = "dot"  => ~Contains(s, "dot"),
         u = "lf"   => Contains(s, "dot")
  PROVE  Mailing(t) /\ t = s \o <<u>> /\ \A i \in 0..Len(s) : Behind(t, i) = Behind(s, i)
  <1>1. /\ s \in Seq(Units) /\ Len(s) \in Nat /\ t \in Seq(Units) /\ Len(t) = Len(s) + 1
        /\ \A i \in 1..Len(s) : t[i] = s[i]
        /\ t[Len(s) + 1] = u /\ t = s \o <<u>>
    BY LenProperties, AppendProperties, AppendIsConcat DEF Mailing
  <1>2. \A i \in 1..Len(s) : /\ s[i] = "dot" => i >= Len(s) - 1
                             /\ s[i] = "lf" <=> i > 1 /\ s[i - 1] = "dot"
    BY DEF Mailing
  \* The only dot there may be is the last unit.
  <1>3. ASSUME NEW i \in 1..Len(s), s[i] = "dot" PROVE i = Len(s) /\ u = "lf"
    <2>1. Contains(s, "dot")
      BY <1>3 DEF Contains
    <2>2. u = "lf"
      BY <2>1 DEF Units
    <2>3. CASE i = Len(s) - 1
      <3>1. Len(s) \in 1..Len(s) /\ Len(s) > 1 /\ s[Len(s) - 1] = "dot"
        BY <1>1, <1>3, <2>3
      <3>2. s[Len(s)] = "lf"
        BY <1>2, <3>1
      <3> QED BY <1>1, <3>1, <3>2, SuffixIs
    <2> QED BY <1>1, <1>2, <1>3, <2>2, <2>3
  <1>4. u = "lf" <=> Len(s) >= 1 /\ s[Len(s)] = "dot"
    <2>1. ASSUME u = "lf" PROVE Len(s) >= 1 /\ s[Len(s)] = "dot"
      <3>1. PICK i \in 1..Len(s) : s[i] = "dot"
        BY <2>1 DEF Contains
      <3> QED BY <1>1, <1>3, <3>1
    <2>2. ASSUME Len(s) >= 1, s[Len(s)] = "dot" PROVE u = "lf"
      <3>1. Len(s) \in 1..Len(s)
        BY <1>1, <2>2
      <3> QED BY <1>3, <2>2, <3>1
    <2> QED BY <2>1, <2>2
  <1>5. ASSUME NEW i \in 1..Len(t)
        PROVE  /\ t[i] = "dot" => i >= Len(t) - 1
               /\ t[i] = "lf" <=> i > 1 /\ t[i - 1] = "dot"
    <2>1. CASE i \in 1..Len(s)
      <3>1. t[i] = s[i] /\ (i > 1 => t[i - 1] = s[i - 1])
        <4>1. i > 1 => i - 1 \in 1..Len(s)
          BY <1>1, <2>1
        <4> QED BY <1>1, <2>1, <4>1
      <3>2. s[i] = "dot" => i = Len(s)
        BY <1>3, <2>1
      <3> QED BY <1>1, <1>2, <2>1, <3>1, <3>2
    <2>2. CASE i = Len(s) + 1
      <3>1. t[i] = u /\ i - 1 = Len(s) /\ (i > 1 <=> Len(s) >= 1) /\ (Len(s) >= 1 => t[Len(s)] = s[Len(s)])
        BY <1>1, <2>2
      <3> QED BY <1>1, <1>4, <2>2, <3>1
    <2> QED BY <1>1, <2>1, <2>2
  <1>6. ASSUME NEW i \in 0..Len(s) PROVE Behind(t, i) = Behind(s, i)
    <2>1. i # 0 => i \in 1..Len(s)
      BY <1>1
    <2> QED BY <1>1, <2>1 DEF Behind
  <1> QED BY <1>1, <1>5, <1>6 DEF Mailing

LEMMA OutputSeqs ==
  ASSUME Types, OutputInv
  PROVE  /\ given \in Seq(Units) /\ Len(given) \in Nat /\ Mailing(given)
         /\ received \in Seq(Units) /\ Len(received) \in Nat
         /\ outbuf.data \in Seq(Units) /\ Len(outbuf.data) \in Nat /\ outbuf \in Buffers(Units)
         /\ fromFilter \in Seq(Units) /\ Len(fromFilter) \in Nat
         /\ received \o outbuf.data \in Seq(Units) /\ Len(received \o outbuf.data) = Fetched
         /\ Output \in Seq(Units) /\ Len(Output) = Fetched + Len(fromFilter)
         /\ (received \o outbuf.data) \o fromFilter = Output
         /\ ~et.writeError => Output = given
         /\ et.writeError => et.errorWrite /\ Broken
         /\ <<>> \in Seq(Units) /\ Len(<<>>) = 0
  <1>1. /\ given \in Seq(Units) /\ received \in Seq(Units) /\ outbuf.data \in Seq(Units)
        /\ fromFilter \in Seq(Units) /\ outbuf \in Buffers(Units)
    BY DEF Types, Buffers
  <1>2. /\ Len(given) \in Nat /\ Len(received) \in Nat /\ Len(outbuf.data) \in Nat /\ Len(fromFilter) \in Nat
    BY <1>1, LenProperties
  <1>3. received \o outbuf.data \in Seq(Units) /\ Len(received \o outbuf.data) = Fetched
    BY <1>1, ConcatProperties DEF Fetched
  <1>4. (received \o outbuf.data) \o fromFilter = Output
    BY DEF OutputInv, OutOfFilter
  <1>5. Output \in Seq(Units) /\ Len(Output) = Fetched + Len(fromFilter)
    <2>1. PICK ro, f : ro = received \o outbuf.data /\ f = fromFilter
      OBVIOUS
    <2>2. ro \in Seq(Units) /\ f \in Seq(Units)
      BY <1>1, <1>3, <2>1
    <2>3. ro \o f \in Seq(Units) /\ Len(ro \o f) = Len(ro) + Len(f)
      BY ONLY <2>2, ConcatProperties
    <2> QED BY <1>3, <1>4, <2>1, <2>3
  <1>6. Mailing(given) /\ (et.writeError => et.errorWrite /\ Broken)
    BY DEF OutputInv, OutOfFilter
  <1>7. ~et.writeError => Output = given
    BY DEF Output
  <1>8. <<>> \in Seq(Units) /\ Len(<<>>) = 0
    BY EmptySeq
  <1> QED BY <1>1, <1>2, <1>3, <1>4, <1>5, <1>6, <1>7, <1>8

LEMMA StartOutput ==
  ASSUME Types, Begins, OutputInv, Start
  PROVE  OutputInv'
  <1>1. state = "RESPONSE" /\ interest.extRead = "none" /\ state' = "EXTERNAL_TRANSFORMATION"
    BY DEF Start
  <1>2. /\ et = Flags /\ parserWrite = "NEWLINE" /\ outbuf = EmptyBuffer /\ received = <<>>
        /\ interest.client # "WRITE"
    BY <1>1 DEF Begins
  <1>3. PICK q : q = ParseMail("NEWLINE", inbuf.data)
    OBVIOUS
  <1>4. /\ et' = [et EXCEPT !.finishRead = q.upTo # 0, !.sendRead = q.upTo]
        /\ interest' = [interest EXCEPT !.extRead = "READ", !.extWrite = "WRITE"]
        /\ UNCHANGED <<given, received, outbuf, fromFilter, parserWrite, short, filter>>
    BY <1>3 DEF Start, pipes, fixed
  <1>5. ~et'.errorWrite /\ ~et'.writeError /\ ~et'.finishWrite /\ et'.sendWrite = 0 /\ ~et.writeError
    BY <1>2, <1>4 DEF Flags
  <1>6. interest'.extRead = "READ" /\ interest'.client # "WRITE"
    BY <1>2, <1>4 DEF Types
  <1>7. OutOfFilter' /\ Fetched' = Fetched
    BY <1>4, <1>5 DEF OutputInv, OutOfFilter, Output, Fetched
  <1>8. Fetched = 0 /\ Behind(given, 0) = "NEWLINE"
    BY <1>2, OutputSeqs, UnitSeqs, BehindIs DEF Fetched
  <1>9. TakesTurns'
    BY <1>2, <1>4, <1>5, <1>6 DEF TakesTurns
  <1>10. Fetching'
    BY <1>2, <1>4, <1>6, <1>7, <1>8 DEF Fetching
  <1> QED BY <1>1, <1>5, <1>7, <1>9, <1>10 DEF OutputInv, WholeSends, Over

LEMMA FilterGivesOutput ==
  ASSUME Types, OutputInv, FilterGives
  PROVE  OutputInv'
  <1>1. PICK u \in Units : /\ given' = Append(given, u) /\ fromFilter' = Append(fromFilter, u)
                           /\ u = "text" => ~Contains(given, "dot")
                           /\ u = "dot"  => ~Contains(given, "dot")
                           /\ u = "lf"   => Contains(given, "dot")
    BY DEF FilterGives, Units
  <1>2. /\ filter = "runs" /\ ~IsSuffix(End, given)
        /\ UNCHANGED <<state, interest, inbuf, outbuf, et, parserWrite, received, toFilter, taken, mail, short, filter>>
    BY DEF FilterGives, relay, fixed
  <1>3. Mailing(given') /\ given' = given \o <<u>> /\ \A i \in 0..Len(given) : Behind(given', i) = Behind(given, i)
    BY <1>1, <1>2, OutputSeqs, MailingGrows
  <1>4. ~Complete(given) /\ ~Broken /\ ~et.writeError /\ ~et'.writeError
    BY <1>2, OutputSeqs, CompleteIs DEF Broken
  <1>5. OutOfFilter'
    <2>1. PICK a, b, c, x : a = received /\ b = outbuf.data /\ c = fromFilter /\ x = <<u>>
      OBVIOUS
    <2>2. a \in Seq(Units) /\ b \in Seq(Units) /\ c \in Seq(Units) /\ x \in Seq(Units) /\ a \o b \in Seq(Units)
      BY <2>1, OutputSeqs
    <2>3. fromFilter' = c \o x
      BY <1>1, <2>1, <2>2, AppendIsConcat
    <2>4. Regroups(a \o b, c, x, x)
      BY <2>2, Regrouped
    <2>5. ((a \o b) \o c) \o x = (a \o b) \o (c \o x)
      BY ONLY <2>4 DEF Regroups
    <2>6. (a \o b) \o c = given
      BY <1>4, <2>1, OutputSeqs
    <2>7. (received' \o outbuf'.data) \o fromFilter' = given'
      BY <1>2, <1>3, <2>1, <2>3, <2>5, <2>6
    <2>8. Output' = given'
      BY <1>4 DEF Output
    <2> QED BY <1>3, <1>4, <2>7, <2>8 DEF OutOfFilter
  <1>6. Within' = Within /\ Over' = Over /\ Passed' = Passed /\ Fetched' = Fetched
    BY <1>2 DEF Within, Over, Passed, Fetched
  <1>7. ASSUME Within, et.errorWrite PROVE BrokenOff'
    <2>1. BrokenOff
      BY <1>7 DEF OutputInv
    <2> QED BY <1>2, <1>4, <2>1 DEF BrokenOff
  <1>8. ASSUME Within, ~short PROVE WholeSends'
    <2>1. TakesTurns /\ Fetching /\ ~et.errorWrite /\ et.sendWrite = 0 /\ ~et.finishWrite
      BY <1>4, <1>8 DEF OutputInv, WholeSends, BrokeOff, EndFetched
    <2>2. TakesTurns'
      BY <1>2, <2>1 DEF TakesTurns
    <2>3. Fetched \in 0..Len(given)
      BY <1>4, OutputSeqs DEF Fetched
    <2>4. Fetching'
      BY <1>2, <1>3, <1>6, <2>1, <2>3 DEF Fetching
    <2> QED BY <1>2, <2>1, <2>2, <2>4 DEF WholeSends
  <1>9. ~(Over /\ Passed = Len(mail) /\ ~short)
    BY <1>4 DEF OutputInv, Whole
  <1> QED BY <1>2, <1>5, <1>6, <1>7, <1>8, <1>9 DEF OutputInv

LEMMA ExtReadOutput ==
  ASSUME Types, OutputInv, ExtRead
  PROVE  OutputInv'
  <1>1. PICK n, p :
          /\ Takes(n, p) /\ outbuf' \in Buffers(Units)
          /\ fromFilter' \in Seq(Units) /\ SubSeq(fromFilter, 1, n) \in Seq(Units)
          /\ fromFilter = SubSeq(fromFilter, 1, n) \o fromFilter'
          /\ outbuf'.data = outbuf.data \o SubSeq(fromFilter, 1, n)
          /\ Len(outbuf'.data) = Len(outbuf.data) + n
          /\ et'.sendWrite = p.upTo /\ et'.errorWrite = (et.errorWrite \/ (n = 0 /\ p.upTo = 0))
          /\ et'.finishWrite = et.finishWrite /\ et'.writeError = et.writeError
          /\ interest'.client = "WRITE"
          /\ interest'.extRead = IF n = 0 \/ p.upTo # 0 THEN "off" ELSE "NOOP"
          /\ state' = state /\ n \in 0..Len(fromFilter)
          /\ UNCHANGED <<received, filter, given>>
    BY ExtReadIs
  <1>2. /\ Within /\ interest.extRead = "READ" /\ (fromFilter # <<>> \/ filter = "ended")
        /\ short' = short
    BY DEF ExtRead, On, Within, fixed
  <1>3. ~et.errorWrite /\ ~et.writeError /\ ~et'.writeError
    BY <1>1, <1>2, OutputSeqs DEF OutputInv, BrokenOff
  <1>4. Output' = given /\ Output = given /\ given' = given
    BY <1>1, <1>3 DEF Output
  <1>5. PICK r, b, x, c : r = received /\ b = outbuf.data /\ x = SubSeq(fromFilter, 1, n) /\ c = fromFilter'
    OBVIOUS
  <1>6. r \in Seq(Units) /\ b \in Seq(Units) /\ x \in Seq(Units) /\ c \in Seq(Units)
    BY <1>1, <1>5, OutputSeqs
  <1>7. (r \o (b \o x)) \o c = given
    <2>1. Regroups(r, b, x, c)
      BY <1>6, Regrouped
    <2>2. (r \o (b \o x)) \o c = (r \o b) \o (x \o c)
      BY ONLY <2>1 DEF Regroups
    <2> QED BY <1>1, <1>4, <1>5, <2>2, OutputSeqs
  <1>8. OutOfFilter'
    BY <1>1, <1>3, <1>4, <1>5, <1>7, OutputSeqs DEF OutOfFilter
  <1>9. ASSUME n = 0, fromFilter = <<>> PROVE Broken'
    <2>1. fromFilter' = <<>>
      <3>1. fromFilter' = SubSeq(fromFilter, 0 + 1, Len(fromFilter)) /\ Len(fromFilter) = 0
        BY <1>1, <1>9, EmptySeq DEF Takes
      <3> QED BY <3>1, SubSeqEmpty
    <2> QED BY <1>1, <1>2, <1>9, <2>1 DEF Broken
  <1>10. ASSUME n = 0 PROVE Room(outbuf') = Room(outbuf)
    <2>1. outbuf'.off = outbuf.off
      BY <1>1, OutputSeqs, PutIs DEF Takes
    <2> QED BY <1>1, <1>10, <2>1, OutputSeqs DEF Room
  <1>11. ASSUME et'.errorWrite PROVE BrokenOff'
    <2>1. n = 0 /\ p.upTo = 0 /\ interest'.extRead = "off"
      BY <1>1, <1>3, <1>11
    <2>2. fromFilter = <<>> \/ Room(outbuf) = 0
      BY <1>1, <2>1 DEF Takes
    <2> QED BY <1>9, <1>10, <2>1, <2>2 DEF BrokenOff
  <1>12. ASSUME ~short' PROVE WholeSends'
    <2>1. /\ outbuf = EmptyBuffer /\ ~et.finishWrite /\ ~et'.finishWrite
          /\ parserWrite = Behind(given, Fetched) /\ parserWrite # "FIN"
      BY <1>1, <1>2, <1>3, <1>12 DEF OutputInv, WholeSends, TakesTurns, Fetching
    <2>2. /\ Fetched = Len(r) /\ Len(r) \in Nat /\ Len(given) \in Nat /\ b = <<>> /\ b \o x = x
          /\ Len(r) <= Len(given) /\ Mailing(given) /\ n \in Nat /\ Len(x) = n /\ Fetched' = Len(r) + n
      <3>1. b = <<>> /\ Len(b) = 0
        BY <1>5, <2>1, UnitSeqs DEF EmptyBuffer
      <3>2. b \o x = x
        BY <1>6, <3>1, ConcatEmptySeq
      <3>3. Len(x) = n /\ n \in Nat
        BY <1>1, <1>5, <3>1, <3>2, OutputSeqs
      <3> QED BY <1>1, <1>4, <1>5, <3>1, <3>2, <3>3, OutputSeqs DEF Fetched
    <2>3. outbuf'.data = x /\ p = ParseMail(Behind(given, Len(r)), x)
      BY <1>1, <1>5, <2>1, <2>2 DEF Takes
    <2>20. Len(r) + Len(x) <= Len(given)
      <3>1. Len(r \o x) = Len(r) + Len(x) /\ r \o x \in Seq(Units)
        BY <1>6, ConcatProperties
      <3>2. Len((r \o x) \o c) = Len(r \o x) + Len(c) /\ Len(c) \in Nat
        BY <1>6, <3>1, ConcatProperties, LenProperties
      <3> QED BY <1>7, <2>2, <3>1, <3>2
    <2>4. IF Len(r) + Len(x) >= Len(given) /\ Complete(given)
          THEN p.upTo # 0 /\ Len(r) + p.upTo = Len(given)
          ELSE p.upTo = 0 /\ p.parser = Behind(given, Len(r) + Len(x))
      <3>1. (r \o x) \o c = given \o <<>>
        BY <1>7, <2>2, OutputSeqs, ConcatEmptySeq
      <3>2. r \in Seq(Units) /\ x \in Seq(Units) /\ c \in Seq(Units) /\ <<>> \in Seq(Units) /\ Mailing(given)
        BY <1>6, OutputSeqs
      <3>3. Behind(given, Len(r)) # "FIN" /\ Len(r) <= Len(given)
        BY <2>1, <2>2
      <3>4. PICK q : q = ParseMail(Behind(given, Len(r)), x)
        OBVIOUS
      <3>5. IF Len(r) + Len(x) >= Len(given) /\ Complete(given)
            THEN q.upTo # 0 /\ Len(r) + q.upTo = Len(given)
            ELSE q.upTo = 0 /\ q.parser = Behind(given, Len(r) + Len(x))
        BY ONLY <2>20, <3>1, <3>2, <3>3, <3>4, Scanned
      <3>6. p = q
        BY <2>3, <3>4
      <3> QED BY <3>5, <3>6
    <2>5. interest'.extRead # "READ" /\ TakesTurns'
      BY <1>1 DEF TakesTurns
    <2>6. CASE Len(r) + Len(x) >= Len(given) /\ Complete(given)
      <3>1. p.upTo # 0 /\ Len(r) + p.upTo = Len(given)
        BY <2>4, <2>6
      <3>2. p.upTo \in Nat
        <4>1. et'.sendWrite \in Nat
          BY ExtReadTypes DEF Types, FlagsType
        <4> QED BY <1>1, <4>1
      <3>3. Len(r) + n = Len(given)
        BY ONLY <2>2, <2>6, <2>20
      <3>4. et'.sendWrite = Len(outbuf'.data) /\ Fetched' = Len(given)
        <4>1. p.upTo = n
          BY ONLY <2>2, <3>1, <3>2, <3>3
        <4> QED BY <1>1, <2>2, <2>3, <3>3, <4>1
      <3>5. EndFetched'
        BY <1>1, <1>3, <1>4, <2>1, <2>6, <3>1, <3>4 DEF EndFetched
      <3> QED BY <1>1, <1>3, <2>5, <3>1, <3>5 DEF WholeSends
    <2>7. CASE ~(Len(r) + Len(x) >= Len(given) /\ Complete(given))
      <3>1. p.upTo = 0 /\ p.parser = Behind(given, Fetched')
        BY <2>2, <2>4, <2>7
      <3>2. CASE n = 0
        <4>1. fromFilter = <<>>
          BY <1>1, <2>1, <3>2, UnitSeqs DEF Takes
        <4>2. Broken' /\ Len(fromFilter) = 0
          BY <1>9, <3>2, <4>1, EmptySeq
        <4>3. ~Complete(given)
          BY <1>4, <2>2, <2>7, <3>2, <4>2, OutputSeqs
        <4>4. outbuf' = EmptyBuffer
          <5>1. SubSeq(fromFilter, 1, 0) = <<>>
            BY SubSeqEmpty
          <5>2. outbuf' = [EmptyBuffer EXCEPT !.data = <<>> \o <<>>]
            BY <1>1, <2>1, <3>2, <5>1 DEF Takes, Put, EmptyBuffer
          <5>3. <<>> \o <<>> = <<>>
            BY OutputSeqs, ConcatEmptySeq
          <5> QED BY <5>2, <5>3 DEF EmptyBuffer
        <4>5. BrokeOff'
          BY <1>1, <1>3, <1>4, <2>1, <3>1, <4>2, <4>3, <4>4 DEF BrokeOff
        <4> QED BY <1>1, <2>5, <3>1, <3>2, <4>5 DEF WholeSends
      <3>3. CASE n # 0
        <4>1. PICK f : f = Fetched'
          OBVIOUS
        <4>2. Behind(given, Fetched') # "FIN"
          <5>1. f \in 0..Len(given) /\ ~(f = Len(given) /\ Complete(given))
            BY <2>2, <2>7, <2>20, <4>1
          <5>2. Behind(given, f) # "FIN"
            BY <2>2, <5>1, BehindIs
          <5> QED BY <4>1, <5>2
        <4>3. parserWrite' = p.parser
          BY <1>1 DEF Takes
        <4>4. Fetching'
          BY <1>1, <1>4, <3>1, <3>3, <4>2, <4>3 DEF Fetching
        <4> QED BY <1>1, <1>3, <2>1, <2>5, <3>1, <3>3, <4>4 DEF WholeSends
      <3> QED BY <3>2, <3>3
    <2> QED BY <2>6, <2>7
  <1>13. ~Over'
    BY <1>1, <1>2 DEF Within, Over
  <1> QED BY <1>8, <1>11, <1>12, <1>13 DEF OutputInv

\* A send leaves what it took in order; behind a broken output the end goes out.
LEMMA WriteKeepsOrder ==
  ASSUME Types, OutputInv, TransformationWrite
  PROVE  OutOfFilter' /\ (et.errorWrite => et'.writeError /\ BrokenOff)
  <1>1. Within /\ UNCHANGED <<given, fromFilter, filter>>
    BY DEF TransformationWrite, On, Within, pipes
  <1>2. PICK n : /\ et'.writeError = (et.writeError \/ NeedsEnd) /\ et'.errorWrite = et.errorWrite
                 /\ SubSeq(Fitted.data, 1, n) \in Seq(Units) /\ received' = received \o SubSeq(Fitted.data, 1, n)
                 /\ outbuf' \in Buffers(Units) /\ Fitted.data = SubSeq(Fitted.data, 1, n) \o outbuf'.data
                 /\ InBounds(Fitted) /\ ~NeedsNotice
    BY WriteIs
  <1>3. et.errorWrite => et'.writeError /\ BrokenOff
    BY <1>1, <1>2 DEF NeedsEnd, NeedsNotice, OutputInv
  <1>4. PICK r, x, y, b, t : /\ r = received /\ x = SubSeq(Fitted.data, 1, n) /\ y = outbuf'.data
                             /\ b = outbuf.data /\ t = (IF NeedsEnd THEN Terminator ELSE <<>>)
    OBVIOUS
  <1>5. r \in Seq(Units) /\ x \in Seq(Units) /\ y \in Seq(Units) /\ b \in Seq(Units) /\ t \in Seq(Units)
    BY <1>2, <1>4, OutputSeqs, UnitSeqs DEF Buffers
  <1>6. received' \o outbuf'.data = (received \o outbuf.data) \o t
    <2>1. received' = r \o x /\ x \o y = b \o t
      BY <1>2, <1>4, PortionIs
    <2>2. Regroups(r, x, y, y) /\ Regroups(r, b, t, t)
      BY <1>5, Regrouped
    <2>3. (r \o x) \o y = r \o (x \o y) /\ (r \o b) \o t = r \o (b \o t)
      BY ONLY <2>2 DEF Regroups
    <2> QED BY <1>4, <2>1, <2>3
  <1>7. CASE NeedsEnd
    <2>1. t = Terminator /\ Fitted = Put(outbuf, t) /\ Len(t) = 3 /\ et.errorWrite /\ ~et.writeError
      BY <1>4, <1>7, UnitSeqs DEF Fitted, NeedsEnd
    <2>2. Room(outbuf) # 0
      <3>1. outbuf \in Buffers(Units) /\ t \in Seq(Units) /\ InBounds(Put(outbuf, t))
        BY <1>2, <1>5, <2>1, OutputSeqs
      <3>2. Len(t) <= Room(outbuf)
        BY ONLY <3>1, PutIs
      <3> QED BY <2>1, <3>2
    <2>3. Broken /\ fromFilter = <<>> /\ et'.writeError /\ et'.errorWrite
      BY <1>2, <1>3, <1>7, <2>1, <2>2 DEF BrokenOff, Broken
    <2>4. received \o outbuf.data = given
      <3>1. (received \o outbuf.data) \o <<>> = given
        BY <2>1, <2>3, OutputSeqs
      <3> QED BY <3>1, OutputSeqs, ConcatEmptySeq
    <2>5. (received' \o outbuf'.data) \o fromFilter' = Output'
      <3>1. Output' = given \o t
        BY <1>1, <2>1, <2>3 DEF Output
      <3>2. PICK g : g = given \o t
        OBVIOUS
      <3>3. g \in Seq(Units)
        BY <1>5, <3>2, OutputSeqs, ConcatProperties
      <3>4. g \o <<>> = g
        BY <3>3, ConcatEmptySeq
      <3> QED BY <1>1, <1>6, <2>3, <2>4, <3>1, <3>2, <3>4
    <2> QED BY <1>1, <1>3, <2>3, <2>5, OutputSeqs DEF OutOfFilter, Broken
  <1>8. CASE ~NeedsEnd
    <2>1. received' \o outbuf'.data = received \o outbuf.data
      <3>1. PICK ro : ro = received \o outbuf.data
        OBVIOUS
      <3>2. ro \in Seq(Units) /\ t = <<>>
        BY <1>4, <1>8, <3>1, OutputSeqs
      <3>3. ro \o <<>> = ro
        BY <3>2, ConcatEmptySeq
      <3> QED BY <1>6, <3>1, <3>2, <3>3
    <2>2. Output' = Output
      BY <1>1, <1>2, <1>8 DEF Output
    <2> QED BY <1>1, <1>2, <1>3, <1>8, <2>1, <2>2, OutputSeqs DEF OutOfFilter, Broken
  <1> QED BY <1>3, <1>7, <1>8

\* A send that takes all it is given, where the output stands before it.
LEMMA WriteSendsAll ==
  ASSUME Types, OutputInv, TransformationWrite, ~short'
  PROVE  /\ ~short /\ WholeSends /\ outbuf' = EmptyBuffer /\ et'.sendWrite = 0
         /\ et'.finishWrite = (et.finishWrite \/ et.sendWrite # 0)
         /\ ~et.errorWrite => Fetched' = Fetched /\ outbuf # EmptyBuffer
         /\ Leave \/ /\ Within' /\ interest'.client = "NOOP"
                     /\ interest'.extRead = IF interest.extRead = "off" THEN "off" ELSE "READ"
         /\ Leave => et'.errorWrite \/ et'.finishWrite
  <1>1. Within /\ ~NeedsNotice /\ interest.client = "WRITE"
    BY DEF TransformationWrite, On, Within
  <1>2. PICK n \in 1..Portion(Fitted, et.sendWrite) :
                 /\ n \in 0..Len(Fitted.data) /\ et'.finishWrite = (et.finishWrite \/ et.sendWrite # 0)
                 /\ et'.sendWrite = (IF et.sendWrite = 0 THEN 0 ELSE et.sendWrite - n)
                 /\ outbuf' = Drop(Fitted, n) /\ SubSeq(Fitted.data, 1, n) \in Seq(Units)
                 /\ received' = received \o SubSeq(Fitted.data, 1, n)
                 /\ short' = (short \/ n < Portion(Fitted, et.sendWrite))
                 /\ IF (et'.errorWrite \/ et'.finishWrite) /\ et'.sendWrite = 0 /\ Finished(et') THEN Leave
                    ELSE Stay(IF et'.errorWrite /\ et'.sendWrite # 0 THEN interest
                              ELSE [Set(interest, "extRead", "READ") EXCEPT !.client = "NOOP"])
                 /\ InBounds(Fitted)
    BY WriteIs
  <1>3. ~short /\ n = Portion(Fitted, et.sendWrite) /\ WholeSends
    <2>1. PICK k : k = Portion(Fitted, et.sendWrite)
      OBVIOUS
    <2>2. n \in 1..k /\ ~short /\ ~(n < k)
      BY <1>2, <2>1
    <2>3. k \in 0..Len(Fitted.data) /\ Len(Fitted.data) \in Nat
      BY <2>1, PortionIs
    <2>4. n = k
      BY ONLY <2>2, <2>3
    <2>5. WholeSends
      BY <1>1, <2>2 DEF OutputInv
    <2> QED BY <2>1, <2>2, <2>4, <2>5
  <1>4. et.errorWrite => et.sendWrite = 0
    BY <1>3 DEF WholeSends, BrokeOff
  <1>5. n = Len(Fitted.data) /\ et'.sendWrite = 0
    <2>1. CASE et.sendWrite = 0
      BY <1>2, <1>3, <2>1 DEF Portion
    <2>2. CASE et.sendWrite # 0
      <3>1. ~et.errorWrite /\ EndFetched
        BY <1>3, <1>4, <2>2 DEF WholeSends
      <3>2. et.sendWrite = Len(outbuf.data) /\ Fitted = outbuf
        BY <2>2, <3>1 DEF EndFetched, Fitted, NeedsEnd
      <3> QED BY <1>2, <1>3, <2>2, <3>2 DEF Portion
    <2> QED BY <2>1, <2>2
  <1>6. outbuf' = EmptyBuffer
    BY <1>2, <1>5 DEF Drop
  <1>7. ASSUME ~et.errorWrite PROVE Fetched' = Fetched /\ outbuf # EmptyBuffer
    <2>1. Fitted = outbuf
      BY <1>7 DEF Fitted, NeedsEnd
    <2>2. outbuf # EmptyBuffer
      BY <1>2, <1>5, <2>1, UnitSeqs
    <2>3. SubSeq(outbuf.data, 1, n) = outbuf.data
      BY <1>5, <2>1, OutputSeqs, SubSeqFull
    <2>4. Len(received') = Len(received) + Len(outbuf.data)
      BY <1>2, <2>1, <2>3, OutputSeqs, ConcatProperties
    <2> QED BY <1>6, <2>2, <2>4, OutputSeqs, UnitSeqs DEF Fetched
  <1>8. \/ Leave /\ (et'.errorWrite \/ et'.finishWrite)
        \/ /\ Within' /\ interest'.client = "NOOP"
           /\ interest'.extRead = IF interest.extRead = "off" THEN "off" ELSE "READ"
    <2>1. CASE (et'.errorWrite \/ et'.finishWrite) /\ et'.sendWrite = 0 /\ Finished(et')
      BY <1>2, <2>1
    <2>2. CASE ~((et'.errorWrite \/ et'.finishWrite) /\ et'.sendWrite = 0 /\ Finished(et'))
      <3>1. Stay([Set(interest, "extRead", "READ") EXCEPT !.client = "NOOP"])
        BY <1>2, <1>5, <2>2
      <3>2. interest \in Interest
        BY DEF Types, Interest
      <3> QED BY <1>1, <3>1, <3>2 DEF Stay, Set, Within, Interest
    <2> QED BY <2>1, <2>2
  <1>9. Leave => ~Within'
    BY DEF Leave, Within
  <1> QED BY <1>2, <1>3, <1>5, <1>6, <1>7, <1>8, <1>9

LEMMA WriteOutput ==
  ASSUME Types, OutputInv, TransformationWrite
  PROVE  OutputInv'
  <1>1. OutOfFilter' /\ (et.errorWrite => et'.writeError /\ BrokenOff)
    BY WriteKeepsOrder
  <1>2. PICK n : /\ et'.writeError = (et.writeError \/ NeedsEnd) /\ et'.errorWrite = et.errorWrite
                 /\ Leave \/ Stay(IF et'.errorWrite /\ et'.sendWrite # 0 THEN interest
                                  ELSE [Set(interest, "extRead", "READ") EXCEPT !.client = "NOOP"])
    BY WriteIs
  <1>3. Within /\ ~NeedsNotice /\ interest.client = "WRITE" /\ UNCHANGED <<given, fromFilter, filter, parserWrite>>
    BY DEF TransformationWrite, On, Within, pipes
  <1>4. ASSUME Within', et'.errorWrite PROVE BrokenOff'
    <2>1. Stay(IF et'.errorWrite /\ et'.sendWrite # 0 THEN interest
               ELSE [Set(interest, "extRead", "READ") EXCEPT !.client = "NOOP"])
      BY <1>2, <1>4 DEF Leave, Within
    <2>2. interest.extRead = "off"
      BY <1>1, <1>2, <1>4 DEF BrokenOff
    <2>3. interest \in Interest
      BY DEF Types, Interest
    <2>4. interest'.extRead = "off"
      BY <2>1, <2>2, <2>3 DEF Stay, Set, Interest
    <2> QED BY <1>1, <1>2, <1>4, <2>4 DEF BrokenOff
  <1>5. ASSUME ~short' PROVE (Within' => WholeSends') /\ (Over' => Whole')
    <2>1. /\ WholeSends /\ outbuf' = EmptyBuffer /\ et'.sendWrite = 0
          /\ et'.finishWrite = (et.finishWrite \/ et.sendWrite # 0)
          /\ ~et.errorWrite => Fetched' = Fetched /\ outbuf # EmptyBuffer
          /\ Leave \/ /\ Within' /\ interest'.client = "NOOP"
                      /\ interest'.extRead = IF interest.extRead = "off" THEN "off" ELSE "READ"
          /\ Leave => et'.errorWrite \/ et'.finishWrite
      BY <1>5, WriteSendsAll
    <2>2. /\ Within' => /\ interest'.client = "NOOP"
                        /\ interest'.extRead = IF interest.extRead = "off" THEN "off" ELSE "READ"
          /\ Over' => Leave
      BY <2>1 DEF Leave, Within, Over
    <2>3. interest.extRead # "READ"
      BY <1>3, <2>1 DEF WholeSends, TakesTurns
    <2>4. CASE et.errorWrite
      <3>1. /\ BrokeOff /\ ~et.writeError /\ Broken /\ ~Complete(given) /\ et.sendWrite = 0 /\ ~et.finishWrite
            /\ interest.extRead = "off" /\ et'.writeError
        BY <1>1, <1>3, <2>1, <2>4 DEF WholeSends, BrokeOff, BrokenOff
      <3>2. Broken' /\ ~et'.finishWrite /\ ~Complete(given')
        BY <1>3, <2>1, <3>1 DEF Broken
      <3>3. Within' => WholeSends'
        <4>1. ASSUME Within' PROVE TakesTurns' /\ BrokeOff'
          BY <2>1, <2>2, <3>1, <3>2, <4>1 DEF TakesTurns, BrokeOff
        <4> QED BY <1>2, <2>4, <4>1 DEF WholeSends
      <3>4. Whole'
        BY <2>1, <3>1, <3>2 DEF Whole, Broken
      <3> QED BY <3>3, <3>4
    <2>5. CASE ~et.errorWrite /\ (et.sendWrite # 0 \/ et.finishWrite)
      <3>1. EndFetched /\ et'.finishWrite /\ ~et'.writeError /\ ~et.writeError
        BY <1>2, <2>1, <2>5, OutputSeqs DEF WholeSends, NeedsEnd
      <3>2. Within' => WholeSends'
        <4>1. ASSUME Within' PROVE TakesTurns' /\ EndFetched'
          BY <1>2, <1>3, <2>1, <2>2, <2>5, <3>1, <4>1 DEF TakesTurns, EndFetched
        <4> QED BY <1>2, <2>5, <3>1, <4>1 DEF WholeSends
      <3>3. Whole'
        <4>1. Len(fromFilter) = 0
          BY <3>1, OutputSeqs DEF EndFetched
        <4>2. fromFilter = <<>>
          BY <4>1, OutputSeqs, EmptySeq
        <4> QED BY <1>3, <2>1, <3>1, <4>2 DEF Whole, EndFetched
      <3> QED BY <3>2, <3>3
    <2>6. CASE ~et.errorWrite /\ et.sendWrite = 0 /\ ~et.finishWrite
      <3>1. Fetching /\ ~et'.finishWrite /\ ~et'.errorWrite
        BY <1>2, <2>1, <2>6 DEF WholeSends
      <3>2. ~Over'
        BY <2>1, <2>2, <3>1
      <3>3. ASSUME Within' PROVE TakesTurns' /\ Fetching'
        BY <1>3, <2>1, <2>2, <2>6, <3>1, <3>3 DEF TakesTurns, Fetching
      <3> QED BY <2>1, <3>1, <3>2, <3>3 DEF WholeSends
    <2> QED BY <2>4, <2>5, <2>6
  <1> QED BY <1>1, <1>4, <1>5 DEF OutputInv

-----------------------------------------------------------------------------
(* The steps together.                                                     *)

\* The steps on the other way, and those that end it.
LEMMA OthersInput ==
  ASSUME Types, InputInv,
         \/ ExtRead \/ TransformationWrite \/ TransformationReadFails \/ ExtWriteBreaks
         \/ StartFails \/ TransformationWriteBreaks \/ FilterGives \/ FilterEnds \/ PeerGoes
  PROVE  InputInv'
  <1>1. CASE ExtRead
    <2>1. /\ et'.sendRead = et.sendRead /\ et'.finishRead = et.finishRead
          /\ interest'.origin = interest.origin /\ interest'.extWrite = interest.extWrite
          /\ state' = state /\ UNCHANGED <<inbuf, parserRead, wire, toFilter, taken>>
      BY <1>1, ExtReadIs
    <2>2. UNCHANGED <<mail, next>>
      BY <1>1 DEF ExtRead, fixed
    <2> QED BY <2>1, <2>2, InputKept DEF Within
  <1>2. CASE TransformationWrite
    <2>1. /\ et'.sendRead = et.sendRead /\ et'.finishRead = et.finishRead
          /\ \/ Leave
             \/ Stay(IF et'.errorWrite /\ et'.sendWrite # 0 THEN interest
                     ELSE [Set(interest, "extRead", "READ") EXCEPT !.client = "NOOP"])
          /\ UNCHANGED <<inbuf, parserRead, wire, pipes, mail, next>>
      BY <1>2, WriteIs
    <2>2. ASSUME Within' PROVE Within /\ interest'.origin = interest.origin /\ interest'.extWrite = interest.extWrite
      <3>1. Stay(IF et'.errorWrite /\ et'.sendWrite # 0 THEN interest
                 ELSE [Set(interest, "extRead", "READ") EXCEPT !.client = "NOOP"])
        BY <2>1, <2>2 DEF Leave, Within
      <3>2. interest \in Interest
        BY DEF Types, Interest
      <3>3. /\ [Set(interest, "extRead", "READ") EXCEPT !.client = "NOOP"].origin = interest.origin
            /\ [Set(interest, "extRead", "READ") EXCEPT !.client = "NOOP"].extWrite = interest.extWrite
        BY <3>2 DEF Set, Interest
      <3> QED BY <2>2, <3>1, <3>3 DEF Stay, Within
    <2> QED BY <2>1, <2>2, InputKept DEF pipes
  <1>3. ASSUME \/ TransformationReadFails \/ ExtWriteBreaks \/ StartFails \/ TransformationWriteBreaks
        PROVE  InputInv'
    <2>1. /\ Fail \/ Die("assertion") \/ Die("SIGPIPE")
          /\ UNCHANGED <<wire, pipes, fixed>>
      BY <1>3 DEF TransformationReadFails, ExtWriteBreaks, StartFails, TransformationWriteBreaks
    <2>2. UNCHANGED <<inbuf, et, parserRead>> /\ (Within' => UNCHANGED <<state, interest>>)
      BY <2>1 DEF Fail, Die, Within
    <2> QED BY <2>1, <2>2, InputKept DEF pipes, fixed, Within
  <1>4. CASE FilterGives \/ FilterEnds \/ PeerGoes
    <2>1. UNCHANGED <<state, interest, inbuf, et, parserRead, wire, toFilter, taken, mail, next>>
      BY <1>4 DEF FilterGives, FilterEnds, PeerGoes, relay, pipes, fixed
    <2> QED BY <2>1, InputKept DEF Within
  <1> QED BY <1>1, <1>2, <1>3, <1>4

LEMMA OthersOutput ==
  ASSUME Types, InputInv, OutputInv,
         \/ TransformationRead \/ ExtWrite \/ TransformationReadFails \/ ExtWriteBreaks
         \/ StartFails \/ TransformationWriteBreaks \/ FilterTakes \/ FilterEnds \/ PeerGoes
  PROVE  OutputInv'
  <1>1. CASE TransformationRead
    <2>1. Passed' = Passed /\ Passed < Len(mail) /\ mail' = mail
      BY <1>1, ReadInput
    <2>2. Passed' # Len(mail')
      BY <2>1, InputSeqs
    <2>3. PICK q : /\ et' = [et EXCEPT !.sendRead = q.upTo, !.finishRead = @ \/ q.upTo # 0]
                   /\ Leave \/ Stay([Set(interest, "extWrite", "WRITE") EXCEPT !.origin = "NOOP"])
      BY <1>1 DEF TransformationRead
    <2>4. /\ et'.writeError = et.writeError /\ et'.errorWrite = et.errorWrite
          /\ et'.finishWrite = et.finishWrite /\ et'.sendWrite = et.sendWrite
      BY <2>3 DEF Types, FlagsType
    <2>5. Within /\ UNCHANGED <<given, received, outbuf, fromFilter, parserWrite, short, filter>>
      BY <1>1 DEF TransformationRead, On, Within, pipes, fixed
    <2>6. ASSUME Within' PROVE interest'.client = interest.client /\ interest'.extRead = interest.extRead
      <3>1. Stay([Set(interest, "extWrite", "WRITE") EXCEPT !.origin = "NOOP"])
        BY <2>3, <2>6 DEF Leave, Within
      <3>2. interest \in Interest
        BY DEF Types, Interest
      <3>3. /\ [Set(interest, "extWrite", "WRITE") EXCEPT !.origin = "NOOP"].client = interest.client
            /\ [Set(interest, "extWrite", "WRITE") EXCEPT !.origin = "NOOP"].extRead = interest.extRead
        BY <3>2 DEF Set, Interest
      <3> QED BY <3>1, <3>3 DEF Stay
    <2> QED BY <2>2, <2>4, <2>5, <2>6, OutputKept
  <1>2. CASE ExtWrite
    <2>1. /\ et' = [et EXCEPT !.sendRead = 0] /\ Within
          /\ Stay(IF et.finishRead THEN [interest EXCEPT !.extWrite = "off"]
                  ELSE [interest EXCEPT !.extWrite = "NOOP", !.origin = "READ"])
          /\ UNCHANGED <<given, received, outbuf, fromFilter, parserWrite, short, filter>>
      BY <1>2 DEF ExtWrite, On, Within, OriginWanted, fixed
    <2>2. /\ et'.writeError = et.writeError /\ et'.errorWrite = et.errorWrite
          /\ et'.finishWrite = et.finishWrite /\ et'.sendWrite = et.sendWrite
      BY <2>1 DEF Types, FlagsType
    <2>3. interest'.client = interest.client /\ interest'.extRead = interest.extRead /\ state' = state
      BY <2>1 DEF Types, Stay
    <2>4. ~Over'
      BY <2>1, <2>3 DEF Over, Within
    <2> QED BY <2>1, <2>2, <2>3, <2>4, OutputKept DEF Within
  <1>3. ASSUME \/ TransformationReadFails \/ ExtWriteBreaks \/ StartFails \/ TransformationWriteBreaks
        PROVE  OutputInv'
    <2>1. /\ Fail \/ Die("assertion") \/ Die("SIGPIPE")
          /\ UNCHANGED <<wire, pipes, fixed>>
      BY <1>3 DEF TransformationReadFails, ExtWriteBreaks, StartFails, TransformationWriteBreaks
    <2>2. /\ UNCHANGED <<outbuf, et, parserWrite, received>>
          /\ (state' = "ERROR" \/ UNCHANGED <<state, interest>>)
      BY <2>1 DEF Fail, Die
    <2>3. Passed' = Passed /\ UNCHANGED <<given, fromFilter, short, filter, mail>>
      BY <2>1 DEF Passed, pipes, fixed
    <2>4. (Within' => UNCHANGED <<state, interest>>) /\ (Over' => Over)
      BY <2>2 DEF Within, Over
    <2> QED BY <2>2, <2>3, <2>4, OutputKept DEF Within
  <1>4. CASE FilterTakes
    <2>1. Passed' = Passed
      BY <1>4, FilterTakesInput
    <2>2. UNCHANGED <<state, interest, given, received, outbuf, fromFilter, parserWrite, short, et, filter, mail>>
      BY <1>4 DEF FilterTakes, relay, fixed
    <2> QED BY <2>1, <2>2, OutputKept DEF Within, Over
  <1>5. CASE FilterEnds \/ PeerGoes
    <2>1. /\ UNCHANGED <<state, interest, given, received, outbuf, fromFilter, parserWrite, short, et, mail, taken, toFilter>>
          /\ filter' = filter \/ filter' = "ended"
      BY <1>5 DEF FilterEnds, PeerGoes, relay, pipes, fixed
    <2> QED BY <2>1, OutputKept DEF Within, Over, Passed
  <1> QED BY <1>1, <1>2, <1>3, <1>4, <1>5

LEMMA BeginsKept ==
  ASSUME Types, Begins, InputInv, Next
  PROVE  Begins'
  <1> SUFFICES ASSUME state' = "RESPONSE" /\ interest'.extRead = "none"
               PROVE  /\ et' = Flags /\ parserWrite' = "NEWLINE" /\ Passed' = 0
                      /\ outbuf' = EmptyBuffer /\ received' = <<>>
                      /\ interest'.origin # "READ" /\ interest'.client # "WRITE"
    BY DEF Begins
  <1>1. ~Leave /\ ~Fail
    BY DEF Leave, Fail
  <1>2. ~(state = "EXTERNAL_TRANSFORMATION" /\ UNCHANGED state)
    OBVIOUS
  <1>3. ~Start /\ ~TransformationRead /\ ~TransformationReadFails /\ ~ExtWrite /\ ~ExtRead /\ ~TransformationWrite
    BY <1>1, <1>2 DEF Start, TransformationRead, TransformationReadFails, ExtWrite, ExtRead,
                      TransformationWrite, On, Stay
  <1>4. /\ UNCHANGED <<state, interest, et, parserWrite, outbuf, received>> /\ Passed' = Passed
    <2>1. CASE ExtWriteBreaks \/ TransformationWriteBreaks \/ StartFails
      BY <1>1, <2>1 DEF ExtWriteBreaks, TransformationWriteBreaks, StartFails, Die, Passed, pipes
    <2>2. CASE FilterTakes
      BY <2>2, FilterTakesInput DEF FilterTakes, relay
    <2>3. CASE FilterGives \/ FilterEnds \/ PeerGoes
      BY <2>3 DEF FilterGives, FilterEnds, PeerGoes, relay, Passed, pipes
    <2> QED BY <1>3, <2>1, <2>2, <2>3 DEF Next, Handler
  <1> QED BY <1>4 DEF Begins

LEMMA TypesKept ==
  ASSUME Types, Next
  PROVE  Types'
  BY FilterTypes, StartTypes, ReadTypes, BreakTypes, ExtWriteTypes, ExtReadTypes, WriteTypes DEF Next, Handler

LEMMA StepKeeps ==
  ASSUME TInv, Next
  PROVE  TInv'
  <1>1. Types /\ Begins /\ InputInv /\ OutputInv
    BY DEF TInv
  <1>2. Types' /\ Begins'
    BY <1>1, TypesKept, BeginsKept
  <1>3. InputInv'
    BY <1>1, StartInput, ReadInput, ExtWriteInput, FilterTakesInput, OthersInput DEF Next, Handler
  <1>4. OutputInv'
    BY <1>1, StartOutput, ExtReadOutput, WriteOutput, FilterGivesOutput, OthersOutput DEF Next, Handler
  <1> QED BY <1>2, <1>3, <1>4 DEF TInv

LEMMA StutterKeeps ==
  ASSUME TInv, UNCHANGED vars
  PROVE  TInv'
  <1>1. Types' = Types /\ Begins' = Begins
    BY DEF vars, relay, pipes, fixed, Types, Begins, Passed
  <1>2. InputInv' = InputInv
    BY DEF vars, relay, pipes, fixed, InputInv, InOrder, EndFound, EndAwaited, Arrived, Passed, Within
  <1>3. OutputInv' = OutputInv
    <2>1. UNCHANGED <<state, interest, outbuf, et, parserWrite, received, fromFilter, filter, given, taken,
                      toFilter, mail, short>>
      BY DEF vars, relay, pipes, fixed
    <2>2. Output' = Output /\ Fetched' = Fetched /\ Broken' = Broken /\ Within' = Within /\ Over' = Over /\ Passed' = Passed
      BY <2>1 DEF Output, Fetched, Broken, Within, Over, Passed
    <2>3. OutOfFilter' = OutOfFilter /\ BrokenOff' = BrokenOff /\ Whole' = Whole
      BY <2>1, <2>2 DEF OutOfFilter, BrokenOff, Whole
    <2>4. WholeSends' = WholeSends
      BY <2>1, <2>2 DEF WholeSends, TakesTurns, Fetching, EndFetched, BrokeOff
    <2> QED BY <2>1, <2>2, <2>3, <2>4 DEF OutputInv
  <1> QED BY <1>1, <1>2, <1>3 DEF TInv

\* A mail as Init takes it.
LEMMA MailIs ==
  ASSUME NEW n \in Nat, NEW s, s = Lines(n) \o End
  PROVE  Mailing(s) /\ Complete(s)
  <1>1. PICK l, e : l = Lines(n) /\ e = End
    OBVIOUS
  <1>2. l \in Seq(Units) /\ Len(l) = n /\ \A i \in 1..n : l[i] = "text"
    <2>1. l \in [1..n -> Units] /\ \A i \in 1..n : l[i] = "text"
      BY <1>1 DEF Lines, Units
    <2> QED BY <2>1, SeqDef
  <1>3. e \in Seq(Units) /\ Len(e) = 2 /\ e[1] = "dot" /\ e[2] = "lf"
    BY <1>1 DEF Units, End
  <1>4. /\ s \in Seq(Units) /\ Len(s) = n + 2
        /\ \A i \in 1..(n + 2) : s[i] = IF i <= n THEN l[i] ELSE e[i - n]
    <2>1. /\ l \o e \in Seq(Units) /\ Len(l \o e) = Len(l) + Len(e)
          /\ \A i \in 1..(Len(l) + Len(e)) : (l \o e)[i] = IF i <= Len(l) THEN l[i] ELSE e[i - Len(l)]
      BY <1>2, <1>3, ConcatProperties
    <2>2. s = l \o e /\ Len(l) + Len(e) = n + 2
      BY <1>1, <1>2, <1>3
    <2> QED BY <1>2, <2>1, <2>2
  <1>5. \A i \in 1..(n + 2) : s[i] = IF i <= n THEN "text" ELSE IF i = n + 1 THEN "dot" ELSE "lf"
    <2>1. ASSUME NEW i \in 1..(n + 2)
          PROVE  s[i] = IF i <= n THEN "text" ELSE IF i = n + 1 THEN "dot" ELSE "lf"
      <3>1. CASE i <= n
        BY <1>2, <1>4, <3>1
      <3>2. CASE i = n + 1
        <4>1. i - n = 1 /\ ~(i <= n)
          BY <3>2
        <4> QED BY <1>3, <1>4, <3>2, <4>1
      <3>3. CASE i = n + 2
        <4>1. i - n = 2 /\ ~(i <= n) /\ i # n + 1
          BY <3>3
        <4> QED BY <1>3, <1>4, <3>3, <4>1
      <3>4. i <= n \/ i = n + 1 \/ i = n + 2
        OBVIOUS
      <3> QED BY <3>1, <3>2, <3>3, <3>4
    <2> QED BY <2>1
  <1>6. ASSUME NEW i \in 1..Len(s)
        PROVE  /\ s[i] = "dot" => i >= Len(s) - 1
               /\ s[i] = "lf" <=> i > 1 /\ s[i - 1] = "dot"
    <2>1. i \in 1..(n + 2) /\ (i > 1 => i - 1 \in 1..(n + 2))
      BY <1>4
    <2>2. s[i] = (IF i <= n THEN "text" ELSE IF i = n + 1 THEN "dot" ELSE "lf")
      BY <1>5, <2>1
    <2>3. i > 1 => s[i - 1] = (IF i - 1 <= n THEN "text" ELSE IF i - 1 = n + 1 THEN "dot" ELSE "lf")
      BY <1>5, <2>1
    <2> QED BY <1>4, <2>1, <2>2, <2>3
  <1>7. Complete(s)
    <2>1. Len(s) \in 1..(n + 2) /\ s[Len(s)] = "lf"
      BY <1>4, <1>5
    <2>2. s # <<>>
      BY <1>4, EmptySeq
    <2> QED BY <2>1, <2>2 DEF Complete
  <1> QED BY <1>4, <1>6, <1>7 DEF Mailing

LEMMA InitInv ==
  ASSUME Init
  PROVE  TInv
  <1>1. /\ state = "RESPONSE" /\ outbuf = EmptyBuffer /\ et = Flags
        /\ interest = [client |-> "NOOP", origin |-> "NOOP", extRead |-> "none", extWrite |-> "none"]
        /\ parserRead = "NEWLINE" /\ parserWrite = "NEWLINE"
        /\ toFilter = <<>> /\ fromFilter = <<>> /\ filter = "runs"
        /\ taken = <<>> /\ given = <<>> /\ received = <<>> /\ died = "no"
    BY DEF Init
  <1>2. <<>> \in Seq(Units) /\ Len(<<>>) = 0 /\ <<>> \o <<>> = <<>>
    BY EmptySeq, ConcatEmptySeq
  <1>3. Mailing(mail) /\ Complete(mail) /\ mail \in Seq(Units)
    <2>1. PICK n \in MailLines : mail = Lines(n) \o End
      BY DEF Init
    <2>2. n \in Nat
      BY TransformationAssumption
    <2> QED BY <2>1, <2>2, MailIs DEF Mailing
  <1>4. next \in Seq(Units)
    <2>1. Lines(1) \in [1..1 -> Units]
      BY DEF Lines, Units
    <2>2. PICK n \in Nat : n = 1
      OBVIOUS
    <2>3. Lines(1) \in [1..n -> Units]
      BY <2>1, <2>2
    <2>4. Lines(1) \in Seq(Units)
      BY <2>3, SeqDef
    <2> QED BY <1>2, <2>4 DEF Init
  <1>5. PICK all : all = mail \o next
    OBVIOUS
  <1>6. PICK n \in FirstParts : /\ n <= Len(all) /\ inbuf = Put(EmptyBuffer, SubSeq(all, 1, n))
                                /\ wire = SubSeq(all, n + 1, Len(all))
    BY <1>5 DEF Init
  <1>7. PICK x : x = SubSeq(all, 1, n)
    OBVIOUS
  <1>8. /\ x \in Seq(Units) /\ wire \in Seq(Units) /\ x \o wire = all /\ Len(x) = n
        /\ n \in Nat /\ n <= BufferSize
    <2>1. all \in Seq(Units) /\ Len(all) \in Nat
      BY <1>3, <1>4, <1>5, ConcatProperties, LenProperties
    <2>2. n \in 0..BufferSize /\ BufferSize \in Nat
      BY TransformationAssumption, UnitSeqs
    <2>3. n \in 0..Len(all) /\ n \in Nat /\ n <= BufferSize
      BY <1>6, <2>1, <2>2
    <2> QED BY <1>6, <1>7, <2>1, <2>3, Splits
  <1>9. inbuf \in Buffers(Units) /\ InBounds(inbuf) /\ inbuf.data = x /\ Len(inbuf.data) \in Nat
    <2>1. EmptyBuffer \in Buffers(Units) /\ Room(EmptyBuffer) = BufferSize /\ EmptyBuffer.data = <<>>
      BY UnitSeqs DEF EmptyBuffer
    <2>2. inbuf \in Buffers(Units) /\ InBounds(inbuf) /\ inbuf.data = <<>> \o x
      BY <1>6, <1>7, <1>8, <2>1, PutIs
    <2>3. <<>> \o x = x
      BY <1>8, ConcatEmptySeq
    <2> QED BY <1>8, <2>2, <2>3
  <1>10. Types
    <2>1. outbuf \in Buffers(Units) /\ InBounds(outbuf) /\ Len(outbuf.data) = 0
      BY <1>1, UnitSeqs
    <2>2. et \in FlagsType /\ et.sendRead = 0 /\ et.sendWrite = 0
      BY <1>1 DEF Flags, FlagsType
    <2>3. interest \in Interest
      BY <1>1 DEF Interest, Interests
    <2>4. "NEWLINE" \in ParserStates
      BY DEF ParserStates
    <2> QED BY <1>1, <1>2, <1>8, <1>9, <2>1, <2>2, <2>3, <2>4 DEF Types, Interest
  <1>11. Passed = 0
    BY <1>1, <1>2 DEF Passed
  <1>12. Begins
    BY <1>1, <1>11 DEF Begins
  <1>13. ~Within /\ ~Over
    BY <1>1 DEF Within, Over
  <1>14. InOrder
    <2>1. ((taken \o toFilter) \o inbuf.data) \o wire = mail \o next
      <3>1. taken \o toFilter = <<>>
        BY <1>1, <1>2
      <3>2. <<>> \o x = x
        BY <1>8, ConcatEmptySeq
      <3> QED BY <1>5, <1>8, <1>9, <3>1, <3>2
    <2>2. Len(mail) \in Nat
      BY <1>3, LenProperties
    <2> QED BY <1>3, <1>4, <1>11, <2>1, <2>2 DEF InOrder
  <1>15. OutOfFilter
    <2>1. Mailing(given)
      BY <1>1, <1>2 DEF Mailing
    <2>2. ~et.writeError /\ outbuf.data = <<>>
      BY <1>1 DEF Flags, EmptyBuffer
    <2>3. (received \o outbuf.data) \o fromFilter = Output
      BY <1>1, <1>2, <2>2 DEF Output
    <2> QED BY <2>1, <2>2, <2>3 DEF OutOfFilter
  <1> QED BY <1>10, <1>12, <1>13, <1>14, <1>15 DEF TInv, InputInv, OutputInv

LEMMA AlwaysTInv == Spec => []TInv
  <1>1. Init => TInv
    BY InitInv
  <1>2. TInv /\ [Next]_vars => TInv'
    BY StepKeeps, StutterKeeps
  <1> QED BY <1>1, <1>2, PTL DEF Spec

\* The buffers stay in their bounds, and neither end of the mail that was found
\* lies outside the buffer it was found in.
THEOREM TransformationTyped == Spec => []TypeOK
  <1>1. ASSUME TInv PROVE TypeOK
    <2>1. Types
      BY <1>1 DEF TInv
    <2>2. \A f \in DOMAIN interest : interest[f] \in {"none", "off", "NOOP", "READ", "WRITE"}
      BY <2>1 DEF Types, Interests
    <2>3. /\ et.sendRead \in 0..Len(inbuf.data) /\ et.sendWrite \in 0..Len(outbuf.data)
      BY <2>1 DEF Types, FlagsType
    <2> QED BY <2>1, <2>2, <2>3 DEF Types, TypeOK
  <1> QED BY <1>1, AlwaysTInv, PTL

LEMMA PrefixIs ==
  ASSUME NEW s \in Seq(Units), NEW t \in Seq(Units)
  PROVE  IsPrefix(s, t) <=> Len(s) <= Len(t) /\ \A i \in 1..Len(s) : s[i] = t[i]
  <1>1. Len(s) \in Nat /\ Len(t) \in Nat /\ SubSeq(s, 1, Len(s)) = s
    BY LenProperties, SubSeqFull
  <1>2. CASE Len(s) <= Len(t)
    <2>1. PICK w : w = SubSeq(t, 1, Len(s))
      OBVIOUS
    <2>2. w \in Seq(Units) /\ Len(w) = Len(s) /\ \A i \in 1..Len(s) : w[i] = t[i]
      <3>1. 0 \in Nat /\ Len(s) \in 0..Len(t) /\ 0 + 1 = 1 /\ Len(s) - 0 = Len(s) /\ \A i \in 1..Len(s) : 0 + i = i
        BY <1>1, <1>2
      <3>2. /\ SubSeq(t, 0 + 1, Len(s)) \in Seq(Units) /\ Len(SubSeq(t, 0 + 1, Len(s))) = Len(s) - 0
            /\ \A i \in 1..(Len(s) - 0) : SubSeq(t, 0 + 1, Len(s))[i] = t[0 + i]
        BY ONLY t \in Seq(Units), <3>1, Window
      <3> QED BY <2>1, <3>1, <3>2
    <2>3. s = w <=> \A i \in 1..Len(s) : s[i] = t[i]
      BY <2>2, SeqEqual
    <2> QED BY <1>1, <1>2, <2>1, <2>3 DEF IsPrefix
  <1>3. CASE ~(Len(s) <= Len(t))
    BY <1>3 DEF IsPrefix
  <1> QED BY <1>2, <1>3

\* What comes behind equal beginnings.
LEMMA Cancelled ==
  ASSUME NEW a \in Seq(Units), NEW b \in Seq(Units), NEW x \in Seq(Units), NEW y \in Seq(Units),
         Len(a) = Len(b), a \o x = b \o y
  PROVE  x = y
  <1>1. /\ Len(a \o x) = Len(a) + Len(x)
        /\ \A i \in 1..(Len(a) + Len(x)) : (a \o x)[i] = IF i <= Len(a) THEN a[i] ELSE x[i - Len(a)]
    BY ConcatProperties
  <1>2. /\ Len(b \o y) = Len(b) + Len(y)
        /\ \A i \in 1..(Len(b) + Len(y)) : (b \o y)[i] = IF i <= Len(b) THEN b[i] ELSE y[i - Len(b)]
    BY ConcatProperties
  <1>3. Len(a) \in Nat /\ Len(x) \in Nat /\ Len(y) \in Nat
    BY LenProperties
  <1>4. Len(x) = Len(y)
    BY <1>1, <1>2, <1>3
  <1>5. ASSUME NEW k \in 1..Len(x) PROVE x[k] = y[k]
    <2>1. PICK i : i = Len(a) + k
      OBVIOUS
    <2>2. /\ i \in 1..(Len(a) + Len(x)) /\ i \in 1..(Len(b) + Len(y)) /\ ~(i <= Len(a)) /\ i - Len(a) = k
      BY <1>3, <1>4, <2>1
    <2> QED BY <1>1, <1>2, <2>2
  <1> QED BY <1>4, <1>5, SeqEqual

\* The filter is given the mail, every unit once and in order, and nothing of
\* what the origin sent behind it, however the mail is cut on its way: the scan
\* of parse_mail stops exactly where the mail ends.
THEOREM FilterIsGivenTheMail == Spec => []FilterGetsTheMail
  <1>1. ASSUME TInv PROVE FilterGetsTheMail
    <2>1. /\ Types /\ InputInv /\ InOrder
      BY <1>1 DEF TInv, InputInv
    <2>2. PICK P, i : P = taken \o toFilter /\ i = inbuf.data
      OBVIOUS
    <2>3. /\ P \in Seq(Units) /\ i \in Seq(Units) /\ wire \in Seq(Units) /\ Len(P) = Passed
          /\ mail \in Seq(Units) /\ next \in Seq(Units) /\ Len(P) <= Len(mail) /\ Len(mail) \in Nat
      BY <2>1, <2>2, InputSeqs
    <2>4. (P \o i) \o wire = mail \o next
      BY <2>1, <2>2 DEF InOrder
    <2>5. \A k \in 1..Len(P) : P[k] = mail[k]
      <3>1. <<>> \in Seq(Units) /\ Len(<<>>) = 0
        BY EmptySeq
      <3>2. PICK x : x = i \o wire
        OBVIOUS
      <3>3. x \in Seq(Units)
        BY <2>3, <3>2, ConcatProperties
      <3>4. (<<>> \o P) \o x = mail \o next
        <4>1. Regroups(P, i, wire, wire) /\ <<>> \o P = P
          BY <2>3, Regrouped, ConcatEmptySeq
        <4>2. (P \o i) \o wire = P \o (i \o wire)
          BY ONLY <4>1 DEF Regroups
        <4> QED BY <2>4, <3>2, <4>1, <4>2
      <3>5. \A k \in 1..Len(P) : Len(<<>>) + k <= Len(mail) => P[k] = mail[Len(<<>>) + k]
        BY ONLY <2>3, <3>1, <3>3, <3>4, Middle, SMTT(60)
      <3>6. Len(P) \in Nat
        BY <2>3, LenProperties
      <3> QED BY <2>3, <3>1, <3>5, <3>6
    <2>6. IsPrefix(taken \o toFilter, mail)
      BY <2>2, <2>3, <2>5, PrefixIs
    <2> QED BY <2>1, <2>6 DEF FilterGetsTheMail, InOrder
  <1> QED BY <1>1, AlwaysTInv, PTL

\* The filter that has read the end of the mail has been given all of it.
LEMMA InputIsWhole ==
  ASSUME TInv, HasInput
  PROVE  Passed = Len(mail) /\ inbuf.data \o wire = next
  <1>1. Types /\ InputInv /\ InOrder
    BY DEF TInv, InputInv
  <1>2. PICK a, b, i : a = taken /\ b = toFilter /\ i = inbuf.data
    OBVIOUS
  <1>3. /\ a \in Seq(Units) /\ b \in Seq(Units) /\ i \in Seq(Units) /\ wire \in Seq(Units)
        /\ mail \in Seq(Units) /\ next \in Seq(Units) /\ Len(mail) \in Nat /\ Mailing(mail)
        /\ a \o b \in Seq(Units) /\ Len(a \o b) = Passed /\ Passed <= Len(mail)
    BY <1>1, <1>2, InputSeqs
  <1>4. Len(a) \in Nat /\ Len(b) \in Nat /\ Passed = Len(a) + Len(b)
    BY <1>2, <1>3, LenProperties DEF Passed
  <1>5. ((a \o b) \o i) \o wire = mail \o next
    BY <1>1, <1>2 DEF InOrder
  <1>6. i \o wire \in Seq(Units) /\ (a \o b) \o (i \o wire) = mail \o next
    <2>1. Regroups(a \o b, i, wire, wire)
      BY <1>3, Regrouped
    <2>2. ((a \o b) \o i) \o wire = (a \o b) \o (i \o wire)
      BY ONLY <2>1 DEF Regroups
    <2> QED BY <1>3, <1>5, <2>2, ConcatProperties
  <1>7. Len(a) = Len(mail)
    <2>1. Len(a) >= 2 /\ a[Len(a)] = "lf" /\ Len(a) \in 1..Len(a)
      <3>1. Len(a) >= 2 /\ a[Len(a)] = "lf"
        BY <1>2, <1>3, SuffixIs DEF HasInput
      <3> QED BY <1>4, <3>1
    <2>2. PICK x : x = i \o wire
      OBVIOUS
    <2>3. <<>> \in Seq(Units) /\ Len(<<>>) = 0
      BY EmptySeq
    <2>4. (<<>> \o a) \o (b \o x) = mail \o next
      <3>1. x \in Seq(Units)
        BY <1>6, <2>2
      <3>2. Regroups(a, b, x, x) /\ <<>> \o a = a
        BY <1>3, <3>1, Regrouped, ConcatEmptySeq
      <3>3. (a \o b) \o x = a \o (b \o x)
        BY ONLY <3>2 DEF Regroups
      <3> QED BY <1>6, <2>2, <3>2, <3>3
    <2>5. b \o x \in Seq(Units)
      BY <1>3, <1>6, <2>2, ConcatProperties
    <2>6. \A k \in 1..Len(a) : Len(<<>>) + k <= Len(mail) => a[k] = mail[Len(<<>>) + k]
      BY ONLY <1>3, <2>3, <2>4, <2>5, Middle
    <2>7. mail[Len(a)] = "lf" /\ Len(a) \in 0..Len(mail)
      <3>1. Len(a) <= Len(mail) /\ 0 + Len(a) = Len(a)
        BY <1>3, <1>4
      <3> QED BY <1>3, <1>4, <2>1, <2>3, <2>6, <3>1
    <2>8. Behind(mail, Len(a)) = "FIN"
      BY <1>4, <2>1, <2>7 DEF Behind
    <2> QED BY <1>3, <2>7, <2>8, BehindIs
  <1>8. Passed = Len(mail)
    BY <1>3, <1>4, <1>7
  <1>9. i \o wire = next
    <2>1. PICK p, x : p = a \o b /\ x = i \o wire
      OBVIOUS
    <2>2. p \in Seq(Units) /\ x \in Seq(Units) /\ Len(p) = Len(mail) /\ p \o x = mail \o next
          /\ mail \in Seq(Units) /\ next \in Seq(Units)
      BY <1>3, <1>6, <1>8, <2>1
    <2>3. x = next
      BY ONLY <2>2, Cancelled
    <2> QED BY <2>1, <2>3
  <1> QED BY <1>2, <1>8, <1>9

\* When the connection goes on behind a mail that the filter has read, the
\* client has been sent all the filter gave, and the end of the reply; and what
\* it is sent never parts from what the filter gave.
THEOREM RepliesAreWhole == Spec => []ReplyIsWhole
  <1>1. ASSUME TInv PROVE ReplyIsWhole
    <2>1. Types /\ OutputInv
      BY <1>1 DEF TInv
    <2>2. PICK r, b, f, g : r = received /\ b = outbuf.data /\ f = fromFilter /\ g = given
      OBVIOUS
    <2>3. /\ r \in Seq(Units) /\ b \in Seq(Units) /\ f \in Seq(Units) /\ g \in Seq(Units) /\ Mailing(g)
          /\ Len(r) \in Nat /\ Len(g) \in Nat /\ (r \o b) \o f = Output /\ <<>> \in Seq(Units)
      BY <2>1, <2>2, OutputSeqs
    <2>4. ASSUME Over, HasInput, ~short
          PROVE  /\ received = given \o (IF IsSuffix(End, given) THEN <<>> ELSE Terminator)
                 /\ outbuf = EmptyBuffer
                 /\ inbuf.data \o wire = next
      <3>1. Whole /\ inbuf.data \o wire = next
        BY <1>1, <2>1, <2>4, InputIsWhole DEF OutputInv
      <3>2. b = <<>> /\ f = <<>>
        BY <2>2, <3>1 DEF Whole, EmptyBuffer
      <3>3. r = Output
        BY <2>3, <3>2, ConcatEmptySeq
      <3>4. et.writeError <=> ~IsSuffix(End, g)
        BY <2>2, <2>3, <3>1, CompleteIs DEF Whole
      <3>5. g \o <<>> = g
        BY <2>3, ConcatEmptySeq
      <3>6. Output = g \o (IF IsSuffix(End, g) THEN <<>> ELSE Terminator)
        BY <2>2, <3>4, <3>5 DEF Output
      <3> QED BY <2>2, <3>1, <3>3, <3>6 DEF Whole
    <2>5. IsPrefix(r, g) \/ IsPrefix(g, r)
      <3>1. PICK t : t = (IF et.writeError THEN Terminator ELSE <<>>)
        OBVIOUS
      <3>2. t \in Seq(Units) /\ Output = g \o t
        <4>1. g \o <<>> = g
          BY <2>3, ConcatEmptySeq
        <4> QED BY <2>2, <2>3, <3>1, <4>1, UnitSeqs DEF Output
      <3>3. PICK y : y = b \o f
        OBVIOUS
      <3>4. y \in Seq(Units) /\ r \o y = g \o t
        <4>1. Regroups(r, b, f, f)
          BY <2>3, Regrouped
        <4>2. (r \o b) \o f = r \o (b \o f)
          BY ONLY <4>1 DEF Regroups
        <4> QED BY <2>3, <3>2, <3>3, <4>2, ConcatProperties
      <3>5. \A i \in 1..(Len(r) + Len(y)) : (r \o y)[i] = IF i <= Len(r) THEN r[i] ELSE y[i - Len(r)]
        BY <2>3, <3>4, ConcatProperties
      <3>6. \A i \in 1..(Len(g) + Len(t)) : (g \o t)[i] = IF i <= Len(g) THEN g[i] ELSE t[i - Len(g)]
        BY <2>3, <3>2, ConcatProperties
      <3>7. Len(y) \in Nat /\ Len(t) \in Nat
        BY <3>2, <3>4, LenProperties
      <3>8. \A i \in Nat : i >= 1 /\ i <= Len(r) /\ i <= Len(g) => r[i] = g[i]
        BY <2>3, <3>4, <3>5, <3>6, <3>7
      <3>9. CASE Len(r) <= Len(g)
        <4>1. \A i \in 1..Len(r) : r[i] = g[i]
          BY <2>3, <3>8, <3>9
        <4> QED BY <2>3, <3>9, <4>1, PrefixIs
      <3>10. CASE Len(g) <= Len(r)
        <4>1. \A i \in 1..Len(g) : g[i] = r[i]
          <5>1. ASSUME NEW i \in 1..Len(g) PROVE g[i] = r[i]
            <6>1. i \in Nat /\ i >= 1 /\ i <= Len(g) /\ i <= Len(r)
              BY <2>3, <3>10
            <6> QED BY <3>8, <6>1
          <5> QED BY <5>1
        <4> QED BY <2>3, <3>10, <4>1, PrefixIs
      <3> QED BY <2>3, <3>9, <3>10
    <2> QED BY <2>2, <2>4, <2>5 DEF ReplyIsWhole
  <1> QED BY <1>1, AlwaysTInv, PTL
=============================================================================
