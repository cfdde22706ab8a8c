--------------------------- MODULE Pop3MultiStream ---------------------------
(***************************************************************************)
(* The automaton of Pop3Multi fed with any stream, octet by octet, and     *)
(* what it should find there, by definitions on the stream as a whole.     *)
(***************************************************************************)
EXTENDS Pop3Multi, FiniteSets

CONSTANTS
  Octets,     \* the octets of the streams
  MaxLength   \* bound: octets in the stream
ASSUME OctetsAssumption == {".", "CR", "LF"} \subseteq Octets
ASSUME MaxLengthAssumption == MaxLength \in Nat

VARIABLES
  input,    \* the stream so far
  current,  \* parser->state
  output    \* the octets of its BYTE events

vars == <<input, current, output>>

\* parser_init, parser_reset
Init == input = <<>> /\ current = "NEWLINE" /\ output = <<>>

Feed(c) ==
  /\ Len(input) < MaxLength
  /\ input' = Append(input, c)
  /\ current' = ParserFeed(current, c).dest
  /\ output' = output \o ParserFeed(current, c).out

Next == \E c \in Octets : Feed(c)

Spec == Init /\ [][Next]_vars

-----------------------------------------------------------------------------
LineStart(s, i) == i = 1 \/ (i > 2 /\ s[i - 2] = "CR" /\ s[i - 1] = "LF")

\* A line of a single dot begins at i.
DotLine(s, i) == /\ i >= 1 /\ i + 2 <= Len(s) /\ LineStart(s, i)
                 /\ s[i] = "." /\ s[i + 1] = "CR" /\ s[i + 2] = "LF"

\* Made of lines: CR and LF come together only (the last CR may wait).
OfLines(s) == \A i \in 1..Len(s) :
                /\ s[i] = "LF" => i > 1 /\ s[i - 1] = "CR"
                /\ s[i] = "CR" => i = Len(s) \/ s[i + 1] = "LF"

\* No reply ends before the last three octets.
Single(s) == \A i \in 1..Len(s) : DotLine(s, i) => i + 2 = Len(s)

NoEnd(s) == \A i \in 1..Len(s) : ~DotLine(s, i)

\* s without the dots that begin its lines.
Kept(s) == {i \in 1..Len(s) : ~(LineStart(s, i) /\ s[i] = ".")}
IsUnstuffed(t, s) ==
  LET at(i) == Cardinality({j \in Kept(s) : j <= i})
  IN  Len(t) = Cardinality(Kept(s)) /\ \A i \in Kept(s) : t[at(i)] = s[i]

\* Types; and no octet comes out that has not come in.
TypeOK == /\ input \in Seq(Octets) /\ output \in Seq(Octets)
          /\ current \in ParserStates
          /\ Len(output) <= Len(input)

\* The end of a reply is told only where a line of a single dot ends, whatever
\* the stream (pop3_multi.h: "detectar el final").
EndIsReal == current = "FIN" => DotLine(input, Len(input) - 2)

\* In a stream made of lines the end is told there, and only once it is whole.
\* (A CR that is no line's end may hide it: CR CR LF . CR LF.)
EndIsFound == (OfLines(input) /\ Single(input) /\ DotLine(input, Len(input) - 2))
                => current = "FIN"

\* What comes out of such a stream between two octets that must be waited for
\* is the stream without its stuffing (pop3_multi.h: "byte-stuffing").
Unstuffs == (OfLines(input) /\ NoEnd(input) /\ current \in {"NEWLINE", "BYTE"})
              => IsUnstuffed(output, input)
=============================================================================
