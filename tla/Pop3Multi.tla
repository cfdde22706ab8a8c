------------------------------ MODULE Pop3Multi ------------------------------
(***************************************************************************)
(* pop3_multi.c under parser.c: the automaton that finds the end of a      *)
(* multi-line reply and undoes its byte-stuffing.  Of the octets the table *)
(* tells only ".", "CR" and "LF" from the others.                          *)
(***************************************************************************)
EXTENDS Naturals, Sequences

ParserStates == {"NEWLINE", "BYTE", "CR", "DOT", "DOT_CR", "FIN"}

\* A transition: its destination and the octets its events carry.
To(dest, out) == [dest |-> dest, out |-> out]

\* ST_NEWLINE
Newline(c) == CASE c = "."  -> To("DOT", <<>>)
                [] c = "CR" -> To("CR", <<>>)
                [] OTHER    -> To("BYTE", <<c>>)
\* ST_BYTE
Byte(c) == IF c = "CR" THEN To("CR", <<>>) ELSE To("BYTE", <<c>>)
\* ST_CR
CrTakesAny(c) == To("NEWLINE", <<"CR", c>>)      \* mutant: CR alone ends a line
Cr(c) == To(IF c = "LF" THEN "NEWLINE" ELSE "BYTE", <<"CR", c>>)
\* ST_DOT: the first dot of a line is dropped.
DotKept(c) == IF c = "CR" THEN To("DOT_CR", <<>>) ELSE To("BYTE", <<".", c>>) \* mutant
Dot(c) == IF c = "CR" THEN To("DOT_CR", <<>>) ELSE To("BYTE", <<c>>)
\* ST_DOT_CR
DotCrGoesOn(c) == To("NEWLINE", <<"CR", c>>)     \* mutant: the end not told
DotCr(c) == IF c = "LF" THEN To("FIN", <<>>) ELSE To("BYTE", <<"CR", c>>)
\* ST_FIN
Fin(c) == To("BYTE", <<"CR", c>>)

\* parser_feed
ParserFeed(s, c) == CASE s = "NEWLINE" -> Newline(c)
                      [] s = "BYTE"    -> Byte(c)
                      [] s = "CR"      -> Cr(c)
                      [] s = "DOT"     -> Dot(c)
                      [] s = "DOT_CR"  -> DotCr(c)
                      [] OTHER         -> Fin(c)
=============================================================================
