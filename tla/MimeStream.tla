------------------------------ MODULE MimeStream ------------------------------
(***************************************************************************)
(* The filter and its input, octet by octet: one of the mails of MimeMails *)
(* or, to see the automaton of pop3_multi.c through every state, any short *)
(* stream.  The automaton keeps the variables it has in Pop3MultiStream.   *)
(***************************************************************************)
EXTENDS Pop3MultiStream, MimeMails

CONSTANT AnyLength  \* bound: octets in a stream that is no mail

VARIABLES
  mail,   \* the mail being fed, or AnyStream
  filter  \* ctx

mimeVars == <<input, current, output, mail, filter>>

AnyStream == [medias |-> <<Png>>, octets |-> <<>>, shown |-> <<>>,
              fatal |-> FALSE, sound |-> 0]

MimeInit == /\ Init
            /\ mail \in Mails \cup {AnyStream}
            /\ filter = InitCtx(mail.medias)

\* main reads an octet.
Read(c) == /\ c \in Octets /\ ~filter.stopped
           /\ Feed(c)
           /\ filter' = Pop3MultiOctet(filter, current, c)
           /\ UNCHANGED mail

ReadMail == /\ Len(input) < Len(mail.octets)
            /\ Read(mail.octets[Len(input) + 1].c)

ReadAny == /\ mail = AnyStream /\ Len(input) < AnyLength
           /\ \E c \in {"x", ".", "CR", "LF"} : Read(c)

MimeNext == ReadMail \/ ReadAny

MimeSpec == MimeInit /\ [][MimeNext]_mimeVars

-----------------------------------------------------------------------------
Flag == {T, F, Null}

\* Types: the automaton's and those of struct ctx (mime_filter.h), with the bounds
\* of its indices and counters.
MimeTypeOK ==
  /\ TypeOK
  /\ filter.msg \in MsgStates /\ filter.mimeType \in TypeStates
  /\ filter.boundary \in 0..(Len(Boundary) + 1)
  /\ filter.subtype \in 0..Len(filter.list)
  /\ \A f \in Fields : /\ filter.fields[f].st \in 0..(Len(FieldName[f]) + 1)
                       /\ filter.fields[f].detected \in Flag
  /\ {filter.toBeCensored, filter.boundaryDetected, filter.delimiterDetected,
      filter.delimiterEndDetected} \subseteq Flag
  /\ \A i \in 1..Len(filter.stack) :
       LET d == filter.stack[i] IN d.st <= Len(d.literal) + 1 /\ d.endSt <= Len(d.literal) + 2
  /\ Len(filter.buffer) < MaxValue
  /\ filter.replaced => filter.replace

\* The filter dies of no mail but those known to be fatal, and of each of these
\* before its end: no forbidden type at all, Content-Type as the first header, a
\* boundary without quotes, a multipart without parts and text behind it, a value
\* without end.
DiesOnlyOf ==
  /\ filter.stopped => mail.fatal
  /\ mail.fatal /\ Len(input) = Len(mail.octets) => filter.stopped

\* A mail the filter is to survive, of which no line behind the end of an inner
\* multipart has been read (see OpenDelimitersStay for those).
InOrder == ~mail.fatal /\ mail # AnyStream /\ Len(input) <= mail.sound

\* Whatever has been written so far is the beginning of what the mail should
\* become: no word of a forbidden part, nothing lost of another, the replacement
\* once for each (proxy_pop3.8: the text that takes the place of the part).
WritesTheMail == InOrder => IsPrefix(Words(filter.out), mail.shown)

\* Behind its last octet nothing of the mail is missing.
WritesItWhole ==
  InOrder /\ Len(input) = Len(mail.octets) => Words(filter.out) = mail.shown

AtLineOfBody == input # <<>> /\ Last(input) = "LF" /\ filter.msg = "BODY"
Stacked == [i \in 1..Len(filter.stack) |-> filter.stack[i].delimiter]

\* Between the lines of a body the stack holds the delimiters that may still
\* come, innermost last (mime_filter.h: "stack de delimitadores para anidaciones
\* de boundaries"), up to the line that ends an inner multipart.
StackFollowsNesting == InOrder /\ AtLineOfBody => Stacked = mail.octets[Len(input)].open

\* The same behind that line: a line of text or a blank one leaves the delimiters
\* of the outer multipart on the stack, since its parts go on.
OpenDelimitersStay ==
  ~mail.fatal /\ mail # AnyStream /\ AtLineOfBody
    => Stacked = mail.octets[Len(input)].open

\* Nothing of a forbidden picture is written, wherever in the mail it is.
PicturesAreKept == "img" \in ToSet(filter.out) => "img" \in ToSet(mail.shown)
=============================================================================
