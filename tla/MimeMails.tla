------------------------------ MODULE MimeMails ------------------------------
(***************************************************************************)
(* Mails, and what a filter that keeps its promise makes of each: the      *)
(* words it writes (line ends left out: docs/Informe.pdf, 4, has every CR  *)
(* of an unchanged mail missing), behind each octet the delimiters it      *)
(* should be looking for, and whether this filter is known to die of it.   *)
(*                                                                         *)
(* Bounds of the mails: no header's value ends in a blank or has "message" *)
(* in it but for message/rfc822; a boundary is the first parameter; no     *)
(* line is only the beginning of a delimiter, and no name of another; no   *)
(* line of a censored part begins with dashes; no text follows a censored  *)
(* last part.  Of every shape but "nested": a multipart is inside another  *)
(* only in a message/rfc822 whose headers do not begin with Content-Type,  *)
(* and of every shape but "trailed": its end is the end of that part.      *)
(***************************************************************************)
EXTENDS MimeFilter

CONSTANT Shapes  \* which mails: "single", "flat", "message", "trailed", "fatal", "nested"

\* bound: the octets of the mails
Lexemes == {"CR", "LF", ".", ":", ";", "/", "=", Blank, Quote, Dashes,
            "Subject", "Content-", "Type", "Transfer-Encoding", "Disposition",
            "image", "png", "gif", "text", "html", "plain", "multipart", "mixed",
            "message", "rfc822", "boundary", "charset", "A", "B",
            "base64", "7bit", "file", "inline", "txt", "img", "x", Replacement}

\* bound: the values of FILTER_MEDIAS
Png == <<"image", "png">>
Medias == {<<Png>>, << <<"image", "tiff">>, <<"image", "*">> >>,
           << <<"text", "html">>, <<"image", "gif">>, Png >>,
           << <<"text", "html">>, <<"text", "png">> >>}
Forbidden(medias, type) ==
  \E i \in 1..Len(medias) : medias[i][1] = type[1] /\ medias[i][2] \in {type[2], "*"}

-----------------------------------------------------------------------------
(* A document: octets, each with the delimiters open behind its line and  *)
(* whether that line is behind the end of an inner multipart, and the      *)
(* words that should come out.                                             *)

Words(octets) == SelectSeq(octets, LAMBDA c : c \notin {"CR", "LF"})
Stuffed(text) == IF text # <<>> /\ text[1] = "." THEN <<".">> \o text ELSE text
Fed(text, open) ==
  LET octets == Stuffed(text) \o <<"CR", "LF">>
  IN  [i \in 1..Len(octets) |-> [c |-> octets[i], open |-> open, behind |-> FALSE]]
Doc(texts, open, shown) ==
  [fed |-> FlattenSeq([i \in 1..Len(texts) |-> Fed(texts[i], open)]), shown |-> shown]
Plain(texts, open) == Doc(texts, open, Words(FlattenSeq(texts)))
Joined(docs) == [fed   |-> FlattenSeq([i \in 1..Len(docs) |-> docs[i].fed]),
                 shown |-> FlattenSeq([i \in 1..Len(docs) |-> docs[i].shown])]
BehindEnd(doc) == [doc EXCEPT !.fed = [i \in 1..Len(@) |-> [@[i] EXCEPT !.behind = TRUE]]]

Field(name, value) == name \o <<":", Blank>> \o value
Subject == Field(<<"Subject">>, <<"txt">>)
Encoding(value) == Field(FieldName.transfer, <<value>>)
Disposition(value) == Field(FieldName.disposition, <<value>>)
Harmless(f) == CASE f = Encoding("base64")  -> Encoding("7bit")
                 [] f = Disposition("file") -> Disposition("inline")
                 [] OTHER                   -> f

\* A part p, with the document that is its body.  When its type is forbidden
\* only what follows the type among its headers is made harmless.
Part(p, body, medias, open) ==
  LET gone  == Forbidden(medias, p.type)
      value == <<p.type[1], "/", p.type[2]>> \o p.params
      after == [i \in 1..Len(p.after) |-> IF gone THEN Harmless(p.after[i]) ELSE p.after[i]]
      texts == p.before \o <<Field(FieldName.type, value)>> \o p.after \o << <<>> >>
      shown == IF gone THEN FieldName.type \o <<":", "text", "/", "plain">>
               ELSE Field(FieldName.type, value)
  IN  [fed   |-> Doc(texts, open, <<>>).fed \o body.fed,
       shown |-> Words(FlattenSeq(p.before \o <<shown>> \o after))
                 \o (IF gone THEN <<Replacement>> ELSE body.shown)]
Leaf(p, medias, open) == Part(p, Plain(p.body, open), medias, open)

\* A multipart of boundary b inside the delimiters "outer", with text before
\* its parts and behind them.
Multipart(b, before, parts, behind, outer) ==
  LET inner == Append(outer, <<Dashes, b>>)
      type  == Field(FieldName.type, <<"multipart", "/", "mixed", ";", Blank,
                                       "boundary", "=", Quote, b, Quote>>)
      each  == [i \in 1..Len(parts) |-> Joined(<<Plain(<< <<Dashes, b>> >>, inner), parts[i]>>)]
  IN  Joined(<<Plain(<<type>>, outer), Plain(<< <<>> >> \o before, inner)>> \o each
             \o <<Plain(<< <<Dashes, b, Dashes>> >>, outer),
                  IF outer = <<>> THEN Plain(behind, outer) ELSE BehindEnd(Plain(behind, outer))>>)

-----------------------------------------------------------------------------
(* bound: the parts *)

PartOf(type, params, before, after, body) ==
  [type |-> type, params |-> params, before |-> before, after |-> after, body |-> body]
Charset == <<";", Blank, "charset", "=", Quote, "txt", Quote>>
Folded  == <<";", "CR", "LF", Blank, "charset", "=", "txt">>

Picture == PartOf(Png, <<>>, <<>>, <<Encoding("base64"), Disposition("file")>>,
                  << <<"img">>, <<>>, <<".", "img">> >>)
Drawing == PartOf(<<"image", "gif">>, Charset, <<Encoding("base64")>>, <<Subject>>,
                  << <<"img">> >>)
Text == PartOf(<<"text", "plain">>, Charset, <<>>, <<Encoding("base64")>>,
               << <<"txt">>, <<>>, <<Dashes, "txt">>, <<Dashes, "A", "txt">>, <<".", "txt">> >>)
Odd  == PartOf(<<"text", "png">>, Folded, <<Disposition("file")>>, <<>>, << <<".">> >>)
Bare == PartOf(Png, <<>>, <<>>, <<>>, <<>>)
Parts == {Picture, Drawing, Text, Odd, Bare}
Forwarded == PartOf(<<"message", "rfc822">>, <<>>, <<>>, <<Disposition("file")>>, <<>>)

A == << <<Dashes, "A">> >>
Flat(before, ps, behind, medias) ==
  Multipart("A", before, [i \in 1..Len(ps) |-> Leaf(ps[i], medias, A)], behind, <<>>)

\* Parts p and q, and between them a mail of two parts r and s.
Forward(p, r, s, behind, q, medias) ==
  LET open == Append(A, <<Dashes, "B">>)
      mail == Joined(<<Plain(<<Subject, Subject>>, A),
                       Multipart("B", <<>>, <<Leaf(r, medias, open), Leaf(s, medias, open)>>,
                                 behind, A)>>)
  IN  Multipart("A", <<>>, <<Leaf(p, medias, A), Part(Forwarded, mail, medias, A),
                             Leaf(q, medias, A)>>, <<>>, <<>>)

\* A multipart of p in a multipart.
InMultipart(p, medias) ==
  Multipart("A", <<>>, <<Multipart("B", <<>>, <<Leaf(p, medias, Append(A, <<Dashes, "B">>))>>,
                                   <<>>, A)>>, <<>>, <<>>)

Unquoted == <<Field(FieldName.type, <<"multipart", "/", "mixed", ";", Blank, "boundary", "=", "A">>),
              <<>>, <<"txt">> >>
Long == <<Field(<<"Subject">>, [i \in 1..MaxValue |-> "txt"]), <<>> >>

\* The mails of a shape, without the line they all begin with.
Docs(shape, medias) ==
  CASE shape = "single"  -> {Leaf(p, medias, <<>>) : p \in Parts \ {Bare}}
    [] shape = "flat"    ->
         {Flat(<<>>, ps, <<>>, medias) : ps \in UNION {[1..n -> Parts] : n \in 1..2}}
         \cup {Flat(<< <<"txt">>, <<>> >>, <<p, q>>, << <<>>, <<"txt">> >>, medias) :
                 p \in Parts, q \in {r \in {Text, Odd} : ~Forbidden(medias, r.type)}}
    [] shape = "message" ->
         {Forward(p, r, s, <<>>, q, medias) : p \in {Text, Bare}, r \in {Picture, Text},
                                              s \in {Drawing, Odd}, q \in {Picture, Text}}
    [] shape = "trailed" ->
         {Forward(p, r, s, behind, Picture, medias) :
            p \in {Text, Bare}, r \in {Picture, Text}, s \in {Drawing, Odd},
            behind \in {<< <<>> >>, << <<"txt">> >>}}
    [] shape = "nested"  ->
         {InMultipart(p, medias) : p \in {Picture, Drawing}}
    [] OTHER             ->
         {Plain(Unquoted, <<>>), Plain(Long, <<>>), Flat(<<>>, <<>>, << <<"txt">> >>, medias)}

End == [i \in 1..3 |-> [c |-> <<".", "CR", "LF">>[i], open |-> <<>>, behind |-> FALSE]]

\* "sound" of its octets come before any line behind an inner end.
Mail(medias, doc, fatal) ==
  LET octets == doc.fed \o End IN
  [medias |-> medias, octets |-> octets, shown |-> doc.shown, fatal |-> fatal,
   sound  |-> Cardinality({n \in 1..Len(octets) : \A i \in 1..n : ~octets[i].behind})]

\* Those of the shapes chosen.  Fatal as well: a mail that begins with its
\* Content-Type, and any mail with a Content-Type when no type is forbidden.
Mails ==
  LET first(doc) == Joined(<<Plain(<<Subject>>, <<>>), doc>>)
  IN  (UNION {{Mail(m, first(d), s = "fatal") : d \in Docs(s, m)} : s \in Shapes, m \in Medias})
      \cup IF "fatal" \notin Shapes THEN {} ELSE
             {Mail(m, Leaf(Picture, m, <<>>), TRUE) : m \in Medias}
             \cup {Mail(<<>>, first(Leaf(p, <<>>, <<>>)), TRUE) : p \in {Text, Odd}}
=============================================================================
