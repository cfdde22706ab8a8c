----------------------------- MODULE MimeParsers -----------------------------
(***************************************************************************)
(* The automatons the MIME filter feeds: the headers and body of a mail    *)
(* (mime_msg.c), the value of Content-Type (mime_type.c) and the           *)
(* comparison with a name (parser_utils.c), with the classes of octets of  *)
(* mime_chars.c.  An "octet" here is a run of octets that no table and no  *)
(* name compared with tells apart: CR, a punctuation mark, "--", a word.   *)
(* No run is the beginning of another, and spelling is without case.       *)
(***************************************************************************)
EXTENDS Naturals, Sequences

Blank == " "
Quote == "\""
EightBit == "8bit"  \* any octet above 127
Dashes == "--"

\* TOKEN_CTL, TOKEN_CHAR, TOKEN_REST_NAME_FIRST, TOKEN_REST_NAME_CHARS and
\* TOKEN_BCHARS_NOSPACE; a blank is the only TOKEN_LWSP.
Ctl == {"CR", "LF"}
Char(c) == c # EightBit
RestNameFirst(c) ==
  c \notin Ctl \cup {Blank, Quote, EightBit, Dashes, ".", ":", "/", ";", "="}
RestNameChars(c) == RestNameFirst(c) \/ c \in {Dashes, "."}
BcharsNospace(c) == RestNameChars(c) \/ c \in {":", "/", "="}

\* A transition: its destination and its one or two events.
Event(type, data) == [type |-> type, data |-> data]
Goes(dest, events) == [dest |-> dest, events |-> events]
With(dest, type, c) == Goes(dest, <<Event(type, <<c>>)>>)
Wait(dest) == Goes(dest, <<Event("WAIT", <<>>)>>)
Unexpected(c) == With("ERROR", "UNEXPECTED", c)

-----------------------------------------------------------------------------
(* mime_msg.c *)

MsgStates == {"NAME0", "NAME", "VALUE", "VALUE_CR", "VALUE_CRLF", "FOLD",
              "VALUE_CRLF_CR", "BODY", "BODY_CR", "ERROR"}

\* ST_NAME0
MsgName0(c) == IF Char(c) /\ c \notin Ctl \cup {":", Blank} THEN With("NAME", "NAME", c)
               ELSE Unexpected(c)
\* ST_NAME
MsgName(c) == IF c = ":" THEN With("VALUE", "NAME_END", ":") ELSE MsgName0(c)
\* ST_VALUE
MsgValue(c) == CASE c = Blank -> With("FOLD", "VALUE_FOLD", c)
                 [] c = "CR"  -> Wait("VALUE_CR")
                 [] OTHER     -> With("VALUE", "VALUE", c)
\* ST_VALUE_CR
MsgValueCr(c) == IF c = "LF" THEN Wait("VALUE_CRLF")
                 ELSE Goes("VALUE", <<Event("VALUE", <<"CR">>), Event("VALUE", <<c>>)>>)
ValueEnd == Event("VALUE_END", <<"CR", "LF">>)
\* ST_VALUE_CRLF
MsgValueCrlf(c) ==
  CASE c = ":" \/ ~Char(c) -> Unexpected(c)
    [] c = "CR"  -> Wait("VALUE_CRLF_CR")
    [] c = Blank -> Goes("FOLD", <<Event("VALUE_FOLD", <<"CR", "LF">>),
                                   Event("VALUE_FOLD", <<c>>)>>)
    [] c \in Ctl \ {"CR"} -> Goes("ERROR", <<ValueEnd, Event("UNEXPECTED", <<c>>)>>)
    [] OTHER -> Goes("NAME", <<ValueEnd, Event("NAME", <<c>>)>>)
\* ST_FOLD: a CR behind a blank is part of the value.
MsgFold(c) == IF c = Blank THEN With("FOLD", "VALUE_FOLD", c) ELSE With("VALUE", "VALUE", c)
\* ST_VALUE_CRLF_CR
MsgValueCrlfCr(c) ==
  IF c = "LF" THEN Goes("BODY", <<ValueEnd, Event("BODY_START", <<"CR", "LF">>)>>)
  ELSE Goes("ERROR", <<ValueEnd, Event("UNEXPECTED", <<c>>)>>)
\* ST_BODY
MsgBody(c) == IF c = "CR" THEN With("BODY_CR", "BODY_CR", c) ELSE With("BODY", "BODY", c)
\* ST_BODY_CR
MsgBodyCr(c) == IF c = "LF" THEN With("BODY", "BODY_NEWLINE", c) ELSE Unexpected(c)

\* parser_feed on that table
MsgFeed(s, c) == CASE s = "NAME0"         -> MsgName0(c)
                   [] s = "NAME"          -> MsgName(c)
                   [] s = "VALUE"         -> MsgValue(c)
                   [] s = "VALUE_CR"      -> MsgValueCr(c)
                   [] s = "VALUE_CRLF"    -> MsgValueCrlf(c)
                   [] s = "FOLD"          -> MsgFold(c)
                   [] s = "VALUE_CRLF_CR" -> MsgValueCrlfCr(c)
                   [] s = "BODY"          -> MsgBody(c)
                   [] s = "BODY_CR"       -> MsgBodyCr(c)
                   [] OTHER               -> Unexpected(c)

-----------------------------------------------------------------------------
(* mime_type.c.  Its events all carry the octet fed or none that is used. *)

TypeStates == {"TYPE0", "TYPE", "SUBTYPE", "PARAMETER", "DELIMITER_START", "DELIMITER",
               "DELIMITER_END", "ERROR"}

Enters(dest, event) == [dest |-> dest, event |-> event]

\* parser_feed on that table.  Whatever a state has no line for ends in ERROR.
TypeFeed(s, c) ==
  CASE s = "TYPE0"     /\ RestNameFirst(c) -> Enters("TYPE", "TYPE")
    [] s = "TYPE"      /\ RestNameChars(c) -> Enters("TYPE", "TYPE")
    [] s = "TYPE"      /\ c = "/"          -> Enters("SUBTYPE", "TYPE_END")
    [] s = "SUBTYPE"   /\ RestNameChars(c) -> Enters("SUBTYPE", "SUBTYPE")
    [] s = "SUBTYPE"   /\ c = ";"          -> Enters("PARAMETER", "PARAMETER_START")
    [] s = "PARAMETER" /\ RestNameChars(c) -> Enters("PARAMETER", "PARAMETER")
    [] s = "PARAMETER" /\ c = "="          -> Enters("DELIMITER_START", "BOUNDARY_END")
    [] s = "DELIMITER_START" /\ c = Quote  -> Enters("DELIMITER", "DELIMITER_START")
    [] s = "DELIMITER" /\ BcharsNospace(c) -> Enters("DELIMITER", "DELIMITER")
    [] s = "DELIMITER" /\ c = Quote        -> Enters("DELIMITER_END", "DELIMITER_END")
    [] s = "DELIMITER_END"                 -> Enters("DELIMITER_END", "DELIMITER_END")
    [] OTHER                               -> Enters("ERROR", "UNEXPECTED")

-----------------------------------------------------------------------------
(* parser_utils_strcmpi: states 0 .. Len(name) - 1 compare, then EQ, then NEQ *)

\* STRING_CMP_EQ is told at every octet that agrees, not only at the last.
Agrees(name, st, c) == st < Len(name) /\ name[st + 1] = c
Compared(name, st, c) == IF Agrees(name, st, c) THEN st + 1 ELSE Len(name) + 1
=============================================================================
