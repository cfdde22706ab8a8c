------------------------------ MODULE MimeFilter ------------------------------
(***************************************************************************)
(* stripmime, the filter a mail is piped through: struct ctx and what each *)
(* octet does to it.  ctx is one record, a handler an operator from ctx    *)
(* to ctx; "out" is what has been written to standard output, "stopped"    *)
(* that the process is dead (a null pointer followed, or abort).           *)
(***************************************************************************)
EXTENDS MimeParsers, Pop3Multi, SequencesExt

CONSTANT MaxValue  \* MAX: the octets a header's value has room for
ASSUME MaxValueAssumption == MaxValue \in Nat \ {0}

Replacement == "Parte reemplazada."
AnySubtype == "*"

\* bool *: three values
T == "true"
F == "false"
Null == "null"
Told(agrees) == IF agrees THEN T ELSE F

\* The names main makes parsers for.
Boundary == <<"boundary">>
Fields == {"type", "transfer", "disposition"}
FieldName == [type        |-> <<"Content-", "Type">>,
              transfer    |-> <<"Content-", "Transfer-Encoding">>,
              disposition |-> <<"Content-", "Disposition">>]

-----------------------------------------------------------------------------
(* mime_list.c: the media types of FILTER_MEDIAS *)

Subtype(name) == [name |-> name, st |-> 0]
TypeNode(type, subtype) ==
  [name |-> type, st |-> 0, event |-> F, subtypes |-> <<Subtype(subtype)>>]

\* search_for_type: 0 where the code tells "none" by a flag
SearchForType(list, type) == SelectInSeq(list, LAMBDA node : node.name = type)

\* search_for_subtype: a wildcard counts behind the first node only.
SubtypeExists(nodes, subtype) ==
  \E i \in 1..Len(nodes) :
    nodes[i].name = subtype \/ (i > 1 /\ nodes[i].name = AnySubtype)

\* make_subtype_wildcard.  removeSubtypes frees a literal if the subtypes are a
\* wildcard already: no type is given as a whole twice.
MakeSubtypeWildcard(list, i, type) ==
  IF i # 0 THEN [list EXCEPT ![i].subtypes = <<Subtype(AnySubtype)>>]
  ELSE Append(list, TypeNode(type, AnySubtype))

\* add_new
AddNew(list, type, subtype) ==
  LET i == SearchForType(list, type) IN
  IF subtype = AnySubtype THEN MakeSubtypeWildcard(list, i, type)
  ELSE IF i = 0 THEN Append(list, TypeNode(type, subtype))
  ELSE IF SubtypeExists(list[i].subtypes, subtype) THEN list
  ELSE [list EXCEPT ![i].subtypes = Append(@, Subtype(subtype))]

\* clean_list: the parsers start again, the events stay.
CleanList(list) ==
  [i \in 1..Len(list) |->
     [list[i] EXCEPT !.st = 0,
                     !.subtypes = [j \in 1..Len(@) |-> Subtype(@[j].name)]]]

\* The list of the media types of FILTER_MEDIAS, added in their order.
MediaList(medias) ==
  LET list[n \in 0..Len(medias)] ==
        IF n = 0 THEN <<>> ELSE AddNew(list[n - 1], medias[n][1], medias[n][2])
  IN  list[Len(medias)]

-----------------------------------------------------------------------------
(* delimiter.c and stack.c.  "literal" is what the two parsers of a delimiter *)
(* compare with, empty while there are none.                                  *)

DelimiterInit == [delimiter |-> <<Dashes>>, literal |-> <<>>, st |-> 0, endSt |-> 0]
Extend(d, c) == [d EXCEPT !.delimiter = Append(@, c)]
CloseDelimiter(d) == [d EXCEPT !.literal = d.delimiter, !.st = 0, !.endSt = 0]
DelimiterReset(d) == [d EXCEPT !.st = 0, !.endSt = 0]
EndOf(d) == Append(d.literal, Dashes)

\* stack_peek, with what is done to the element; stack_pop
OnTop(stack, Op(_)) == IF stack = <<>> THEN stack ELSE [stack EXCEPT ![Len(stack)] = Op(@)]
StackPop(stack) == IF stack = <<>> THEN stack ELSE Front(stack)

-----------------------------------------------------------------------------
Unheard == [f \in Fields |-> [st |-> 0, detected |-> Null]]

\* main
InitCtx(medias) ==
  [msg |-> "NAME0", fields |-> Unheard, mimeType |-> "TYPE0", boundary |-> 0,
   list |-> MediaList(medias), subtype |-> 0, stack |-> <<>>, newBoundaryPush |-> TRUE,
   firstAttempt |-> TRUE, toBeCensored |-> Null, boundaryDetected |-> Null,
   delimiterDetected |-> Null, delimiterEndDetected |-> Null,
   replace |-> FALSE, replaced |-> FALSE, attachment |-> FALSE, buffer |-> <<>>,
   out |-> <<>>, printed |-> FALSE, stopped |-> FALSE]

Stop(ctx) == [ctx EXCEPT !.stopped = TRUE]
Put(ctx, octets) == [ctx EXCEPT !.out = @ \o octets]
Show(ctx, c) == [ctx EXCEPT !.out = Append(@, c), !.printed = TRUE]

\* feed_types
FeedTypes(list, c) ==
  [i \in 1..Len(list) |->
     [list[i] EXCEPT !.st = Compared(<<list[i].name>>, @, c),
                     !.event = Told(Agrees(<<list[i].name>>, list[i].st, c))]]

\* content_type_type
ContentTypeType(ctx, c) ==
  LET fed == FeedTypes(ctx.list, c)
  IN  IF ctx.list = <<>> THEN Stop(ctx)
      ELSE [ctx EXCEPT !.list = fed,
                       !.toBeCensored = Told(\E i \in 1..Len(fed) : fed[i].event = T)]

\* context_setter
ContextSetter(ctx) ==
  LET i == SelectInSeq(ctx.list, LAMBDA node : node.event = T)
  IN  IF i = 0 THEN ctx ELSE [ctx EXCEPT !.subtype = i]

\* feed_subtypes
FeedSubtypes(nodes, c) ==
  IF nodes[1].name = AnySubtype THEN nodes
  ELSE [j \in 1..Len(nodes) |-> [nodes[j] EXCEPT !.st = Compared(<<nodes[j].name>>, @, c)]]

\* content_type_subtype
ContentTypeSubtype(ctx, c) ==
  LET nodes  == ctx.list[ctx.subtype].subtypes
      agrees == \E j \in 1..Len(nodes) : Agrees(<<nodes[j].name>>, nodes[j].st, c)
  IN  IF ctx.subtype = 0 THEN Stop(ctx)
      ELSE [ctx EXCEPT !.toBeCensored = Told(nodes[1].name = AnySubtype \/ agrees),
                       !.list[ctx.subtype].subtypes = FeedSubtypes(nodes, c)]

\* boundary_analizer
BoundaryAnalizer(ctx, c) ==
  [ctx EXCEPT !.boundary = Compared(Boundary, @, c),
              !.boundaryDetected = Told(Agrees(Boundary, ctx.boundary, c))]

\* MIME_DELIMITER_START: the first boundary only is sure to get its own place.
PushDelimiter(ctx) ==
  IF ctx.boundaryDetected = T /\ ctx.newBoundaryPush
  THEN [ctx EXCEPT !.stack = Append(@, DelimiterInit), !.newBoundaryPush = FALSE]
  ELSE ctx

\* MIME_DELIMITER: extend the delimiter on top, whosever it is.
ExtendDelimiter(ctx, c) ==
  CASE ctx.boundaryDetected # T -> ctx
    [] ctx.boundaryDetected = T /\ ctx.stack = <<>> -> Stop(ctx)
    [] OTHER -> [ctx EXCEPT !.stack = OnTop(@, LAMBDA d : Extend(d, c))]

\* content_type_value.  to_be_censored is read through before anything set it.
ContentTypeValue(ctx, c) ==
  LET fed == TypeFeed(ctx.mimeType, c)
      x == [ctx EXCEPT !.mimeType = fed.dest]
  IN  CASE fed.event = "TYPE" ->
             IF x.toBeCensored = Null THEN Stop(x) ELSE ContentTypeType(x, c)
        [] fed.event = "TYPE_END" ->
             IF x.toBeCensored = Null THEN Stop(x) ELSE ContextSetter(x)
        [] fed.event = "SUBTYPE" ->
             IF x.toBeCensored = T THEN ContentTypeSubtype(x, c) ELSE x
        [] fed.event = "PARAMETER" -> BoundaryAnalizer(x, c)
        [] fed.event = "DELIMITER_START" -> PushDelimiter(x)
        [] fed.event = "DELIMITER" -> ExtendDelimiter(x, c)
        [] OTHER -> x

-----------------------------------------------------------------------------
(* mime_msg, one operator for each kind of event *)

\* MIME_MSG_NAME: the field names it may still be.
Name(ctx, c) ==
  [ctx EXCEPT !.fields = [f \in Fields |->
     IF @[f].detected = F THEN @[f]
     ELSE [st |-> Compared(FieldName[f], @[f].st, c),
           detected |-> Told(Agrees(FieldName[f], @[f].st, c))]]]

\* MIME_MSG_NAME_END
NameEnd(ctx) == [ctx EXCEPT !.fields = [f \in Fields |-> [@[f] EXCEPT !.st = 0]]]

BufferedToMax(ctx, octets) ==                   \* mutant: no room for the last octet
  IF Len(ctx.buffer) + Len(octets) > MaxValue THEN Stop(ctx)
  ELSE [ctx EXCEPT !.buffer = @ \o octets]
\* A value longer than MAX makes the filter abort.
Buffered(ctx, octets) ==
  IF Len(ctx.buffer) + Len(octets) >= MaxValue THEN Stop(ctx)
  ELSE [ctx EXCEPT !.buffer = @ \o octets]

\* MIME_MSG_VALUE
Value(ctx, c) ==
  LET x == Buffered(ctx, <<c>>)
  IN  IF x.stopped \/ x.fields["type"].detected # T THEN x ELSE ContentTypeValue(x, c)

\* strcasestr on the buffer
IsMultipart(b) == \E i \in 1..(Len(b) - 2) :
  b[i] = "multipart" /\ b[i + 1] = "/" /\ b[i + 2] \in {"alternative", "mixed"}

\* What is written in place of a header's value.
ValueWritten(ctx) ==
  CASE ctx.toBeCensored = T -> <<"text", "/", "plain", "CR", "LF">>
    [] ctx.toBeCensored # T /\ ctx.replace /\ ctx.fields["transfer"].detected = T
         -> <<Blank, "7bit", "LF">>
    [] ctx.toBeCensored # T /\ ctx.replace /\ ctx.fields["transfer"].detected # T
         /\ ctx.fields["disposition"].detected = T -> <<Blank, "inline", "LF">>
    [] OTHER -> ctx.buffer \o <<"CR", "LF">>

ReplaceForgotten(ctx) ==                        \* mutant: the body is not replaced
  [Put(ctx, ValueWritten(ctx)) EXCEPT !.buffer = <<>>, !.fields = Unheard,
     !.stack = OnTop(@, CloseDelimiter), !.mimeType = "TYPE0", !.boundary = 0,
     !.list = CleanList(@), !.toBeCensored = F]
\* MIME_MSG_VALUE_END
EndOfValue(ctx) ==
  [Put(ctx, ValueWritten(ctx)) EXCEPT
     !.attachment = @ \/ Contains(ctx.buffer, "message"),
     !.newBoundaryPush = @ \/ (IsMultipart(ctx.buffer) /\ ~ctx.firstAttempt),
     !.firstAttempt = @ /\ ~IsMultipart(ctx.buffer),
     !.replace = @ \/ ctx.toBeCensored = T,
     !.buffer = <<>>, !.stack = OnTop(@, CloseDelimiter), !.mimeType = "TYPE0",
     !.list = CleanList(@), !.boundary = 0, !.fields = Unheard, !.toBeCensored = F]

\* boundary_delimiter_detection, then detect_delimiter_ending
DetectDelimiter(ctx, c) ==
  IF ctx.stack = <<>> \/ Last(ctx.stack).literal = <<>> THEN Stop(ctx)
  ELSE LET d == Last(ctx.stack) IN
       [ctx EXCEPT
          !.delimiterDetected = Told(Agrees(d.literal, d.st, c)),
          !.delimiterEndDetected = Told(Agrees(EndOf(d), d.endSt, c)),
          !.stack = OnTop(@, LAMBDA e : [e EXCEPT !.st = Compared(e.literal, @, c),
                                                  !.endSt = Compared(EndOf(e), @, c)])]

\* MIME_MSG_BODY
Body(ctx, c) ==
  LET x == CASE ctx.replace /\ ~ctx.replaced ->
                  [Put(ctx, <<Replacement, "CR", "LF">>) EXCEPT !.replaced = TRUE]
             [] ~ctx.replace -> Show(ctx, c)
             [] OTHER -> ctx
      y == DetectDelimiter(x, c)
  IN  IF x.boundaryDetected # T /\ x.stack = <<>> THEN x
      ELSE IF ~y.stopped /\ ~y.printed /\ y.delimiterEndDetected = T THEN Put(y, <<c>>)
      ELSE y

\* The headers of a mail inside the mail begin.
StartAttachment(ctx) ==
  [ctx EXCEPT !.attachment = FALSE, !.msg = "NAME0", !.stack = Append(@, DelimiterInit)]

PopForgotten(ctx) == ctx                        \* mutant
PopAtEveryDelimiter(ctx) ==                     \* mutant: "--A" closes the part's parent
  IF ctx.delimiterEndDetected = T THEN [ctx EXCEPT !.stack = StackPop(@)] ELSE ctx
\* The end of the part a delimiter line closes.
PopDelimiter(ctx) ==
  IF ctx.delimiterDetected = F /\ ctx.delimiterEndDetected = T
  THEN [ctx EXCEPT !.stack = StackPop(@)] ELSE ctx

\* The headers of the next part begin.
StartPart(ctx) ==
  CASE ctx.delimiterDetected # T -> ctx
    [] ctx.delimiterDetected = T /\ ctx.stack = <<>> -> Stop(ctx)
    [] OTHER ->
         [ctx EXCEPT !.replace = FALSE, !.replaced = FALSE, !.toBeCensored = F,
            !.boundaryDetected = F, !.delimiterDetected = Null,
            !.delimiterEndDetected = Null, !.subtype = 0, !.fields = Unheard,
            !.msg = "NAME0", !.list = CleanList(@), !.mimeType = "TYPE0", !.boundary = 0]

LineEndForgotten(ctx) == StartPart(PopDelimiter(ctx))  \* mutant: delimiters not reset
\* MIME_MSG_BODY_NEWLINE
BodyNewline(ctx) ==
  IF ctx.attachment THEN StartAttachment(ctx)
  ELSE LET x == StartPart(PopDelimiter(ctx))
       IN  IF x.stack # <<>> /\ Last(x.stack).literal = <<>> THEN Stop(x)
           ELSE [x EXCEPT !.stack = OnTop(@, DelimiterReset)]

\* The switch of mime_msg.
Handled(ctx, e, c) ==
  CASE e.type = "NAME"         -> Name(ctx, c)
    [] e.type = "NAME_END"     -> NameEnd(ctx)
    [] e.type = "VALUE"        -> Value(ctx, e.data[1])
    [] e.type = "VALUE_FOLD"   -> Buffered(ctx, e.data)
    [] e.type = "VALUE_END"    -> EndOfValue(ctx)
    [] e.type = "BODY"         -> Body(ctx, c)
    [] e.type = "BODY_NEWLINE" -> BodyNewline(ctx)
    [] OTHER                   -> ctx

\* What follows the switch: the octet is echoed unless a handler saw to it or
\* it ends a line of a part that has been replaced.
Echoed(ctx, e, c) ==
  IF \/ e.type \in {"BODY", "VALUE", "VALUE_END", "WAIT", "VALUE_FOLD"} \/ ctx.printed
     \/ e.type \in {"BODY_NEWLINE", "BODY_CR"} /\ ctx.replaced
  THEN ctx ELSE Show(ctx, c)

\* An event, unless the process has died.
Heard(ctx, e, c) == IF ctx.stopped THEN ctx ELSE Echoed(Handled(ctx, e, c), e, c)

\* mime_msg: an octet has one event or two.
MimeMsg(ctx, c) ==
  LET fed == MsgFeed(ctx.msg, c)
      x == Heard([ctx EXCEPT !.msg = fed.dest, !.printed = FALSE], fed.events[1], c)
  IN  IF Len(fed.events) = 1 THEN x ELSE Heard(x, fed.events[2], c)

\* multi_pop3_parser.c has the table of pop3_multi.c.
MultiFeed(s, c) == ParserFeed(s, c)

\* An octet of the mail, unless the process has died.
Given(ctx, c) == IF ctx.stopped THEN ctx ELSE MimeMsg(ctx, c)

\* pop3_multi: none, one or two octets of the mail come out, and at its end the
\* headers of another may follow.
Pop3MultiOctet(ctx, s, c) ==
  LET fed == MultiFeed(s, c)
      x == CASE fed.out = <<>>     -> ctx
             [] Len(fed.out) = 1   -> Given(ctx, fed.out[1])
             [] OTHER -> Given(Given(ctx, fed.out[1]), fed.out[2])
  IN  IF fed.dest # "FIN" THEN x
      ELSE [x EXCEPT !.msg = "NAME0",
                     !.fields = [@ EXCEPT !["type"].detected = Null,
                                          !["transfer"].detected = Null]]
=============================================================================
