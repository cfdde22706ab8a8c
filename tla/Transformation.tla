--------------------------- MODULE Transformation ---------------------------
(***************************************************************************)
(* EXTERNAL_TRANSFORMATION: a retrieved mail goes from the origin through  *)
(* a pipe to the filter program, and the filter's output through another   *)
(* to the client (external_transformation.c and the handlers of pop3nio.c  *)
(* for that state).  One mail of one connection, from the arrival in the   *)
(* state to its departure.                                                 *)
(*                                                                         *)
(* Octets are grouped into units: "text" is a whole line, "dot" and "lf"   *)
(* the two parts into which the line that ends a mail may be cut.          *)
(***************************************************************************)
EXTENDS Buffer, Pop3Multi, SequencesExt

CONSTANTS
  MailLines,   \* how many lines the mail may have before its end
  FirstParts,  \* how many of its units came in one segment with the +OK line
  PipeCap,     \* the units that fit in a pipe
  MaxOutput    \* bound: lines the filter gives before the end

ASSUME TransformationAssumption ==
  /\ MailLines \subseteq Nat
  /\ FirstParts \subseteq 0..BufferSize     \* what lies in the buffer with the +OK line
  /\ PipeCap \in Nat \ {0} /\ MaxOutput \in Nat

VARIABLES
  state,      \* the connection's state
  interest,   \* of its descriptors and of the pipe ends; "off" if unregistered
  wire,       \* what the origin has sent, or will, and is not received yet
  inbuf,      \* write_buffer: read_buffer and ext_wb of the transformation
  outbuf,     \* extern_read_buffer: its write_buffer and ext_rb
  et,         \* the flags of struct external_transformation
  parserRead, parserWrite,
  toFilter, fromFilter,   \* what is in the pipes
  filter,     \* the filter "runs" or has "ended"
  mail, next, \* the mail, and the reply to a pipelined request behind it
  taken, given, received, \* what the filter has read and written, and the client got
  originUp, clientUp,
  queued,     \* the request queue is not empty
  died,       \* "no", or what ended the process
  short       \* history: some send to the client took a part of what it was given

relay  == <<state, interest, inbuf, outbuf, et, parserRead, parserWrite, received, died>>
pipes  == <<toFilter, fromFilter, filter, taken, given>>
fixed  == <<mail, next, queued, short>>
peers  == <<originUp, clientUp>>
vars   == <<relay, wire, pipes, fixed, peers>>

Lines(n)   == [i \in 1..n |-> "text"]
End        == <<"dot", "lf">>
\* CR LF . CR LF, which ends a reply that the filter broke off.
Terminator == <<"text">> \o End

-----------------------------------------------------------------------------
\* The automaton of pop3_multi.c, which sees the octets of each unit.
After(p, c) == ParserFeed(p, c).dest
Feed(p, u)  == CASE u = "text" -> After(After(After(p, "x"), "CR"), "LF")
                 [] u = "dot"  -> After(After(p, "."), "CR")
                 [] OTHER      -> After(p, "LF")

Fed(p, data) ==
  LET fed[i \in 0..Len(data)] == IF i = 0 THEN p ELSE Feed(fed[i - 1], data[i]) IN fed

\* How many units parse_mail has gone through at the i-th.
OneMore(i)  == i + 1                             \* mutant: off by one
UpTo(i)     == i

\* parse_mail over all that is in a buffer, also what was parsed before: the
\* parser behind it, and the units up to the end of the mail, or 0.
ParseMail(p, data) ==
  LET fed  == Fed(p, data)
      ends == {i \in 1..Len(data) : fed[i] = "FIN"}
      stop == IF ends = {} THEN Len(data) ELSE CHOOSE i \in ends : \A j \in ends : i <= j
  IN  [parser |-> fed[stop],
       upTo   |-> IF ends = {} THEN 0 ELSE UpTo(stop)]

\* finished_et
Finished(e) == e.finishRead /\ (e.finishWrite \/ e.errorWrite)

\* What ext_write and external_transformation_write pass on: the units up to
\* the end of the mail once it was found, else all there is.
AllOf(b, upTo)   == Len(b.data)                  \* mutant: with what lies behind the mail
Portion(b, upTo) == IF upTo # 0 THEN upTo ELSE Len(b.data)

\* selector_set_interest, which fails for a descriptor that is not registered.
Set(i, f, want) == IF i[f] = "off" THEN i ELSE [i EXCEPT ![f] = want]

On(f, ev) == died = "no" /\ state = "EXTERNAL_TRANSFORMATION" /\ interest[f] = ev

\* The transition out of the state, with external_transformation_close.
Leave ==
  /\ state' = IF queued THEN "RESPONSE" ELSE "REQUEST"
  /\ interest' = [client |-> IF queued THEN "NOOP" ELSE "READ",
                  origin |-> IF queued THEN "READ" ELSE "NOOP",
                  extRead |-> "off", extWrite |-> "off"]

Stay(i) == interest' = i /\ UNCHANGED state

\* ERROR: pop3_done closes the connection; stm.c runs no departure, so the
\* pipes stay registered.
Fail == /\ state' = "ERROR"
        /\ interest' = [interest EXCEPT !.client = "off", !.origin = "off"]
        /\ UNCHANGED <<inbuf, outbuf, et, parserRead, parserWrite, received, died>>

Die(why) == /\ died' = why
            /\ UNCHANGED <<state, interest, inbuf, outbuf, et, parserRead, parserWrite, received>>

-----------------------------------------------------------------------------
(* The handlers.                                                           *)

\* external_transformation_init.  If the filter cannot be started, a notice of
\* 46 octets is put into a buffer of BUFFER_SIZE 30: an assertion fails.
Start ==
  /\ died = "no" /\ state = "RESPONSE" /\ interest.extRead = "none"
  /\ LET p == ParseMail("NEWLINE", inbuf.data) IN
     /\ parserRead' = p.parser
     /\ et' = [et EXCEPT !.finishRead = p.upTo # 0, !.sendRead = p.upTo]
  /\ state' = "EXTERNAL_TRANSFORMATION"
  /\ interest' = [interest EXCEPT !.extRead = "READ", !.extWrite = "WRITE"]
  /\ UNCHANGED <<inbuf, outbuf, parserWrite, received, died, wire, pipes, fixed, peers>>

StartFails ==
  /\ died = "no" /\ state = "RESPONSE" /\ interest.extRead = "none"
  /\ Die("assertion") /\ UNCHANGED <<wire, pipes, fixed, peers>>

\* external_transformation_read.  Without room recv takes nothing and nothing
\* changes; so it is when the origin has closed.
TransformationRead ==
  /\ On("origin", "READ") /\ wire # <<>> /\ Room(inbuf) > 0
  /\ \E n \in 1..Len(wire) :
       /\ n <= Room(inbuf)
       /\ wire' = SubSeq(wire, n + 1, Len(wire))
       /\ inbuf' = Put(inbuf, SubSeq(wire, 1, n))
  /\ LET p == ParseMail(parserRead, inbuf'.data)
         e == [et EXCEPT !.sendRead = p.upTo, !.finishRead = @ \/ p.upTo # 0]
     IN  /\ parserRead' = p.parser /\ et' = e
         /\ IF p.upTo # 0 /\ Finished(e) THEN Leave
            ELSE Stay([Set(interest, "extWrite", "WRITE") EXCEPT !.origin = "NOOP"])
  /\ UNCHANGED <<outbuf, parserWrite, received, died, pipes, fixed, peers>>

TransformationReadFails ==
  /\ On("origin", "READ") /\ ~originUp
  /\ Fail /\ UNCHANGED <<wire, pipes, fixed, peers>>

NotWanted    == "NOOP"                           \* mutant: the origin is not read again
OriginWanted == "READ"

\* ext_write.  A pipe that is ready takes all of a buffer this small; a write of
\* nothing returns 0 and changes nothing.  Without a reader it raises SIGPIPE.
ExtWrite ==
  /\ On("extWrite", "WRITE") /\ CanRead(inbuf) /\ Len(toFilter) < PipeCap /\ filter = "runs"
  /\ LET n == Portion(inbuf, et.sendRead) IN
     /\ toFilter' = toFilter \o SubSeq(inbuf.data, 1, n)
     /\ inbuf' = Drop(inbuf, n)
  /\ et' = [et EXCEPT !.sendRead = 0]
  /\ Stay(IF et.finishRead THEN [interest EXCEPT !.extWrite = "off"]
          ELSE [interest EXCEPT !.extWrite = "NOOP", !.origin = OriginWanted])
  /\ UNCHANGED <<outbuf, parserRead, parserWrite, received, died, wire, fromFilter, filter,
                 taken, given, fixed, peers>>

ExtWriteBreaks ==
  /\ On("extWrite", "WRITE") /\ CanRead(inbuf) /\ filter = "ended"
  /\ Die("SIGPIPE") /\ UNCHANGED <<wire, pipes, fixed, peers>>

\* ext_read.  It takes no room for the end of the output too.
ExtRead ==
  /\ On("extRead", "READ") /\ (fromFilter # <<>> \/ filter = "ended")
  /\ \E n \in 0..Len(fromFilter) :
       /\ n <= Room(outbuf)
       /\ n = 0 => fromFilter = <<>> \/ Room(outbuf) = 0
       /\ fromFilter' = SubSeq(fromFilter, n + 1, Len(fromFilter))
       /\ outbuf' = Put(outbuf, SubSeq(fromFilter, 1, n))
       /\ LET p == ParseMail(parserWrite, outbuf'.data) IN
          /\ parserWrite' = p.parser
          /\ et' = [et EXCEPT !.sendWrite = p.upTo,
                              !.errorWrite = @ \/ (n = 0 /\ p.upTo = 0)]
          /\ Stay([interest EXCEPT !.extRead = IF n = 0 \/ p.upTo # 0 THEN "off" ELSE "NOOP",
                                   !.client = "WRITE"])
  /\ UNCHANGED <<inbuf, parserRead, received, died, wire, toFilter, filter, taken, given,
                 fixed, peers>>

\* external_transformation_write.  The notice for a filter that gave nothing, of
\* 37 octets, does not fit either.
NeedsNotice == et.errorWrite /\ ~et.didWrite
NeedsEnd    == et.errorWrite /\ et.didWrite /\ ~et.writeError

\* Is what is written the last of the reply?
EveryWrite(e) == TRUE                            \* mutant: the first write ends it
LastWrite(e)  == e.sendWrite # 0

Fitted      == IF NeedsEnd THEN Put(outbuf, Terminator) ELSE outbuf

TransformationWrite ==
  /\ On("client", "WRITE") /\ clientUp /\ ~NeedsNotice /\ InBounds(Fitted) /\ CanRead(Fitted)
  /\ LET all == Portion(Fitted, et.sendWrite) IN
     \E n \in 1..all :
       LET e == [et EXCEPT !.writeError  = @ \/ NeedsEnd, !.didWrite = TRUE,
                           !.finishWrite = @ \/ LastWrite(et),
                           !.sendWrite   = IF @ = 0 THEN 0 ELSE @ - n]
       IN  /\ received' = received \o SubSeq(Fitted.data, 1, n)
           /\ outbuf' = Drop(Fitted, n)
           /\ short' = (short \/ n < all)
           /\ et' = e
           /\ IF (e.errorWrite \/ e.finishWrite) /\ e.sendWrite = 0 /\ Finished(e) THEN Leave
              ELSE Stay(IF e.errorWrite /\ e.sendWrite # 0 THEN interest
                        ELSE [Set(interest, "extRead", "READ") EXCEPT !.client = "NOOP"])
  /\ UNCHANGED <<inbuf, parserRead, parserWrite, died, wire, pipes, mail, next, queued, peers>>

TransformationWriteBreaks ==
  /\ On("client", "WRITE")
  /\ \/ (NeedsNotice \/ ~InBounds(Fitted)) /\ Die("assertion")
     \/ ~NeedsNotice /\ InBounds(Fitted) /\ ~clientUp /\ (Fail \/ Die("SIGPIPE"))
  /\ UNCHANGED <<wire, pipes, fixed, peers>>

Handler == \/ Start \/ TransformationRead \/ TransformationReadFails
           \/ ExtWrite \/ ExtWriteBreaks \/ ExtRead
           \/ TransformationWrite \/ TransformationWriteBreaks

-----------------------------------------------------------------------------
(* The filter, the client and the origin (external).  The filter ends its  *)
(* output behind its input, and it may fail at any moment.                 *)

FilterTakes ==
  /\ filter = "runs" /\ toFilter # <<>>
  /\ taken' = Append(taken, Head(toFilter)) /\ toFilter' = Tail(toFilter)
  /\ UNCHANGED <<relay, wire, fromFilter, filter, given, fixed, peers>>

HasInput == IsSuffix(End, taken)

FilterGives ==
  /\ filter = "runs" /\ Len(fromFilter) < PipeCap /\ ~IsSuffix(End, given)
  /\ \E u \in {"text", "dot", "lf"} :
       /\ u = "text" => taken # <<>> /\ Len(given) < MaxOutput /\ ~Contains(given, "dot")
       /\ u = "dot"  => HasInput /\ ~Contains(given, "dot")
       /\ u = "lf"   => Contains(given, "dot")
       /\ given' = Append(given, u) /\ fromFilter' = Append(fromFilter, u)
  /\ UNCHANGED <<relay, wire, toFilter, filter, taken, fixed, peers>>

FilterEnds ==
  /\ filter = "runs" /\ filter' = "ended"
  /\ UNCHANGED <<relay, wire, toFilter, fromFilter, taken, given, fixed, peers>>

PeerGoes ==
  /\ state = "EXTERNAL_TRANSFORMATION"
  /\ \/ originUp /\ originUp' = FALSE /\ UNCHANGED clientUp
     \/ clientUp /\ clientUp' = FALSE /\ UNCHANGED originUp
  /\ UNCHANGED <<relay, wire, pipes, fixed>>

-----------------------------------------------------------------------------
Flags == [finishRead |-> FALSE, finishWrite |-> FALSE, errorWrite |-> FALSE,
          didWrite |-> FALSE, writeError |-> FALSE, sendRead |-> 0, sendWrite |-> 0]

\* The step of response_read that goes to the state has armed nothing and
\* holds what came behind the +OK line in the buffer.
Init ==
  /\ state = "RESPONSE"
  /\ interest = [client |-> "NOOP", origin |-> "NOOP", extRead |-> "none", extWrite |-> "none"]
  /\ \E n \in MailLines : mail = Lines(n) \o End
  /\ queued \in BOOLEAN
  /\ next = IF queued THEN Lines(1) ELSE <<>>
  /\ \E n \in FirstParts :
       /\ n <= Len(mail \o next)
       /\ inbuf = Put(EmptyBuffer, SubSeq(mail \o next, 1, n))
       /\ wire = SubSeq(mail \o next, n + 1, Len(mail \o next))
  /\ outbuf = EmptyBuffer
  /\ et = Flags /\ parserRead = "NEWLINE" /\ parserWrite = "NEWLINE"
  /\ toFilter = <<>> /\ fromFilter = <<>> /\ filter = "runs"
  /\ taken = <<>> /\ given = <<>> /\ received = <<>>
  /\ originUp = TRUE /\ clientUp = TRUE
  /\ died = "no" /\ short = FALSE

Next == Handler \/ StartFails \/ FilterTakes \/ FilterGives \/ FilterEnds \/ PeerGoes

Spec == Init /\ [][Next]_vars

\* The selector serves every ready descriptor; the filter reads its input and
\* goes on until its output is complete, unless it fails.
FairSpec == /\ Spec
            /\ WF_vars(Start) /\ WF_vars(TransformationRead) /\ WF_vars(ExtWrite)
            /\ WF_vars(ExtWriteBreaks) /\ WF_vars(ExtRead)
            /\ WF_vars(TransformationWrite \/ TransformationWriteBreaks)
            /\ WF_vars(FilterTakes) /\ WF_vars(FilterGives)
-----------------------------------------------------------------------------
Units == {"text", "dot", "lf"}
Over  == state = "REQUEST" \/ (state = "RESPONSE" /\ interest.extRead = "off")

TypeOK ==
  /\ state \in {"RESPONSE", "EXTERNAL_TRANSFORMATION", "REQUEST", "ERROR"}
  /\ \A f \in DOMAIN interest : interest[f] \in {"none", "off", "NOOP", "READ", "WRITE"}
  /\ {inbuf, outbuf} \subseteq Buffers(Units) /\ InBounds(inbuf) /\ InBounds(outbuf)
  /\ et.sendRead \in 0..Len(inbuf.data) /\ et.sendWrite \in 0..Len(outbuf.data)
  /\ {parserRead, parserWrite} \subseteq ParserStates
  /\ {wire, toFilter, fromFilter, taken, given, received} \subseteq Seq(Units)
  /\ died \in {"no", "assertion", "SIGPIPE"}

\* The filter is given the mail, every unit once and in order, and nothing of
\* what the origin sent behind it; nothing is lost on the way.
FilterGetsTheMail == /\ IsPrefix(taken \o toFilter, mail)
                     /\ taken \o toFilter \o inbuf.data \o wire = mail \o next

\* When the connection goes on with the next request or reply, and the filter has
\* read its input, the client has been sent all that the filter gave, ended by
\* the proxy if the filter did not; what is buffered is of the next reply.  (If
\* no send was short: parse_mail then goes twice over what was left.)
ReplyIsWhole ==
  /\ Over /\ HasInput /\ ~short =>
             /\ received = given \o (IF IsSuffix(End, given) THEN <<>> ELSE Terminator)
             /\ outbuf = EmptyBuffer
             /\ inbuf.data \o wire = next
  /\ IsPrefix(received, given) \/ IsPrefix(given, received)

\* A mail passes through a filter that does its part, however it is cut and
\* whichever of the four descriptors is ready first (docs/Informe.pdf, 3.2.1),
\* as long as the two peers stay and no send is short.
TransformationEnds ==
  (state = "RESPONSE" /\ ~Over) ~> (Over \/ died # "no" \/ ~originUp \/ ~clientUp \/ short)
=============================================================================
