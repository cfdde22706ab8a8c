------------------------------ MODULE Session ------------------------------
(***************************************************************************)
(* What one proxied connection relays, from the connect(2) to the origin   *)
(* on: the handlers of pop3nio.c with their buffers, the request parser,   *)
(* the queue of requests and the response parser, between a client that    *)
(* sends commands and an origin that answers them in order.  Every handler *)
(* is one step but request_write, which is one step per send(2).           *)
(*                                                                         *)
(* Bytes are grouped into units.  A line of the client is one or more      *)
(* units; a reply is one unit if it is a single line, and else the status  *)
(* line, units of its body and the one with the terminator.  A recv or a   *)
(* send moves any number of units, so lines and replies are fragmented and *)
(* coalesced in every way the units allow.                                 *)
(***************************************************************************)
EXTENDS Pop3Stm, Buffer, MsgQueue, Integers, SequencesExt

CONSTANTS
  MaxCommands,   \* bound: commands the client sends
  Kinds,         \* kinds of commands it sends, see KindSet
  LineSizes,     \* lengths of its lines
  ReplySizes,    \* lengths of multi-line replies
  BannerSizes,   \* lengths of the origin's greeting
  CapaStatuses,  \* status of the origin's answer to the proxy's CAPA
  MaxReplies,    \* bound: units the origin sends, once something is cut off
  SockCap,       \* units the socket to the origin holds unread
  Lockstep       \* the client waits for an answer before its next command

KindSet == {"plain",  \* a command with a single-line reply
            "list",   \* RETR, LIST, UIDL, ...: a multi-line reply if positive
            "capa", "quit",
            "user",   \* USER without its argument
            "bad"}    \* a line the request parser refuses
StatusSet == {"ok", "err", "garbage"}

ASSUME SessionAssumption ==
  /\ MaxCommands \in Nat /\ MaxReplies \in Nat /\ SockCap \in Nat \ {0}
  /\ Kinds \subseteq KindSet
  /\ LineSizes \subseteq Nat \ {0} /\ BannerSizes \subseteq Nat \ {0}
  /\ ReplySizes \subseteq Nat \ {0, 1}
  /\ CapaStatuses \subseteq StatusSet
  /\ Lockstep \in BOOLEAN

VARIABLES
  \* the proxy
  state,       \* stm.current, or "CLOSED"
  armed,       \* <<interest of the client's, of the origin's descriptor>>
  rb, wb, sb,  \* read_buffer, write_buffer, super_buffer
  greeting,    \* welcome.msg_not_finished
  parsed,      \* what the request parser has been fed since its reset
  queue,       \* session.request_queue
  pend,        \* pop3_request in request_write's loop, Null outside of it
  request,     \* response.request; 0 is the proxy's own CAPA
  stage,       \* response_parser.state
  pipelining,  \* session.pipelining
  fault,       \* why the process died, or "none"
  \* the client and the origin
  sent,        \* the commands the client has sent
  written,     \* their units
  received,    \* how many of the units the proxy has received
  delivered,   \* the units the proxy has sent to the client
  forwarded,   \* the units the proxy has sent to the origin
  taken,       \* how many of them the origin has taken
  replies,     \* the units the origin has sent, greeting first
  fetched,     \* how many of them the proxy has received
  cut,         \* history: has a line been too long for the buffer, or a send
               \* to the origin been cut short?
  offers,      \* does the origin's CAPA list PIPELINING?
  clientEnd, originEnd

proxyVars  == <<state, armed, rb, wb, sb, greeting, parsed, queue, pend,
                request, stage, pipelining, fault>>
clientVars == <<sent, written, received, delivered, clientEnd>>
originVars == <<forwarded, taken, cut, replies, fetched, offers, originEnd>>
vars       == <<proxyVars, clientVars, originVars>>

-----------------------------------------------------------------------------
(* Units.                                                                  *)

Capa   == 0   \* the command the proxy sends itself
Banner == -1  \* the "command" the greeting answers

Kind(r) == IF r = Capa THEN "capa" ELSE sent[r].kind
Size(r) == IF r = Capa THEN 1 ELSE sent[r].size
LineUnitsOf(r, size) == [k \in 1..size |-> [id |-> r, part |-> "line", nth |-> k]]
Line(r) == LineUnitsOf(r, Size(r))
EndsLine(u) == u.part = "line" /\ u.nth = Size(u.id)

ReplyUnit(r, part, mark) == [id |-> r, part |-> part, mark |-> mark]
Notice(r) == <<ReplyUnit(r, "notice", "none")>>  \* a reply of the proxy itself

\* The response parser takes a reply for multi-line by the command alone,
\* unless it is negative.
MultiLine(r, status) == status = "ok" /\ Kind(r) \in {"list", "capa"}
Final(u) == \/ u.part \in {"notice", "end"}
            \/ u.part = "status" /\ ~MultiLine(u.id, u.mark)

Min2(a, b) == IF a <= b THEN a ELSE b

\* SelectSeq, as a recursive function that can be reasoned about.
Only(s, Test(_)) ==
  LET f[n \in 0..Len(s)] == IF n = 0 THEN <<>>
                            ELSE IF Test(s[n]) THEN Append(f[n - 1], s[n]) ELSE f[n - 1]
  IN  f[Len(s)]

-----------------------------------------------------------------------------
(* The client and the origin (external).                                   *)

Alive == fault = "none" /\ state # "CLOSED"

AnsweredTo(r) == \E i \in 1..Len(delivered) :
                   delivered[i].id = r /\ Final(delivered[i])
Greeting(s) == Only(s, LAMBDA u : u.part = "greeting")
Greeted == Greeting(delivered) = Greeting(replies)

\* A peer closes its end, and it may reset the connection, then or at once.
Ends == {"open", "closed", "reset"}
Ending(end) == CASE end = "open" -> {"closed", "reset"} [] end = "closed" -> {"reset"} [] OTHER -> {}

ClientSend ==
  /\ Alive /\ clientEnd = "open" /\ Len(sent) < MaxCommands
  /\ Lockstep => Greeted /\ \A r \in 1..Len(sent) : AnsweredTo(r)
  /\ \E kind \in Kinds, size \in LineSizes :
       /\ sent' = Append(sent, [kind |-> kind, size |-> size])
       /\ written' = written \o LineUnitsOf(Len(sent) + 1, size)
  /\ UNCHANGED <<proxyVars, received, delivered, clientEnd, originVars>>

ClientEnds ==
  /\ Alive /\ clientEnd' \in Ending(clientEnd)
  /\ UNCHANGED <<proxyVars, sent, written, received, delivered, originVars>>

\* Positive single-line and multi-line, negative and malformed replies to r.
Reply(r, status, size) ==
  IF ~MultiLine(r, status) THEN <<ReplyUnit(r, "status", status)>>
  ELSE [k \in 1..size |->
          IF k = 1 THEN ReplyUnit(r, "status", status)
          ELSE IF k < size THEN ReplyUnit(r, "body", "none")
          ELSE ReplyUnit(r, "end", IF Kind(r) = "capa" /\ offers THEN "pipe" ELSE "none")]

\* The origin takes the next whole line and answers it.  After a short send the
\* proxy may send a line again for ever: MaxReplies bounds what it is answered.
OriginServe ==
  /\ Alive /\ originEnd = "open" /\ (cut => Len(replies) < MaxReplies)
  /\ \E n \in 1..(Len(forwarded) - taken) :
       LET u == forwarded[taken + n] IN
       /\ EndsLine(u)
       /\ \A m \in 1..(n - 1) : ~EndsLine(forwarded[taken + m])
       /\ taken' = taken + n
       /\ \E status \in IF u.id = Capa THEN CapaStatuses ELSE StatusSet, size \in ReplySizes :
            replies' = replies \o Reply(u.id, status, size)
  /\ UNCHANGED <<proxyVars, clientVars, forwarded, cut, fetched, offers, originEnd>>

OriginEnds ==
  /\ Alive /\ originEnd' \in Ending(originEnd)
  /\ UNCHANGED <<proxyVars, clientVars, forwarded, taken, cut, replies, fetched, offers>>

-----------------------------------------------------------------------------
(* The sockets.                                                            *)

\* What recv may return for a readable descriptor: n units, 0 once the peer has
\* closed, -1 when it has reset; 0 also when the buffer has no room.
Received(available, room, end) ==
  IF available > 0 THEN IF room = 0 THEN {0} ELSE 1..Min2(room, available)
  ELSE CASE end = "open" -> {} [] end = "closed" \/ room = 0 -> {0} [] OTHER -> {0, -1}

FromClient(room) == Received(Len(written) - received, room, clientEnd)
FromOrigin(room) == Received(Len(replies) - fetched, room, originEnd)
Slice(s, from, n) == SubSeq(s, from + 1, from + n)

\* What send may return for a buffer of count units.
ToClientSends(count) ==
  CASE clientEnd = "reset" -> {-1} [] count = 0 -> {0} [] OTHER -> 1..count
ToOriginSends(count) ==
  LET n == Min2(count, SockCap - (Len(forwarded) - taken))
  IN  {IF originEnd = "reset" \/ (n = 0 /\ count > 0) THEN -1 ELSE n}

\* The messages of the proxy itself go out without MSG_NOSIGNAL, and SIGPIPE is
\* not ignored: once the peer has reset, one kills the process.
Broken(end) == {IF end = "reset" THEN "SIGPIPE" ELSE "none"}
Tell(r) == delivered' = delivered \o Notice(r) /\ fault' \in Broken(clientEnd)

-----------------------------------------------------------------------------
(* What the handlers have in common.                                       *)

On(side, ev, st) == /\ fault = "none" /\ pend = Null
                    /\ state = st /\ armed[side] = ev

LeaveArmed(side, o) ==                           \* mutant: key not disarmed
  IF Closes(o.next) THEN state' = "CLOSED" /\ armed' = <<"NOOP", "NOOP">>
  ELSE state' = o.next /\ armed' = <<Given(o.client, armed[1]), Given(o.origin, armed[2])>>
\* jump, after which pop3_read and pop3_write close the connection on ERROR
\* and DONE.
Leave(side, o) ==
  IF Closes(o.next) THEN state' = "CLOSED" /\ armed' = <<"NOOP", "NOOP">>
  ELSE LET key == [armed EXCEPT ![side] = Given(o.key, @)] IN
       /\ state' = o.next
       /\ armed' = <<Given(o.client, key[1]), Given(o.origin, key[2])>>

\* response_consume, twice in response_read and capa_read: the parser takes
\* units up to the end of the reply.
ParseOneLine(r, st, u) == IF st = "done" THEN "done" ELSE "body"  \* mutant: end missed
Parse(r, st, u) ==
  CASE st = "done" -> "done"
    [] st = "body" -> IF u.part = "end" THEN "done" ELSE "body"
    [] OTHER       -> IF u.part # "status" \/ u.mark = "garbage" THEN "error"
                      ELSE IF MultiLine(r, u.mark) THEN "body" ELSE "done"
StageAfter(data) ==
  LET after[n \in 0..Len(data)] ==
        IF n = 0 THEN stage
        ELSE IF after[n-1] = "error" THEN "error" ELSE Parse(request, after[n-1], data[n])
  IN  after
ConsumeAll(data) == Len(data)                    \* mutant: runs into the next reply
Consumed(data) ==
  LET after == StageAfter(data)
      ends  == {n \in 0..Len(data) : after[n] \in {"done", "error"}}
  IN  IF ends = {} THEN Len(data) ELSE CHOOSE n \in ends : \A m \in ends : n <= m

-----------------------------------------------------------------------------
(* CONNECTING, WELCOME_READ, WELCOME_WRITE, CAPA.                          *)

Refused ==
  /\ On(2, "WRITE", "CONNECTING")
  /\ Leave(2, FailMute) /\ Tell(Capa)
  /\ UNCHANGED <<rb, wb, sb, greeting, parsed, queue, pend, request, stage,
                 pipelining, sent, written, received, clientEnd, originVars>>

Connected ==
  /\ On(2, "WRITE", "CONNECTING")
  /\ Leave(2, Outcome("WELCOME_READ", "READ", "NOOP", "KEEP"))
  /\ UNCHANGED <<rb, wb, sb, greeting, parsed, queue, pend, request, stage,
                 pipelining, fault, clientVars, originVars>>

WelcomeReadStep ==
  /\ On(2, "READ", "WELCOME_READ")
  /\ \E n \in FromOrigin(Room(wb)) :
       /\ greeting' = (n = Room(wb))
       /\ IF n > 0
          THEN /\ wb' = Put(wb, Slice(replies, fetched, n)) /\ fetched' = fetched + n
               /\ Leave(2, ToClient("WELCOME_WRITE", "WRITE"))
          ELSE Leave(2, Fail) /\ UNCHANGED <<wb, fetched>>
  /\ UNCHANGED <<rb, sb, parsed, queue, pend, request, stage, pipelining, fault,
                 clientVars, forwarded, taken, cut, replies, offers, originEnd>>

\* Entering CAPA sends the command and resets the response parser.
WelcomeWriteStep ==
  /\ On(1, "WRITE", "WELCOME_WRITE")
  /\ \E n \in ToClientSends(Len(wb.data)) :
       LET left == Drop(wb, n) IN
       IF n = -1 THEN Leave(1, Fail) /\ UNCHANGED <<wb, request, stage, fault, delivered, forwarded>>
       ELSE /\ wb' = left
            /\ delivered' = delivered \o SubSeq(wb.data, 1, n)
            /\ IF greeting THEN Leave(1, ToOrigin("WELCOME_READ", "READ"))
               ELSE IF CanRead(left) THEN Leave(1, Stay("WELCOME_WRITE"))
               ELSE Leave(1, ToOrigin("CAPA", "READ"))
            /\ IF state' = "CAPA"
               THEN /\ forwarded' = forwarded \o Line(Capa)
                    /\ request' = Capa /\ stage' = "status"
                    /\ fault' \in Broken(originEnd)
               ELSE UNCHANGED <<request, stage, fault, forwarded>>
  /\ UNCHANGED <<rb, sb, greeting, parsed, queue, pend, pipelining, sent, written, received,
                 clientEnd, taken, cut, replies, fetched, offers, originEnd>>

\* What the reply to a CAPA says.  A negative one has no capabilities, and
\* is_pipelining_available searches NULL.
CapaResult(last) == /\ pipelining' = (last.mark = "pipe")
                    /\ fault' = IF last.part = "status" THEN "null CAPA reply" ELSE "none"

\* Entering REQUEST resets the request parser.
CapaReadStep ==
  /\ On(2, "READ", "CAPA")
  /\ \E n \in FromOrigin(Room(wb)) :
       IF n <= 0 THEN Leave(2, Fail) /\ UNCHANGED <<wb, sb, stage, parsed, pipelining, fault, delivered, fetched>>
       ELSE LET b  == Put(wb, Slice(replies, fetched, n))
                k  == Consumed(b.data)
                st == StageAfter(b.data)[k] IN
            /\ fetched' = fetched + n
            /\ wb' = Drop(b, k)
            /\ IF st = "error"
               THEN \* log_response names a status that may not have been read
                    /\ Leave(2, FailMute)
                    /\ delivered' = delivered \o Notice(Capa)
                    /\ fault' \in Broken(clientEnd) \cup {"unset response"}
                    /\ UNCHANGED <<sb, stage, parsed, pipelining>>
               ELSE /\ stage' = st
                    /\ UNCHANGED delivered
                    /\ IF st = "done"
                       THEN /\ sb' = EmptyBuffer /\ parsed' = <<>>
                            /\ CapaResult(b.data[k])
                            /\ Leave(2, ToClient("REQUEST", "READ"))
                       ELSE /\ sb' = Put(sb, Fitting(sb, SubSeq(b.data, 1, k)))
                            /\ Leave(2, Stay("CAPA"))
                            /\ UNCHANGED <<parsed, pipelining, fault>>
  /\ UNCHANGED <<rb, greeting, queue, pend, request, sent, written, received, clientEnd,
                 forwarded, taken, cut, replies, offers, originEnd>>

-----------------------------------------------------------------------------
(* REQUEST.                                                                *)

\* request_consume: up to the end of the first line.
LineEnds(data) == {n \in 1..Len(data) : EndsLine(data[n])}
FirstLine(data) ==
  IF LineEnds(data) = {} THEN Len(data)
  ELSE CHOOSE n \in LineEnds(data) : \A m \in LineEnds(data) : n <= m

\* The parser accepts what it was fed since its reset if that is one line and
\* a known command.
Accepts(units) == LET r == Last(units).id IN Kind(r) # "bad" /\ units = Line(r)

\* process_request, for a line that is complete; b is what it leaves unread.
ProcessRequest(units, b) ==
  LET r == Last(units).id IN
  IF Accepts(units)
  THEN /\ queue' = Enqueue(queue, r)
       /\ parsed' = <<>>
       /\ Leave(1, IF CanRead(b) THEN Stay("REQUEST") ELSE ToOrigin("REQUEST", "WRITE"))
       /\ UNCHANGED <<delivered, fault>>
  ELSE /\ Tell(r)
       /\ UNCHANGED queue
       /\ IF IsEmpty(queue)
          THEN parsed' = <<>> /\ Leave(1, Stay("REQUEST"))
          ELSE parsed' = units /\ Leave(1, ToOrigin("REQUEST", "WRITE"))

RequestReadStep ==
  /\ On(1, "READ", "REQUEST")
  /\ \E n \in FromClient(Room(rb)) :
       IF n <= 0 /\ ~CanRead(rb)
       THEN /\ Leave(1, IF pipelining /\ IsEmpty(queue) THEN Stay("DONE") ELSE Fail)
            /\ UNCHANGED <<rb, parsed, queue, fault, received, delivered>>
       ELSE LET got   == IF n > 0 THEN n ELSE 0
                b     == Put(rb, Slice(written, received, got))
                k     == FirstLine(b.data)
                units == parsed \o SubSeq(b.data, 1, k) IN
            /\ received' = received + got
            /\ rb' = Drop(b, k)
            /\ IF LineEnds(b.data) # {} THEN ProcessRequest(units, Drop(b, k))
               ELSE /\ parsed' = units
                    /\ Leave(1, Stay("REQUEST"))
                    /\ UNCHANGED <<queue, fault, delivered>>
  /\ UNCHANGED <<wb, sb, greeting, pend, request, stage, pipelining, sent, written,
                 clientEnd, originVars>>

\* request_marshall, over a list of requests: it stops at the first one for
\* which there is no room.
FitsWhenEmpty(b, n) == n <= BufferSize           \* mutant: ignores what is unsent
Fits(b, n)          == n <= Room(b)
LinesOf(rs) ==
  LET lines[n \in 0..Len(rs)] == IF n = 0 THEN <<>> ELSE lines[n - 1] \o Line(rs[n])
  IN  lines[Len(rs)]
Marshalled(b, rs) ==
  LET n == CHOOSE n \in 0..Len(rs) :
             /\ \A m \in 1..n : Fits(b, Len(LinesOf(SubSeq(rs, 1, m))))
             /\ n < Len(rs) => ~Fits(b, Len(LinesOf(SubSeq(rs, 1, n + 1))))
  IN  [buf |-> Put(b, LinesOf(SubSeq(rs, 1, n))), count |-> n]

\* request_to_buffer: without pipelining the first request, with it all from
\* the cursor on; after a failure the one that failed, whether it fits or not,
\* and then all from the cursor on.  ret is what it returns.
RequestToBuffer ==
  IF pend = Null /\ ~pipelining
  THEN LET m == Marshalled(wb, <<PeekData(queue)>>)
       IN  [buf |-> m.buf, queue |-> queue,
            ret |-> IF m.count = 1 THEN Null ELSE PeekData(queue)]
  ELSE LET b    == IF pend = Null THEN wb ELSE Marshalled(wb, <<pend>>).buf
           rest == FromCurrent(queue)
           m    == Marshalled(b, rest)
       IN  IF m.count = Len(rest)
           THEN [buf |-> m.buf, queue |-> Rewind(queue), ret |-> Null]
           ELSE [buf |-> m.buf, queue |-> Walked(queue, m.count + 1),
                 ret |-> rest[m.count + 1]]

\* What response_init and process_response do with the next request; an empty
\* queue makes them abort.
NextResponse(q) ==
  IF IsEmpty(q) THEN fault' = "queue" /\ UNCHANGED <<queue, request, stage>>
  ELSE /\ request' = PeekData(q) /\ stage' = "status" /\ queue' = Dequeue(q)
       /\ UNCHANGED fault

\* History: a line that no buffer holds, which request_to_buffer drops when it
\* is called again, and a send that takes less than all, after which the rest
\* is in the way of what is marshalled next.
TooLong(call)  == call.ret # Null /\ Size(call.ret) > BufferSize
Short(call, n) == originEnd # "reset" /\ n # Len(call.buf.data)

\* One call of request_to_buffer and the send that follows it: inside the loop
\* if a request did not fit, else the last one.  The walk reads freed memory if
\* the cursor dangles, and peek_data's NULL is marshalled if the queue is empty.
RequestWriteStep ==
  /\ fault = "none" /\ state = "REQUEST" /\ armed[2] = "WRITE"
  /\ pend # Null \/ originEnd = "reset" \/ Len(forwarded) - taken < SockCap
  /\ IF IsEmpty(queue) \/ ((pipelining \/ pend # Null) /\ Dangling(queue))
     THEN /\ fault' = "queue"
          /\ UNCHANGED <<state, armed, wb, pend, queue, request, stage, forwarded, cut>>
     ELSE LET call == RequestToBuffer IN
          \E n \in ToOriginSends(Len(call.buf.data)) :
            LET left == IF n = -1 THEN call.buf ELSE Drop(call.buf, n) IN
            /\ wb' = left
            /\ forwarded' = IF n = -1 THEN forwarded ELSE forwarded \o SubSeq(call.buf.data, 1, n)
            /\ pend' = call.ret
            /\ cut' = (cut \/ TooLong(call) \/ Short(call, n))
            /\ IF call.ret # Null
               THEN queue' = call.queue /\ UNCHANGED <<state, armed, request, stage, fault>>
               ELSE IF n = -1
               THEN queue' = call.queue /\ Leave(2, Fail) /\ UNCHANGED <<request, stage, fault>>
               ELSE IF CanRead(left)
               THEN queue' = call.queue /\ Leave(2, Stay("REQUEST")) /\ UNCHANGED <<request, stage, fault>>
               ELSE NextResponse(call.queue) /\ Leave(2, Outcome("RESPONSE", "READ", "KEEP", "KEEP"))
  /\ UNCHANGED <<rb, sb, greeting, parsed, pipelining, clientVars, taken, replies,
                 fetched, offers, originEnd>>

-----------------------------------------------------------------------------
(* RESPONSE.                                                               *)

ResponseReadStep ==
  /\ On(2, "READ", "RESPONSE")
  /\ \E n \in FromOrigin(Room(wb)) :
       IF n <= 0 /\ ~CanRead(wb)
       THEN \* log_response names a status that may never have been read
            /\ Leave(2, IF n = -1 THEN Fail ELSE Stay("RESPONSE"))
            /\ fault' \in {"none"} \cup
                 IF n = -1 /\ stage = "status" THEN {"unset response"} ELSE {}
            /\ UNCHANGED <<wb, sb, stage, pipelining, delivered, fetched>>
       ELSE LET got == IF n > 0 THEN n ELSE 0
                b   == Put(wb, Slice(replies, fetched, got))
                k   == Consumed(b.data)
                st  == StageAfter(b.data)[k] IN
            /\ fetched' = fetched + got
            /\ wb' = Drop(b, k)
            /\ IF st = "error"
               THEN Leave(2, FailMute) /\ Tell(request) /\ UNCHANGED <<sb, stage, pipelining>>
               ELSE /\ sb' = Put(sb, Fitting(sb, SubSeq(b.data, 1, k)))
                    /\ stage' = st
                    /\ Leave(2, ToClient("RESPONSE", "WRITE"))
                    /\ IF st = "done" /\ Kind(request) = "capa" THEN CapaResult(b.data[k])
                       ELSE UNCHANGED <<pipelining, fault>>
                    /\ UNCHANGED delivered
  /\ UNCHANGED <<rb, greeting, parsed, queue, pend, request, sent, written, received,
                 clientEnd, forwarded, taken, cut, replies, offers, originEnd>>

\* Have the requests that are still queued been sent already?
NoneToAwait == FALSE                             \* mutant: back to REQUEST at once
MoreToAwait == pipelining /\ ~IsEmpty(queue)

\* process_response: the whole reply has been written; out is what the client
\* has been sent by then.  Entering REQUEST resets the request parser.
ProcessResponse(out) ==
  IF Kind(request) = "user"
  THEN /\ Leave(1, FailMute)
       /\ delivered' = out \o Notice(request)
       /\ fault' \in Broken(clientEnd)
       /\ UNCHANGED <<queue, request, stage, parsed>>
  ELSE /\ delivered' = out
       /\ IF Kind(request) = "quit"
          THEN /\ Leave(1, Outcome("DONE", "NOOP", "KEEP", "KEEP"))
               /\ UNCHANGED <<queue, request, stage, parsed, fault>>
          ELSE IF MoreToAwait
          THEN /\ NextResponse(queue)
               /\ Leave(1, ToOrigin("RESPONSE", "READ"))
               /\ UNCHANGED parsed
          ELSE /\ parsed' = <<>>
               /\ Leave(1, IF IsEmpty(queue) THEN Outcome("REQUEST", "READ", "KEEP", "NOOP")
                           ELSE ToOrigin("REQUEST", "WRITE"))
               /\ UNCHANGED <<queue, request, stage, fault>>

ResponseWriteStep ==
  /\ On(1, "WRITE", "RESPONSE")
  /\ \E n \in ToClientSends(Len(sb.data)) :
       LET left == Drop(sb, n)
           out  == delivered \o SubSeq(sb.data, 1, n) IN
       IF n = -1 THEN Leave(1, Fail) /\ UNCHANGED <<sb, delivered, queue, request, stage, parsed, fault>>
       ELSE /\ sb' = left
            /\ IF ~CanRead(left) /\ stage = "done" THEN ProcessResponse(out)
               ELSE /\ delivered' = out
                    /\ Leave(1, IF CanRead(left) THEN Stay("RESPONSE")
                                ELSE ToOrigin("RESPONSE", "READ"))
                    /\ UNCHANGED <<queue, request, stage, parsed, fault>>
  /\ UNCHANGED <<rb, wb, greeting, pend, pipelining, sent, written, received, clientEnd, originVars>>

-----------------------------------------------------------------------------
Init ==
  /\ state = "CONNECTING" /\ armed = <<"NOOP", "WRITE">>
  /\ rb = EmptyBuffer /\ wb = EmptyBuffer /\ sb = EmptyBuffer
  /\ greeting = FALSE /\ parsed = <<>>
  /\ queue = NewQueue /\ pend = Null
  /\ request = Capa /\ stage = "status" /\ pipelining = FALSE
  /\ fault = "none"
  /\ sent = <<>> /\ written = <<>> /\ received = 0 /\ delivered = <<>>
  /\ forwarded = <<>> /\ taken = 0 /\ fetched = 0 /\ cut = FALSE
  /\ \E n \in BannerSizes :
       replies = [k \in 1..n |-> ReplyUnit(Banner, "greeting", "none")]
  /\ offers \in BOOLEAN
  /\ clientEnd = "open" /\ originEnd = "open"

Proxy == \/ Refused \/ Connected
         \/ WelcomeReadStep \/ WelcomeWriteStep \/ CapaReadStep
         \/ RequestReadStep \/ RequestWriteStep
         \/ ResponseReadStep \/ ResponseWriteStep

Next == Proxy \/ ClientSend \/ ClientEnds \/ OriginServe \/ OriginEnds

Spec == Init /\ [][Next]_vars

\* The selector's loop calls the handler of a descriptor that stays ready, and
\* an origin answers what it has received.
Fairness == WF_vars(Proxy) /\ WF_vars(OriginServe)
FairSpec == Spec /\ Fairness

-----------------------------------------------------------------------------
Ids        == {Banner, Capa} \cup 1..MaxCommands
LineUnits  == [id : Ids \ {Banner}, part : {"line"}, nth : Nat \ {0}]
ReplyUnits == [id : Ids, part : {"greeting", "notice", "status", "body", "end"},
               mark : StatusSet \cup {"none", "pipe"}]

TypeOK ==
  /\ state \in States \cup {"CLOSED"} /\ armed \in Interests \X Interests
  /\ {rb, wb, sb} \subseteq Buffers(LineUnits \cup ReplyUnits)
  /\ \A b \in {rb, wb, sb} : b.off \in 0..(BufferSize - 1)
  /\ greeting \in BOOLEAN /\ pipelining \in BOOLEAN
  /\ parsed \in Seq(LineUnits)
  /\ queue.nodes \in Seq(1..MaxCommands)
  /\ {queue.current, pend, request} \subseteq 0..MaxCommands
  /\ stage \in {"status", "body", "done"}
  /\ fault \in {"none", "SIGPIPE", "queue", "null CAPA reply", "unset response"}
  /\ sent \in Seq([kind : Kinds, size : LineSizes])
  /\ written \in Seq(LineUnits) /\ received \in 0..Len(written)
  /\ taken \in 0..Len(forwarded) /\ fetched \in 0..Len(replies)
  /\ forwarded \in Seq(LineUnits \cup ReplyUnits) /\ cut \in BOOLEAN
  /\ delivered \in Seq(ReplyUnits) /\ replies \in Seq(ReplyUnits)
  /\ offers \in BOOLEAN /\ {clientEnd, originEnd} \subseteq Ends

\* R <= W <= limit: no handler writes past the end of a buffer, whatever sizes
\* the sockets take and leave (the assertions of buffer.c).
BuffersInBounds == InBounds(rb) /\ InBounds(wb) /\ InBounds(sb)

\* The commands the client has sent and the request parser has seen whole and
\* accepted, in order.
Accepted ==
  LET read == SubSeq(written, 1, received - Len(rb.data))
      ends == Only(read, LAMBDA u : EndsLine(u) /\ Kind(u.id) # "bad")
  IN  [i \in 1..Len(ends) |-> ends[i].id]

OfClient(s) == Only(s, LAMBDA u : u.part = "line" /\ u.id # Capa)
OfOrigin(s) == Only(s, LAMBDA u : u.part # "notice" /\ u.part # "line" /\ u.id # Capa)

\* The next six hold until something is cut off: the parser takes lines that no
\* buffer holds, and a send may take less than all, and from then on none holds.

\* What the proxy sends the origin is what the client sent, less the lines it
\* refuses: whole commands, in order, none twice and none left out.
RequestsInOrder == ~cut => IsPrefix(OfClient(forwarded), LinesOf(Accepted))

\* What the origin sends reaches the client whole and in order, through two
\* buffers and however it is fragmented, but for the answer to the proxy's CAPA.
RepliesInOrder ==
  ~cut =>
    /\ IsPrefix(OfOrigin(delivered), OfOrigin(replies))
    /\ Alive => OfOrigin(delivered \o sb.data \o wb.data)
                  = OfOrigin(SubSeq(replies, 1, fetched))

\* While a request is being answered the client is only written units of the
\* origin's answer to that same request.
ReplyMatchesRequest ==
  ~cut /\ state = "RESPONSE" => \A i \in 1..Len(sb.data) : sb.data[i].id = request

\* The proxy only waits for the answer to a request it has sent whole, and when
\* pipelining it has also sent every request still queued.
AwaitedRequestWasSent ==
  ~cut /\ state = "RESPONSE" /\ Alive =>
    \A r \in {request} \cup IF pipelining THEN ToSet(queue.nodes) ELSE {} :
      IsSuffix(Line(r), Only(forwarded, LAMBDA u : u.id = r))

\* Every accepted command is answered, being answered, or queued: those that
\* are not answered yet are exactly the current one and the queue, in order.
CommandsAccountedFor ==
  ~cut /\ state \in {"REQUEST", "RESPONSE"} /\ Alive =>
    LET open == (IF state = "RESPONSE" THEN <<request>> ELSE <<>>) \o queue.nodes IN
    /\ IsSuffix(open, Accepted)
    /\ \A i \in 1..(Len(Accepted) - Len(open)) : AnsweredTo(Accepted[i])

\* The walk over the queue never follows a pointer to a freed node, no request
\* is looked for in an empty queue.
QueueIsSound == ~cut => fault # "queue"

\* The connection, with all it relays, keeps to the control of its state
\* machine, which module Connections composes.
Control     == INSTANCE ConnectionControl
ControlSpec == Control!Spec

\* A client that waits for each answer gets one: its line is answered, by the
\* origin or the proxy, unless the connection is closed or a peer goes away.
EveryCommandAnswered ==
  \A r \in 1..MaxCommands :
    (Len(sent) >= r) ~> (AnsweredTo(r) \/ ~Alive \/ originEnd # "open")

\* "se leen las request ... y se las escribe al servidor origen" (pop3nio.c): a
\* command that has been received is sent to the origin.
EveryCommandForwarded ==
  \A r \in 1..MaxCommands :
    (r \in ToSet(Accepted))
      ~> (~Alive \/ originEnd # "open" \/ \E i \in 1..Len(forwarded) : forwarded[i].id = r)
=============================================================================
