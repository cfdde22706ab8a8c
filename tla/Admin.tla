-------------------------------- MODULE Admin --------------------------------
(***************************************************************************)
(* The administration service: the SCTP sessions of several administrators *)
(* (admin.c, admin_parser_request.c, admin_parse_response.c), what their   *)
(* requests do to the settings they share (admin_actions.c, filter_list.c) *)
(* and the metric that counts them (metrics.c).  A message is a whole SCTP *)
(* message.  The selector's thread runs one handler at a time; a handler   *)
(* that retries a failed send keeps the thread to itself.                  *)
(***************************************************************************)
EXTENDS FilterList, Integers, FiniteSets

CONSTANTS
  Admins,        \* the sessions, one per connection
  Requests,      \* the requests they may send, see Cmds
  MaxRequests,   \* bound: requests sent in all
  MaxTold,       \* bound: how much of what one administrator is sent is recorded
  CommandLines,  \* the media types given with -M: sequences of pairs
  Programs,      \* the transformation programs; the first one set is "cat"
  SendFails,     \* may a send fail although the peer is there (a full socket)?
  Leavers        \* the administrators that may go without a QUIT

\* A request is a command and a tuple: a pair for the commands on media types,
\* nothing if check_mime_format refuses it, a word for the others.
Malformed == <<>>
Pairs == {r.arg : r \in {q \in Requests : q.cmd \in {"forbid", "allow"} /\ q.arg # Malformed}}
Cmds  == {"auth", "set", "get", "switch", "metric", "list", "forbid", "allow", "quit",
          "version"}   \* a request of a later version of the protocol
Plain == "stripmime"   \* the program that SET_T answers with a piece of advice

ASSUME AdminAssumption ==
  /\ IsFiniteSet(Admins)
  /\ {MaxRequests, MaxTold} \subseteq Nat
  /\ SendFails \in BOOLEAN /\ Leavers \subseteq Admins

\* What a client or the command line can ask for.
ASSUME RequestsAssumption ==
  /\ \A r \in Requests :
       /\ r.cmd \in Cmds
       /\ r.cmd \in {"forbid", "allow"} => r.arg = Malformed \/ r.arg \in STRING \X STRING
       /\ r.cmd = "set" => r.arg[1] \in Programs
  /\ CommandLines \subseteq Seq(STRING \X STRING)

VARIABLES
  conn,      \* [Admins -> "none", "registered", "closed"]: its item and socket
  interest,  \* its item's interest
  greeted,   \* a_status: ST_CONNECTED once the welcome has been sent
  due,       \* resp_data and req_status: the reply that admin_write will send
  failed,    \* resp_status is not RESP_PARSE_OK
  quit,
  writing,   \* the administrator whose admin_write is in its loop, or Nobody
  list, program, switch,  \* parameters
  current, most,          \* CURRENT_ADMIN_CONNECTED, MAX_ADMIN_CONNECTED
  died,      \* SIGPIPE, which is not ignored, ended the process
  inbox,     \* requests sent and not yet received, by administrator
  told,      \* what each administrator has received
  left,      \* the administrators that have gone
  answers,   \* history: what every request was answered, in order
  replies    \* history: the replies among them to each administrator

settings == <<list, program, switch>>
metrics  == <<current, most>>
session  == <<conn, interest, greeted, due, failed, quit>>
history  == <<answers, replies>>
vars     == <<session, writing, settings, metrics, died, inbox, told, left, history>>

Nobody == "nobody"

\* A reply: its status, 1 or 0, and its data, a word or a word and a value.
ReplyOf(status, data) == [status |-> status, data |-> data]
Empty   == ReplyOf(1, <<>>)
Welcome == ReplyOf(1, <<"welcome">>)
Error(why) == ReplyOf(0, <<why>>)
Value(word, v) == ReplyOf(1, <<word, v>>)

-----------------------------------------------------------------------------
(* What a request does: parse_action.  An effect is the reply and the new  *)
(* settings.                                                               *)

Effect(l, p, s, reply) == [list |-> l, program |-> p, switch |-> s, reply |-> reply]
Says(reply) == {Effect(list, program, switch, reply)}

\* forbid_mime
Covered(r) == FindMime(list, r[1], r[2])
ForbidMime(r) ==
  IF r = Malformed THEN Says(Error("forbid error"))
  ELSE IF Covered(r) THEN Says(Error("already forbidden"))
  ELSE {Effect(o.list, program, switch,
               IF o.status = 0 THEN Empty ELSE Error("forbid error")) :
          o \in ForbidNew(list, r[1], r[2])}

\* allow_mime.  A whole type is allowed even if it is not forbidden as such.
AllowMime(r) ==
  IF r = Malformed THEN Says(Error("allow error"))
  ELSE IF ~Covered(r) /\ r[2] # AnySub THEN Says(Error("already allowed"))
  ELSE LET o == AllowType(list, r[1], r[2]) IN
       {Effect(o.list, program, switch,
               CASE o.status = -2 /\ Covered(r) -> Error("wildcard")
                 [] o.status = -1 -> Error("allow error")
                 [] OTHER         -> Empty)}

Effects(r) ==
  CASE r.cmd = "version" -> Says(Error("version"))
    [] r.cmd = "auth"    -> Says(IF r.arg = <<"right">> THEN Empty ELSE Error("password"))
    [] r.cmd = "set"     -> {Effect(list, r.arg[1], switch,
                                    IF r.arg[1] = Plain THEN ReplyOf(1, <<"advice">>) ELSE Empty)}
    [] r.cmd = "get"     -> Says(Value("program", program))
    [] r.cmd = "switch"  -> {Effect(list, program, ~switch, Value("now", ~switch))}
    [] r.cmd = "metric"  -> Says(CASE r.arg = <<"current">> -> Value("count", current)
                                   [] r.arg = <<"most">>    -> Value("count", most)
                                   [] OTHER             -> Error("metric"))
    [] r.cmd = "list"    -> Says(Value("types", GetForbiddenTypes(list)))
    [] r.cmd = "forbid"  -> ForbidMime(r.arg)
    [] r.cmd = "allow"   -> AllowMime(r.arg)
    [] OTHER             -> Says(Empty)   \* QUIT, answered by quit_admin

-----------------------------------------------------------------------------
(* The administrators (external).                                          *)

SentInAll == Len(answers) + MapThenSumSet(LAMBDA a : Len(inbox[a]), Admins)

SendRequest(a, r) ==
  /\ ~died /\ conn[a] = "registered" /\ a \notin left
  /\ SentInAll < MaxRequests
  /\ inbox' = [inbox EXCEPT ![a] = Append(@, r)]
  /\ UNCHANGED <<session, writing, settings, metrics, died, told, left, history>>

AdminSend(a) == \E r \in Requests : SendRequest(a, r)

AdminLeaves(a) ==
  /\ a \in Leavers /\ ~died /\ conn[a] = "registered" /\ a \notin left
  /\ left' = left \cup {a}
  /\ UNCHANGED <<session, writing, settings, metrics, died, inbox, told, history>>

-----------------------------------------------------------------------------
(* The handlers.                                                           *)

\* The selector calls a handler of a's item: no other handler is running.
Event(a, ev) == /\ ~died /\ writing \in {Nobody, a}
                /\ conn[a] = "registered" /\ interest[a] = ev

\* metric_add_admin_connected, before the result of accept is looked at.
Uncounted == UNCHANGED metrics                   \* mutant: the metric forgotten
Counted   == /\ current' = current + 1
             /\ most' = IF most < current' THEN current' ELSE most

Accept(a) ==
  /\ ~died /\ writing = Nobody /\ conn[a] = "none"
  /\ Counted
  /\ \/ conn' = [conn EXCEPT ![a] = "registered"] /\ interest' = [interest EXCEPT ![a] = "WRITE"]
     \/ conn' = [conn EXCEPT ![a] = "closed"] /\ UNCHANGED interest
  /\ UNCHANGED <<greeted, due, failed, quit, writing, settings, died, inbox, told, left, history>>

\* What admin_read arms the descriptor for, whatever it has read.
StaysReading == "READ"                           \* mutant: goes on reading
Answering    == "WRITE"

\* parse_admin_request with a message: the request takes effect at once, its
\* reply waits for admin_write.
ReadRequest(a) ==
  /\ Event(a, "READ") /\ inbox[a] # <<>>
  /\ LET r == Head(inbox[a]) IN
     \E e \in Effects(r) :
       /\ list' = e.list /\ program' = e.program /\ switch' = e.switch
       /\ due' = [due EXCEPT ![a] = e.reply]
       /\ quit' = [quit EXCEPT ![a] = r.cmd = "quit"]
       /\ answers' = Append(answers, [admin |-> a, req |-> r, reply |-> e.reply])
       /\ replies' = [replies EXCEPT ![a] = Append(@, e.reply)]
  /\ inbox' = [inbox EXCEPT ![a] = Tail(@)]
  /\ interest' = [interest EXCEPT ![a] = Answering]
  /\ UNCHANGED <<conn, greeted, failed, writing, metrics, died, told, left>>

\* parse_admin_request without one: the administrator has gone.
ReadNothing(a) ==
  /\ Event(a, "READ") /\ inbox[a] = <<>> /\ a \in left
  /\ due' = [due EXCEPT ![a] = Error("read")]
  /\ interest' = [interest EXCEPT ![a] = Answering]
  /\ UNCHANGED <<conn, greeted, failed, quit, writing, settings, metrics, died, inbox,
                 told, left, history>>

\* What parse_admin_response sends: the welcome, or the reply with the status
\* of what has failed so far.
Outgoing(a) == IF ~greeted[a] THEN Welcome
               ELSE IF failed[a] THEN [due[a] EXCEPT !.status = 0] ELSE due[a]

\* One turn of admin_write's loop.  A failed send marks resp_status, which is
\* only reset behind the loop; to a peer that has gone it may raise SIGPIPE, or still
\* succeed.
KeepsWriting == "WRITE"                          \* mutant: armed for writing again
Reading      == "READ"

Receives(a, reply) ==
  told' = [told EXCEPT ![a] = IF a \notin left /\ Len(@) < MaxTold THEN Append(@, reply) ELSE @]

Sent(a) ==
  /\ Event(a, "WRITE") /\ ~quit[a]
  /\ Receives(a, Outgoing(a))
  /\ greeted' = [greeted EXCEPT ![a] = TRUE]
  /\ IF failed[a]
     THEN writing' = a /\ UNCHANGED <<interest, due>>
     ELSE /\ writing' = Nobody
          /\ interest' = [interest EXCEPT ![a] = Reading]
          /\ due' = [due EXCEPT ![a] = Empty]
  /\ UNCHANGED <<conn, failed, quit, settings, metrics, died, inbox, left, history>>

NotSent(a) ==
  /\ Event(a, "WRITE") /\ ~quit[a] /\ (a \in left \/ SendFails)
  /\ failed' = [failed EXCEPT ![a] = TRUE]
  /\ writing' = a
  /\ died' \in {FALSE, (a \in left)}
  /\ UNCHANGED <<conn, interest, greeted, due, quit, settings, metrics, inbox, told, left, history>>

\* quit_admin, once, whether its reply is sent or not; the socket is closed and
\* unregistered, the struct freed.
Quit(a) ==
  /\ Event(a, "WRITE") /\ quit[a]
  /\ \/ Receives(a, Empty) /\ UNCHANGED died
     \/ (a \in left \/ SendFails) /\ UNCHANGED told /\ died' \in {FALSE, (a \in left)}
  /\ conn' = [conn EXCEPT ![a] = "closed"]
  /\ interest' = [interest EXCEPT ![a] = "NOOP"]
  /\ current' = current - 1
  /\ UNCHANGED <<greeted, due, failed, quit, writing, settings, most, inbox, left, history>>

-----------------------------------------------------------------------------
\* The list behind -M, where memory does not run out.
Forbidden(l, r) == (CHOOSE o \in ForbidNew(l, r[1], r[2]) : o.status = 0).list
CommandLine(rs) ==
  LET l[n \in 0..Len(rs)] == IF n = 0 THEN <<>> ELSE Forbidden(l[n - 1], rs[n])
  IN  l[Len(rs)]

Init ==
  /\ conn = [a \in Admins |-> "none"]
  /\ interest = [a \in Admins |-> "NOOP"]
  /\ greeted = [a \in Admins |-> FALSE]
  /\ due = [a \in Admins |-> Empty]
  /\ failed = [a \in Admins |-> FALSE]
  /\ quit = [a \in Admins |-> FALSE]
  /\ writing = Nobody
  /\ list \in {CommandLine(rs) : rs \in CommandLines}
  /\ program = "cat" /\ switch = FALSE
  /\ current = 0 /\ most = 0
  /\ died = FALSE
  /\ inbox = [a \in Admins |-> <<>>]
  /\ told = [a \in Admins |-> <<>>]
  /\ left = {}
  /\ answers = <<>>
  /\ replies = [a \in Admins |-> <<>>]

Handler(a) == \/ ReadRequest(a) \/ ReadNothing(a)
              \/ Sent(a) \/ NotSent(a) \/ Quit(a)

ServerNext(a) == Accept(a) \/ Handler(a)

Next == \E a \in Admins : ServerNext(a) \/ AdminSend(a) \/ AdminLeaves(a)

Spec == Init /\ [][Next]_vars

\* Every round of the selector runs the handler of each ready descriptor, and an
\* administrator that stays reads what it is sent, so that a send that is tried
\* again and again succeeds.
FairSpec == Spec /\ \A a \in Admins : WF_vars(Handler(a)) /\ SF_vars(Sent(a))

-----------------------------------------------------------------------------
Nodes == [name : STRING, wildcard : BOOLEAN, subs : Seq(STRING)]

\* Types; and a type whose subtypes are all forbidden lists none of them.
TypeOK ==
  /\ conn \in [Admins -> {"none", "registered", "closed"}]
  /\ interest \in [Admins -> {"NOOP", "READ", "WRITE"}]
  /\ {greeted, failed, quit} \subseteq [Admins -> BOOLEAN]
  /\ writing \in Admins \cup {Nobody}
  /\ list \in Seq(Nodes) /\ \A i \in 1..Len(list) : list[i].wildcard => list[i].subs = <<>>
  /\ program \in Programs \cup {"cat"} /\ switch \in BOOLEAN /\ died \in BOOLEAN
  /\ {current, most} \subseteq Int
  /\ inbox \in [Admins -> Seq(Requests)]
  /\ \A a \in Admins : {due[a].status} \cup {told[a][i].status : i \in 1..Len(told[a])} \subseteq {0, 1}
  /\ left \subseteq Admins

\* Every administrator is sent the welcome and then one reply to each of its
\* requests, in order, whatever the others do to the settings in between
\* (request/response: docs/Informe.pdf, 2.1).
OneReplyEach == \A a \in Admins : IsPrefix(told[a], <<Welcome>> \o replies[a])

\* The metric counts every administrator that is connected, and the maximum
\* was reached.
AdminsCounted == /\ Cardinality({a \in Admins : conn[a] = "registered"}) <= current
                 /\ current <= most /\ most <= Cardinality({a \in Admins : conn[a] # "none"})

\* The linked lists implement a set of rules, but for the two exceptions that
\* MediaTypes names, and what each command on them is told agrees with that set
\* at the moment it takes effect.
Result(reply) ==
  CASE reply = Empty -> "ok"
    [] reply.data \in {<<"already forbidden">>, <<"already allowed">>} -> "already"
    [] reply.data = <<"wildcard">> -> "wildcard"
    [] OTHER -> "error"
AboutMime(x) == \/ x.req.cmd = "list"
                \/ x.req.cmd \in {"forbid", "allow"} /\ x.req.arg # Malformed
MimeAnswer(x) ==
  IF x.req.cmd = "list" THEN [op |-> "list", rule |-> <<>>, result |-> x.reply.data[2]]
  ELSE [op |-> x.req.cmd, rule |-> x.req.arg, result |-> Result(x.reply)]
MimeAnswers ==
  LET f[n \in 0..Len(answers)] ==
        IF n = 0 THEN <<>>
        ELSE IF AboutMime(answers[n]) THEN Append(f[n - 1], MimeAnswer(answers[n])) ELSE f[n - 1]
  IN  f[Len(answers)]
Named == Pairs \cup UNION {ToSet(rs) : rs \in CommandLines}
Filter == INSTANCE MediaTypes
            WITH Rules   <- Named,
                 rules   <- GetForbiddenTypes(list),
                 double  <- Doubled(list),
                 answers <- MimeAnswers
FilterSpec == Filter!Spec

\* Each administrator is sent a reply to all it asks, as long as none goes
\* without a QUIT.
AllAnswered(a) == Len(told[a]) > Len(inbox[a]) + Len(replies[a]) \/ conn[a] # "registered"
EveryRequestAnswered == \A a \in Admins : ~AllAnswered(a) ~> (AllAnswered(a) \/ left # {})
=============================================================================
