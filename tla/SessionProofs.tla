--------------------------- MODULE SessionProofs ---------------------------
(***************************************************************************)
(* The relay implements the control of its state machine, for every size   *)
(* of the buffers and every traffic of client and origin: a handler of     *)
(* module Session is a handler of ConnectionControl, and everything else   *)
(* is a stutter.  With it goes the half-duplex promise of the control, for *)
(* any sequence of handlers.                                               *)
(*                                                                         *)
(* Behind that, the client's side of the conversation, ClientInv: what is  *)
(* read of its stream, accepted and queued.  It needs no assumption on the *)
(* sizes; module RelayProofs goes on from it to the origin's side.         *)
(***************************************************************************)
EXTENDS Session, Pop3StmProofs, SequenceLemmas

\* The instance of the table is the table.
LEMMA SameTable ==
  ASSUME NEW st, NEW ev
  PROVE  /\ Control!Outcomes(st, ev) = Outcomes(st, ev)
         /\ Control!HasHandler(st, ev) <=> HasHandler(st, ev)
  <1> USE DEF Control!Outcome, Outcome, Control!Fail, Fail, Control!FailMute, FailMute,
              Control!Stay, Stay, Control!ToClient, ToClient, Control!ToOrigin, ToOrigin
  <1>1. Control!OriginServerResolution = OriginServerResolution
    BY DEF Control!OriginServerResolution, OriginServerResolution
  <1>2. Control!Connecting = Connecting
    BY DEF Control!Connecting, Connecting
  <1>3. Control!WelcomeRead = WelcomeRead /\ Control!WelcomeWrite = WelcomeWrite
    BY DEF Control!WelcomeRead, WelcomeRead, Control!WelcomeWrite, WelcomeWrite
  <1>4. Control!CapaRead = CapaRead
    BY DEF Control!CapaRead, CapaRead
  <1>5. Control!RequestRead = RequestRead /\ Control!RequestWrite = RequestWrite
    BY DEF Control!RequestRead, RequestRead, Control!RequestWrite, RequestWrite
  <1>6. Control!ResponseRead = ResponseRead /\ Control!ResponseWrite = ResponseWrite
    BY DEF Control!ResponseRead, ResponseRead, Control!ResponseWrite, ResponseWrite,
           Control!ReplyWritten, ReplyWritten
  <1> QED BY ONLY <1>1, <1>2, <1>3, <1>4, <1>5, <1>6
          DEF Control!Outcomes, Outcomes, Control!HasHandler, HasHandler

\* A handler that leaves an outcome of its state's table is a step of the
\* abstract machine.
LEMMA LeaveIsHandle ==
  ASSUME NEW side \in {1, 2}, NEW ev \in {"READ", "WRITE"}, armed[side] = ev,
         HasHandler(state, ev), NEW o \in Outcomes(state, ev), Leave(side, o)
  PROVE  Control!Next
  <1>1. Control!HasHandler(state, ev) /\ o \in Control!Outcomes(state, ev)
    BY SameTable
  <1>2. Control!Handle(side, ev, o)
    BY <1>1 DEF Leave, Control!Handle, Control!Closes, Closes, Control!Given, Given
  <1> QED BY <1>1, <1>2 DEF Control!Next

\* One lemma per state.
LEMMA ConnectingHandled == Refused \/ Connected => Control!Next
  <1> SUFFICES ASSUME Refused \/ Connected PROVE Control!Next
    OBVIOUS
  <1>1. PICK o \in Outcomes(state, "WRITE") :
          armed[2] = "WRITE" /\ HasHandler(state, "WRITE") /\ Leave(2, o)
    BY DEF Refused, Connected, On, Outcomes, HasHandler, Connecting
  <1> QED BY <1>1, LeaveIsHandle

LEMMA WelcomeHandled == WelcomeReadStep \/ WelcomeWriteStep => Control!Next
  <1> SUFFICES ASSUME WelcomeReadStep \/ WelcomeWriteStep PROVE Control!Next
    OBVIOUS
  <1>1. CASE WelcomeReadStep
    <2>1. PICK o \in Outcomes(state, "READ") :
            armed[2] = "READ" /\ HasHandler(state, "READ") /\ Leave(2, o)
      BY <1>1 DEF WelcomeReadStep, On, Outcomes, HasHandler, WelcomeRead
    <2> QED BY <2>1, LeaveIsHandle
  <1>2. CASE WelcomeWriteStep
    <2>1. PICK o \in Outcomes(state, "WRITE") :
            armed[1] = "WRITE" /\ HasHandler(state, "WRITE") /\ Leave(1, o)
      BY <1>2 DEF WelcomeWriteStep, On, Outcomes, HasHandler, WelcomeWrite
    <2> QED BY <2>1, LeaveIsHandle
  <1> QED BY <1>1, <1>2

LEMMA CapaHandled == CapaReadStep => Control!Next
  <1> SUFFICES ASSUME CapaReadStep PROVE Control!Next
    OBVIOUS
  <1>1. PICK o \in Outcomes(state, "READ") :
          armed[2] = "READ" /\ HasHandler(state, "READ") /\ Leave(2, o)
    BY DEF CapaReadStep, On, Outcomes, HasHandler, CapaRead
  <1> QED BY <1>1, LeaveIsHandle

\* request_write is one handler over several sends: only the last one moves the
\* machine.
LEMMA RequestHandled ==
  RequestReadStep \/ RequestWriteStep => Control!Next \/ UNCHANGED <<state, armed>>
  <1> SUFFICES ASSUME RequestReadStep \/ RequestWriteStep
               PROVE  Control!Next \/ UNCHANGED <<state, armed>>
    OBVIOUS
  <1>1. CASE RequestReadStep
    <2>1. PICK o \in Outcomes(state, "READ") :
            armed[1] = "READ" /\ HasHandler(state, "READ") /\ Leave(1, o)
      BY <1>1 DEF RequestReadStep, ProcessRequest, On, Outcomes, HasHandler, RequestRead
    <2> QED BY <2>1, LeaveIsHandle
  <1>2. CASE RequestWriteStep
    <2>1. \/ UNCHANGED <<state, armed>>
          \/ \E o \in Outcomes(state, "WRITE") :
               armed[2] = "WRITE" /\ HasHandler(state, "WRITE") /\ Leave(2, o)
      BY <1>2 DEF RequestWriteStep, Outcomes, HasHandler, RequestWrite
    <2> QED BY <2>1, LeaveIsHandle
  <1> QED BY <1>1, <1>2

LEMMA ResponseHandled == ResponseReadStep \/ ResponseWriteStep => Control!Next
  <1> SUFFICES ASSUME ResponseReadStep \/ ResponseWriteStep PROVE Control!Next
    OBVIOUS
  <1>1. CASE ResponseReadStep
    <2>1. PICK o \in Outcomes(state, "READ") :
            armed[2] = "READ" /\ HasHandler(state, "READ") /\ Leave(2, o)
      BY <1>1 DEF ResponseReadStep, On, Outcomes, HasHandler, ResponseRead
    <2> QED BY <2>1, LeaveIsHandle
  <1>2. CASE ResponseWriteStep
    <2>1. PICK o \in Outcomes(state, "WRITE") :
            armed[1] = "WRITE" /\ HasHandler(state, "WRITE") /\ Leave(1, o)
      BY <1>2 DEF ResponseWriteStep, ProcessResponse, On, Outcomes, HasHandler,
                  ResponseWrite, ReplyWritten
    <2> QED BY <2>1, LeaveIsHandle
  <1> QED BY <1>1, <1>2

\* Whatever the proxy relays and however its peers behave, the connection does
\* what its state machine allows, and nothing else.
THEOREM SessionFollowsControl == Spec => ControlSpec
  <1>1. Init => Control!Init
    BY DEF Init, Control!Init
  <1>2. [Next]_vars => [Control!Next]_(Control!vars)
    <2> SUFFICES ASSUME [Next]_vars PROVE Control!Next \/ UNCHANGED <<state, armed>>
      BY DEF Control!vars
    <2>1. CASE Proxy
      BY <2>1, ConnectingHandled, WelcomeHandled, CapaHandled, RequestHandled, ResponseHandled
         DEF Proxy
    <2>2. CASE ClientSend \/ ClientEnds \/ OriginServe \/ OriginEnds
      BY <2>2 DEF ClientSend, ClientEnds, OriginServe, OriginEnds, proxyVars
    <2>3. CASE UNCHANGED vars
      BY <2>3 DEF vars, proxyVars
    <2> QED BY <2>1, <2>2, <2>3 DEF Next
  <1> QED BY <1>1, <1>2, PTL DEF Spec, Control!Spec, ControlSpec

-----------------------------------------------------------------------------
(* At most one descriptor is armed.                                        *)

ArmedFor == /\ state \in States \cup {"CLOSED"}
            /\ IF state = "CLOSED" THEN armed = <<"NOOP", "NOOP">> ELSE armed \in Armed(state)

LEMMA HandleKeepsArmed ==
  ASSUME NEW side \in {1, 2}, NEW ev \in {"READ", "WRITE"}, NEW o \in Outcomes(state, ev),
         Control!Handle(side, ev, o), ArmedFor
  PROVE  ArmedFor'
  <1>1. state # "CLOSED"
    BY DEF ArmedFor, Control!Handle
  <1>2. state \in States /\ armed \in Armed(state) /\ armed[side] = ev
    BY <1>1 DEF ArmedFor, Control!Handle
  <1> USE DEF Control!Closes, Closes, Control!Given
  <1>3. CASE Closes(o.next)
    BY <1>3 DEF Control!Handle, ArmedFor
  <1>4. CASE ~Closes(o.next)
    <2>1. o.next \in States /\ Left(armed, side, o) \in Armed(o.next)
      BY <1>2, <1>4, HandlerKeepsArmed
    <2>2. armed \in Interests \X Interests
      BY <1>2 DEF Armed, States, Interests
    <2>3. state' = o.next /\ armed' = Left(armed, side, o)
      BY <2>2, <1>4 DEF Control!Handle, Left, Given
    <2>4. "CLOSED" \notin States
      BY DEF States
    <2> QED BY <2>1, <2>3, <2>4 DEF ArmedFor
  <1> QED BY <1>3, <1>4

LEMMA ControlArms == ControlSpec => []ArmedFor
  <1>1. Control!Init => ArmedFor
    BY DEF Control!Init, ArmedFor, States, Armed
  <1>2. ArmedFor /\ [Control!Next]_(Control!vars) => ArmedFor'
    <2>1. CASE UNCHANGED Control!vars
      BY <2>1 DEF Control!vars, ArmedFor
    <2>2. CASE Control!Next
      BY <2>2, HandleKeepsArmed, SameTable DEF Control!Next
    <2> QED BY <2>1, <2>2
  <1> QED BY <1>1, <1>2, PTL DEF ControlSpec, Control!Spec

\* While a connection is open at most one of its two descriptors is armed, and
\* for an event the state has a handler for, whichever outcomes the handlers
\* have had; a closed connection waits for nothing.
THEOREM AlwaysHalfDuplex == ControlSpec => []Control!HalfDuplex
  <1>1. ArmedFor => Control!HalfDuplex
    BY DEF ArmedFor, Control!HalfDuplex, Control!Armed, Armed
  <1> QED BY <1>1, ControlArms, PTL

\* So it is with the relay.
LEMMA RelayArms == Spec => []ArmedFor
  BY SessionFollowsControl, ControlArms, PTL

-----------------------------------------------------------------------------
(* What the client has sent, and how much of it has been read.             *)

Command == [kind : Kinds, size : LineSizes]

\* A unit of the client's stream and the next one.
Follows(u, v) == IF EndsLine(u) THEN v.id = u.id + 1 /\ v.nth = 1
                 ELSE v.id = u.id /\ v.nth = u.nth + 1

WrittenIsSent ==
  /\ sent \in Seq(Command) /\ Len(sent) <= MaxCommands
  /\ written \in Seq(LineUnits)
  /\ \A i \in 1..Len(written) : written[i].id \in 1..Len(sent) /\ written[i].nth <= Size(written[i].id)
  /\ \A i \in 1..(Len(written) - 1) : Follows(written[i], written[i + 1])
  /\ IF written = <<>> THEN sent = <<>>
     ELSE /\ written[1].id = 1 /\ written[1].nth = 1
          /\ EndsLine(written[Len(written)]) /\ written[Len(written)].id = Len(sent)

Sound(b) == b \in Buffers(LineUnits \cup ReplyUnits) /\ InBounds(b)
              /\ (b.data = <<>> => b.off = 0)

\* The units the request parser has gone through, and the lines among them.
Read   == received - Len(rb.data)
AtLine == Read = 0 \/ EndsLine(written[Read])
Whole  == IF Read = 0 THEN 0
          ELSE IF EndsLine(written[Read]) THEN written[Read].id ELSE written[Read].id - 1

ReadIsWritten ==
  /\ received \in 0..Len(written) /\ Sound(rb) /\ Read \in 0..received
  /\ rb.data = SubSeq(written, Read + 1, received)

\* The parser holds the part of a line it has read, while requests are read; else
\* the reading has stopped between two lines.
ReadsRequests == state = "REQUEST" /\ armed[1] = "READ"
LineSoFar == [k \in 1..written[Read].nth |-> [id |-> written[Read].id, part |-> "line", nth |-> k]]
Parsing == Alive => IF ~ReadsRequests THEN AtLine
                    ELSE parsed = IF AtLine THEN <<>> ELSE LineSoFar

AcceptedInOrder ==
  /\ Accepted \in Seq(1..Len(sent))
  /\ \A i \in 1..Len(Accepted) : i <= Accepted[i] /\ Accepted[i] <= Whole
  /\ \A i, j \in 1..Len(Accepted) : i < j => Accepted[i] < Accepted[j]

\* The commands in the order in which the origin is to get them, the proxy's own
\* first; the response parser is at the Turn-th, the queue holds those behind it.
Chain == <<Capa>> \o Accepted
Turn  == Len(Chain) - Len(queue.nodes)

QueueIsRest ==
  /\ queue.nodes \in Seq(1..MaxCommands) /\ Turn \in 1..Len(Chain)
  /\ request = Chain[Turn]
  /\ \A i \in 1..Len(queue.nodes) : queue.nodes[i] = Chain[Turn + i]

Early == {"CONNECTING", "WELCOME_READ", "WELCOME_WRITE", "CAPA"}
NothingYet == Alive /\ state \in Early =>
                received = 0 /\ rb = EmptyBuffer /\ queue = NewQueue /\ parsed = <<>>

ClientInv == /\ WrittenIsSent /\ ReadIsWritten /\ Parsing /\ parsed \in Seq(LineUnits)
             /\ AcceptedInOrder /\ QueueIsRest /\ NothingYet

-----------------------------------------------------------------------------
(* What is accepted.                                                       *)

IdsOf(s) == [i \in 1..Len(s) |-> s[i].id]
Good == {u \in LineUnits : EndsLine(u) /\ Kind(u.id) # "bad"}

LEMMA IdsOfAppend ==
  ASSUME NEW S, NEW s \in Seq(S), NEW e \in S
  PROVE  IdsOf(s \o <<e>>) = Append(IdsOf(s), e.id)
  BY DEF IdsOf

\* Accepted is a filter of the units read.
LEMMA AcceptedIs ==
  written \in Seq(LineUnits) /\ Read \in 0..Len(written)
    => Accepted = IdsOf(Filter(SubSeq(written, 1, Read), Good))
  <1> SUFFICES ASSUME written \in Seq(LineUnits), Read \in 0..Len(written)
               PROVE  Accepted = IdsOf(Filter(SubSeq(written, 1, Read), Good))
    OBVIOUS
  <1> DEFINE s == SubSeq(written, 1, Read)
             Is(f) == f = [n \in 0..Len(s) |-> IF n = 0 THEN <<>>
                             ELSE IF EndsLine(s[n]) /\ Kind(s[n].id) # "bad"
                                  THEN Append(f[n - 1], s[n]) ELSE f[n - 1]]
  <1>1. s \in Seq(LineUnits)
    <2>1. SubSeq(written, 0 + 1, Read) \in Seq(LineUnits)
      BY Window
    <2> QED BY <2>1
  <1>2. Accepted = IdsOf((CHOOSE f : Is(f))[Len(s)])
    BY DEF Accepted, Only, Read, IdsOf
  <1> HIDE DEF s
  <1>3. \A n \in 0..Len(s) : n # 0 => (s[n] \in Good <=> EndsLine(s[n]) /\ Kind(s[n].id) # "bad")
    <2>1. ASSUME NEW n \in 0..Len(s), n # 0
          PROVE  s[n] \in Good <=> EndsLine(s[n]) /\ Kind(s[n].id) # "bad"
      <3>1. n \in 1..Len(s)
        BY <1>1, <2>1, LenProperties
      <3>2. s[n] \in LineUnits
        BY <3>1, <1>1, ElementOfSeq
      <3> QED BY <3>2 DEF Good
    <2> QED BY <2>1
  <1>4. ASSUME NEW f PROVE IsFilter(f, s, Good) <=> Is(f)
    BY <1>3 DEF IsFilter
  <1>5. (CHOOSE f : IsFilter(f, s, Good)) = (CHOOSE f : Is(f))
    BY <1>4
  <1>6. Filter(s, Good) = (CHOOSE f : Is(f))[Len(s)]
    BY <1>5 DEF Filter
  <1> HIDE DEF Is
  <1>7. Accepted = IdsOf(Filter(s, Good))
    BY <1>2, <1>6
  <1> QED BY <1>7 DEF s

-----------------------------------------------------------------------------
(* Steps that read nothing from the client.                                *)

reading == <<sent, written, received, rb>>

LEMMA ReadingKept ==
  ASSUME UNCHANGED reading
  PROVE  /\ Accepted' = Accepted /\ Chain' = Chain /\ Read' = Read /\ Whole' = Whole
         /\ AtLine' = AtLine /\ LineSoFar' = LineSoFar
         /\ WrittenIsSent => WrittenIsSent'
         /\ ReadIsWritten => ReadIsWritten'
         /\ AcceptedInOrder => AcceptedInOrder'
  <1> USE DEF reading, Kind, Size, EndsLine
  <1>1. Accepted' = Accepted /\ Read' = Read
    BY DEF Accepted, Only, Read
  <1>2. Whole' = Whole /\ AtLine' = AtLine /\ LineSoFar' = LineSoFar /\ Chain' = Chain
    BY <1>1 DEF Whole, AtLine, LineSoFar, Chain
  <1>3. WrittenIsSent => WrittenIsSent'
    BY DEF WrittenIsSent, Follows
  <1>4. ReadIsWritten => ReadIsWritten'
    BY <1>1 DEF ReadIsWritten
  <1>5. AcceptedInOrder => AcceptedInOrder'
    BY <1>1, <1>2 DEF AcceptedInOrder
  <1> QED BY <1>1, <1>2, <1>3, <1>4, <1>5

LEMMA ChainIs ==
  ASSUME AcceptedInOrder
  PROVE  /\ Chain \in Seq(Nat) /\ Len(Chain) = Len(Accepted) + 1 /\ Len(Accepted) \in Nat
         /\ Chain[1] = Capa /\ \A i \in 1..Len(Accepted) : Chain[i + 1] = Accepted[i]
  <1> DEFINE A == Accepted
             B == <<Capa>>
  <1>1. A \in Seq(1..Len(sent))
    BY DEF AcceptedInOrder
  <1>2. A \in Seq(Nat)
    <2>1. Len(A) \in Nat /\ \A i \in 1..Len(A) : A[i] \in 1..Len(sent)
      BY <1>1, LenProperties, ElementOfSeq
    <2>2. 1..Len(sent) \subseteq Nat
      OBVIOUS
    <2> HIDE DEF A
    <2> QED BY <1>1, <2>2, SeqMonotonic
  <1>3. B \in Seq(Nat) /\ Len(B) = 1 /\ B[1] = Capa
    BY DEF Capa
  <1>4. Len(A) \in Nat
    BY <1>1, LenProperties
  <1> HIDE DEF A, B
  <1>5. /\ B \o A \in Seq(Nat) /\ Len(B \o A) = 1 + Len(A)
        /\ \A i \in 1..(1 + Len(A)) : (B \o A)[i] = IF i <= 1 THEN B[i] ELSE A[i - 1]
    <2>1. /\ B \o A \in Seq(Nat) /\ Len(B \o A) = Len(B) + Len(A)
          /\ \A i \in 1..(Len(B) + Len(A)) :
               (B \o A)[i] = IF i <= Len(B) THEN B[i] ELSE A[i - Len(B)]
      BY <1>2, <1>3, ConcatProperties
    <2> QED BY <2>1, <1>3
  <1>6. Chain = B \o A
    BY DEF Chain, A, B
  <1>7. ASSUME NEW i \in 1..Len(A) PROVE Chain[i + 1] = A[i]
    <2>1. i + 1 \in 1..(1 + Len(A)) /\ ~(i + 1 <= 1) /\ (i + 1) - 1 = i
      BY <1>4
    <2> QED BY <2>1, <1>5, <1>6
  <1> QED BY <1>3, <1>4, <1>5, <1>6, <1>7 DEF A

\* The queue and the request stay, or the next request is taken from the queue.
LEMMA QueueKept ==
  ASSUME QueueIsRest, UNCHANGED reading, queue'.nodes = queue.nodes, request' = request
  PROVE  QueueIsRest' /\ Turn' = Turn
  BY ReadingKept DEF QueueIsRest, Turn

LEMMA QueueMoves ==
  ASSUME QueueIsRest, AcceptedInOrder, UNCHANGED reading, NEW q, q.nodes = queue.nodes, NextResponse(q)
  PROVE  /\ QueueIsRest'
         /\ IF queue.nodes = <<>> THEN Turn' = Turn /\ UNCHANGED <<queue, request>>
            ELSE /\ Turn' = Turn + 1 /\ request' = queue.nodes[1]
                 /\ queue' = Dequeue(q) /\ stage' = "status" /\ fault' = fault
  <1>1. Chain' = Chain
    BY ReadingKept
  <1>2. CASE queue.nodes = <<>>
    <2>1. UNCHANGED <<queue, request>>
      BY <1>2 DEF NextResponse, IsEmpty
    <2> QED BY <1>2, <2>1, QueueKept
  <1>3. CASE queue.nodes # <<>>
    <2>1. /\ queue'.nodes = Tail(queue.nodes) /\ request' = Head(queue.nodes)
          /\ queue' = Dequeue(q) /\ stage' = "status" /\ fault' = fault
      BY <1>3 DEF NextResponse, IsEmpty, Dequeue, PeekData
    <2> DEFINE s == queue.nodes
    <2>2. s \in Seq(1..MaxCommands) /\ s # <<>>
      BY <1>3 DEF QueueIsRest
    <2>3. /\ Tail(s) \in Seq(1..MaxCommands) /\ Len(Tail(s)) = Len(s) - 1
          /\ \A i \in 1..(Len(s) - 1) : Tail(s)[i] = s[i + 1]
          /\ Len(s) \in Nat \ {0} /\ Head(s) = s[1]
      <3> HIDE DEF s
      <3>1. Len(s) \in Nat \ {0}
        BY <2>2, EmptySeq
      <3> QED BY <2>2, <3>1, HeadTailProperties
    <2>4. Len(Chain) \in Nat /\ Turn = Len(Chain) - Len(s) /\ Turn \in 1..Len(Chain)
          /\ (\A i \in 1..Len(s) : s[i] = Chain[Turn + i])
      <3>1. Len(Chain) \in Nat
        BY ChainIs
      <3>2. Turn = Len(Chain) - Len(s)
        BY DEF Turn
      <3> QED BY <3>1, <3>2 DEF QueueIsRest
    <2> HIDE DEF s
    <2>5. Turn' = Turn + 1
      <3>1. Turn' = Len(Chain) - Len(Tail(s))
        BY <1>1, <2>1 DEF Turn, s
      <3> QED BY <3>1, <2>3, <2>4
    <2>6. Turn + 1 \in 1..Len(Chain) /\ s[1] = Chain[Turn + 1]
      BY <2>3, <2>4
    <2>7. ASSUME NEW i \in 1..Len(Tail(s)) PROVE Tail(s)[i] = Chain[(Turn + 1) + i]
      <3>1. Len(s) \in Nat /\ i \in 1..(Len(s) - 1) /\ Turn \in Nat
        BY <2>3, <2>4
      <3>2. i + 1 \in 1..Len(s) /\ Turn + (i + 1) = (Turn + 1) + i
        BY <3>1
      <3> QED BY <3>1, <3>2, <2>3, <2>4
    <2> QED BY <1>1, <1>3, <2>1, <2>3, <2>5, <2>6, <2>7 DEF QueueIsRest, s
  <1> QED BY <1>2, <1>3

\* A step that reads nothing from the client keeps the client's side.
LEMMA ClientKept ==
  ASSUME ClientInv, UNCHANGED reading, parsed' \in Seq(LineUnits), QueueIsRest', NothingYet',
         Alive, ~ReadsRequests, ReadsRequests' => parsed' = <<>>
  PROVE  ClientInv'
  <1>1. Parsing'
    BY ReadingKept DEF ClientInv, Parsing
  <1> QED BY <1>1, ReadingKept DEF ClientInv

LEMMA ClientStutter ==
  ASSUME ClientInv, UNCHANGED <<reading, parsed, queue, request, state, armed, fault>>
  PROVE  ClientInv'
  <1>1. UNCHANGED reading
    OBVIOUS
  <1>2. Parsing'
    BY <1>1, ReadingKept DEF ClientInv, Parsing, ReadsRequests, Alive
  <1>3. QueueIsRest'
    BY <1>1, QueueKept DEF ClientInv
  <1>4. NothingYet'
    BY DEF ClientInv, NothingYet, Alive, reading
  <1> QED BY <1>1, <1>2, <1>3, <1>4, ReadingKept DEF ClientInv

\* Before the first request nothing has been read or queued.
LEMMA EarlyClient ==
  ASSUME ClientInv, NEW A, Alive, state \in Early
  PROVE  Accepted = <<>> /\ request = Capa /\ Turn = 1 /\ Len(Chain) = 1
  <1>1. Read = 0 /\ Whole = 0 /\ queue.nodes = <<>>
    BY DEF ClientInv, NothingYet, EmptyBuffer, NewQueue, Read, Whole
  <1>2. Accepted \in Seq(1..Len(sent)) /\ Len(Accepted) \in Nat
    BY ChainIs DEF ClientInv, AcceptedInOrder
  <1>3. Len(Accepted) = 0
    <2>1. ASSUME Len(Accepted) # 0 PROVE FALSE
      <3>1. 1 \in 1..Len(Accepted)
        BY <1>2, <2>1
      <3>2. 1 <= Accepted[1] /\ Accepted[1] <= 0
        BY <3>1, <1>1 DEF ClientInv, AcceptedInOrder
      <3>3. Accepted[1] \in Int
        BY <1>2, <3>1, ElementOfSeq
      <3> QED BY <3>2, <3>3
    <2> QED BY <2>1
  <1>4. Accepted = <<>>
    BY <1>2, <1>3, EmptySeq
  <1>5. Len(Chain) = 1 /\ Chain[1] = Capa
    BY <1>3, ChainIs DEF ClientInv
  <1>6. Turn = 1
    BY <1>1, <1>5 DEF Turn
  <1> QED BY <1>4, <1>5, <1>6 DEF ClientInv, QueueIsRest

LEMMA EarlyStep ==
  ASSUME ClientInv, Refused \/ Connected \/ WelcomeReadStep \/ WelcomeWriteStep \/ CapaReadStep
  PROVE  ClientInv'
  <1>1. UNCHANGED reading /\ UNCHANGED queue /\ Alive /\ state \in Early
    BY DEF Refused, Connected, WelcomeReadStep, WelcomeWriteStep, CapaReadStep, reading, On,
           originVars, clientVars, Alive, Early
  <1>2. request' \in {request, Capa} /\ parsed' \in {parsed, <<>>}
    BY DEF Refused, Connected, WelcomeReadStep, WelcomeWriteStep, CapaReadStep
  <1>3. request = Capa /\ parsed = <<>> /\ received = 0 /\ rb = EmptyBuffer /\ queue = NewQueue
    BY <1>1, EarlyClient DEF ClientInv, NothingYet
  <1>4. QueueIsRest'
    BY <1>1, <1>2, <1>3, QueueKept DEF ClientInv
  <1>5. NothingYet'
    BY <1>1, <1>2, <1>3 DEF NothingYet, reading
  <1>6. parsed' \in Seq(LineUnits) /\ parsed' = <<>>
    BY <1>2, <1>3 DEF ClientInv
  <1>7. ~ReadsRequests
    BY <1>1 DEF ReadsRequests, Early
  <1> QED BY <1>1, <1>4, <1>5, <1>6, <1>7, ClientKept

LEMMA ReplyStep ==
  ASSUME ClientInv, ArmedFor, RequestWriteStep \/ ResponseReadStep \/ ResponseWriteStep
  PROVE  ClientInv'
  <1>1. UNCHANGED reading /\ Alive /\ ~ReadsRequests /\ state \in {"REQUEST", "RESPONSE"}
    <2>1. CASE RequestWriteStep
      <3>1. armed = <<"NOOP", "WRITE">>
        BY <2>1 DEF RequestWriteStep, ArmedFor, Armed
      <3> QED BY <2>1, <3>1 DEF RequestWriteStep, reading, clientVars, Alive, ReadsRequests
    <2>2. CASE ResponseReadStep \/ ResponseWriteStep
      BY <2>2 DEF ResponseReadStep, ResponseWriteStep, On, reading, Alive, ReadsRequests
    <2> QED BY <2>1, <2>2
  <1>2. parsed' \in {parsed, <<>>}
    BY DEF RequestWriteStep, ResponseReadStep, ResponseWriteStep, ProcessResponse
  <1>3. ReadsRequests' => parsed' = <<>>
    <2>1. CASE RequestWriteStep
      <3>1. armed = <<"NOOP", "WRITE">>
        BY <2>1 DEF RequestWriteStep, ArmedFor, Armed
      <3>2. state' = "REQUEST" => armed' = armed
        BY <2>1, <3>1 DEF RequestWriteStep, Leave, Closes, Given, Stay, Fail, Outcome
      <3> QED BY <3>1, <3>2 DEF ReadsRequests
    <2>2. CASE ResponseReadStep
      BY <2>2 DEF ResponseReadStep, ReadsRequests, Leave, Closes, Stay, Fail, FailMute, ToClient, Outcome
    <2>3. CASE ResponseWriteStep
      BY <2>3 DEF ResponseWriteStep, ProcessResponse, ReadsRequests, Leave, Closes, Stay, Fail,
                  FailMute, ToOrigin, Outcome
    <2> QED BY <2>1, <2>2, <2>3
  <1>4. state' \notin Early
    BY <1>1 DEF RequestWriteStep, ResponseReadStep, ResponseWriteStep, ProcessResponse, Leave,
                Closes, Stay, Fail, FailMute, ToOrigin, ToClient, Outcome, Early
  <1>5. QueueIsRest'
    <2>1. \/ queue'.nodes = queue.nodes /\ request' = request
          \/ \E q : q.nodes = queue.nodes /\ NextResponse(q)
      <3>1. CASE RequestWriteStep
        <4>1. RequestToBuffer.queue.nodes = queue.nodes
          BY DEF RequestToBuffer, Rewind, Walked
        <4> QED BY <3>1, <4>1 DEF RequestWriteStep
      <3>2. CASE ResponseReadStep
        BY <3>2 DEF ResponseReadStep
      <3>3. CASE ResponseWriteStep
        BY <3>3 DEF ResponseWriteStep, ProcessResponse
      <3> QED BY <3>1, <3>2, <3>3
    <2> QED BY <2>1, <1>1, QueueKept, QueueMoves DEF ClientInv
  <1>6. NothingYet'
    BY <1>4 DEF NothingYet
  <1>7. parsed' \in Seq(LineUnits)
    BY <1>2, EmptySeq DEF ClientInv
  <1> QED BY <1>1, <1>3, <1>5, <1>6, <1>7, ClientKept

-----------------------------------------------------------------------------
(* The client sends a command.                                             *)

\* What is known of the commands sent before stays.
LEMMA SentGrows ==
  ASSUME sent \in Seq(Command), NEW c \in Command, sent' = Append(sent, c)
  PROVE  /\ sent' \in Seq(Command) /\ Len(sent) \in Nat /\ Len(sent') = Len(sent) + 1
         /\ sent'[Len(sent) + 1] = c
         /\ \A r \in 0..Len(sent) : Kind(r)' = Kind(r) /\ Size(r)' = Size(r)
         /\ \A u : u.id \in 0..Len(sent) => EndsLine(u)' = EndsLine(u)
  <1>1. /\ sent' \in Seq(Command) /\ Len(sent) \in Nat /\ Len(sent') = Len(sent) + 1
        /\ sent'[Len(sent) + 1] = c /\ \A r \in 1..Len(sent) : sent'[r] = sent[r]
    BY AppendProperties, LenProperties
  <1>2. \A r \in 0..Len(sent) : Kind(r)' = Kind(r) /\ Size(r)' = Size(r)
    BY <1>1 DEF Kind, Size, Capa
  <1>3. \A u : u.id \in 0..Len(sent) => EndsLine(u)' = EndsLine(u)
    BY <1>2 DEF EndsLine
  <1> QED BY <1>1, <1>2, <1>3

LEMMA AcceptedIsNext ==
  (written \in Seq(LineUnits) /\ Read \in 0..Len(written)
    => Accepted = IdsOf(Filter(SubSeq(written, 1, Read), Good)))'
  BY AcceptedIs, PTL

LEMMA ClientSends ==
  ASSUME ClientInv, ClientSend
  PROVE  ClientInv' /\ Chain' = Chain /\ Turn' = Turn
  <1>0. PICK n, m, w, x : n = Len(sent) /\ m = Len(written) /\ w = written /\ x = written'
    OBVIOUS
  <1>1. PICK kind \in Kinds, size \in LineSizes :
          /\ sent' = Append(sent, [kind |-> kind, size |-> size])
          /\ x = w \o LineUnitsOf(n + 1, size)
    BY <1>0 DEF ClientSend
  <1> DEFINE new == LineUnitsOf(n + 1, size)
  <1>2. /\ sent' \in Seq(Command) /\ n \in Nat /\ Len(sent') = n + 1
        /\ sent'[n + 1].size = size
        /\ \A r \in 0..n : Kind(r)' = Kind(r) /\ Size(r)' = Size(r)
        /\ \A u : u.id \in 0..n => EndsLine(u)' = EndsLine(u)
    <2>1. sent \in Seq(Command) /\ [kind |-> kind, size |-> size] \in Command
      BY DEF ClientInv, WrittenIsSent, Command
    <2> QED BY <1>0, <1>1, <2>1, SentGrows
  <1>3. n + 1 <= MaxCommands /\ MaxCommands \in Nat /\ size \in Nat \ {0}
    BY <1>0, <1>2, SessionAssumption DEF ClientSend
  <1>4. Size(n + 1)' = size
    <2>1. n + 1 # Capa
      BY <1>2 DEF Capa
    <2> QED BY <1>2, <2>1 DEF Size
  <1>5. /\ new \in Seq(LineUnits) /\ Len(new) = size
        /\ \A k \in 1..size : new[k] = [id |-> n + 1, part |-> "line", nth |-> k]
    <2>1. \A k \in 1..size : [id |-> n + 1, part |-> "line", nth |-> k] \in LineUnits
      BY <1>2, <1>3 DEF LineUnits, Ids, Capa, Banner
    <2> QED BY <1>3, <2>1 DEF LineUnitsOf
  <1>6. w \in Seq(LineUnits) /\ m \in Nat /\ m = Len(w)
    BY <1>0, LenProperties DEF ClientInv, WrittenIsSent
  <1> HIDE DEF new
  <1>7. /\ x \in Seq(LineUnits) /\ Len(x) = m + size
        /\ \A i \in 1..m : x[i] = w[i]
        /\ \A k \in 1..size : x[m + k] = new[k]
    <2>1. /\ w \o new \in Seq(LineUnits) /\ Len(w \o new) = Len(w) + Len(new)
          /\ \A i \in 1..(Len(w) + Len(new)) :
               (w \o new)[i] = IF i <= Len(w) THEN w[i] ELSE new[i - Len(w)]
      BY <1>5, <1>6, ConcatProperties
    <2>2. x = w \o new
      BY <1>1 DEF new
    <2>3. ASSUME NEW k \in 1..size PROVE x[m + k] = new[k]
      <3>1. m + k \in 1..(m + size) /\ ~(m + k <= m) /\ (m + k) - m = k
        BY <1>3, <1>6
      <3> QED BY <3>1, <2>1, <2>2, <1>5, <1>6
    <2> QED BY <1>3, <1>5, <1>6, <2>1, <2>2, <2>3
  <1>8. \A i \in 1..m : w[i].id \in 1..n /\ w[i].nth <= Size(w[i].id)
                          /\ EndsLine(w[i])' = EndsLine(w[i]) /\ Size(w[i].id)' = Size(w[i].id)
    <2>1. \A i \in 1..m : w[i].id \in 1..n /\ w[i].nth <= Size(w[i].id)
      BY <1>0 DEF ClientInv, WrittenIsSent
    <2> QED BY <1>2, <2>1
  <1>9. UNCHANGED <<received, rb, queue, request, parsed, state, armed, fault>>
    BY DEF ClientSend, proxyVars
  <1>10. \A k \in 1..size : x[m + k] = [id |-> n + 1, part |-> "line", nth |-> k]
    BY <1>5, <1>7
  <1>26. ASSUME NEW k \in 1..size PROVE EndsLine(x[m + k])' <=> k = size
    <2>1. x[m + k].id = n + 1 /\ x[m + k].part = "line" /\ x[m + k].nth = k
      <3>1. x[m + k] = [id |-> n + 1, part |-> "line", nth |-> k]
        BY <1>10
      <3> QED BY <3>1
    <2>2. Size(x[m + k].id)' = size
      BY <2>1, <1>4 DEF Size
    <2> QED BY <2>1, <2>2 DEF EndsLine
  <1>11. \A i \in 1..(m + size) : i \in 1..m \/ \E k \in 1..size : i = m + k
    <2>1. ASSUME NEW i \in 1..(m + size), i \notin 1..m PROVE \E k \in 1..size : i = m + k
      <3>1. i - m \in 1..size /\ i = m + (i - m)
        BY <1>3, <1>6, <2>1
      <3> QED BY <3>1
    <2> QED BY <2>1
  <1>12. \A i \in 1..(m + size) : x[i].id \in 1..(n + 1) /\ x[i].nth <= Size(x[i].id)'
    <2>1. ASSUME NEW i \in 1..m PROVE x[i].id \in 1..(n + 1) /\ x[i].nth <= Size(x[i].id)'
      BY <1>2, <1>7, <1>8
    <2>2. ASSUME NEW k \in 1..size
          PROVE  x[m + k].id \in 1..(n + 1) /\ x[m + k].nth <= Size(x[m + k].id)'
      <3>1. x[m + k].id = n + 1 /\ x[m + k].nth = k
        <4>1. x[m + k] = [id |-> n + 1, part |-> "line", nth |-> k]
          BY <1>10
        <4> QED BY <4>1
      <3>2. Size(x[m + k].id)' = size
        BY <3>1, <1>4 DEF Size
      <3> QED BY <3>1, <3>2, <1>2, <1>3
    <2> QED BY <2>1, <2>2, <1>11
  <1>13. \A i \in 1..((m + size) - 1) : Follows(x[i], x[i + 1])'
    <2> SUFFICES ASSUME NEW i \in 1..((m + size) - 1) PROVE Follows(x[i], x[i + 1])'
      OBVIOUS
    <2>1. CASE i + 1 <= m
      <3>1. i \in 1..m /\ i + 1 \in 1..m /\ i \in 1..(m - 1)
        BY <2>1, <1>3, <1>6
      <3>2. Follows(w[i], w[i + 1])
        BY <3>1, <1>0 DEF ClientInv, WrittenIsSent
      <3> QED BY <3>1, <3>2, <1>7, <1>8 DEF Follows
    <2>2. CASE i = m
      <3>1. i \in 1..m /\ EndsLine(w[i]) /\ w[i].id = n
        BY <2>2, <1>0, <1>6 DEF ClientInv, WrittenIsSent
      <3>2. x[i + 1] = [id |-> n + 1, part |-> "line", nth |-> 1]
        BY <2>2, <1>3, <1>10
      <3> QED BY <3>1, <3>2, <1>2, <1>7, <1>8 DEF Follows
    <2>3. CASE i > m
      <3>1. PICK k \in 1..size : k = i - m
        BY <2>3, <1>3, <1>6
      <3>2. k + 1 \in 1..size /\ m + k = i /\ m + (k + 1) = i + 1 /\ k # size
        BY <3>1, <1>3, <1>6
      <3>3. /\ x[i] = [id |-> n + 1, part |-> "line", nth |-> k] /\ ~EndsLine(x[i])'
            /\ x[i + 1] = [id |-> n + 1, part |-> "line", nth |-> k + 1]
        BY <3>2, <1>10, <1>26
      <3> QED BY <3>3 DEF Follows
    <2> QED BY <2>1, <2>2, <2>3, <1>6
  <1>14. /\ x # <<>> /\ x[1].id = 1 /\ x[1].nth = 1
         /\ EndsLine(x[m + size])' /\ x[m + size].id = n + 1
    <2>1. EndsLine(x[m + size])' /\ x[m + size].id = n + 1
      <3>1. size \in 1..size
        BY <1>3
      <3>2. EndsLine(x[m + size])'
        BY <3>1, <1>26
      <3>3. x[m + size].id = n + 1
        <4>1. x[m + size] = [id |-> n + 1, part |-> "line", nth |-> size]
          BY <3>1, <1>10
        <4> QED BY <4>1
      <3> QED BY <3>2, <3>3
    <2>2. x # <<>>
      BY <1>3, <1>6, <1>7, EmptySeq
    <2>3. x[1].id = 1 /\ x[1].nth = 1
      <3>1. CASE m = 0
        <4>1. n = 0
          BY <3>1, <1>0, <1>6, EmptySeq DEF ClientInv, WrittenIsSent
        <4>2. x[m + 1] = [id |-> n + 1, part |-> "line", nth |-> 1]
          BY <1>3, <1>10
        <4> QED BY <4>1, <4>2, <3>1
      <3>2. CASE m # 0
        <4>1. 1 \in 1..m /\ w # <<>>
          BY <3>2, <1>6, EmptySeq
        <4> QED BY <4>1, <1>0, <1>7 DEF ClientInv, WrittenIsSent
      <3> QED BY <3>1, <3>2
    <2> QED BY <2>1, <2>2, <2>3
  <1>15. WrittenIsSent'
    <2>1. /\ \A i \in 1..Len(x) : x[i].id \in 1..Len(sent') /\ x[i].nth <= Size(x[i].id)'
          /\ \A i \in 1..(Len(x) - 1) : Follows(x[i], x[i + 1])'
          /\ EndsLine(x[Len(x)])' /\ x[Len(x)].id = Len(sent')
      BY <1>2, <1>7, <1>12, <1>13, <1>14
    <2>2. Len(sent') <= MaxCommands
      BY <1>2, <1>3
    <2> HIDE DEF new
    <2> QED BY <2>1, <2>2, <1>0, <1>2, <1>7, <1>14 DEF WrittenIsSent, EndsLine, Follows, Size
  <1>16. PICK p : p = Read
    OBVIOUS
  <1>17. /\ Read' = p /\ p \in 0..m /\ received \in p..m
         /\ p # 0 => x[p] = w[p] /\ EndsLine(x[p])' = EndsLine(w[p])
    <2>1. Read' = p /\ p \in 0..m /\ received \in p..m
      BY <1>0, <1>6, <1>9, <1>16 DEF Read, ClientInv, ReadIsWritten
    <2> QED BY <2>1, <1>7, <1>8, <1>6
  <1>18. AtLine' = AtLine /\ Whole' = Whole /\ (~AtLine => LineSoFar' = LineSoFar)
    <2>1. EndsLine(written[Read])' = EndsLine(x[p])'
      BY <1>0, <1>17
    <2> QED BY <2>1, <1>0, <1>16, <1>17 DEF AtLine, Whole, LineSoFar
  <1>19. \A a \in Nat : \A b \in a..m : SubSeq(x, a + 1, b) = SubSeq(w, a + 1, b)
    <2>1. x = w \o new /\ new \in Seq(LineUnits)
      BY <1>1, <1>5 DEF new
    <2> QED BY <2>1, <1>6, WindowStays
  <1>20. ReadIsWritten'
    <2>1. SubSeq(x, p + 1, received) = SubSeq(w, p + 1, received)
      BY <1>6, <1>17, <1>19
    <2>2. rb'.data = SubSeq(x, p + 1, received)
      BY <2>1, <1>0, <1>9, <1>16 DEF ClientInv, ReadIsWritten
    <2>3. Sound(rb)'
      BY <1>9 DEF ClientInv, ReadIsWritten, Sound, InBounds
    <2>4. received \in 0..(m + size) /\ p \in 0..received
      BY <1>3, <1>6, <1>17
    <2> QED BY <2>2, <2>3, <2>4, <1>0, <1>7, <1>9, <1>17 DEF ReadIsWritten
  <1>21. Accepted' = Accepted
    <2>1. PICK s : s = SubSeq(w, 1, p)
      OBVIOUS
    <2>2. SubSeq(x, 1, p) = s
      BY <2>1, <1>6, <1>17, <1>19, 0 \in Nat, 0 + 1 = 1
    <2>3. /\ s \in Seq(LineUnits) /\ Len(s) = p /\ \A i \in 1..p : s[i] = w[i]
      <3>1. 0 \in Nat /\ p \in 0..Len(w)
        BY <1>6, <1>17
      <3>2. /\ SubSeq(w, 0 + 1, p) \in Seq(LineUnits) /\ Len(SubSeq(w, 0 + 1, p)) = p - 0
            /\ \A i \in 1..(p - 0) : SubSeq(w, 0 + 1, p)[i] = w[0 + i]
        BY <3>1, <1>6, Window
      <3>3. 0 + 1 = 1 /\ p - 0 = p /\ \A i \in 1..p : 0 + i = i
        BY <3>1
      <3> QED BY <2>1, <3>2, <3>3
    <2>4. Accepted = IdsOf(Filter(s, Good))
      BY <1>0, <1>6, <1>16, <1>17, <2>1, AcceptedIs
    <2>5. PICK G, H : G = Good /\ H = Good'
      OBVIOUS
    <2>6. Accepted' = IdsOf(Filter(s, H))
      <3>1. (written \in Seq(LineUnits) /\ Read \in 0..Len(written))'
        BY <1>0, <1>3, <1>6, <1>7, <1>17
      <3>2. (Accepted = IdsOf(Filter(SubSeq(written, 1, Read), Good)))'
        BY <3>1, AcceptedIsNext
      <3>3. SubSeq(written, 1, Read)' = s
        BY <2>2, <1>0, <1>17
      <3>4. Filter(SubSeq(written, 1, Read), Good)' = Filter(s, H)
        BY <3>3, <2>5 DEF Filter, IsFilter
      <3>5. IdsOf(Filter(SubSeq(written, 1, Read), Good))' = IdsOf(Filter(s, H))
        BY <3>4 DEF IdsOf
      <3> QED BY <3>2, <3>5
    <2>7. \A i \in 1..Len(s) : s[i] \in G <=> s[i] \in H
      <3> SUFFICES ASSUME NEW i \in 1..Len(s) PROVE s[i] \in G <=> s[i] \in H
        OBVIOUS
      <3>1. s[i] = w[i] /\ i \in 1..m
        BY <2>3, <1>6, <1>17
      <3>2. PICK u : u = w[i]
        OBVIOUS
      <3>3. u.id \in 0..n /\ EndsLine(u)' = EndsLine(u) /\ Kind(u.id)' = Kind(u.id)
        BY <3>1, <3>2, <1>2, <1>8
      <3>4. u \in Good' <=> u \in LineUnits /\ EndsLine(u)' /\ Kind(u.id)' # "bad"
        BY DEF Good
      <3>5. u \in Good <=> u \in LineUnits /\ EndsLine(u) /\ Kind(u.id) # "bad"
        BY DEF Good
      <3> QED BY <2>5, <3>1, <3>2, <3>3, <3>4, <3>5
    <2>8. Filter(s, G) = Filter(s, H)
      BY <2>3, <2>7, FilterSame
    <2> QED BY <2>4, <2>5, <2>6, <2>8
  <1>22. AcceptedInOrder'
    <2>1. Accepted \in Seq(1..n) /\ 1..n \subseteq 1..(n + 1)
      BY <1>0, <1>2 DEF ClientInv, AcceptedInOrder
    <2>2. Accepted \in Seq(1..(n + 1))
      BY <2>1, SeqMonotonic
    <2> QED BY <1>2, <1>18, <1>21, <2>2 DEF ClientInv, AcceptedInOrder
  <1>23. QueueIsRest'
    BY <1>9, <1>21 DEF ClientInv, QueueIsRest, Turn, Chain
  <1>24. Parsing'
    BY <1>9, <1>18 DEF ClientInv, Parsing, ReadsRequests, Alive
  <1>25. NothingYet'
    BY <1>9 DEF ClientInv, NothingYet, Alive
  <1>27. Chain' = Chain /\ Turn' = Turn
    BY <1>9, <1>21 DEF Chain, Turn
  <1> QED BY <1>9, <1>15, <1>20, <1>22, <1>23, <1>24, <1>25, <1>27 DEF ClientInv

-----------------------------------------------------------------------------
(* Reading requests.                                                       *)

\* The parser stops at the first end of a line, or goes through everything.
LEMMA FirstLineIs ==
  ASSUME NEW data, Len(data) \in Nat \ {0}
  PROVE  /\ FirstLine(data) \in 1..Len(data)
         /\ \A j \in 1..(FirstLine(data) - 1) : ~EndsLine(data[j])
         /\ LineEnds(data) # {} <=> EndsLine(data[FirstLine(data)])
         /\ LineEnds(data) = {} => FirstLine(data) = Len(data)
  <1> DEFINE E == LineEnds(data)
  <1>1. E \subseteq Nat /\ \A n : n \in E <=> n \in 1..Len(data) /\ EndsLine(data[n])
    BY DEF LineEnds
  <1>2. CASE E = {}
    <2>1. FirstLine(data) = Len(data)
      BY <1>2 DEF FirstLine
    <2> QED BY <1>1, <1>2, <2>1
  <1>3. CASE E # {}
    <2> HIDE DEF E
    <2>1. \E n \in E : \A m \in E : n <= m
      BY <1>1, <1>3, Least
    <2>2. FirstLine(data) = CHOOSE n \in E : \A m \in E : n <= m
      BY <1>3 DEF FirstLine, E
    <2>3. FirstLine(data) \in E /\ \A m \in E : FirstLine(data) <= m
      BY <2>1, <2>2
    <2>4. FirstLine(data) \in 1..Len(data)
      BY <1>1, <2>3
    <2>5. ASSUME NEW j \in 1..(FirstLine(data) - 1) PROVE ~EndsLine(data[j])
      <3>1. j \in 1..Len(data) /\ ~(FirstLine(data) <= j)
        BY <2>4
      <3> QED BY <3>1, <1>1, <2>3
    <2> QED BY <1>1, <1>3, <2>3, <2>4, <2>5 DEF E
  <1> QED BY <1>2, <1>3

\* The client's stream from where the reading stands: the line that has begun
\* goes on, up to the first end of a line.
Begun == IF AtLine THEN 0 ELSE written[Read].nth

LEMMA LineGoesOn ==
  ASSUME WrittenIsSent, NEW p, p = Read, p \in Nat, NEW k \in Nat \ {0}, p + k <= Len(written),
         \A j \in 1..(k - 1) : ~EndsLine(written[p + j])
  PROVE  \A j \in 1..k : written[p + j].id = Whole + 1 /\ written[p + j].nth = Begun + j
  <1>1. PICK w, m, r, c : w = written /\ m = Len(written) /\ r = Whole + 1 /\ c = Begun
    OBVIOUS
  <1>2. /\ m \in Nat /\ p + k <= m
        /\ \A i \in 1..m : w[i].id \in Nat /\ w[i].nth \in Nat
        /\ \A i \in 1..(m - 1) : Follows(w[i], w[i + 1])
        /\ m # 0 => w[1].id = 1 /\ w[1].nth = 1
    <2>1. m \in Nat /\ w \in Seq(LineUnits) /\ \A i \in 1..m : w[i] \in LineUnits /\ w[i].id \in 1..Len(sent)
      BY <1>1, LenProperties, ElementOfSeq DEF WrittenIsSent
    <2>2. \A i \in 1..m : w[i].id \in Nat /\ w[i].nth \in Nat
      <3>1. \A u \in LineUnits : u.nth \in Nat
        BY DEF LineUnits
      <3> QED BY <2>1, <3>1
    <2>3. m # 0 => w # <<>>
      BY <1>1, <2>1, EmptySeq
    <2> QED BY <1>1, <2>1, <2>2, <2>3 DEF WrittenIsSent
  <1>3. /\ p = 0 => r = 1 /\ c = 0
        /\ p # 0 /\ EndsLine(w[p]) => r = w[p].id + 1 /\ c = 0
        /\ p # 0 /\ ~EndsLine(w[p]) => r = w[p].id /\ c = w[p].nth
    <2>1. p # 0 => w[p].id \in Nat
      BY <1>2
    <2> QED BY <1>1, <2>1 DEF Whole, Begun, AtLine
  <1>4. r \in Nat /\ c \in Nat
    BY <1>2, <1>3
  <1> DEFINE Goes(j) == w[p + j].id = r /\ w[p + j].nth = c + j
             J == {n \in Nat : n + 1 <= k => Goes(n + 1)}
  <1>5. Goes(1)
    <2>1. CASE p = 0
      BY <2>1, <1>2, <1>3
    <2>2. CASE p # 0
      <3>1. p \in 1..(m - 1) /\ p \in 1..m
        BY <2>2, <1>2
      <3>2. Follows(w[p], w[p + 1]) /\ w[p].nth \in Nat /\ w[p].id \in Nat
        BY <3>1, <1>2
      <3> QED BY <2>2, <3>2, <1>3, <1>4 DEF Follows
    <2> QED BY <2>1, <2>2
  <1>6. ASSUME NEW j \in Nat, j \in J PROVE j + 1 \in J
    <2> SUFFICES ASSUME (j + 1) + 1 <= k PROVE Goes((j + 1) + 1)
      OBVIOUS
    <2>0. j + 1 \in 1..(k - 1) /\ j + 1 <= k /\ p + (j + 1) \in 1..(m - 1)
      BY <1>2
    <2>1. Goes(j + 1) /\ ~EndsLine(w[p + (j + 1)]) /\ p + (j + 1) \in 1..(m - 1)
      BY <1>1, <2>0, <1>6
    <2>2. (p + (j + 1)) + 1 = p + ((j + 1) + 1)
      OBVIOUS
    <2>3. Follows(w[p + (j + 1)], w[p + ((j + 1) + 1)])
      BY <2>1, <2>2, <1>2
    <2> QED BY <2>1, <2>3, <1>4 DEF Follows
  <1>7. 0 \in J
    BY <1>5
  <1> HIDE DEF J
  <1>8. Nat \subseteq J
    BY <1>6, <1>7, Induction
  <1>9. ASSUME NEW j \in 1..k PROVE Goes(j)
    <2>1. j - 1 \in J /\ (j - 1) + 1 = j /\ j <= k
      BY <1>8
    <2> QED BY <2>1 DEF J
  <1> QED BY <1>1, <1>9

\* What one recv adds, and how far the parser goes.
Reads(n, got, b, k) ==
  /\ n \in FromClient(Room(rb)) /\ (n > 0 \/ CanRead(rb))
  /\ got = IF n > 0 THEN n ELSE 0
  /\ b = Put(rb, Slice(written, received, got))
  /\ k = FirstLine(b.data)
  /\ sent' = sent /\ written' = written /\ received' = received + got /\ rb' = Drop(b, k)

LEMMA ReadsOn ==
  ASSUME ClientInv, NEW n, NEW got, NEW b, NEW k, Reads(n, got, b, k)
  PROVE  /\ k \in Nat \ {0} /\ Read + k <= Len(written)
         /\ Read' = Read + k /\ ReadIsWritten' /\ WrittenIsSent'
         /\ SubSeq(b.data, 1, k) = SubSeq(written, Read + 1, Read + k)
         /\ \A j \in 1..(k - 1) : ~EndsLine(written[Read + j])
         /\ LineEnds(b.data) # {} <=> EndsLine(written[Read + k])
  <1>0. /\ n \in FromClient(Room(rb)) /\ (n > 0 \/ CanRead(rb))
        /\ got = IF n > 0 THEN n ELSE 0
        /\ b = Put(rb, Slice(written, received, got))
        /\ k = FirstLine(b.data)
        /\ sent' = sent /\ written' = written /\ received' = received + got /\ rb' = Drop(b, k)
    BY DEF Reads
  <1> USE <1>0
  <1>1. PICK w, m, v, p, d, o : /\ w = written /\ m = Len(written) /\ v = received
                                /\ p = Read /\ d = rb.data /\ o = rb.off
    OBVIOUS
  <1>2. /\ w \in Seq(LineUnits) /\ m = Len(w) /\ m \in Nat /\ v \in 0..m /\ p \in 0..v
        /\ d = SubSeq(w, p + 1, v) /\ p = v - Len(d) /\ Len(d) \in Nat
        /\ o \in Nat /\ o + Len(d) <= BufferSize /\ (d = <<>> => o = 0)
        /\ d \in Seq(LineUnits \cup ReplyUnits)
    <2>1. d \in Seq(LineUnits \cup ReplyUnits) /\ Len(d) \in Nat
      BY <1>1, LenProperties DEF ClientInv, ReadIsWritten, Sound, Buffers
    <2>2. w \in Seq(LineUnits) /\ m \in Nat
      BY <1>1, LenProperties DEF ClientInv, WrittenIsSent
    <2> QED BY <1>1, <2>1, <2>2 DEF ClientInv, ReadIsWritten, Sound, Buffers, InBounds, Read
  <1>3. /\ got \in Nat /\ v + got <= m /\ (o + Len(d)) + got <= BufferSize
        /\ (got = 0 => Len(d) # 0)
    <2>1. BufferSize \in Nat
      BY BufferSizeAssumption
    <2>0. Room(rb) = BufferSize - (o + Len(d))
      BY <1>1 DEF Room
    <2>2. Room(rb) = BufferSize - (o + Len(d)) /\ Room(rb) \in Nat
      BY <1>2, <2>0, <2>1
    <2>3. n \in {0, -1} \/ n \in 1..Min2(Room(rb), m - v)
      BY <1>1 DEF FromClient, Received
    <2>4. Min2(Room(rb), m - v) <= Room(rb) /\ Min2(Room(rb), m - v) <= m - v
          /\ Min2(Room(rb), m - v) \in Int
      BY <1>2, <2>2 DEF Min2
    <2>5. CanRead(rb) => Len(d) # 0
      BY <1>1, <1>2, EmptySeq DEF CanRead
    <2> QED BY <1>2, <2>1, <2>2, <2>3, <2>4, <2>5
  <1>4. PICK u : u = v + got
    OBVIOUS
  <1>5. u \in v..m /\ p \in 0..u /\ p \in Nat
    BY <1>2, <1>3, <1>4
  <1>6. b.data = SubSeq(w, p + 1, u) /\ b.off = o
    <2>1. b.data = d \o SubSeq(w, v + 1, v + got) /\ b.off = o
      <3>1. rb = [data |-> d, off |-> o]
        BY <1>1 DEF ClientInv, ReadIsWritten, Sound, Buffers
      <3> QED BY <3>1, <1>1 DEF Put, Slice
    <2>2. SubSeq(w, p + 1, v) \o SubSeq(w, v + 1, u) = SubSeq(w, p + 1, u)
      BY <1>2, <1>5, WindowGrows
    <2> QED BY <1>2, <1>4, <2>1, <2>2
  <1>7. PICK c : c = u - p
    OBVIOUS
  <1>8. /\ c \in Nat \ {0} /\ Len(b.data) = c /\ b.data \in Seq(LineUnits)
        /\ \A i \in 1..c : b.data[i] = w[p + i]
    <2>1. c \in Nat \ {0}
      BY <1>2, <1>3, <1>4, <1>7
    <2>2. u \in p..Len(w)
      BY <1>2, <1>5
    <2>3. /\ b.data \in Seq(LineUnits) /\ Len(b.data) = u - p
          /\ \A i \in 1..(u - p) : b.data[i] = w[p + i]
      BY ONLY <1>2, <1>5, <1>6, <2>2, Window, SMTT(30)
    <2> QED BY <1>7, <2>1, <2>3
  <1>9. /\ k \in 1..c /\ (\A j \in 1..(k - 1) : ~EndsLine(b.data[j]))
        /\ (LineEnds(b.data) # {} <=> EndsLine(b.data[k]))
    BY <1>8, FirstLineIs
  <1>10. \A j \in 1..(k - 1) : ~EndsLine(w[p + j])
    <2> SUFFICES ASSUME NEW j \in 1..(k - 1) PROVE ~EndsLine(w[p + j])
      OBVIOUS
    <2>1. j \in 1..c
      BY <1>8, <1>9
    <2>2. b.data[j] = w[p + j]
      BY <2>1, <1>8
    <2> QED BY <2>2, <1>9
  <1>11. LineEnds(b.data) # {} <=> EndsLine(w[p + k])
    <2>1. b.data[k] = w[p + k]
      BY <1>8, <1>9
    <2> QED BY <1>9, <2>1
  <1>12. /\ k \in Nat \ {0} /\ p + k <= m /\ p + k <= u /\ p + k \in Nat
         /\ k \in 0..(u - p) /\ u \in p..Len(w) /\ k \in Nat /\ c \in k..(u - p)
         /\ p + c = u /\ p + k + 1 = (p + k) + 1 /\ u \in (p + k)..Len(w)
    <2>1. k \in 1..c
      BY <1>9
    <2>2. c \in Nat /\ p \in Nat /\ u \in Nat /\ m \in Nat /\ p <= u /\ u <= m /\ m = Len(w)
      BY <1>2, <1>5, <1>8
    <2> QED BY <2>1, <2>2, <1>7
  <1>13. SubSeq(b.data, 1, k) = SubSeq(w, p + 1, p + k)
    <2>1. SubSeq(SubSeq(w, p + 1, u), 0 + 1, k) = SubSeq(w, p + 0 + 1, p + k)
      <3>1. 0 \in Nat /\ k \in 0..(u - p) /\ u \in p..Len(w) /\ w \in Seq(LineUnits) /\ p \in Nat
        BY <1>2, <1>5, <1>12
      <3> QED BY <3>1, WindowOfWindow
    <2>2. 0 + 1 = 1 /\ p + 0 + 1 = p + 1
      BY <1>5
    <2> QED BY <1>6, <2>1, <2>2
  <1>14. /\ Sound(rb)' /\ rb'.data = SubSeq(w, (p + k) + 1, u) /\ Len(rb'.data) = u - (p + k)
    <2>1. CASE k = c
      <3>1. rb' = EmptyBuffer /\ p + k = u
        BY <2>1, <1>5, <1>7, <1>8 DEF Drop
      <3>2. SubSeq(w, u + 1, u) = <<>> /\ u - u = 0
        BY <1>5
      <3>3. rb'.data = <<>> /\ rb'.off = 0 /\ BufferSize \in Nat
        BY <3>1, BufferSizeAssumption DEF EmptyBuffer
      <3>4. Sound(rb)'
        <4>1. rb' \in Buffers(LineUnits \cup ReplyUnits)
          <5>1. <<>> \in Seq(LineUnits \cup ReplyUnits) /\ 0 \in Nat
            BY EmptySeq
          <5> QED BY ONLY <3>1, <5>1 DEF EmptyBuffer, Buffers
        <4>2. rb'.off + Len(rb'.data) = 0 /\ 0 <= BufferSize
          BY <3>3
        <4> QED BY <3>3, <4>1, <4>2 DEF Sound, InBounds
      <3> QED BY <3>1, <3>2, <3>3, <3>4
    <2>2. CASE k # c
      <3>1. rb' = [data |-> SubSeq(b.data, k + 1, c), off |-> o + k]
        BY <2>2, <1>6, <1>8 DEF Drop
      <3>2. SubSeq(SubSeq(w, p + 1, u), k + 1, c) = SubSeq(w, p + k + 1, p + c)
        <4>1. k \in Nat /\ c \in k..(u - p) /\ u \in p..Len(w) /\ w \in Seq(LineUnits) /\ p \in Nat
          BY <1>2, <1>5, <1>12
        <4> QED BY ONLY <4>1, WindowOfWindow
      <3>3. p + c = u /\ p + k + 1 = (p + k) + 1 /\ u \in (p + k)..Len(w)
        BY <1>12
      <3>4. rb'.data = SubSeq(w, (p + k) + 1, u) /\ rb'.off = o + k
        <4>1. SubSeq(b.data, k + 1, c) = SubSeq(w, (p + k) + 1, u)
          BY <1>6, <3>2, <3>3
        <4> QED BY ONLY <3>1, <4>1
      <3>5. rb'.data \in Seq(LineUnits) /\ Len(rb'.data) = u - (p + k)
        <4>1. p + k \in Nat /\ w \in Seq(LineUnits)
          BY <1>2, <1>12
        <4> QED BY ONLY <3>3, <3>4, <4>1, Window
      <3>6. rb'.data \in Seq(LineUnits \cup ReplyUnits)
        BY <3>5, SeqMonotonic
      <3>7. rb'.data # <<>>
        <4>1. u - (p + k) # 0
          BY <2>2, <1>5, <1>7, <1>12
        <4> QED BY <3>5, <4>1
      <3>8. (o + k) + (u - (p + k)) <= BufferSize /\ o + k \in Nat
        <4>1. (o + Len(d)) + got <= BufferSize /\ BufferSize \in Nat /\ o \in Nat /\ k \in Nat
          BY <1>2, <1>3, <1>12, BufferSizeAssumption
        <4>2. u = v + got /\ p = v - Len(d) /\ u \in Nat /\ p \in Nat /\ got \in Nat /\ v \in Nat /\ Len(d) \in Nat
          BY <1>2, <1>3, <1>4, <1>5
        <4> QED BY <4>1, <4>2, SMTT(60)
      <3>9. rb' \in Buffers(LineUnits \cup ReplyUnits)
        BY <3>1, <3>4, <3>6, <3>8 DEF Buffers
      <3> QED BY <3>4, <3>5, <3>7, <3>8, <3>9 DEF Sound, InBounds
    <2> QED BY <2>1, <2>2
  <1>15. Read' = p + k
    BY <1>1, <1>4, <1>5, <1>12, <1>14 DEF Read
  <1>16. ReadIsWritten'
    <2>1. received' = u /\ u \in 0..m /\ p + k \in 0..u
      BY <1>1, <1>4, <1>2, <1>5, <1>12
    <2> QED BY <1>1, <1>14, <1>15, <2>1 DEF ReadIsWritten
  <1>17. WrittenIsSent'
    BY DEF ClientInv, WrittenIsSent, Follows, EndsLine, Size
  <1> QED BY <1>1, <1>10, <1>11, <1>12, <1>13, <1>15, <1>16, <1>17

\* What the parser has been fed then: the part it has of the line, or the line.
\* It accepts the line unless it is a bad one.
LEMMA LineTaken ==
  ASSUME ClientInv, parsed = (IF AtLine THEN <<>> ELSE LineSoFar),
         NEW k \in Nat \ {0}, Read + k <= Len(written), Read' = Read + k,
         \A j \in 1..(k - 1) : ~EndsLine(written[Read + j]), UNCHANGED <<sent, written>>,
         NEW units, units = parsed \o SubSeq(written, Read + 1, Read + k),
         NEW r, r = Whole + 1
  PROVE  /\ r \in 1..Len(sent) /\ units \in Seq(LineUnits) /\ units # <<>> /\ Last(units).id = r
         /\ IF EndsLine(written[Read + k])
            THEN /\ AtLine' /\ Whole' = r /\ units = Line(r)
                 /\ Accepted' = IF Kind(r) = "bad" THEN Accepted ELSE Append(Accepted, r)
            ELSE ~AtLine' /\ units = LineSoFar' /\ Whole' = Whole /\ Accepted' = Accepted
  <1>1. PICK w, m, p, c : w = written /\ m = Len(written) /\ p = Read /\ c = Begun
    OBVIOUS
  <1>2. /\ w \in Seq(LineUnits) /\ m = Len(w) /\ m \in Nat /\ p \in Nat /\ p + k <= m
        /\ \A i \in 1..m : w[i] \in LineUnits /\ w[i].id \in 1..Len(sent)
    <2>1. w \in Seq(LineUnits)
      BY <1>1 DEF ClientInv, WrittenIsSent
    <2>2. p \in Nat
      BY <1>1 DEF ClientInv, ReadIsWritten
    <2> QED BY <1>1, <2>1, <2>2, LenProperties, ElementOfSeq DEF ClientInv, WrittenIsSent
  <1>3. \A j \in 1..k : w[p + j].id = r /\ w[p + j].nth = c + j
    BY <1>1, <1>2, LineGoesOn DEF ClientInv
  <1>4. /\ c \in Nat
        /\ parsed = [i \in 1..c |-> [id |-> r, part |-> "line", nth |-> i]]
    <2>1. CASE AtLine
      <3>1. c = 0 /\ parsed = <<>>
        BY <1>1, <2>1 DEF Begun
      <3>2. [i \in 1..0 |-> [id |-> r, part |-> "line", nth |-> i]] = <<>>
        OBVIOUS
      <3> QED BY <3>1, <3>2
    <2>2. CASE ~AtLine
      <3>1. p # 0 /\ w[p] \in LineUnits /\ p \in 1..m
        <4>1. p # 0
          BY <2>2, <1>1 DEF AtLine
        <4> QED BY <4>1, <1>2
      <3>2. w[p].id \in Nat /\ w[p].nth \in Nat
        <4>1. \A u \in LineUnits : u.nth \in Nat
          BY DEF LineUnits
        <4> QED BY <3>1, <4>1, <1>2
      <3>3. r = w[p].id
        <4>1. Whole = w[p].id - 1
          BY <2>2, <1>1 DEF Whole, AtLine
        <4> QED BY <3>2, <4>1
      <3>4. c = w[p].nth
        BY <2>2, <1>1 DEF Begun
      <3> QED BY <2>2, <3>2, <3>3, <3>4, <1>1 DEF LineSoFar
    <2> QED BY <2>1, <2>2
  <1>5. \A j \in 1..k : w[p + j] = [id |-> r, part |-> "line", nth |-> c + j]
    <2> SUFFICES ASSUME NEW j \in 1..k PROVE w[p + j] = [id |-> r, part |-> "line", nth |-> c + j]
      OBVIOUS
    <2>1. PICK u : u = w[p + j]
      OBVIOUS
    <2>2. p + j \in 1..m
      BY <1>2
    <2>3. u \in LineUnits /\ u.id = r /\ u.nth = c + j
      BY <2>1, <2>2, <1>2, <1>3
    <2> QED BY ONLY <2>1, <2>3 DEF LineUnits
  <1>6. r \in 1..Len(sent) /\ Len(sent) \in Nat /\ Len(sent) <= MaxCommands /\ MaxCommands \in Nat
    <2>1. p + 1 \in 1..m /\ 1 \in 1..k
      BY <1>2
    <2>2. w[p + 1].id = r
      BY <2>1, <1>3
    <2>3. Len(sent) \in Nat /\ Len(sent) <= MaxCommands
      BY LenProperties DEF ClientInv, WrittenIsSent
    <2> QED BY <2>1, <2>2, <2>3, <1>2, SessionAssumption
  <1> DEFINE U == [i \in 1..(c + k) |-> [id |-> r, part |-> "line", nth |-> i]]
             win == SubSeq(w, p + 1, p + k)
  <1>7. win \in Seq(LineUnits) /\ Len(win) = k /\ \A i \in 1..k : win[i] = w[p + i]
    <2>1. w \in Seq(LineUnits) /\ p \in Nat /\ p + k \in p..Len(w)
      BY <1>2
    <2>2. /\ win \in Seq(LineUnits) /\ Len(win) = (p + k) - p
          /\ \A i \in 1..((p + k) - p) : win[i] = w[p + i]
      BY ONLY <2>1, Window, ZenonT(60)
    <2>3. (p + k) - p = k
      BY <1>2
    <2> HIDE DEF win
    <2> QED BY <2>2, <2>3
  <1>8. U \in Seq(LineUnits) /\ parsed \in Seq(LineUnits) /\ Len(U) = c + k /\ Len(parsed) = c
    <2>1. \A i \in Nat \ {0} : [id |-> r, part |-> "line", nth |-> i] \in LineUnits
      BY <1>6 DEF LineUnits, Ids, Capa, Banner
    <2> DEFINE unit(i) == [id |-> r, part |-> "line", nth |-> i]
    <2>2. c \in Nat /\ c + k \in Nat
      BY <1>4
    <2>3. ASSUME NEW n \in Nat
          PROVE  [i \in 1..n |-> unit(i)] \in Seq(LineUnits) /\ Len([i \in 1..n |-> unit(i)]) = n
      <3>1. \A i \in 1..n : unit(i) \in LineUnits
        BY <2>1
      <3> HIDE DEF unit
      <3> QED BY ONLY <3>1
    <2> QED BY ONLY <1>4, <2>2, <2>3
  <1>9. units = U
    <2>1. units = parsed \o win
      BY <1>1
    <2> HIDE DEF U, win
    <2>2. /\ parsed \o win \in Seq(LineUnits) /\ Len(parsed \o win) = Len(parsed) + Len(win)
          /\ \A i \in 1..(Len(parsed) + Len(win)) :
               (parsed \o win)[i] = IF i <= Len(parsed) THEN parsed[i] ELSE win[i - Len(parsed)]
      BY ONLY <1>7, <1>8, ConcatProperties
    <2>3. ASSUME NEW i \in 1..(c + k) PROVE (parsed \o win)[i] = U[i]
      <3>1. (parsed \o win)[i] = IF i <= c THEN parsed[i] ELSE win[i - c]
        BY ONLY <1>7, <1>8, <2>2, <2>3
      <3>2. U[i] = [id |-> r, part |-> "line", nth |-> i]
        BY ONLY <2>3 DEF U
      <3>3. CASE i <= c
        <4>1. i \in 1..c
          BY <1>4, <3>3
        <4>2. parsed[i] = [id |-> r, part |-> "line", nth |-> i]
          BY <1>4, <4>1
        <4> QED BY <3>1, <3>2, <3>3, <4>2
      <3>4. CASE ~(i <= c)
        <4>1. i - c \in 1..k /\ c + (i - c) = i
          BY <1>4, <3>4
        <4>2. win[i - c] = w[p + (i - c)]
          BY <1>7, <4>1
        <4>3. w[p + (i - c)] = [id |-> r, part |-> "line", nth |-> c + (i - c)]
          BY <1>5, <4>1
        <4> QED BY <3>1, <3>2, <3>4, <4>1, <4>2, <4>3
      <3> QED BY <3>3, <3>4
    <2> QED BY <2>1, <2>2, <2>3, <1>7, <1>8, SeqEqual
  <1>10. /\ units \in Seq(LineUnits) /\ units # <<>> /\ Last(units).id = r
    <2>1. c + k \in 1..(c + k) /\ c + k # 0
      BY <1>4
    <2>2. U[c + k] = [id |-> r, part |-> "line", nth |-> c + k]
      BY <2>1
    <2>3. U # <<>>
      BY <1>8, <2>1, EmptySeq
    <2>4. Last(units) = U[c + k]
      BY <1>8, <1>9 DEF Last
    <2>5. Last(units).id = r
      <3>1. Last(units) = [id |-> r, part |-> "line", nth |-> c + k]
        BY <2>2, <2>4
      <3> QED BY ONLY <3>1
    <2> QED BY <1>8, <1>9, <2>3, <2>5
  <1>11. PICK q, e : q = p + k /\ e = w[p + k]
    OBVIOUS
  <1>12. e = [id |-> r, part |-> "line", nth |-> c + k] /\ q \in 1..m /\ q # 0 /\ Read' = q
    <2>1. k \in 1..k
      OBVIOUS
    <2>2. w[p + k] = [id |-> r, part |-> "line", nth |-> c + k]
      BY <1>5, <2>1
    <2> QED BY <2>2, <1>1, <1>2, <1>11
  <1>13. EndsLine(e)' <=> EndsLine(e)
    BY DEF EndsLine, Size
  <1>14. Kind(r)' = Kind(r) /\ Good' = Good
    BY DEF Good, Kind, EndsLine, Size
  <1>15. Accepted' = IF e \in Good THEN Append(Accepted, r) ELSE Accepted
    <2>1. PICK G, x, y : G = Good /\ x = SubSeq(w, 1, p) /\ y = SubSeq(w, 1, q)
      OBVIOUS
    <2>2. Accepted = IdsOf(Filter(x, G))
      BY <1>1, <1>2, <2>1, AcceptedIs
    <2>3. Accepted' = IdsOf(Filter(y, G))
      <3>1. (written \in Seq(LineUnits) /\ Read \in 0..Len(written))'
        BY <1>1, <1>2, <1>12
      <3>2. (Accepted = IdsOf(Filter(SubSeq(written, 1, Read), Good)))'
        BY <3>1, AcceptedIsNext
      <3>3. SubSeq(written, 1, Read)' = y
        BY <2>1, <1>1, <1>12
      <3>4. Filter(SubSeq(written, 1, Read), Good)' = Filter(y, G)
        <4>1. PICK H : H = Good'
          OBVIOUS
        <4>2. Filter(SubSeq(written, 1, Read), Good)' = Filter(y, H)
          BY ONLY <3>3, <4>1 DEF Filter, IsFilter
        <4> QED BY <4>1, <4>2, <2>1, <1>14
      <3>5. IdsOf(Filter(SubSeq(written, 1, Read), Good))' = IdsOf(Filter(y, G))
        BY <3>4 DEF IdsOf
      <3> QED BY <3>2, <3>5
    <2>4. NoneBetween(w, p, q, G)
      <3> SUFFICES ASSUME NEW i \in (p + 1)..(q - 1) PROVE w[i] \notin G
        BY DEF NoneBetween
      <3>1. i - p \in 1..(k - 1) /\ p + (i - p) = i
        BY <1>2, <1>11
      <3>2. ~EndsLine(w[i])
        BY <1>1, <3>1
      <3> QED BY <3>2, <2>1 DEF Good
    <2>5. Filter(y, G) = IF e \in G THEN Filter(x, G) \o <<e>> ELSE Filter(x, G)
      <3>1. q \in (p + 1)..Len(w) /\ p \in Nat /\ w \in Seq(LineUnits)
        BY <1>2, <1>11
      <3>2. Filter(y, G) = IF w[q] \in G THEN Filter(x, G) \o <<w[q]>> ELSE Filter(x, G)
        <4>1. Filter(SubSeq(w, 1, q), G) = IF w[q] \in G THEN Filter(SubSeq(w, 1, p), G) \o <<w[q]>>
                                          ELSE Filter(SubSeq(w, 1, p), G)
          BY ONLY <3>1, <2>4, FilterNext
        <4> QED BY <2>1, <4>1
      <3> QED BY <3>2, <1>11
    <2>6. Filter(x, G) \in Seq(LineUnits)
      <3>1. x \in Seq(LineUnits)
        <4>1. 0 \in Nat /\ p \in 0..Len(w)
          BY <1>2
        <4>2. SubSeq(w, 0 + 1, p) \in Seq(LineUnits)
          BY ONLY <4>1, <1>2, Window
        <4> QED BY <4>2, <2>1, 0 + 1 = 1
      <3> QED BY <3>1, FilterConcat
    <2>7. e \in G => IdsOf(Filter(x, G) \o <<e>>) = Append(IdsOf(Filter(x, G)), e.id)
      <3>1. e \in G => e \in LineUnits
        BY <2>1 DEF Good
      <3> QED BY <2>6, <3>1, IdsOfAppend
    <2> QED BY <2>1, <2>2, <2>3, <2>5, <2>7, <1>12
  <1>16. CASE EndsLine(e)
    <2>1. c + k = Size(r)
      BY <1>12, <1>16 DEF EndsLine
    <2>2. units = Line(r)
      BY <1>9, <2>1 DEF Line, LineUnitsOf
    <2>3. AtLine' /\ Whole' = r
      BY <1>1, <1>11, <1>12, <1>13, <1>16 DEF AtLine, Whole
    <2>4. e \in Good <=> Kind(r) # "bad"
      <3>1. e \in LineUnits
        BY <1>2, <1>11, <1>12
      <3> QED BY <3>1, <1>12, <1>16 DEF Good
    <2> QED BY <1>1, <1>6, <1>10, <1>11, <1>15, <1>16, <2>2, <2>3, <2>4
  <1>17. CASE ~EndsLine(e)
    <2>1. written'[Read'] = e
      BY <1>1, <1>11, <1>12
    <2>2. ~AtLine' /\ Whole' = r - 1
      BY <2>1, <1>12, <1>13, <1>17 DEF AtLine, Whole
    <2>3. LineSoFar' = units
      <3>1. LineSoFar' = [j \in 1..e.nth |-> [id |-> e.id, part |-> "line", nth |-> j]]
        BY <2>1 DEF LineSoFar
      <3>2. e.id = r /\ e.nth = c + k
        BY ONLY <1>12
      <3> QED BY <3>1, <3>2, <1>9
    <2>4. r - 1 = Whole
      <3>1. Whole \in Int
        <4>1. p # 0 => w[p].id \in Nat
          BY <1>2
        <4> QED BY <4>1, <1>1 DEF Whole
      <3> QED BY <3>1
    <2>5. e \notin Good
      BY <1>17 DEF Good
    <2> QED BY <1>1, <1>6, <1>10, <1>11, <1>15, <1>17, <2>2, <2>3, <2>4, <2>5
  <1> QED BY <1>16, <1>17

\* A command is accepted: it goes to the end of the queue.
LEMMA ChainGrows ==
  ASSUME AcceptedInOrder, NEW r \in Nat, Accepted' = Append(Accepted, r)
  PROVE  Chain' = Append(Chain, r)
  <1> DEFINE A == Accepted
  <1>1. A \in Seq(Nat)
    <2>1. A \in Seq(1..Len(sent)) /\ 1..Len(sent) \subseteq Nat
      BY DEF AcceptedInOrder
    <2> HIDE DEF A
    <2> QED BY <2>1, SeqMonotonic
  <1>2. Chain = <<Capa>> \o A /\ Chain' = <<Capa>> \o Append(A, r) /\ Capa \in Nat
    BY DEF Chain, Capa
  <1> HIDE DEF A
  <1>3. <<Capa>> \o Append(A, r) = Append(<<Capa>> \o A, r)
    BY <1>1, <1>2, SMTT(60)
  <1> QED BY <1>2, <1>3

LEMMA QueueGrows ==
  ASSUME AcceptedInOrder, QueueIsRest, sent' = sent, Len(sent) \in Nat, Len(sent) <= MaxCommands,
         NEW r \in 1..Len(sent), r = Whole + 1, Whole \in Nat, Whole' = r,
         Accepted' = Append(Accepted, r), queue'.nodes = Append(queue.nodes, r), request' = request
  PROVE  AcceptedInOrder' /\ QueueIsRest' /\ Turn' = Turn
  <1>1. PICK A, B, C, D, s, t, a, l, h :
          /\ A = Accepted /\ B = Accepted' /\ C = Chain /\ D = Chain'
          /\ s = queue.nodes /\ t = queue'.nodes /\ a = Len(A) /\ l = Len(s) /\ h = Turn
    OBVIOUS
  <1>2. /\ A \in Seq(1..Len(sent)) /\ a \in Nat /\ B = Append(A, r)
        /\ \A i \in 1..a : A[i] \in Nat /\ i <= A[i] /\ A[i] < r
        /\ \A i, j \in 1..a : i < j => A[i] < A[j]
    <2>1. A \in Seq(1..Len(sent)) /\ a \in Nat
      BY <1>1, LenProperties DEF AcceptedInOrder
    <2>2. \A i \in 1..a : A[i] \in 1..Len(sent)
      BY <1>1, <2>1, ElementOfSeq
    <2>3. \A i \in 1..a : i <= A[i] /\ A[i] <= Whole
      BY <1>1 DEF AcceptedInOrder
    <2>4. \A i, j \in 1..a : i < j => A[i] < A[j]
      BY <1>1 DEF AcceptedInOrder
    <2> QED BY <1>1, <2>1, <2>2, <2>3, <2>4
  <1>3. a < r
    <2>1. CASE a = 0
      BY <2>1
    <2>2. CASE a # 0
      <3>1. a \in 1..a
        BY <2>2, <1>2
      <3>2. A[a] \in Nat /\ a <= A[a] /\ A[a] < r
        BY <3>1, <1>2
      <3> QED BY <3>2, <1>2
    <2> QED BY <2>1, <2>2
  <1>4. /\ B \in Seq(1..Len(sent)) /\ Len(B) = a + 1 /\ B[a + 1] = r
        /\ \A i \in 1..a : B[i] = A[i]
    BY <1>1, <1>2, AppendProperties
  <1>5. \A i \in 1..(a + 1) : i = a + 1 \/ i \in 1..a
    BY <1>2
  <1>6. AcceptedInOrder'
    <2>1. ASSUME NEW i \in 1..(a + 1) PROVE i <= B[i] /\ B[i] <= r
      <3>1. CASE i = a + 1
        BY <3>1, <1>2, <1>3, <1>4
      <3>2. CASE i \in 1..a
        BY <3>2, <1>2, <1>4
      <3> QED BY <3>1, <3>2, <1>5
    <2>2. ASSUME NEW i \in 1..(a + 1), NEW j \in 1..(a + 1), i < j PROVE B[i] < B[j]
      <3>1. i \in 1..a
        BY <2>2, <1>2
      <3>2. CASE j = a + 1
        BY <3>1, <3>2, <1>2, <1>4
      <3>3. CASE j \in 1..a
        BY <3>1, <3>3, <2>2, <1>2, <1>4
      <3> QED BY <3>2, <3>3, <1>5
    <2> QED BY <1>1, <1>4, <2>1, <2>2, ZenonT(60) DEF AcceptedInOrder
  <1>7. /\ C \in Seq(Nat) /\ Len(C) = a + 1 /\ D = Append(C, r)
    BY <1>1, ChainIs, ChainGrows
  <1>8. /\ D \in Seq(Nat) /\ Len(D) = a + 2 /\ D[a + 2] = r
        /\ \A i \in 1..(a + 1) : D[i] = C[i]
    <2>1. /\ D \in Seq(Nat) /\ Len(D) = Len(C) + 1 /\ D[Len(C) + 1] = r
          /\ \A i \in 1..Len(C) : D[i] = C[i]
      BY <1>7, AppendProperties
    <2>2. Len(C) + 1 = a + 2
      BY <1>2, <1>7
    <2> QED BY <1>7, <2>1, <2>2
  <1>9. /\ s \in Seq(1..MaxCommands) /\ l \in Nat /\ t = Append(s, r)
        /\ h = (a + 1) - l /\ h \in 1..(a + 1)
        /\ \A i \in 1..l : s[i] = C[h + i]
    <2>1. s \in Seq(1..MaxCommands) /\ l \in Nat /\ t = Append(s, r)
      BY <1>1, LenProperties DEF QueueIsRest
    <2>2. h = (a + 1) - l
      BY <1>1, <1>7 DEF Turn
    <2>3. h \in 1..(a + 1) /\ \A i \in 1..l : s[i] = C[h + i]
      BY <1>1, <1>7 DEF QueueIsRest
    <2> QED BY <2>1, <2>2, <2>3
  <1>10. /\ t \in Seq(1..MaxCommands) /\ Len(t) = l + 1 /\ t[l + 1] = r
         /\ \A i \in 1..l : t[i] = s[i]
    <2>1. r \in 1..MaxCommands
      <3>1. MaxCommands \in Nat
        BY SessionAssumption
      <3> QED BY <3>1
    <2>2. l = Len(s) /\ s \in Seq(1..MaxCommands) /\ t = Append(s, r)
      BY <1>1, <1>9
    <2> QED BY ONLY <2>1, <2>2, AppendProperties
  <1>11. Turn' = h
    <2>1. Turn' = Len(D) - Len(t)
      BY <1>1 DEF Turn
    <2>2. Len(D) = a + 2 /\ Len(t) = l + 1 /\ h = (a + 1) - l /\ a \in Nat /\ l \in Nat
      BY <1>2, <1>8, <1>9, <1>10
    <2> QED BY ONLY <2>1, <2>2
  <1>12. ASSUME NEW i \in 1..(l + 1) PROVE t[i] = D[h + i]
    <2>1. CASE i = l + 1
      <3>1. h + i = a + 2
        BY <2>1, <1>2, <1>9
      <3> QED BY <2>1, <3>1, <1>8, <1>10
    <2>2. CASE i # l + 1
      <3>1. i \in 1..l /\ h + i \in 1..(a + 1)
        <4>1. a \in Nat /\ l \in Nat /\ h = (a + 1) - l /\ h \in 1..(a + 1)
          BY <1>2, <1>9
        <4>2. i \in 1..(l + 1) /\ i # l + 1
          BY <2>2
        <4> QED BY ONLY <4>1, <4>2
      <3> QED BY <3>1, <1>8, <1>9, <1>10
    <2> QED BY <2>1, <2>2
  <1>13. QueueIsRest'
    <2>1. request' = D[h]
      BY <1>1, <1>8, <1>9 DEF QueueIsRest
    <2>2. h \in 1..(a + 2)
      BY <1>2, <1>9
    <2> QED BY <1>1, <1>8, <1>10, <1>11, <1>12, <2>1, <2>2 DEF QueueIsRest
  <1> QED BY <1>1, <1>6, <1>11, <1>13

LEMMA QueueStays ==
  ASSUME AcceptedInOrder, QueueIsRest, sent' = sent, Whole \in Nat, Whole' \in Nat, Whole <= Whole',
         Accepted' = Accepted, queue'.nodes = queue.nodes, request' = request
  PROVE  AcceptedInOrder' /\ QueueIsRest' /\ Turn' = Turn
  <1>1. Chain' = Chain /\ Turn' = Turn
    BY DEF Chain, Turn
  <1>2. AcceptedInOrder'
    <2>1. PICK x, y : x = Whole /\ y = Whole'
      OBVIOUS
    <2>2. \A i \in 1..Len(Accepted) : Accepted[i] \in Nat /\ i <= Accepted[i] /\ Accepted[i] <= x
      BY <2>1, ElementOfSeq DEF AcceptedInOrder
    <2>3. \A i \in 1..Len(Accepted) : Accepted[i] <= y
      BY <2>1, <2>2
    <2> QED BY <2>1, <2>2, <2>3 DEF AcceptedInOrder
  <1>3. QueueIsRest'
    BY <1>1 DEF QueueIsRest
  <1> QED BY <1>1, <1>2, <1>3

\* What a step does to the chain and the queue: nothing, or one more request.
Accepting ==
  \/ Accepted' = Accepted /\ queue' = queue
  \/ \E r \in 1..Len(sent) : Accepted' = Append(Accepted, r) /\ queue' = Enqueue(queue, r)

LEMMA RequestStep ==
  ASSUME ClientInv, ArmedFor, RequestReadStep
  PROVE  ClientInv' /\ Turn' = Turn /\ Accepting
  <1>1. /\ Alive /\ ReadsRequests /\ armed = <<"READ", "NOOP">> /\ state = "REQUEST"
        /\ UNCHANGED <<sent, written, request>>
    BY DEF RequestReadStep, On, Alive, ReadsRequests, ArmedFor, Armed
  <1>2. parsed = IF AtLine THEN <<>> ELSE LineSoFar
    BY <1>1 DEF ClientInv, Parsing
  <1>3. /\ \A i \in 1..Len(written) : written[i].id \in Nat \ {0}
        /\ Len(sent) \in Nat /\ Len(sent) <= MaxCommands
        /\ Read \in Nat /\ Read <= Len(written) /\ Len(written) \in Nat
    <2>1. written \in Seq(LineUnits) /\ \A i \in 1..Len(written) : written[i].id \in 1..Len(sent)
      BY DEF ClientInv, WrittenIsSent
    <2>2. Len(sent) \in Nat /\ Len(sent) <= MaxCommands /\ Len(written) \in Nat
      BY <2>1, LenProperties DEF ClientInv, WrittenIsSent
    <2>3. Read \in 0..received /\ received \in 0..Len(written)
      BY DEF ClientInv, ReadIsWritten
    <2> QED BY <2>1, <2>2, <2>3
  <1>4. Whole \in Nat
    <2>1. Read # 0 => written[Read].id \in Nat \ {0}
      BY <1>3
    <2> QED BY <2>1 DEF Whole
  <1>5. PICK n \in FromClient(Room(rb)) :
       IF n <= 0 /\ ~CanRead(rb)
       THEN /\ Leave(1, IF pipelining /\ IsEmpty(queue) THEN Stay("DONE") ELSE Fail)
            /\ UNCHANGED <<rb, parsed, queue, fault, received, delivered>>
       ELSE LET got   == IF n > 0 THEN n ELSE 0
                b     == Put(rb, Slice(written, received, got))
                k     == FirstLine(b.data)
                units == parsed \o SubSeq(b.data, 1, k) IN
            /\ received' = received + got
            /\ rb' = Drop(b, k)
            /\ IF LineEnds(b.data) # {} THEN ProcessRequest(units, Drop(b, k))
               ELSE /\ parsed' = units
                    /\ Leave(1, Stay("REQUEST"))
                    /\ UNCHANGED <<queue, fault, delivered>>
    BY DEF RequestReadStep
  <1>6. CASE n <= 0 /\ ~CanRead(rb)
    <2>1. UNCHANGED <<reading, parsed, queue, request>> /\ state' = "CLOSED"
      BY <1>1, <1>5, <1>6 DEF reading, Leave, Closes, Stay, Fail, Outcome
    <2>2. UNCHANGED reading
      BY <2>1
    <2>3. ~Alive' /\ QueueIsRest' /\ Turn' = Turn
      BY <2>1, <2>2, QueueKept DEF Alive, ClientInv
    <2>4. Accepting
      BY <2>1, <2>2, ReadingKept DEF Accepting
    <2> QED BY <2>1, <2>2, <2>3, <2>4, ReadingKept DEF ClientInv, Parsing, NothingYet
  <1>7. CASE ~(n <= 0 /\ ~CanRead(rb))
    <2>0. n > 0 \/ CanRead(rb)
      <3>1. n \in Int
        <4>1. Len(written) \in Nat /\ received \in Int
          BY <1>3 DEF ClientInv, ReadIsWritten
        <4> QED BY DEF FromClient, Received
      <3> QED BY <3>1, <1>7
    <2>1. PICK got, b, k, units, r :
            /\ got = IF n > 0 THEN n ELSE 0
            /\ b = Put(rb, Slice(written, received, got))
            /\ k = FirstLine(b.data)
            /\ units = parsed \o SubSeq(b.data, 1, k)
            /\ r = Whole + 1
      OBVIOUS
    <2>2. /\ received' = received + got
          /\ rb' = Drop(b, k)
          /\ IF LineEnds(b.data) # {} THEN ProcessRequest(units, Drop(b, k))
             ELSE /\ parsed' = units
                  /\ Leave(1, Stay("REQUEST"))
                  /\ UNCHANGED <<queue, fault, delivered>>
      BY <1>5, <1>7, <2>1
    <2>3. /\ k \in Nat \ {0} /\ Read + k <= Len(written)
          /\ Read' = Read + k /\ ReadIsWritten' /\ WrittenIsSent'
          /\ SubSeq(b.data, 1, k) = SubSeq(written, Read + 1, Read + k)
          /\ \A j \in 1..(k - 1) : ~EndsLine(written[Read + j])
          /\ LineEnds(b.data) # {} <=> EndsLine(written[Read + k])
      <3>1. sent' = sent /\ written' = written /\ received' = received + got /\ rb' = Drop(b, k)
        BY <1>1, <2>2
      <3>2. got = (IF n > 0 THEN n ELSE 0) /\ b = Put(rb, Slice(written, received, got))
            /\ k = FirstLine(b.data)
        BY <2>1
      <3>3. Reads(n, got, b, k)
        BY <3>1, <3>2, <2>0 DEF Reads
      <3> QED BY <3>3, ReadsOn
    <2>4. units = parsed \o SubSeq(written, Read + 1, Read + k)
      BY <2>1, <2>3
    <2>5. /\ r \in 1..Len(sent) /\ units \in Seq(LineUnits) /\ units # <<>> /\ Last(units).id = r
          /\ IF EndsLine(written[Read + k])
             THEN /\ AtLine' /\ Whole' = r /\ units = Line(r)
                  /\ Accepted' = IF Kind(r) = "bad" THEN Accepted ELSE Append(Accepted, r)
             ELSE ~AtLine' /\ units = LineSoFar' /\ Whole' = Whole /\ Accepted' = Accepted
      <3>1. UNCHANGED <<sent, written>>
        BY <1>1
      <3> QED BY <1>2, <2>1, <2>3, <2>4, <3>1, LineTaken, ZenonT(60)
    <2>6. ~(state' \in Early)
      <3>1. state' \in {"REQUEST", "CLOSED"}
        BY <2>2 DEF ProcessRequest, Leave, Closes, Stay, ToOrigin, Outcome
      <3> QED BY <3>1 DEF Early
    <2>7. CASE LineEnds(b.data) = {}
      <3>1. /\ parsed' = units /\ queue' = queue /\ fault' = fault /\ state' = "REQUEST" /\ armed' = armed
        BY <2>2, <2>7, <1>1 DEF Leave, Closes, Stay, Outcome, Given
      <3>2. ~AtLine' /\ parsed' = LineSoFar' /\ Whole' = Whole /\ Accepted' = Accepted
        BY <2>3, <2>5, <2>7, <3>1
      <3>3. AcceptedInOrder' /\ QueueIsRest' /\ Turn' = Turn
        BY <1>1, <1>4, <3>1, <3>2, QueueStays DEF ClientInv
      <3>5. Accepting
        BY <3>1, <3>2 DEF Accepting
      <3>4. ReadsRequests'
        BY <3>1, <1>1 DEF ReadsRequests
      <3> QED BY <2>3, <2>5, <2>6, <3>1, <3>2, <3>3, <3>4, <3>5 DEF ClientInv, Parsing, NothingYet
    <2>8. CASE LineEnds(b.data) # {}
      <3>1. /\ AtLine' /\ Whole' = r /\ units = Line(r)
            /\ Accepted' = IF Kind(r) = "bad" THEN Accepted ELSE Append(Accepted, r)
        BY <2>3, <2>5, <2>8
      <3>2. Accepts(units) <=> Kind(r) # "bad"
        BY <2>5, <3>1 DEF Accepts
      <3>3. ProcessRequest(units, Drop(b, k))
        BY <2>2, <2>8
      <3>4. /\ parsed' = <<>> \/ ~ReadsRequests'
            /\ parsed' \in {<<>>, units}
            /\ IF Kind(r) = "bad" THEN queue' = queue ELSE queue' = Enqueue(queue, r)
        <4>1. CASE Kind(r) = "bad"
          <5>1. ~Accepts(units)
            BY <3>2, <4>1
          <5>2. queue' = queue /\ (parsed' = <<>> \/ (parsed' = units /\ Leave(1, ToOrigin("REQUEST", "WRITE"))))
            BY <3>3, <5>1 DEF ProcessRequest
          <5>3. Leave(1, ToOrigin("REQUEST", "WRITE")) => ~ReadsRequests'
            <6> SUFFICES ASSUME Leave(1, ToOrigin("REQUEST", "WRITE")) PROVE ~ReadsRequests'
              OBVIOUS
            <6>1. armed'[1] = "NOOP"
              BY <1>1 DEF Leave, ToOrigin, Outcome, Closes, Given
            <6> QED BY <6>1 DEF ReadsRequests
          <5> QED BY <4>1, <5>2, <5>3
        <4>2. CASE Kind(r) # "bad"
          <5>1. Accepts(units)
            BY <3>2, <4>2
          <5>2. queue' = Enqueue(queue, Last(units).id) /\ parsed' = <<>>
            BY <3>3, <5>1 DEF ProcessRequest
          <5> QED BY <4>2, <5>2, <2>5
        <4> QED BY <4>1, <4>2
      <3>5. AcceptedInOrder' /\ QueueIsRest' /\ Turn' = Turn
        <4>1. CASE Kind(r) = "bad"
          <5>1. queue'.nodes = queue.nodes /\ Accepted' = Accepted
            BY <3>1, <3>4, <4>1
          <5>2. Whole' \in Nat /\ Whole <= Whole'
            BY <2>1, <3>1, <1>4
          <5> QED BY <5>1, <5>2, <1>1, <1>4, QueueStays DEF ClientInv
        <4>2. CASE Kind(r) # "bad"
          <5>1. queue'.nodes = Append(queue.nodes, r) /\ Accepted' = Append(Accepted, r)
            BY <3>1, <3>4, <4>2 DEF Enqueue
          <5> QED BY <5>1, <1>1, <1>3, <1>4, <2>1, <2>5, <3>1, QueueGrows DEF ClientInv
        <4> QED BY <4>1, <4>2
      <3>6. parsed' \in Seq(LineUnits)
        BY <2>5, <3>4, EmptySeq
      <3>7. Accepting
        BY <2>5, <3>1, <3>4 DEF Accepting
      <3> QED BY <2>3, <2>6, <3>1, <3>4, <3>5, <3>6, <3>7 DEF ClientInv, Parsing, NothingYet
    <2> QED BY <2>7, <2>8
  <1> QED BY <1>6, <1>7

-----------------------------------------------------------------------------
LEMMA ClientInit == Init => ClientInv
  <1> SUFFICES ASSUME Init PROVE ClientInv
    OBVIOUS
  <1>1. /\ sent = <<>> /\ written = <<>> /\ received = 0 /\ parsed = <<>> /\ rb = EmptyBuffer
        /\ queue = NewQueue /\ request = Capa /\ state = "CONNECTING" /\ rb.data = <<>> /\ rb.off = 0
    BY DEF Init, EmptyBuffer
  <1>2. /\ <<>> \in Seq(Command) /\ <<>> \in Seq(LineUnits) /\ <<>> \in Seq(1..MaxCommands)
        /\ <<>> \in Seq(LineUnits \cup ReplyUnits) /\ Len(<<>>) = 0 /\ SubSeq(<<>>, 0 + 1, 0) = <<>>
    BY EmptySeq
  <1>3. MaxCommands \in Nat /\ BufferSize \in Nat
    BY SessionAssumption, BufferSizeAssumption
  <1>4. WrittenIsSent
    BY <1>1, <1>2, <1>3 DEF WrittenIsSent
  <1>5. rb \in Buffers(LineUnits \cup ReplyUnits)
    BY <1>1, <1>2 DEF Buffers, EmptyBuffer
  <1>6. Read = 0 /\ Whole = 0
    <2>1. Len(rb.data) = 0
      BY <1>1, <1>2
    <2>2. Read = 0
      <3>1. received = 0 /\ Len(rb.data) = 0
        BY <1>1, <2>1
      <3> QED BY ONLY <3>1 DEF Read
    <2> QED BY <2>2 DEF Whole
  <1>7. ReadIsWritten
    BY <1>1, <1>2, <1>3, <1>5, <1>6 DEF ReadIsWritten, Sound, InBounds
  <1>8. Accepted = <<>>
    <2>1. Accepted = IdsOf(Filter(SubSeq(written, 0 + 1, Read), Good))
      BY <1>1, <1>2, <1>6, AcceptedIs, 0 + 1 = 1
    <2>2. Filter(<<>>, Good) = <<>>
      <3>1. \A i \in 1..Len(<<>>) : <<>>[i] \notin Good
        BY <1>2
      <3>2. <<>> \in Seq(LineUnits)
        BY <1>2
      <3> QED BY <3>1, <3>2, FilterNone
    <2>3. IdsOf(<<>>) = <<>>
      BY DEF IdsOf
    <2> QED BY <2>1, <2>2, <2>3, <1>1, <1>2, <1>6
  <1>9. AcceptedInOrder
    <2>1. Len(Accepted) = 0 /\ Accepted \in Seq(1..Len(sent))
      BY <1>8, EmptySeq
    <2> QED BY <2>1 DEF AcceptedInOrder
  <1>10. QueueIsRest
    <2>1. Len(Chain) = 1 /\ Chain[1] = Capa
      BY <1>8, <1>9, <1>2, ChainIs
    <2>2. queue.nodes = <<>>
      BY <1>1 DEF NewQueue
    <2> QED BY <2>1, <2>2, <1>1, <1>2 DEF QueueIsRest, Turn
  <1>11. Parsing
    BY <1>1, <1>6 DEF Parsing, ReadsRequests, AtLine
  <1> QED BY <1>1, <1>2, <1>4, <1>7, <1>9, <1>10, <1>11 DEF ClientInv, NothingYet

LEMMA ClientStep == ClientInv /\ ArmedFor /\ [Next]_vars => ClientInv'
  <1> SUFFICES ASSUME ClientInv, ArmedFor, [Next]_vars PROVE ClientInv'
    OBVIOUS
  <1>1. CASE Refused \/ Connected \/ WelcomeReadStep \/ WelcomeWriteStep \/ CapaReadStep
    BY <1>1, EarlyStep
  <1>2. CASE RequestReadStep
    BY <1>2, RequestStep
  <1>3. CASE RequestWriteStep \/ ResponseReadStep \/ ResponseWriteStep
    BY <1>3, ReplyStep
  <1>4. CASE ClientSend
    BY <1>4, ClientSends
  <1>5. CASE ClientEnds \/ OriginServe \/ OriginEnds \/ UNCHANGED vars
    <2>1. UNCHANGED <<reading, parsed, queue, request, state, armed, fault>>
      BY <1>5 DEF ClientEnds, OriginServe, OriginEnds, vars, proxyVars, clientVars, originVars, reading
    <2> QED BY <2>1, ClientStutter
  <1> QED BY <1>1, <1>2, <1>3, <1>4, <1>5 DEF Next, Proxy

LEMMA AlwaysClientInv == Spec => []ClientInv
  <1>1. Init => ClientInv
    BY ClientInit
  <1>2. ClientInv /\ ArmedFor /\ [Next]_vars => ClientInv'
    BY ClientStep
  <1> QED BY <1>1, <1>2, RelayArms, PTL DEF Spec
=============================================================================
