---------------------------- MODULE Connections ----------------------------
(***************************************************************************)
(* The life of the proxied connections: the selector (selector.c) with its *)
(* registered descriptors, the kernel's descriptor table, the struct pop3  *)
(* allocations with their reference counts and the pool they are reused    *)
(* from (pop3nio.c), the resolver threads and the notifications they queue *)
(* for the selector, and the closing of a connection (pop3_handler.c).     *)
(* What a connection relays is abstract: its handlers have the outcomes of *)
(* module Pop3Stm.  One step is one handler; only resolver threads run     *)
(* between two steps of the selector's thread.                             *)
(***************************************************************************)
EXTENDS Pop3Stm, Integers, Sequences, FiniteSets

CONSTANTS
  Fds,            \* descriptor numbers the process may open (RLIMIT_NOFILE)
  PassiveFd,      \* the listening POP3 socket, opened first
  SelectorLimit,  \* ITEMS_MAX_SIZE: numbers select(2) cannot handle start here
  HeldSets,       \* what the rest of the process (stdio, the administrators'
                  \* sockets) may hold of them: one set per execution
  Structs,        \* the addresses malloc may return for a struct pop3
  MaxPool,        \* max_pool
  MaxConcurrent,  \* bound: clients stop arriving when the metric reaches it
  Unused, Passive \* an item that is free; the item of the listening socket

ASSUME FdsAssumption ==
  /\ Fds \subseteq Nat
  /\ PassiveFd \in Fds
  /\ \A f \in Fds : PassiveFd <= f
  /\ HeldSets \subseteq SUBSET (Fds \ {PassiveFd})
  /\ SelectorLimit \in Nat
  /\ PassiveFd < SelectorLimit
ASSUME StructsAssumption ==
  /\ MaxPool \in Nat
  /\ MaxConcurrent \in Nat
  /\ Unused \notin Structs /\ Passive \notin Structs /\ Unused # Passive

NoFd == -1

VARIABLES
  owner,       \* [Fds -> struct whose registration an item is, Passive or Unused]
  interest,    \* [Fds -> Interests]: item->interest
  open,        \* the descriptors the kernel holds open
  held,        \* those of them the rest of the process holds
  phase,       \* selector_select: "select", "iterate", "blocks"
  slaveR,      \* the descriptors pselect reported, less those already handled
  slaveW,
  jobs,        \* resolution_jobs, newest first
  threads,     \* resolver threads: the copied selector_key and how far they are
  life,        \* [Structs -> "free", "live", "pooled"]
  state,       \* stm.current
  clientFd,
  originFd,
  refs,        \* references
  resolution,  \* origin_resolution: is there an address list?
  poolSize,    \* pool_size
  concurrent,  \* metrics[INST_CONCURRENT_CONNECTIONS]
  scarce,      \* may malloc and pthread_create fail in this execution?
  aborted,     \* abort() was called
  useAfterFree \* a struct was used after free()

selector == <<owner, interest, jobs>>
iteration == <<phase, slaveR, slaveW>>
fields   == <<state, clientFd, originFd, resolution>>
heap     == <<life, refs, poolSize, useAfterFree>>
env      == <<held, scarce>>   \* fixed for the whole execution
vars     == <<selector, iteration, open, threads, fields, heap, concurrent,
              env, aborted>>

Registered == {f \in Fds : owner[f] # Unused}
Live       == {s \in Structs : life[s] = "live"}
Pooled     == {s \in Structs : life[s] = "pooled"}
Thread     == [conn : Structs, fd : Fds, stage : {"running", "answered"}]

Init ==
  /\ owner = [f \in Fds |-> IF f = PassiveFd THEN Passive ELSE Unused]
  /\ interest = [f \in Fds |-> IF f = PassiveFd THEN "READ" ELSE "NOOP"]
  /\ held \in HeldSets
  /\ open = {PassiveFd} \cup held
  /\ phase = "select" /\ slaveR = {} /\ slaveW = {}
  /\ jobs = <<>> /\ threads = {}
  /\ life = [s \in Structs |-> "free"]
  /\ state = [s \in Structs |-> "RESOLUTION"]
  /\ clientFd = [s \in Structs |-> NoFd]
  /\ originFd = [s \in Structs |-> NoFd]
  /\ refs = [s \in Structs |-> 0]
  /\ resolution = [s \in Structs |-> FALSE]
  /\ poolSize = 0 /\ concurrent = 0
  /\ scarce \in BOOLEAN
  /\ aborted = FALSE /\ useAfterFree = FALSE

-----------------------------------------------------------------------------
(* Allocation: pop3_new, pop3_destroy and the pool.                        *)

Heap == [life |-> life, refs |-> refs, poolSize |-> poolSize]

\* The structs pop3_new may take: pooled ones first, else what malloc returns.
Allocatable == IF Pooled # {} THEN Pooled
               ELSE {s \in Structs : life[s] = "free"}

\* pop3_new: the struct is cleared and counts one reference.  Taking it from
\* the pool leaves pool_size as it is.
NewHeap(s) == [Heap EXCEPT !.life[s] = "live", !.refs[s] = 1]

\* pop3_destroy on an image of the heap.
PoolRoomOffByOne(h) == h.poolSize <= MaxPool    \* mutant: one struct too many
HasPoolRoom(h)      == h.poolSize < MaxPool
Destroy(h, s) ==
  IF h.refs[s] # 1 THEN [h EXCEPT !.refs[s] = @ - 1]
  ELSE IF HasPoolRoom(h)
       THEN [h EXCEPT !.life[s] = "pooled", !.poolSize = @ + 1]
       ELSE [h EXCEPT !.life[s] = "free"]

HeapIs(h) == life' = h.life /\ refs' = h.refs /\ poolSize' = h.poolSize

NewFields(s, fd) ==
  /\ state' = [state EXCEPT ![s] = "RESOLUTION"]
  /\ clientFd' = [clientFd EXCEPT ![s] = fd]
  /\ originFd' = [originFd EXCEPT ![s] = NoFd]
  /\ resolution' = [resolution EXCEPT ![s] = FALSE]

\* socket(2), accept(2): the kernel hands out the lowest free number.
IsNewFd(fd) == fd \in Fds \ open /\ \A g \in Fds \ open : fd <= g

Registrable(fd) == fd < SelectorLimit /\ owner[fd] = Unused

-----------------------------------------------------------------------------
(* Closing a connection.                                                   *)

\* selector_unregister_fd calls the item's handle_close: pop3_close.
Unregistered(h, fd) == IF owner[fd] \in Structs THEN Destroy(h, owner[fd]) ELSE h

\* close(2).
LeftOpen(fds) == open                            \* mutant: close() forgotten
Closed(fds)   == open \ fds

\* pop3_done: the client's and then the origin's descriptor are unregistered
\* and closed; an unregistration that fails aborts the program.  The log line
\* and pop3_session_close that follow still use the struct.
PopDone(s, origin) ==
  LET client == clientFd[s]
      fds    == IF origin = NoFd THEN {client} ELSE {client, origin}
      first  == Unregistered(Heap, client)
      last   == IF origin = NoFd THEN first ELSE Unregistered(first, origin)
  IN /\ concurrent' = concurrent - 1
     /\ IF client = origin \/ \E fd \in fds : owner[fd] = Unused
        THEN /\ aborted' = TRUE
             /\ UNCHANGED <<owner, interest, open, heap>>
        ELSE /\ owner' = [fd \in Fds |-> IF fd \in fds THEN Unused ELSE owner[fd]]
             /\ interest' = [fd \in Fds |-> IF fd \in fds THEN "NOOP" ELSE interest[fd]]
             /\ open' = Closed(fds)
             /\ HeapIs(last)
             /\ useAfterFree' = (useAfterFree \/ last.life[s] = "free")
             /\ UNCHANGED aborted

-----------------------------------------------------------------------------
(* The selector's thread: selector_select.                                 *)

\* handle_iteration goes through the descriptors in increasing order, the
\* read event of each before its write event.
IsNext(fd) == /\ fd \in slaveR \cup slaveW
              /\ \A g \in slaveR \cup slaveW : fd <= g
NextEvent(fd) == IF fd \in slaveR THEN "READ" ELSE "WRITE"

Taken(fd) == /\ ~aborted /\ phase = "iterate" /\ IsNext(fd)
             /\ slaveR' = slaveR \ {fd}
             /\ slaveW' = IF fd \in slaveR THEN slaveW ELSE slaveW \ {fd}
             /\ UNCHANGED <<phase, jobs, env>>

\* No client arrives once the bound on the connection metric is reached.
Readable == {fd \in Fds : /\ interest[fd] = "READ"
                          /\ owner[fd] # Passive \/ concurrent < MaxConcurrent}

\* pselect returns: any of the armed descriptors may be ready, none after a
\* timeout or a signal.
Select ==
  /\ ~aborted /\ phase = "select"
  /\ slaveR' \in SUBSET Readable
  /\ slaveW' \in SUBSET {fd \in Fds : interest[fd] = "WRITE"}
  /\ phase' = "iterate"
  /\ UNCHANGED <<selector, open, threads, fields, heap, concurrent, env, aborted>>

\* An event whose item is gone or no longer interested is passed over.
Current(fd) == owner[fd] # Unused /\ interest[fd] = NextEvent(fd)
Event(fd)   == Taken(fd) /\ Current(fd)

EndIteration ==
  /\ ~aborted /\ phase = "iterate" /\ slaveR \cup slaveW = {}
  /\ phase' = "blocks"
  /\ UNCHANGED <<selector, slaveR, slaveW, open, threads, fields, heap,
                 concurrent, env, aborted>>

NoJobs   == <<>>                                 \* mutant: one job per round
NextJobs == Tail(jobs)

\* handle_block_notifications takes the queued jobs with the mutex held.
Block(fd) ==
  /\ ~aborted /\ phase = "blocks" /\ jobs # <<>>
  /\ fd = Head(jobs)
  /\ jobs' = NextJobs
  /\ UNCHANGED <<iteration, threads, env>>

EndBlocks ==
  /\ ~aborted /\ phase = "blocks" /\ jobs = <<>>
  /\ phase' = "select"
  /\ UNCHANGED <<selector, slaveR, slaveW, open, threads, fields, heap,
                 concurrent, env, aborted>>

-----------------------------------------------------------------------------
(* pop3_accept_connection.                                                 *)

\* metric_add_new_connection runs before the result of accept is looked at.
NotCounted == concurrent                         \* mutant: the metric forgotten
Counted    == concurrent + 1

AcceptEvent(fd) == /\ Event(fd) /\ owner[fd] = Passive
                   /\ concurrent' = Counted
                   /\ UNCHANGED <<threads, aborted>>

\* accept(2) fails, or pop3_new does and the new socket is closed again.
AcceptNothing(fd) ==
  /\ AcceptEvent(fd)
  /\ UNCHANGED <<owner, interest, open, fields, heap>>

\* selector_register refuses the descriptor: it is closed, the struct destroyed.
AcceptRejected(fd) ==
  /\ AcceptEvent(fd)
  /\ \E client \in Fds, s \in Allocatable :
       /\ IsNewFd(client) /\ ~Registrable(client)
       /\ HeapIs(Destroy(NewHeap(s), s))
       /\ NewFields(s, client)
  /\ UNCHANGED <<owner, interest, open, useAfterFree>>

Accept(fd) ==
  /\ AcceptEvent(fd)
  /\ \E client \in Fds, s \in Allocatable :
       /\ IsNewFd(client) /\ Registrable(client)
       /\ HeapIs(NewHeap(s))
       /\ NewFields(s, client)
       /\ open' = open \cup {client}
       /\ owner' = [owner EXCEPT ![client] = s]
       /\ interest' = [interest EXCEPT ![client] = "WRITE"]
  /\ UNCHANGED useAfterFree

-----------------------------------------------------------------------------
(* The handlers of a connection: pop3_read, pop3_write and pop3_block run  *)
(* the state machine and close the connection on ERROR and DONE.           *)

ConnEvent(fd, s) == Event(fd) /\ owner[fd] = s

\* stm.c aborts when the state has no handler for the event.
Abort == /\ aborted' = TRUE
         /\ UNCHANGED <<owner, interest, open, state, heap, concurrent>>

StaysArmed(o, fd, client, origin) ==             \* mutant: the handled one stays armed
  [g \in Fds |-> IF g = origin /\ o.origin # "KEEP" THEN o.origin
                 ELSE IF g = client /\ o.client # "KEEP" THEN o.client
                 ELSE interest[g]]
\* The interests an outcome leaves: the later call wins.
NewInterest(o, fd, client, origin) ==
  [g \in Fds |-> IF g = origin /\ o.origin # "KEEP" THEN o.origin
                 ELSE IF g = client /\ o.client # "KEEP" THEN o.client
                 ELSE IF g = fd THEN Given(o.key, interest[g])
                 ELSE interest[g]]

\* selector_set_interest refuses a descriptor that is not registered, and the
\* handlers turn that into ERROR.
Refused(o, client, origin) ==
  \/ o.client # "KEEP" /\ owner[client] = Unused
  \/ o.origin # "KEEP" /\ (origin = NoFd \/ owner[origin] = Unused)

Finish(o, fd, s, origin) ==
  IF Refused(o, clientFd[s], origin) \/ Closes(o.next)
  THEN /\ PopDone(s, origin)
       /\ UNCHANGED state
  ELSE /\ interest' = NewInterest(o, fd, clientFd[s], origin)
       /\ state' = [state EXCEPT ![s] = o.next]
       /\ UNCHANGED <<owner, open, heap, concurrent, aborted>>

\* origin_server_resolution.  pthread_create reports a failure with a positive
\* number, which the comparison with -1 misses: the connection then waits as
\* if the thread were running.
ResolutionStart(fd, s) ==
  /\ ConnEvent(fd, s) /\ state[s] = "RESOLUTION" /\ NextEvent(fd) = "WRITE"
  /\ \E o \in OriginServerResolution :
       /\ o = Fail => scarce
       /\ Finish(o, fd, s, originFd[s])
       /\ \/ o # Fail /\ threads' = threads \cup
                           {[conn |-> s, fd |-> fd, stage |-> "running"]}
          \/ scarce /\ UNCHANGED threads
  /\ UNCHANGED <<clientFd, originFd, resolution>>

\* connecting: the first event on the origin's socket.
ConnectingStep(fd, s) ==
  /\ ConnEvent(fd, s) /\ state[s] = "CONNECTING" /\ NextEvent(fd) = "WRITE"
  /\ originFd' = [originFd EXCEPT ![s] = fd]
  /\ \E o \in Connecting : Finish(o, fd, s, fd)
  /\ UNCHANGED <<threads, clientFd, resolution>>

\* Every later handler, and the events that no handler takes.
RelayStep(fd) ==
  /\ Taken(fd) /\ owner[fd] # Passive
  /\ LET s == owner[fd] IN
     IF ~Current(fd)
     THEN UNCHANGED <<owner, interest, open, state, heap, concurrent, aborted>>
     ELSE /\ state[s] \in {"RESOLUTION", "CONNECTING"} => NextEvent(fd) # "WRITE"
          /\ IF HasHandler(state[s], NextEvent(fd))
             THEN \E o \in Outcomes(state[s], NextEvent(fd)) :
                    Finish(o, fd, s, originFd[s])
             ELSE Abort
  /\ UNCHANGED <<threads, clientFd, originFd, resolution>>

-----------------------------------------------------------------------------
(* Name resolution: the threads, their notifications and what the selector *)
(* does with them.                                                         *)

\* getaddrinfo answers, and the thread writes into the struct.
ThreadResolves(t) ==
  /\ ~aborted /\ t \in threads /\ t.stage = "running"
  /\ threads' = (threads \ {t}) \cup {[t EXCEPT !.stage = "answered"]}
  /\ \E found \in BOOLEAN : resolution' = [resolution EXCEPT ![t.conn] = found]
  /\ UNCHANGED <<selector, iteration, open, state, clientFd, originFd, heap,
                 concurrent, env, aborted>>

\* selector_notify_block: the job is queued under the mutex, which
\* handle_block_notifications holds for its whole loop; a failed malloc loses it.
ThreadNotifies(t) ==
  /\ ~aborted /\ t \in threads /\ t.stage = "answered"
  /\ threads' = threads \ {t}
  /\ \/ phase # "blocks" /\ jobs' = <<t.fd>> \o jobs
     \/ scarce /\ UNCHANGED jobs
  /\ UNCHANGED <<owner, interest, iteration, open, fields, heap, concurrent,
                 env, aborted>>

\* origin_server_resolution_done: no address, or origin_server_connect fails
\* (no socket, an immediate error, a descriptor the selector refuses).  A job
\* whose item is gone is passed over; one that reaches the listening socket or
\* a state without a block handler ends the program.
ResolutionFails(fd) ==
  /\ Block(fd)
  /\ IF owner[fd] = Unused
     THEN UNCHANGED <<owner, interest, open, heap, concurrent, aborted, resolution>>
     ELSE IF owner[fd] = Passive \/ ~HasHandler(state[owner[fd]], "BLOCK")
     THEN Abort /\ UNCHANGED resolution
     ELSE /\ PopDone(owner[fd], originFd[owner[fd]])
          /\ resolution' = [resolution EXCEPT ![owner[fd]] = FALSE]
  /\ UNCHANGED <<state, clientFd, originFd>>

\* references += 1.
NotReferenced(s) == refs                         \* mutant: the reference forgotten
Referenced(s)    == [refs EXCEPT ![s] = @ + 1]

\* connect(2) is in progress: the origin's socket is registered and counted.
ResolutionDone(fd, s) ==
  /\ Block(fd) /\ owner[fd] = s /\ state[s] = "RESOLUTION" /\ resolution[s]
  /\ \E origin \in Fds :
       /\ IsNewFd(origin) /\ Registrable(origin)
       /\ open' = open \cup {origin}
       /\ owner' = [owner EXCEPT ![origin] = s]
       /\ interest' = [interest EXCEPT ![fd] = "NOOP", ![origin] = "WRITE"]
  /\ refs' = Referenced(s)
  /\ state' = [state EXCEPT ![s] = "CONNECTING"]
  /\ resolution' = [resolution EXCEPT ![s] = FALSE]
  /\ UNCHANGED <<clientFd, originFd, life, poolSize, useAfterFree, concurrent, aborted>>

-----------------------------------------------------------------------------
Iteration(fd) ==
  \/ AcceptNothing(fd) \/ AcceptRejected(fd) \/ Accept(fd) \/ RelayStep(fd)
  \/ \E s \in Structs : ResolutionStart(fd, s) \/ ConnectingStep(fd, s)

Notification(fd) == ResolutionFails(fd) \/ \E s \in Structs : ResolutionDone(fd, s)

Loop == \/ Select \/ EndIteration \/ EndBlocks
        \/ \E fd \in Fds : Iteration(fd) \/ Notification(fd)

ThreadStep(t) == ThreadResolves(t) \/ ThreadNotifies(t)

Next == Loop \/ \E t \in Thread : ThreadStep(t)

Spec == Init /\ [][Next]_vars

\* The selector's loop never stops (pselect has a timeout), getaddrinfo answers
\* in the end, and a thread that waits for the mutex gets it: the selector lets
\* it go in every round, for as long as it sleeps in pselect.
Fairness == /\ WF_vars(Loop)
            /\ \A s \in Structs :
                 SF_vars(\E t \in Thread : t.conn = s /\ ThreadStep(t))
FairSpec == Spec /\ Fairness

-----------------------------------------------------------------------------
TypeOK ==
  /\ owner \in [Fds -> Structs \cup {Unused, Passive}]
  /\ interest \in [Fds -> Interests]
  /\ open \subseteq Fds /\ held \subseteq Fds
  /\ phase \in {"select", "iterate", "blocks"}
  /\ slaveR \subseteq Fds /\ slaveW \subseteq Fds
  /\ jobs \in Seq(Fds)
  /\ threads \subseteq Thread
  /\ life \in [Structs -> {"free", "live", "pooled"}]
  /\ state \in [Structs -> States]
  /\ clientFd \in [Structs -> Fds \cup {NoFd}]
  /\ originFd \in [Structs -> Fds \cup {NoFd}]
  /\ refs \in [Structs -> Nat]
  /\ resolution \in [Structs -> BOOLEAN]
  /\ poolSize \in 0..MaxPool
  /\ concurrent \in Int
  /\ scarce \in BOOLEAN /\ aborted \in BOOLEAN /\ useAfterFree \in BOOLEAN

OwnedBy(s) == {f \in Fds : owner[f] = s}

\* A live struct counts exactly the descriptors registered with it, and a
\* struct that is pooled or free is registered nowhere: it is released with
\* its last descriptor, neither before nor after (references, pop3nio.h).
RefsCountRegistrations ==
  \A s \in Structs :
    Cardinality(OwnedBy(s)) = IF s \in Live THEN refs[s] ELSE 0

\* Every resolver thread and every queued notification is for a connection
\* that still waits for it: the struct is live and in RESOLUTION, the
\* descriptor is its client's, and neither event of it is armed, so nothing
\* can close the connection, or reuse the number, before the job is handled.
Waits(s, fd) == /\ s \in Live /\ clientFd[s] = fd /\ owner[fd] = s
                /\ state[s] = "RESOLUTION" /\ interest[fd] = "NOOP"
ResolversAreAwaited ==
  /\ \A t \in threads : Waits(t.conn, t.fd)
  /\ \A i \in 1..Len(jobs) : \E s \in Structs : Waits(s, jobs[i])

\* The interests in the selector are those of the connection's state, so an
\* event never reaches a state without a handler for it, or the handler meant
\* for the other descriptor; and the relay is half duplex.
InterestMatchesState ==
  \A s \in Live :
    \E armed \in Armed(state[s]) :
      /\ interest[clientFd[s]] = armed[1]
      /\ \A f \in OwnedBy(s) \ {clientFd[s]} : interest[f] = armed[2]

\* The program never calls abort(): neither in stm.c, for a missing handler,
\* nor in pop3_done, for a descriptor that is not registered.
NeverAborts == ~aborted

\* Between two handlers the open descriptors are those the selector knows:
\* none leaks, and pselect never sees a closed one (EBADF, which ends main's
\* loop and with it every session).
OpenIffRegistered == open = Registered \cup held /\ Registered \cap held = {}

\* What pselect reported still stands when its turn comes, whatever the
\* handlers of lower descriptors have closed, opened or disarmed since: the
\* event of one connection is never delivered to the next owner of its number.
ReadinessIsCurrent ==
  /\ \A fd \in slaveR : owner[fd] # Unused /\ interest[fd] = "READ"
  /\ \A fd \in slaveW : owner[fd] # Unused /\ interest[fd] = "WRITE"

\* The connection metric never reports fewer connections than there are, and
\* the pool holds no more structs than its counter admits, nor that than max_pool.
CountersBound ==
  /\ Cardinality(Live) <= concurrent
  /\ Cardinality(Pooled) <= poolSize
  /\ poolSize <= MaxPool

\* A connection as module ConnectionControl sees it: its state from CONNECTING on,
\* and the interests of its client's and of its origin's descriptor.
Relays(s)       == s \in Live /\ state[s] # "RESOLUTION"
OriginItem(s)   == CHOOSE f \in OwnedBy(s) \ {clientFd[s]} : TRUE
ControlState(s) == IF Relays(s) THEN state[s] ELSE "CLOSED"
ControlArmed(s) == IF Relays(s) THEN <<interest[clientFd[s]], interest[OriginItem(s)]>>
                   ELSE <<"NOOP", "NOOP">>
Control(s) == INSTANCE ConnectionControl WITH state <- ControlState(s), armed <- ControlArmed(s)

\* Every connection does what one connection promises, however the handlers of
\* the others come between and whoever had its struct and its numbers before: a
\* step of the process is, for each struct, a handler of its own state run for an
\* event its own descriptors are armed for, the beginning of a new connection, or
\* nothing.
Begins(s) == ControlState(s) = "CLOSED" /\ Control(s)!Init'
EachFollowsControl ==
  [][\A s \in Structs : Begins(s) \/ [Control(s)!Next]_(Control(s)!vars)]_vars

\* Unless memory or threads run out, a connection that waits for its name
\* resolution is told the result: no notification is lost, whatever the order
\* in which threads and selector run.
ResolutionEnds ==
  \A s \in Structs :
    (~scarce /\ Waits(s, clientFd[s])) ~> ~Waits(s, clientFd[s])

\* A struct is not used after it has been freed.
NoUseAfterFree == ~useAfterFree
=============================================================================
