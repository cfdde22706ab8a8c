# ProxyPOP3: a formal model

TLA+ modules that model the three programs of this repository: the POP3 proxy
(`src/proxy_pop3`), the MIME filter it pipes mails through (`src/mime_filter`) and
the administration client (`src/admin_client`); configurations that check them
with TLC on small instances, and theorems about them, checked by TLAPS, for every
instance. Paths below are relative to `src/proxy_pop3/` unless they say otherwise.

## 1. The system

The proxy accepts POP3 clients, resolves and connects to an origin server for
each, relays commands and replies between the two, optionally runs retrieved
mails through an external filter, and is administered over SCTP. It has one
thread that does everything in non-blocking handlers called by a selector, plus
one detached thread per name resolution.

### Inventory

| Component | Files | State | Operations | Modelled in |
|---|---|---|---|---|
| Selector | `selector.c` | items (descriptor, interest, handler, data), the sets pselect returned, `resolution_jobs` under a mutex | register, unregister, set interest, select, notify | `Connections` |
| State machine engine | `stm.c` | `current` | jump, dispatch of read/write/block, abort without a handler | `Pop3Stm`, `Connections`, `Session` |
| Connection handlers | `pop3nio.c` | `struct pop3`: the stm, two descriptors, the address list, the buffers, per-state structs | one handler per state and event | `Pop3Stm` (control), `Session` (data) |
| Allocation and closing | `pop3nio.c`, `pop3_handler.c` | `references`, the pool, `pool_size` | accept, new, destroy, close, done | `Connections` |
| Resolution | `pop3nio.c`, `selector.c` | threads, jobs, `origin_resolution` | start, answer, notify, connect | `Connections` |
| Relay | `pop3nio.c`, `client_request_utils.c`, `client_response_utils.c`, `pipelining.c`, `pop3_session.c` | three buffers, two parsers, request queue, `pipelining` | the handlers from connecting to response_write | `Session` |
| Buffer | `buffer.c` | read and write pointer | put, take, compact | `Buffer` |
| Request queue | `msg_queue.c` | list, cursor | enqueue, dequeue, peek, walk | `MsgQueue` |
| Request parser | `client_parser_request.c`, `client_request.c` | line so far, state | consume | `Session`, partly |
| Response parser | `client_parser_response.c`, `client_response.c` | line so far, state | consume | `Session`, partly |
| Terminator parser | `parser.c`, `pop3_multi.c` | automaton state | feed | `Pop3Multi` |
| External transformation | `external_transformation.c` | two pipes, child process, flags, two automata | start, read and write of the pipes and of the peers, finish | `Transformation`, one mail at a time |
| Administration | `admin*.c` | `struct admin`: status of the session, the reply due; the settings all share | accept, read and act, write, quit | `Admin` |
| Filter list | `filter_list.c` | list of types with lists of subtypes | forbid, allow, list, find | `FilterList`, in `Admin` |
| Metrics, logs | `metrics.c`, `logs.c` | counters | add, remove | the metric of connections in `Connections`, of administrators in `Admin` |
| Set-up | `main.c`, `input_parser.c`, `utils.c` | parameters | parse, open sockets, loop | initial state of `Connections` |
| MIME filter | `src/mime_filter` | `struct ctx`: two automatons, comparisons with names, a stack of delimiters, the list of forbidden types, a buffer for a header's value | one octet of a mail read, what it writes | `MimeParsers`, `MimeFilter`, over the mails of `MimeMails` in `MimeStream` |
| Administration client | `src/admin_client` | `a_status`, `quit_option_on`, `r_status`, where its thread waits | receive the welcome, a command, its reply; help; refuse | `AdminClient` |

### How the parts interact

* `selector_select` blocks in `pselect`, copies the ready sets, and calls the
  handlers of the ready descriptors in increasing order. A handler may close
  descriptors, open others and change interests while the rest of the snapshot
  is still to be processed.
* Every handler of a connection enters `stm.c` with the event; the handler of
  the current state returns the next state; `pop3_handler.c` closes the
  connection on `ERROR` and `DONE`. A missing handler is an `abort()`.
* A resolver thread gets a copy of the `selector_key`, writes the address list
  into the shared `struct pop3`, queues a job under the mutex and signals the
  selector's thread. The job names a descriptor number, not a connection.
* The two descriptors of a connection share one struct, which counts them in
  `references`; unregistering a descriptor drops a reference.
* Commands go client → `read_buffer` → request parser → queue →
  `write_buffer` → origin; replies go origin → `write_buffer` → response
  parser → `super_buffer` → client. Each state arms one descriptor.
* An administrator's request acts on the settings when it is read; its reply is
  sent by a later event. The settings (filter list, program, switch) are shared
  by all administrators and read by the relay.
* `pop3ctl` has one thread, which waits for a line of its user or for a message
  of the service, never for both: who speaks next must be the same on both sides.
* The MIME filter is another process: the proxy's automaton of `pop3_multi.c`
  cuts the mail out of the stream, the filter's own (the same table, in
  `multi_pop3_parser.c`) takes the stuffing away and finds the end again.

### What is hard

Threads against the selector (lost wakeups, reused numbers, freed structs),
the ready snapshot going stale inside an iteration, interests that must agree
with the state of the machine, failures half-way through opening or closing,
counters that must survive a long history, requests of several administrators
on the same settings, a handler that retries a send, fragmentation and coalescing of the
streams in both directions, pipelined requests and replies that must stay
paired, buffers that only compact when empty, and waiting for an event that
will not come; in the filter, a dozen automatons that must be reset at the right
octet, and delimiters that nest. `PROJECT.json` lists each as a hazard at its line.

## 2. The modules

| Module | Models | Lines of code it stands for |
|---|---|---|
| `Pop3Stm` | the states, `client_states`, and for every handler the outcomes it may have: the state it returns and the interests it leaves | `pop3nio.c`, `client_response_utils.c` |
| `ConnectionControl` | abstract specification of one connection: handlers are run for an armed event and follow the table | `stm.c`, `pop3_handler.c` |
| `Connections` | many connections: selector, kernel descriptors, structs, pool, threads, jobs | `selector.c`, `pop3nio.c`, `pop3_handler.c` |
| `MCConnections` | constants of `Connections` for TLC | |
| `Buffer`, `MsgQueue` | the two data structures, as operators on records | `buffer.c`, `msg_queue.c` |
| `Session` | one connection with its data, a client and an origin | the rest of `pop3nio.c`, both parsers, the helpers |
| `MediaTypes` | abstract specification of the filter list: a set of rules, with the two exceptions of `filter_list.c:38`, and what each command is told | |
| `FilterList` | the two-level linked list and the functions on it | `filter_list.c` |
| `Admin` | the administrators' sessions, what their requests do, the metric | `admin*.c`, `metrics.c` |
| `AdminClient` | some of the administrators are people at `pop3ctl`; composes the program with `Admin` | `src/admin_client` |
| `MCAdmin` | requests and command lines for TLC | |
| `Pop3Multi` | the automaton that finds the end of a multi-line reply, as operators; the proxy and the filter have the same | `pop3_multi.c`, `parser.c`, `multi_pop3_parser.c` |
| `Pop3MultiStream` | the automaton fed with any stream, and what it should find there | `parser.c` |
| `Transformation` | one mail through the filter program, by the four descriptors of EXTERNAL_TRANSFORMATION | `external_transformation.c`, `pop3nio.c` |
| `MimeParsers` | the automatons of headers and body, of Content-Type's value, and the comparison with a name | `mime_msg.c`, `mime_type.c`, `parser_utils.c`, `mime_chars.c` |
| `MimeFilter` | `struct ctx` and what each octet does to it | `mime_filter.c`, `mime_list.c`, `delimiter.c`, `stack.c` |
| `MimeMails` | mails, and what should become of each | |
| `MimeStream` | composes the filter with `Pop3MultiStream` and the mails | `main` of `mime_filter.c` |
| `SequenceLemmas` | lemmas only: windows and filters of sequences, least elements, induction, recursive functions | |
| `Pop3StmProofs`, `ConnectionsProofs`, `SessionProofs`, `RelayProofs`, `TransformationProofs`, `MimeProofs`, `AdminProofs` | theorems on the modules of those names; `SessionProofs` also on `ConnectionControl`, `RelayProofs` on what `Session` relays, `MimeProofs` on `Pop3MultiStream` and `MimeStream` | |

**Pop3Stm** is where the two views of a connection meet. An outcome is a record
of the next state and of three interests: of the descriptor whose event is
handled (`key`), and of the client's and the origin's, by name, in the order
the code sets them. `Connections` lets a handler have any outcome of the table;
`Session` computes which, and the property `ControlSpec` (checked and proved)
says that it never leaves the table, as `EachFollowsControl` says it of each of the
many connections in `Connections`. So what holds of `Connections` holds with
sessions that relay real traffic.

**Connections.** `owner` and `interest` are the item table; `open` is the
kernel's; `life`, `refs` and `poolSize` are the heap; `state`, `clientFd`,
`originFd`, `resolution` are the fields of the structs. A `Select` step takes
any subset of the armed descriptors as ready; then one step per descriptor,
lowest first, runs a whole handler, closing included. Threads are records of a
copied key and a stage, and step between any two steps of the selector.
`scarce` chooses, once per execution, whether `malloc` and `pthread_create` may
fail. `abort()` and a use after `free()` set a flag rather than stop the model.

**Session.** Octets are grouped into units: a command is one or more units, a
reply one or more; `recv` and `send` move any number of units, so that a unit
boundary is any place where a stream can be cut that the code could
distinguish. The client and the origin are external: the client sends any
sequence of commands, the origin answers whole lines in order; both may close
or reset at any time. `fault` records why the process died (a fault of memory,
an abort on an empty queue, or a `SIGPIPE`). `cut` is a history variable: has
request_write met a line longer than the buffer (the request parser takes about 45
octets, `BUFFER_SIZE` is 30), or has a send to the origin been short? The code goes on
after either, and so does the model, but a request is dropped by the retry or left at
the cursor, and what was in order no longer is: the properties of the relay say what
holds until then.

**Admin.** `conn`, `interest`, `greeted`, `due`, `failed` and `quit` are a
session's `struct admin` and its item; `list`, `program` and `switch` the
settings. An SCTP message is a request or a reply as a whole. `ReadRequest` is
`admin_read` with `parse_action`: every setting changes there, and `due` is what
a later `Sent`, `NotSent` or `Quit` (one turn of `admin_write`) transmits;
`writing` is the session whose handler is inside the loop of that function, so
that no other handler runs. Where memory may run out the operators of
`FilterList` give a set of outcomes. `answers` is a history variable: what
every request was answered, in the order they took effect; `FilterSpec` maps
it and the list to `MediaTypes` (`double`: the rules the list holds twice). `replies`
are the same by administrator.

**AdminClient.** `phase` is where the thread of `pop3ctl` waits: for the welcome, at
its prompt, for a reply, or no longer. `React` is what `communicate_with_proxy`
does with the status of every command, those that are answered (`Receive`), those
that are refused without being sent (`Refuse`) and HELP (`Help`) alike. When the
service has gone, `receive_response` reads its reply from a buffer that holds none,
so `ReceiveNothing` may have any status. A person sends what the program lets
through, may leave at any moment, and is one of `Admin`'s administrators: the two
share `SendRequest` and `AdminLeaves`, and the service cannot tell people from other
administrators (`ClientsAreAdmins`). HELP as the first command has the program read
the status it started with and take the user for authenticated; the property says
so.

**Pop3Multi, Pop3MultiStream.** The table of `pop3_multi.c` looks at four kinds
of octets only, so a stream is a sequence of these. The properties say on the
stream as a whole what the automaton finds octet by octet: where a reply ends
and which octets are stuffing.

**MimeParsers, MimeFilter.** One record is `struct ctx`; a handler of the code is
an operator from `ctx` to `ctx`, and `Pop3MultiOctet` is one turn of `main`'s loop.
The code compares octets with names that never share a beginning in the mails, so
an "octet" of the model is a run of octets that neither a table nor a name tells
apart: a CR, a punctuation mark, `--`, a word. A word that the code would recognise
octet by octet is recognised at once; a failed comparison fails at once. The size of
the value buffer (`MAX`) is counted in these units. `stopped` records that the
process died (a null pointer followed, or `abort`). The model's output was compared
with that of the compiled program on several thousand random mails, without a
difference.

**MimeMails.** A mail is a document: its octets, each with the delimiters that may
end a part behind it, and the words that should be written. `Part`, `Multipart` and
`Forward` build documents from the inside out, so the reference definition is a
description of mails, not a second parser. It also notes which lines are behind the
end of an inner multipart (`behind`; `sound` counts the octets of a mail in front of the
first) and which mails the filter is known to die of (`fatal`). Its header says what the
mails never contain; each of those is a way in which the filter is known to go wrong.

**MimeStream.** The variables of `Pop3MultiStream` are the filter's automaton. Its
input is one of the mails or any short stream, so the properties of the automaton
and those of the filter are checked on the same behaviours.

**Transformation.** From response_read's step into the state to the departure
of the state. `interest` has the client, the origin and the two pipe ends;
`inbuf` is filled from the origin and emptied into the filter, `outbuf` the
same for the filter and the client; `et` is `struct external_transformation`.
The mail is made of whole lines, but the two octet pairs of its end are units
of their own, so that the end may be cut; each unit is fed to the automaton of
`Pop3Multi` octet by octet. A write to a pipe takes all of a buffer this small
(writes up to PIPE_BUF are atomic and `BUFFER_SIZE` is 30) and `send` any part; for
the same reason ext_write's branch for a write that fails with `EAGAIN` is left out: the
selector reports a pipe writable when PIPE_BUF octets fit.
`died` records that the process ended: by an assertion of `buffer.c`, since the
two notices of 46 and 37 octets do not fit 30, or by a `SIGPIPE`. The filter is
external: it reads, buffers, answers what it likes once it has input, ends its
output behind the end of its input, or fails at any moment.

## 3. The runs

| Run | Instance | Question |
|---|---|---|
| `connections` | 6 descriptors (the last one beyond the selector's limit), 0 or 2 of them held by others, 2 structs, pool of 2, metric up to 2 | ownership, references, interests, descriptors, snapshot, counters; does each connection follow the control table whoever comes between? a resolution ends |
| `connections_reuse` | the same | is a struct ever used after it is freed? (yes) |
| `session_lockstep` | buffers of 2 units, 2 commands of every kind and of 1 or 2 units, replies of 3, greeting of 3 | is every command answered? does the session follow the control table? |
| `session_pipelined` | buffers of 2 units, 3 commands of 1, 2 or 3 units sent at will, origin with or without PIPELINING, whose socket holds 4 units, so that sends are short | buffer bounds, whatever happens; order, pairing, accounting and the cursor, until a line is dropped or a send is short |
| `session_one_segment` | 2 commands sent at will | is every received command forwarded? (no) |
| `admin` | a user of `pop3ctl`, who may leave, and another administrator; 2 requests in all, of 12 kinds; -M gives a subtype twice, or one named like its type | one reply to each request, in order; do program and service agree on whose turn it is? the list implements a set of rules; the metric; every request is answered |
| `transformation` | buffers of 3 units, mails of 0 to 3 lines, 1 to 3 units of which came in the segment of the +OK line, pipes that are ready below 3 units, output of at most 3 lines, a reply behind the mail or none | does the filter get exactly the mail, the client exactly its output, and does it end? |
| `transformation_first_line` | nothing of the mail came with its +OK line | does it end? (no) |
| `mime` | 317 mails, of one part, of one or two parts, of two parts with a mail of two parts between them, with or without lines behind the inner end, and mails known to be fatal, under 4 lists of forbidden types; all streams of up to 7 octets of 4 kinds | is each forbidden part replaced and everything else written as it was? does the stack follow the nesting? does the filter die of what it is known to die of, and of nothing else? is the end of the stream found where it is, the stuffing undone? |
| `mime_nested` | a multipart in a multipart | is a forbidden picture in it left out? (no) |
| `mime_trailed` | a mail in a mail, with a blank line or a line of text behind its end delimiter | do the delimiters of the outer multipart stay on the stack? (no) |
| `admin_retry` | 2 administrators, sends may fail for a moment | is every request answered? (no) |

*Bounds.* Two structs and five usable descriptors let two whole connections
coexist with the listening socket, so numbers and structs are reused while the
other connection is anywhere in its life; the sixth number, and the two held
ones, make both a client and an origin meet the selector's limit. The pool of
two is exhausted and overfull in the same histories. `MaxConcurrent` bounds how
far the metric can grow: clients stop arriving there. In `Session` a buffer of
two units is full with one unit of a reply and the rest of another, so that
compaction, a full buffer, a short write and a partial reply all occur; lines
of two units are cut anywhere; lines and replies of three do not fit. Three pipelined
commands are the least for which the queue has a first, a middle and a last
node. `SockCap` is the room in the socket towards the origin: four units fill it, which
is less than three commands may take, so a send may take less than all, or nothing. Once
`cut` is set the origin may be sent a request again for ever: from there on `MaxReplies`
bounds what it answers; until then its answers are bounded by the commands. Two requests, on lists that already hold a type
with a subtype twice and another one, or a subtype of the type's own name, are enough for each pair of commands on the list
to meet, from one administrator or from both; the other administrator sends at any
time, so that a second request is pending while the first is answered. `MaxTold` is
above what two requests can be answered. Seven octets are an empty line, the end of
the reply and two more, or four and a second try at the end; the mails, of 28 to
271 units, take the automaton through much longer streams. `MaxLength` is above
that, and `MaxValue` above the longest value that is not meant to overflow. Five
kinds of parts meet in every pair, and four of them in front of, in and behind a mail
in the mail; the lists of types are one subtype, a whole type, several types, and
two subtypes of one type. The mail and what follows it in `transformation` do not fit a buffer of
3 units, nor a pipe, so that both sides wait on each other.

*Deadlock* is checked for `connections`. A session ends when its connection is
closed and the administrators may have nothing more to ask, so the `Session` and
`Admin` runs switch it off.

*Fairness.* `Connections`: `WF(Loop)`, because `selector_select` always
returns (`pselect` has a timeout) and `main` calls it again; `SF` of each
connection's thread steps, because `getaddrinfo` answers and the mutex, which
a thread needs to notify, is free for as long as the selector sleeps, in every
round. `Session`: `WF(Proxy)`, the selector calls the handler of a descriptor
that stays ready, and `WF(OriginServe)`, the origin answers what it received.
The client is never assumed to do anything. `Admin`: `WF` of each session's
handlers, since every round of the selector runs the handler of each ready
descriptor, and `SF(Sent)`: an administrator that stays reads what it is sent,
so a send tried for ever succeeds; `WF` of the program's reads: `sctp_recvmsg`
returns what has arrived. The person at the program is never assumed to do
anything. `Transformation`: `WF` of each handler, as
above, and of the filter's input and output: a filter that does its part reads
what it is given and completes its output, unless it fails.

### What the runs found

* `connections_reuse`: `pool_size` is only ever incremented (`pop3nio.c:97-99`;
  `pop3_new` takes structs out without decrementing), so after 50 releases
  structs are freed instead of pooled, by the unregistration inside
  `pop3_done`, which then logs from and closes the session of the freed struct.
* `session_one_segment`: with a second command already in the buffer the
  machine stays in REQUEST and waits for the client, which waits for it
  (`client_request_utils.c:67`).
* `mime_nested`: outside a message/rfc822 the second multipart of a mail pushes no
  delimiter (`src/mime_filter/mime_filter.c:190`, `353-369`): its boundary is appended
  to the first one's, the parts inside are not found and a forbidden picture in
  them is written out.
* `mime_trailed`: at a newline in a body the delimiter on top is popped if the last
  comparison found an end delimiter (`src/mime_filter/mime_filter.c:437-444`), and a
  line of text, or a blank one, compares nothing and leaves that answer as it was: the
  outer multipart's delimiter goes as well, and its remaining parts are not found. The
  repository's own forwarded mail has that blank line
  (`src/test_cases/iii_images_fwd.mbox:107-109`). `StackFollowsNesting`, `WritesTheMail`
  and `WritesItWhole` are claimed up to such a line.
* `admin_retry`: a send that fails once marks `resp_status`, which the loop in
  `admin_write` tests and only code behind the loop resets: the handler sends
  the reply with status 0 for ever and every other connection stops.
* `transformation_first_line`: if the +OK line of a mail arrives alone, the
  transformation begins with an empty buffer; `ext_write` writes nothing, which
  is neither of its two cases (`external_transformation.c:58-81`), and the
  origin's descriptor stays on `OP_NOOP`: the mail is never read. `docs/Informe.pdf`
  (p. 10) tells of the proxy hanging when somebody plays the origin by hand with
  the transformations on, cause unknown.

Seen while modelling `Session`: a negative answer to the proxy's CAPA reaches `strstr`
as a null pointer (`pop3nio.c:514`, `pipelining.c:12`). It is a fault of the model
(`CapaResult`); the runs have an origin that answers CAPA with `+OK`.

Seen while proving `FilterSpec`, and part of what `MediaTypes` says: `forbid_new` looks
for the type where it means the subtype (`filter_list.c:38`). A subtype given twice with
-M is therefore listed twice (`double`); an ALLOW of it is answered as done, removes one
of the two, and the subtype may stay forbidden. And a subtype that is called like its
type (`image/image`) makes every later FORBID of a subtype of that type be answered as
done and not listed (`Namesake`). The command lines of `admin` do both.

Seen while modelling the MIME filter, and left out of its mails (the header of
`MimeMails` lists all): a value that ends in a blank takes the next header with it
(`src/mime_filter/mime_msg.c:163`); a line that is only the beginning of a delimiter,
or a line of a replaced part that begins with dashes, disturbs the comparison; text
behind a replaced last part is not written; and, since a comparison is told EQ at every
octet that agrees (`src/mime_filter/parser_utils.c:76-81`), a media type that is the
beginning of a forbidden one is taken for it (`mime_filter.c:743-750` and `781-788`:
image/svg for image/svg+xml). In the mails no name is the beginning of another, and a
name is one unit. Known to be fatal, and checked by `DiesOnlyOf` to be fatal before
their end, as no other mail is: FILTER_MEDIAS without a type, Content-Type as the
first header, a boundary without quotes, a multipart without parts and text behind it,
a value without end.

Seen while modelling `Transformation`, and stated as the conditions of its
properties: after a short send `parse_mail` goes a second time over what was
left in the buffer, so an end may be missed or added twice, and the last send
of a reply, if short, leaves nothing armed.

## 4. The proofs

| Theorem | States | Assuming |
|---|---|---|
| `IInvAlways`, `TypeCorrect`, `ResolversAwaited`, `NoAbort`, `OpenAreRegistered`, `ReadinessStaysCurrent`, `InterestsMatch`, `RefsAreRegistrations`, `CountersAreBounds` | every invariant of `connections` | the constants' assumptions |
| `ConnectionsFollowControl` | `EachFollowsControl`: each connection is a behaviour of `ConnectionControl` | the constants' assumptions |
| `AlwaysHalfDuplex`, `SessionFollowsControl` | half duplex of the control; `Session` implements it | |
| `RelayTyped`, `BuffersStayInBounds` | `TypeOK`, `BuffersInBounds`, at any time | the constants' assumptions |
| `RequestsStayInOrder`, `RepliesStayInOrder`, `RepliesMatch`, `RequestsAreSentFirst`, `NoCommandIsLost`, `QueueStaysSound` | the other invariants of `session_pipelined`, each of which begins `~cut =>` | the constants' assumptions |
| `TransformationTyped`, `FilterIsGivenTheMail`, `RepliesAreWhole` | every invariant of `transformation` | the constants' assumptions |
| `RepliesPair`, `Lockstep`, `AuthenticatedIsTold` | `OneReplyEach`, `InLockstep`, `AuthenticatedOnceTold` | `SendFails = FALSE` |
| `AdminTyped` | `TypeOK` of `Admin` | the constants' assumptions |
| `FilterImplementsRules` | `FilterSpec`: the filter list is a set of rules, but for the two exceptions of `filter_list.c:38` | the constants' assumptions |
| `MetricCounts`, `ClientsAreAdmins` | `AdminsCounted`; the service with people at `pop3ctl` is the service | |
| `EndToldIsReal`, `EndToldIsFound`, `StuffingIsUndone`, `StreamTypeCorrect`, and in the filter `FilterFeedsTheAutomaton`, `MailEndIsReal`, `MailIsUnstuffed` | every invariant of the automaton | |
| `MimeTypeCorrect` | `MimeTypeOK`: the types of the automaton and the types and bounds of the filter's context, for every mail and stream | |

*Connections.* None of its invariants is inductive alone: that `references`
counts registrations needs to know which descriptors a struct has, that a
closing never aborts needs both to be registered, that a job finds its
connection needs that nothing can close it meanwhile, and so on. `IInv`
(`ConnectionsProofs`) conjoins

1. `TypeOK`, and `Listening`: the passive socket is registered and open;
2. `Shapes`: a live struct is either `Alone` in RESOLUTION with one descriptor
   and one reference, or `Paired` with exactly two descriptors and two
   references, with the interests that go with its state; any other struct is
   registered nowhere;
3. `Awaited`: threads and jobs are for distinct descriptors of connections that
   wait, with no event armed;
4. `Ready`: what is left of the snapshot is still registered and armed;
5. `OpenIffRegistered` and `NeverAborts`.

The key lemmas: every outcome of the table leaves the interests of the state it
returns (`Pop3StmProofs`, by cases on the state), so a handler keeps `Shapes`
or closes; `pop3_done` on a connection with a shape finds all it unregisters,
and releases the struct with the last (`PopDoneReleases`); a handler of one
connection frames the others (`OthersKeepShape`, and the `Awaited...` lemmas).
One lemma per action, then `NextIInv`. Assumptions: `FdsAssumption` and
`StructsAssumption` only. `CountersAreBounds` needs cardinalities besides: the
metric against the clients' descriptors, which a shape says are one per live
struct, and the pool against the structs in it.

*ConnectionControl.* `AlwaysHalfDuplex`, from the same lemmas on the table.
`ConnectionsFollowControl`: of each struct, a step of the whole process is a handler
of its own state for an event its own descriptors are armed for, the beginning of a
new connection, or nothing. Every lemma on an action shows besides `IInv'` which one
struct the step concerns (`Concerns`): it takes a step of the control, and
`UntouchedStutters` says that every other one takes none. The state of the control is
`CLOSED` for a struct that is not live or still in RESOLUTION; its interests are those
of the two descriptors the invariant says it owns.

*Session, its control.* `SessionFollowsControl`: `Spec => ControlSpec`, step by
step: each handler's `Leave` is an outcome of the table for its state and event,
the steps of request_write inside its loop, of the client and of the origin
stutter. No invariant is needed, so the theorem holds for all constants.

*Session, what it relays.* One inductive invariant for six of the theorems,
`ClientInv /\ (~cut => RelayInv)`. `ClientInv` (`SessionProofs`) holds whatever is cut
off: what was read from the client, the lines among it that were accepted, and the
queue as their rest that is not yet being answered. `RelayInv` is about the `Chain` of requests there can be,
CAPA first, and how far each part of the connection is along it:

1. `Ground`, which outlives the connection: the types; `forwarded` is the lines of a
   beginning of the chain; what was delivered is a beginning of the replies;
2. `Replied`: the replies are the greeting and then, one behind the other, a reply to
   each request of a beginning of the chain;
3. `Sending`: which beginning that is in each state, and, within the loop of
   request_write, which requests went into the buffer before the one that waits;
4. `Fetching`: how many units of the replies the response parser has seen (`Pos`),
   where in a reply that leaves it, and that `write_buffer` is what follows;
5. `Delivering`: that what the client was sent and `super_buffer` are what the parser
   has seen, and that the requests before the current one are answered.

No theorem has a hypothesis: lines may be of any length, the socket of any size. What
the code does not keep for ever, the properties do not say: they begin `~cut =>`, and
`cut` is set by the code's own step, when request_write drops a line that will never fit
(`TooLong`) or a send takes less than it was given (`Short`). From then on none of the
six holds, as TLC finds when the condition is left out: a dropped request is awaited all
the same, and request_write gives the request at its cursor up when the buffer is still
occupied. The invariant has to show that nothing is lost up to that very step: that a
line which fits is never dropped, wherever the retry finds it, and that a send which
takes all leaves nothing behind.

That no buffer is overrun and that every variable keeps its type is another matter:
whatever is cut off, it is cut off by buffer.c's own arithmetic. `BuffersStayInBounds`
therefore has an invariant of its own, `Filled`. Besides the buffers and the cursors
into the two streams, it has to know that the socket never holds more than it can
(`Len(forwarded) - taken <= SockCap`), or a send could return less than nothing, and for
that, since the CAPA goes out without a look at the socket, that it is the first thing
the origin is sent. `RelayTyped` joins to it `Typed`: the plain types, that the queue's
cursor is a request (`CursorTyped`), and that only units of replies are on their way to
the client once the greeting is through (`OnlyReplies`), since write_buffer holds
requests and replies in turn.

*Transformation.* `TInv` joins the types with the step before the state (`Begins`), the
way in and the way out. `InputInv`: the mail and what follows it lie in four places in
order, and the automaton is in the state that the units it was fed, and not one behind
the end, put it in; either the end is still awaited or what is to be sent is known
exactly. `OutputInv`: the same of what the filter gave, the end the proxy adds, and the
client; the exact counts only for as long as no send was short, since parse_mail goes
twice over what a short one leaves. What parse_mail finds is the work of a few lemmas on
a mail as a sequence of units: the automaton follows it (`ScanFollows`), stops at an end
(`ScanFindsEnd`) and at nothing else (`ScanPasses`, `Scanned`). No hypothesis beyond the
assumptions on the constants, of which `FirstParts` is new: what came with the +OK line
was in the buffer.

*Admin.* `RepliesPair`: each administrator is told a beginning of the welcome and
its replies, assuming only that a send fails for nobody but one that has left
(`SendFails = FALSE`; `admin_retry` shows why). That the messages are a beginning of
what is owed says nothing of what is still to be sent; `IInv` adds, for a session
that is still there, how many messages it has been given (`Given`: none before the
welcome, one less than owed while `admin_write` is armed), that `due` is the last of
them, and that no failure is marked (`Stage`). What a request does to the settings
is never looked at. `MetricCounts`: the metric against the cardinality of the
sessions.

*The filter list.* `AdminTyped` proves the types with what they need besides
(`Typed`): that no two nodes of the list have one name, that "*" is never among the
subtypes, and that a type forbidden as a whole lists none; and the types of what was
received, answered and is due. `RequestsAssumption` says what a request is.
`FilterImplementsRules`: the linked list of `filter_list.c`, with its nodes, its
wildcards and the functions that walk it, implements the set of rules of
`MediaTypes`: LIST answers the set, FORBID and ALLOW change it and answer what the set
says, whoever asks. `Typed` is all the invariant that is needed: a subtype may be listed
any number of times (`double`, the rules listed more than once, is the other half of the
refinement mapping), and may be called like its type. The lemmas say what one call does
to the set and to the doubles (`ForbidNewType`, `ForbidNewSubtype`, `AllowTypeIs`, and
`OneSubLess` and `OfOneType` below them), what it answers (`FindMimeIs`), what the
command line leaves (`CommandLineIs`, by induction on it), and how the answers grow
(`KeptAppend`); then one step of the service is one of the rules, or none. That FORBID
never lists a rule twice is a part of it: only -M does.

*AdminClient.* `ClientsAreAdmins`: `ClientSpec => Spec`, so `RepliesPair` and
`MetricCounts` hold with people among the administrators. `Lockstep`: at the prompt
nothing is on its way and everything is read; while the program waits exactly one
request is. The invariant `CInv` joins `IInv` with `Program` of each person: whose
turn it is (`Turn`), and where a QUIT is (`Quitting`): the program raises its flag
when it sends one, the service when it reads it, and the socket is closed behind
its reply, which is always a success, so that the program ends exactly then.
`AuthenticatedIsTold`: `AuthInv` adds to `CInv` what is true of a person who has
neither proved a password nor opened with HELP (`Unproven`): whatever it has sent
and not had answered is a password, every reply so far was a refusal, and the status
at its prompt is none that lets it in. The step that needs it is the answer to a
password: the status the program reads is the status of that reply, which is where
`CInv` and `IInv` are needed.

*The automaton.* `EndToldIsReal` and `StreamTypeCorrect`, for streams of any length.
That the end is real in state FIN says nothing of the states before it; the
invariant adds what each state knows of the last octets (`Behind`): NEWLINE, that
a line begins behind them; CR, DOT and DOT_CR, that they are the beginning of
an end; and how many octets are `Withheld`. `EndToldIsFound` is the converse and holds in
streams made of lines only: there the state is a function of the last octets
(`StateOf`, `Follows`). `StuffingIsUndone`: what came out and what the state withholds
(`Pending`) is the stream without its stuffing, by one octet more at a time
(`OneMoreOctet`, which counts the octets kept).

*Mime.* `FilterFeedsTheAutomaton`: the filter's input, whatever the mails, is a
behaviour of `Pop3MultiStream`; with it what is proved of the automaton holds inside
the filter (`MailEndIsReal`, `MailIsUnstuffed`). `MimeTypeCorrect`: whatever is read,
`struct ctx` keeps its types and bounds, so that the buffer of a header's value is
never filled to MAX and no comparison goes beyond its end. The invariant is `CtxOK`:
each delimiter on the stack has its two comparisons within its own literal (`Delims`),
the list of types keeps its length and the type found is one of it or none. There is
a lemma for each handler of `mime_filter.c`, one for the events of `mime_msg.c`
(`MsgFeedOK`), and, for the first state, one on the list made of any number of media
types (`MediaListIsList`, by induction on them).

*Induction.* The library's induction theorems take an operator, which the provers
cannot instantiate. `SequenceLemmas` states induction, recursion and its uniqueness on sets and
functions instead (`Least`, `Induction`, `Recursion`, `RecursionUnique`), from the well-foundedness
of the order on the naturals. For these to apply, what `Session`, `Transformation`, `Admin` and `MimeFilter` compute along a
sequence is a recursive function (`Only`, `Fed`, `CommandLine`, `MimeAnswers`,
`MediaList`) and
neither `SelectSeq` nor a fold, which are opaque to the provers.

Only model-checked:

* liveness (`ResolutionEnds`, `EveryCommandAnswered`, `EveryRequestAnswered`,
  `TransformationEnds`) and ENABLED, which this proof system does not reach;
* what the filter writes and its stack (`WritesTheMail`, `WritesItWhole`,
  `StackFollowsNesting`, `DiesOnlyOf`): they are about the mails of `MimeMails`, one by
  one, and what can be said of every mail would need a theory of documents.

## 5. Not modelled, and assumptions

* In `Session` and `Connections` the mail filter is switched off: response_read's
  branch into EXTERNAL_TRANSFORMATION is not taken. `Transformation` takes it,
  for one mail; what the connection does before and after it is not composed
  with it, nor are the pipes' descriptor numbers with the item table.
* An assertion that fails ends the process, as in the build of `CMakeLists.txt`.
* `connect(2)` on a non-blocking socket is in progress or fails; the code
  aborts if it succeeds at once.
* The answer of the origin to CAPA does not change within a session.
* Media types on the command line are well formed, and a metric is asked for by
  a number (`Admin`); the layout of SCTP messages.
* Replies longer than the 100 octets of `MAX_ADMIN_DATA`, on either side; connecting
  to the service, and the texts `pop3ctl` prints.
* In the filter: the release of memory at the end of `main`; a failing `malloc`; the
  spelling of names octet by octet.
* Logs, the historical counters, command-line parsing.

## 6. Plan

1. Done: `Pop3Stm`, `ConnectionControl`, `Connections`, `Buffer`, `MsgQueue`,
   `Session`; `MediaTypes`, `FilterList`, `Admin`, `AdminClient`; `Pop3Multi`,
   `Pop3MultiStream`, `Transformation`; `MimeParsers`, `MimeFilter`, `MimeMails`,
   `MimeStream`; the proofs above.
2. The transformation in its surroundings: in `Session`, where behind a mail the
   connection awaits the reply to a request it may not have sent
   (`pop3nio.c:962`), and in `Connections`, where a pipe's number closed twice may
   be another connection's (`pop3nio.c:990`) and an error leaves pipes registered
   (`stm.c:43`).
3. The request parser with its commands and arguments, against a reference
   definition over all short inputs.
4. Proofs: what the MIME filter writes, once there is a theory of documents.
