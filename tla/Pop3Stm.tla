------------------------------ MODULE Pop3Stm ------------------------------
(***************************************************************************)
(* The state machine of one proxied connection (pop3nio.c, stm.c): the     *)
(* states, and for every state and event the outcomes its handler can      *)
(* have.  An outcome says which state the handler returns and which        *)
(* interests it leaves in the selector; what the handler reads and writes  *)
(* is left to module Session, which is checked to follow this table.       *)
(*                                                                         *)
(* The program runs here with its mail filter switched off: the branch of  *)
(* response_read into EXTERNAL_TRANSFORMATION is not taken.                *)
(***************************************************************************)

\* enum pop3_state.  "ERROR" is the -1 that stm.c's jump never enters.
States == {"RESOLUTION", "CONNECTING", "WELCOME_READ", "WELCOME_WRITE",
           "CAPA", "REQUEST", "RESPONSE", "DONE"}

Events    == {"READ", "WRITE", "BLOCK"}
Interests == {"NOOP", "READ", "WRITE"}

\* What a handler decides: the state it returns, the interest it gives the
\* descriptor whose event it handles (key), and then the interests it gives
\* the client's and the origin's descriptor by name.
Outcome(next, key, client, origin) ==
  [next |-> next, key |-> key, client |-> client, origin |-> origin]

Fail     == Outcome("ERROR", "KEEP", "KEEP", "KEEP")
FailMute == Outcome("ERROR", "NOOP", "KEEP", "KEEP")  \* after telling the client
Stay(st) == Outcome(st, "KEEP", "KEEP", "KEEP")
ToClient(st, i) == Outcome(st, "NOOP", i, "KEEP")
ToOrigin(st, i) == Outcome(st, "NOOP", "KEEP", i)

ResolutionStillArmed   == {Stay("RESOLUTION"), Fail}   \* mutant: not disarmed
OriginServerResolution == {Outcome("RESOLUTION", "NOOP", "KEEP", "KEEP"), Fail}

Connecting == {FailMute, Outcome("WELCOME_READ", "READ", "NOOP", "KEEP")}

WelcomeReadFullDuplex ==                   \* mutant: the origin is left armed
  {Fail, Outcome("WELCOME_WRITE", "KEEP", "WRITE", "KEEP")}
WelcomeRead  == {Fail, ToClient("WELCOME_WRITE", "WRITE")}

WelcomeWriteArmsWrite ==                   \* mutant: CAPA waits for the wrong event
  {Fail, Stay("WELCOME_WRITE"), ToOrigin("WELCOME_READ", "READ"), ToOrigin("CAPA", "WRITE")}
WelcomeWrite == {Fail, Stay("WELCOME_WRITE"),
                 ToOrigin("WELCOME_READ", "READ"), ToOrigin("CAPA", "READ")}

CapaRead == {Fail, FailMute, Stay("CAPA"), ToClient("REQUEST", "READ")}

RequestRead  == {Fail, Stay("DONE"), Stay("REQUEST"), ToOrigin("REQUEST", "WRITE")}
RequestWrite == {Fail, Stay("REQUEST"), Outcome("RESPONSE", "READ", "KEEP", "KEEP")}

ResponseRead  == {Fail, FailMute, Stay("RESPONSE"), ToClient("RESPONSE", "WRITE")}

\* process_response, called when a whole reply has been written.
ReplyWritten == {Outcome("DONE", "NOOP", "KEEP", "KEEP"), FailMute,
                    ToOrigin("RESPONSE", "READ"), ToOrigin("REQUEST", "WRITE"),
                    Outcome("REQUEST", "READ", "KEEP", "NOOP")}
ResponseWrite == {Fail, Stay("RESPONSE"), ToOrigin("RESPONSE", "READ")}
                   \cup ReplyWritten

-----------------------------------------------------------------------------
\* The table client_states: the states that have a handler for an event.
HasHandler(st, ev) ==
  CASE ev = "READ"  -> st \in {"WELCOME_READ", "CAPA", "REQUEST", "RESPONSE"}
    [] ev = "WRITE" -> st \in {"RESOLUTION", "CONNECTING", "WELCOME_WRITE",
                               "REQUEST", "RESPONSE"}
    [] OTHER        -> st = "RESOLUTION"

\* The outcomes of the I/O handlers, by state and event.
Outcomes(st, ev) ==
  CASE st = "RESOLUTION"    -> OriginServerResolution
    [] st = "CONNECTING"    -> Connecting
    [] st = "WELCOME_READ"  -> WelcomeRead
    [] st = "WELCOME_WRITE" -> WelcomeWrite
    [] st = "CAPA"          -> CapaRead
    [] st = "REQUEST"       -> IF ev = "READ" THEN RequestRead ELSE RequestWrite
    [] OTHER                -> IF ev = "READ" THEN ResponseRead ELSE ResponseWrite

Closes(next) == next \in {"ERROR", "DONE"}

\* selector_set_interest, for a handler that may leave an interest alone.
Given(new, old) == IF new = "KEEP" THEN old ELSE new

-----------------------------------------------------------------------------
\* The interests <<of the client's, of the origin's descriptor>> that go with
\* a state.  At most one of the two is ever armed: the relay is half duplex.
Armed(st) ==
  CASE st = "RESOLUTION"    -> {<<"WRITE", "NOOP">>, <<"NOOP", "NOOP">>}
    [] st = "CONNECTING"    -> {<<"NOOP", "WRITE">>}
    [] st = "WELCOME_READ"  -> {<<"NOOP", "READ">>}
    [] st = "WELCOME_WRITE" -> {<<"WRITE", "NOOP">>}
    [] st = "CAPA"          -> {<<"NOOP", "READ">>}
    [] st = "REQUEST"       -> {<<"READ", "NOOP">>, <<"NOOP", "WRITE">>}
    [] st = "RESPONSE"      -> {<<"NOOP", "READ">>, <<"WRITE", "NOOP">>}
    [] OTHER                -> {}
=============================================================================
