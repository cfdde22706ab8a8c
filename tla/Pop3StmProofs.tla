--------------------------- MODULE Pop3StmProofs ---------------------------
(***************************************************************************)
(* Facts about the table of module Pop3Stm that the proofs about the       *)
(* machine's clients, ConnectionControl and Connections, rest on.          *)
(***************************************************************************)
EXTENDS Pop3Stm, TLAPS

\* At most one descriptor of a connection is armed: the relay is half duplex.
LEMMA OneArmed ==
  ASSUME NEW st \in States, NEW a \in Armed(st)
  PROVE  /\ a[1] = "NOOP" \/ a[2] = "NOOP"
         /\ a[1] \in Interests /\ a[2] \in Interests
         /\ st = "RESOLUTION" => a[2] = "NOOP"
  BY DEF States, Armed, Interests

\* The interests <<client's, origin's>> an outcome o of the handler for the
\* descriptor of a side leaves.
Left(a, side, o) ==
  <<IF o.client # "KEEP" THEN o.client ELSE IF side = 1 THEN Given(o.key, a[1]) ELSE a[1],
    IF o.origin # "KEEP" THEN o.origin ELSE IF side = 2 THEN Given(o.key, a[2]) ELSE a[2]>>

\* In every state an armed descriptor's event has a handler, and the handler
\* either closes the connection or leaves the interests of the state it returns.
LEMMA HandlerKeepsArmed ==
  ASSUME NEW st \in States, NEW a \in Armed(st), NEW side \in {1, 2},
         NEW ev \in {"READ", "WRITE"}, a[side] = ev
  PROVE  /\ HasHandler(st, ev)
         /\ \A o \in Outcomes(st, ev) :
              \/ Closes(o.next)
              \/ /\ o.next \in States
                 /\ Left(a, side, o) \in Armed(o.next)
                 /\ o.next = "RESOLUTION" <=> st = "RESOLUTION"
                 /\ o.next # "CONNECTING"
                 /\ st = "RESOLUTION" => o.client = "KEEP" /\ o.origin = "KEEP"
  <1> USE DEF States, Armed, HasHandler, Outcomes, Closes, Left, Given, Outcome,
              Fail, FailMute, Stay, ToClient, ToOrigin
  <1>1. CASE st = "RESOLUTION"
    BY <1>1 DEF OriginServerResolution
  <1>2. CASE st = "CONNECTING"
    BY <1>2 DEF Connecting
  <1>3. CASE st = "WELCOME_READ"
    BY <1>3 DEF WelcomeRead
  <1>4. CASE st = "WELCOME_WRITE"
    BY <1>4 DEF WelcomeWrite
  <1>5. CASE st = "CAPA"
    BY <1>5 DEF CapaRead
  <1>6. CASE st = "REQUEST"
    BY <1>6 DEF RequestRead, RequestWrite
  <1>7. CASE st = "RESPONSE"
    BY <1>7 DEF ResponseRead, ResponseWrite, ReplyWritten
  <1>8. CASE st = "DONE"
    BY <1>8
  <1> QED BY <1>1, <1>2, <1>3, <1>4, <1>5, <1>6, <1>7, <1>8
=============================================================================
