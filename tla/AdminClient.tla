----------------------------- MODULE AdminClient -----------------------------
(***************************************************************************)
(* The administration client pop3ctl against the service of Admin: some of *)
(* the administrators are people at that program, the others send what     *)
(* they like.  The program has one thread, which waits for a line of its   *)
(* standard input or for a message of the service, never for both.         *)
(***************************************************************************)
EXTENDS Admin

CONSTANT Clients  \* the administrators that use the program
ASSUME ClientsAssumption == Clients \subseteq Admins

VARIABLES
  phase,           \* where the thread is: "connecting" (main, for the welcome),
                   \* "prompt" (fgets), "waiting" (sctp_recvmsg), "done" or "killed"
  a_status,        \* ST_AUTH, ST_TRANS
  quit_option_on,
  r_status,        \* OK, ERROR, ERROR_RECEIVING, NOT_SEND, or any other number
  read,            \* messages of the service it has received
  opening          \* history: the first command, "help" or "other", or "none"

program_vars == <<phase, a_status, quit_option_on, r_status, read, opening>>
clientVars   == <<vars, program_vars>>

\* The commands a state takes: authenticate, transaction.
Knows(st, cmd) == IF st = "ST_AUTH" THEN cmd \in {"auth", "quit"}
                  ELSE cmd \notin {"auth", "version"}

StatusOf(reply) == IF reply.status = 1 THEN "OK" ELSE "ERROR"

-----------------------------------------------------------------------------
\* What communicate_with_proxy does with the status behind every command; the
\* quit flag is never lowered.
React(c, r, quitOn) ==
  /\ r_status' = [r_status EXCEPT ![c] = r]
  /\ a_status' = [a_status EXCEPT ![c] = IF r = "OK" /\ ~quitOn THEN "ST_TRANS" ELSE @]
  /\ phase' = [phase EXCEPT ![c] = IF r = "OK" /\ quitOn THEN "done" ELSE "prompt"]

Opens(c, how) == opening' = [opening EXCEPT ![c] = IF @ = "none" THEN how ELSE @]

\* parse_cmd_status for a command that is not sent.
StatusKept(c)   == r_status[c]                   \* mutant: left as it was
StatusUnsent(c) == "NOT_SEND"

\* The service has closed the socket, or ended.
Gone(c) == died \/ conn[c] = "closed"

\* main receives the welcome, or nothing if the service has gone.
SkipsWelcome(c) ==                               \* mutant: main does not receive
  /\ phase[c] = "connecting" /\ conn[c] = "registered"
  /\ phase' = [phase EXCEPT ![c] = "prompt"]
  /\ UNCHANGED <<vars, a_status, quit_option_on, r_status, read, opening>>
ReceiveWelcome(c) ==
  /\ phase[c] = "connecting" /\ (told[c] # <<>> \/ Gone(c))
  /\ phase' = [phase EXCEPT ![c] = "prompt"]
  /\ read' = [read EXCEPT ![c] = Len(told[c])]
  /\ UNCHANGED <<vars, a_status, quit_option_on, r_status, opening>>

\* HELP leaves the status as it was.
Help(c) ==
  /\ phase[c] = "prompt"
  /\ React(c, r_status[c], quit_option_on[c])
  /\ Opens(c, "help")
  /\ UNCHANGED <<vars, quit_option_on, read>>

\* A command of the other state, of none, or with a parameter where none belongs,
\* without one, or with one that is too long.
Refuse(c) ==
  /\ phase[c] = "prompt"
  /\ React(c, StatusUnsent(c), quit_option_on[c])
  /\ Opens(c, "other")
  /\ UNCHANGED <<vars, quit_option_on, read>>

\* A command that is written well is sent, and the thread waits for the reply
\* whether the request could be sent or not.
Sending(c, r) ==
  \/ SendRequest(c, r)
  \/ Gone(c) /\ UNCHANGED vars
Command(c, r) ==
  /\ phase[c] = "prompt" /\ Knows(a_status[c], r.cmd)
  /\ Sending(c, r)
  /\ phase' \in {[phase EXCEPT ![c] = "waiting"]} \cup
                (IF Gone(c) THEN {[phase EXCEPT ![c] = "killed"]} ELSE {})  \* SIGPIPE
  /\ quit_option_on' = [quit_option_on EXCEPT ![c] = @ \/ r.cmd = "quit"]
  /\ Opens(c, "other")
  /\ UNCHANGED <<a_status, r_status, read>>

\* handle_receive_msg
Receive(c) ==
  /\ phase[c] = "waiting" /\ read[c] < Len(told[c])
  /\ React(c, StatusOf(told[c][read[c] + 1]), quit_option_on[c])
  /\ read' = [read EXCEPT ![c] = @ + 1]
  /\ UNCHANGED <<vars, quit_option_on, opening>>

\* The same when the service has gone: receive_response reads its reply from a
\* buffer that holds none, so that status and length are any.
ReceiveNothing(c) ==
  /\ phase[c] = "waiting" /\ Gone(c) /\ read[c] = Len(told[c])
  /\ Len(told[c]) < MaxTold  \* all it was told has been recorded
  /\ \/ \E r \in {"OK", "ERROR", "ERROR_RECEIVING", "other"} : React(c, r, quit_option_on[c])
     \/ phase' = [phase EXCEPT ![c] = "killed"] /\ UNCHANGED <<a_status, r_status>>
  /\ UNCHANGED <<vars, quit_option_on, read, opening>>

\* The standard input ends, or the user ends the program wherever it is.
UserLeaves(c) ==
  /\ phase[c] \in {"prompt", "waiting"} /\ AdminLeaves(c)
  /\ phase' = [phase EXCEPT ![c] = IF @ = "prompt" THEN "done" ELSE "killed"]
  /\ UNCHANGED <<a_status, quit_option_on, r_status, read, opening>>

-----------------------------------------------------------------------------
ClientInit ==
  /\ Init
  /\ phase = [c \in Clients |-> "connecting"]
  /\ a_status = [c \in Clients |-> "ST_AUTH"]
  /\ quit_option_on = [c \in Clients |-> FALSE]
  /\ r_status = [c \in Clients |-> "OK"]
  /\ read = [c \in Clients |-> 0]
  /\ opening = [c \in Clients |-> "none"]

\* What the user does once the service's process has ended is not followed.
Person(c) == ~died /\ (Help(c) \/ Refuse(c) \/ UserLeaves(c) \/ \E r \in Requests : Command(c, r))
Reads(c)  == ReceiveWelcome(c) \/ Receive(c) \/ ReceiveNothing(c)

Others == \/ \E a \in Admins : ServerNext(a)
          \/ \E a \in Admins \ Clients : AdminSend(a) \/ AdminLeaves(a)

ClientNext == \/ Others /\ UNCHANGED program_vars
              \/ \E c \in Clients : Person(c) \/ Reads(c)

\* The service as in Admin; the program takes what has arrived.
ClientSpec == /\ ClientInit /\ [][ClientNext]_clientVars
              /\ \A a \in Admins : WF_vars(Handler(a)) /\ SF_vars(Sent(a))
              /\ \A c \in Clients : WF_clientVars(Reads(c))

-----------------------------------------------------------------------------
\* The service has taken the connection and is there.
Served(c) == ~died /\ told[c] # <<>> /\ c \notin left

\* Program and service agree on whose turn it is: at the prompt everything sent
\* has been answered and everything answered been read, and the status kept is
\* that of the last answer, or says that nothing was sent; while the program
\* waits, exactly one of its requests is on its way, being answered or answered
\* and not read.
InLockstep ==
  \A c \in Clients : Served(c) =>
    LET replied == Len(replies[c])
        sent    == replied + Len(inbox[c])
    IN  /\ phase[c] = "prompt" =>
             /\ inbox[c] = <<>> /\ read[c] = Len(told[c]) /\ read[c] = 1 + sent
             /\ \/ r_status[c] = "NOT_SEND"
                \/ replied = 0 /\ r_status[c] = "OK"
                \/ replied > 0 /\ r_status[c] = StatusOf(replies[c][replied])
        /\ phase[c] = "waiting" => read[c] = sent
        /\ phase[c] = "done" => conn[c] = "closed" /\ sent = replied

\* The program takes the user for authenticated only when the service has told
\* it so.  (HELP as the first command has it read the status it started with.)
AuthenticatedOnceTold ==
  \A c \in Clients : Served(c) /\ a_status[c] = "ST_TRANS" =>
    \/ opening[c] = "help"
    \/ \E i \in 1..Len(answers) : /\ answers[i].admin = c /\ answers[i].req.cmd = "auth"
                                  /\ answers[i].reply.status = 1
=============================================================================
