------------------------- MODULE ConnectionControl -------------------------
(***************************************************************************)
(* What one connection promises the selector: from the moment the origin's *)
(* socket is being connected, every step is one handler of Pop3Stm, run    *)
(* for an event one of the two descriptors is armed for.  Module Session   *)
(* implements it; module Connections composes many of them.                *)
(***************************************************************************)
EXTENDS Pop3Stm

VARIABLES
  state,  \* stm.current, or "CLOSED" after pop3_done
  armed   \* <<interest of the client's, of the origin's descriptor>>

vars == <<state, armed>>

Init == state = "CONNECTING" /\ armed = <<"NOOP", "WRITE">>

\* The handler for event ev of the client's (side 1) or the origin's (side 2)
\* descriptor decides o.
Handle(side, ev, o) ==
  /\ armed[side] = ev
  /\ HasHandler(state, ev)
  /\ o \in Outcomes(state, ev)
  /\ IF Closes(o.next)
     THEN state' = "CLOSED" /\ armed' = <<"NOOP", "NOOP">>
     ELSE /\ state' = o.next
          /\ armed' = LET key == [armed EXCEPT ![side] = Given(o.key, @)]
                      IN  <<Given(o.client, key[1]), Given(o.origin, key[2])>>

Next == \E side \in {1, 2}, ev \in {"READ", "WRITE"} :
          \E o \in Outcomes(state, ev) : Handle(side, ev, o)

Spec == Init /\ [][Next]_vars

\* One descriptor at most is armed, and for an event its state handles.
HalfDuplex == IF state = "CLOSED" THEN armed = <<"NOOP", "NOOP">>
              ELSE armed \in Armed(state)
=============================================================================
