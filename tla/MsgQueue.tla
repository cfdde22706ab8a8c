------------------------------ MODULE MsgQueue ------------------------------
(***************************************************************************)
(* msg_queue.c: the requests accepted from the client, and the cursor with *)
(* which request_to_buffer walks them.  A queue is a record of its nodes,  *)
(* each named by the request it holds, and of the node the cursor points   *)
(* to.  dequeue frees the first node and leaves the cursor on it unless    *)
(* the queue becomes empty: the cursor may dangle.                         *)
(***************************************************************************)
EXTENDS Naturals, Sequences

Null == 0    \* request identifiers are positive

NewQueue   == [nodes |-> <<>>, current |-> Null]
IsEmpty(q) == q.nodes = <<>>

EnqueueUnlinked(q, r) == IF IsEmpty(q) THEN [nodes |-> <<r>>, current |-> r] ELSE q \* mutant
Enqueue(q, r) == [nodes   |-> Append(q.nodes, r),
                  current |-> IF IsEmpty(q) THEN r ELSE q.current]

PeekData(q) == IF IsEmpty(q) THEN Null ELSE Head(q.nodes)

Dequeue(q) == [nodes   |-> Tail(q.nodes),
               current |-> IF Len(q.nodes) = 1 THEN Null ELSE q.current]

Holds(q, r)  == \E i \in 1..Len(q.nodes) : q.nodes[i] = r
Dangling(q)  == q.current # Null /\ ~Holds(q, q.current)

JustCurrent(q) == IF q.current = Null THEN <<>> ELSE <<q.current>>  \* mutant: one only
\* The nodes repeated queue_get_next calls walk, up to the NULL.
FromCurrent(q) ==
  IF q.current = Null THEN <<>>
  ELSE LET at == CHOOSE i \in 1..Len(q.nodes) : q.nodes[i] = q.current
       IN  SubSeq(q.nodes, at, Len(q.nodes))

\* The cursor after n of them: on the next one; NULL past the last; and back on
\* the first once queue_get_next has returned the NULL.
Rewind(q) == [q EXCEPT !.current = PeekData(q)]
NotPassed(q, n) == [q EXCEPT !.current = FromCurrent(q)[n]]   \* mutant: one step short
Walked(q, n) ==
  LET rest == FromCurrent(q)
  IN  [q EXCEPT !.current = IF n < Len(rest) THEN rest[n + 1] ELSE Null]
=============================================================================
