----------------------------- MODULE AdminProofs -----------------------------
(***************************************************************************)
(* Requests and replies of the administration service pair up for any      *)
(* number of administrators and requests, the metric covers the sessions,  *)
(* and a user's program and the service agree on whose turn it is: for     *)
(* these nothing is assumed of the filter list, whatever a request does to *)
(* the settings.  The second half is about that list: the states have      *)
(* their types, and the linked lists implement the set of rules of         *)
(* MediaTypes.                                                             *)
(***************************************************************************)
EXTENDS AdminClient, SequenceTheorems, FiniteSetTheorems, TLAPS

Lemmas == INSTANCE SequenceLemmas

\* A sequence, of whatever it is.
IsSeq(s) == s \in Seq({s[i] : i \in DOMAIN s})

LEMMA AppendIsSeq ==
  ASSUME NEW s, NEW e, IsSeq(s)
  PROVE  /\ IsSeq(Append(s, e)) /\ Len(s) \in Nat /\ Len(Append(s, e)) = Len(s) + 1
         /\ Append(s, e)[Len(s) + 1] = e
         /\ \A i \in 1..Len(s) : Append(s, e)[i] = s[i]
  <1> DEFINE S == {s[i] : i \in DOMAIN s} \cup {e}
             t == Append(s, e)
  <1>1. s \in Seq(S)
    BY SeqMonotonic DEF IsSeq
  <1>2. t \in Seq(S) /\ Len(s) \in Nat /\ Len(t) = Len(s) + 1 /\ t[Len(s) + 1] = e
        /\ \A i \in 1..Len(s) : t[i] = s[i]
    BY <1>1
  <1> HIDE DEF S, t
  <1>3. t \in [1..Len(t) -> S] /\ Len(t) \in Nat
    BY <1>2, LenProperties
  <1>4. t \in [1..Len(t) -> {t[i] : i \in DOMAIN t}]
    BY <1>3
  <1>5. t \in Seq({t[i] : i \in DOMAIN t})
    BY <1>3, <1>4, SeqDef
  <1> QED BY <1>2, <1>5 DEF IsSeq, t

LEMMA EmptyIsSeq == IsSeq(<<>>) /\ Len(<<>>) = 0
  BY EmptySeq DEF IsSeq

\* Only the first few messages to a are behind the welcome.
Owed(a, i) == IF i = 1 THEN Welcome ELSE replies[a][i - 1]

\* How many messages for a have been given to the socket.
Given(a) == IF ~greeted[a] THEN 0
            ELSE IF conn[a] = "registered" /\ interest[a] = "WRITE" THEN Len(replies[a])
            ELSE Len(replies[a]) + 1

\* Of which so many are recorded.
Recorded(n) == IF n <= MaxTold THEN n ELSE MaxTold

Types ==
  /\ conn \in [Admins -> {"none", "registered", "closed"}]
  /\ interest \in [Admins -> {"NOOP", "READ", "WRITE"}]
  /\ greeted \in [Admins -> BOOLEAN] /\ failed \in [Admins -> BOOLEAN]
  /\ quit \in [Admins -> BOOLEAN]
  /\ DOMAIN due = Admins /\ DOMAIN told = Admins /\ DOMAIN replies = Admins

\* What a has been told is the beginning of what it is owed.
Told(a) ==
  /\ IsSeq(told[a]) /\ IsSeq(replies[a])
  /\ Len(told[a]) <= Len(replies[a]) + 1
  /\ \A i \in 1..Len(told[a]) : told[a][i] = Owed(a, i)

\* The session of an administrator that is still there: before the welcome,
\* between requests, or with the last of its requests to be answered.
Stage(a) ==
  /\ ~failed[a]
  /\ conn[a] = "none" => ~greeted[a]
  /\ ~greeted[a] => replies[a] = <<>> /\ ~quit[a] /\ interest[a] # "READ"
  /\ conn[a] = "registered" /\ greeted[a] /\ interest[a] = "READ" => ~quit[a]
  /\ conn[a] = "registered" /\ greeted[a] /\ interest[a] = "WRITE" =>
       /\ Len(replies[a]) > 0 /\ due[a] = replies[a][Len(replies[a])]
       /\ quit[a] => due[a] = Empty
  /\ conn[a] = "registered" => interest[a] # "NOOP"
  /\ Len(told[a]) = Recorded(Given(a))

\* The inductive invariant.
IInv == Types /\ \A a \in Admins : Told(a) /\ (a \notin left => Stage(a))

-----------------------------------------------------------------------------
\* What a step leaves alone of a session.
Same(a) == /\ conn'[a] = conn[a] /\ interest'[a] = interest[a] /\ greeted'[a] = greeted[a]
           /\ due'[a] = due[a] /\ failed'[a] = failed[a] /\ quit'[a] = quit[a]
           /\ told'[a] = told[a] /\ replies'[a] = replies[a]

LEMMA SameKeeps ==
  ASSUME NEW a \in Admins, Same(a)
  PROVE  (Told(a) => Told(a)') /\ (Stage(a) => Stage(a)')
  BY DEF Same, Told, Stage, Given, Recorded, Owed

\* A reply that is added at the end of what is owed.
LEMMA OneMoreOwed ==
  ASSUME NEW a \in Admins, NEW e, Told(a), told'[a] = told[a],
         replies'[a] = Append(replies[a], e)
  PROVE  /\ Told(a)' /\ Len(replies'[a]) = Len(replies[a]) + 1 /\ Len(replies[a]) \in Nat
         /\ replies'[a][Len(replies[a]) + 1] = e
  <1>1. /\ IsSeq(replies'[a]) /\ Len(replies[a]) \in Nat
        /\ Len(replies'[a]) = Len(replies[a]) + 1
        /\ replies'[a][Len(replies[a]) + 1] = e
        /\ \A i \in 1..Len(replies[a]) : replies'[a][i] = replies[a][i]
    BY AppendIsSeq DEF Told
  <1>2. Len(told[a]) \in Nat
    BY AppendIsSeq DEF Told
  <1>3. \A i \in 1..Len(told[a]) : Owed(a, i)' = Owed(a, i)
    BY <1>1, <1>2 DEF Told, Owed
  <1> QED BY <1>1, <1>2, <1>3 DEF Told

\* The next message that is owed, given to the socket.
LEMMA OneMoreTold ==
  ASSUME NEW a \in Admins, NEW reply, Told(a), replies'[a] = replies[a],
         Len(told[a]) <= Len(replies[a]), reply = Owed(a, Len(told[a]) + 1),
         told'[a] = Append(told[a], reply)
  PROVE  Told(a)' /\ Len(told'[a]) = Len(told[a]) + 1 /\ Len(told[a]) \in Nat
  <1>1. /\ IsSeq(told'[a]) /\ Len(told[a]) \in Nat /\ Len(told'[a]) = Len(told[a]) + 1
        /\ told'[a][Len(told[a]) + 1] = reply
        /\ \A i \in 1..Len(told[a]) : told'[a][i] = told[a][i]
    BY AppendIsSeq DEF Told
  <1>2. Len(replies[a]) \in Nat
    BY AppendIsSeq DEF Told
  <1>3. \A i \in 1..Len(told'[a]) : told'[a][i] = Owed(a, i)'
    BY <1>1 DEF Told, Owed
  <1> QED BY <1>1, <1>2, <1>3 DEF Told

\* The same for a session that is there, whose messages are recorded up to MaxTold.
LEMMA OneMoreGiven ==
  ASSUME NEW a \in Admins, NEW reply, Told(a), a \notin left, replies'[a] = replies[a],
         a \in DOMAIN told, Receives(a, reply), Len(told[a]) = Recorded(Given(a)),
         Given(a) <= Len(replies[a]), reply = Owed(a, Given(a) + 1), Given(a)' = Given(a) + 1
  PROVE  Told(a)' /\ Len(told'[a]) = Recorded(Given(a)')
  <1>1. MaxTold \in Nat /\ Len(told[a]) \in Nat /\ Len(replies[a]) \in Nat
    BY AdminAssumption, AppendIsSeq DEF Told
  <1>2. Given(a) \in Nat
    BY <1>1 DEF Given
  <1>3. CASE Len(told[a]) < MaxTold
    <2>1. told'[a] = Append(told[a], reply)
      BY <1>3 DEF Receives
    <2>2. Len(told[a]) = Given(a)
      BY <1>1, <1>2, <1>3 DEF Recorded
    <2>3. Told(a)' /\ Len(told'[a]) = Len(told[a]) + 1
      BY <2>1, <2>2, OneMoreTold
    <2> QED BY <1>1, <1>2, <1>3, <2>2, <2>3 DEF Recorded
  <1>4. CASE ~(Len(told[a]) < MaxTold)
    <2>1. told'[a] = told[a]
      BY <1>4 DEF Receives
    <2>2. Told(a)'
      BY <2>1 DEF Told, Owed
    <2>3. Len(told[a]) = MaxTold /\ MaxTold <= Given(a)
      BY <1>1, <1>2, <1>4 DEF Recorded
    <2> QED BY <1>1, <1>2, <2>1, <2>2, <2>3 DEF Recorded
  <1> QED BY <1>3, <1>4
-----------------------------------------------------------------------------
\* A step concerns one session; what it needs to show of that one.
LEMMA OneSession ==
  ASSUME IInv, NEW a \in Admins, Types', left \subseteq left',
         \A b \in Admins \ {a} : Same(b),
         Told(a)', a \notin left' => Stage(a)'
  PROVE  IInv'
  <1> SUFFICES ASSUME NEW b \in Admins
               PROVE  Told(b)' /\ (b \notin left' => Stage(b)')
    BY DEF IInv
  <1>1. CASE b = a
    BY <1>1
  <1>2. CASE b # a
    BY <1>2, SameKeeps DEF IInv
  <1> QED BY <1>1, <1>2

LEMMA AcceptKeeps ==
  ASSUME IInv, NEW a \in Admins, Accept(a)
  PROVE  IInv'
  <1> USE DEF Accept, history
  <1>1. Types'
    BY DEF IInv, Types
  <1>2. \A b \in Admins \ {a} : Same(b)
    BY DEF IInv, Types, Same
  <1>3. Told(a)'
    BY DEF IInv, Told, Owed
  <1>4. ASSUME a \notin left PROVE Stage(a)'
    <2>1. ~greeted[a] /\ Given(a) = 0 /\ Given(a)' = 0
      BY <1>4 DEF IInv, Stage, Given
    <2>2. conn'[a] \in {"registered", "closed"} /\ (conn'[a] = "registered" => interest'[a] = "WRITE")
          /\ interest'[a] \in {interest[a], "WRITE"}
      BY DEF IInv, Types
    <2> QED BY <1>4, <2>1, <2>2 DEF IInv, Stage
  <1> QED BY <1>1, <1>2, <1>3, <1>4, OneSession

\* The reply to a QUIT is the empty one.
LEMMA QuitEffect ==
  ASSUME NEW r, r.cmd = "quit", NEW e \in Effects(r)
  PROVE  e.reply = Empty
  BY DEF Effects, Says, Effect

LEMMA ReadRequestKeeps ==
  ASSUME IInv, NEW a \in Admins, ReadRequest(a)
  PROVE  IInv'
  <1>1. PICK e \in Effects(Head(inbox[a])) :
          /\ due' = [due EXCEPT ![a] = e.reply]
          /\ quit' = [quit EXCEPT ![a] = Head(inbox[a]).cmd = "quit"]
          /\ replies' = [replies EXCEPT ![a] = Append(@, e.reply)]
    BY DEF ReadRequest
  <1>2. /\ conn[a] = "registered" /\ interest[a] = "READ"
        /\ interest' = [interest EXCEPT ![a] = "WRITE"]
        /\ UNCHANGED <<conn, greeted, failed, told, left>>
    BY DEF ReadRequest, Event, Answering
  <1>3. Types'
    BY <1>1, <1>2 DEF IInv, Types
  <1>4. \A b \in Admins \ {a} : Same(b)
    BY <1>1, <1>2 DEF IInv, Types, Same
  <1>5. replies'[a] = Append(replies[a], e.reply) /\ told'[a] = told[a] /\ due'[a] = e.reply
        /\ quit'[a] = (Head(inbox[a]).cmd = "quit") /\ interest'[a] = "WRITE"
    BY <1>1, <1>2 DEF IInv, Types
  <1>6. /\ Told(a)' /\ Len(replies'[a]) = Len(replies[a]) + 1 /\ Len(replies[a]) \in Nat
        /\ replies'[a][Len(replies[a]) + 1] = e.reply
    BY <1>5, OneMoreOwed DEF IInv
  <1>7. ASSUME a \notin left PROVE Stage(a)'
    <2>1. greeted[a] /\ Given(a)' = Given(a)
      BY <1>2, <1>5, <1>6, <1>7 DEF IInv, Stage, Given
    <2>2. quit'[a] => due'[a] = Empty
      BY <1>5, QuitEffect
    <2> QED BY <1>2, <1>5, <1>6, <1>7, <2>1, <2>2 DEF IInv, Stage
  <1> QED BY <1>2, <1>3, <1>4, <1>6, <1>7, OneSession

LEMMA ReadNothingKeeps ==
  ASSUME IInv, NEW a \in Admins, ReadNothing(a)
  PROVE  IInv'
  <1> USE DEF ReadNothing, Event, history
  <1>1. Types' /\ left' = left /\ a \in left
    BY DEF IInv, Types, Answering
  <1>2. \A b \in Admins \ {a} : Same(b)
    BY DEF IInv, Types, Same
  <1>3. Told(a)'
    BY DEF IInv, Told, Owed
  <1> QED BY <1>1, <1>2, <1>3, OneSession

LEMMA NotSentKeeps ==
  ASSUME IInv, NEW a \in Admins, NotSent(a), SendFails = FALSE
  PROVE  IInv'
  <1> USE DEF NotSent, Event, history
  <1>1. Types' /\ left' = left /\ a \in left
    BY DEF IInv, Types
  <1>2. \A b \in Admins \ {a} : Same(b)
    BY DEF IInv, Types, Same
  <1>3. Told(a)'
    BY DEF IInv, Told, Owed
  <1> QED BY <1>1, <1>2, <1>3, OneSession

LEMMA SentKeeps ==
  ASSUME IInv, NEW a \in Admins, Sent(a)
  PROVE  IInv'
  <1>1. /\ conn[a] = "registered" /\ interest[a] = "WRITE" /\ ~quit[a]
        /\ Receives(a, Outgoing(a))
        /\ greeted' = [greeted EXCEPT ![a] = TRUE]
        /\ UNCHANGED <<conn, failed, quit, left, replies>>
    BY DEF Sent, Event, history
  <1>2. /\ failed[a] => UNCHANGED <<interest, due>>
        /\ ~failed[a] => /\ interest' = [interest EXCEPT ![a] = "READ"]
                         /\ due' = [due EXCEPT ![a] = Empty]
    BY DEF Sent, Reading
  <1>3. Types'
    BY <1>1, <1>2 DEF IInv, Types, Receives
  <1>4. \A b \in Admins \ {a} : Same(b)
    BY <1>1, <1>2 DEF IInv, Types, Same, Receives
  <1>5. CASE a \in left
    <2>1. told'[a] = told[a] /\ replies'[a] = replies[a]
      BY <1>1, <1>5 DEF Receives, IInv, Types
    <2>2. Told(a)'
      BY <2>1 DEF IInv, Told, Owed
    <2> QED BY <1>1, <1>3, <1>4, <1>5, <2>2, OneSession
  <1>6. CASE a \notin left
    <2>1. Stage(a) /\ Told(a) /\ ~failed[a]
      BY <1>6 DEF IInv, Stage
    <2>2. greeted'[a] /\ interest'[a] = "READ" /\ conn'[a] = "registered"
      BY <1>1, <1>2, <2>1 DEF IInv, Types
    <2>3. Len(replies[a]) \in Nat
      BY <2>1, AppendIsSeq DEF Told
    <2>4. Given(a) = IF greeted[a] THEN Len(replies[a]) ELSE 0
      BY <1>1 DEF Given
    <2>5. Given(a)' = Len(replies[a]) + 1
      BY <1>1, <2>2 DEF Given
    <2>6. ~greeted[a] => Len(replies[a]) = 0
      BY <2>1, EmptyIsSeq DEF Stage
    <2>7. Outgoing(a) = Owed(a, Given(a) + 1)
      BY <1>1, <2>1, <2>3, <2>4 DEF Outgoing, Owed, Stage
    <2>8. Told(a)' /\ Len(told'[a]) = Recorded(Given(a)')
      BY <1>1, <1>6, <2>1, <2>3, <2>4, <2>5, <2>6, <2>7, OneMoreGiven DEF IInv, Types, Stage
    <2>9. Stage(a)'
      BY <1>1, <2>1, <2>2, <2>8 DEF Stage, Recorded
    <2> QED BY <1>1, <1>3, <1>4, <2>8, <2>9, OneSession
  <1> QED BY <1>5, <1>6

LEMMA QuitKeeps ==
  ASSUME IInv, NEW a \in Admins, Quit(a), SendFails = FALSE
  PROVE  IInv'
  <1>1. /\ conn[a] = "registered" /\ interest[a] = "WRITE" /\ quit[a]
        /\ conn' = [conn EXCEPT ![a] = "closed"]
        /\ interest' = [interest EXCEPT ![a] = "NOOP"]
        /\ UNCHANGED <<greeted, due, failed, quit, left, replies>>
    BY DEF Quit, Event, history
  <1>2. Receives(a, Empty) \/ (a \in left /\ UNCHANGED told)
    BY DEF Quit
  <1>3. Types'
    BY <1>1, <1>2 DEF IInv, Types, Receives
  <1>4. \A b \in Admins \ {a} : Same(b)
    BY <1>1, <1>2 DEF IInv, Types, Same, Receives
  <1>5. CASE a \in left
    <2>1. told'[a] = told[a] /\ replies'[a] = replies[a]
      BY <1>1, <1>2, <1>5 DEF Receives, IInv, Types
    <2>2. Told(a)'
      BY <2>1 DEF IInv, Told, Owed
    <2> QED BY <1>1, <1>3, <1>4, <1>5, <2>2, OneSession
  <1>6. CASE a \notin left
    <2>1. Stage(a) /\ Told(a) /\ Receives(a, Empty)
      BY <1>2, <1>6 DEF IInv
    <2>2. greeted[a] /\ conn'[a] = "closed" /\ interest'[a] = "NOOP"
      BY <1>1, <2>1 DEF IInv, Types, Stage
    <2>3. Len(replies[a]) \in Nat
      BY <2>1, AppendIsSeq DEF Told
    <2>4. Given(a) = Len(replies[a]) /\ Given(a)' = Len(replies[a]) + 1
      BY <1>1, <2>2 DEF Given
    <2>5. Empty = Owed(a, Given(a) + 1)
      BY <1>1, <2>1, <2>2, <2>3, <2>4 DEF Owed, Stage
    <2>6. Told(a)' /\ Len(told'[a]) = Recorded(Given(a)')
      BY <1>1, <1>6, <2>1, <2>3, <2>4, <2>5, OneMoreGiven DEF IInv, Types, Stage
    <2>7. Stage(a)'
      BY <1>1, <2>1, <2>2, <2>6 DEF Stage, Recorded
    <2> QED BY <1>1, <1>3, <1>4, <2>6, <2>7, OneSession
  <1> QED BY <1>5, <1>6

-----------------------------------------------------------------------------
LEMMA InitIInv == Init => IInv
  <1> SUFFICES ASSUME Init PROVE IInv
    OBVIOUS
  <1> USE DEF Init
  <1>1. Types
    BY DEF Types
  <1>2. ASSUME NEW a \in Admins PROVE Told(a) /\ Stage(a)
    BY EmptyIsSeq, AdminAssumption DEF Told, Stage, Given, Recorded
  <1> QED BY <1>1, <1>2 DEF IInv

LEMMA NextIInv ==
  ASSUME SendFails = FALSE, IInv, [Next]_vars
  PROVE  IInv'
  <1>1. ASSUME NEW a \in Admins, AdminSend(a) \/ AdminLeaves(a) PROVE IInv'
    <2>1. Types' /\ left \subseteq left' /\ \A b \in Admins : Same(b)
      BY <1>1 DEF AdminSend, SendRequest, AdminLeaves, session, history, IInv, Types, Same
    <2> QED BY <2>1, SameKeeps DEF IInv
  <1>2. CASE UNCHANGED vars
    <2>1. Types' /\ left' = left /\ \A b \in Admins : Same(b)
      BY <1>2 DEF vars, session, history, IInv, Types, Same
    <2> QED BY <2>1, SameKeeps DEF IInv
  <1>3. ASSUME NEW a \in Admins, ServerNext(a) PROVE IInv'
    BY <1>3, AcceptKeeps, ReadRequestKeeps, ReadNothingKeeps, SentKeeps, NotSentKeeps, QuitKeeps
       DEF ServerNext, Handler
  <1> QED BY <1>1, <1>2, <1>3 DEF Next

\* Each administrator is sent the welcome and then one reply to each of its
\* requests, in order, for any number of administrators and requests, as long as
\* a send fails only to one that has gone.
THEOREM RepliesPair ==
  ASSUME SendFails = FALSE
  PROVE  Spec => []OneReplyEach
  <1>1. IInv => OneReplyEach
    <2> SUFFICES ASSUME IInv, NEW a \in Admins
                 PROVE  IsPrefix(told[a], <<Welcome>> \o replies[a])
      BY DEF OneReplyEach
    <2> DEFINE S == {told[a][i] : i \in DOMAIN told[a]} \cup {replies[a][i] : i \in DOMAIN replies[a]}
                      \cup {Welcome}
               owed == <<Welcome>> \o replies[a]
    <2>1. told[a] \in Seq(S) /\ replies[a] \in Seq(S) /\ <<Welcome>> \in Seq(S)
      <3>1. told[a] \in Seq(S) /\ replies[a] \in Seq(S)
        BY SeqMonotonic, ZenonT(60) DEF IInv, Told, IsSeq
      <3> QED BY <3>1
    <2>2. /\ owed \in Seq(S) /\ Len(owed) = 1 + Len(replies[a]) /\ Len(replies[a]) \in Nat
          /\ \A i \in 1..Len(owed) : owed[i] = Owed(a, i)
      <3> HIDE DEF S
      <3>1. Len(<<Welcome>>) = 1 /\ <<Welcome>>[1] = Welcome
        OBVIOUS
      <3> QED BY <2>1, <3>1, ConcatProperties DEF Owed
    <2> HIDE DEF S, owed
    <2>3. /\ Len(told[a]) \in Nat /\ Len(told[a]) <= Len(owed)
          /\ \A i \in 1..Len(told[a]) : told[a][i] = owed[i]
      BY <2>1, <2>2 DEF IInv, Told
    <2>4. SubSeq(told[a], 1, Len(told[a])) = SubSeq(owed, 1, Len(told[a]))
      BY <2>1, <2>2, <2>3
    <2> QED BY <2>3, <2>4 DEF IsPrefix, owed
  <1>2. IInv /\ [Next]_vars => IInv'
    BY NextIInv
  <1> QED BY <1>1, <1>2, InitIInv, PTL DEF Spec

-----------------------------------------------------------------------------
(* The metric.                                                             *)

Registered == {a \in Admins : conn[a] = "registered"}
Accepted   == {a \in Admins : conn[a] # "none"}

\* The inductive invariant of the metric.
MetricInv == /\ conn \in [Admins -> {"none", "registered", "closed"}]
             /\ current \in Int /\ most \in Int
             /\ AdminsCounted

LEMMA Counts ==
  ASSUME conn \in [Admins -> {"none", "registered", "closed"}]
  PROVE  /\ IsFiniteSet(Registered) /\ IsFiniteSet(Accepted)
         /\ Cardinality(Registered) \in Nat /\ Cardinality(Accepted) \in Nat
  BY AdminAssumption, FS_Subset, FS_CardinalityType DEF Registered, Accepted

LEMMA MetricKept ==
  ASSUME MetricInv, [Next]_vars
  PROVE  MetricInv'
  <1> USE DEF MetricInv
  <1>1. ASSUME UNCHANGED <<conn, current, most>> PROVE MetricInv'
    BY <1>1 DEF AdminsCounted
  <1>2. ASSUME NEW a \in Admins, Accept(a) PROVE MetricInv'
    <2>1. /\ conn[a] = "none" /\ conn' \in [Admins -> {"none", "registered", "closed"}]
          /\ conn' = [conn EXCEPT ![a] = conn'[a]] /\ conn'[a] \in {"registered", "closed"}
          /\ current' = current + 1
          /\ most' = IF most < current' THEN current' ELSE most
      BY <1>2 DEF Accept, Counted
    <2>2. Accepted' = Accepted \cup {a} /\ a \notin Accepted /\ Registered' \subseteq Registered \cup {a}
      BY <2>1 DEF Accepted, Registered
    <2>3. Cardinality(Accepted') = Cardinality(Accepted) + 1
      BY <2>2, Counts, FS_AddElement
    <2>4. Cardinality(Registered') <= Cardinality(Registered) + 1
      <3>1. IsFiniteSet(Registered \cup {a}) /\ Cardinality(Registered \cup {a}) <= Cardinality(Registered) + 1
        <4>1. IsFiniteSet(Registered) /\ Cardinality(Registered) \in Nat
          BY Counts
        <4> QED BY <4>1, FS_AddElement
      <3>2. Cardinality(Registered') <= Cardinality(Registered \cup {a})
        BY <2>2, <3>1, FS_Subset
      <3>3. Cardinality(Registered') \in Nat /\ Cardinality(Registered \cup {a}) \in Nat
        BY <2>2, <3>1, FS_Subset, FS_CardinalityType
      <3> QED BY <3>1, <3>2, <3>3, Counts
    <2>5. Cardinality(Registered') \in Nat
      BY <2>2, Counts, FS_AddElement, FS_Subset, FS_CardinalityType
    <2> QED BY <2>1, <2>3, <2>4, <2>5, Counts DEF AdminsCounted, Registered, Accepted
  <1>3. ASSUME NEW a \in Admins, Quit(a) PROVE MetricInv'
    <2>1. /\ conn[a] = "registered" /\ conn' = [conn EXCEPT ![a] = "closed"]
          /\ current' = current - 1 /\ most' = most
      BY <1>3 DEF Quit, Event
    <2>2. Accepted' = Accepted /\ a \in Registered /\ Registered' = Registered \ {a}
      BY <2>1 DEF Accepted, Registered
    <2>3. Cardinality(Registered') = Cardinality(Registered) - 1
      BY <2>2, Counts, FS_RemoveElement
    <2> QED BY <2>1, <2>2, <2>3, Counts DEF AdminsCounted, Registered, Accepted
  <1>4. ASSUME NEW a \in Admins, ReadRequest(a) \/ ReadNothing(a) \/ Sent(a) \/ NotSent(a)
                                 \/ AdminSend(a) \/ AdminLeaves(a)
        PROVE  MetricInv'
    BY <1>1, <1>4 DEF ReadRequest, ReadNothing, Sent, NotSent, AdminSend, SendRequest, AdminLeaves,
                      session, metrics
  <1>5. CASE UNCHANGED vars
    BY <1>1, <1>5 DEF vars, session, metrics
  <1> QED BY <1>2, <1>3, <1>4, <1>5 DEF Next, ServerNext, Handler

\* The metric of administrators never falls below those connected, and its maximum
\* is one that was reached, for any number of administrators.
THEOREM MetricCounts == Spec => []AdminsCounted
  <1>1. Init => MetricInv
    <2> SUFFICES ASSUME Init PROVE MetricInv
      OBVIOUS
    <2>1. Registered = {} /\ Accepted = {} /\ current = 0 /\ most = 0
      BY DEF Init, Registered, Accepted
    <2>2. conn \in [Admins -> {"none", "registered", "closed"}]
      BY DEF Init
    <2> QED BY <2>1, <2>2, FS_EmptySet DEF MetricInv, AdminsCounted, Registered, Accepted
  <1>2. MetricInv => AdminsCounted
    BY DEF MetricInv
  <1> QED BY <1>1, <1>2, MetricKept, PTL DEF Spec

-----------------------------------------------------------------------------
(* The program.                                                            *)

\* Whatever the programs do, the service sees administrators as any others.
LEMMA ProgramIsAdmin == [ClientNext]_clientVars => [Next]_vars
  <1> SUFFICES ASSUME [ClientNext]_clientVars PROVE [Next]_vars
    OBVIOUS
  <1>1. ASSUME Others PROVE Next
    BY <1>1 DEF Others, Next
  <1>2. ASSUME NEW c \in Clients, Person(c) \/ Reads(c) PROVE [Next]_vars
    <2>1. c \in Admins
      BY ClientsAssumption
    <2>2. ASSUME NEW r \in Requests, Command(c, r) PROVE [Next]_vars
      BY <2>1, <2>2 DEF Command, Sending, AdminSend, Next
    <2>3. ASSUME UserLeaves(c) PROVE [Next]_vars
      BY <2>1, <2>3 DEF UserLeaves, Next
    <2>4. ASSUME Help(c) \/ Refuse(c) \/ Reads(c) PROVE UNCHANGED vars
      BY <2>4 DEF Help, Refuse, Reads, ReceiveWelcome, Receive, ReceiveNothing
    <2> QED BY <1>2, <2>2, <2>3, <2>4 DEF Person
  <1>3. CASE UNCHANGED clientVars
    BY <1>3 DEF clientVars
  <1> QED BY <1>1, <1>2, <1>3 DEF ClientNext

\* The service with programs among its administrators implements the service, so
\* that all that is proved of Admin holds of the two together.
THEOREM ClientsAreAdmins == ClientSpec => Spec
  <1>1. ClientInit => Init
    BY DEF ClientInit
  <1> QED BY <1>1, ProgramIsAdmin, PTL DEF ClientSpec, Spec

Phases == {"connecting", "prompt", "waiting", "done", "killed"}

ProgramTypes ==
  /\ phase \in [Clients -> Phases] /\ quit_option_on \in [Clients -> BOOLEAN]
  /\ DOMAIN r_status = Clients /\ read \in [Clients -> Nat]
  /\ inbox \in [Admins -> Seq(Requests)]

\* Where the service is with a QUIT of c, and where the program is.
Quitting(c) ==
  /\ quit[c] => /\ quit_option_on[c] /\ inbox[c] = <<>>
                /\ Len(replies[c]) > 0 /\ replies[c][Len(replies[c])] = Empty
  /\ conn[c] = "closed" /\ told[c] # <<>> => quit[c]
  /\ inbox[c] # <<>> => /\ phase[c] = "waiting" /\ Len(inbox[c]) = 1
                        /\ quit_option_on[c] = (Head(inbox[c]).cmd = "quit")

\* The status that the program keeps at its prompt.
KnowsStatus(c) ==
  LET n == Len(replies[c])
  IN  \/ r_status[c] = "NOT_SEND"
      \/ n = 0 /\ r_status[c] = "OK"
      \/ n > 0 /\ r_status[c] = StatusOf(replies[c][n])

\* Whose turn it is, once the welcome has been sent.
Turn(c) ==
  /\ phase[c] = "prompt" =>
       /\ ~quit_option_on[c] /\ inbox[c] = <<>> /\ KnowsStatus(c)
       /\ read[c] = Len(told[c]) /\ read[c] = 1 + Len(replies[c])
  /\ phase[c] = "waiting" =>
       /\ read[c] = Len(replies[c]) + Len(inbox[c]) /\ read[c] > 0
       /\ quit_option_on[c] => inbox[c] # <<>> \/ quit[c]
  /\ phase[c] = "done" => conn[c] = "closed"
  /\ phase[c] # "killed"

Program(c) ==
  /\ Quitting(c)
  /\ phase[c] = "connecting" => /\ read[c] = 0 /\ inbox[c] = <<>> /\ replies[c] = <<>>
                                /\ r_status[c] = "OK" /\ ~quit_option_on[c]
  /\ phase[c] # "connecting" /\ told[c] = <<>> => conn[c] = "closed" /\ inbox[c] = <<>>
  /\ phase[c] # "connecting" /\ told[c] # <<>> => Turn(c)

\* The inductive invariant of service and programs.
CInv == /\ IInv /\ ProgramTypes
        /\ \A c \in Clients : ~died /\ c \notin left => Program(c)

\* What a step that is not about c leaves alone.
SameProgram(c) ==
  /\ conn'[c] = conn[c] /\ told'[c] = told[c] /\ inbox'[c] = inbox[c]
  /\ quit'[c] = quit[c] /\ replies'[c] = replies[c]
  /\ phase'[c] = phase[c] /\ quit_option_on'[c] = quit_option_on[c]
  /\ r_status'[c] = r_status[c] /\ read'[c] = read[c]

LEMMA SameProgramKeeps ==
  ASSUME NEW c \in Clients, SameProgram(c), Program(c)
  PROVE  Program(c)'
  BY DEF SameProgram, Program, Quitting, Turn, KnowsStatus, StatusOf

\* The numbers of messages, by the invariant of the service.
LEMMA Lengths ==
  ASSUME IInv, NEW a \in Admins
  PROVE  /\ Len(told[a]) \in Nat /\ Len(replies[a]) \in Nat /\ MaxTold \in Nat
         /\ Len(told[a]) <= Len(replies[a]) + 1
         /\ told[a] = <<>> <=> Len(told[a]) = 0
         /\ replies[a] = <<>> <=> Len(replies[a]) = 0
         /\ a \notin left => /\ conn[a] = "none" => told[a] = <<>>
                             /\ ~greeted[a] => told[a] = <<>>
  <1>1. IsSeq(told[a]) /\ IsSeq(replies[a]) /\ Len(told[a]) <= Len(replies[a]) + 1
    BY DEF IInv, Told
  <1>2. Len(told[a]) \in Nat /\ Len(replies[a]) \in Nat /\ MaxTold \in Nat
    BY <1>1, AppendIsSeq, AdminAssumption
  <1>3. (told[a] = <<>> <=> Len(told[a]) = 0) /\ (replies[a] = <<>> <=> Len(replies[a]) = 0)
    BY <1>1, EmptySeq DEF IsSeq
  <1>4. a \notin left => /\ conn[a] = "none" => told[a] = <<>>
                         /\ ~greeted[a] => told[a] = <<>>
    BY <1>2, <1>3 DEF IInv, Stage, Given, Recorded
  <1> QED BY <1>1, <1>2, <1>3, <1>4

\* An administrator that is still there sees no end of the process.
There(c) == ~died /\ c \notin left

LEMMA InboxLengths ==
  ASSUME ProgramTypes, NEW a \in Admins
  PROVE  Len(inbox[a]) \in Nat /\ (inbox[a] = <<>> <=> Len(inbox[a]) = 0)
  BY DEF ProgramTypes

\* With t messages told, r replied, i requests on their way and n messages read.
LEMMA FirstReply == ASSUME NEW t \in Nat, t # 0, t <= 0 + 1 PROVE t = 1
  OBVIOUS
LEMMA NoneMore == ASSUME NEW r \in Nat, NEW i \in Nat, i = 0 PROVE r + i = r
  OBVIOUS
LEMMA LastReply ==
  ASSUME NEW t \in Nat, NEW r \in Nat, NEW i \in Nat, NEW n \in Nat,
         t <= r + 1, n = r + i, n < t
  PROVE  i = 0 /\ n = r /\ t = r + 1
  OBVIOUS

\* A step concerns one program; what it needs to show of that one.
LEMMA OneProgram ==
  ASSUME CInv, NEW c \in Clients, IInv', ProgramTypes',
         \A d \in Clients \ {c} : SameProgram(d) /\ (There(d)' => There(d)),
         There(c)' => Program(c)'
  PROVE  CInv'
  <1> SUFFICES ASSUME NEW d \in Clients, There(d)' PROVE Program(d)'
    BY DEF CInv, There
  <1>1. CASE d = c
    BY <1>1
  <1>2. CASE d # c
    BY <1>2, SameProgramKeeps DEF CInv, There
  <1> QED BY <1>1, <1>2

-----------------------------------------------------------------------------
(* The handlers of the service.                                            *)

LEMMA AcceptProgram ==
  ASSUME CInv, NEW c \in Clients, Accept(c), UNCHANGED program_vars, There(c)
  PROVE  Program(c)'
  <1>1. c \in Admins /\ Program(c) /\ conn[c] = "none" /\ conn'[c] \in {"registered", "closed"}
    BY ClientsAssumption DEF CInv, There, Accept, IInv, Types
  <1>2. told[c] = <<>> /\ phase[c] = "connecting"
    BY <1>1, Lengths DEF CInv, There, Program
  <1> QED BY <1>1, <1>2 DEF Accept, history, program_vars, Program, Quitting

LEMMA ReadRequestProgram ==
  ASSUME CInv, NEW c \in Clients, ReadRequest(c), UNCHANGED program_vars, There(c)
  PROVE  Program(c)'
  <1>1. c \in Admins /\ Program(c) /\ conn[c] = "registered" /\ inbox[c] # <<>>
    BY ClientsAssumption DEF CInv, There, ReadRequest, Event
  <1>2. PICK e \in Effects(Head(inbox[c])) :
          /\ quit' = [quit EXCEPT ![c] = Head(inbox[c]).cmd = "quit"]
          /\ replies' = [replies EXCEPT ![c] = Append(@, e.reply)]
    BY DEF ReadRequest
  <1>3. /\ quit'[c] = (Head(inbox[c]).cmd = "quit") /\ replies'[c] = Append(replies[c], e.reply)
        /\ inbox'[c] = Tail(inbox[c]) /\ UNCHANGED <<conn, told>>
    BY <1>1, <1>2 DEF ReadRequest, CInv, IInv, Types, ProgramTypes
  <1>4. /\ phase[c] = "waiting" /\ Len(inbox[c]) = 1
        /\ quit_option_on[c] = (Head(inbox[c]).cmd = "quit")
        /\ told[c] # <<>> /\ Turn(c)
    BY <1>1 DEF Program, Quitting
  <1>5. inbox'[c] = <<>> /\ Len(inbox'[c]) = 0
    <2>1. inbox[c] \in Seq(Requests)
      BY <1>1 DEF CInv, ProgramTypes
    <2>2. Tail(inbox[c]) \in Seq(Requests) /\ Len(Tail(inbox[c])) = 0
      BY <2>1, <1>4
    <2> QED BY <1>3, <2>2, EmptySeq
  <1>6. /\ Len(replies[c]) \in Nat /\ Len(replies'[c]) = Len(replies[c]) + 1
        /\ replies'[c][Len(replies'[c])] = e.reply
    BY <1>1, <1>3, AppendIsSeq DEF CInv, IInv, Told
  <1>7. quit'[c] => e.reply = Empty
    BY <1>2, <1>3, QuitEffect
  <1>8. /\ quit'[c] <=> quit_option_on[c]
        /\ UNCHANGED <<phase, quit_option_on, r_status, read>>
    BY <1>3, <1>4 DEF program_vars
  <1>9. Quitting(c)'
    <2>1. quit'[c] => /\ quit_option_on'[c] /\ inbox'[c] = <<>>
                      /\ Len(replies'[c]) > 0 /\ replies'[c][Len(replies'[c])] = Empty
      BY <1>5, <1>6, <1>7, <1>8
    <2>2. conn'[c] # "closed"
      BY <1>1, <1>3
    <2> QED BY <1>5, <2>1, <2>2 DEF Quitting
  <1>10. read[c] = Len(replies[c]) + Len(inbox[c]) /\ read[c] > 0
    BY <1>4 DEF Turn
  <1>11. Turn(c)'
    BY <1>4, <1>5, <1>6, <1>8, <1>10 DEF Turn
  <1> QED BY <1>3, <1>4, <1>8, <1>9, <1>11 DEF Program

LEMMA SentProgram ==
  ASSUME CInv, NEW c \in Clients, Sent(c), UNCHANGED program_vars, There(c)
  PROVE  Program(c)'
  <1>1. /\ c \in Admins /\ Program(c) /\ conn[c] = "registered" /\ interest[c] = "WRITE"
        /\ ~quit[c] /\ UNCHANGED <<conn, quit, inbox, replies>>
    BY ClientsAssumption DEF CInv, There, Sent, Event, history
  <1>2. told'[c] = told[c] \/ (Len(told'[c]) = Len(told[c]) + 1)
    BY <1>1, AppendIsSeq DEF Sent, Receives, CInv, IInv, Types, Told
  <1>3. told[c] # <<>> => told'[c] # <<>>
    BY <1>1, <1>2, Lengths, EmptyIsSeq DEF CInv
  <1>4. CASE phase[c] = "connecting"
    BY <1>1, <1>4 DEF Program, Quitting, program_vars
  <1>5. CASE phase[c] # "connecting"
    <2>1. told[c] # <<>> /\ Turn(c)
      BY <1>1, <1>5 DEF Program
    <2>2. Len(told[c]) <= Len(replies[c]) /\ Len(replies[c]) \in Nat /\ Len(told[c]) \in Nat
      BY <1>1, <2>1, Lengths DEF CInv, There, IInv, Stage, Given, Recorded
    <2>3. phase[c] = "waiting"
      BY <1>1, <1>5, <2>1, <2>2 DEF Turn, CInv, ProgramTypes, Phases
    <2> QED BY <1>1, <1>3, <2>1, <2>3 DEF Program, Quitting, Turn, program_vars
  <1> QED BY <1>4, <1>5

LEMMA QuitProgram ==
  ASSUME CInv, NEW c \in Clients, Quit(c), UNCHANGED program_vars, There(c)
  PROVE  Program(c)'
  <1>1. /\ c \in Admins /\ Program(c) /\ conn[c] = "registered" /\ quit[c]
        /\ conn'[c] = "closed" /\ UNCHANGED <<quit, inbox, replies>>
    BY ClientsAssumption DEF CInv, There, Quit, Event, history, IInv, Types
  <1>2. quit_option_on[c] /\ inbox[c] = <<>>
    BY <1>1 DEF Program, Quitting
  <1>3. phase[c] # "connecting" /\ told[c] # <<>> /\ Turn(c)
    BY <1>1, <1>2 DEF Program
  <1>4. phase[c] = "waiting"
    BY <1>1, <1>2, <1>3 DEF Turn, CInv, ProgramTypes, Phases
  <1> QED BY <1>1, <1>2, <1>3, <1>4 DEF Program, Quitting, Turn, program_vars

-----------------------------------------------------------------------------
(* The program's own steps.                                                *)

LEMMA ReceiveWelcomeProgram ==
  ASSUME CInv, NEW c \in Clients, ReceiveWelcome(c), There(c)
  PROVE  Program(c)'
  <1>1. /\ c \in Admins /\ Program(c) /\ phase[c] = "connecting" /\ phase'[c] = "prompt"
        /\ read'[c] = Len(told[c]) /\ UNCHANGED <<vars, quit_option_on, r_status>>
        /\ told[c] = <<>> => conn[c] = "closed"
    BY ClientsAssumption DEF CInv, There, ReceiveWelcome, ProgramTypes, Gone
  <1>2. UNCHANGED <<conn, told, inbox, quit, replies>>
    BY <1>1 DEF vars, session, history
  <1>3. /\ inbox[c] = <<>> /\ Len(replies[c]) = 0 /\ r_status[c] = "OK" /\ ~quit_option_on[c]
    BY <1>1, EmptyIsSeq DEF Program
  <1>4. told[c] # <<>> => Len(told[c]) = 1
    <2>1. /\ Len(told[c]) \in Nat /\ Len(replies[c]) \in Nat /\ Len(told[c]) <= Len(replies[c]) + 1
          /\ told[c] # <<>> => Len(told[c]) # 0
      BY <1>1, Lengths DEF CInv
    <2>2. Len(replies[c]) = 0
      BY <1>3
    <2> QED BY <2>1, <2>2, FirstReply
  <1> QED BY <1>1, <1>2, <1>3, <1>4 DEF Program, Quitting, Turn, KnowsStatus

\* A line that is not sent leaves the program at its prompt.
LEMMA UnsentProgram ==
  ASSUME CInv, NEW c \in Clients, Help(c) \/ Refuse(c), There(c)
  PROVE  Program(c)'
  <1>1. c \in Admins /\ Program(c) /\ phase[c] = "prompt" /\ UNCHANGED <<vars, quit_option_on, read>>
    BY ClientsAssumption DEF CInv, There, Help, Refuse
  <1>2. UNCHANGED <<conn, told, inbox, quit, replies>>
    BY <1>1 DEF vars, session, history
  <1>3. /\ r_status'[c] \in {r_status[c], "NOT_SEND"} /\ phase'[c] \in {"prompt", "done"}
        /\ ~quit_option_on[c] => phase'[c] = "prompt"
    BY DEF Help, Refuse, React, StatusUnsent, CInv, ProgramTypes
  <1>4. inbox[c] = <<>>
    BY <1>1 DEF Program, Quitting
  <1>5. CASE told[c] = <<>>
    BY <1>1, <1>2, <1>3, <1>4, <1>5 DEF Program, Quitting
  <1>6. CASE told[c] # <<>>
    <2>1. Turn(c) /\ phase'[c] = "prompt"
      BY <1>1, <1>3, <1>6 DEF Program, Turn
    <2>2. KnowsStatus(c)'
      BY <1>1, <1>2, <1>3, <2>1 DEF Turn, KnowsStatus, StatusOf
    <2> QED BY <1>1, <1>2, <1>4, <1>6, <2>1, <2>2 DEF Program, Quitting, Turn
  <1> QED BY <1>5, <1>6

LEMMA CommandProgram ==
  ASSUME CInv, NEW c \in Clients, NEW r \in Requests, Command(c, r), There(c)
  PROVE  Program(c)'
  <1>1. /\ c \in Admins /\ Program(c) /\ phase[c] = "prompt" /\ read' = read
        /\ quit_option_on'[c] = (quit_option_on[c] \/ r.cmd = "quit")
        /\ phase'[c] \in {"waiting", "killed"} /\ (phase'[c] = "killed" => Gone(c))
    BY ClientsAssumption DEF CInv, There, Command, ProgramTypes
  <1>2. UNCHANGED <<conn, told, quit, replies>>
    BY DEF Command, Sending, SendRequest, vars, session, history
  <1>3. inbox[c] = <<>>
    BY <1>1 DEF Program, Quitting
  <1>4. CASE told[c] = <<>>
    <2>1. conn[c] = "closed" /\ inbox'[c] = inbox[c]
      BY <1>1, <1>4 DEF Program, Command, Sending, SendRequest, vars
    <2> QED BY <1>1, <1>2, <1>3, <1>4, <2>1 DEF Program, Quitting
  <1>5. CASE told[c] # <<>>
    <2>1. Turn(c) /\ ~quit_option_on[c] /\ ~quit[c] /\ conn[c] # "closed"
      BY <1>1, <1>5 DEF Program, Turn, Quitting
    <2>2. phase'[c] = "waiting" /\ SendRequest(c, r)
      BY <1>1, <2>1 DEF Gone, There, Command, Sending
    <2>3. inbox'[c] = <<r>>
      BY <1>1, <1>3, <2>2 DEF SendRequest, CInv, ProgramTypes
    <2>4. Len(inbox'[c]) = 1 /\ Head(inbox'[c]) = r /\ inbox'[c] # <<>>
      BY <2>3
    <2>5. Quitting(c)'
      BY <1>1, <1>2, <2>1, <2>2, <2>4 DEF Quitting
    <2>6. Turn(c)'
      BY <1>1, <1>2, <2>1, <2>2, <2>4, Lengths DEF Turn, CInv
    <2> QED BY <1>2, <1>5, <2>2, <2>5, <2>6 DEF Program
  <1> QED BY <1>4, <1>5

\* The message that the program reads is the reply to its last request.
LEMMA ReadsLast ==
  ASSUME CInv, NEW c \in Clients, Receive(c), There(c)
  PROVE  /\ c \in Admins /\ Program(c) /\ Turn(c) /\ told[c] # <<>> /\ inbox[c] = <<>>
         /\ read[c] = Len(replies[c]) /\ Len(told[c]) = Len(replies[c]) + 1
         /\ Len(replies[c]) > 0 /\ (quit_option_on[c] => quit[c])
         /\ told[c][read[c] + 1] = replies[c][Len(replies[c])]
  <1>1. /\ c \in Admins /\ Program(c) /\ phase[c] = "waiting" /\ read[c] < Len(told[c])
        /\ read'[c] = read[c] + 1 /\ UNCHANGED <<vars, quit_option_on>>
        /\ React(c, StatusOf(told[c][read[c] + 1]), quit_option_on[c])
    BY ClientsAssumption DEF CInv, There, Receive, ProgramTypes
  <1>2. UNCHANGED <<conn, told, inbox, quit, replies>>
    BY <1>1 DEF vars, session, history
  <1>3. /\ Len(told[c]) \in Nat /\ Len(replies[c]) \in Nat /\ Len(told[c]) <= Len(replies[c]) + 1
        /\ read[c] \in Nat /\ Len(inbox[c]) \in Nat /\ (inbox[c] = <<>> <=> Len(inbox[c]) = 0)
        /\ (told[c] = <<>> <=> Len(told[c]) = 0)
    BY <1>1, Lengths, InboxLengths DEF CInv, ProgramTypes
  <1>4. told[c] # <<>> /\ Turn(c)
    BY <1>1, <1>3 DEF Program
  <1>5. /\ inbox[c] = <<>> /\ read[c] = Len(replies[c]) /\ Len(told[c]) = Len(replies[c]) + 1
        /\ Len(replies[c]) > 0 /\ (quit_option_on[c] => quit[c])
    <2>1. /\ read[c] = Len(replies[c]) + Len(inbox[c]) /\ read[c] > 0
          /\ quit_option_on[c] => inbox[c] # <<>> \/ quit[c]
      BY <1>1, <1>4 DEF Turn
    <2>2. Len(inbox[c]) = 0 /\ read[c] = Len(replies[c]) /\ Len(told[c]) = Len(replies[c]) + 1
      <3>1. read[c] < Len(told[c])
        BY <1>1
      <3>2. read[c] = Len(replies[c]) + Len(inbox[c])
        BY <2>1
      <3> QED BY <1>3, <3>1, <3>2, LastReply
    <2>3. inbox[c] = <<>>
      BY <1>3, <2>2
    <2> QED BY <2>1, <2>2, <2>3
  <1>6. told[c][read[c] + 1] = replies[c][Len(replies[c])]
    BY <1>1, <1>3, <1>5 DEF CInv, IInv, Told, Owed
  <1> QED BY <1>1, <1>4, <1>5, <1>6

LEMMA ReceiveProgram ==
  ASSUME CInv, NEW c \in Clients, Receive(c), There(c)
  PROVE  Program(c)'
  <1>1. /\ c \in Admins /\ Program(c) /\ phase[c] = "waiting" /\ read[c] < Len(told[c])
        /\ read'[c] = read[c] + 1 /\ UNCHANGED <<vars, quit_option_on>>
        /\ React(c, StatusOf(told[c][read[c] + 1]), quit_option_on[c])
    BY ClientsAssumption DEF CInv, There, Receive, ProgramTypes
  <1>2. UNCHANGED <<conn, told, inbox, quit, replies>>
    BY <1>1 DEF vars, session, history
  <1>3. /\ Len(told[c]) \in Nat /\ Len(replies[c]) \in Nat /\ read[c] \in Nat
        /\ (told[c] = <<>> <=> Len(told[c]) = 0)
    BY <1>1, Lengths DEF CInv, ProgramTypes
  <1>4. told[c] # <<>> /\ Turn(c)
    BY ReadsLast
  <1>5. /\ inbox[c] = <<>> /\ read[c] = Len(replies[c]) /\ Len(told[c]) = Len(replies[c]) + 1
        /\ Len(replies[c]) > 0 /\ (quit_option_on[c] => quit[c])
    BY ReadsLast
  <1>6. told[c][read[c] + 1] = replies[c][Len(replies[c])]
    BY ReadsLast
  <1>7. /\ r_status'[c] = StatusOf(replies[c][Len(replies[c])])
        /\ phase'[c] = IF r_status'[c] = "OK" /\ quit_option_on[c] THEN "done" ELSE "prompt"
    BY <1>1, <1>6 DEF React, CInv, ProgramTypes
  <1>8. CASE quit_option_on[c]
    <2>1. phase'[c] = "done"
      BY <1>1, <1>5, <1>7, <1>8 DEF Program, Quitting, StatusOf, Empty, ReplyOf
    <2>2. conn[c] = "closed"
      BY <1>1, <1>3, <1>4, <1>5, <1>8, Lengths
         DEF CInv, IInv, Types, There, Stage, Given, Recorded
    <2> QED BY <1>1, <1>2, <1>4, <1>5, <2>1, <2>2 DEF Program, Quitting, Turn
  <1>9. CASE ~quit_option_on[c]
    <2>1. phase'[c] = "prompt"
      BY <1>7, <1>9
    <2>2. KnowsStatus(c)'
      BY <1>2, <1>5, <1>7 DEF KnowsStatus, StatusOf
    <2> QED BY <1>1, <1>2, <1>3, <1>4, <1>5, <1>9, <2>1, <2>2 DEF Program, Quitting, Turn
  <1> QED BY <1>8, <1>9

\* Nothing is left to read only for one that was never served.
LEMMA NothingIfUnserved ==
  ASSUME CInv, NEW c \in Clients, ReceiveNothing(c), There(c)
  PROVE  told[c] = <<>>
  <1> SUFFICES ASSUME told[c] # <<>> PROVE FALSE
    OBVIOUS
  <1>1. /\ c \in Admins /\ Program(c) /\ phase[c] = "waiting" /\ conn[c] = "closed"
        /\ read[c] = Len(told[c]) /\ Len(told[c]) < MaxTold
    BY ClientsAssumption DEF CInv, There, ReceiveNothing, Gone
  <1>2. Turn(c) /\ quit[c] /\ inbox[c] = <<>>
    BY <1>1 DEF Program, Quitting
  <1>3. /\ Len(inbox[c]) = 0 /\ Len(replies[c]) \in Nat /\ Len(told[c]) \in Nat /\ MaxTold \in Nat
        /\ greeted[c]
    BY <1>1, <1>2, Lengths, InboxLengths DEF CInv, There
  <1>4. Len(told[c]) = Len(replies[c]) + 1
    BY <1>1, <1>3 DEF CInv, There, IInv, Stage, Given, Recorded
  <1> QED BY <1>1, <1>2, <1>3, <1>4 DEF Turn

LEMMA ReceiveNothingProgram ==
  ASSUME CInv, NEW c \in Clients, ReceiveNothing(c), There(c)
  PROVE  Program(c)'
  <1>1. /\ c \in Admins /\ Program(c) /\ phase[c] = "waiting" /\ conn[c] = "closed"
        /\ read[c] = Len(told[c]) /\ Len(told[c]) < MaxTold /\ UNCHANGED <<vars, quit_option_on>>
        /\ phase'[c] \in {"prompt", "done", "killed"}
    BY ClientsAssumption DEF CInv, There, ReceiveNothing, Gone, React, ProgramTypes
  <1>2. UNCHANGED <<conn, told, inbox, quit, replies>>
    BY <1>1 DEF vars, session, history
  <1>3. told[c] = <<>>
    BY NothingIfUnserved
  <1> QED BY <1>1, <1>2, <1>3 DEF Program, Quitting

-----------------------------------------------------------------------------
\* What the service does for one administrator it does to no other program.
LEMMA ServedAlone ==
  ASSUME CInv, NEW a \in Admins, ServerNext(a), UNCHANGED program_vars, NEW d \in Clients, d # a
  PROVE  SameProgram(d) /\ (There(d)' => There(d))
  <1>1. ~died /\ left' = left
    BY DEF ServerNext, Handler, Accept, ReadRequest, ReadNothing, Sent, NotSent, Quit, Event
  <1>2. d \in Admins
    BY ClientsAssumption
  <1>3. /\ conn'[d] = conn[d] /\ told'[d] = told[d] /\ inbox'[d] = inbox[d]
        /\ quit'[d] = quit[d] /\ replies'[d] = replies[d]
    <2> USE <1>2 DEF CInv, IInv, Types, ProgramTypes, history
    <2>1. CASE Accept(a)
      BY <2>1 DEF Accept
    <2>2. CASE ReadRequest(a)
      BY <2>2 DEF ReadRequest
    <2>3. CASE ReadNothing(a)
      BY <2>3 DEF ReadNothing
    <2>4. CASE Sent(a)
      BY <2>4 DEF Sent, Receives
    <2>5. CASE NotSent(a)
      BY <2>5 DEF NotSent
    <2>6. CASE Quit(a)
      BY <2>6 DEF Quit, Receives
    <2> QED BY <2>1, <2>2, <2>3, <2>4, <2>5, <2>6 DEF ServerNext, Handler
  <1> QED BY <1>1, <1>3 DEF SameProgram, There, program_vars

LEMMA ServerCInv ==
  ASSUME SendFails = FALSE, CInv, IInv', NEW a \in Admins, ServerNext(a), UNCHANGED program_vars
  PROVE  CInv'
  <1>1. ProgramTypes'
    <2>1. inbox' \in [Admins -> Seq(Requests)]
      <3>1. ASSUME ReadRequest(a) PROVE inbox' \in [Admins -> Seq(Requests)]
        <4>1. /\ inbox \in [Admins -> Seq(Requests)] /\ inbox[a] # <<>>
              /\ inbox' = [inbox EXCEPT ![a] = Tail(inbox[a])]
          BY <3>1 DEF ReadRequest, CInv, ProgramTypes
        <4>2. Tail(inbox[a]) \in Seq(Requests)
          BY <4>1
        <4> QED BY <4>1, <4>2
      <3>2. ASSUME ~ReadRequest(a) PROVE UNCHANGED inbox
        BY <3>2 DEF ServerNext, Handler, Accept, ReadNothing, Sent, NotSent, Quit
      <3> QED BY <3>1, <3>2 DEF CInv, ProgramTypes
    <2> QED BY <2>1 DEF CInv, ProgramTypes, program_vars
  <1>2. ~died /\ left' = left
    BY DEF ServerNext, Handler, Accept, ReadRequest, ReadNothing, Sent, NotSent, Quit, Event
  <1>3. ASSUME NEW d \in Clients, d # a PROVE SameProgram(d) /\ (There(d)' => There(d))
    BY <1>3, ServedAlone
  <1>4. ASSUME a \in Clients, There(a)' PROVE Program(a)'
    <2>1. There(a)
      BY <1>2, <1>4 DEF There
    <2>2. ~ReadNothing(a) /\ ~NotSent(a)
      BY <2>1 DEF There, ReadNothing, NotSent
    <2> QED BY <1>4, <2>1, <2>2, AcceptProgram, ReadRequestProgram, SentProgram, QuitProgram
            DEF ServerNext, Handler
  <1>5. CASE a \in Clients
    BY <1>1, <1>3, <1>4, <1>5, OneProgram
  <1>6. CASE a \notin Clients
    BY <1>1, <1>3, <1>6, SameProgramKeeps DEF CInv, There
  <1> QED BY <1>5, <1>6

LEMMA ProgramCInv ==
  ASSUME CInv, IInv', NEW c \in Clients, Person(c) \/ Reads(c)
  PROVE  CInv'
  <1>1. c \in Admins /\ (Help(c) \/ Refuse(c) \/ UserLeaves(c) \/ ReceiveWelcome(c) \/ Receive(c)
        \/ ReceiveNothing(c) \/ \E r \in Requests : Command(c, r))
    BY ClientsAssumption DEF Person, Reads
  <1>2. /\ UNCHANGED <<conn, told, quit, replies, died>> /\ left' \in {left, left \cup {c}}
        /\ \/ UNCHANGED inbox
           \/ \E r \in Requests : inbox' = [inbox EXCEPT ![c] = Append(@, r)]
    <2>1. CASE \E r \in Requests : Command(c, r)
      BY <2>1 DEF Command, Sending, SendRequest, vars, session, history
    <2>2. CASE UserLeaves(c)
      BY <2>2 DEF UserLeaves, AdminLeaves, session, history
    <2>3. CASE Help(c) \/ Refuse(c) \/ ReceiveWelcome(c) \/ Receive(c) \/ ReceiveNothing(c)
      BY <2>3 DEF Help, Refuse, ReceiveWelcome, Receive, ReceiveNothing, vars, session, history
    <2> QED BY <1>1, <2>1, <2>2, <2>3
  <1> DEFINE Typed == /\ phase' \in [Clients -> Phases] /\ quit_option_on' \in [Clients -> BOOLEAN]
                      /\ DOMAIN r_status' = Clients /\ read' \in [Clients -> Nat]
             Kept(d) == /\ phase'[d] = phase[d] /\ quit_option_on'[d] = quit_option_on[d]
                        /\ r_status'[d] = r_status[d] /\ read'[d] = read[d]
  <1>3. Typed /\ \A d \in Clients \ {c} : Kept(d)
    <2> USE DEF CInv, ProgramTypes, Phases
    <2>1. CASE \E r \in Requests : Command(c, r)
      BY <2>1 DEF Command
    <2>2. CASE UserLeaves(c)
      BY <2>2 DEF UserLeaves
    <2>3. CASE Help(c) \/ Refuse(c)
      BY <2>3 DEF Help, Refuse, React
    <2>4. CASE ReceiveWelcome(c)
      <3>1. Len(told[c]) \in Nat
        BY <1>1, Lengths
      <3> QED BY <2>4, <3>1 DEF ReceiveWelcome
    <2>5. CASE Receive(c)
      BY <2>5 DEF Receive, React
    <2>6. CASE ReceiveNothing(c)
      BY <2>6 DEF ReceiveNothing, React
    <2> QED BY <1>1, <2>1, <2>2, <2>3, <2>4, <2>5, <2>6
  <1>4. inbox' \in [Admins -> Seq(Requests)] /\ \A d \in Clients \ {c} : inbox'[d] = inbox[d]
    <2>1. ASSUME NEW r \in Requests, inbox' = [inbox EXCEPT ![c] = Append(@, r)]
          PROVE  inbox' \in [Admins -> Seq(Requests)]
      <3>1. Append(inbox[c], r) \in Seq(Requests)
        BY <1>1 DEF CInv, ProgramTypes
      <3> QED BY <2>1, <3>1 DEF CInv, ProgramTypes
    <2> QED BY <1>1, <1>2, <2>1, ClientsAssumption DEF CInv, ProgramTypes
  <1>5. ProgramTypes' /\ \A d \in Clients \ {c} : SameProgram(d) /\ (There(d)' => There(d))
    BY <1>2, <1>3, <1>4 DEF ProgramTypes, SameProgram, There
  <1>6. ASSUME There(c)' PROVE Program(c)'
    <2>1. There(c)
      BY <1>2, <1>6 DEF There
    <2>2. ~UserLeaves(c)
      BY <1>6 DEF There, UserLeaves, AdminLeaves
    <2> QED BY <1>1, <2>1, <2>2, UnsentProgram, ReceiveWelcomeProgram, ReceiveProgram,
               ReceiveNothingProgram, CommandProgram
  <1> QED BY <1>5, <1>6, OneProgram

LEMMA OthersCInv ==
  ASSUME CInv, IInv', NEW a \in Admins \ Clients, AdminSend(a) \/ AdminLeaves(a),
         UNCHANGED program_vars
  PROVE  CInv'
  <1>1. /\ UNCHANGED <<conn, told, quit, replies, died>> /\ left' \in {left, left \cup {a}}
        /\ \/ UNCHANGED inbox
           \/ \E r \in Requests : inbox' = [inbox EXCEPT ![a] = Append(@, r)]
    BY DEF AdminSend, SendRequest, AdminLeaves, session, history
  <1>2. inbox' \in [Admins -> Seq(Requests)]
    <2>1. ASSUME NEW r \in Requests, inbox' = [inbox EXCEPT ![a] = Append(@, r)]
          PROVE  inbox' \in [Admins -> Seq(Requests)]
      <3>1. Append(inbox[a], r) \in Seq(Requests)
        BY DEF CInv, ProgramTypes
      <3> QED BY <2>1, <3>1 DEF CInv, ProgramTypes
    <2> QED BY <1>1, <2>1 DEF CInv, ProgramTypes
  <1>3. ASSUME NEW d \in Clients PROVE SameProgram(d) /\ (There(d)' => There(d))
    BY <1>1, ClientsAssumption DEF CInv, ProgramTypes, SameProgram, There, program_vars
  <1>4. ProgramTypes'
    BY <1>2 DEF CInv, ProgramTypes, program_vars
  <1> QED BY <1>3, <1>4, SameProgramKeeps DEF CInv, There

LEMMA InitCInv == ClientInit => CInv
  <1> SUFFICES ASSUME ClientInit PROVE CInv
    OBVIOUS
  <1>1. IInv /\ inbox = [a \in Admins |-> <<>>] /\ replies = [a \in Admins |-> <<>>]
        /\ told = [a \in Admins |-> <<>>] /\ quit = [a \in Admins |-> FALSE]
    BY InitIInv DEF ClientInit, Init
  <1>2. ProgramTypes
    BY <1>1 DEF ClientInit, ProgramTypes, Phases
  <1>3. \A c \in Clients : Program(c)
    BY <1>1, ClientsAssumption DEF ClientInit, Program, Quitting
  <1> QED BY <1>1, <1>2, <1>3 DEF CInv

LEMMA NextCInv ==
  ASSUME SendFails = FALSE, CInv, [ClientNext]_clientVars
  PROVE  CInv'
  <1>1. IInv'
    BY ProgramIsAdmin, NextIInv DEF CInv
  <1>2. CASE UNCHANGED clientVars
    <2>1. UNCHANGED <<inbox, left, died>> /\ \A c \in Clients : SameProgram(c)
      BY <1>2 DEF clientVars, vars, session, history, program_vars, SameProgram
    <2>2. ProgramTypes'
      BY <1>2, <2>1 DEF CInv, ProgramTypes, clientVars, program_vars
    <2> QED BY <1>1, <2>1, <2>2, SameProgramKeeps DEF CInv
  <1>3. ASSUME NEW c \in Clients, Person(c) \/ Reads(c) PROVE CInv'
    BY <1>1, <1>3, ProgramCInv
  <1>4. CASE Others /\ UNCHANGED program_vars
    BY <1>1, <1>4, ServerCInv, OthersCInv DEF Others
  <1> QED BY <1>2, <1>3, <1>4 DEF ClientNext

\* Program (communicate_with_proxy, handle_receive_msg) and service (admin_read,
\* admin_write) agree on whose turn it is, for any number of people and of other
\* administrators and whatever those ask: no reply is left behind or read as the
\* answer to another command.
THEOREM Lockstep ==
  ASSUME SendFails = FALSE
  PROVE  ClientSpec => []InLockstep
  <1>1. CInv => InLockstep
    <2> SUFFICES ASSUME CInv, NEW c \in Clients, Served(c), phase[c] # "connecting"
                 PROVE  LET replied == Len(replies[c])
                            sent    == replied + Len(inbox[c])
                        IN  /\ phase[c] = "prompt" =>
                                 inbox[c] = <<>> /\ read[c] = Len(told[c]) /\ read[c] = 1 + sent
                                 /\ KnowsStatus(c)
                            /\ phase[c] = "waiting" => read[c] = sent
                            /\ phase[c] = "done" => conn[c] = "closed" /\ sent = replied
      BY DEF InLockstep, KnowsStatus
    <2>1. c \in Admins /\ There(c) /\ Program(c) /\ told[c] # <<>>
      BY ClientsAssumption DEF CInv, Served, There
    <2>2. Quitting(c) /\ Turn(c)
      BY <2>1 DEF Program
    <2>3. Len(replies[c]) \in Nat /\ Len(inbox[c]) \in Nat /\ (inbox[c] = <<>> => Len(inbox[c]) = 0)
      BY <2>1, Lengths, InboxLengths DEF CInv
    <2>4. phase[c] \in {"prompt", "done"} => inbox[c] = <<>>
      BY <2>1, <2>2 DEF Quitting
    <2>5. CASE phase[c] = "prompt"
      <3>1. read[c] = Len(told[c]) /\ read[c] = 1 + Len(replies[c]) /\ KnowsStatus(c)
        BY <2>2, <2>5 DEF Turn
      <3>2. Len(replies[c]) + Len(inbox[c]) = Len(replies[c])
        <4>1. Len(inbox[c]) = 0
          BY <2>3, <2>4, <2>5
        <4> QED BY <2>3, <4>1, NoneMore
      <3> QED BY <2>4, <2>5, <3>1, <3>2
    <2>6. CASE phase[c] # "prompt"
      <3>1. /\ phase[c] = "waiting" => read[c] = Len(replies[c]) + Len(inbox[c])
            /\ phase[c] = "done" => conn[c] = "closed"
        BY <2>2 DEF Turn
      <3>2. phase[c] = "done" => Len(replies[c]) + Len(inbox[c]) = Len(replies[c])
        <4> SUFFICES ASSUME phase[c] = "done" PROVE Len(replies[c]) + Len(inbox[c]) = Len(replies[c])
          OBVIOUS
        <4>1. Len(inbox[c]) = 0
          BY <2>3, <2>4
        <4> QED BY <2>3, <4>1, NoneMore
      <3> QED BY <2>6, <3>1, <3>2
    <2> QED BY <2>5, <2>6
  <1>2. CInv /\ [ClientNext]_clientVars => CInv'
    BY NextCInv
  <1> QED BY <1>1, <1>2, InitCInv, PTL DEF ClientSpec

-----------------------------------------------------------------------------
(* Whom the program takes for authenticated.                               *)

HasAuth(c) == \E i \in 1..Len(answers) : /\ answers[i].admin = c /\ answers[i].req.cmd = "auth"
                                         /\ answers[i].reply.status = 1

\* Nothing has let the user in: short of a QUIT only passwords were sent, every
\* one was refused, and the status at the prompt is not that of a success.
Unproven(c) ==
  /\ a_status[c] = "ST_AUTH"
  /\ ~quit_option_on[c] =>
       /\ \A i \in 1..Len(inbox[c]) : inbox[c][i].cmd = "auth"
       /\ \A i \in 1..Len(replies[c]) : replies[c][i].status # 1
       /\ opening[c] # "none" /\ phase[c] = "prompt" => r_status[c] # "OK"

Known(c)  == HasAuth(c) \/ opening[c] = "help" \/ Unproven(c)
Fresh(c)  == phase[c] = "connecting" => a_status[c] = "ST_AUTH" /\ opening[c] = "none"
AuthTypes == IsSeq(answers) /\ DOMAIN opening = Clients /\ DOMAIN a_status = Clients

AuthInv == /\ CInv /\ AuthTypes
           /\ \A c \in Clients : Fresh(c) /\ (Served(c) => Known(c))

SameUser(c) == a_status'[c] = a_status[c] /\ opening'[c] = opening[c]

\* The answers are a history.
LEMMA AnswersGrow ==
  ASSUME IsSeq(answers), UNCHANGED answers \/ \E x : answers' = Append(answers, x)
  PROVE  IsSeq(answers') /\ \A c : HasAuth(c) => HasAuth(c)'
  <1>1. CASE UNCHANGED answers
    BY <1>1 DEF HasAuth
  <1>2. CASE \E x : answers' = Append(answers, x)
    <2>1. PICK x : answers' = Append(answers, x)
      BY <1>2
    <2>2. /\ IsSeq(answers') /\ Len(answers) \in Nat /\ Len(answers') = Len(answers) + 1
          /\ \A i \in 1..Len(answers) : answers'[i] = answers[i]
      BY <2>1, AppendIsSeq
    <2>3. \A i \in 1..Len(answers) : i \in 1..Len(answers')
      BY <2>2
    <2> QED BY <2>2, <2>3 DEF HasAuth
  <1> QED BY <1>1, <1>2

\* Only a request that is read adds an answer.
LEMMA AnswersStep ==
  ASSUME [ClientNext]_clientVars
  PROVE  UNCHANGED answers \/ \E x : answers' = Append(answers, x)
  <1>1. CASE UNCHANGED vars
    BY <1>1 DEF vars, history
  <1>2. ASSUME NEW a \in Admins, AdminSend(a) \/ AdminLeaves(a) PROVE UNCHANGED answers
    BY <1>2 DEF AdminSend, SendRequest, AdminLeaves, history
  <1>3. ASSUME NEW a \in Admins, ServerNext(a)
        PROVE  UNCHANGED answers \/ \E x : answers' = Append(answers, x)
    <2>1. CASE ReadRequest(a)
      BY <2>1 DEF ReadRequest
    <2>2. CASE ~ReadRequest(a)
      BY <1>3, <2>2 DEF ServerNext, Handler, Accept, ReadNothing, Sent, NotSent, Quit, history
    <2> QED BY <2>1, <2>2
  <1>4. [Next]_vars
    BY ProgramIsAdmin
  <1> QED BY <1>1, <1>2, <1>3, <1>4 DEF Next

LEMMA UserKeeps ==
  ASSUME NEW c \in Clients, SameUser(c), phase'[c] = phase[c], r_status'[c] = r_status[c],
         quit_option_on'[c] = quit_option_on[c], inbox'[c] = inbox[c], replies'[c] = replies[c],
         HasAuth(c) => HasAuth(c)'
  PROVE  (Fresh(c) => Fresh(c)') /\ (Known(c) => Known(c)')
  BY DEF SameUser, Fresh, Known, Unproven

\* A request takes effect: the right password lets the user in, and is recorded.
LEMMA ReadRequestUser ==
  ASSUME AuthInv, NEW c \in Clients, ReadRequest(c), UNCHANGED program_vars, Served(c),
         HasAuth(c) => HasAuth(c)'
  PROVE  Known(c)'
  <1>1. /\ Known(c) /\ c \in Admins /\ inbox[c] # <<>> /\ inbox \in [Admins -> Seq(Requests)]
        /\ IsSeq(replies[c]) /\ IsSeq(answers) /\ DOMAIN replies = Admins
    BY ClientsAssumption DEF AuthInv, AuthTypes, ReadRequest, CInv, ProgramTypes, IInv, Types, Told
  <1>2. PICK e \in Effects(Head(inbox[c])) :
          /\ answers' = Append(answers, [admin |-> c, req |-> Head(inbox[c]), reply |-> e.reply])
          /\ replies' = [replies EXCEPT ![c] = Append(@, e.reply)]
          /\ inbox' = [inbox EXCEPT ![c] = Tail(@)]
    BY DEF ReadRequest
  <1>3. /\ a_status' = a_status /\ opening' = opening /\ phase' = phase /\ r_status' = r_status
        /\ quit_option_on' = quit_option_on
    BY DEF program_vars
  <1>4. CASE ~Unproven(c) \/ quit_option_on[c]
    BY <1>1, <1>3, <1>4 DEF Known, Unproven
  <1>5. CASE Unproven(c) /\ ~quit_option_on[c]
    <2>1. PICK b : b = inbox[c]
      OBVIOUS
    <2>2. b \in Seq(Requests) /\ b # <<>> /\ Len(b) \in Nat /\ Len(b) > 0
      BY <1>1, <2>1, EmptySeq
    <2>3. Head(b) = b[1] /\ Len(Tail(b)) = Len(b) - 1 /\ \A i \in 1..Len(Tail(b)) : Tail(b)[i] = b[i + 1]
      BY <2>2, HeadTailProperties
    <2>4. \A i \in 1..Len(b) : b[i].cmd = "auth"
      BY <1>5, <2>1 DEF Unproven
    <2>5. Head(b).cmd = "auth" /\ \A i \in 1..Len(Tail(b)) : Tail(b)[i].cmd = "auth"
      <3>1. 1 \in 1..Len(b) /\ \A i \in 1..Len(Tail(b)) : i + 1 \in 1..Len(b)
        BY <2>2, <2>3
      <3> QED BY <2>3, <2>4, <3>1
    <2>6. inbox'[c] = Tail(b) /\ replies'[c] = Append(replies[c], e.reply)
      BY <1>1, <1>2, <2>1
    <2>7. CASE e.reply.status = 1
      <3>1. /\ Len(answers) \in Nat /\ Len(answers') = Len(answers) + 1
            /\ answers'[Len(answers) + 1] = [admin |-> c, req |-> Head(b), reply |-> e.reply]
        BY <1>1, <1>2, <2>1, AppendIsSeq
      <3>2. Len(answers) + 1 \in 1..Len(answers')
        BY <3>1
      <3> QED BY <2>5, <2>7, <3>1, <3>2 DEF Known, HasAuth
    <2>8. CASE e.reply.status # 1
      <3>1. /\ Len(replies[c]) \in Nat /\ Len(replies'[c]) = Len(replies[c]) + 1
            /\ replies'[c][Len(replies[c]) + 1] = e.reply
            /\ \A i \in 1..Len(replies[c]) : replies'[c][i] = replies[c][i]
        BY <1>1, <2>6, AppendIsSeq
      <3>2. ASSUME NEW i \in 1..Len(replies'[c]) PROVE replies'[c][i].status # 1
        <4>1. i \in 1..Len(replies[c]) \/ i = Len(replies[c]) + 1
          BY <3>1
        <4> QED BY <1>5, <2>8, <3>1, <4>1 DEF Unproven
      <3>3. inbox'[c] = Tail(b) /\ Unproven(c)
        BY <1>5, <2>6
      <3> QED BY <1>3, <2>5, <3>2, <3>3 DEF Known, Unproven
    <2> QED BY <2>7, <2>8
  <1> QED BY <1>4, <1>5

\* The welcome comes to a program that has done nothing yet.
LEMMA WelcomeUser ==
  ASSUME AuthInv, NEW c \in Clients, Sent(c) \/ Quit(c), UNCHANGED program_vars, There(c), told[c] = <<>>
  PROVE  Unproven(c)'
  <1>1. /\ c \in Admins /\ Program(c) /\ Fresh(c) /\ conn[c] = "registered" /\ UNCHANGED <<inbox, replies>>
    BY ClientsAssumption DEF AuthInv, CInv, There, Sent, Quit, Event, history
  <1>2. phase[c] = "connecting"
    BY <1>1 DEF Program
  <1>3. inbox[c] = <<>> /\ replies[c] = <<>> /\ a_status[c] = "ST_AUTH"
    BY <1>1, <1>2 DEF Program, Fresh
  <1>4. Len(inbox'[c]) = 0 /\ Len(replies'[c]) = 0
    BY <1>1, <1>3, EmptySeq
  <1> QED BY <1>1, <1>2, <1>3, <1>4 DEF Unproven, program_vars

LEMMA ServerUser ==
  ASSUME SendFails = FALSE, AuthInv, NEW a \in Admins, ServerNext(a), UNCHANGED program_vars,
         NEW c \in Clients, Served(c)', HasAuth(c) => HasAuth(c)'
  PROVE  Known(c)'
  <1>1. SameUser(c) /\ phase'[c] = phase[c] /\ r_status'[c] = r_status[c] /\ quit_option_on'[c] = quit_option_on[c]
    BY DEF program_vars, SameUser
  <1>2. There(c) /\ CInv /\ c \in Admins /\ IInv /\ ProgramTypes
    <2>1. ~died /\ left' = left
      BY DEF ServerNext, Handler, Accept, ReadRequest, ReadNothing, Sent, NotSent, Quit, Event
    <2> QED BY <2>1, ClientsAssumption DEF There, Served, AuthInv, CInv
  <1>3. ASSUME Served(c), inbox'[c] = inbox[c], replies'[c] = replies[c] PROVE Known(c)'
    BY <1>1, <1>3, UserKeeps DEF AuthInv
  <1>4. CASE c # a
    <2>1. SameProgram(c)
      BY <1>2, <1>4, ServedAlone
    <2>2. Served(c)
      BY <1>2, <2>1 DEF Served, There, SameProgram
    <2> QED BY <1>3, <2>1, <2>2 DEF SameProgram
  <1>5. CASE c = a
    <2>1. ~ReadNothing(a) /\ ~NotSent(a)
      BY <1>2, <1>5 DEF There, ReadNothing, NotSent
    <2>2. CASE Accept(a)
      BY <1>2, <1>3, <2>2 DEF Accept, history, Served, There
    <2>3. CASE ReadRequest(a)
      <3>1. Served(c)
        BY <1>2, <2>3 DEF ReadRequest, Served, There
      <3> QED BY <1>5, <2>3, <3>1, ReadRequestUser
    <2>4. CASE Sent(a) \/ Quit(a)
      <3>1. UNCHANGED <<inbox, replies>>
        BY <2>4 DEF Sent, Quit, history
      <3>2. CASE told[c] = <<>>
        BY <1>2, <1>5, <2>4, <3>2, WelcomeUser DEF Known
      <3>3. CASE told[c] # <<>>
        BY <1>2, <1>3, <3>1, <3>3 DEF Served, There
      <3> QED BY <3>2, <3>3
    <2> QED BY <2>1, <2>2, <2>3, <2>4 DEF ServerNext, Handler
  <1> QED BY <1>4, <1>5

\* What a program's step does for no other.
LEMMA UserAlone ==
  ASSUME AuthInv, NEW c \in Clients, Person(c) \/ Reads(c), NEW d \in Clients, d # c
  PROVE  /\ SameUser(d) /\ phase'[d] = phase[d] /\ r_status'[d] = r_status[d]
         /\ quit_option_on'[d] = quit_option_on[d] /\ inbox'[d] = inbox[d]
         /\ replies'[d] = replies[d] /\ told'[d] = told[d] /\ (There(d)' => There(d))
  <1>1. /\ DOMAIN opening = Clients /\ DOMAIN a_status = Clients /\ DOMAIN r_status = Clients
        /\ phase \in [Clients -> Phases] /\ quit_option_on \in [Clients -> BOOLEAN]
        /\ inbox \in [Admins -> Seq(Requests)] /\ d \in Admins /\ c \in Admins
    BY ClientsAssumption DEF AuthInv, AuthTypes, CInv, ProgramTypes
  <1>2. CASE \E r \in Requests : Command(c, r)
    <2>1. PICK r \in Requests : Command(c, r)
      BY <1>2
    <2>2. /\ opening'[d] = opening[d] /\ a_status' = a_status /\ r_status' = r_status
          /\ phase'[d] = phase[d] /\ quit_option_on'[d] = quit_option_on[d]
      BY <1>1, <2>1 DEF Command, Opens
    <2>3. inbox'[d] = inbox[d] /\ UNCHANGED <<replies, told, left, died>>
      BY <1>1, <2>1 DEF Command, Sending, SendRequest, vars, session, history
    <2> QED BY <2>2, <2>3 DEF SameUser, There
  <1>3. CASE UserLeaves(c)
    BY <1>1, <1>3 DEF UserLeaves, AdminLeaves, SameUser, session, history, There
  <1>4. CASE Help(c) \/ Refuse(c) \/ ReceiveWelcome(c) \/ Receive(c) \/ ReceiveNothing(c)
    <2>1. UNCHANGED <<inbox, replies, told, left, died, quit_option_on>>
      BY <1>4 DEF Help, Refuse, ReceiveWelcome, Receive, ReceiveNothing, vars, session, history
    <2>2. /\ opening'[d] = opening[d] /\ a_status'[d] = a_status[d] /\ r_status'[d] = r_status[d]
          /\ phase'[d] = phase[d]
      BY <1>1, <1>4 DEF Help, Refuse, ReceiveWelcome, Receive, ReceiveNothing, React, Opens
    <2> QED BY <2>1, <2>2 DEF SameUser, There
  <1> QED BY <1>2, <1>3, <1>4 DEF Person, Reads

\* A program's own step: HELP apart, it takes a success for a password's only.
LEMMA OwnUser ==
  ASSUME AuthInv, NEW c \in Clients, Person(c) \/ Reads(c), Served(c)', HasAuth(c) => HasAuth(c)'
  PROVE  Known(c)'
  <1>1. /\ DOMAIN opening = Clients /\ DOMAIN a_status = Clients /\ DOMAIN r_status = Clients
        /\ phase \in [Clients -> Phases] /\ quit_option_on \in [Clients -> BOOLEAN]
        /\ inbox \in [Admins -> Seq(Requests)] /\ c \in Admins /\ CInv
    BY ClientsAssumption DEF AuthInv, AuthTypes, CInv, ProgramTypes
  <1>2. /\ ~UserLeaves(c) /\ Served(c) /\ There(c) /\ told[c] # <<>> /\ UNCHANGED <<told, replies>>
    <2>1. ~UserLeaves(c)
      BY DEF UserLeaves, AdminLeaves, Served
    <2>2. UNCHANGED <<told, replies, left, died>>
      <3>1. CASE \E r \in Requests : Command(c, r)
        BY <3>1 DEF Command, Sending, SendRequest, vars, session, history
      <3>2. CASE Help(c) \/ Refuse(c) \/ Reads(c)
        BY <3>2 DEF Help, Refuse, Reads, ReceiveWelcome, Receive, ReceiveNothing, vars, session, history
      <3> QED BY <2>1, <3>1, <3>2 DEF Person
    <2> QED BY <2>1, <2>2 DEF Served, There
  <1>3. Known(c) /\ Program(c) /\ Fresh(c)
    BY <1>1, <1>2 DEF AuthInv, CInv, There
  <1>4. opening[c] = "help" => opening'[c] = "help"
    BY <1>1 DEF Person, Reads, Help, Refuse, UserLeaves, Command, ReceiveWelcome, Receive,
                ReceiveNothing, Opens
  <1>5. SUFFICES ASSUME Unproven(c), opening[c] # "help" PROVE Known(c)'
    BY <1>3, <1>4 DEF Known
  <1>6. CASE Help(c)
    <2>1. /\ phase[c] = "prompt" /\ UNCHANGED <<inbox, replies, quit_option_on>>
          /\ React(c, r_status[c], quit_option_on[c]) /\ Opens(c, "help")
      BY <1>6 DEF Help, vars, session, history
    <2>2. CASE opening[c] = "none"
      BY <1>1, <2>1, <2>2 DEF Opens, Known
    <2>3. CASE opening[c] # "none"
      <3>1. ~quit_option_on[c] => r_status[c] # "OK"
        BY <1>5, <2>1, <2>3 DEF Unproven
      <3>2. a_status'[c] = a_status[c] /\ r_status'[c] = r_status[c]
        BY <1>1, <2>1, <3>1 DEF React
      <3> QED BY <1>5, <2>1, <3>1, <3>2 DEF Known, Unproven
    <2> QED BY <2>2, <2>3
  <1>7. CASE Refuse(c)
    <2>1. /\ UNCHANGED <<inbox, replies, quit_option_on>> /\ React(c, "NOT_SEND", quit_option_on[c])
      BY <1>7 DEF Refuse, StatusUnsent, vars, session, history
    <2>2. a_status'[c] = a_status[c] /\ r_status'[c] = "NOT_SEND"
      BY <1>1, <2>1 DEF React
    <2> QED BY <1>5, <2>1, <2>2 DEF Known, Unproven
  <1>8. CASE \E r \in Requests : Command(c, r)
    <2>1. PICK r \in Requests : Command(c, r)
      BY <1>8
    <2>2. /\ phase'[c] # "prompt" /\ quit_option_on'[c] = (quit_option_on[c] \/ r.cmd = "quit")
          /\ UNCHANGED <<a_status, r_status>> /\ Knows(a_status[c], r.cmd)
      BY <1>1, <2>1 DEF Command
    <2>3. r.cmd \in {"auth", "quit"}
      BY <1>5, <2>2 DEF Unproven, Knows
    <2>4. inbox'[c] = inbox[c] \/ inbox'[c] = Append(inbox[c], r)
      BY <1>1, <2>1 DEF Command, Sending, SendRequest, vars
    <2>5. ASSUME ~quit_option_on'[c] PROVE \A i \in 1..Len(inbox'[c]) : inbox'[c][i].cmd = "auth"
      <3>1. r.cmd = "auth" /\ \A i \in 1..Len(inbox[c]) : inbox[c][i].cmd = "auth"
        BY <1>5, <2>2, <2>3, <2>5 DEF Unproven
      <3>2. CASE inbox'[c] = Append(inbox[c], r)
        <4>1. PICK b, t : b = inbox[c] /\ t = Append(inbox[c], r)
          OBVIOUS
        <4>2. b \in Seq(Requests) /\ r \in Requests
          BY <1>1, <4>1
        <4>3. /\ Len(b) \in Nat /\ Len(t) = Len(b) + 1 /\ t[Len(b) + 1] = r
              /\ \A i \in 1..Len(b) : t[i] = b[i]
          BY <4>1, <4>2, AppendProperties
        <4>4. ASSUME NEW i \in 1..Len(t) PROVE t[i].cmd = "auth"
          <5>1. i \in 1..Len(b) \/ i = Len(b) + 1
            BY <4>3
          <5> QED BY <3>1, <4>1, <4>3, <5>1
        <4> QED BY <3>2, <4>1, <4>4
      <3> QED BY <2>4, <3>1, <3>2
    <2> QED BY <1>2, <1>5, <2>2, <2>5 DEF Known, Unproven
  <1>9. CASE ReceiveWelcome(c)
    <2>1. /\ phase[c] = "connecting" /\ UNCHANGED <<inbox, a_status, quit_option_on, opening>>
      BY <1>9 DEF ReceiveWelcome, vars
    <2>2. opening[c] = "none"
      BY <1>3, <2>1 DEF Fresh
    <2> QED BY <1>2, <1>5, <2>1, <2>2 DEF Known, Unproven
  <1>10. CASE Receive(c)
    <2>1. /\ UNCHANGED <<inbox, quit_option_on, opening>>
          /\ React(c, StatusOf(told[c][read[c] + 1]), quit_option_on[c])
      BY <1>10 DEF Receive, vars
    <2>2. told[c][read[c] + 1] = replies[c][Len(replies[c])] /\ Len(replies[c]) > 0
      BY <1>1, <1>2, <1>10, ReadsLast
    <2>3. ASSUME ~quit_option_on[c] PROVE StatusOf(told[c][read[c] + 1]) = "ERROR"
      <3>1. Len(replies[c]) \in Nat
        BY <1>1, Lengths DEF CInv
      <3>2. Len(replies[c]) \in 1..Len(replies[c])
        BY <2>2, <3>1
      <3>3. replies[c][Len(replies[c])].status # 1
        BY <1>5, <2>3, <3>2 DEF Unproven
      <3> QED BY <2>2, <3>3 DEF StatusOf
    <2>4. a_status'[c] = a_status[c] /\ (~quit_option_on[c] => r_status'[c] = "ERROR")
      BY <1>1, <2>1, <2>3 DEF React
    <2> QED BY <1>2, <1>5, <2>1, <2>4 DEF Known, Unproven
  <1>11. CASE ReceiveNothing(c)
    BY <1>1, <1>2, <1>11, NothingIfUnserved
  <1> QED BY <1>2, <1>6, <1>7, <1>8, <1>9, <1>10, <1>11 DEF Person, Reads

LEMMA UserTypes ==
  ASSUME AuthInv, [ClientNext]_clientVars
  PROVE  /\ DOMAIN opening' = Clients /\ DOMAIN a_status' = Clients
         /\ \A c \in Clients : Fresh(c)'
  <1>1. /\ DOMAIN opening = Clients /\ DOMAIN a_status = Clients /\ phase \in [Clients -> Phases]
        /\ \A c \in Clients : Fresh(c)
    BY DEF AuthInv, AuthTypes, CInv, ProgramTypes
  <1>2. ASSUME UNCHANGED program_vars
        PROVE  DOMAIN opening' = Clients /\ DOMAIN a_status' = Clients /\ \A c \in Clients : Fresh(c)'
    BY <1>1, <1>2 DEF program_vars, Fresh
  <1>3. ASSUME NEW c \in Clients, Person(c) \/ Reads(c)
        PROVE  DOMAIN opening' = Clients /\ DOMAIN a_status' = Clients /\ \A d \in Clients : Fresh(d)'
    <2>1. DOMAIN opening' = Clients /\ DOMAIN a_status' = Clients
      BY <1>1, <1>3 DEF Person, Reads, Help, Refuse, UserLeaves, Command, ReceiveWelcome, Receive,
                        ReceiveNothing, React, Opens
    <2>2. phase'[c] # "connecting"
      BY <1>1, <1>3 DEF Person, Reads, Help, Refuse, UserLeaves, Command, ReceiveWelcome, Receive,
                        ReceiveNothing, React
    <2>3. ASSUME NEW d \in Clients PROVE Fresh(d)'
      <3>1. CASE d = c
        BY <2>2, <3>1 DEF Fresh
      <3>2. CASE d # c
        <4>1. SameUser(d) /\ phase'[d] = phase[d]
          BY <1>3, <3>2, UserAlone
        <4> QED BY <1>1, <4>1 DEF Fresh, SameUser
      <3> QED BY <3>1, <3>2
    <2> QED BY <2>1, <2>3
  <1> QED BY <1>2, <1>3 DEF ClientNext, clientVars

LEMMA NextAuthInv ==
  ASSUME SendFails = FALSE, AuthInv, [ClientNext]_clientVars
  PROVE  AuthInv'
  <1>1. CInv'
    BY NextCInv DEF AuthInv
  <1>2. AuthTypes' /\ (\A c \in Clients : Fresh(c)') /\ \A c : HasAuth(c) => HasAuth(c)'
    <2>1. UNCHANGED answers \/ \E x : answers' = Append(answers, x)
      BY AnswersStep
    <2>2. IsSeq(answers') /\ \A c : HasAuth(c) => HasAuth(c)'
      BY <2>1, AnswersGrow DEF AuthInv, AuthTypes
    <2> QED BY <2>2, UserTypes DEF AuthTypes
  <1>3. ASSUME NEW c \in Clients, Served(c)' PROVE Known(c)'
    <2>1. HasAuth(c) => HasAuth(c)'
      BY <1>2
    <2>2. CASE UNCHANGED clientVars
      <3>1. Served(c) /\ Known(c)
        BY <1>3, <2>2 DEF clientVars, vars, Served, AuthInv
      <3> QED BY <2>2, <3>1, UserKeeps, <2>1
              DEF clientVars, vars, session, history, program_vars, SameUser
    <2>3. ASSUME NEW a \in Admins, ServerNext(a), UNCHANGED program_vars PROVE Known(c)'
      BY <1>3, <2>1, <2>3, ServerUser
    <2>4. ASSUME NEW a \in Admins \ Clients, AdminSend(a) \/ AdminLeaves(a), UNCHANGED program_vars
          PROVE  Known(c)'
      <3>1. c # a /\ c \in Admins /\ inbox \in [Admins -> Seq(Requests)]
        BY <2>4, ClientsAssumption DEF AuthInv, CInv, ProgramTypes
      <3>2. /\ UNCHANGED <<replies, told, died>> /\ left \subseteq left'
            /\ \/ UNCHANGED inbox
               \/ \E r \in Requests : inbox' = [inbox EXCEPT ![a] = Append(@, r)]
        BY <2>4 DEF AdminSend, SendRequest, AdminLeaves, session, history
      <3>3. inbox'[c] = inbox[c] /\ Served(c)
        BY <1>3, <3>1, <3>2 DEF Served
      <3>4. SameUser(c) /\ UNCHANGED <<phase, r_status, quit_option_on>>
        BY <2>4 DEF SameUser, program_vars
      <3> QED BY <2>1, <3>2, <3>3, <3>4, UserKeeps DEF AuthInv
    <2>5. ASSUME NEW d \in Clients, Person(d) \/ Reads(d) PROVE Known(c)'
      <3>1. CASE d = c
        BY <1>3, <2>1, <2>5, <3>1, OwnUser
      <3>2. CASE d # c
        <4>1. /\ SameUser(c) /\ phase'[c] = phase[c] /\ r_status'[c] = r_status[c]
              /\ quit_option_on'[c] = quit_option_on[c] /\ inbox'[c] = inbox[c]
              /\ replies'[c] = replies[c] /\ told'[c] = told[c] /\ (There(c)' => There(c))
          BY <2>5, <3>2, UserAlone
        <4>2. Served(c)
          BY <1>3, <4>1 DEF Served, There
        <4> QED BY <2>1, <4>1, <4>2, UserKeeps DEF AuthInv
      <3> QED BY <3>1, <3>2
    <2> QED BY <2>2, <2>3, <2>4, <2>5 DEF ClientNext, Others
  <1> QED BY <1>1, <1>2, <1>3 DEF AuthInv

\* The program takes its user for authenticated (communicate_with_proxy sets
\* ST_TRANS behind any status OK) only when AUTH was answered so, for any number
\* of people and whatever the others ask; HELP as the first command apart, which
\* reads the status the program started with.
THEOREM AuthenticatedIsTold ==
  ASSUME SendFails = FALSE
  PROVE  ClientSpec => []AuthenticatedOnceTold
  <1>1. ClientInit => AuthInv
    <2> SUFFICES ASSUME ClientInit PROVE AuthInv
      OBVIOUS
    <2>1. CInv /\ answers = <<>> /\ told = [c \in Admins |-> <<>>] /\ Clients \subseteq Admins
      BY InitCInv, ClientsAssumption DEF ClientInit, Init
    <2>2. AuthTypes /\ \A c \in Clients : Fresh(c)
      BY <2>1, EmptyIsSeq DEF ClientInit, AuthTypes, Fresh
    <2>3. \A c \in Clients : ~Served(c)
      BY <2>1 DEF Served
    <2> QED BY <2>1, <2>2, <2>3 DEF AuthInv
  <1>2. AuthInv /\ [ClientNext]_clientVars => AuthInv'
    BY NextAuthInv
  <1>3. AuthInv => AuthenticatedOnceTold
    BY DEF AuthInv, Known, HasAuth, Unproven, AuthenticatedOnceTold
  <1> QED BY <1>1, <1>2, <1>3, PTL DEF ClientSpec
-----------------------------------------------------------------------------
(* The list of filter_list.c: what its operations are built from.          *)

\* What is left of a sequence behind RemoveAt.
LEMMA RemoveAtIs ==
  ASSUME NEW S, NEW s \in Seq(S), NEW i \in 1..Len(s)
  PROVE  /\ RemoveAt(s, i) \in Seq(S) /\ Len(RemoveAt(s, i)) = Len(s) - 1
         /\ \A k \in 1..(Len(s) - 1) : RemoveAt(s, i)[k] = IF k < i THEN s[k] ELSE s[k + 1]
  <1> DEFINE x == SubSeq(s, 1, i - 1)
             y == SubSeq(s, i + 1, Len(s))
             n == Len(s)
  <1>1. n \in Nat /\ i \in Nat /\ 0 \in Nat /\ i - 1 \in 0..n /\ n \in i..n
    BY LenProperties
  <1>2. x \in Seq(S) /\ Len(x) = i - 1 /\ \A k \in 1..(i - 1) : x[k] = s[k]
    <2>1. /\ SubSeq(s, 0 + 1, i - 1) \in Seq(S) /\ Len(SubSeq(s, 0 + 1, i - 1)) = (i - 1) - 0
          /\ \A k \in 1..((i - 1) - 0) : SubSeq(s, 0 + 1, i - 1)[k] = s[0 + k]
      BY <1>1, Lemmas!Window
    <2> QED BY <2>1, <1>1
  <1>3. y \in Seq(S) /\ Len(y) = n - i /\ \A k \in 1..(n - i) : y[k] = s[i + k]
    BY <1>1, Lemmas!Window
  <1> HIDE DEF x, y
  <1>4. /\ x \o y \in Seq(S) /\ Len(x \o y) = n - 1
        /\ \A k \in 1..(n - 1) : (x \o y)[k] = IF k < i THEN x[k] ELSE y[k - (i - 1)]
    <2>1. /\ x \o y \in Seq(S) /\ Len(x \o y) = Len(x) + Len(y)
          /\ \A k \in 1..(Len(x) + Len(y)) :
               (x \o y)[k] = IF k <= Len(x) THEN x[k] ELSE y[k - Len(x)]
      BY <1>2, <1>3, ConcatProperties
    <2> QED BY <2>1, <1>1, <1>2, <1>3
  <1>5. ASSUME NEW k \in 1..(n - 1)
        PROVE  (x \o y)[k] = IF k < i THEN s[k] ELSE s[k + 1]
    <2>1. CASE k < i
      <3>1. k \in 1..(i - 1)
        BY <1>1, <2>1
      <3> QED BY <3>1, <2>1, <1>2, <1>4
    <2>2. CASE ~(k < i)
      <3>1. k - (i - 1) \in 1..(n - i) /\ i + (k - (i - 1)) = k + 1
        BY <1>1, <2>2
      <3> QED BY <3>1, <2>2, <1>3, <1>4
    <2> QED BY <2>1, <2>2
  <1> QED BY <1>4, <1>5 DEF RemoveAt, x, y

\* RemoveFirst is RemoveAt at some place of the element.
LEMMA RemoveFirstIs ==
  ASSUME NEW S, NEW s \in Seq(S), NEW e, Contains(s, e)
  PROVE  \E k \in 1..Len(s) : s[k] = e /\ RemoveFirst(s, e) = RemoveAt(s, k)
  <1> DEFINE I == {i \in 1..Len(s) : s[i] = e}
  <1>1. I # {} /\ I \subseteq Nat
    BY LenProperties DEF Contains
  <1>2. \E m \in I : \A n \in I : m <= n
    BY <1>1, Lemmas!Least
  <1>3. Min(I) \in I
    BY <1>2 DEF Min
  <1>4. SelectInSeq(s, LAMBDA v : v = e) = Min(I)
    BY <1>1 DEF SelectInSeq
  <1>5. RemoveFirst(s, e) = RemoveAt(s, Min(I))
    BY <1>4 DEF RemoveFirst, Contains
  <1> QED BY <1>3, <1>5

-----------------------------------------------------------------------------
(* The list of types, whatever is done to it.                              *)

\* A wildcard is a mark, never one of the subtypes.
TypedNode(n) == /\ n \in Nodes /\ (n.wildcard => n.subs = <<>>)
                /\ ~Contains(n.subs, AnySub)
TypedList(l) == /\ l \in Seq(Nodes)
                /\ \A i \in 1..Len(l) : TypedNode(l[i])
                /\ \A i, j \in 1..Len(l) : l[i].name = l[j].name => i = j

LEMMA AtIs ==
  ASSUME NEW l, TypedList(l), NEW t
  PROVE  /\ \A i \in 1..Len(l) : l[i].name = t => HasType(l, t) /\ At(l, t) = i
         /\ HasType(l, t) => At(l, t) \in 1..Len(l) /\ l[At(l, t)].name = t
  <1>1. ASSUME NEW i \in 1..Len(l), l[i].name = t PROVE HasType(l, t) /\ At(l, t) = i
    <2>1. \A k \in 1..Len(l) : l[k].name = t => k = i
      BY <1>1 DEF TypedList
    <2>2. \A j \in 1..(i - 1) : j \in 1..Len(l) /\ j # i
      BY <1>1, LenProperties DEF TypedList
    <2>3. \A j \in 1..(i - 1) : l[j].name # t
      BY <2>1, <2>2
    <2> QED BY <1>1, <2>1, <2>3 DEF HasType, At
  <1> QED BY <1>1 DEF HasType

\* Another node at the end, another one of the same name in its place, one less.
LEMMA AppendNode ==
  ASSUME NEW l, TypedList(l), NEW n, TypedNode(n), ~HasType(l, n.name)
  PROVE  /\ TypedList(Append(l, n)) /\ Len(Append(l, n)) = Len(l) + 1 /\ Len(l) \in Nat
         /\ \A i \in 1..Len(l) : Append(l, n)[i] = l[i]
         /\ Append(l, n)[Len(l) + 1] = n
  <1> DEFINE m == Append(l, n)
  <1>1. /\ m \in Seq(Nodes) /\ Len(m) = Len(l) + 1 /\ Len(l) \in Nat
        /\ \A i \in 1..Len(l) : m[i] = l[i]
        /\ m[Len(l) + 1] = n
    BY AppendProperties, LenProperties DEF TypedList, TypedNode
  <1> HIDE DEF m
  <1>2. \A i \in 1..Len(m) : i \in 1..Len(l) \/ i = Len(l) + 1
    BY <1>1
  <1>3. \A i \in 1..Len(l) : l[i].name # n.name
    BY DEF HasType
  <1>4. \A i \in 1..Len(m) : TypedNode(m[i])
    BY <1>1, <1>2 DEF TypedList
  <1>5. ASSUME NEW i \in 1..Len(m), NEW j \in 1..Len(m), m[i].name = m[j].name PROVE i = j
    BY <1>1, <1>2, <1>3, <1>5 DEF TypedList
  <1> QED BY <1>1, <1>4, <1>5 DEF TypedList, m

LEMMA ReplaceNode ==
  ASSUME NEW l, TypedList(l), NEW i \in 1..Len(l), NEW n, TypedNode(n), n.name = l[i].name
  PROVE  /\ TypedList([l EXCEPT ![i] = n]) /\ Len([l EXCEPT ![i] = n]) = Len(l)
         /\ \A j \in 1..Len(l) : [l EXCEPT ![i] = n][j] = IF j = i THEN n ELSE l[j]
  <1> DEFINE m == [l EXCEPT ![i] = n]
  <1>1. /\ m \in Seq(Nodes) /\ Len(m) = Len(l)
        /\ \A j \in 1..Len(l) : m[j] = IF j = i THEN n ELSE l[j]
    BY ExceptSeq DEF TypedList, TypedNode
  <1> HIDE DEF m
  <1>2. \A j \in 1..Len(m) : TypedNode(m[j])
    BY <1>1 DEF TypedList
  <1>3. \A j, k \in 1..Len(m) : m[j].name = m[k].name => j = k
    BY <1>1 DEF TypedList
  <1> QED BY <1>1, <1>2, <1>3 DEF TypedList, m

LEMMA RemoveNode ==
  ASSUME NEW l, TypedList(l), NEW i \in 1..Len(l)
  PROVE  /\ TypedList(RemoveAt(l, i))
         /\ \A k \in 1..Len(RemoveAt(l, i)) :
              \E j \in 1..Len(l) \ {i} : RemoveAt(l, i)[k] = l[j]
         /\ \A j \in 1..Len(l) \ {i} :
              \E k \in 1..Len(RemoveAt(l, i)) : RemoveAt(l, i)[k] = l[j]
  <1> DEFINE m == RemoveAt(l, i)
             From(k) == IF k < i THEN k ELSE k + 1
  <1>0. l \in Seq(Nodes) /\ Len(l) \in Nat
    BY LenProperties DEF TypedList
  <1>1. /\ m \in Seq(Nodes) /\ Len(m) = Len(l) - 1
        /\ \A k \in 1..(Len(l) - 1) : m[k] = IF k < i THEN l[k] ELSE l[k + 1]
    BY <1>0, RemoveAtIs
  <1> HIDE DEF m
  <1>2. \A k \in 1..Len(m) : From(k) \in 1..Len(l) \ {i} /\ m[k] = l[From(k)]
    BY <1>0, <1>1
  <1>3. \A j, k \in 1..Len(m) : From(j) = From(k) => j = k
    BY <1>0, <1>1
  <1>4. \A j \in 1..Len(l) \ {i} : \E k \in 1..Len(m) : From(k) = j
    <2> SUFFICES ASSUME NEW j \in 1..Len(l) \ {i} PROVE \E k \in 1..Len(m) : From(k) = j
      OBVIOUS
    <2>1. CASE j < i
      <3>1. j \in 1..Len(m) /\ From(j) = j
        BY <2>1, <1>0, <1>1
      <3> QED BY <3>1
    <2>2. CASE ~(j < i)
      <3>1. j - 1 \in 1..Len(m) /\ From(j - 1) = j
        BY <2>2, <1>0, <1>1
      <3> QED BY <3>1
    <2> QED BY <2>1, <2>2
  <1> HIDE DEF From
  <1>5. \A k \in 1..Len(m) : TypedNode(m[k])
    BY <1>2 DEF TypedList
  <1>6. \A j, k \in 1..Len(m) : m[j].name = m[k].name => j = k
    BY <1>2, <1>3 DEF TypedList
  <1>7. \A k \in 1..Len(m) : \E j \in 1..Len(l) \ {i} : m[k] = l[j]
    BY <1>2
  <1>8. \A j \in 1..Len(l) \ {i} : \E k \in 1..Len(m) : m[k] = l[j]
    BY <1>2, <1>4
  <1> QED BY <1>1, <1>5, <1>6, <1>7, <1>8 DEF TypedList, m

\* What a node forbids.
Has(n, s) == Contains(n.subs, s) \/ (n.wildcard /\ s = AnySub)

LEMMA InRules ==
  ASSUME NEW l, TypedList(l), NEW q
  PROVE  q \in GetForbiddenTypes(l) <=>
           \E i \in 1..Len(l) : q = <<l[i].name, q[2]>> /\ Has(l[i], q[2])
  <1> DEFINE Own(i) == {<<l[i].name, s>> :
                          s \in ToSet(l[i].subs) \cup IF l[i].wildcard THEN {AnySub} ELSE {}}
  <1>1. ASSUME NEW i \in 1..Len(l) PROVE q \in Own(i) <=> q = <<l[i].name, q[2]>> /\ Has(l[i], q[2])
    <2>1. l[i].subs \in Seq(STRING)
      BY DEF TypedList, TypedNode, Nodes
    <2>2. DOMAIN l[i].subs = 1..Len(l[i].subs)
      BY <2>1, LenProperties
    <2>3. \A s : s \in ToSet(l[i].subs) <=> Contains(l[i].subs, s)
      BY <2>2 DEF ToSet, Contains
    <2> QED BY <2>3 DEF Has
  <1>2. q \in GetForbiddenTypes(l) <=> \E i \in 1..Len(l) : q \in Own(i)
    BY DEF GetForbiddenTypes
  <1> HIDE DEF Own
  <1> QED BY <1>1, <1>2

LEMMA InDoubled ==
  ASSUME NEW l, TypedList(l), NEW q
  PROVE  q \in Doubled(l) <=>
           \E i \in 1..Len(l) : q = <<l[i].name, q[2]>> /\ Twice(l[i], q[2])
  <1>1. q \in GetForbiddenTypes(l) <=>
          \E i \in 1..Len(l) : q = <<l[i].name, q[2]>> /\ Has(l[i], q[2])
    BY InRules
  <1>2. \A i \in 1..Len(l) : q = <<l[i].name, q[2]>> => q[1] = l[i].name
    OBVIOUS
  <1>3. ASSUME q \in Doubled(l)
        PROVE  \E i \in 1..Len(l) : q = <<l[i].name, q[2]>> /\ Twice(l[i], q[2])
    <2>1. PICK i \in 1..Len(l) : l[i].name = q[1] /\ Twice(l[i], q[2])
      BY <1>3 DEF Doubled
    <2>2. PICK j \in 1..Len(l) : q = <<l[j].name, q[2]>>
      BY <1>1, <1>3 DEF Doubled
    <2>3. i = j
      BY <1>2, <2>1, <2>2 DEF TypedList
    <2> QED BY <2>1, <2>2, <2>3
  <1>4. ASSUME NEW i \in 1..Len(l), q = <<l[i].name, q[2]>>, Twice(l[i], q[2])
        PROVE  q \in Doubled(l)
    <2>1. Has(l[i], q[2])
      BY <1>4 DEF Twice, Has, Contains
    <2>2. q \in GetForbiddenTypes(l)
      BY <1>1, <1>4, <2>1
    <2> QED BY <1>2, <1>4, <2>2 DEF Doubled
  <1> QED BY <1>3, <1>4

\* What another node, one in its place and one less make of both sets.
LEMMA AppendRules ==
  ASSUME NEW l, TypedList(l), NEW n, TypedNode(n), ~HasType(l, n.name), NEW q
  PROVE  /\ q \in GetForbiddenTypes(Append(l, n)) <=>
              q \in GetForbiddenTypes(l) \/ (q = <<n.name, q[2]>> /\ Has(n, q[2]))
         /\ q \in Doubled(Append(l, n)) <=>
              q \in Doubled(l) \/ (q = <<n.name, q[2]>> /\ Twice(n, q[2]))
  <1> DEFINE m == Append(l, n)
  <1>1. /\ TypedList(m) /\ Len(m) = Len(l) + 1 /\ Len(l) \in Nat
        /\ \A i \in 1..Len(l) : m[i] = l[i]
        /\ m[Len(l) + 1] = n
    BY AppendNode
  <1> HIDE DEF m
  <1>2. /\ q \in GetForbiddenTypes(m) <=>
             \E i \in 1..Len(m) : q = <<m[i].name, q[2]>> /\ Has(m[i], q[2])
        /\ q \in Doubled(m) <=>
             \E i \in 1..Len(m) : q = <<m[i].name, q[2]>> /\ Twice(m[i], q[2])
    BY <1>1, InRules, InDoubled
  <1>3. /\ q \in GetForbiddenTypes(l) <=>
             \E i \in 1..Len(l) : q = <<l[i].name, q[2]>> /\ Has(l[i], q[2])
        /\ q \in Doubled(l) <=>
             \E i \in 1..Len(l) : q = <<l[i].name, q[2]>> /\ Twice(l[i], q[2])
    BY InRules, InDoubled
  <1>4. \A i : i \in 1..Len(m) <=> i \in 1..Len(l) \/ i = Len(l) + 1
    BY <1>1
  <1> QED BY <1>1, <1>2, <1>3, <1>4 DEF m

LEMMA ReplaceRules ==
  ASSUME NEW l, TypedList(l), NEW i \in 1..Len(l), NEW n, TypedNode(n), n.name = l[i].name, NEW q
  PROVE  /\ q \in GetForbiddenTypes([l EXCEPT ![i] = n]) <=>
              \/ q \in GetForbiddenTypes(l) /\ q[1] # n.name
              \/ q = <<n.name, q[2]>> /\ Has(n, q[2])
         /\ q \in Doubled([l EXCEPT ![i] = n]) <=>
              \/ q \in Doubled(l) /\ q[1] # n.name
              \/ q = <<n.name, q[2]>> /\ Twice(n, q[2])
  <1> DEFINE m == [l EXCEPT ![i] = n]
  <1>1. /\ TypedList(m) /\ Len(m) = Len(l)
        /\ \A j \in 1..Len(l) : m[j] = IF j = i THEN n ELSE l[j]
    BY ReplaceNode
  <1> HIDE DEF m
  <1>2. /\ q \in GetForbiddenTypes(m) <=>
             \E j \in 1..Len(l) : q = <<m[j].name, q[2]>> /\ Has(m[j], q[2])
        /\ q \in Doubled(m) <=>
             \E j \in 1..Len(l) : q = <<m[j].name, q[2]>> /\ Twice(m[j], q[2])
    BY <1>1, InRules, InDoubled
  <1>3. /\ q \in GetForbiddenTypes(l) <=>
             \E j \in 1..Len(l) : q = <<l[j].name, q[2]>> /\ Has(l[j], q[2])
        /\ q \in Doubled(l) <=>
             \E j \in 1..Len(l) : q = <<l[j].name, q[2]>> /\ Twice(l[j], q[2])
    BY InRules, InDoubled
  <1>4. \A j \in 1..Len(l) : l[j].name = n.name => j = i
    BY DEF TypedList
  <1>5. \A j \in 1..Len(l) : q = <<l[j].name, q[2]>> => q[1] = l[j].name
    OBVIOUS
  <1>6. q \in GetForbiddenTypes(m) <=> \/ q \in GetForbiddenTypes(l) /\ q[1] # n.name
                                       \/ q = <<n.name, q[2]>> /\ Has(n, q[2])
    BY <1>1, <1>2, <1>3, <1>4, <1>5
  <1>7. q \in Doubled(m) <=> \/ q \in Doubled(l) /\ q[1] # n.name
                             \/ q = <<n.name, q[2]>> /\ Twice(n, q[2])
    BY <1>1, <1>2, <1>3, <1>4, <1>5
  <1> QED BY <1>6, <1>7 DEF m

LEMMA RemoveRules ==
  ASSUME NEW l, TypedList(l), NEW i \in 1..Len(l), NEW q
  PROVE  /\ q \in GetForbiddenTypes(RemoveAt(l, i)) <=>
              q \in GetForbiddenTypes(l) /\ q[1] # l[i].name
         /\ q \in Doubled(RemoveAt(l, i)) <=> q \in Doubled(l) /\ q[1] # l[i].name
  <1> DEFINE m == RemoveAt(l, i)
             In(x, j) == q = <<x[j].name, q[2]>>
  <1>1. /\ TypedList(m)
        /\ \A k \in 1..Len(m) : \E j \in 1..Len(l) \ {i} : m[k] = l[j]
        /\ \A j \in 1..Len(l) \ {i} : \E k \in 1..Len(m) : m[k] = l[j]
    BY RemoveNode
  <1> HIDE DEF m
  <1>2. /\ q \in GetForbiddenTypes(m) <=> \E j \in 1..Len(m) : In(m, j) /\ Has(m[j], q[2])
        /\ q \in Doubled(m) <=> \E j \in 1..Len(m) : In(m, j) /\ Twice(m[j], q[2])
    BY <1>1, InRules, InDoubled
  <1>3. /\ q \in GetForbiddenTypes(l) <=> \E j \in 1..Len(l) : In(l, j) /\ Has(l[j], q[2])
        /\ q \in Doubled(l) <=> \E j \in 1..Len(l) : In(l, j) /\ Twice(l[j], q[2])
    BY InRules, InDoubled
  <1>4. \A j \in 1..Len(l) : l[j].name = l[i].name => j = i
    BY DEF TypedList
  <1>5. \A j \in 1..Len(l) : In(l, j) => q[1] = l[j].name
    OBVIOUS
  <1>6. \A j \in 1..Len(l), k \in 1..Len(m) : m[k] = l[j] =>
          /\ In(m, k) <=> In(l, j)
          /\ Has(m[k], q[2]) <=> Has(l[j], q[2])
          /\ Twice(m[k], q[2]) <=> Twice(l[j], q[2])
    OBVIOUS
  <1> HIDE DEF In
  <1>7. q \in GetForbiddenTypes(m) <=> q \in GetForbiddenTypes(l) /\ q[1] # l[i].name
    <2>1. q \in GetForbiddenTypes(m) => q \in GetForbiddenTypes(l) /\ q[1] # l[i].name
      BY <1>1, <1>2, <1>3, <1>4, <1>5, <1>6
    <2>2. q \in GetForbiddenTypes(l) /\ q[1] # l[i].name => q \in GetForbiddenTypes(m)
      BY <1>1, <1>2, <1>3, <1>5, <1>6
    <2> QED BY <2>1, <2>2
  <1>8. q \in Doubled(m) <=> q \in Doubled(l) /\ q[1] # l[i].name
    <2>1. q \in Doubled(m) => q \in Doubled(l) /\ q[1] # l[i].name
      BY <1>1, <1>2, <1>3, <1>4, <1>5, <1>6
    <2>2. q \in Doubled(l) /\ q[1] # l[i].name => q \in Doubled(m)
      BY <1>1, <1>2, <1>3, <1>5, <1>6
    <2> QED BY <2>1, <2>2
  <1> QED BY <1>7, <1>8 DEF m

-----------------------------------------------------------------------------
(* The nodes the functions on the list make.                               *)

LEMMA NewNode ==
  ASSUME NEW t \in STRING, NEW s \in STRING
  PROVE  /\ TypedNode(Node(t, s)) /\ TypedNode(Childless(t))
         /\ Node(t, s).name = t /\ Childless(t).name = t
         /\ \A x : Has(Node(t, s), x) <=> x = s
         /\ \A x : ~Has(Childless(t), x)
         /\ \A x : ~Twice(Node(t, s), x) /\ ~Twice(Childless(t), x)
  <1>1. <<>> \in Seq(STRING) /\ Len(<<>>) = 0 /\ <<s>> \in Seq(STRING) /\ Len(<<s>>) = 1
    <2>1. <<>> \in Seq(STRING) /\ Len(<<>>) = 0
      BY EmptySeq
    <2>a. \A S : \A x \in S : <<x>> \in Seq(S)
      OBVIOUS
    <2>2. <<s>> \in Seq(STRING)
      BY ONLY <2>a, s \in STRING, Zenon
    <2>3. Len(<<s>>) = 1
      OBVIOUS
    <2> QED BY <2>1, <2>2, <2>3
  <1>a. <<s>>[1] = s
    OBVIOUS
  <1>2. \A x : ~Contains(<<>>, x) /\ (Contains(<<s>>, x) <=> x = s)
    <2>1. \A x : ~Contains(<<>>, x)
      BY <1>1 DEF Contains
    <2>2. \A i : i \in 1..1 <=> i = 1
      OBVIOUS
    <2>3. \A x : Contains(<<s>>, x) <=> x = s
      BY <1>1, <1>a, <2>2 DEF Contains
    <2> QED BY <2>1, <2>3
  <1>3. \A m \in {Node(t, s), Childless(t)} : m.subs \in {<<>>, <<s>>}
    BY DEF Node, Childless
  <1>b. \A m \in {Node(t, s), Childless(t)} : \A x : ~Twice(m, x)
    <2>1. \A i, j \in 1..0 : i = j
      OBVIOUS
    <2>2. \A i, j \in 1..1 : i = j
      OBVIOUS
    <2> QED BY <1>1, <1>3, <2>1, <2>2 DEF Twice
  <1>4. CASE s = AnySub
    BY <1>1, <1>2, <1>b, <1>4 DEF TypedNode, Node, Childless, Nodes, Has
  <1>5. CASE s # AnySub
    BY <1>1, <1>2, <1>b, <1>5 DEF TypedNode, Node, Childless, Nodes, Has
  <1> QED BY <1>4, <1>5

LEMMA OneMoreSub ==
  ASSUME NEW n, TypedNode(n), ~n.wildcard, NEW s \in STRING, s # AnySub
  PROVE  LET m == [n EXCEPT !.subs = Append(n.subs, s)]
         IN  /\ TypedNode(m) /\ m.name = n.name
             /\ \A x : Has(m, x) <=> Has(n, x) \/ x = s
             /\ ~Lists(n, s) => \A x : Twice(m, x) <=> Twice(n, x)
  <1> DEFINE u == Append(n.subs, s)
             m == [n EXCEPT !.subs = u]
  <1>1. /\ u \in Seq(STRING) /\ Len(u) = Len(n.subs) + 1 /\ Len(n.subs) \in Nat
        /\ \A i \in 1..Len(n.subs) : u[i] = n.subs[i]
        /\ u[Len(n.subs) + 1] = s
    BY AppendProperties, LenProperties DEF TypedNode, Nodes
  <1>2. \A i : i \in 1..Len(u) <=> i \in 1..Len(n.subs) \/ i = Len(n.subs) + 1
    BY <1>1
  <1>3. \A x : Contains(u, x) <=> Contains(n.subs, x) \/ x = s
    BY <1>1, <1>2 DEF Contains
  <1> HIDE DEF u
  <1>5. m \in Nodes /\ m.name = n.name /\ m.subs = u /\ m.wildcard = n.wildcard
    BY <1>1 DEF TypedNode, Nodes
  <1> HIDE DEF m
  <1>6. TypedNode(m)
    BY <1>3, <1>5 DEF TypedNode
  <1>7. ASSUME ~Lists(n, s), NEW x PROVE Twice(m, x) <=> Twice(n, x)
    <2>1. \A i \in 1..Len(n.subs) : n.subs[i] # s
      BY <1>7 DEF Lists, Contains
    <2>2. ASSUME Twice(m, x) PROVE Twice(n, x)
      <3>1. PICK i \in 1..Len(u), j \in 1..Len(u) : i # j /\ u[i] = x /\ u[j] = x
        BY <1>5, <2>2 DEF Twice
      <3>2. i \in 1..Len(n.subs) /\ j \in 1..Len(n.subs)
        BY <1>1, <1>2, <2>1, <3>1
      <3> QED BY <1>1, <3>1, <3>2 DEF Twice
    <2>3. ASSUME Twice(n, x) PROVE Twice(m, x)
      <3>1. PICK i \in 1..Len(n.subs), j \in 1..Len(n.subs) : i # j /\ n.subs[i] = x /\ n.subs[j] = x
        BY <2>3 DEF Twice
      <3>2. i \in 1..Len(u) /\ j \in 1..Len(u) /\ u[i] = x /\ u[j] = x
        BY <1>1, <1>2, <3>1
      <3> QED BY <1>5, <3>1, <3>2 DEF Twice
    <2> QED BY <2>2, <2>3
  <1>8. \A x : Has(m, x) <=> Has(n, x) \/ x = s
    BY <1>3, <1>5 DEF Has
  <1> QED BY <1>5, <1>6, <1>7, <1>8 DEF m, u

LEMMA OneSubLess ==
  ASSUME NEW n, TypedNode(n), ~n.wildcard, NEW s, Contains(n.subs, s)
  PROVE  LET m == [n EXCEPT !.subs = RemoveFirst(n.subs, s)]
         IN  /\ TypedNode(m) /\ m.name = n.name
             /\ \A x : Has(m, x) <=> Has(n, x) /\ (x # s \/ Twice(n, s))
             /\ \A x : Twice(m, x) => Twice(n, x)
             /\ \A x : x # s => (Twice(m, x) <=> Twice(n, x))
  <1> DEFINE u == RemoveFirst(n.subs, s)
             m == [n EXCEPT !.subs = u]
  <1>1. n.subs \in Seq(STRING) /\ Len(n.subs) \in Nat
    BY LenProperties DEF TypedNode, Nodes
  <1>2. PICK k \in 1..Len(n.subs) : n.subs[k] = s /\ u = RemoveAt(n.subs, k)
    BY <1>1, RemoveFirstIs
  <1>3. /\ u \in Seq(STRING) /\ Len(u) = Len(n.subs) - 1
        /\ \A i \in 1..(Len(n.subs) - 1) : u[i] = IF i < k THEN n.subs[i] ELSE n.subs[i + 1]
    BY <1>1, <1>2, RemoveAtIs
  <1> HIDE DEF u
  <1> DEFINE From(i) == IF i < k THEN i ELSE i + 1
  <1>4. \A i \in 1..Len(u) : From(i) \in 1..Len(n.subs) \ {k} /\ u[i] = n.subs[From(i)]
    BY <1>1, <1>3
  <1>5. \A i, j \in 1..Len(u) : From(i) = From(j) => i = j
    BY <1>1, <1>3
  <1>6. ASSUME NEW j \in 1..Len(n.subs) \ {k} PROVE \E i \in 1..Len(u) : From(i) = j
    <2>1. CASE j < k
      <3>1. j \in 1..Len(u) /\ From(j) = j
        BY <2>1, <1>1, <1>3
      <3> QED BY <3>1
    <2>2. CASE ~(j < k)
      <3>1. j - 1 \in 1..Len(u) /\ From(j - 1) = j
        BY <2>2, <1>1, <1>3
      <3> QED BY <3>1
    <2> QED BY <2>1, <2>2
  <1> HIDE DEF From
  <1>7. ASSUME NEW x PROVE Contains(u, x) <=> \E j \in 1..Len(n.subs) \ {k} : n.subs[j] = x
    BY <1>4, <1>6 DEF Contains
  <1>8. m \in Nodes /\ m.name = n.name /\ m.subs = u /\ m.wildcard = n.wildcard
    BY <1>3 DEF TypedNode, Nodes
  <1> HIDE DEF m
  <1>9. TypedNode(m)
    BY <1>7, <1>8 DEF TypedNode, Contains
  <1>10. ASSUME NEW x PROVE Has(m, x) <=> Has(n, x) /\ (x # s \/ Twice(n, s))
    <2>1. Has(m, x) <=> Contains(u, x)
      BY <1>8 DEF Has
    <2>2. Has(n, x) <=> Contains(n.subs, x)
      BY DEF Has
    <2>3. CASE x # s
      BY <2>1, <2>2, <2>3, <1>2, <1>7 DEF Contains
    <2>4. CASE x = s
      <3>1. Contains(n.subs, s)
        BY <1>2 DEF Contains
      <3>2. Contains(u, s) <=> Twice(n, s)
        BY <1>2, <1>7 DEF Twice
      <3> QED BY <2>1, <2>2, <2>4, <3>1, <3>2
    <2> QED BY <2>3, <2>4
  <1>11. ASSUME NEW x, Twice(m, x) PROVE Twice(n, x)
    BY <1>4, <1>5, <1>8, <1>11 DEF Twice
  <1>12. ASSUME NEW x, x # s, Twice(n, x) PROVE Twice(m, x)
    <2>1. PICK a \in 1..Len(n.subs), b \in 1..Len(n.subs) : a # b /\ n.subs[a] = x /\ n.subs[b] = x
      BY <1>12 DEF Twice
    <2>2. a # k /\ b # k
      BY <1>2, <1>12, <2>1
    <2>3. PICK i \in 1..Len(u), j \in 1..Len(u) : From(i) = a /\ From(j) = b
      BY <1>6, <2>1, <2>2
    <2> QED BY <1>4, <1>8, <2>1, <2>3 DEF Twice
  <1> QED BY <1>8, <1>9, <1>10, <1>11, <1>12 DEF m, u

-----------------------------------------------------------------------------
(* The functions on the list.                                              *)

LEMMA PairIs == \A q, t, s : (q = <<t, q[2]>> /\ q[2] = s) <=> q = <<t, s>>
  <1>1. ASSUME NEW q, NEW t, NEW s, q = <<t, q[2]>>, q[2] = s PROVE q = <<t, s>>
    <2>1. PICK e : e = q[2]
      OBVIOUS
    <2>2. q = <<t, e>> /\ e = s
      BY <1>1, <2>1
    <2> QED BY ONLY <2>2
  <1>2. ASSUME NEW q, NEW t, NEW s, q = <<t, s>> PROVE q = <<t, q[2]>> /\ q[2] = s
    BY <1>2
  <1> QED BY <1>1, <1>2

\* The rules of one type are what its only node has.
LEMMA OfOneType ==
  ASSUME NEW l, TypedList(l), NEW i \in 1..Len(l), NEW t, l[i].name = t
  PROVE  /\ \A q : q \in GetForbiddenTypes(l) /\ q[1] = t <=> q = <<t, q[2]>> /\ Has(l[i], q[2])
         /\ \A q : q \in Doubled(l) /\ q[1] = t <=> q = <<t, q[2]>> /\ Twice(l[i], q[2])
         /\ \A x : /\ <<t, x>> \in GetForbiddenTypes(l) <=> Has(l[i], x)
                   /\ <<t, x>> \in Doubled(l) <=> Twice(l[i], x)
  <1>1. \A q : /\ q \in GetForbiddenTypes(l) <=>
                    \E j \in 1..Len(l) : q = <<l[j].name, q[2]>> /\ Has(l[j], q[2])
               /\ q \in Doubled(l) <=>
                    \E j \in 1..Len(l) : q = <<l[j].name, q[2]>> /\ Twice(l[j], q[2])
    BY InRules, InDoubled
  <1>2. \A j \in 1..Len(l) : l[j].name = t => j = i
    BY DEF TypedList
  <1>3. \A q : \A j \in 1..Len(l) : q = <<l[j].name, q[2]>> => q[1] = l[j].name
    OBVIOUS
  <1>4. \A q : q = <<t, q[2]>> => q[1] = t
    OBVIOUS
  <1>5. \A q : q \in GetForbiddenTypes(l) /\ q[1] = t <=> q = <<t, q[2]>> /\ Has(l[i], q[2])
    BY <1>1, <1>2, <1>3, <1>4
  <1>6. \A q : q \in Doubled(l) /\ q[1] = t <=> q = <<t, q[2]>> /\ Twice(l[i], q[2])
    BY <1>1, <1>2, <1>3, <1>4
  <1>7. ASSUME NEW x
        PROVE  /\ <<t, x>> \in GetForbiddenTypes(l) <=> Has(l[i], x)
               /\ <<t, x>> \in Doubled(l) <=> Twice(l[i], x)
    <2>1. PICK q : q = <<t, x>>
      OBVIOUS
    <2>2. q[1] = t /\ q[2] = x
      BY <2>1
    <2> QED BY <1>5, <1>6, <2>1, <2>2
  <1> QED BY <1>5, <1>6, <1>7

\* What is left of a set of rules when a whole type is forbidden or allowed.
Purged(rs, r) == IF r[2] = AnySub THEN {q \in rs : q[1] # r[1]} ELSE rs
WithRule(rs, r) == Purged(rs, r) \cup {r}

\* A list behind a command that declined, and behind one that added the rule.
SameRules(m, l)  == GetForbiddenTypes(m) = GetForbiddenTypes(l) /\ Doubled(m) = Doubled(l)
Forbade(m, l, r) == /\ GetForbiddenTypes(m) = WithRule(GetForbiddenTypes(l), r)
                    /\ Doubled(m) = Purged(Doubled(l), r)

LEMMA ForbidNewType ==
  ASSUME NEW l, TypedList(l), NEW t \in STRING, NEW s \in STRING, ~HasType(l, t)
  PROVE  /\ \E o \in ForbidNew(l, t, s) : o.status = 0
         /\ \A q \in GetForbiddenTypes(l) : q[1] # t
         /\ \A o \in ForbidNew(l, t, s) :
              /\ TypedList(o.list)
              /\ \/ o.status = 0 /\ Forbade(o.list, l, <<t, s>>)
                 \/ o.status = -1 /\ SameRules(o.list, l)
  <1> DEFINE G == GetForbiddenTypes(l)
             D == Doubled(l)
             n == Node(t, s)
             m == Append(l, n)
             k == Append(l, Childless(t))
  <1>1. /\ TypedNode(n) /\ TypedNode(Childless(t)) /\ n.name = t /\ Childless(t).name = t
        /\ \A x : Has(n, x) <=> x = s
        /\ \A x : ~Has(Childless(t), x)
        /\ \A x : ~Twice(n, x) /\ ~Twice(Childless(t), x)
    BY NewNode
  <1>2. ForbidNew(l, t, s) \subseteq {Done(m), Failed(l), Failed(k)} /\ Done(m) \in ForbidNew(l, t, s)
    BY DEF ForbidNew
  <1>3. /\ Done(m).list = m /\ Done(m).status = 0 /\ Failed(l).list = l /\ Failed(l).status = -1
        /\ Failed(k).list = k /\ Failed(k).status = -1
    BY DEF Done, Failed
  <1>4. TypedList(m) /\ TypedList(k)
    BY <1>1, AppendNode
  <1>5. \A q : /\ q \in GetForbiddenTypes(m) <=> q \in G \/ (q = <<t, q[2]>> /\ q[2] = s)
               /\ q \in Doubled(m) <=> q \in D
    BY <1>1, AppendRules
  <1>6. \A q : (q \in GetForbiddenTypes(k) <=> q \in G) /\ (q \in Doubled(k) <=> q \in D)
    BY <1>1, AppendRules
  <1>7. \A q \in G : q[1] # t
    <2>1. \A q \in G : \E i \in 1..Len(l) : q = <<l[i].name, q[2]>>
      BY InRules
    <2> QED BY <2>1 DEF HasType
  <1>8. D \subseteq G
    BY DEF Doubled
  <1>9. \A q : (q = <<t, q[2]>> /\ q[2] = s) <=> q = <<t, s>>
    BY PairIs
  <1>10. /\ \A q : q \in WithRule(G, <<t, s>>) <=> q \in G \/ q = <<t, s>>
         /\ \A q : q \in Purged(D, <<t, s>>) <=> q \in D
    BY <1>7, <1>8 DEF WithRule, Purged
  <1> HIDE DEF m, k, G, D, n
  <1>11. GetForbiddenTypes(m) = WithRule(G, <<t, s>>) /\ Doubled(m) = Purged(D, <<t, s>>)
    BY <1>5, <1>9, <1>10
  <1>12. GetForbiddenTypes(k) = G /\ Doubled(k) = D
    BY <1>6
  <1>13. Forbade(m, l, <<t, s>>) /\ SameRules(k, l) /\ SameRules(l, l)
    BY <1>11, <1>12 DEF Forbade, SameRules, G, D
  <1> QED BY <1>2, <1>3, <1>4, <1>7, <1>13 DEF G

\* Under a known type: nothing is added once the type lists its own name.
UnderType(l, t, s, o) ==
  LET n == l[At(l, t)]
      G == GetForbiddenTypes(l)
  IN  /\ TypedList(o.list) /\ o.status \in {0, -1}
      /\ o.status = -1 => SameRules(o.list, l)
      /\ n.wildcard => o = Done(l)
      /\ ~n.wildcard /\ s # AnySub /\ <<t, t>> \in G => o = Done(l)
      /\ ~n.wildcard /\ (s = AnySub \/ <<t, t>> \notin G) /\ o.status = 0 =>
           /\ GetForbiddenTypes(o.list) = WithRule(G, <<t, s>>)
           /\ ~Lists(n, s) => Forbade(o.list, l, <<t, s>>)

LEMMA ForbidNewSubtype ==
  ASSUME NEW l, TypedList(l), NEW t \in STRING, NEW s \in STRING, HasType(l, t)
  PROVE  /\ \E o \in ForbidNew(l, t, s) : o.status = 0
         /\ \A o \in ForbidNew(l, t, s) : UnderType(l, t, s, o)
  <1> DEFINE i == At(l, t)
             n == l[i]
             G == GetForbiddenTypes(l)
             D == Doubled(l)
  <1>1. i \in 1..Len(l) /\ n.name = t /\ TypedNode(n)
    BY AtIs DEF TypedList
  <1>2. ASSUME NEW x, TypedNode(x), x.name = t
        PROVE  /\ TypedList([l EXCEPT ![i] = x])
               /\ \A q : /\ q \in GetForbiddenTypes([l EXCEPT ![i] = x]) <=>
                              \/ q \in G /\ q[1] # t
                              \/ q = <<t, q[2]>> /\ Has(x, q[2])
                         /\ q \in Doubled([l EXCEPT ![i] = x]) <=>
                              \/ q \in D /\ q[1] # t
                              \/ q = <<t, q[2]>> /\ Twice(x, q[2])
    <2> HIDE DEF i, n, G, D
    <2>1. x.name = l[i].name
      BY <1>1, <1>2 DEF n
    <2>2. TypedList([l EXCEPT ![i] = x])
      BY <1>1, <1>2, <2>1, ReplaceNode
    <2>3. ASSUME NEW q
          PROVE  /\ q \in GetForbiddenTypes([l EXCEPT ![i] = x]) <=>
                      \/ q \in G /\ q[1] # t
                      \/ q = <<t, q[2]>> /\ Has(x, q[2])
                 /\ q \in Doubled([l EXCEPT ![i] = x]) <=>
                      \/ q \in D /\ q[1] # t
                      \/ q = <<t, q[2]>> /\ Twice(x, q[2])
      BY <1>1, <1>2, <2>1, ReplaceRules DEF G, D
    <2> QED BY <2>2, <2>3
  <1>3. /\ \A q : q \in G /\ q[1] = t <=> q = <<t, q[2]>> /\ Has(n, q[2])
        /\ \A q : q \in D /\ q[1] = t <=> q = <<t, q[2]>> /\ Twice(n, q[2])
    BY <1>1, OfOneType
  <1>s. SameRules(l, l)
    BY DEF SameRules
  <1>4. CASE n.wildcard
    <2>1. ForbidNew(l, t, s) = {Done(l)} /\ Done(l).list = l /\ Done(l).status = 0
      BY <1>4 DEF ForbidNew, Done
    <2> QED BY <2>1, <1>4, <1>s DEF UnderType
  <1>5. CASE ~n.wildcard /\ s = AnySub
    <2> DEFINE x == Node(t, AnySub)
               m == [l EXCEPT ![i] = x]
    <2>1. ForbidNew(l, t, s) = {Done(m)} /\ Done(m).list = m /\ Done(m).status = 0
      BY <1>5 DEF ForbidNew, Done
    <2>2. /\ TypedNode(x) /\ x.name = t
          /\ \A y : Has(x, y) <=> y = AnySub
          /\ \A y : ~Twice(x, y)
      BY <1>5, NewNode
    <2> HIDE DEF x
    <2>3. TypedList(m)
      BY <1>2, <2>2
    <2>4. \A q : /\ q \in GetForbiddenTypes(m) <=> (q \in G /\ q[1] # t) \/ (q = <<t, q[2]>> /\ q[2] = AnySub)
                 /\ q \in Doubled(m) <=> q \in D /\ q[1] # t
      BY <1>2, <2>2
    <2>5. \A q : (q = <<t, q[2]>> /\ q[2] = AnySub) <=> q = <<t, s>>
      BY <1>5
    <2>6. /\ \A q : q \in WithRule(G, <<t, s>>) <=> (q \in G /\ q[1] # t) \/ q = <<t, s>>
          /\ \A q : q \in Purged(D, <<t, s>>) <=> q \in D /\ q[1] # t
      BY <1>5 DEF WithRule, Purged
    <2> HIDE DEF m, G, D
    <2>7. GetForbiddenTypes(m) = WithRule(G, <<t, s>>) /\ Doubled(m) = Purged(D, <<t, s>>)
      BY <2>4, <2>5, <2>6
    <2>8. Forbade(m, l, <<t, s>>)
      BY <2>7 DEF Forbade, G, D
    <2> QED BY <2>1, <2>3, <2>7, <2>8, <1>5 DEF G, UnderType
  <1>6. CASE ~n.wildcard /\ s # AnySub
    <2> DEFINE x == [n EXCEPT !.subs = Append(n.subs, s)]
               m == [l EXCEPT ![i] = x]
    <2>1. m = [l EXCEPT ![i].subs = Append(@, s)]
      BY <1>1
    <2>2. ForbidNew(l, t, s) = IF Lists(n, t) THEN {Done(l)} ELSE {Done(m), Failed(l)}
      BY <1>6, <2>1 DEF ForbidNew
    <2>3. /\ Done(l).list = l /\ Done(l).status = 0 /\ Failed(l).list = l /\ Failed(l).status = -1
          /\ Done(m).list = m /\ Done(m).status = 0
      BY DEF Done, Failed
    <2>4. /\ TypedNode(x) /\ x.name = t
          /\ \A y : Has(x, y) <=> Has(n, y) \/ y = s
          /\ ~Lists(n, s) => \A y : Twice(x, y) <=> Twice(n, y)
      BY <1>1, <1>6, OneMoreSub
    <2> HIDE DEF x
    <2>5. TypedList(m)
      BY <1>2, <2>4
    <2>6. \A q : /\ q \in GetForbiddenTypes(m) <=>
                      (q \in G /\ q[1] # t) \/ (q = <<t, q[2]>> /\ (Has(n, q[2]) \/ q[2] = s))
                 /\ ~Lists(n, s) =>
                      (q \in Doubled(m) <=> (q \in D /\ q[1] # t) \/ (q = <<t, q[2]>> /\ Twice(n, q[2])))
      BY <1>2, <2>4
    <2>7. \A q : (q = <<t, q[2]>> /\ q[2] = s) <=> q = <<t, s>>
      BY PairIs
    <2>8. /\ \A q : q \in WithRule(G, <<t, s>>) <=> q \in G \/ q = <<t, s>>
          /\ Purged(D, <<t, s>>) = D
      BY <1>6 DEF WithRule, Purged
    <2>9. <<t, t>> \in G <=> Lists(n, t)
      <3>1. <<t, t>> \in G <=> Has(n, t)
        BY <1>1, OfOneType
      <3> QED BY <3>1, <1>6 DEF Has, Lists
    <2> HIDE DEF m, G, D
    <2>10. GetForbiddenTypes(m) = WithRule(G, <<t, s>>)
      <3>1. \A q : q \in GetForbiddenTypes(m) <=> q \in WithRule(G, <<t, s>>)
        BY <1>3, <2>6, <2>7, <2>8
      <3> QED BY <3>1
    <2>11. ~Lists(n, s) => Doubled(m) = D
      BY <1>3, <2>6
    <2>12. ~Lists(n, s) => Forbade(m, l, <<t, s>>)
      BY <2>8, <2>10, <2>11 DEF Forbade, G, D
    <2> HIDE DEF n
    <2> QED BY <2>2, <2>3, <2>5, <2>9, <2>10, <2>12, <1>6, <1>s DEF G, n, UnderType
  <1> QED BY <1>4, <1>5, <1>6

\* What allow_type lifts.
Lifted(m, l, r) ==
  LET G == GetForbiddenTypes(l)
      D == Doubled(l)
  IN  \/ r[2] = AnySub /\ GetForbiddenTypes(m) = Purged(G, r) /\ Doubled(m) = Purged(D, r)
      \/ r[2] # AnySub /\ r \in G \ D /\ GetForbiddenTypes(m) = G \ {r} /\ Doubled(m) = D
      \/ r[2] # AnySub /\ r \in D /\ GetForbiddenTypes(m) = G /\ Doubled(m) \in {D, D \ {r}}

LEMMA AllowTypeIs ==
  ASSUME NEW l, TypedList(l), NEW t \in STRING, NEW s \in STRING
  PROVE  LET o == AllowType(l, t, s)
         IN  /\ TypedList(o.list) /\ o.status \in {1, -1, -2}
             /\ o.status # 1 => o.list = l
             /\ o.status = -2 => s # AnySub /\ <<t, AnySub>> \in GetForbiddenTypes(l)
             /\ o.status = 1 => Lifted(o.list, l, <<t, s>>)
  <1> DEFINE i == At(l, t)
             n == l[i]
             o == AllowType(l, t, s)
             G == GetForbiddenTypes(l)
             D == Doubled(l)
  <1>1. CASE ~HasType(l, t)
    <2>1. o.list = l /\ o.status = -1
      BY <1>1 DEF AllowType, Failed
    <2> QED BY <2>1
  <1> SUFFICES ASSUME HasType(l, t)
               PROVE  /\ TypedList(o.list) /\ o.status \in {1, -1, -2}
                      /\ o.status # 1 => o.list = l
                      /\ o.status = -2 => s # AnySub /\ <<t, AnySub>> \in G
                      /\ o.status = 1 => Lifted(o.list, l, <<t, s>>)
    BY <1>1
  <1>2. i \in 1..Len(l) /\ n.name = t /\ TypedNode(n)
    BY AtIs DEF TypedList
  <1>3. /\ \A q : q \in G /\ q[1] = t <=> q = <<t, q[2]>> /\ Has(n, q[2])
        /\ \A q : q \in D /\ q[1] = t <=> q = <<t, q[2]>> /\ Twice(n, q[2])
        /\ \A x : (<<t, x>> \in G <=> Has(n, x)) /\ (<<t, x>> \in D <=> Twice(n, x))
    BY <1>2, OfOneType
  <1>4. CASE s = AnySub
    <2> DEFINE m == RemoveAt(l, i)
    <2>1. o.list = m /\ o.status = 1
      BY <1>4 DEF AllowType
    <2>2. TypedList(m)
      BY <1>2, RemoveNode
    <2>3. ASSUME NEW q PROVE /\ q \in GetForbiddenTypes(m) <=> q \in G /\ q[1] # t
                             /\ q \in Doubled(m) <=> q \in D /\ q[1] # t
      <3> HIDE DEF i
      <3> QED BY <1>2, RemoveRules
    <2>4. \A q : /\ q \in Purged(G, <<t, s>>) <=> q \in G /\ q[1] # t
                 /\ q \in Purged(D, <<t, s>>) <=> q \in D /\ q[1] # t
      BY <1>4 DEF Purged
    <2> HIDE DEF m, G, D
    <2>5. GetForbiddenTypes(m) = Purged(G, <<t, s>>) /\ Doubled(m) = Purged(D, <<t, s>>)
      BY <2>3, <2>4
    <2>6. Lifted(m, l, <<t, s>>)
      BY <2>5, <1>4 DEF Lifted, G, D
    <2> HIDE DEF o
    <2> QED BY <2>1, <2>2, <2>6
  <1>5. CASE s # AnySub /\ n.wildcard
    <2>1. o.list = l /\ o.status = -2
      BY <1>5 DEF AllowType
    <2>2. <<t, AnySub>> \in G
      BY <1>3, <1>5 DEF Has
    <2> HIDE DEF o
    <2> QED BY <2>1, <2>2, <1>5
  <1>6. CASE s # AnySub /\ ~n.wildcard /\ ~Lists(n, s)
    <2>1. o.list = l /\ o.status = -1
      BY <1>6 DEF AllowType, Failed
    <2> HIDE DEF o
    <2> QED BY <2>1
  <1>7. CASE s # AnySub /\ ~n.wildcard /\ Lists(n, s)
    <2> DEFINE x == [n EXCEPT !.subs = RemoveFirst(n.subs, s)]
               m == [l EXCEPT ![i] = x]
               r == <<t, s>>
    <2>1. m = [l EXCEPT ![i].subs = RemoveFirst(@, s)]
      BY <1>2
    <2>2. o.list = m /\ o.status = 1
      BY <1>7, <2>1 DEF AllowType
    <2>3. /\ TypedNode(x) /\ x.name = t
          /\ \A y : Has(x, y) <=> Has(n, y) /\ (y # s \/ Twice(n, s))
          /\ \A y : Twice(x, y) => Twice(n, y)
          /\ \A y : y # s => (Twice(x, y) <=> Twice(n, y))
      BY <1>2, <1>7, OneSubLess DEF Lists
    <2> HIDE DEF x
    <2>4. TypedList(m)
      BY <1>2, <2>3, ReplaceNode
    <2>5. ASSUME NEW q
          PROVE  /\ q \in GetForbiddenTypes(m) <=> \/ q \in G /\ q[1] # t
                                                   \/ q = <<t, q[2]>> /\ Has(x, q[2])
                 /\ q \in Doubled(m) <=> \/ q \in D /\ q[1] # t
                                         \/ q = <<t, q[2]>> /\ Twice(x, q[2])
      <3> HIDE DEF i
      <3> QED BY <1>2, <2>3, ReplaceRules
    <2>6. r \in G /\ (r \in D <=> Twice(n, s)) /\ r[1] = t /\ r[2] = s
      BY <1>3, <1>7 DEF Has, Lists
    <2>7. \A q : q = <<t, q[2]>> => q[1] = t /\ (q[2] = s <=> q = r)
      <3> SUFFICES ASSUME NEW q, q = <<t, q[2]>> PROVE q[1] = t /\ (q[2] = s <=> q = r)
        OBVIOUS
      <3>1. PICK e : e = q[2]
        OBVIOUS
      <3>2. q = <<t, e>>
        BY <3>1
      <3> QED BY ONLY <3>1, <3>2
    <2> HIDE DEF m, G, D, n, r
    <2>8. ASSUME NEW q PROVE q \in GetForbiddenTypes(m) <=> q \in G /\ (q # r \/ Twice(n, s))
      <3>1. CASE q = <<t, q[2]>>
        BY <3>1, <1>3, <2>3, <2>5, <2>7
      <3>2. CASE q # <<t, q[2]>>
        BY <3>2, <1>3, <2>5, <2>6
      <3> QED BY <3>1, <3>2
    <2>9. ASSUME NEW q PROVE /\ q \in Doubled(m) => q \in D
                             /\ q # r => (q \in Doubled(m) <=> q \in D)
      <3>1. CASE q = <<t, q[2]>>
        BY <3>1, <1>3, <2>3, <2>5, <2>7
      <3>2. CASE q # <<t, q[2]>>
        BY <3>2, <1>3, <2>5
      <3> QED BY <3>1, <3>2
    <2>10. CASE r \in D
      <3>1. GetForbiddenTypes(m) = G
        BY <2>8, <2>6, <2>10
      <3>2. Doubled(m) \in {D, D \ {r}}
        BY <2>9, <2>10
      <3>3. Lifted(m, l, r)
        BY <3>1, <3>2, <2>6, <2>10, <1>7 DEF Lifted, G, D
      <3> HIDE DEF o
      <3> QED BY <2>2, <2>4, <3>3 DEF r
    <2>11. CASE r \notin D
      <3>1. GetForbiddenTypes(m) = G \ {r}
        BY <2>8, <2>6, <2>11
      <3>2. Doubled(m) = D
        BY <2>9, <2>11
      <3>3. Lifted(m, l, r)
        BY <3>1, <3>2, <2>6, <2>11, <1>7 DEF Lifted, G, D
      <3> HIDE DEF o
      <3> QED BY <2>2, <2>4, <3>3 DEF r
    <2> QED BY <2>10, <2>11
  <1> QED BY <1>4, <1>5, <1>6, <1>7

\* find_mime asks whether the rules forbid the pair.
LEMMA FindMimeIs ==
  ASSUME NEW l, TypedList(l), NEW t \in STRING, NEW s \in STRING
  PROVE  FindMime(l, t, s) <=> Filter!Forbids(GetForbiddenTypes(l), <<t, s>>)
  <1> DEFINE i == At(l, t)
             G == GetForbiddenTypes(l)
  <1>1. Filter!Forbids(G, <<t, s>>) <=> <<t, AnySub>> \in G \/ <<t, s>> \in G
    BY DEF Filter!Forbids, Filter!Whole, Filter!Star, AnySub
  <1>2. CASE ~HasType(l, t)
    <2>1. \A q \in G : \E j \in 1..Len(l) : q = <<l[j].name, q[2]>>
      BY InRules
    <2>2. \A q \in G : q[1] # t
      BY <1>2, <2>1 DEF HasType
    <2>3. \A x : <<t, x>>[1] = t
      OBVIOUS
    <2> HIDE DEF G
    <2>4. \A x : <<t, x>> \notin G
      BY <2>2, <2>3
    <2> QED BY <1>1, <1>2, <2>4 DEF FindMime, G
  <1>3. CASE HasType(l, t)
    <2>1. i \in 1..Len(l) /\ l[i].name = t /\ TypedNode(l[i])
      BY <1>3, AtIs DEF TypedList
    <2>2. \A x : <<t, x>> \in G <=> Has(l[i], x)
      BY <2>1, OfOneType
    <2>3. Has(l[i], AnySub) <=> l[i].wildcard
      BY <2>1 DEF Has, TypedNode
    <2>4. Has(l[i], s) \/ l[i].wildcard <=> l[i].wildcard \/ Lists(l[i], s)
      BY DEF Has, Lists
    <2> QED BY <1>1, <1>3, <2>2, <2>3, <2>4 DEF FindMime, G
  <1> QED BY <1>2, <1>3

-----------------------------------------------------------------------------
(* The list behind the command line.                                       *)

Pair == STRING \X STRING

LEMMA PairOf ==
  ASSUME NEW r \in Pair
  PROVE  r[1] \in STRING /\ r[2] \in STRING /\ r = <<r[1], r[2]>>
  BY DEF Pair

LEMMA ForbiddenIs ==
  ASSUME NEW l, TypedList(l), NEW r \in Pair
  PROVE  LET m == Forbidden(l, r)
         IN  TypedList(m) /\ GetForbiddenTypes(m) \subseteq GetForbiddenTypes(l) \cup {r}
  <1> DEFINE m == Forbidden(l, r)
             G == GetForbiddenTypes(l)
             O == ForbidNew(l, r[1], r[2])
             o == CHOOSE q \in O : q.status = 0
  <1>0. r[1] \in STRING /\ r[2] \in STRING /\ r = <<r[1], r[2]>>
    BY PairOf
  <1>1. PICK t, s : t = r[1] /\ s = r[2]
    OBVIOUS
  <1>2. t \in STRING /\ s \in STRING /\ r = <<t, s>>
    BY <1>0, <1>1
  <1>3. \E q \in O : q.status = 0
    <2>1. CASE HasType(l, t)
      BY <1>1, <1>2, <2>1, ForbidNewSubtype
    <2>2. CASE ~HasType(l, t)
      BY <1>1, <1>2, <2>2, ForbidNewType
    <2> QED BY <2>1, <2>2
  <1>4. o \in O /\ o.status = 0 /\ m = o.list
    BY <1>3 DEF Forbidden
  <1>5. O = ForbidNew(l, t, s)
    BY <1>1
  <1> HIDE DEF O, o, m, G
  <1>6. WithRule(G, <<t, s>>) \subseteq G \cup {<<t, s>>}
    BY DEF WithRule, Purged
  <1>7. CASE ~HasType(l, t)
    <2>1. TypedList(o.list) /\ Forbade(o.list, l, <<t, s>>)
      BY <1>2, <1>4, <1>5, <1>7, ForbidNewType
    <2> QED BY <2>1, <1>2, <1>4, <1>6 DEF m, G, Forbade
  <1>8. CASE HasType(l, t)
    <2>1. TypedList(o.list) /\ (o = Done(l) \/ GetForbiddenTypes(o.list) = WithRule(G, <<t, s>>))
      <3>1. UnderType(l, t, s, o)
        BY <1>2, <1>4, <1>5, <1>8, ForbidNewSubtype
      <3> QED BY <3>1, <1>4 DEF G, UnderType
    <2>2. Done(l).list = l
      BY DEF Done
    <2> QED BY <2>1, <2>2, <1>2, <1>4, <1>6 DEF m, G
  <1> QED BY <1>7, <1>8 DEF m, G

\* The list behind the command line, rule by rule.
Lines(g, rs) ==
  g = [n \in 0..Len(rs) |-> IF n = 0 THEN <<>> ELSE Forbidden(g[n - 1], rs[n])]

LEMMA EmptyList == TypedList(<<>>) /\ GetForbiddenTypes(<<>>) = {}
  <1>1. <<>> \in Seq(Nodes) /\ Len(<<>>) = 0
    BY EmptySeq
  <1> QED BY <1>1 DEF TypedList, GetForbiddenTypes

LEMMA CommandLineGoes ==
  ASSUME NEW rs \in Seq(Pair)
  PROVE  \E g : Lines(g, rs) /\ CommandLine(rs) = g[Len(rs)]
  <1> DEFINE V == {x \in Seq(Nodes) : TypedList(x)}
             m == Len(rs)
             h == [p \in (1..m) \X V |-> Forbidden(p[2], rs[p[1]])]
             a == <<>>
             k == CHOOSE g : Lines(g, rs)
  <1>1. m \in Nat /\ a \in V
    BY LenProperties, EmptyList, EmptySeq
  <1>2. \A i \in 1..m : rs[i] \in Pair
    BY ElementOfSeq
  <1>3. \A i \in 1..m, x \in V : Forbidden(x, rs[i]) \in V
    BY <1>2, ForbiddenIs DEF TypedList
  <1>4. \A i \in 1..m, x \in V : h[<<i, x>>] = Forbidden(x, rs[i])
    OBVIOUS
  <1>5. \A i \in 1..m, x \in V : h[<<i, x>>] \in V
    BY <1>3, <1>4
  <1> HIDE DEF V, h, a, m
  <1>6. PICK f : Lemmas!Recursive(f, V, a, m, h)
    BY <1>1, <1>5, Lemmas!Recursion
  <1>7. f \in [0..m -> V] /\ f[0] = a /\ \A i \in 1..m : f[i] = h[<<i, f[i - 1]>>]
    BY <1>6 DEF Lemmas!Recursive
  <1>8. \A i \in 0..m : i = 0 \/ (i \in 1..m /\ i - 1 \in 0..m)
    BY <1>1
  <1>9. ASSUME NEW i \in 0..m
        PROVE  f[i] = IF i = 0 THEN a ELSE Forbidden(f[i - 1], rs[i])
    BY <1>7, <1>8, <1>4
  <1>10. Lines(f, rs)
    BY <1>7, <1>9 DEF Lines, m, a
  <1>11. Lines(k, rs)
    BY <1>10
  <1>12. CommandLine(rs) = k[Len(rs)]
    BY DEF CommandLine, Lines
  <1> HIDE DEF k
  <1> QED BY <1>11, <1>12

LEMMA CommandLineIs ==
  ASSUME NEW rs \in CommandLines
  PROVE  TypedList(CommandLine(rs)) /\ GetForbiddenTypes(CommandLine(rs)) \subseteq Named
  <1>0. rs \in Seq(Pair)
    BY RequestsAssumption DEF Pair
  <1>1. Len(rs) \in Nat /\ \A i \in 1..Len(rs) : rs[i] \in Pair
    BY <1>0, LenProperties, ElementOfSeq
  <1>2. PICK g : Lines(g, rs) /\ CommandLine(rs) = g[Len(rs)]
    BY <1>0, CommandLineGoes
  <1>3. /\ g[0] = <<>>
        /\ \A n \in Nat : n + 1 <= Len(rs) => g[n + 1] = Forbidden(g[n], rs[n + 1])
    <2>1. g[0] = <<>>
      BY <1>1, <1>2 DEF Lines
    <2>2. ASSUME NEW n \in Nat, n + 1 <= Len(rs) PROVE g[n + 1] = Forbidden(g[n], rs[n + 1])
      <3>1. n + 1 \in 0..Len(rs) /\ n + 1 # 0 /\ (n + 1) - 1 = n
        BY <1>1, <2>2
      <3> QED BY <3>1, <1>2 DEF Lines
    <2> QED BY <2>1, <2>2
  <1> DEFINE S == {n \in Nat : n <= Len(rs) => TypedList(g[n]) /\ GetForbiddenTypes(g[n]) \subseteq Named}
  <1>4. 0 \in S
    BY <1>3, EmptyList
  <1>5. ASSUME NEW n \in Nat, n \in S PROVE n + 1 \in S
    <2> SUFFICES ASSUME n + 1 <= Len(rs)
                 PROVE  TypedList(g[n + 1]) /\ GetForbiddenTypes(g[n + 1]) \subseteq Named
      OBVIOUS
    <2>1. /\ TypedList(g[n]) /\ GetForbiddenTypes(g[n]) \subseteq Named
          /\ rs[n + 1] \in Pair /\ n + 1 \in 1..Len(rs)
      BY <1>1, <1>5
    <2>2. rs[n + 1] \in Named
      <3>1. DOMAIN rs = 1..Len(rs)
        BY <1>0, LenProperties
      <3> QED BY <2>1, <3>1 DEF ToSet, Named
    <2> QED BY <1>3, <2>1, <2>2, ForbiddenIs
  <1> HIDE DEF S
  <1>6. Len(rs) \in S
    BY <1>1, <1>4, <1>5, Lemmas!Induction
  <1> QED BY <1>1, <1>2, <1>6 DEF S

\* A rule for a whole type stands alone.
LEMMA RulesAreNormal ==
  ASSUME NEW l, TypedList(l)
  PROVE  Filter!Normal(GetForbiddenTypes(l))
  <1> DEFINE G == GetForbiddenTypes(l)
  <1>1. \A q : q \in G <=> \E j \in 1..Len(l) : q = <<l[j].name, q[2]>> /\ Has(l[j], q[2])
    BY InRules
  <1> SUFFICES ASSUME NEW r \in G, <<r[1], AnySub>> \in G PROVE r = <<r[1], AnySub>>
    BY DEF Filter!Normal, Filter!Whole, Filter!Star, AnySub
  <1>2. PICK i \in 1..Len(l) : r = <<l[i].name, r[2]>> /\ Has(l[i], r[2])
    BY <1>1
  <1>3. PICK t, s : t = l[i].name /\ s = r[2]
    OBVIOUS
  <1>4. r = <<t, s>> /\ Has(l[i], s)
    BY <1>2, <1>3
  <1>5. r[1] = t
    BY ONLY <1>4
  <1>6. PICK q : q = <<t, AnySub>>
    OBVIOUS
  <1>7. q[1] = t /\ q[2] = AnySub /\ q \in G
    BY <1>5, <1>6
  <1> HIDE DEF G
  <1>8. PICK j \in 1..Len(l) : q = <<l[j].name, q[2]>> /\ Has(l[j], q[2])
    BY <1>1, <1>7
  <1>9. l[j].name = t /\ Has(l[j], AnySub)
    BY <1>6, <1>7, <1>8
  <1>10. j = i
    BY <1>3, <1>9 DEF TypedList
  <1>11. TypedNode(l[i])
    BY DEF TypedList
  <1>12. l[i].wildcard
    BY <1>9, <1>10, <1>11 DEF Has, TypedNode
  <1>13. ~Contains(l[i].subs, s)
    <2>1. l[i].subs = <<>> /\ Len(<<>>) = 0
      BY <1>11, <1>12, EmptySeq DEF TypedNode
    <2> QED BY <2>1 DEF Contains
  <1>14. s = AnySub
    BY <1>4, <1>13 DEF Has
  <1> QED BY <1>4, <1>5, <1>14

-----------------------------------------------------------------------------
(* The history of the commands on the rules.                               *)

Kept(xs) ==
  LET f[n \in 0..Len(xs)] ==
        IF n = 0 THEN <<>>
        ELSE IF AboutMime(xs[n]) THEN Append(f[n - 1], MimeAnswer(xs[n])) ELSE f[n - 1]
  IN  f[Len(xs)]

Keeps(g, xs) ==
  g = [n \in 0..Len(xs) |->
         IF n = 0 THEN <<>>
         ELSE IF AboutMime(xs[n]) THEN Append(g[n - 1], MimeAnswer(xs[n])) ELSE g[n - 1]]

LEMMA KeptGoes ==
  ASSUME NEW xs, IsSeq(xs)
  PROVE  \E g : Keeps(g, xs) /\ Kept(xs) = g[Len(xs)]
  <1> DEFINE W == {MimeAnswer(xs[i]) : i \in DOMAIN xs}
             V == Seq(W)
             m == Len(xs)
             Go(x, i) == IF AboutMime(xs[i]) THEN Append(x, MimeAnswer(xs[i])) ELSE x
             h == [p \in (1..m) \X V |-> Go(p[2], p[1])]
             a == <<>>
             k == CHOOSE g : Keeps(g, xs)
  <1>1. m \in Nat /\ a \in V /\ DOMAIN xs = 1..m
    BY LenProperties, EmptySeq DEF IsSeq
  <1>2. \A i \in 1..m : MimeAnswer(xs[i]) \in W
    BY <1>1
  <1>3. \A i \in 1..m, x \in V : Go(x, i) \in V
    <2> HIDE DEF W
    <2> QED BY <1>2, AppendProperties
  <1>4. \A i \in 1..m, x \in V : h[<<i, x>>] = Go(x, i)
    <2> HIDE DEF Go, V, m
    <2> QED OBVIOUS
  <1>5. \A i \in 1..m, x \in V : h[<<i, x>>] \in V
    <2> HIDE DEF Go, V, m, h
    <2> QED BY <1>3, <1>4
  <1> HIDE DEF V, h, a, m, Go
  <1>6. PICK f : Lemmas!Recursive(f, V, a, m, h)
    BY <1>1, <1>5, Lemmas!Recursion
  <1>7. f \in [0..m -> V] /\ f[0] = a /\ \A i \in 1..m : f[i] = h[<<i, f[i - 1]>>]
    BY <1>6 DEF Lemmas!Recursive
  <1>8. \A i \in 0..m : i = 0 \/ (i \in 1..m /\ i - 1 \in 0..m)
    BY <1>1
  <1>9. ASSUME NEW i \in 0..m
        PROVE  f[i] = IF i = 0 THEN a ELSE Go(f[i - 1], i)
    BY <1>7, <1>8, <1>4
  <1>10. Keeps(f, xs)
    BY <1>7, <1>9 DEF Keeps, m, a, Go
  <1>11. Keeps(k, xs)
    BY <1>10
  <1>12. Kept(xs) = k[Len(xs)]
    BY DEF Kept, Keeps
  <1> HIDE DEF k
  <1> QED BY <1>11, <1>12

LEMMA KeptAppend ==
  ASSUME NEW xs, IsSeq(xs), NEW x
  PROVE  Kept(Append(xs, x)) = IF AboutMime(x) THEN Append(Kept(xs), MimeAnswer(x)) ELSE Kept(xs)
  <1> DEFINE bs == Append(xs, x)
  <1>1. /\ IsSeq(bs) /\ Len(xs) \in Nat /\ Len(bs) = Len(xs) + 1 /\ bs[Len(xs) + 1] = x
        /\ \A i \in 1..Len(xs) : bs[i] = xs[i]
    BY AppendIsSeq
  <1> HIDE DEF bs
  <1>a. PICK m \in Nat : m = Len(xs)
    BY <1>1
  <1>b. Len(bs) = m + 1 /\ bs[m + 1] = x /\ \A i \in 1..m : bs[i] = xs[i]
    BY <1>1, <1>a, Zenon
  <1>2. PICK f : Keeps(f, xs) /\ Kept(xs) = f[Len(xs)]
    BY KeptGoes
  <1>3. PICK g : Keeps(g, bs) /\ Kept(bs) = g[Len(bs)]
    BY <1>1, KeptGoes
  <1>c. /\ f = [n \in 0..m |->
                  IF n = 0 THEN <<>>
                  ELSE IF AboutMime(xs[n]) THEN Append(f[n - 1], MimeAnswer(xs[n])) ELSE f[n - 1]]
        /\ Kept(xs) = f[m]
    BY <1>2, <1>a, Zenon DEF Keeps
  <1>d. /\ g = [n \in 0..(m + 1) |->
                  IF n = 0 THEN <<>>
                  ELSE IF AboutMime(bs[n]) THEN Append(g[n - 1], MimeAnswer(bs[n])) ELSE g[n - 1]]
        /\ Kept(bs) = g[m + 1]
    BY <1>3, <1>b, Zenon DEF Keeps
  <1> DEFINE S == {n \in Nat : n <= m => g[n] = f[n]}
  <1>4. 0 \in S
    BY ONLY <1>c, <1>d, m \in Nat
  <1>5. ASSUME NEW n \in Nat, n \in S PROVE n + 1 \in S
    <2> SUFFICES ASSUME n + 1 <= m PROVE g[n + 1] = f[n + 1]
      OBVIOUS
    <2>1. /\ n + 1 \in 0..m /\ n + 1 \in 0..(m + 1) /\ n + 1 # 0 /\ (n + 1) - 1 = n
          /\ n + 1 \in 1..m /\ g[n] = f[n]
      BY ONLY <1>5, n \in Nat, m \in Nat, n + 1 <= m
    <2>2. f[n + 1] = IF AboutMime(xs[n + 1]) THEN Append(f[n], MimeAnswer(xs[n + 1])) ELSE f[n]
      BY ONLY <2>1, <1>c
    <2>3. g[n + 1] = IF AboutMime(bs[n + 1]) THEN Append(g[n], MimeAnswer(bs[n + 1])) ELSE g[n]
      BY ONLY <2>1, <1>d
    <2>4. bs[n + 1] = xs[n + 1] /\ g[n] = f[n]
      BY <2>1, <1>b, Zenon
    <2>5. PICK e, v : e = xs[n + 1] /\ v = f[n]
      OBVIOUS
    <2>6. f[n + 1] = IF AboutMime(e) THEN Append(v, MimeAnswer(e)) ELSE v
      BY <2>2, <2>5, Zenon
    <2>7. g[n + 1] = IF AboutMime(e) THEN Append(v, MimeAnswer(e)) ELSE v
      BY <2>3, <2>4, <2>5, Zenon
    <2>8. PICK w : w = IF AboutMime(e) THEN Append(v, MimeAnswer(e)) ELSE v
      OBVIOUS
    <2>9. f[n + 1] = w /\ g[n + 1] = w
      BY ONLY <2>6, <2>7, <2>8
    <2> QED BY ONLY <2>9
  <1> HIDE DEF S
  <1>6. m \in S
    BY <1>4, <1>5, Lemmas!Induction
  <1>7. g[m] = f[m]
    BY ONLY <1>6, m \in Nat DEF S
  <1>8. g[m + 1] = IF AboutMime(x) THEN Append(g[m], MimeAnswer(x)) ELSE g[m]
    <2>1. m + 1 \in 0..(m + 1) /\ m + 1 # 0 /\ (m + 1) - 1 = m
      BY ONLY m \in Nat
    <2>2. g[m + 1] = IF AboutMime(bs[m + 1]) THEN Append(g[m], MimeAnswer(bs[m + 1])) ELSE g[m]
      BY ONLY <2>1, <1>d
    <2> QED BY <2>2, <1>b, Zenon
  <1> QED BY <1>c, <1>d, <1>7, <1>8, Zenon DEF bs

-----------------------------------------------------------------------------
(* What each command on media types does to the rules, and what it is told. *)

IsReply(p) == p = ReplyOf(p.status, p.data) /\ p.status \in {0, 1}

LEMMA Replies ==
  /\ IsReply(Empty) /\ IsReply(Welcome)
  /\ \A why : IsReply(Error(why)) /\ IsReply(ReplyOf(1, <<why>>))
  /\ \A word, v : IsReply(Value(word, v))
  /\ \A p : IsReply(p) => IsReply([p EXCEPT !.status = 0])
  BY DEF IsReply, ReplyOf, Empty, Welcome, Error, Value

LEMMA Results ==
  /\ Result(Empty) = "ok"
  /\ Result(Error("already forbidden")) = "already" /\ Result(Error("already allowed")) = "already"
  /\ Result(Error("wildcard")) = "wildcard"
  /\ Result(Error("forbid error")) = "error" /\ Result(Error("allow error")) = "error"
  <1>1. \A why : Error(why) # Empty /\ Error(why).data = <<why>>
    BY DEF Error, Empty, ReplyOf
  <1>2. \A x, y : <<x>> = <<y>> => x = y
    OBVIOUS
  <1>3. /\ <<"forbid error">> \notin {<<"already forbidden">>, <<"already allowed">>, <<"wildcard">>}
        /\ <<"allow error">> \notin {<<"already forbidden">>, <<"already allowed">>, <<"wildcard">>}
        /\ <<"wildcard">> \notin {<<"already forbidden">>, <<"already allowed">>}
    BY <1>2
  <1>4. Result(Empty) = "ok"
    <2>1. Empty.data = <<>>
      BY DEF Empty, ReplyOf
    <2>2. \A x : <<x>> # <<>>
      OBVIOUS
    <2>3. PICK p : p = Empty
      OBVIOUS
    <2>4. p = Empty /\ p.data \notin {<<"already forbidden">>, <<"already allowed">>}
          /\ p.data # <<"wildcard">>
      BY <2>1, <2>2, <2>3
    <2>5. Result(p) = "ok"
      BY ONLY <2>4 DEF Result
    <2> QED BY <2>3, <2>5
  <1>5. ASSUME NEW why, why \in {"already forbidden", "already allowed"}
        PROVE  Result(Error(why)) = "already"
    <2>1. PICK p : p = Error(why)
      OBVIOUS
    <2>2. p # Empty /\ p.data \in {<<"already forbidden">>, <<"already allowed">>}
      BY <1>1, <1>5, <2>1
    <2>3. p.data # <<"wildcard">>
      BY <1>3, <2>2
    <2>4. Result(p) = "already"
      BY ONLY <2>2, <2>3 DEF Result
    <2> QED BY <2>1, <2>4
  <1>6. Result(Error("wildcard")) = "wildcard"
    BY <1>1, <1>3 DEF Result
  <1>7. ASSUME NEW why, <<why>> \notin {<<"already forbidden">>, <<"already allowed">>, <<"wildcard">>}
        PROVE  Result(Error(why)) = "error"
    BY <1>1, <1>7 DEF Result
  <1>8. Result(Error("already forbidden")) = "already" /\ Result(Error("already allowed")) = "already"
    BY <1>5
  <1>9. Result(Error("forbid error")) = "error" /\ Result(Error("allow error")) = "error"
    BY <1>3, <1>7
  <1> QED BY <1>4, <1>6, <1>8, <1>9

\* What the three commands do to a set of rules, and what they are told.
ForbidRules(G, D, r, H, E, res) ==
  \/ Filter!Forbids(G, r) /\ res = "already" /\ H = G /\ E = D
  \/ res = "error" /\ H = G /\ E = D
  \/ /\ ~Filter!Forbids(G, r) /\ res = "ok"
     /\ \/ /\ r[2] = AnySub \/ <<r[1], r[1]>> \notin G
           /\ H = WithRule(G, r) /\ E = Purged(D, r)
        \/ r[2] # AnySub /\ <<r[1], r[1]>> \in G /\ H = G /\ E = D

AllowRules(G, D, r, H, E, res) ==
  \/ ~Filter!Forbids(G, r) /\ res = "already" /\ H = G /\ E = D
  \/ <<r[1], AnySub>> \in G /\ r[2] # AnySub /\ res = "wildcard" /\ H = G /\ E = D
  \/ res = "error" /\ H = G /\ E = D
  \/ /\ res = "ok"
     /\ \/ r[2] = AnySub /\ H = Purged(G, r) /\ E = Purged(D, r)
        \/ r[2] # AnySub /\ r \in G \ D /\ H = G \ {r} /\ E = D
        \/ r[2] # AnySub /\ r \in D /\ H = G /\ E \in {D, D \ {r}}

\* The same of two lists.
ForbidLists(l, r, m, res) ==
  ForbidRules(GetForbiddenTypes(l), Doubled(l), r, GetForbiddenTypes(m), Doubled(m), res)
AllowLists(l, r, m, res) ==
  AllowRules(GetForbiddenTypes(l), Doubled(l), r, GetForbiddenTypes(m), Doubled(m), res)

LEMMA ForbidEffect ==
  ASSUME TypedList(list), NEW r \in Pair, r # Malformed, NEW e \in ForbidMime(r)
  PROVE  /\ e = Effect(e.list, program, switch, e.reply) /\ IsReply(e.reply) /\ TypedList(e.list)
         /\ ForbidLists(list, r, e.list, Result(e.reply))
  <1> DEFINE G == GetForbiddenTypes(list)
  <1>1. PICK t \in STRING, s \in STRING : t = r[1] /\ s = r[2] /\ r = <<t, s>>
    BY PairOf
  <1>2. Covered(r) <=> Filter!Forbids(G, r)
    BY <1>1, FindMimeIs DEF Covered
  <1>3. CASE Covered(r)
    <2>1. e = Effect(list, program, switch, Error("already forbidden"))
      BY <1>3 DEF ForbidMime, Says
    <2>2. e.list = list /\ e.reply = Error("already forbidden")
      BY <2>1 DEF Effect
    <2> QED BY <1>2, <1>3, <2>1, <2>2, Results, Replies DEF ForbidRules, ForbidLists
  <1>4. CASE ~Covered(r)
    <2>1. PICK o \in ForbidNew(list, t, s) :
            e = Effect(o.list, program, switch, IF o.status = 0 THEN Empty ELSE Error("forbid error"))
      BY <1>1, <1>4 DEF ForbidMime
    <2>2. e.list = o.list /\ e.reply = IF o.status = 0 THEN Empty ELSE Error("forbid error")
      BY <2>1 DEF Effect
    <2>3. /\ e = Effect(e.list, program, switch, e.reply) /\ IsReply(e.reply)
          /\ Result(e.reply) = IF o.status = 0 THEN "ok" ELSE "error"
      BY <2>1, <2>2, Results, Replies
    <2>4. ~Filter!Forbids(G, r)
      BY <1>2, <1>4
    <2>5. ASSUME o.status # 0, SameRules(o.list, list)
          PROVE  ForbidLists(list, r, o.list, Result(e.reply))
      BY <2>3, <2>5 DEF ForbidLists, ForbidRules, SameRules
    <2>6. ASSUME o.status = 0, r[2] = AnySub \/ <<r[1], r[1]>> \notin G, Forbade(o.list, list, r)
          PROVE  ForbidLists(list, r, o.list, Result(e.reply))
      BY <2>3, <2>4, <2>6 DEF ForbidLists, ForbidRules, Forbade
    <2>7. CASE ~HasType(list, t)
      <3>1. /\ TypedList(o.list)
            /\ \A q \in G : q[1] # t
            /\ \/ o.status = 0 /\ Forbade(o.list, list, <<t, s>>)
               \/ o.status = -1 /\ SameRules(o.list, list)
        BY <2>7, ForbidNewType
      <3>2. <<r[1], r[1]>> \notin G
        <4>1. PICK q : q = <<t, t>>
          OBVIOUS
        <4>2. q[1] = t
          BY <4>1
        <4> QED BY <1>1, <3>1, <4>1, <4>2
      <3> HIDE DEF G
      <3>3. ForbidLists(list, r, o.list, Result(e.reply))
        <4>1. CASE o.status = 0
          BY <1>1, <2>6, <3>1, <3>2, <4>1
        <4>2. CASE o.status # 0
          BY <2>5, <3>1, <4>2
        <4> QED BY <4>1, <4>2
      <3> QED BY <2>2, <2>3, <3>1, <3>3
    <2>8. CASE HasType(list, t)
      <3> DEFINE n == list[At(list, t)]
      <3>1. ~n.wildcard /\ ~Lists(n, s)
        BY <1>1, <1>4, <2>8 DEF Covered, FindMime
      <3>2. /\ TypedList(o.list) /\ o.status \in {0, -1}
            /\ o.status = -1 => SameRules(o.list, list)
            /\ s # AnySub /\ <<t, t>> \in G => o = Done(list)
            /\ (s = AnySub \/ <<t, t>> \notin G) /\ o.status = 0 => Forbade(o.list, list, <<t, s>>)
        BY <2>8, <3>1, ForbidNewSubtype DEF UnderType
      <3> HIDE DEF n
      <3>3. CASE s # AnySub /\ <<t, t>> \in G
        <4>1. o.list = list /\ o.status = 0
          BY <3>2, <3>3 DEF Done
        <4>2. ForbidLists(list, r, list, Result(e.reply))
          BY <1>1, <2>3, <2>4, <3>3, <4>1 DEF ForbidLists, ForbidRules
        <4> QED BY <2>2, <2>3, <3>2, <4>1, <4>2
      <3>4. CASE s = AnySub \/ <<t, t>> \notin G
        <4> HIDE DEF G
        <4> QED BY <1>1, <2>2, <2>3, <2>5, <2>6, <3>2, <3>4
      <3> QED BY <3>3, <3>4
    <2> QED BY <2>7, <2>8
  <1> QED BY <1>3, <1>4

LEMMA AllowEffect ==
  ASSUME TypedList(list), NEW r \in Pair, r # Malformed, NEW e \in AllowMime(r)
  PROVE  /\ e = Effect(e.list, program, switch, e.reply) /\ IsReply(e.reply) /\ TypedList(e.list)
         /\ AllowLists(list, r, e.list, Result(e.reply))
  <1> DEFINE G == GetForbiddenTypes(list)
  <1>1. PICK t \in STRING, s \in STRING : t = r[1] /\ s = r[2] /\ r = <<t, s>>
    BY PairOf
  <1>2. Covered(r) <=> Filter!Forbids(G, r)
    BY <1>1, FindMimeIs DEF Covered
  <1>3. CASE ~Covered(r) /\ s # AnySub
    <2>1. e = Effect(list, program, switch, Error("already allowed"))
      BY <1>1, <1>3 DEF AllowMime, Says
    <2>2. e.list = list /\ e.reply = Error("already allowed")
      BY <2>1 DEF Effect
    <2> QED BY <1>2, <1>3, <2>1, <2>2, Results, Replies DEF AllowRules, AllowLists
  <1>4. CASE Covered(r) \/ s = AnySub
    <2> DEFINE o == AllowType(list, t, s)
               reply == CASE o.status = -2 /\ Covered(r) -> Error("wildcard")
                          [] o.status = -1 -> Error("allow error")
                          [] OTHER         -> Empty
    <2>1. e = Effect(o.list, program, switch, reply)
      BY <1>1, <1>4 DEF AllowMime
    <2>2. e.list = o.list /\ e.reply = reply
      BY <2>1 DEF Effect
    <2>3. /\ TypedList(o.list) /\ o.status \in {1, -1, -2}
          /\ o.status # 1 => o.list = list
          /\ o.status = -2 => s # AnySub /\ <<t, AnySub>> \in G
          /\ o.status = 1 => Lifted(o.list, list, r)
      BY <1>1, AllowTypeIs
    <2> HIDE DEF o, G
    <2>a. -1 # -2 /\ 1 # -1 /\ 1 # -2
      OBVIOUS
    <2>4. CASE o.status = 1
      <3>1. e.reply = Empty
        BY <2>2, <2>4, <2>a
      <3> HIDE DEF reply
      <3>2. Result(e.reply) = "ok" /\ IsReply(e.reply) /\ Lifted(o.list, list, r)
        BY <2>3, <2>4, <3>1, Results, Replies
      <3>3. AllowLists(list, r, o.list, Result(e.reply))
        BY ONLY <3>2 DEF AllowLists, AllowRules, Lifted
      <3> QED BY <2>1, <2>2, <2>3, <3>2, <3>3
    <2>5. CASE o.status = -1
      <3>1. e.reply = Error("allow error")
        BY <2>2, <2>5, <2>a
      <3> HIDE DEF reply
      <3>2. o.list = list /\ Result(e.reply) = "error" /\ IsReply(e.reply)
        BY <2>3, <2>5, <2>a, <3>1, Results, Replies
      <3>3. AllowLists(list, r, list, Result(e.reply))
        BY <3>2 DEF AllowRules, AllowLists
      <3> QED BY <2>1, <2>2, <2>3, <3>2, <3>3
    <2>6. CASE o.status = -2
      <3>1. e.reply = Error("wildcard")
        BY <1>4, <2>2, <2>3, <2>6
      <3> HIDE DEF reply
      <3>2. o.list = list /\ Result(e.reply) = "wildcard" /\ IsReply(e.reply)
        BY <2>3, <2>6, <2>a, <3>1, Results, Replies
      <3>3. <<r[1], AnySub>> \in G /\ r[2] # AnySub
        BY <1>1, <2>3, <2>6
      <3>4. AllowLists(list, r, list, Result(e.reply))
        BY <3>2, <3>3 DEF AllowRules, AllowLists, G
      <3> QED BY <2>1, <2>2, <2>3, <3>2, <3>4
    <2> QED BY <2>3, <2>4, <2>5, <2>6
  <1> QED BY <1>3, <1>4

\* The commands that are not about media types, or name none.
Plainly(r) == r.cmd \notin {"forbid", "allow"} \/ r.arg = Malformed

LEMMA PlainEffect ==
  ASSUME NEW r \in Requests, Plainly(r), NEW e \in Effects(r)
  PROVE  /\ e.list = list /\ IsReply(e.reply)
         /\ e.program \in Programs \cup {program} /\ e.switch \in {switch, ~switch}
         /\ r.cmd = "list" => e.reply = Value("types", GetForbiddenTypes(list))
  <1>1. \A l, p, s, reply : /\ Effect(l, p, s, reply).list = l /\ Effect(l, p, s, reply).program = p
                            /\ Effect(l, p, s, reply).switch = s /\ Effect(l, p, s, reply).reply = reply
    BY DEF Effect
  <1>2. r.cmd \in Cmds /\ (r.cmd = "set" => r.arg[1] \in Programs)
    BY RequestsAssumption
  <1>3. CASE r.cmd = "set"
    <2>1. PICK reply \in {ReplyOf(1, <<"advice">>), Empty} : e = Effect(list, r.arg[1], switch, reply)
      BY <1>3 DEF Effects
    <2> QED BY <1>1, <1>2, <1>3, <2>1, Replies
  <1>4. CASE r.cmd = "switch"
    <2>1. e = Effect(list, program, ~switch, Value("now", ~switch))
      BY <1>4 DEF Effects
    <2> QED BY <1>1, <1>4, <2>1, Replies
  <1>5. CASE r.cmd \notin {"set", "switch"}
    <2>1. \E reply : /\ e = Effect(list, program, switch, reply) /\ IsReply(reply)
                     /\ r.cmd = "list" => reply = Value("types", GetForbiddenTypes(list))
      <3>1. CASE r.cmd = "forbid"
        BY <3>1, Replies DEF Effects, Says, Plainly, ForbidMime
      <3>2. CASE r.cmd = "allow"
        BY <3>2, Replies DEF Effects, Says, Plainly, AllowMime
      <3>3. CASE r.cmd = "metric"
        <4>1. PICK reply \in {Value("count", current), Value("count", most), Error("metric")} :
                e = Effect(list, program, switch, reply)
          BY <3>3 DEF Effects, Says
        <4> QED BY <3>3, <4>1, Replies
      <3>4. CASE r.cmd = "auth"
        <4>1. PICK reply \in {Empty, Error("password")} : e = Effect(list, program, switch, reply)
          BY <3>4 DEF Effects, Says
        <4> QED BY <3>4, <4>1, Replies
      <3>5. CASE r.cmd = "list"
        BY <3>5, Replies DEF Effects, Says
      <3>6. CASE r.cmd = "get"
        BY <3>6, Replies DEF Effects, Says
      <3>7. CASE r.cmd = "version"
        BY <3>7, Replies DEF Effects, Says
      <3>8. CASE r.cmd = "quit"
        BY <3>8, Replies DEF Effects, Says
      <3> QED BY <1>2, <1>5, <3>1, <3>2, <3>3, <3>4, <3>5, <3>6, <3>7, <3>8 DEF Cmds
    <2> QED BY <1>1, <1>5, <2>1
  <1> QED BY <1>3, <1>4, <1>5

-----------------------------------------------------------------------------
\* The inductive invariant of the types.
Typed ==
  /\ Types
  /\ writing \in Admins \cup {Nobody} /\ died \in BOOLEAN /\ left \subseteq Admins
  /\ TypedList(list) /\ program \in Programs \cup {"cat"} /\ switch \in BOOLEAN
  /\ current \in Int /\ most \in Int
  /\ inbox \in [Admins -> Seq(Requests)] /\ IsSeq(answers)
  /\ \A a \in Admins : /\ IsReply(due[a]) /\ IsSeq(told[a])
                       /\ \A i \in 1..Len(told[a]) : IsReply(told[a][i])

LEMMA EffectTyped ==
  ASSUME TypedList(list), program \in Programs \cup {"cat"}, switch \in BOOLEAN,
         NEW r \in Requests, NEW e \in Effects(r)
  PROVE  /\ TypedList(e.list) /\ e.program \in Programs \cup {"cat"} /\ e.switch \in BOOLEAN
         /\ IsReply(e.reply)
  <1>1. CASE Plainly(r)
    BY <1>1, PlainEffect
  <1>2. CASE ~Plainly(r)
    <2>1. r.arg \in Pair /\ r.arg # Malformed
      BY <1>2, RequestsAssumption DEF Plainly, Pair
    <2>2. e \in ForbidMime(r.arg) \/ e \in AllowMime(r.arg)
      BY <1>2 DEF Plainly, Effects
    <2>3. e = Effect(e.list, program, switch, e.reply) /\ IsReply(e.reply) /\ TypedList(e.list)
      BY <2>1, <2>2, ForbidEffect, AllowEffect
    <2>4. e.program = program /\ e.switch = switch
      BY <2>3 DEF Effect
    <2> QED BY <2>3, <2>4
  <1> QED BY <1>1, <1>2

LEMMA ReceivesTyped ==
  ASSUME Typed, NEW a \in Admins, NEW reply, IsReply(reply), Receives(a, reply)
  PROVE  /\ DOMAIN told' = Admins
         /\ \A b \in Admins : /\ IsSeq(told'[b])
                              /\ \A i \in 1..Len(told'[b]) : IsReply(told'[b][i])
  <1>1. DOMAIN told = Admins /\ DOMAIN told' = Admins
    BY DEF Typed, Types, Receives
  <1>2. \A b \in Admins : told'[b] \in {told[b], Append(told[b], reply)}
    BY <1>1 DEF Receives
  <1>3. ASSUME NEW b \in Admins
        PROVE  /\ IsSeq(told'[b])
               /\ \A i \in 1..Len(told'[b]) : IsReply(told'[b][i])
    <2>1. PICK s : s = told[b]
      OBVIOUS
    <2>2. IsSeq(s) /\ \A i \in 1..Len(s) : IsReply(s[i])
      BY <2>1 DEF Typed
    <2>3. PICK t : t = Append(s, reply)
      OBVIOUS
    <2>4. /\ IsSeq(t) /\ Len(s) \in Nat /\ Len(t) = Len(s) + 1 /\ t[Len(s) + 1] = reply
          /\ \A i \in 1..Len(s) : t[i] = s[i]
      BY <2>2, <2>3, AppendIsSeq
    <2>5. \A i \in 1..Len(t) : i \in 1..Len(s) \/ i = Len(s) + 1
      BY <2>4
    <2>6. \A i \in 1..Len(t) : IsReply(t[i])
      BY <2>2, <2>4, <2>5
    <2>7. told'[b] = s \/ told'[b] = t
      BY <1>2, <2>1, <2>3
    <2> QED BY <2>2, <2>4, <2>6, <2>7
  <1> QED BY <1>1, <1>3

LEMMA TypedKept ==
  ASSUME Typed, [Next]_vars
  PROVE  Typed'
  <1> USE DEF history
  <1>1. ASSUME NEW a \in Admins, Accept(a) PROVE Typed'
    <2>1. /\ conn' \in {[conn EXCEPT ![a] = "registered"], [conn EXCEPT ![a] = "closed"]}
          /\ interest' \in {interest, [interest EXCEPT ![a] = "WRITE"]}
          /\ current' = current + 1 /\ most' \in {most, current'}
          /\ UNCHANGED <<greeted, due, failed, quit, writing, settings, died, inbox, told, left, history>>
      BY <1>1 DEF Accept, Counted
    <2>2. Types'
      BY <2>1 DEF Typed, Types
    <2>3. current' \in Int /\ most' \in Int
      BY <2>1 DEF Typed
    <2> QED BY <2>1, <2>2, <2>3 DEF Typed, settings
  <1>2. ASSUME NEW a \in Admins, ReadRequest(a) PROVE Typed'
    <2> DEFINE r == Head(inbox[a])
    <2>1. PICK e \in Effects(r) :
            /\ list' = e.list /\ program' = e.program /\ switch' = e.switch
            /\ due' = [due EXCEPT ![a] = e.reply]
            /\ quit' = [quit EXCEPT ![a] = r.cmd = "quit"]
            /\ answers' = Append(answers, [admin |-> a, req |-> r, reply |-> e.reply])
            /\ replies' = [replies EXCEPT ![a] = Append(@, e.reply)]
      BY <1>2 DEF ReadRequest
    <2>2. /\ inbox[a] # <<>> /\ inbox' = [inbox EXCEPT ![a] = Tail(@)]
          /\ interest' = [interest EXCEPT ![a] = "WRITE"]
          /\ UNCHANGED <<conn, greeted, failed, writing, metrics, died, told, left>>
      BY <1>2 DEF ReadRequest, Answering
    <2>3. r \in Requests /\ inbox' \in [Admins -> Seq(Requests)]
      <3>1. inbox[a] \in Seq(Requests)
        BY DEF Typed
      <3>2. Tail(inbox[a]) \in Seq(Requests) /\ Head(inbox[a]) \in Requests
        BY <2>2, <3>1, HeadTailProperties
      <3> QED BY <2>2, <3>2 DEF Typed
    <2> HIDE DEF r
    <2>4. /\ TypedList(e.list) /\ e.program \in Programs \cup {"cat"} /\ e.switch \in BOOLEAN
          /\ IsReply(e.reply)
      BY <2>3, EffectTyped DEF Typed
    <2>5. IsSeq(answers')
      BY <2>1, AppendIsSeq DEF Typed
    <2>6. Types'
      BY <2>1, <2>2 DEF Typed, Types
    <2>7. /\ writing' \in Admins \cup {Nobody} /\ died' \in BOOLEAN /\ left' \subseteq Admins
          /\ current' \in Int /\ most' \in Int
      BY <2>2 DEF Typed, metrics
    <2>8. ASSUME NEW b \in Admins
          PROVE  /\ IsReply(due'[b]) /\ IsSeq(told'[b])
                 /\ \A i \in 1..Len(told'[b]) : IsReply(told'[b][i])
      BY <2>1, <2>2, <2>4 DEF Typed, Types
    <2> QED BY <2>1, <2>3, <2>4, <2>5, <2>6, <2>7, <2>8 DEF Typed
  <1>3. ASSUME NEW a \in Admins, ReadNothing(a) PROVE Typed'
    BY <1>3, Replies DEF ReadNothing, Answering, Typed, Types, settings, metrics
  <1>4. ASSUME NEW a \in Admins, Sent(a) PROVE Typed'
    <2>1. Receives(a, Outgoing(a))
      BY <1>4 DEF Sent
    <2>2. IsReply(Outgoing(a))
      <3>1. IsReply(due[a]) /\ IsReply([due[a] EXCEPT !.status = 0])
        BY Replies DEF Typed
      <3> QED BY <3>1, Replies DEF Outgoing
    <2>3. /\ DOMAIN told' = Admins
          /\ \A b \in Admins : /\ IsSeq(told'[b])
                               /\ \A i \in 1..Len(told'[b]) : IsReply(told'[b][i])
      BY <2>1, <2>2, ReceivesTyped
    <2>4. /\ greeted' = [greeted EXCEPT ![a] = TRUE]
          /\ writing' \in {a, Nobody}
          /\ interest' \in {interest, [interest EXCEPT ![a] = "READ"]}
          /\ due' \in {due, [due EXCEPT ![a] = Empty]}
          /\ UNCHANGED <<conn, failed, quit, settings, metrics, died, inbox, left, history>>
      BY <1>4 DEF Sent, Reading
    <2>5. Types'
      BY <2>3, <2>4 DEF Typed, Types
    <2>6. \A b \in Admins : IsReply(due'[b])
      BY <2>4, Replies DEF Typed, Types
    <2> QED BY <2>3, <2>4, <2>5, <2>6 DEF Typed, settings, metrics
  <1>5. ASSUME NEW a \in Admins, NotSent(a) PROVE Typed'
    <2>1. died' \in BOOLEAN
      <3>1. died' \in {FALSE, (a \in left)}
        BY <1>5, Zenon DEF NotSent
      <3>2. {FALSE, (a \in left)} \subseteq BOOLEAN
        OBVIOUS
      <3> QED BY <3>1, <3>2
    <2>2. /\ failed' = [failed EXCEPT ![a] = TRUE] /\ writing' = a
          /\ UNCHANGED <<conn, interest, greeted, due, quit, settings, metrics, inbox, told, left, history>>
      BY <1>5 DEF NotSent
    <2>3. Types'
      BY <2>2 DEF Typed, Types
    <2> QED BY <2>1, <2>2, <2>3 DEF Typed, settings, metrics
  <1>6. ASSUME NEW a \in Admins, Quit(a) PROVE Typed'
    <2>1. Receives(a, Empty) \/ UNCHANGED told
      BY <1>6 DEF Quit
    <2>2. /\ DOMAIN told' = Admins
          /\ \A b \in Admins : /\ IsSeq(told'[b])
                               /\ \A i \in 1..Len(told'[b]) : IsReply(told'[b][i])
      BY <2>1, Replies, ReceivesTyped DEF Typed, Types
    <2>3. /\ conn' = [conn EXCEPT ![a] = "closed"]
          /\ interest' = [interest EXCEPT ![a] = "NOOP"]
          /\ current' = current - 1
          /\ UNCHANGED <<greeted, due, failed, quit, writing, settings, most, inbox, left, history>>
      BY <1>6 DEF Quit
    <2>4. Types'
      BY <2>2, <2>3 DEF Typed, Types
    <2>5. died' \in BOOLEAN
      <3>1. died' \in {FALSE, (a \in left)} \/ died' = died
        BY <1>6, Zenon DEF Quit
      <3>2. {FALSE, (a \in left)} \subseteq BOOLEAN /\ died \in BOOLEAN
        BY DEF Typed
      <3> QED BY <3>1, <3>2
    <2> QED BY <2>2, <2>3, <2>4, <2>5 DEF Typed, settings
  <1>7. ASSUME NEW a \in Admins, NEW r \in Requests, SendRequest(a, r) PROVE Typed'
    <2>1. inbox' \in [Admins -> Seq(Requests)]
      <3>1. Append(inbox[a], r) \in Seq(Requests)
        BY AppendProperties DEF Typed
      <3> QED BY <1>7, <3>1 DEF SendRequest, Typed
    <2> QED BY <1>7, <2>1 DEF SendRequest, Typed, Types, session, settings, metrics
  <1>8. ASSUME NEW a \in Admins, AdminLeaves(a) PROVE Typed'
    BY <1>8 DEF AdminLeaves, Typed, Types, session, settings, metrics
  <1>9. CASE UNCHANGED vars
    BY <1>9 DEF vars, Typed, Types, session, settings, metrics
  <1> QED BY <1>1, <1>2, <1>3, <1>4, <1>5, <1>6, <1>7, <1>8, <1>9
          DEF Next, ServerNext, Handler, AdminSend

LEMMA InitTyped == Init => Typed
  <1> SUFFICES ASSUME Init PROVE Typed
    OBVIOUS
  <1>1. TypedList(list)
    BY CommandLineIs DEF Init
  <1>2. IsReply(Empty) /\ IsSeq(<<>>) /\ Len(<<>>) = 0 /\ <<>> \in Seq(Requests)
    BY Replies, EmptyIsSeq, EmptySeq
  <1>3. Types
    BY DEF Init, Types
  <1>4. \A a \in Admins : due[a] = Empty /\ told[a] = <<>>
    BY DEF Init
  <1>5. inbox \in [Admins -> Seq(Requests)] /\ answers = <<>>
    BY <1>2 DEF Init
  <1>6. \A a \in Admins : /\ IsReply(due[a]) /\ IsSeq(told[a])
                          /\ \A i \in 1..Len(told[a]) : IsReply(told[a][i])
    BY <1>2, <1>4
  <1>7. /\ writing \in Admins \cup {Nobody} /\ died \in BOOLEAN /\ left \subseteq Admins
        /\ program \in Programs \cup {"cat"} /\ switch \in BOOLEAN
        /\ current \in Int /\ most \in Int
    <2>1. died \in BOOLEAN /\ switch \in BOOLEAN
      BY Zenon DEF Init
    <2>2. writing \in Admins \cup {Nobody} /\ left \subseteq Admins
      BY Zenon DEF Init
    <2>3. program \in Programs \cup {"cat"}
      BY Zenon DEF Init
    <2>4. current \in Int /\ most \in Int
      BY DEF Init
    <2> QED BY <2>1, <2>2, <2>3, <2>4
  <1> QED BY <1>1, <1>2, <1>3, <1>5, <1>6, <1>7 DEF Typed

\* The states of the service have their types, and a type whose subtypes are all
\* forbidden lists none of them, whatever is asked and whoever goes.
THEOREM AdminTyped == Spec => []TypeOK
  <1>1. Typed => TypeOK
    <2> SUFFICES ASSUME Typed PROVE TypeOK
      OBVIOUS
    <2>1. list \in Seq(Nodes) /\ \A i \in 1..Len(list) : list[i].wildcard => list[i].subs = <<>>
      BY DEF Typed, TypedList, TypedNode
    <2>2. \A a \in Admins : {due[a].status} \cup {told[a][i].status : i \in 1..Len(told[a])} \subseteq {0, 1}
      BY DEF Typed, IsReply
    <2> QED BY <2>1, <2>2 DEF Typed, Types, TypeOK
  <1> QED BY <1>1, InitTyped, TypedKept, PTL DEF Spec

-----------------------------------------------------------------------------
(* The step to the abstract filter.                                        *)

LEMMA MimeAnswersKept == MimeAnswers = Kept(answers)
  BY DEF MimeAnswers, Kept

LEMMA MimeAnswersNext == MimeAnswers' = Kept(answers')
  BY DEF MimeAnswers, Kept

LEMMA StarIs ==
  ASSUME NEW r \in Pair, NEW G
  PROVE  /\ r = Filter!Whole(r) <=> r[2] = AnySub
         /\ Filter!Whole(r) = <<r[1], AnySub>> /\ Filter!Namesake(r) = <<r[1], r[1]>>
         /\ Purged(G, r) = IF r[2] = AnySub THEN Filter!Others(G, r) ELSE G
  <1>1. PICK t, s : r[1] = t /\ r[2] = s /\ r = <<t, s>>
    BY PairOf
  <1>2. \A x, y, z : <<x, y>> = <<z, y>> <=> x = z
    OBVIOUS
  <1>3. \A x, y, z : <<x, y>> = <<x, z>> <=> y = z
    OBVIOUS
  <1>4. Filter!Whole(r) = <<t, AnySub>> /\ \A q : Filter!Whole(q) = <<q[1], AnySub>>
    BY <1>1 DEF Filter!Whole, Filter!Star, AnySub
  <1>5. r = Filter!Whole(r) <=> s = AnySub
    BY <1>1, <1>3, <1>4
  <1>6. \A q : Filter!Whole(q) # Filter!Whole(r) <=> q[1] # t
    BY <1>2, <1>4
  <1>7. Filter!Others(G, r) = {q \in G : q[1] # t}
    BY <1>6 DEF Filter!Others
  <1>8. Filter!Namesake(r) = <<r[1], r[1]>>
    BY DEF Filter!Namesake
  <1> QED BY <1>1, <1>4, <1>5, <1>7, <1>8 DEF Purged

\* A step of the service is one of the abstract filter, or leaves it alone.
LEMMA RulesKept ==
  ASSUME Typed, [Next]_vars
  PROVE  [Filter!Next]_(Filter!vars)
  <1>1. CASE UNCHANGED <<list, answers>>
    <2>1. /\ GetForbiddenTypes(list)' = GetForbiddenTypes(list) /\ Doubled(list)' = Doubled(list)
          /\ MimeAnswers' = MimeAnswers
      BY <1>1, MimeAnswersKept, MimeAnswersNext
    <2> QED BY <1>1, <2>1 DEF Filter!vars
  <1>2. ASSUME NEW a \in Admins, ReadRequest(a) PROVE [Filter!Next]_(Filter!vars)
    <2> DEFINE r == Head(inbox[a])
               G == GetForbiddenTypes(list)
               D == Doubled(list)
               H == GetForbiddenTypes(list')
               E == Doubled(list')
    <2>1. PICK e \in Effects(r) :
            list' = e.list /\ answers' = Append(answers, [admin |-> a, req |-> r, reply |-> e.reply])
      BY <1>2 DEF ReadRequest
    <2>2. r \in Requests
      <3>1. inbox[a] \in Seq(Requests) /\ inbox[a] # <<>>
        BY <1>2 DEF Typed, ReadRequest
      <3> QED BY <3>1, HeadTailProperties
    <2> DEFINE x == [admin |-> a, req |-> r, reply |-> e.reply]
    <2>3. MimeAnswers' = IF AboutMime(x) THEN Append(MimeAnswers, MimeAnswer(x)) ELSE MimeAnswers
      <3> HIDE DEF x
      <3>1. IsSeq(answers)
        BY DEF Typed
      <3>2. Kept(answers') = IF AboutMime(x) THEN Append(Kept(answers), MimeAnswer(x)) ELSE Kept(answers)
        BY <2>1, <3>1, KeptAppend DEF x
      <3> QED BY <3>2, MimeAnswersKept, MimeAnswersNext
    <2>4. x.req = r /\ x.reply = e.reply
      OBVIOUS
    <2> HIDE DEF x, r
    <2>5. CASE Plainly(r) /\ r.cmd # "list"
      <3>1. list' = list
        BY <2>1, <2>2, <2>5, PlainEffect
      <3>2. ~AboutMime(x)
        BY <2>4, <2>5 DEF AboutMime, Plainly
      <3> QED BY <2>3, <3>1, <3>2 DEF Filter!vars
    <2>6. CASE r.cmd = "list"
      <3>1. list' = list /\ e.reply = Value("types", G)
        BY <2>1, <2>2, <2>6, PlainEffect DEF Plainly
      <3>2. e.reply.data[2] = G
        BY <3>1 DEF Value, ReplyOf
      <3>3. AboutMime(x) /\ MimeAnswer(x) = [op |-> "list", rule |-> <<>>, result |-> G]
        BY <2>4, <2>6, <3>2 DEF AboutMime, MimeAnswer
      <3>4. Filter!List
        BY <2>3, <3>1, <3>3 DEF Filter!List, Filter!Declined, Filter!Told
      <3> QED BY <3>1, <3>4 DEF Filter!Next
    <2>7. CASE ~Plainly(r)
      <3> DEFINE p == r.arg
                 res == Result(e.reply)
      <3>1. p \in Pair /\ p # Malformed /\ p \in Named /\ r.cmd \in {"forbid", "allow"}
        BY <2>2, <2>7, RequestsAssumption DEF Plainly, Pair, Named, Pairs
      <3>2. /\ AboutMime(x) /\ MimeAnswer(x) = [op |-> r.cmd, rule |-> p, result |-> res]
        BY <2>4, <2>7, <3>1 DEF AboutMime, MimeAnswer, Plainly
      <3>3. /\ GetForbiddenTypes(list)' = H /\ Doubled(list)' = E
            /\ MimeAnswers' = Append(MimeAnswers, [op |-> r.cmd, rule |-> p, result |-> res])
        BY <2>3, <3>2
      <3>4. /\ p = Filter!Whole(p) <=> p[2] = AnySub
            /\ Filter!Whole(p) = <<p[1], AnySub>> /\ Filter!Namesake(p) = <<p[1], p[1]>>
            /\ Purged(G, p) = IF p[2] = AnySub THEN Filter!Others(G, p) ELSE G
            /\ Purged(D, p) = IF p[2] = AnySub THEN Filter!Others(D, p) ELSE D
        BY <3>1, StarIs
      <3> HIDE DEF p, res, G, D, H, E
      <3>5. CASE r.cmd = "forbid"
        <4>1. e \in ForbidMime(p)
          BY <3>5 DEF Effects, p
        <4>2. ForbidLists(list, p, e.list, Result(e.reply))
          BY <3>1, <4>1, ForbidEffect DEF Typed
        <4>3. ForbidRules(G, D, p, H, E, res)
          BY <2>1, <4>2 DEF ForbidLists, G, D, H, E, res
        <4>4. Filter!Told("forbid", p, res)
          BY <3>3, <3>5 DEF Filter!Told
        <4>5. Filter!Forbid(p)
          <5>1. CASE H = G /\ E = D
            BY <3>3, <3>4, <4>3, <4>4, <5>1
               DEF Filter!Forbid, Filter!Declined, ForbidRules, G, D, WithRule
          <5>2. CASE H # G \/ E # D
            <6>1. ~Filter!Forbids(G, p) /\ res = "ok" /\ H = Purged(G, p) \cup {p} /\ E = Purged(D, p)
                  /\ (p[2] = AnySub \/ <<p[1], p[1]>> \notin G)
              BY <4>3, <5>2 DEF ForbidRules, WithRule
            <6> QED BY <3>3, <3>4, <4>4, <6>1 DEF Filter!Forbid, G, D
          <5> QED BY <5>1, <5>2
        <4> QED BY <3>1, <4>5 DEF Filter!Next
      <3>6. CASE r.cmd = "allow"
        <4>1. e \in AllowMime(p)
          BY <3>6 DEF Effects, p
        <4>2. AllowLists(list, p, e.list, Result(e.reply))
          BY <3>1, <4>1, AllowEffect DEF Typed
        <4>3. AllowRules(G, D, p, H, E, res)
          BY <2>1, <4>2 DEF AllowLists, G, D, H, E, res
        <4>4. Filter!Told("allow", p, res)
          BY <3>3, <3>6 DEF Filter!Told
        <4>5. Filter!Allow(p)
          BY <3>3, <3>4, <4>3, <4>4 DEF Filter!Allow, Filter!Declined, AllowRules, G, D
        <4> QED BY <3>1, <4>5 DEF Filter!Next
      <3> QED BY <3>1, <3>5, <3>6
    <2> QED BY <2>5, <2>6, <2>7
  <1>3. ASSUME NEW a \in Admins, Accept(a) \/ ReadNothing(a) \/ Sent(a) \/ NotSent(a) \/ Quit(a)
                                 \/ AdminSend(a) \/ AdminLeaves(a)
        PROVE  UNCHANGED <<list, answers>>
    BY <1>3 DEF Accept, ReadNothing, Sent, NotSent, Quit, AdminSend, SendRequest, AdminLeaves,
                settings, history
  <1>4. CASE UNCHANGED vars
    BY <1>1, <1>4 DEF vars, settings, history
  <1> QED BY <1>1, <1>2, <1>3, <1>4 DEF Next, ServerNext, Handler

LEMMA InitRules == Init => Filter!Init
  <1> SUFFICES ASSUME Init PROVE Filter!Init
    OBVIOUS
  <1>1. TypedList(list) /\ GetForbiddenTypes(list) \subseteq Named
    BY CommandLineIs DEF Init
  <1>2. Filter!Normal(GetForbiddenTypes(list)) /\ Doubled(list) \subseteq GetForbiddenTypes(list)
    BY <1>1, RulesAreNormal DEF Doubled
  <1>3. MimeAnswers = <<>>
    <2>1. answers = <<>> /\ IsSeq(<<>>) /\ Len(<<>>) = 0
      BY EmptyIsSeq DEF Init
    <2>2. PICK g : Keeps(g, <<>>) /\ Kept(<<>>) = g[Len(<<>>)]
      BY <2>1, KeptGoes
    <2>3. g[0] = <<>>
      BY <2>1, <2>2 DEF Keeps
    <2> QED BY <2>1, <2>2, <2>3, MimeAnswersKept
  <1> QED BY <1>1, <1>2, <1>3 DEF Filter!Init

\* The linked lists implement the set of rules, for any number of types, requests
\* and administrators and whatever the command line gives: every command on them
\* is told what the set says of it at the moment it takes effect, and the list
\* departs from a set only where MediaTypes says it may.
THEOREM FilterImplementsRules == Spec => FilterSpec
  <1>1. Init => Typed /\ Filter!Init
    BY InitTyped, InitRules
  <1>2. Typed /\ [Next]_vars => Typed'
    BY TypedKept
  <1>3. Typed /\ [Next]_vars => [Filter!Next]_(Filter!vars)
    BY RulesKept
  <1> QED BY <1>1, <1>2, <1>3, PTL DEF Spec, FilterSpec, Filter!Spec
=============================================================================
