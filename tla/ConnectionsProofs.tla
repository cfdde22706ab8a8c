------------------------- MODULE ConnectionsProofs -------------------------
(***************************************************************************)
(* Proofs about module Connections, for every set of descriptors and of    *)
(* structs and every size of the pool.  The safety invariants are proved   *)
(* together, from one inductive invariant, IInv: what a connection owns    *)
(* and is armed for is a function of the state of its machine, and nothing *)
(* but its own handlers changes it.                                        *)
(***************************************************************************)
EXTENDS Connections, Pop3StmProofs, FiniteSetTheorems

-----------------------------------------------------------------------------
(* The inductive invariant.                                                *)

\* One item is the listening socket's; a free item waits for nothing.
Listening ==
  /\ \A f \in Fds : owner[f] = Passive <=> f = PassiveFd
  /\ interest[PassiveFd] = "READ"
  /\ \A f \in Fds : owner[f] = Unused => interest[f] = "NOOP"

\* A live struct has its client's descriptor alone until the origin's socket is
\* registered, and from then on exactly these two.
Alone(s) ==
  /\ refs[s] = 1 /\ state[s] = "RESOLUTION" /\ originFd[s] = NoFd
  /\ \A f \in Fds : owner[f] = s <=> f = clientFd[s]
Paired(s, o) ==
  /\ refs[s] = 2 /\ state[s] # "RESOLUTION" /\ o # clientFd[s]
  /\ originFd[s] = IF state[s] = "CONNECTING" THEN NoFd ELSE o
  /\ \A f \in Fds : owner[f] = s <=> f \in {clientFd[s], o}
Matches(s, a) ==
  /\ interest[clientFd[s]] = a[1]
  /\ \A f \in Fds : owner[f] = s /\ f # clientFd[s] => interest[f] = a[2]

ShapeOf(s) ==
  IF life[s] = "live"
  THEN /\ clientFd[s] \in Fds
       /\ Alone(s) \/ \E o \in Fds : Paired(s, o)
       /\ \E a \in Armed(state[s]) : Matches(s, a)
  ELSE \A f \in Fds : owner[f] # s
Shapes == \A s \in Structs : ShapeOf(s)

\* A connection waits for one thread or one notification, never for two.
Awaited ==
  /\ \A t \in threads : Waits(t.conn, t.fd)
  /\ \A i \in 1..Len(jobs) : \E s \in Structs : Waits(s, jobs[i])
  /\ \A t, u \in threads : t.fd = u.fd => t = u
  /\ \A i, j \in 1..Len(jobs) : jobs[i] = jobs[j] => i = j
  /\ \A t \in threads, i \in 1..Len(jobs) : t.fd # jobs[i]

Ready == /\ ReadinessIsCurrent
         /\ phase # "iterate" => slaveR = {} /\ slaveW = {}

IInv == /\ TypeOK /\ Listening /\ Shapes /\ Awaited /\ Ready
        /\ OpenIffRegistered /\ NeverAborts

-----------------------------------------------------------------------------
(* Frames.                                                                 *)

\* What a step that concerns a struct s leaves alone: the other structs and
\* what they own.
Others(s) ==
  \A r \in Structs \ {s} :
    /\ (life'[r] = "live") <=> (life[r] = "live")
    /\ refs'[r] = refs[r] /\ state'[r] = state[r]
    /\ clientFd'[r] = clientFd[r] /\ originFd'[r] = originFd[r]
    /\ \A f \in Fds : owner'[f] = r <=> owner[f] = r
    /\ \A f \in Fds : owner[f] = r => interest'[f] = interest[f]

\* The invariant of every other struct is kept.
LEMMA OthersKeepShape ==
  ASSUME Shapes, NEW s \in Structs, Others(s), NEW r \in Structs \ {s}
  PROVE  ShapeOf(r)'
  <1>1. ShapeOf(r)
    BY DEF Shapes
  <1>2. CASE life[r] # "live"
    BY <1>1, <1>2 DEF ShapeOf, Others
  <1>3. CASE life[r] = "live"
    <2>1. /\ clientFd[r] \in Fds
          /\ Alone(r) \/ \E o \in Fds : Paired(r, o)
          /\ \E a \in Armed(state[r]) : Matches(r, a)
      BY <1>1, <1>3 DEF ShapeOf
    <2>2. owner[clientFd[r]] = r
      BY <2>1 DEF Alone, Paired
    <2>3. Alone(r) => Alone(r)'
      BY DEF Alone, Others
    <2>4. ASSUME NEW o \in Fds, Paired(r, o) PROVE Paired(r, o)'
      BY <2>4 DEF Paired, Others
    <2>5. PICK a \in Armed(state[r]) : Matches(r, a)
      BY <2>1
    <2>6. Matches(r, a)'
      BY <2>1, <2>2, <2>5 DEF Matches, Others
    <2>7. a \in Armed(state'[r])
      BY <2>5 DEF Others
    <2> QED BY <1>3, <2>1, <2>3, <2>4, <2>6, <2>7 DEF ShapeOf, Others
  <1> QED BY <1>2, <1>3

\* So is the wait of every other connection for its resolution.
LEMMA OthersKeepWaiting ==
  ASSUME NEW s \in Structs, Others(s), NEW r \in Structs \ {s}, NEW f \in Fds, Waits(r, f)
  PROVE  Waits(r, f)'
  BY DEF Others, Waits, Live

\* A descriptor belongs to one waiting connection only.
LEMMA WaitsUnique ==
  ASSUME NEW r \in Structs, NEW s \in Structs, NEW f, Waits(r, f), Waits(s, f)
  PROVE  r = s
  BY DEF Waits

\* A step on a connection that nobody waits for keeps the threads' and the
\* notifications' connections waiting.
LEMMA AwaitedKept ==
  ASSUME TypeOK, Awaited, NEW s \in Structs, Others(s),
         \A f \in Fds : ~Waits(s, f),
         threads' = threads, jobs' = jobs
  PROVE  Awaited'
  <1>1. \A t \in threads : t.conn \in Structs /\ t.fd \in Fds
    BY DEF TypeOK, Thread
  <1>2. \A i \in 1..Len(jobs) : jobs[i] \in Fds
    BY DEF TypeOK
  <1>3. \A r \in Structs, f \in Fds : Waits(r, f) => Waits(r, f)'
    BY OthersKeepWaiting
  <1>4. \A t \in threads' : Waits(t.conn, t.fd)'
    BY <1>1, <1>3 DEF Awaited
  <1>5. (\A i \in 1..Len(jobs) : \E r \in Structs : Waits(r, jobs[i]))'
    BY <1>2, <1>3 DEF Awaited
  <1> QED BY <1>4, <1>5 DEF Awaited

\* Handling the first notification ends the wait of its connection alone.
LEMMA AwaitedTaken ==
  ASSUME TypeOK, Awaited, NEW s \in Structs, Others(s),
         jobs # <<>>, Waits(s, Head(jobs)),
         threads' = threads, jobs' = Tail(jobs)
  PROVE  Awaited'
  <1>1. jobs \in Seq(Fds) /\ Len(jobs) \in Nat \ {0} /\ Head(jobs) = jobs[1]
    BY DEF TypeOK
  <1>2. /\ Len(jobs') = Len(jobs) - 1
        /\ \A i \in 1..Len(jobs') : i + 1 \in 1..Len(jobs) /\ jobs'[i] = jobs[i + 1]
    BY <1>1
  <1>3. \A t \in threads : t.conn \in Structs /\ t.fd \in Fds
    BY DEF TypeOK, Thread
  <1>4. ASSUME NEW t \in threads PROVE Waits(t.conn, t.fd)'
    <2>1. Waits(t.conn, t.fd) /\ t.fd # Head(jobs)
      BY <1>1 DEF Awaited
    <2>2. t.conn # s
      BY <2>1 DEF Waits
    <2> QED BY <1>3, <2>1, <2>2, OthersKeepWaiting
  <1>5. ASSUME NEW i \in 1..Len(jobs') PROVE (\E r \in Structs : Waits(r, jobs[i]))'
    <2>1. PICK r \in Structs : Waits(r, jobs[i + 1])
      BY <1>2 DEF Awaited
    <2>2. jobs[i + 1] \in Fds /\ jobs[i + 1] # jobs[1]
      BY <1>1, <1>2 DEF Awaited
    <2>3. r # s
      BY <1>1, <2>1, <2>2 DEF Waits
    <2> QED BY <1>2, <2>1, <2>2, <2>3, OthersKeepWaiting
  <1>6. \A i, j \in 1..Len(jobs') : jobs'[i] = jobs'[j] => i = j
    BY <1>1, <1>2 DEF Awaited
  <1>7. \A t \in threads', i \in 1..Len(jobs') : t.fd # jobs'[i]
    BY <1>2 DEF Awaited
  <1> QED BY <1>4, <1>5, <1>6, <1>7 DEF Awaited

\* What a step does to one struct, as module ConnectionControl sees it.
ControlStep(s) == Begins(s) \/ [Control(s)!Next]_(Control(s)!vars)

\* A step that concerns the struct s, and nothing of the others.
Concerns(s) == Others(s) /\ ControlStep(s)

\* A struct that relays nothing before the step nor behind it.
LEMMA NotRelaying ==
  ASSUME NEW s, ~Relays(s), ~Relays(s)'
  PROVE  ControlStep(s)
  BY DEF ControlStep, Control!vars, ControlState, ControlArmed

\* The descriptors of a pair are its client's and its origin's.
LEMMA OriginItemIs ==
  /\ \A s \in Structs, o \in Fds : Paired(s, o) => OriginItem(s) = o
  /\ \A s \in Structs, o \in Fds : Paired(s, o)' => OriginItem(s)' = o
  <1>1. ASSUME NEW s \in Structs, NEW o \in Fds, Paired(s, o) PROVE OriginItem(s) = o
    <2>1. OwnedBy(s) \ {clientFd[s]} = {o}
      BY <1>1 DEF Paired, OwnedBy
    <2> QED BY <2>1 DEF OriginItem
  <1>2. ASSUME NEW s \in Structs, NEW o \in Fds, Paired(s, o)' PROVE OriginItem(s)' = o
    <2>1. OwnedBy(s)' \ {clientFd'[s]} = {o}
      BY <1>2 DEF Paired, OwnedBy
    <2> QED BY <2>1 DEF OriginItem
  <1> QED BY <1>1, <1>2

\* What leaves alone all that ConnectionControl sees of a struct.
Untouched(r) ==
  /\ (life'[r] = "live") <=> (life[r] = "live")
  /\ state'[r] = state[r] /\ clientFd'[r] = clientFd[r]
  /\ \A f \in Fds : owner'[f] = r <=> owner[f] = r
  /\ \A f \in Fds : owner[f] = r => interest'[f] = interest[f]

LEMMA UntouchedStutters ==
  ASSUME Shapes, NEW r \in Structs, Untouched(r)
  PROVE  ControlStep(r)
  <1>1. CASE ~Relays(r)
    <2>1. ~Relays(r)'
      BY <1>1 DEF Relays, Live, Untouched
    <2> QED BY <1>1, <2>1, NotRelaying
  <1>2. CASE Relays(r)
    <2>1. life[r] = "live" /\ state[r] # "RESOLUTION" /\ Relays(r)'
      BY <1>2 DEF Relays, Live, Untouched
    <2>2. PICK o \in Fds : Paired(r, o)
      BY <2>1 DEF Shapes, ShapeOf, Alone
    <2>3. clientFd[r] \in Fds
      BY <2>1 DEF Shapes, ShapeOf
    <2>4. o # clientFd[r] /\ o # clientFd'[r] /\ owner[o] = r /\ owner[clientFd[r]] = r
      BY <2>2, <2>3 DEF Paired, Untouched
    <2>5. OriginItem(r) = o
      BY <2>2, OriginItemIs
    <2>6. OriginItem(r)' = o
      <3>1. OwnedBy(r)' \ {clientFd'[r]} = {o}
        BY <2>2 DEF Paired, OwnedBy, Untouched
      <3> QED BY <3>1 DEF OriginItem
    <2>7. interest'[clientFd'[r]] = interest[clientFd[r]] /\ interest'[o] = interest[o]
      BY <2>3, <2>4 DEF Untouched
    <2>8. ControlState(r) = state[r] /\ ControlState(r)' = state[r]
      BY <1>2, <2>1 DEF ControlState, Untouched
    <2>9. ControlArmed(r)' = ControlArmed(r)
      BY <1>2, <2>1, <2>5, <2>6, <2>7 DEF ControlArmed
    <2> QED BY <2>8, <2>9 DEF ControlStep, Control!vars
  <1> QED BY <1>1, <1>2

\* So it is a step of every connection's control.
LEMMA ConcernsOne ==
  ASSUME Shapes, NEW s \in Structs, Concerns(s)
  PROVE  \A r \in Structs : ControlStep(r)
  <1>1. ASSUME NEW r \in Structs \ {s} PROVE ControlStep(r)
    <2>1. Untouched(r)
      BY DEF Concerns, Others, Untouched
    <2> QED BY <2>1, UntouchedStutters
  <1> QED BY <1>1 DEF Concerns

-----------------------------------------------------------------------------
(* Closing.                                                                *)

\* Exactly the client's and, unless it is NoFd, the origin's descriptor are
\* registered with s, and it counts them.
Holds(s, origin) ==
  /\ life[s] = "live" /\ clientFd[s] \in Fds
  /\ IF origin = NoFd
     THEN refs[s] = 1 /\ \A f \in Fds : owner[f] = s <=> f = clientFd[s]
     ELSE /\ refs[s] = 2 /\ origin \in Fds /\ origin # clientFd[s]
          /\ \A f \in Fds : owner[f] = s <=> f \in {clientFd[s], origin}

\* pop3_destroy, on an image of the heap.
LEMMA DestroyType ==
  ASSUME NEW h, NEW s \in Structs,
         h.life \in [Structs -> {"free", "live", "pooled"}],
         h.refs \in [Structs -> Nat], h.refs[s] # 0, h.poolSize \in 0..MaxPool,
         h = [life |-> h.life, refs |-> h.refs, poolSize |-> h.poolSize]
  PROVE  LET d == Destroy(h, s) IN
         /\ d = [life |-> d.life, refs |-> d.refs, poolSize |-> d.poolSize]
         /\ d.life \in [Structs -> {"free", "live", "pooled"}]
         /\ d.refs \in [Structs -> Nat]
         /\ d.poolSize \in 0..MaxPool
         /\ \A r \in Structs \ {s} : d.life[r] = h.life[r] /\ d.refs[r] = h.refs[r]
         /\ h.refs[s] = 1 => \/ d.life[s] = "pooled" /\ d.poolSize = h.poolSize + 1
                             \/ d.life[s] = "free" /\ d.poolSize = h.poolSize
         /\ h.refs[s] # 1 => /\ d.life[s] = h.life[s] /\ d.refs[s] = h.refs[s] - 1
                             /\ d.poolSize = h.poolSize
  <1> USE StructsAssumption
  <1>1. CASE h.refs[s] # 1
    <2>1. Destroy(h, s) = [h EXCEPT !.refs[s] = @ - 1]
      BY <1>1 DEF Destroy
    <2>2. Destroy(h, s) = [life |-> h.life, refs |-> [h.refs EXCEPT ![s] = @ - 1],
                           poolSize |-> h.poolSize]
      BY <2>1
    <2> QED BY <1>1, <2>2
  <1>2. CASE h.refs[s] = 1 /\ h.poolSize < MaxPool
    <2>1. Destroy(h, s) = [h EXCEPT !.life[s] = "pooled", !.poolSize = @ + 1]
      BY <1>2 DEF Destroy, HasPoolRoom
    <2>2. Destroy(h, s) = [life |-> [h.life EXCEPT ![s] = "pooled"], refs |-> h.refs,
                           poolSize |-> h.poolSize + 1]
      BY <2>1
    <2> QED BY <1>2, <2>2
  <1>3. CASE h.refs[s] = 1 /\ ~(h.poolSize < MaxPool)
    <2>1. Destroy(h, s) = [h EXCEPT !.life[s] = "free"]
      BY <1>3 DEF Destroy, HasPoolRoom
    <2>2. Destroy(h, s) = [life |-> [h.life EXCEPT ![s] = "free"], refs |-> h.refs,
                           poolSize |-> h.poolSize]
      BY <2>1
    <2> QED BY <1>3, <2>2
  <1> QED BY <1>1, <1>2, <1>3

\* What closing does: the struct is released, its descriptors are free and
\* closed, and nothing else changes.
Released(s) ==
  /\ aborted' = aborted
  /\ concurrent' = concurrent - 1 /\ concurrent' \in Int /\ useAfterFree' \in BOOLEAN
  /\ life' \in [Structs -> {"free", "live", "pooled"}]
  /\ refs' \in [Structs -> Nat] /\ poolSize' \in 0..MaxPool
  /\ \/ life'[s] = "pooled" /\ poolSize' = poolSize + 1
     \/ life'[s] = "free" /\ poolSize' = poolSize
  /\ \A r \in Structs \ {s} : life'[r] = life[r] /\ refs'[r] = refs[r]
  /\ owner' = [f \in Fds |-> IF owner[f] = s THEN Unused ELSE owner[f]]
  /\ interest' = [f \in Fds |-> IF owner[f] = s THEN "NOOP" ELSE interest[f]]
  /\ open' = open \ {f \in Fds : owner[f] = s}

\* pop3_done finds both descriptors registered, so it does not abort, and the
\* last of them takes the last reference.
LEMMA PopDoneReleases ==
  ASSUME TypeOK, NEW s \in Structs, NEW origin \in Fds \cup {NoFd},
         Holds(s, origin), PopDone(s, origin)
  PROVE  Released(s)
  <1> DEFINE client == clientFd[s]
             fds    == IF origin = NoFd THEN {client} ELSE {client, origin}
             first  == Unregistered(Heap, client)
             last   == IF origin = NoFd THEN first ELSE Unregistered(first, origin)
  <1>1. NoFd \notin Fds
    BY FdsAssumption DEF NoFd
  <1>2. /\ client \in Fds /\ client # origin
        /\ fds = {f \in Fds : owner[f] = s}
    BY <1>1 DEF Holds
  <1>3. owner[client] = s /\ \A f \in fds : owner[f] # Unused
    BY <1>2, StructsAssumption DEF Holds
  <1>4. first = Destroy(Heap, s)
    BY <1>2, <1>3 DEF Unregistered
  <1>5. /\ last.life \in [Structs -> {"free", "live", "pooled"}]
        /\ last.refs \in [Structs -> Nat] /\ last.poolSize \in 0..MaxPool
        /\ \/ last.life[s] = "pooled" /\ last.poolSize = poolSize + 1
           \/ last.life[s] = "free" /\ last.poolSize = poolSize
        /\ \A r \in Structs \ {s} : last.life[r] = life[r] /\ last.refs[r] = refs[r]
    <2>1. /\ Heap.life = life /\ Heap.refs = refs /\ Heap.poolSize = poolSize
          /\ Heap = [life |-> Heap.life, refs |-> Heap.refs, poolSize |-> Heap.poolSize]
      BY DEF Heap
    <2>2. /\ Heap.life \in [Structs -> {"free", "live", "pooled"}]
          /\ Heap.refs \in [Structs -> Nat] /\ Heap.poolSize \in 0..MaxPool
      BY <2>1 DEF TypeOK
    <2>3. CASE origin = NoFd
      <3>1. Heap.refs[s] = 1 /\ last = Destroy(Heap, s)
        BY <2>1, <2>3, <1>4 DEF Holds
      <3>2. /\ last.life \in [Structs -> {"free", "live", "pooled"}]
            /\ last.refs \in [Structs -> Nat] /\ last.poolSize \in 0..MaxPool
            /\ \/ last.life[s] = "pooled" /\ last.poolSize = Heap.poolSize + 1
               \/ last.life[s] = "free" /\ last.poolSize = Heap.poolSize
            /\ \A r \in Structs \ {s} :
                  last.life[r] = Heap.life[r] /\ last.refs[r] = Heap.refs[r]
        <4> HIDE DEF last
        <4> QED BY <2>1, <2>2, <3>1, DestroyType
      <3> QED BY <2>1, <3>2
    <2>4. CASE origin # NoFd
      <3>1. /\ Heap.refs[s] = 2 /\ owner[origin] = s
            /\ last = Destroy(first, s)
        BY <2>1, <2>4, <1>3 DEF Holds, Unregistered
      <3>2. /\ first = [life |-> first.life, refs |-> first.refs, poolSize |-> first.poolSize]
            /\ first.life \in [Structs -> {"free", "live", "pooled"}]
            /\ first.refs \in [Structs -> Nat] /\ first.poolSize \in 0..MaxPool
            /\ \A r \in Structs \ {s} :
                  first.life[r] = Heap.life[r] /\ first.refs[r] = Heap.refs[r]
            /\ first.refs[s] = 1 /\ first.poolSize = Heap.poolSize
        <4> HIDE DEF first
        <4> QED BY <2>1, <2>2, <3>1, <1>4, DestroyType
      <3>3. /\ last.life \in [Structs -> {"free", "live", "pooled"}]
            /\ last.refs \in [Structs -> Nat] /\ last.poolSize \in 0..MaxPool
            /\ \/ last.life[s] = "pooled" /\ last.poolSize = first.poolSize + 1
               \/ last.life[s] = "free" /\ last.poolSize = first.poolSize
            /\ \A r \in Structs \ {s} :
                  last.life[r] = first.life[r] /\ last.refs[r] = first.refs[r]
        <4> HIDE DEF first, last
        <4> QED BY <3>1, <3>2, DestroyType
      <3> HIDE DEF first, last
      <3> QED BY <2>1, <3>2, <3>3
    <2> QED BY <2>3, <2>4
  <1>6. /\ concurrent' = concurrent - 1
        /\ owner' = [fd \in Fds |-> IF fd \in fds THEN Unused ELSE owner[fd]]
        /\ interest' = [fd \in Fds |-> IF fd \in fds THEN "NOOP" ELSE interest[fd]]
        /\ open' = open \ fds
        /\ HeapIs(last)
        /\ useAfterFree' = (useAfterFree \/ last.life[s] = "free")
        /\ aborted' = aborted
    BY <1>2, <1>3 DEF PopDone, Closed
  <1>7. life' = last.life /\ refs' = last.refs /\ poolSize' = last.poolSize
    BY <1>6 DEF HeapIs
  <1>8. concurrent' \in Int /\ useAfterFree' \in BOOLEAN
    BY <1>6 DEF TypeOK
  <1> HIDE DEF last, first, fds, client
  <1> QED BY <1>2, <1>5, <1>6, <1>7, <1>8 DEF Released

\* The parts of the invariant that concern the selector's items alone.
Items == /\ owner \in [Fds -> Structs \cup {Unused, Passive}]
         /\ interest \in [Fds -> Interests] /\ open \subseteq Fds
         /\ aborted \in BOOLEAN
         /\ Listening /\ OpenIffRegistered /\ NeverAborts

\* Closing a connection leaves the items and the other connections in order.
LEMMA ReleasedKeeps ==
  ASSUME Items, held \subseteq Fds, held' = held, NEW s \in Structs, Released(s),
         state' = state, clientFd' = clientFd,
         \A r \in Structs \ {s} : originFd'[r] = originFd[r]
  PROVE  Items' /\ Others(s) /\ ShapeOf(s)'
  <1> USE StructsAssumption, FdsAssumption DEF Items
  <1>1. /\ owner' \in [Fds -> Structs \cup {Unused, Passive}]
        /\ interest' \in [Fds -> Interests] /\ open' \subseteq Fds
        /\ aborted' \in BOOLEAN
    BY DEF Released, Interests
  <1>2. \A f \in Fds : /\ owner'[f] = (IF owner[f] = s THEN Unused ELSE owner[f])
                       /\ interest'[f] = (IF owner[f] = s THEN "NOOP" ELSE interest[f])
    BY DEF Released
  <1>3. Listening'
    <2>1. \A f \in Fds : owner'[f] = Passive <=> f = PassiveFd
      BY <1>2 DEF Listening
    <2>2. interest'[PassiveFd] = "READ"
      BY <1>2 DEF Listening
    <2>3. \A f \in Fds : owner'[f] = Unused => interest'[f] = "NOOP"
      BY <1>2 DEF Listening
    <2> QED BY <2>1, <2>2, <2>3 DEF Listening
  <1>4. OpenIffRegistered'
    <2>1. Registered' = Registered \ {f \in Fds : owner[f] = s}
      BY <1>2 DEF Registered
    <2>2. open' = open \ {f \in Fds : owner[f] = s}
      BY DEF Released
    <2>3. \A f \in held : f \in Fds /\ owner[f] # s
      BY DEF OpenIffRegistered, Registered
    <2> QED BY <2>1, <2>2, <2>3 DEF OpenIffRegistered
  <1>5. Others(s)
    BY <1>2 DEF Released, Others
  <1>6. ShapeOf(s)'
    BY <1>2 DEF Released, ShapeOf
  <1>7. NeverAborts'
    BY DEF Released, NeverAborts
  <1> QED BY <1>1, <1>3, <1>4, <1>5, <1>6, <1>7

-----------------------------------------------------------------------------
(* A handler's step.                                                       *)

\* Of a connection's descriptors, origin is the one that is not the client's;
\* NoFd until there is one.
ShapeIs(s, origin) ==
  /\ Holds(s, origin) /\ \E a \in Armed(state[s]) : Matches(s, a)
  /\ origin = NoFd <=> state[s] = "RESOLUTION"
  /\ originFd[s] = IF state[s] = "CONNECTING" THEN NoFd ELSE origin

LEMMA ShapeHasOrigin ==
  ASSUME NEW s \in Structs, life[s] = "live", ShapeOf(s)
  PROVE  \E origin \in Fds \cup {NoFd} : ShapeIs(s, origin)
  <1> USE FdsAssumption
  <1>0. NoFd \notin Fds
    BY DEF NoFd
  <1>1. CASE Alone(s)
    <2>1. ShapeIs(s, NoFd)
      BY <1>1 DEF ShapeOf, ShapeIs, Alone, Holds
    <2> QED BY <2>1
  <1>2. ASSUME NEW o \in Fds, Paired(s, o) PROVE ShapeIs(s, o)
    BY <1>0, <1>2 DEF ShapeOf, ShapeIs, Paired, Holds
  <1> QED BY <1>1, <1>2 DEF ShapeOf

LEMMA ShapeIsShape ==
  ASSUME NEW s \in Structs, NEW origin \in Fds \cup {NoFd}, ShapeIs(s, origin)
  PROVE  ShapeOf(s)
  BY FdsAssumption DEF ShapeOf, ShapeIs, Alone, Paired, Holds, NoFd

\* A descriptor of a connection that has an event is the only armed one, and
\* nobody waits for a resolution on it.
LEMMA EventAlone ==
  ASSUME NEW s \in Structs, state[s] \in States, NEW origin \in Fds \cup {NoFd},
         ShapeIs(s, origin),
         NEW fd \in Fds, owner[fd] = s, interest[fd] # "NOOP"
  PROVE  /\ \A g \in Fds \ {fd} : owner[g] = s => interest[g] = "NOOP"
         /\ \A g \in Fds : ~Waits(s, g)
  <1>1. PICK a \in Armed(state[s]) : Matches(s, a)
    BY DEF ShapeIs
  <1>2. a[1] = "NOOP" \/ a[2] = "NOOP"
    BY <1>1, OneArmed
  <1>3. \A f \in Fds : interest[f] = IF f = clientFd[s] THEN a[1]
                                     ELSE IF owner[f] = s THEN a[2] ELSE interest[f]
    BY <1>1 DEF Matches
  <1>4. \A g \in Fds \ {fd} : owner[g] = s => interest[g] = "NOOP"
    BY <1>2, <1>3 DEF ShapeIs, Holds
  <1>5. state[s] = "RESOLUTION" => fd = clientFd[s]
    BY FdsAssumption DEF ShapeIs, Holds, NoFd
  <1> QED BY <1>4, <1>5 DEF Waits

\* What a step that handles the event of fd may not do to the other
\* descriptors that pselect may have reported.
KeepsArmed(fd) ==
  \A g \in Fds \ {fd} :
    interest[g] # "NOOP" => /\ interest'[g] = interest[g]
                            /\ owner[g] # Unused => owner'[g] # Unused

\* The typing of what the closing of a connection changes.
Heaps == /\ concurrent \in Int /\ useAfterFree \in BOOLEAN
         /\ life \in [Structs -> {"free", "live", "pooled"}]
         /\ refs \in [Structs -> Nat] /\ poolSize \in 0..MaxPool

\* Whatever a handler's outcome is, the connection is either closed or armed
\* for the state the handler returned.
LEMMA FinishKeeps ==
  ASSUME TypeOK, Items, held' = held, NEW s \in Structs, NEW origin \in Fds \cup {NoFd},
         ShapeIs(s, origin), NEW fd \in Fds, owner[fd] = s,
         NEW ev \in {"READ", "WRITE"}, interest[fd] = ev,
         NEW o \in Outcomes(state[s], ev), Finish(o, fd, s, origin),
         clientFd' = clientFd, originFd' = [originFd EXCEPT ![s] = origin]
  PROVE  /\ Items' /\ Heaps' /\ state' \in [Structs -> States]
         /\ Others(s) /\ ShapeOf(s)' /\ KeepsArmed(fd)
  <1> USE FdsAssumption, StructsAssumption
  <1>0. /\ state[s] \in States /\ held \subseteq Fds
        /\ \A r \in Structs \ {s} : originFd'[r] = originFd[r]
    BY DEF TypeOK
  <1>1. PICK a \in Armed(state[s]) : Matches(s, a)
    BY DEF ShapeIs
  <1>2. PICK side \in {1, 2} : a[side] = ev /\ (side = 1 <=> fd = clientFd[s])
    BY <1>1 DEF Matches
  <1>3. /\ \A g \in Fds \ {fd} : owner[g] = s => interest[g] = "NOOP"
        /\ \A g \in Fds : ~Waits(s, g)
    <2>1. interest[fd] # "NOOP"
      OBVIOUS
    <2> QED BY <1>0, <2>1, EventAlone
  <1>4. CASE Refused(o, clientFd[s], origin) \/ Closes(o.next)
    <2>1. PopDone(s, origin) /\ state' = state
      BY <1>4 DEF Finish
    <2>2. Released(s)
      BY <2>1, PopDoneReleases DEF ShapeIs
    <2>3. Items' /\ Others(s) /\ ShapeOf(s)'
      BY <1>0, <2>1, <2>2, ReleasedKeeps
    <2>4. Heaps' /\ state' \in [Structs -> States]
      BY <2>1, <2>2 DEF Released, Heaps, TypeOK
    <2>5. KeepsArmed(fd)
      <3>1. \A g \in Fds : /\ owner'[g] = (IF owner[g] = s THEN Unused ELSE owner[g])
                           /\ interest'[g] = (IF owner[g] = s THEN "NOOP" ELSE interest[g])
        BY <2>2 DEF Released
      <3> QED BY <1>3, <3>1 DEF KeepsArmed
    <2> QED BY <2>3, <2>4, <2>5
  <1>5. CASE ~(Refused(o, clientFd[s], origin) \/ Closes(o.next))
    <2>1. /\ interest' = NewInterest(o, fd, clientFd[s], origin)
          /\ state' = [state EXCEPT ![s] = o.next]
          /\ UNCHANGED <<owner, open, heap, concurrent, aborted>>
      BY <1>5 DEF Finish
    <2>2. /\ o.next \in States
          /\ Left(a, side, o) \in Armed(o.next)
          /\ o.next = "RESOLUTION" <=> state[s] = "RESOLUTION"
          /\ o.next # "CONNECTING"
          /\ state[s] = "RESOLUTION" => o.client = "KEEP" /\ o.origin = "KEEP"
      BY <1>0, <1>2, <1>5, HandlerKeepsArmed
    <2>3. /\ clientFd[s] \in Fds /\ origin # clientFd[s] /\ life[s] = "live"
          /\ \A f \in Fds : owner[f] = s <=> f = clientFd[s] \/ f = origin
      BY DEF ShapeIs, Holds, NoFd
    <2>4. Left(a, side, o)[1] \in Interests /\ Left(a, side, o)[2] \in Interests
      BY <2>2, OneArmed
    <2>5. interest[clientFd[s]] = a[1] /\ (origin # NoFd => interest[origin] = a[2])
      BY <1>1, <2>3 DEF Matches, NoFd
    <2>6. interest'[clientFd[s]] = Left(a, side, o)[1]
      BY <1>2, <2>1, <2>3, <2>5 DEF NewInterest, Left, Given
    <2>7. origin # NoFd => interest'[origin] = Left(a, side, o)[2]
      BY <1>2, <2>1, <2>3, <2>5 DEF NewInterest, Left, Given
    <2>8. \A g \in Fds : owner[g] # s => interest'[g] = interest[g]
      BY <2>1, <2>3 DEF NewInterest
    <2>9. interest' \in [Fds -> Interests]
      <3>1. ASSUME NEW g \in Fds PROVE interest'[g] \in Interests
        <4>1. CASE g = clientFd[s]
          BY <4>1, <2>4, <2>6
        <4>2. CASE g = origin
          BY <4>2, <2>4, <2>7 DEF NoFd
        <4>3. CASE owner[g] # s
          BY <4>3, <2>8 DEF Items
        <4> QED BY <2>3, <4>1, <4>2, <4>3
      <3>2. interest' = [g \in Fds |-> interest'[g]]
        BY <2>1 DEF NewInterest
      <3> QED BY <3>1, <3>2
    <2>10. Items'
      BY <2>1, <2>8, <2>9 DEF Items, Listening, OpenIffRegistered, Registered, NeverAborts
    <2>11. Heaps' /\ state' \in [Structs -> States]
      BY <2>1, <2>2 DEF Heaps, heap, TypeOK
    <2>12. Others(s)
      BY <1>0, <2>1, <2>8 DEF Others, heap, TypeOK
    <2>13. ShapeIs(s, origin)'
      <3>1. Holds(s, origin)'
        BY <2>1 DEF ShapeIs, Holds, heap
      <3>2. state'[s] = o.next /\ originFd'[s] = origin
        BY <2>1 DEF TypeOK
      <3>3. PICK b \in Armed(o.next) : b = Left(a, side, o)
        BY <2>2
      <3>4. \A f \in Fds : owner[f] = s /\ f # clientFd[s] => f = origin /\ origin # NoFd
        BY <2>3 DEF NoFd
      <3>5. Matches(s, b)'
        BY <2>1, <2>6, <2>7, <3>3, <3>4 DEF Matches
      <3> QED BY <2>2, <3>1, <3>2, <3>3, <3>5 DEF ShapeIs
    <2>14. KeepsArmed(fd)
      BY <1>3, <2>1, <2>8 DEF KeepsArmed
    <2>15. ShapeOf(s)'
      BY <2>13 DEF ShapeOf, ShapeIs, Alone, Paired, Holds, NoFd
    <2> QED BY <2>10, <2>11, <2>12, <2>14, <2>15
  <1> QED BY <1>4, <1>5

\* The table of Pop3Stm is the one ConnectionControl extends.
LEMMA SameTable ==
  ASSUME NEW s, NEW st, NEW ev
  PROVE  /\ Control(s)!Outcomes(st, ev) = Outcomes(st, ev)
         /\ Control(s)!HasHandler(st, ev) <=> HasHandler(st, ev)
  <1> USE DEF Control!Outcome, Outcome, Control!Fail, Fail, Control!FailMute, FailMute,
              Control!Stay, Stay, Control!ToClient, ToClient, Control!ToOrigin, ToOrigin
  <1>1. Control(s)!OriginServerResolution = OriginServerResolution
    BY DEF Control!OriginServerResolution, OriginServerResolution
  <1>2. Control(s)!Connecting = Connecting
    BY DEF Control!Connecting, Connecting
  <1>3. Control(s)!WelcomeRead = WelcomeRead /\ Control(s)!WelcomeWrite = WelcomeWrite
    BY DEF Control!WelcomeRead, WelcomeRead, Control!WelcomeWrite, WelcomeWrite
  <1>4. Control(s)!CapaRead = CapaRead
    BY DEF Control!CapaRead, CapaRead
  <1>5. Control(s)!RequestRead = RequestRead /\ Control(s)!RequestWrite = RequestWrite
    BY DEF Control!RequestRead, RequestRead, Control!RequestWrite, RequestWrite
  <1>6. Control(s)!ResponseRead = ResponseRead /\ Control(s)!ResponseWrite = ResponseWrite
    BY DEF Control!ResponseRead, ResponseRead, Control!ResponseWrite, ResponseWrite,
           Control!ReplyWritten, ReplyWritten
  <1> QED BY <1>1, <1>2, <1>3, <1>4, <1>5, <1>6
          DEF Control!Outcomes, Outcomes, Control!HasHandler, HasHandler

\* A handler's step is a step of the control of its connection.
LEMMA FinishFollows ==
  ASSUME TypeOK, NEW s \in Structs, NEW origin \in Fds,
         ShapeIs(s, origin), NEW fd \in Fds, owner[fd] = s,
         NEW ev \in {"READ", "WRITE"}, interest[fd] = ev,
         NEW o \in Outcomes(state[s], ev), Finish(o, fd, s, origin),
         clientFd' = clientFd
  PROVE  ControlStep(s)
  <1> USE FdsAssumption, StructsAssumption
  <1>0. NoFd \notin Fds
    BY DEF NoFd
  <1>1. PICK a \in Armed(state[s]) : Matches(s, a)
    BY DEF ShapeIs
  <1>2. PICK side \in {1, 2} : a[side] = ev /\ (side = 1 <=> fd = clientFd[s])
    BY <1>1 DEF Matches
  <1>3. /\ life[s] = "live" /\ state[s] \in States \ {"RESOLUTION"}
        /\ clientFd[s] \in Fds /\ origin # clientFd[s]
        /\ \A f \in Fds : owner[f] = s <=> f \in {clientFd[s], origin}
    BY <1>0 DEF ShapeIs, Holds, TypeOK
  <1>4. Relays(s) /\ OriginItem(s) = origin
    <2>1. \A f : f \in OwnedBy(s) \ {clientFd[s]} <=> f = origin
      BY <1>3 DEF OwnedBy
    <2>2. OwnedBy(s) \ {clientFd[s]} = {origin}
      BY ONLY <2>1
    <2> QED BY <1>3, <2>2 DEF Relays, Live, OriginItem
  <1>5. interest[clientFd[s]] = a[1] /\ interest[origin] = a[2]
    BY <1>1, <1>3 DEF Matches
  <1>6. ControlState(s) = state[s] /\ ControlArmed(s) = <<a[1], a[2]>>
    BY <1>4, <1>5 DEF ControlState, ControlArmed
  <1>7. Control(s)!HasHandler(state[s], ev) /\ o \in Control(s)!Outcomes(state[s], ev)
    BY <1>1, <1>2, <1>3, HandlerKeepsArmed, SameTable
  <1>8. ~Refused(o, clientFd[s], origin)
    BY <1>0, <1>3 DEF Refused
  <1>9. CASE Closes(o.next)
    <2>1. PopDone(s, origin)
      BY <1>9 DEF Finish
    <2>2. life'[s] # "live"
      BY <2>1, PopDoneReleases DEF ShapeIs, Released
    <2>3. ControlState(s)' = "CLOSED" /\ ControlArmed(s)' = <<"NOOP", "NOOP">>
      BY <2>2 DEF ControlState, ControlArmed, Relays, Live
    <2>4. Control(s)!Handle(side, ev, o)
      BY <1>2, <1>6, <1>7, <1>9, <2>3 DEF Control!Handle, Control!Closes, Closes
    <2> QED BY <1>6, <1>7, <2>4 DEF ControlStep, Control!Next
  <1>10. CASE ~Closes(o.next)
    <2>1. /\ interest' = NewInterest(o, fd, clientFd[s], origin)
          /\ state' = [state EXCEPT ![s] = o.next]
          /\ UNCHANGED <<owner, heap>>
      BY <1>8, <1>10 DEF Finish
    <2>2. o.next # "RESOLUTION"
      BY <1>1, <1>2, <1>3, <1>10, HandlerKeepsArmed
    <2>3. state'[s] = o.next /\ life'[s] = "live"
      BY <1>3, <2>1 DEF heap, TypeOK
    <2>4. Relays(s)' /\ OriginItem(s)' = origin
      <3>1. \A f : f \in OwnedBy(s)' \ {clientFd'[s]} <=> f = origin
        BY <1>3, <2>1 DEF OwnedBy
      <3>2. OwnedBy(s)' \ {clientFd'[s]} = {origin}
        BY ONLY <3>1
      <3> QED BY <2>2, <2>3, <3>2 DEF Relays, Live, OriginItem
    <2>5. interest'[clientFd[s]] = Left(a, side, o)[1]
      BY <1>2, <1>3, <1>5, <2>1 DEF NewInterest, Left, Given
    <2>6. interest'[origin] = Left(a, side, o)[2]
      BY <1>2, <1>3, <1>5, <2>1 DEF NewInterest, Left, Given
    <2>7. ControlState(s)' = o.next /\ ControlArmed(s)' = Left(a, side, o)
      BY <2>3, <2>4, <2>5, <2>6 DEF ControlState, ControlArmed, Left
    <2>8. LET key == [<<a[1], a[2]>> EXCEPT ![side] = Given(o.key, @)]
          IN  <<Given(o.client, key[1]), Given(o.origin, key[2])>> = Left(a, side, o)
      BY DEF Left, Given
    <2>9. Control(s)!Handle(side, ev, o)
      BY <1>2, <1>6, <1>7, <1>10, <2>7, <2>8
         DEF Control!Handle, Control!Closes, Closes, Control!Given, Given
    <2> QED BY <1>6, <1>7, <2>9 DEF ControlStep, Control!Next
  <1> QED BY <1>9, <1>10

-----------------------------------------------------------------------------
(* The steps, one lemma per action.                                        *)

\* The rest of the type invariant.
Rest == /\ phase \in {"select", "iterate", "blocks"}
        /\ slaveR \subseteq Fds /\ slaveW \subseteq Fds
        /\ jobs \in Seq(Fds) /\ threads \subseteq Thread
        /\ clientFd \in [Structs -> Fds \cup {NoFd}]
        /\ originFd \in [Structs -> Fds \cup {NoFd}]
        /\ resolution \in [Structs -> BOOLEAN]

LEMMA IInvParts == IInv => Items /\ Heaps /\ Rest
  BY DEF IInv, Items, Heaps, Rest, TypeOK

\* What a step that concerns one connection has to show.
LEMMA ConnectionStep ==
  ASSUME IInv, NEW s \in Structs, Items', Heaps', state' \in [Structs -> States],
         Rest', Others(s), ShapeOf(s)', Awaited', Ready', env' = env
  PROVE  IInv'
  <1>1. Shapes'
    BY OthersKeepShape DEF IInv, Shapes
  <1>2. TypeOK'
    BY DEF IInv, TypeOK, Items, Heaps, Rest, env
  <1> QED BY <1>1, <1>2 DEF IInv, Items

\* What a step that concerns none has to show.
LEMMA IdleStep ==
  ASSUME IInv, concurrent' \in Int,
         phase' \in {"select", "iterate", "blocks"},
         slaveR' \subseteq Fds, slaveW' \subseteq Fds, Ready',
         UNCHANGED <<selector, open, threads, fields, heap, env, aborted>>
  PROVE  IInv'
  <1> USE DEF IInv, selector, fields, heap, env
  <1>1. TypeOK' /\ Listening' /\ OpenIffRegistered' /\ NeverAborts'
    BY DEF TypeOK, Listening, OpenIffRegistered, Registered, NeverAborts
  <1>2. Shapes'
    BY DEF Shapes, ShapeOf, Alone, Paired, Matches
  <1>3. Awaited'
    BY DEF Awaited, Waits, Live
  <1> QED BY <1>1, <1>2, <1>3

\* What pselect reported is still so when its turn comes.
LEMMA Reported ==
  ASSUME IInv, NEW fd \in Fds, Taken(fd)
  PROVE  /\ owner[fd] # Unused /\ Current(fd)
         /\ NextEvent(fd) \in {"READ", "WRITE"} /\ interest[fd] = NextEvent(fd)
  BY DEF IInv, Ready, ReadinessIsCurrent, Taken, IsNext, NextEvent, Current

LEMMA ReadyKept ==
  ASSUME IInv, NEW fd \in Fds, Taken(fd), KeepsArmed(fd)
  PROVE  /\ Ready' /\ phase' \in {"select", "iterate", "blocks"}
         /\ slaveR' \subseteq Fds /\ slaveW' \subseteq Fds
  <1>1. /\ \A g \in slaveR : g \in Fds /\ owner[g] # Unused /\ interest[g] = "READ"
        /\ \A g \in slaveW : g \in Fds /\ owner[g] # Unused /\ interest[g] = "WRITE"
    BY DEF IInv, TypeOK, Ready, ReadinessIsCurrent
  <1>2. /\ slaveR' = slaveR \ {fd} /\ phase' = phase /\ phase = "iterate"
        /\ slaveW' = IF fd \in slaveR THEN slaveW ELSE slaveW \ {fd}
    BY DEF Taken
  <1>3. slaveW' \subseteq slaveW \ {fd}
    BY <1>1, <1>2
  <1> QED BY <1>1, <1>2, <1>3 DEF Ready, ReadinessIsCurrent, KeepsArmed

LEMMA SelectStep == IInv /\ Select => IInv'
  <1> SUFFICES ASSUME IInv, Select PROVE IInv'
    OBVIOUS
  <1>1. /\ slaveR' \subseteq Fds /\ slaveW' \subseteq Fds
        /\ \A fd \in slaveR' : interest[fd] = "READ"
        /\ \A fd \in slaveW' : interest[fd] = "WRITE"
    BY DEF Select, Readable
  <1>2. Ready'
    BY <1>1 DEF Select, IInv, Listening, Ready, ReadinessIsCurrent, selector
  <1> QED BY <1>1, <1>2, IdleStep DEF Select, IInv, TypeOK

LEMMA EndSteps == IInv /\ (EndIteration \/ EndBlocks) => IInv'
  <1> SUFFICES ASSUME IInv, EndIteration \/ EndBlocks PROVE IInv'
    OBVIOUS
  <1>1. /\ UNCHANGED <<selector, open, threads, fields, heap, env, aborted, slaveR, slaveW, concurrent>>
        /\ slaveR = {} /\ slaveW = {} /\ phase' \in {"select", "blocks"}
    BY DEF EndIteration, EndBlocks, IInv, Ready
  <1>2. Ready'
    BY <1>1 DEF Ready, ReadinessIsCurrent
  <1> QED BY <1>1, <1>2, IdleStep DEF IInv, TypeOK

LEMMA AcceptNothingStep == ASSUME IInv, NEW fd \in Fds, AcceptNothing(fd) PROVE IInv'
  <1>1. Taken(fd) /\ concurrent' = concurrent + 1
    BY DEF AcceptNothing, AcceptEvent, Event, Counted
  <1>2. UNCHANGED <<selector, open, threads, fields, heap, env, aborted>>
    BY <1>1 DEF AcceptNothing, AcceptEvent, Taken, selector
  <1>3. KeepsArmed(fd)
    BY <1>2 DEF KeepsArmed, selector
  <1>4. concurrent' \in Int
    BY <1>1 DEF IInv, TypeOK
  <1> QED BY <1>1, <1>2, <1>3, <1>4, ReadyKept, IdleStep

\* A struct that may be allocated is nobody's.
LEMMA AllocatableUnowned ==
  ASSUME IInv, NEW s \in Structs, s \in Allocatable
  PROVE  /\ life[s] # "live" /\ \A f \in Fds : owner[f] # s
         /\ \A f \in Fds : ~Waits(s, f)
  <1>1. life[s] # "live"
    BY DEF Allocatable, Pooled
  <1> QED BY <1>1 DEF IInv, Shapes, ShapeOf, Waits, Live

LEMMA AllocatableInStructs == Allocatable \subseteq Structs
  BY DEF Allocatable, Pooled

LEMMA AcceptRejectedStep ==
  ASSUME IInv, NEW fd \in Fds, AcceptRejected(fd)
  PROVE  IInv' /\ \E s \in Structs : Concerns(s)
  <1> USE StructsAssumption, FdsAssumption
  <1>1. PICK client \in Fds, s \in Allocatable :
          HeapIs(Destroy(NewHeap(s), s)) /\ NewFields(s, client)
    BY DEF AcceptRejected
  <1>2. /\ s \in Structs /\ life[s] # "live" /\ \A f \in Fds : owner[f] # s
        /\ \A f \in Fds : ~Waits(s, f)
    BY AllocatableInStructs, AllocatableUnowned
  <1>3. /\ Taken(fd) /\ owner[fd] = Passive /\ concurrent' = concurrent + 1
        /\ UNCHANGED <<owner, interest, open, useAfterFree, threads, aborted, jobs, env>>
    BY DEF AcceptRejected, AcceptEvent, Event, Counted, Taken
  <1>4. Items /\ Heaps /\ Rest
    BY IInvParts
  <1>5. /\ life' \in [Structs -> {"free", "live", "pooled"}]
        /\ refs' \in [Structs -> Nat] /\ poolSize' \in 0..MaxPool /\ life'[s] # "live"
        /\ \A r \in Structs \ {s} : life'[r] = life[r] /\ refs'[r] = refs[r]
    <2> DEFINE h == NewHeap(s)
               d == Destroy(h, s)
    <2>1. /\ h.life = [life EXCEPT ![s] = "live"] /\ h.refs = [refs EXCEPT ![s] = 1]
          /\ h.poolSize = poolSize
          /\ h = [life |-> h.life, refs |-> h.refs, poolSize |-> h.poolSize]
      <3>1. h = [Heap EXCEPT !.life[s] = "live", !.refs[s] = 1]
        BY DEF NewHeap
      <3>2. h = [life |-> [life EXCEPT ![s] = "live"], refs |-> [refs EXCEPT ![s] = 1],
                 poolSize |-> poolSize]
        BY <3>1 DEF Heap
      <3> QED BY <3>2
    <2>2. /\ h = [life |-> h.life, refs |-> h.refs, poolSize |-> h.poolSize]
          /\ h.life \in [Structs -> {"free", "live", "pooled"}]
          /\ h.refs \in [Structs -> Nat] /\ h.refs[s] = 1 /\ h.poolSize \in 0..MaxPool
          /\ \A r \in Structs \ {s} : h.life[r] = life[r] /\ h.refs[r] = refs[r]
      BY <1>2, <1>4, <2>1 DEF Heaps
    <2>3. life' = d.life /\ refs' = d.refs /\ poolSize' = d.poolSize
      BY <1>1 DEF HeapIs
    <2> HIDE DEF h
    <2>4. /\ d.life \in [Structs -> {"free", "live", "pooled"}]
          /\ d.refs \in [Structs -> Nat] /\ d.poolSize \in 0..MaxPool /\ d.life[s] # "live"
          /\ \A r \in Structs \ {s} : d.life[r] = h.life[r] /\ d.refs[r] = h.refs[r]
      BY <1>2, <2>2, DestroyType
    <2> HIDE DEF d
    <2> QED BY <2>2, <2>3, <2>4
  <1>6. /\ state' \in [Structs -> States]
        /\ clientFd' \in [Structs -> Fds \cup {NoFd}]
        /\ originFd' \in [Structs -> Fds \cup {NoFd}]
        /\ resolution' \in [Structs -> BOOLEAN]
        /\ \A r \in Structs \ {s} : /\ state'[r] = state[r] /\ clientFd'[r] = clientFd[r]
                                    /\ originFd'[r] = originFd[r]
    BY <1>1, <1>2, <1>4 DEF NewFields, Rest, IInv, TypeOK, States
  <1>7. Items' /\ Heaps'
    BY <1>3, <1>4, <1>5 DEF Items, Heaps, Listening, OpenIffRegistered, Registered,
                            NeverAborts, env
  <1>8. Others(s) /\ ShapeOf(s)'
    BY <1>2, <1>3, <1>5, <1>6 DEF Others, ShapeOf
  <1>9. Awaited'
    BY <1>2, <1>3, <1>8, AwaitedKept DEF IInv
  <1>10. KeepsArmed(fd)
    BY <1>3 DEF KeepsArmed
  <1>11. Ready' /\ Rest'
    BY <1>3, <1>4, <1>6, <1>10, ReadyKept DEF Rest
  <1>12. Concerns(s)
    BY <1>2, <1>5, <1>8, NotRelaying DEF Concerns, Relays, Live
  <1> QED BY <1>2, <1>3, <1>6, <1>7, <1>8, <1>9, <1>11, <1>12, ConnectionStep

LEMMA AcceptStep ==
  ASSUME IInv, NEW fd \in Fds, Accept(fd)
  PROVE  IInv' /\ \E s \in Structs : Concerns(s)
  <1> USE StructsAssumption, FdsAssumption
  <1>1. PICK client \in Fds, s \in Allocatable :
          /\ IsNewFd(client) /\ Registrable(client)
          /\ HeapIs(NewHeap(s)) /\ NewFields(s, client)
          /\ open' = open \cup {client}
          /\ owner' = [owner EXCEPT ![client] = s]
          /\ interest' = [interest EXCEPT ![client] = "WRITE"]
    BY DEF Accept
  <1>2. /\ s \in Structs /\ life[s] # "live" /\ \A f \in Fds : owner[f] # s
        /\ \A f \in Fds : ~Waits(s, f)
    BY AllocatableInStructs, AllocatableUnowned
  <1>3. /\ Taken(fd) /\ owner[fd] = Passive /\ concurrent' = concurrent + 1
        /\ UNCHANGED <<useAfterFree, threads, aborted, jobs, env>>
    BY DEF Accept, AcceptEvent, Event, Counted, Taken
  <1>4. Items /\ Heaps /\ Rest
    BY IInvParts
  <1>5. client \notin open /\ owner[client] = Unused /\ interest[client] = "NOOP"
    BY <1>1, <1>4 DEF IsNewFd, Registrable, Items, Listening
  <1>6. /\ life' = [life EXCEPT ![s] = "live"] /\ refs' = [refs EXCEPT ![s] = 1]
        /\ poolSize' = poolSize
    BY <1>1 DEF HeapIs, NewHeap, Heap
  <1>7. /\ state' = [state EXCEPT ![s] = "RESOLUTION"]
        /\ clientFd' = [clientFd EXCEPT ![s] = client]
        /\ originFd' = [originFd EXCEPT ![s] = NoFd]
        /\ resolution' = [resolution EXCEPT ![s] = FALSE]
    BY <1>1 DEF NewFields
  <1>8. /\ state' \in [Structs -> States]
        /\ clientFd' \in [Structs -> Fds \cup {NoFd}]
        /\ originFd' \in [Structs -> Fds \cup {NoFd}]
        /\ resolution' \in [Structs -> BOOLEAN]
    BY <1>2, <1>4, <1>7 DEF Rest, IInv, TypeOK, States
  <1>9. Heaps'
    BY <1>2, <1>3, <1>4, <1>6 DEF Heaps
  <1>10. Items'
    <2>1. /\ owner' \in [Fds -> Structs \cup {Unused, Passive}]
          /\ interest' \in [Fds -> Interests] /\ open' \subseteq Fds
          /\ aborted' \in BOOLEAN /\ NeverAborts'
      BY <1>1, <1>2, <1>3, <1>4 DEF Items, Interests, NeverAborts
    <2>2. Listening'
      BY <1>1, <1>2, <1>4, <1>5 DEF Items, Listening
    <2>3. Registered' = Registered \cup {client}
      BY <1>1, <1>2, <1>4 DEF Items, Registered
    <2>4. OpenIffRegistered'
      BY <1>1, <1>3, <1>4, <1>5, <2>3 DEF Items, OpenIffRegistered, env
    <2> QED BY <2>1, <2>2, <2>4 DEF Items
  <1>11. Others(s)
    BY <1>1, <1>2, <1>4, <1>5, <1>6, <1>7 DEF Others, Items, Heaps, Rest, IInv, TypeOK
  <1>12. ShapeOf(s)'
    <2>1. /\ life'[s] = "live" /\ refs'[s] = 1 /\ state'[s] = "RESOLUTION"
          /\ clientFd'[s] = client /\ originFd'[s] = NoFd
          /\ \A f \in Fds : owner'[f] = s <=> f = client
          /\ interest'[client] = "WRITE"
      BY <1>1, <1>2, <1>4, <1>6, <1>7 DEF Items, Heaps, Rest, IInv, TypeOK
    <2>2. PICK a \in Armed("RESOLUTION") : a = <<"WRITE", "NOOP">>
      BY DEF Armed
    <2>3. Matches(s, a)'
      BY <2>1, <2>2 DEF Matches
    <2> QED BY <2>1, <2>2, <2>3 DEF ShapeOf, Alone
  <1>13. Awaited'
    BY <1>2, <1>3, <1>11, AwaitedKept DEF IInv
  <1>14. KeepsArmed(fd)
    BY <1>1, <1>2, <1>4, <1>5 DEF KeepsArmed, Items
  <1>15. Ready' /\ Rest'
    BY <1>3, <1>4, <1>8, <1>14, ReadyKept DEF Rest
  <1>16. Concerns(s)
    <2>1. state'[s] = "RESOLUTION"
      BY <1>2, <1>7 DEF IInv, TypeOK
    <2> QED BY <1>2, <1>11, <2>1, NotRelaying DEF Concerns, Relays, Live
  <1> QED BY <1>2, <1>3, <1>8, <1>9, <1>10, <1>11, <1>12, <1>13, <1>15, <1>16, ConnectionStep

\* A reported event of a connection finds it as its state says.
LEMMA EventOfConnection ==
  ASSUME IInv, NEW fd \in Fds, NEW s \in Structs, Taken(fd), owner[fd] = s
  PROVE  /\ state[s] \in States /\ life[s] = "live"
         /\ NextEvent(fd) \in {"READ", "WRITE"} /\ interest[fd] = NextEvent(fd)
         /\ \A f \in Fds : ~Waits(s, f)
         /\ \E origin \in Fds \cup {NoFd} : ShapeIs(s, origin)
  <1>1. NextEvent(fd) \in {"READ", "WRITE"} /\ interest[fd] = NextEvent(fd)
    BY Reported
  <1>2. state[s] \in States /\ life[s] = "live" /\ ShapeOf(s)
    BY DEF IInv, TypeOK, Shapes, ShapeOf
  <1>3. PICK origin \in Fds \cup {NoFd} : ShapeIs(s, origin)
    BY <1>2, ShapeHasOrigin
  <1>4. interest[fd] # "NOOP"
    BY <1>1
  <1>5. \A f \in Fds : ~Waits(s, f)
    BY <1>2, <1>3, <1>4, EventAlone
  <1> QED BY <1>1, <1>2, <1>3, <1>5

LEMMA RelayStepStep ==
  ASSUME IInv, NEW fd \in Fds, RelayStep(fd)
  PROVE  IInv' /\ \E s \in Structs : Concerns(s)
  <1> USE StructsAssumption, FdsAssumption
  <1>0. Taken(fd) /\ owner[fd] # Passive /\ Current(fd) /\ owner[fd] # Unused
    BY Reported DEF RelayStep
  <1>2. Items /\ Heaps /\ Rest
    BY IInvParts
  <1>1. PICK s \in Structs : s = owner[fd] /\ Taken(fd) /\ Current(fd) /\ s # Passive
    BY <1>0, <1>2 DEF Items
  <1>3. PICK origin \in Fds \cup {NoFd} : ShapeIs(s, origin)
    BY <1>1, <1>2, EventOfConnection
  <1>4. /\ state[s] \in States /\ life[s] = "live"
        /\ NextEvent(fd) \in {"READ", "WRITE"} /\ interest[fd] = NextEvent(fd)
        /\ \A f \in Fds : ~Waits(s, f)
    BY <1>1, <1>2, EventOfConnection
  <1>5. PICK a \in Armed(state[s]) : Matches(s, a)
    BY <1>3 DEF ShapeIs
  <1>6. HasHandler(state[s], NextEvent(fd))
    <2>1. PICK side \in {1, 2} : a[side] = NextEvent(fd)
      BY <1>1, <1>4, <1>5 DEF Matches
    <2> QED BY <1>4, <2>1, HandlerKeepsArmed
  <1>7. state[s] \notin {"RESOLUTION", "CONNECTING"}
    <2>1. NextEvent(fd) = "WRITE" \/ state[s] \notin {"RESOLUTION", "CONNECTING"}
      BY <1>4, <1>6 DEF HasHandler, States
    <2>2. state[s] \in {"RESOLUTION", "CONNECTING"} => NextEvent(fd) # "WRITE"
      BY <1>1 DEF RelayStep
    <2> QED BY <2>1, <2>2
  <1>8. originFd[s] = origin
    BY <1>3, <1>7 DEF ShapeIs
  <1>9. PICK o \in Outcomes(state[s], NextEvent(fd)) : Finish(o, fd, s, origin)
    BY <1>1, <1>6, <1>8 DEF RelayStep
  <1>10. UNCHANGED <<threads, clientFd, originFd, resolution, jobs, env>>
    BY <1>1 DEF RelayStep, Taken
  <1>11. originFd' = [originFd EXCEPT ![s] = origin] /\ held' = held
    BY <1>2, <1>8, <1>10 DEF Rest, env
  <1>12. /\ Items' /\ Heaps' /\ state' \in [Structs -> States]
         /\ Others(s) /\ ShapeOf(s)' /\ KeepsArmed(fd)
    <2>1. TypeOK /\ clientFd' = clientFd /\ owner[fd] = s
      BY <1>1, <1>10 DEF IInv
    <2> QED BY <1>2, <1>3, <1>4, <1>9, <1>11, <2>1, FinishKeeps
  <1>13. Awaited'
    BY <1>2, <1>4, <1>10, <1>12, AwaitedKept DEF IInv
  <1>14. Ready' /\ Rest'
    BY <1>1, <1>2, <1>10, <1>12, ReadyKept DEF Rest
  <1>15. Concerns(s)
    <2>1. TypeOK /\ clientFd' = clientFd /\ owner[fd] = s /\ origin \in Fds
      BY <1>1, <1>3, <1>7, <1>10 DEF IInv, ShapeIs, Holds
    <2> QED BY <1>3, <1>4, <1>9, <1>12, <2>1, FinishFollows DEF Concerns
  <1> QED BY <1>2, <1>10, <1>12, <1>13, <1>14, <1>15, ConnectionStep

LEMMA ConnectingStepStep ==
  ASSUME IInv, NEW fd \in Fds, NEW s \in Structs, ConnectingStep(fd, s)
  PROVE  IInv' /\ Concerns(s)
  <1> USE StructsAssumption, FdsAssumption
  <1>1. /\ Taken(fd) /\ owner[fd] = s /\ state[s] = "CONNECTING" /\ NextEvent(fd) = "WRITE"
        /\ originFd' = [originFd EXCEPT ![s] = fd]
        /\ UNCHANGED <<threads, clientFd, resolution, jobs, env>>
    BY DEF ConnectingStep, ConnEvent, Event, Taken
  <1>2. Items /\ Heaps /\ Rest
    BY IInvParts
  <1>3. PICK origin \in Fds \cup {NoFd} : ShapeIs(s, origin)
    BY <1>1, EventOfConnection
  <1>4. /\ state[s] \in States /\ life[s] = "live" /\ interest[fd] = "WRITE"
        /\ \A f \in Fds : ~Waits(s, f)
    BY <1>1, EventOfConnection
  <1>5. fd # clientFd[s]
    BY <1>1, <1>3, <1>4 DEF ShapeIs, Matches, Armed
  <1>6. origin = fd
    BY <1>1, <1>3, <1>5 DEF ShapeIs, Holds
  <1>7. PICK o \in Outcomes(state[s], "WRITE") : Finish(o, fd, s, fd)
    BY <1>1 DEF ConnectingStep, Outcomes
  <1>8. /\ Items' /\ Heaps' /\ state' \in [Structs -> States]
        /\ Others(s) /\ ShapeOf(s)' /\ KeepsArmed(fd)
    BY <1>1, <1>2, <1>3, <1>4, <1>6, <1>7, FinishKeeps DEF IInv, env
  <1>9. Awaited'
    BY <1>1, <1>4, <1>8, AwaitedKept DEF IInv
  <1>10. Ready' /\ Rest'
    BY <1>1, <1>2, <1>8, ReadyKept DEF Rest
  <1>11. Concerns(s)
    BY <1>1, <1>3, <1>4, <1>6, <1>7, <1>8, FinishFollows DEF IInv, Concerns
  <1> QED BY <1>1, <1>8, <1>9, <1>10, <1>11, ConnectionStep

\* A connection begins to wait for one thread, for the descriptor whose event
\* has just been handled.
LEMMA AwaitedStarted ==
  ASSUME TypeOK, Awaited, NEW s \in Structs, NEW fd \in Fds, Others(s),
         owner[fd] = s, \A f \in Fds : ~Waits(s, f), Waits(s, fd)',
         NEW t, t.conn = s, t.fd = fd,
         threads' = threads \cup {t}, jobs' = jobs
  PROVE  Awaited'
  <1>1. \A u \in threads : u.conn \in Structs /\ u.fd \in Fds /\ Waits(u.conn, u.fd)
    BY DEF TypeOK, Thread, Awaited
  <1>2. \A i \in 1..Len(jobs) : jobs[i] \in Fds
    BY DEF TypeOK
  <1>3. \A r \in Structs, f \in Fds : Waits(r, f) => Waits(r, f)' /\ f # fd
    BY OthersKeepWaiting DEF Waits
  <1>4. \A u \in threads' : Waits(u.conn, u.fd)'
    BY <1>1, <1>3
  <1>5. (\A i \in 1..Len(jobs) : \E r \in Structs : Waits(r, jobs[i]))'
    BY <1>2, <1>3 DEF Awaited
  <1>6. /\ \A u \in threads : u.fd # fd
        /\ \A i \in 1..Len(jobs) : jobs[i] # fd
    BY <1>1, <1>2, <1>3 DEF Awaited
  <1>7. (\A u, v \in threads : u.fd = v.fd => u = v)'
    BY <1>6 DEF Awaited
  <1>8. (\A u \in threads, i \in 1..Len(jobs) : u.fd # jobs[i])'
    BY <1>6 DEF Awaited
  <1> QED BY <1>4, <1>5, <1>7, <1>8 DEF Awaited

LEMMA ResolutionStartStep ==
  ASSUME IInv, NEW fd \in Fds, NEW s \in Structs, ResolutionStart(fd, s)
  PROVE  IInv' /\ Concerns(s)
  <1> USE StructsAssumption, FdsAssumption
  <1> DEFINE t == [conn |-> s, fd |-> fd, stage |-> "running"]
  <1>1. /\ Taken(fd) /\ owner[fd] = s /\ state[s] = "RESOLUTION" /\ NextEvent(fd) = "WRITE"
        /\ UNCHANGED <<clientFd, originFd, resolution, jobs, env>>
    BY DEF ResolutionStart, ConnEvent, Event, Taken
  <1>2. PICK o \in OriginServerResolution :
          /\ Finish(o, fd, s, originFd[s])
          /\ \/ o # Fail /\ threads' = threads \cup {t}
             \/ threads' = threads
    BY DEF ResolutionStart
  <1>3. Items /\ Heaps /\ Rest
    BY IInvParts
  <1>4. PICK origin \in Fds \cup {NoFd} : ShapeIs(s, origin)
    BY <1>1, EventOfConnection
  <1>5. /\ state[s] \in States /\ life[s] = "live" /\ interest[fd] = "WRITE"
        /\ \A f \in Fds : ~Waits(s, f)
    BY <1>1, EventOfConnection
  <1>6. originFd[s] = origin /\ origin = NoFd /\ fd = clientFd[s]
    BY <1>1, <1>4 DEF ShapeIs, Holds, NoFd
  <1>7. originFd' = [originFd EXCEPT ![s] = origin] /\ o \in Outcomes(state[s], "WRITE")
    BY <1>1, <1>3, <1>6 DEF Rest, Outcomes
  <1>8. /\ Items' /\ Heaps' /\ state' \in [Structs -> States]
        /\ Others(s) /\ ShapeOf(s)' /\ KeepsArmed(fd)
    BY <1>1, <1>2, <1>3, <1>4, <1>5, <1>6, <1>7, FinishKeeps DEF IInv, env
  <1>9. Awaited'
    <2>1. CASE threads' = threads
      BY <1>1, <1>5, <1>8, <2>1, AwaitedKept DEF IInv
    <2>2. CASE o # Fail /\ threads' = threads \cup {t}
      <3>1. o = Outcome("RESOLUTION", "NOOP", "KEEP", "KEEP")
        BY <2>2 DEF OriginServerResolution
      <3>2. ~Refused(o, clientFd[s], originFd[s]) /\ ~Closes(o.next)
        BY <3>1 DEF Outcome, Refused, Closes
      <3>3. /\ interest' = NewInterest(o, fd, clientFd[s], originFd[s])
            /\ state' = [state EXCEPT ![s] = "RESOLUTION"]
            /\ owner' = owner /\ life' = life
        BY <1>2, <3>1, <3>2 DEF Finish, Outcome, heap
      <3>4. interest'[fd] = "NOOP"
        BY <3>1, <3>3 DEF NewInterest, Outcome, Given
      <3>5. Waits(s, fd)'
        BY <1>1, <1>3, <1>5, <1>6, <3>3, <3>4 DEF Waits, Live, IInv, TypeOK
      <3>6. t.conn = s /\ t.fd = fd
        OBVIOUS
      <3> HIDE DEF t
      <3> QED BY <1>1, <1>5, <1>8, <2>2, <3>5, <3>6, AwaitedStarted DEF IInv
    <2> QED BY <1>2, <2>1, <2>2
  <1>10. threads' \subseteq Thread
    BY <1>2, <1>3 DEF Rest, Thread
  <1>11. Ready' /\ Rest'
    BY <1>1, <1>3, <1>8, <1>10, ReadyKept DEF Rest
  <1>12. Concerns(s)
    <2>1. CASE Refused(o, clientFd[s], originFd[s]) \/ Closes(o.next)
      <3>1. PopDone(s, NoFd)
        BY <1>2, <1>6, <2>1 DEF Finish
      <3>2. life'[s] # "live"
        BY <1>4, <1>6, <3>1, PopDoneReleases DEF IInv, ShapeIs, Released
      <3> QED BY <1>1, <1>8, <3>2, NotRelaying DEF Concerns, Relays, Live
    <2>2. CASE ~(Refused(o, clientFd[s], originFd[s]) \/ Closes(o.next))
      <3>1. state' = [state EXCEPT ![s] = o.next] /\ o.next = "RESOLUTION"
        BY <1>2, <2>2 DEF Finish, OriginServerResolution, Outcome, Fail, Closes
      <3>2. state'[s] = "RESOLUTION"
        BY <3>1 DEF IInv, TypeOK
      <3> QED BY <1>1, <1>8, <3>2, NotRelaying DEF Concerns, Relays, Live
    <2> QED BY <2>1, <2>2
  <1> QED BY <1>1, <1>8, <1>9, <1>11, <1>12, ConnectionStep

\* The first notification in the queue is awaited, by the connection that owns
\* its descriptor.
LEMMA BlockOfConnection ==
  ASSUME IInv, NEW fd \in Fds, Block(fd)
  PROVE  \E s \in Structs :
           /\ Waits(s, fd) /\ owner[fd] = s /\ state[s] = "RESOLUTION" /\ life[s] = "live"
           /\ ShapeIs(s, NoFd) /\ originFd[s] = NoFd /\ fd = clientFd[s]
  <1>1. fd = Head(jobs) /\ jobs # <<>> /\ jobs \in Seq(Fds)
    BY DEF Block, IInv, TypeOK
  <1>2. fd = jobs[1] /\ 1 \in 1..Len(jobs)
    BY <1>1
  <1>3. PICK s \in Structs : Waits(s, fd)
    BY <1>2 DEF IInv, Awaited
  <1>4. owner[fd] = s /\ state[s] = "RESOLUTION" /\ life[s] = "live" /\ fd = clientFd[s]
    BY <1>3 DEF Waits, Live
  <1>5. PICK origin \in Fds \cup {NoFd} : ShapeIs(s, origin)
    BY <1>4, ShapeHasOrigin DEF IInv, Shapes
  <1>6. origin = NoFd /\ originFd[s] = NoFd
    BY <1>4, <1>5 DEF ShapeIs
  <1> QED BY <1>3, <1>4, <1>5, <1>6

LEMMA BlockKeepsReady ==
  ASSUME IInv, NEW fd \in Fds, Block(fd)
  PROVE  Ready' /\ UNCHANGED <<iteration, threads, env>> /\ jobs' = Tail(jobs)
         /\ jobs' \in Seq(Fds) /\ jobs # <<>> /\ fd = Head(jobs)
  <1>1. /\ UNCHANGED <<iteration, threads, env>> /\ phase = "blocks"
        /\ jobs' = Tail(jobs) /\ jobs # <<>> /\ fd = Head(jobs)
    BY DEF Block, NextJobs
  <1>2. jobs' \in Seq(Fds)
    BY <1>1 DEF IInv, TypeOK
  <1>3. slaveR' = {} /\ slaveW' = {}
    BY <1>1 DEF IInv, Ready, iteration
  <1> QED BY <1>1, <1>2, <1>3 DEF Ready, ReadinessIsCurrent

LEMMA ResolutionFailsStep ==
  ASSUME IInv, NEW fd \in Fds, ResolutionFails(fd)
  PROVE  IInv' /\ \E s \in Structs : Concerns(s)
  <1> USE StructsAssumption, FdsAssumption
  <1>1. Block(fd)
    BY DEF ResolutionFails
  <1>2. PICK s \in Structs :
          /\ Waits(s, fd) /\ owner[fd] = s /\ state[s] = "RESOLUTION" /\ life[s] = "live"
          /\ ShapeIs(s, NoFd) /\ originFd[s] = NoFd /\ fd = clientFd[s]
    BY <1>1, BlockOfConnection
  <1>3. Items /\ Heaps /\ Rest /\ TypeOK
    BY IInvParts DEF IInv
  <1>4. /\ Ready' /\ UNCHANGED <<iteration, threads, env>> /\ jobs' = Tail(jobs)
        /\ jobs' \in Seq(Fds) /\ jobs # <<>> /\ fd = Head(jobs)
    BY <1>1, BlockKeepsReady
  <1>5. /\ PopDone(s, NoFd) /\ resolution' = [resolution EXCEPT ![s] = FALSE]
        /\ UNCHANGED <<state, clientFd, originFd>>
    BY <1>2 DEF ResolutionFails, HasHandler
  <1>6. Released(s)
    BY <1>2, <1>3, <1>5, PopDoneReleases DEF ShapeIs
  <1>7. Items' /\ Others(s) /\ ShapeOf(s)'
    BY <1>3, <1>4, <1>5, <1>6, ReleasedKeeps DEF TypeOK, env
  <1>8. Heaps' /\ state' \in [Structs -> States]
    BY <1>3, <1>5, <1>6 DEF Heaps, Released, TypeOK
  <1>9. Awaited'
    BY <1>2, <1>3, <1>4, <1>7, AwaitedTaken DEF IInv
  <1>10. Rest'
    BY <1>3, <1>4, <1>5 DEF Rest, iteration
  <1>11. Concerns(s)
    <2>1. ~Relays(s) /\ ~Relays(s)'
      BY <1>2, <1>5 DEF Relays
    <2> QED BY <1>7, <2>1, NotRelaying DEF Concerns
  <1> QED BY <1>4, <1>7, <1>8, <1>9, <1>10, <1>11, ConnectionStep

LEMMA ResolutionDoneStep ==
  ASSUME IInv, NEW fd \in Fds, NEW s \in Structs, ResolutionDone(fd, s)
  PROVE  IInv' /\ Concerns(s)
  <1> USE StructsAssumption, FdsAssumption
  <1>1. Block(fd) /\ owner[fd] = s
    BY DEF ResolutionDone
  <1>2. /\ Waits(s, fd) /\ state[s] = "RESOLUTION" /\ life[s] = "live"
        /\ ShapeIs(s, NoFd) /\ originFd[s] = NoFd /\ fd = clientFd[s]
    BY <1>1, BlockOfConnection
  <1>3. Items /\ Heaps /\ Rest /\ TypeOK
    BY IInvParts DEF IInv
  <1>4. /\ Ready' /\ UNCHANGED <<iteration, threads, env>> /\ jobs' = Tail(jobs)
        /\ jobs' \in Seq(Fds) /\ jobs # <<>> /\ fd = Head(jobs)
    BY <1>1, BlockKeepsReady
  <1>5. PICK origin \in Fds :
          /\ IsNewFd(origin) /\ Registrable(origin)
          /\ open' = open \cup {origin}
          /\ owner' = [owner EXCEPT ![origin] = s]
          /\ interest' = [interest EXCEPT ![fd] = "NOOP", ![origin] = "WRITE"]
    BY DEF ResolutionDone
  <1>6. /\ refs' = [refs EXCEPT ![s] = @ + 1]
        /\ state' = [state EXCEPT ![s] = "CONNECTING"]
        /\ resolution' = [resolution EXCEPT ![s] = FALSE]
        /\ UNCHANGED <<clientFd, originFd, life, poolSize, useAfterFree, concurrent, aborted>>
    BY DEF ResolutionDone, Referenced
  <1>7. /\ origin \notin open /\ owner[origin] = Unused /\ interest[origin] = "NOOP"
        /\ origin # fd
    BY <1>1, <1>3, <1>5 DEF IsNewFd, Registrable, Items, Listening
  <1>8. refs[s] = 1 /\ \A f \in Fds : owner[f] = s <=> f = fd
    BY <1>2 DEF ShapeIs, Holds
  <1>9. \A f \in Fds : interest'[f] = IF f = origin THEN "WRITE"
                                      ELSE IF f = fd THEN "NOOP" ELSE interest[f]
    BY <1>3, <1>5, <1>7 DEF Items
  <1>10. \A f \in Fds : owner'[f] = IF f = origin THEN s ELSE owner[f]
    BY <1>3, <1>5 DEF Items
  <1>11. Heaps' /\ state' \in [Structs -> States]
    BY <1>3, <1>6 DEF Heaps, TypeOK, States
  <1>12. Items'
    <2>1. /\ owner' \in [Fds -> Structs \cup {Unused, Passive}]
          /\ interest' \in [Fds -> Interests] /\ open' \subseteq Fds
          /\ aborted' \in BOOLEAN /\ NeverAborts'
      BY <1>3, <1>5, <1>6 DEF Items, Interests, NeverAborts
    <2>2. Listening'
      <3>1. fd # PassiveFd /\ origin # PassiveFd
        BY <1>1, <1>3, <1>7 DEF Items, Listening
      <3> QED BY <1>1, <1>3, <1>9, <1>10, <3>1 DEF Items, Listening
    <2>3. Registered' = Registered \cup {origin}
      BY <1>10 DEF Registered
    <2>4. OpenIffRegistered'
      BY <1>3, <1>4, <1>5, <1>7, <2>3 DEF Items, OpenIffRegistered, env
    <2> QED BY <2>1, <2>2, <2>4 DEF Items
  <1>13. Others(s)
    BY <1>1, <1>3, <1>6, <1>7, <1>9, <1>10 DEF Others, Heaps, TypeOK
  <1>14. ShapeOf(s)'
    <2>1. /\ life'[s] = "live" /\ refs'[s] = 2 /\ state'[s] = "CONNECTING"
          /\ clientFd'[s] = fd /\ originFd'[s] = NoFd
      BY <1>2, <1>3, <1>6, <1>8 DEF TypeOK
    <2>2. \A f \in Fds : owner'[f] = s <=> f \in {fd, origin}
      BY <1>8, <1>10
    <2>3. Paired(s, origin)'
      BY <1>7, <2>1, <2>2 DEF Paired
    <2>4. PICK a \in Armed("CONNECTING") : a = <<"NOOP", "WRITE">>
      BY DEF Armed
    <2>5. Matches(s, a)'
      BY <1>7, <1>9, <2>1, <2>2, <2>4 DEF Matches
    <2> QED BY <2>1, <2>3, <2>4, <2>5 DEF ShapeOf
  <1>15. Awaited'
    BY <1>2, <1>3, <1>4, <1>13, AwaitedTaken DEF IInv
  <1>16. Rest'
    BY <1>3, <1>4, <1>6 DEF Rest, iteration
  <1>17. Concerns(s)
    <2>1. /\ life'[s] = "live" /\ state'[s] = "CONNECTING" /\ clientFd'[s] = fd
          /\ interest'[fd] = "NOOP" /\ interest'[origin] = "WRITE"
      BY <1>2, <1>3, <1>6, <1>7, <1>9 DEF TypeOK
    <2>2. \A f : f \in OwnedBy(s)' \ {clientFd'[s]} <=> f = origin
      BY <1>7, <1>8, <1>10, <2>1 DEF OwnedBy
    <2>3. Relays(s)' /\ OriginItem(s)' = origin
      <3>1. OwnedBy(s)' \ {clientFd'[s]} = {origin}
        BY ONLY <2>2
      <3> QED BY <2>1, <3>1 DEF Relays, Live, OriginItem
    <2>4. ControlState(s)' = "CONNECTING" /\ ControlArmed(s)' = <<"NOOP", "WRITE">>
      BY <2>1, <2>3 DEF ControlState, ControlArmed
    <2>5. ControlState(s) = "CLOSED"
      BY <1>2 DEF ControlState, Relays
    <2>6. Begins(s)
      BY <2>4, <2>5 DEF Begins, Control!Init
    <2> QED BY <1>13, <2>6 DEF Concerns, ControlStep
  <1> QED BY <1>4, <1>11, <1>12, <1>13, <1>14, <1>15, <1>16, <1>17, ConnectionStep

\* What a step of a resolver thread has to show.
LEMMA ThreadStepKeeps ==
  ASSUME IInv,
         UNCHANGED <<owner, interest, iteration, open, state, clientFd, originFd, heap,
                     concurrent, env, aborted>>,
         threads' \subseteq Thread, jobs' \in Seq(Fds),
         resolution' \in [Structs -> BOOLEAN], Awaited'
  PROVE  IInv'
  <1> USE DEF IInv, iteration, heap, env
  <1>1. TypeOK' /\ Listening' /\ OpenIffRegistered' /\ NeverAborts'
    BY DEF TypeOK, Listening, OpenIffRegistered, Registered, NeverAborts
  <1>2. Shapes'
    BY DEF Shapes, ShapeOf, Alone, Paired, Matches
  <1>3. Ready'
    BY DEF Ready, ReadinessIsCurrent
  <1> QED BY <1>1, <1>2, <1>3

LEMMA ThreadResolvesStep ==
  ASSUME IInv, NEW t \in Thread, ThreadResolves(t) PROVE IInv'
  <1> DEFINE u == [t EXCEPT !.stage = "answered"]
  <1>1. /\ t \in threads /\ threads' = (threads \ {t}) \cup {u}
        /\ UNCHANGED <<selector, iteration, open, state, clientFd, originFd, heap,
                       concurrent, env, aborted>>
    BY DEF ThreadResolves
  <1>2. PICK found \in BOOLEAN : resolution' = [resolution EXCEPT ![t.conn] = found]
    BY DEF ThreadResolves
  <1>3. u \in Thread /\ u.conn = t.conn /\ u.fd = t.fd
    BY DEF Thread
  <1>4. threads' \subseteq Thread /\ resolution' \in [Structs -> BOOLEAN] /\ jobs' \in Seq(Fds)
    BY <1>1, <1>2, <1>3 DEF IInv, TypeOK, selector
  <1>5. \A r \in Structs, f \in Fds : Waits(r, f)' <=> Waits(r, f)
    BY <1>1 DEF Waits, Live, selector, heap
  <1>6. Awaited'
    <2> HIDE DEF u
    <2>1. \A v \in threads : v.conn \in Structs /\ v.fd \in Fds /\ Waits(v.conn, v.fd)
      BY DEF IInv, TypeOK, Thread, Awaited
    <2>2. \A v \in threads' : Waits(v.conn, v.fd)'
      BY <1>1, <1>3, <1>5, <2>1
    <2>3. (\A i \in 1..Len(jobs) : \E r \in Structs : Waits(r, jobs[i]))'
      BY <1>1, <1>5 DEF IInv, TypeOK, Awaited, selector
    <2>4. \A v, w \in threads' : v.fd = w.fd => v = w
      BY <1>1, <1>3 DEF IInv, Awaited
    <2>5. \A i, j \in 1..Len(jobs') : jobs'[i] = jobs'[j] => i = j
      BY <1>1 DEF IInv, Awaited, selector
    <2>6. \A v \in threads', i \in 1..Len(jobs') : v.fd # jobs'[i]
      BY <1>1, <1>3 DEF IInv, Awaited, selector
    <2> QED BY <2>2, <2>3, <2>4, <2>5, <2>6 DEF Awaited
  <1> QED BY <1>1, <1>4, <1>6, ThreadStepKeeps DEF selector

LEMMA ThreadNotifiesStep ==
  ASSUME IInv, NEW t \in Thread, ThreadNotifies(t) PROVE IInv'
  <1>1. /\ t \in threads /\ threads' = threads \ {t}
        /\ jobs' = <<t.fd>> \o jobs \/ jobs' = jobs
        /\ UNCHANGED <<owner, interest, iteration, open, fields, heap, concurrent,
                       env, aborted>>
    BY DEF ThreadNotifies
  <1>2. t.fd \in Fds /\ t.conn \in Structs /\ jobs \in Seq(Fds) /\ threads \subseteq Thread
    BY DEF Thread, IInv, TypeOK
  <1>3. jobs' \in Seq(Fds) /\ threads' \subseteq Thread /\ resolution' \in [Structs -> BOOLEAN]
    <2>1. <<t.fd>> \in Seq(Fds)
      BY <1>2
    <2>2. <<t.fd>> \o jobs \in Seq(Fds)
      BY <1>2, <2>1
    <2>3. jobs' \in Seq(Fds)
      BY <1>1, <1>2, <2>2
    <2> QED BY <1>1, <1>2, <2>3 DEF IInv, TypeOK, fields
  <1>4. \A r \in Structs, f \in Fds : Waits(r, f)' <=> Waits(r, f)
    BY <1>1 DEF Waits, Live, fields, heap
  <1>5. \A v \in threads : v.conn \in Structs /\ v.fd \in Fds /\ Waits(v.conn, v.fd)
    BY DEF IInv, TypeOK, Thread, Awaited
  <1>6. \A v \in threads' : Waits(v.conn, v.fd)' /\ v.fd # t.fd
    BY <1>1, <1>4, <1>5 DEF IInv, Awaited
  <1>7. \A v, w \in threads' : v.fd = w.fd => v = w
    BY <1>1 DEF IInv, Awaited
  <1>8. CASE jobs' = jobs
    <2>1. (\A i \in 1..Len(jobs) : \E r \in Structs : Waits(r, jobs[i]))'
      BY <1>2, <1>4, <1>8 DEF IInv, Awaited
    <2>2. Awaited'
      BY <1>1, <1>6, <1>7, <1>8, <2>1 DEF IInv, Awaited
    <2> QED BY <1>1, <1>3, <2>2, ThreadStepKeeps DEF fields
  <1>9. CASE jobs' = <<t.fd>> \o jobs
    <2>1. /\ Len(jobs') = Len(jobs) + 1 /\ Len(jobs) \in Nat /\ jobs'[1] = t.fd
          /\ \A i \in 1..Len(jobs') : i # 1 => i - 1 \in 1..Len(jobs) /\ jobs'[i] = jobs[i - 1]
      BY <1>2, <1>9
    <2>2. \A i \in 1..Len(jobs) : /\ jobs[i] \in Fds /\ jobs[i] # t.fd
                                  /\ \E r \in Structs : Waits(r, jobs[i])
      BY <1>1, <1>2 DEF IInv, Awaited
    <2>3. (\A i \in 1..Len(jobs) : \E r \in Structs : Waits(r, jobs[i]))'
      <3>1. \A i \in 1..Len(jobs') : \E r \in Structs : jobs'[i] \in Fds /\ Waits(r, jobs'[i])
        BY <1>1, <1>2, <1>5, <2>1, <2>2
      <3> QED BY <1>4, <3>1
    <2>4. \A i, j \in 1..Len(jobs') : jobs'[i] = jobs'[j] => i = j
      BY <2>1, <2>2 DEF IInv, Awaited
    <2>5. \A v \in threads', i \in 1..Len(jobs') : v.fd # jobs'[i]
      BY <1>1, <1>6, <2>1 DEF IInv, Awaited
    <2>6. Awaited'
      BY <1>6, <1>7, <2>3, <2>4, <2>5 DEF Awaited
    <2> QED BY <1>1, <1>3, <2>6, ThreadStepKeeps DEF fields
  <1> QED BY <1>1, <1>8, <1>9

-----------------------------------------------------------------------------
(* The theorems.                                                           *)

\* The program starts with the listening socket registered and no connection.
LEMMA InitIInv == Init => IInv
  <1> SUFFICES ASSUME Init PROVE IInv
    OBVIOUS
  <1> USE FdsAssumption, StructsAssumption DEF Init
  <1>1. TypeOK
    <2>1. /\ owner \in [Fds -> Structs \cup {Unused, Passive}]
          /\ interest \in [Fds -> Interests]
      BY DEF Interests
    <2>2. /\ open \subseteq Fds /\ held \subseteq Fds
          /\ slaveR \subseteq Fds /\ slaveW \subseteq Fds
          /\ phase \in {"select", "iterate", "blocks"}
      OBVIOUS
    <2>3. jobs \in Seq(Fds) /\ threads \subseteq Thread
      OBVIOUS
    <2>4. /\ life \in [Structs -> {"free", "live", "pooled"}]
          /\ state \in [Structs -> States]
          /\ clientFd \in [Structs -> Fds \cup {NoFd}]
          /\ originFd \in [Structs -> Fds \cup {NoFd}]
          /\ refs \in [Structs -> Nat] /\ resolution \in [Structs -> BOOLEAN]
      BY DEF States
    <2>5. poolSize \in 0..MaxPool /\ concurrent \in Int
      OBVIOUS
    <2>6. scarce \in BOOLEAN /\ aborted \in BOOLEAN /\ useAfterFree \in BOOLEAN
      BY Zenon
    <2> QED BY <2>1, <2>2, <2>3, <2>4, <2>5, <2>6 DEF TypeOK
  <1>2. Listening
    BY DEF Listening
  <1>3. Shapes
    BY DEF Shapes, ShapeOf
  <1>4. Awaited
    BY DEF Awaited
  <1>5. Ready /\ NeverAborts
    BY DEF Ready, ReadinessIsCurrent, NeverAborts
  <1>6. OpenIffRegistered
    BY DEF OpenIffRegistered, Registered
  <1> QED BY <1>1, <1>2, <1>3, <1>4, <1>5, <1>6 DEF IInv

\* Every step of the selector's thread and of the resolvers keeps the invariant.
LEMMA NextIInv == IInv /\ [Next]_vars => IInv'
  <1> SUFFICES ASSUME IInv, [Next]_vars PROVE IInv'
    OBVIOUS
  <1>1. CASE Select \/ EndIteration \/ EndBlocks
    BY <1>1, SelectStep, EndSteps
  <1>2. ASSUME NEW fd \in Fds, Iteration(fd) PROVE IInv'
    BY <1>2, AcceptNothingStep, AcceptRejectedStep, AcceptStep, RelayStepStep,
       ResolutionStartStep, ConnectingStepStep DEF Iteration
  <1>3. ASSUME NEW fd \in Fds, Notification(fd) PROVE IInv'
    BY <1>3, ResolutionFailsStep, ResolutionDoneStep DEF Notification
  <1>4. ASSUME NEW t \in Thread, ThreadStep(t) PROVE IInv'
    BY <1>4, ThreadResolvesStep, ThreadNotifiesStep DEF ThreadStep
  <1>5. CASE UNCHANGED vars
    <2>1. UNCHANGED <<selector, iteration, open, threads, fields, heap, concurrent,
                      env, aborted>>
      BY <1>5 DEF vars
    <2>2. Ready'
      BY <2>1 DEF IInv, Ready, ReadinessIsCurrent, selector, iteration
    <2> QED BY <2>1, <2>2, IdleStep DEF IInv, TypeOK, iteration
  <1> QED BY <1>1, <1>2, <1>3, <1>4, <1>5 DEF Next, Loop

\* Along every run each live struct is alone in RESOLUTION or paired with
\* exactly its two descriptors, armed as its state requires, and each resolver
\* thread or job is for a waiting connection of its own (pop3nio.c, selector.c).
THEOREM IInvAlways == Spec => []IInv
  BY InitIInv, NextIInv, PTL DEF Spec

\* Type correctness: in particular pool_size never leaves 0..max_pool.
THEOREM TypeCorrect == Spec => []TypeOK
  BY IInvAlways, PTL DEF IInv

\* No interleaving of resolver threads, notifications and handlers leaves a
\* thread or a queued notification whose connection is gone, closed or reused.
THEOREM ResolversAwaited == Spec => []ResolversAreAwaited
  <1>1. IInv => ResolversAreAwaited
    BY DEF IInv, Awaited, ResolversAreAwaited
  <1> QED BY <1>1, IInvAlways, PTL

\* The program never aborts, neither in stm.c nor in pop3_done.
THEOREM NoAbort == Spec => []NeverAborts
  BY IInvAlways, PTL DEF IInv

\* The selector knows every socket the connections hold open: none leaks, and
\* none is watched after it has been closed.
THEOREM OpenAreRegistered == Spec => []OpenIffRegistered
  BY IInvAlways, PTL DEF IInv

\* Readiness reported by pselect is never delivered to a later owner of the
\* descriptor, nor to a handler that no longer waits for it.
THEOREM ReadinessStaysCurrent == Spec => []ReadinessIsCurrent
  BY IInvAlways, PTL DEF IInv, Ready

\* A connection's descriptors are armed exactly as its state wants them, one
\* of the two at a time.
THEOREM InterestsMatch == Spec => []InterestMatchesState
  <1>1. IInv => InterestMatchesState
    <2> SUFFICES ASSUME IInv, NEW s \in Live
                 PROVE  \E a \in Armed(state[s]) :
                          /\ interest[clientFd[s]] = a[1]
                          /\ \A f \in OwnedBy(s) \ {clientFd[s]} : interest[f] = a[2]
      BY DEF InterestMatchesState
    <2>1. s \in Structs /\ life[s] = "live" /\ ShapeOf(s)
      BY DEF Live, IInv, Shapes
    <2>2. PICK a \in Armed(state[s]) : Matches(s, a)
      BY <2>1 DEF ShapeOf
    <2> QED BY <2>2 DEF Matches, OwnedBy
  <1> QED BY <1>1, IInvAlways, PTL

\* A step that concerns no connection.
LEMMA IdleFollows ==
  ASSUME Shapes, UNCHANGED <<owner, interest, life, state, clientFd>>
  PROVE  \A r \in Structs : ControlStep(r)
  <1>1. ASSUME NEW r \in Structs PROVE Untouched(r)
    BY DEF Untouched
  <1> QED BY <1>1, UntouchedStutters

\* Through every interleaving with the others, and however often its struct and
\* its descriptors are reused, a connection does what ConnectionControl says: it
\* begins in CONNECTING and each of its steps is a handler of its own state, for
\* an event one of its own two descriptors is armed for (stm.c, selector.c).
THEOREM ConnectionsFollowControl == Spec => EachFollowsControl
  <1>1. IInv /\ [Next]_vars => \A s \in Structs : ControlStep(s)
    <2> SUFFICES ASSUME IInv, [Next]_vars PROVE \A s \in Structs : ControlStep(s)
      OBVIOUS
    <2>0. Shapes
      BY DEF IInv
    <2>1. CASE Select \/ EndIteration \/ EndBlocks
      BY <2>0, <2>1, IdleFollows DEF Select, EndIteration, EndBlocks, selector, fields, heap
    <2>2. ASSUME NEW fd \in Fds, Iteration(fd) PROVE \A s \in Structs : ControlStep(s)
      <3>1. CASE AcceptNothing(fd)
        BY <2>0, <3>1, IdleFollows DEF AcceptNothing, fields, heap
      <3>2. CASE ~AcceptNothing(fd)
        <4>1. \E s \in Structs : Concerns(s)
          BY <2>2, <3>2, AcceptRejectedStep, AcceptStep, RelayStepStep,
             ResolutionStartStep, ConnectingStepStep DEF Iteration
        <4> QED BY <2>0, <4>1, ConcernsOne
      <3> QED BY <3>1, <3>2
    <2>3. ASSUME NEW fd \in Fds, Notification(fd) PROVE \A s \in Structs : ControlStep(s)
      <3>1. \E s \in Structs : Concerns(s)
        BY <2>3, ResolutionFailsStep, ResolutionDoneStep DEF Notification
      <3> QED BY <2>0, <3>1, ConcernsOne
    <2>4. ASSUME NEW t \in Thread, ThreadStep(t) PROVE \A s \in Structs : ControlStep(s)
      BY <2>0, <2>4, IdleFollows
         DEF ThreadStep, ThreadResolves, ThreadNotifies, selector, fields, heap
    <2>5. CASE UNCHANGED vars
      BY <2>0, <2>5, IdleFollows DEF vars, selector, fields, heap
    <2> QED BY <2>1, <2>2, <2>3, <2>4, <2>5 DEF Next, Loop
  <1>2. IInv /\ [Next]_vars =>
          [\A s \in Structs : Begins(s) \/ [Control(s)!Next]_(Control(s)!vars)]_vars
    BY <1>1 DEF ControlStep
  <1> QED BY <1>2, IInvAlways, PTL DEF Spec, EachFollowsControl

\* The reference count of every struct in use is the number of descriptors
\* registered with it, so it is released with the last of them.
THEOREM RefsAreRegistrations == Spec => []RefsCountRegistrations
  <1>1. IInv => RefsCountRegistrations
    <2> SUFFICES ASSUME IInv, NEW s \in Structs
                 PROVE  Cardinality(OwnedBy(s)) = IF s \in Live THEN refs[s] ELSE 0
      BY DEF RefsCountRegistrations
    <2>1. ShapeOf(s)
      BY DEF IInv, Shapes
    <2>2. CASE life[s] # "live"
      <3>1. OwnedBy(s) = {} /\ s \notin Live
        BY <2>1, <2>2 DEF ShapeOf, OwnedBy, Live
      <3> QED BY <3>1, FS_EmptySet
    <2>3. CASE life[s] = "live"
      <3>1. s \in Live /\ clientFd[s] \in Fds
        BY <2>1, <2>3 DEF ShapeOf, Live
      <3>2. CASE Alone(s)
        <4>1. OwnedBy(s) = {clientFd[s]} /\ refs[s] = 1
          BY <3>1, <3>2 DEF Alone, OwnedBy
        <4> QED BY <3>1, <4>1, FS_Singleton
      <3>3. ASSUME NEW o \in Fds, Paired(s, o)
            PROVE  Cardinality(OwnedBy(s)) = refs[s]
        <4>1. OwnedBy(s) = {clientFd[s]} \cup {o} /\ refs[s] = 2 /\ o \notin {clientFd[s]}
          BY <3>1, <3>3 DEF Paired, OwnedBy
        <4>2. IsFiniteSet({clientFd[s]}) /\ Cardinality({clientFd[s]}) = 1
          BY FS_Singleton
        <4>3. Cardinality({clientFd[s]} \cup {o}) = 1 + 1
          BY <4>1, <4>2, FS_AddElement
        <4> QED BY <4>1, <4>3
      <3> QED BY <2>1, <2>3, <3>1, <3>2, <3>3 DEF ShapeOf
    <2> QED BY <2>2, <2>3
  <1> QED BY <1>1, IInvAlways, PTL

-----------------------------------------------------------------------------
(* The counters.                                                           *)

\* The metric and pool_size never fall below what they count.
CountsBound == /\ IsFiniteSet(Live) /\ Cardinality(Live) <= concurrent
            /\ IsFiniteSet(Pooled) /\ Cardinality(Pooled) <= poolSize

\* How much a struct counts.
One(b) == IF b THEN 1 ELSE 0

\* A set that one element may join or leave grows by what the element counts.
LEMMA OneElement ==
  ASSUME NEW S, IsFiniteSet(S), NEW T, NEW s, T \ {s} = S \ {s}
  PROVE  /\ IsFiniteSet(T)
         /\ Cardinality(T) = Cardinality(S) - One(s \in S) + One(s \in T)
  <1> DEFINE R == S \ {s}
  <1>1. /\ IsFiniteSet(R) /\ Cardinality(S) \in Nat /\ Cardinality(R) \in Nat
        /\ Cardinality(R) = IF s \in S THEN Cardinality(S) - 1 ELSE Cardinality(S)
    BY FS_RemoveElement, FS_CardinalityType
  <1>2. s \notin R /\ T = IF s \in T THEN R \cup {s} ELSE R
    OBVIOUS
  <1>3. /\ IsFiniteSet(R \cup {s})
        /\ Cardinality(R \cup {s}) = Cardinality(R) + 1
    <2> HIDE DEF R
    <2> QED BY <1>1, <1>2, FS_AddElement
  <1> HIDE DEF R
  <1>4. /\ One(s \in S) = IF s \in S THEN 1 ELSE 0
        /\ One(s \in T) = IF s \in T THEN 1 ELSE 0
    BY DEF One
  <1>5. CASE s \in T
    <2>1. Cardinality(T) = Cardinality(R) + 1 /\ IsFiniteSet(T)
      BY <1>2, <1>3, <1>5
    <2> QED BY <1>1, <1>4, <1>5, <2>1
  <1>6. CASE s \notin T
    <2>1. T = R
      BY <1>2, <1>6
    <2> QED BY <1>1, <1>4, <1>6, <2>1
  <1> QED BY <1>5, <1>6

\* A step that moves one struct keeps the counters if they move with it.
LEMMA CountsMove ==
  ASSUME IInv, CountsBound, NEW s \in Structs,
         \A r \in Structs \ {s} : life'[r] = life[r],
         concurrent' \in Int, poolSize' \in Int,
         concurrent' - concurrent >= One(s \in Live') - One(s \in Live),
         poolSize' - poolSize >= One(s \in Pooled') - One(s \in Pooled)
  PROVE  CountsBound'
  <1>1. Live' \ {s} = Live \ {s} /\ Pooled' \ {s} = Pooled \ {s}
    BY DEF Live, Pooled
  <1>2. /\ IsFiniteSet(Live')
        /\ Cardinality(Live') = Cardinality(Live) - One(s \in Live) + One(s \in Live')
    BY <1>1, OneElement DEF CountsBound
  <1>3. /\ IsFiniteSet(Pooled')
        /\ Cardinality(Pooled') = Cardinality(Pooled) - One(s \in Pooled) + One(s \in Pooled')
    BY <1>1, OneElement DEF CountsBound
  <1>4. /\ Cardinality(Live) \in Nat /\ Cardinality(Pooled) \in Nat
        /\ concurrent \in Int /\ poolSize \in Int
        /\ Cardinality(Live) <= concurrent /\ Cardinality(Pooled) <= poolSize
    BY FS_CardinalityType DEF CountsBound, IInv, TypeOK
  <1>5. /\ One(s \in Live) \in Int /\ One(s \in Live') \in Int
        /\ One(s \in Pooled) \in Int /\ One(s \in Pooled') \in Int
    BY DEF One
  <1> QED BY <1>2, <1>3, <1>4, <1>5 DEF CountsBound

\* A step that moves none keeps them if the metric does not fall.
LEMMA CountsStay ==
  ASSUME IInv, CountsBound, UNCHANGED <<life, poolSize>>,
         concurrent' \in {concurrent, concurrent + 1}
  PROVE  CountsBound'
  <1>1. Live' = Live /\ Pooled' = Pooled
    BY DEF Live, Pooled
  <1>2. Cardinality(Live) \in Nat /\ concurrent \in Int
    BY FS_CardinalityType DEF CountsBound, IInv, TypeOK
  <1> QED BY <1>1, <1>2 DEF CountsBound

LEMMA ReleasedCounts ==
  ASSUME IInv, CountsBound, NEW s \in Structs, life[s] = "live", Released(s)
  PROVE  CountsBound'
  <1>1. /\ concurrent \in Int /\ poolSize \in Int
        /\ concurrent' \in Int /\ poolSize' \in Int
    BY DEF IInv, TypeOK, Released
  <1>2. /\ s \in Live /\ s \notin Pooled /\ s \notin Live'
        /\ s \in Pooled' <=> life'[s] = "pooled"
    BY DEF Live, Pooled, Released
  <1>3. One(s \in Live) = 1 /\ One(s \in Live') = 0 /\ One(s \in Pooled) = 0
    BY <1>2 DEF One
  <1>4. CASE life'[s] = "pooled" /\ poolSize' = poolSize + 1
    <2>1. One(s \in Pooled') = 1
      BY <1>2, <1>4 DEF One
    <2> QED BY <1>1, <1>3, <1>4, <2>1, CountsMove DEF Released
  <1>5. CASE life'[s] = "free" /\ poolSize' = poolSize
    <2>1. One(s \in Pooled') = 0
      BY <1>2, <1>5 DEF One
    <2> QED BY <1>1, <1>3, <1>5, <2>1, CountsMove DEF Released
  <1> QED BY <1>4, <1>5 DEF Released

\* A handler closes its connection or moves nothing.
LEMMA FinishCounts ==
  ASSUME IInv, CountsBound, NEW s \in Structs, NEW origin \in Fds \cup {NoFd},
         ShapeIs(s, origin), life[s] = "live", NEW fd, NEW o, Finish(o, fd, s, origin)
  PROVE  CountsBound'
  <1>1. CASE PopDone(s, origin)
    <2>1. Released(s)
      BY <1>1, PopDoneReleases DEF IInv, ShapeIs
    <2> QED BY <2>1, ReleasedCounts
  <1>2. CASE UNCHANGED <<heap, concurrent>>
    BY <1>2, CountsStay DEF heap
  <1> QED BY <1>1, <1>2 DEF Finish

LEMMA AcceptCounts ==
  ASSUME IInv, CountsBound, NEW fd \in Fds,
         AcceptNothing(fd) \/ AcceptRejected(fd) \/ Accept(fd)
  PROVE  CountsBound'
  <1>1. concurrent' = concurrent + 1 /\ concurrent \in Int /\ poolSize \in 0..MaxPool
    BY DEF AcceptNothing, AcceptRejected, Accept, AcceptEvent, Counted, IInv, TypeOK
  <1>2. CASE AcceptNothing(fd)
    BY <1>1, <1>2, CountsStay DEF AcceptNothing, heap
  <1>3. CASE AcceptRejected(fd)
    <2>1. PICK s \in Structs : s \in Allocatable /\ HeapIs(Destroy(NewHeap(s), s))
      BY <1>3, AllocatableInStructs DEF AcceptRejected
    <2> DEFINE h == NewHeap(s)
               d == Destroy(h, s)
    <2>2. life[s] # "live"
      BY <2>1, AllocatableUnowned
    <2>3. h = [life |-> [life EXCEPT ![s] = "live"], refs |-> [refs EXCEPT ![s] = 1],
               poolSize |-> poolSize]
      <3>1. h = [Heap EXCEPT !.life[s] = "live", !.refs[s] = 1]
        BY DEF NewHeap
      <3> QED BY <3>1 DEF Heap
    <2>4. /\ h.life \in [Structs -> {"free", "live", "pooled"}]
          /\ h.refs \in [Structs -> Nat] /\ h.refs[s] = 1 /\ h.poolSize = poolSize
          /\ h = [life |-> h.life, refs |-> h.refs, poolSize |-> h.poolSize]
          /\ \A r \in Structs \ {s} : h.life[r] = life[r]
      BY <2>3 DEF IInv, TypeOK
    <2>5. /\ \A r \in Structs \ {s} : d.life[r] = h.life[r]
          /\ \/ d.life[s] = "pooled" /\ d.poolSize = poolSize + 1
             \/ d.life[s] = "free" /\ d.poolSize = poolSize
          /\ d.poolSize \in 0..MaxPool
      <3> HIDE DEF h
      <3> QED BY <1>1, <2>4, DestroyType
    <2>6. life' = d.life /\ poolSize' = d.poolSize
      BY <2>1 DEF HeapIs
    <2>7. /\ \A r \in Structs \ {s} : life'[r] = life[r]
          /\ s \notin Live /\ s \notin Live'
          /\ s \in Pooled' => poolSize' = poolSize + 1
          /\ poolSize' \in {poolSize, poolSize + 1}
      <3> HIDE DEF h, d
      <3> QED BY <2>2, <2>4, <2>5, <2>6 DEF Live, Pooled
    <2>8. /\ One(s \in Live) = 0 /\ One(s \in Live') = 0
          /\ One(s \in Pooled) \in {0, 1} /\ One(s \in Pooled') \in {0, 1}
          /\ One(s \in Pooled') = 1 => poolSize' = poolSize + 1
      BY <2>7 DEF One
    <2>9. /\ concurrent' \in Int /\ poolSize' \in Int
          /\ concurrent' - concurrent >= One(s \in Live') - One(s \in Live)
          /\ poolSize' - poolSize >= One(s \in Pooled') - One(s \in Pooled)
      BY <1>1, <2>7, <2>8
    <2> QED BY <2>7, <2>9, CountsMove
  <1>4. CASE Accept(fd)
    <2>1. PICK s \in Structs : s \in Allocatable /\ HeapIs(NewHeap(s))
      BY <1>4, AllocatableInStructs DEF Accept
    <2>2. life[s] # "live"
      BY <2>1, AllocatableUnowned
    <2>3. life' = [life EXCEPT ![s] = "live"] /\ poolSize' = poolSize
      BY <2>1 DEF HeapIs, NewHeap, Heap
    <2>4. /\ \A r \in Structs \ {s} : life'[r] = life[r]
          /\ s \notin Live /\ s \in Live' /\ s \notin Pooled'
      BY <2>2, <2>3 DEF Live, Pooled, IInv, TypeOK
    <2>5. /\ One(s \in Live) = 0 /\ One(s \in Live') = 1
          /\ One(s \in Pooled) \in {0, 1} /\ One(s \in Pooled') = 0
      BY <2>4 DEF One
    <2>6. /\ concurrent' \in Int /\ poolSize' \in Int
          /\ concurrent' - concurrent >= One(s \in Live') - One(s \in Live)
          /\ poolSize' - poolSize >= One(s \in Pooled') - One(s \in Pooled)
      BY <1>1, <2>3, <2>5
    <2> QED BY <2>4, <2>6, CountsMove
  <1> QED BY <1>2, <1>3, <1>4

LEMMA HandlerCounts ==
  ASSUME IInv, CountsBound, NEW fd \in Fds,
         RelayStep(fd) \/ \E s \in Structs : ResolutionStart(fd, s) \/ ConnectingStep(fd, s)
  PROVE  CountsBound'
  <1> USE StructsAssumption, FdsAssumption
  <1>1. ASSUME NEW s \in Structs, Taken(fd), owner[fd] = s
        PROVE  /\ life[s] = "live"
               /\ \E origin \in Fds \cup {NoFd} : ShapeIs(s, origin)
    BY <1>1, EventOfConnection
  <1>2. ASSUME NEW s \in Structs, ResolutionStart(fd, s) PROVE CountsBound'
    <2>1. Taken(fd) /\ owner[fd] = s /\ state[s] = "RESOLUTION"
      BY <1>2 DEF ResolutionStart, ConnEvent, Event
    <2>2. PICK origin \in Fds \cup {NoFd} : ShapeIs(s, origin)
      BY <1>1, <2>1
    <2>3. originFd[s] = origin
      BY <2>1, <2>2 DEF ShapeIs
    <2> QED BY <1>1, <1>2, <2>1, <2>2, <2>3, FinishCounts DEF ResolutionStart
  <1>3. ASSUME NEW s \in Structs, ConnectingStep(fd, s) PROVE CountsBound'
    <2>1. /\ Taken(fd) /\ owner[fd] = s /\ state[s] = "CONNECTING" /\ NextEvent(fd) = "WRITE"
      BY <1>3 DEF ConnectingStep, ConnEvent, Event
    <2>2. PICK origin \in Fds \cup {NoFd} : ShapeIs(s, origin)
      BY <1>1, <2>1
    <2>3. interest[fd] = "WRITE"
      BY <2>1, EventOfConnection
    <2>4. fd # clientFd[s]
      BY <2>1, <2>2, <2>3 DEF ShapeIs, Matches, Armed
    <2>5. origin = fd
      BY <2>1, <2>2, <2>4 DEF ShapeIs, Holds
    <2> QED BY <1>1, <1>3, <2>1, <2>2, <2>5, FinishCounts DEF ConnectingStep
  <1>4. CASE RelayStep(fd)
    <2>1. Taken(fd) /\ owner[fd] # Passive /\ owner[fd] # Unused /\ Current(fd)
      BY <1>4, Reported DEF RelayStep
    <2>2. PICK s \in Structs : s = owner[fd]
      BY <2>1 DEF IInv, TypeOK
    <2>3. PICK origin \in Fds \cup {NoFd} : ShapeIs(s, origin)
      BY <1>1, <2>1, <2>2
    <2>4. CASE \E o : Finish(o, fd, s, originFd[s])
      <3>1. CASE originFd[s] = origin
        BY <1>1, <2>1, <2>2, <2>3, <2>4, <3>1, FinishCounts
      <3>2. CASE originFd[s] # origin
        \* the origin is not connected yet: no handler of that state runs here
        <4>1. /\ state[s] = "CONNECTING" /\ NextEvent(fd) # "WRITE"
              /\ HasHandler(state[s], NextEvent(fd)) \/ UNCHANGED <<heap, concurrent>>
          BY <1>4, <2>1, <2>2, <2>3, <3>2 DEF RelayStep, ShapeIs, Abort
        <4>2. ~HasHandler(state[s], NextEvent(fd))
          BY <2>1, <4>1, Reported DEF HasHandler
        <4> QED BY <4>1, <4>2, CountsStay DEF heap
      <3> QED BY <3>1, <3>2
    <2>5. CASE UNCHANGED <<heap, concurrent>>
      BY <2>5, CountsStay DEF heap
    <2> QED BY <1>4, <2>1, <2>2, <2>4, <2>5 DEF RelayStep, Abort
  <1> QED BY <1>2, <1>3, <1>4

LEMMA NotificationCounts ==
  ASSUME IInv, CountsBound, NEW fd \in Fds, Notification(fd)
  PROVE  CountsBound'
  <1>1. ASSUME NEW s \in Structs, ResolutionDone(fd, s) PROVE CountsBound'
    BY <1>1, CountsStay DEF ResolutionDone
  <1>2. CASE ResolutionFails(fd)
    <2>1. PICK s \in Structs :
            /\ owner[fd] = s /\ state[s] = "RESOLUTION" /\ life[s] = "live"
            /\ ShapeIs(s, NoFd) /\ originFd[s] = NoFd
      BY <1>2, BlockOfConnection DEF ResolutionFails
    <2>2. PopDone(s, NoFd)
      BY <1>2, <2>1, StructsAssumption DEF ResolutionFails, HasHandler
    <2>3. Released(s)
      BY <2>1, <2>2, PopDoneReleases DEF IInv, ShapeIs
    <2> QED BY <2>1, <2>3, ReleasedCounts
  <1> QED BY <1>1, <1>2 DEF Notification

\* The metric never reports fewer connections than there are, and the pool
\* never holds more structs than pool_size and max_pool admit, for any number
\* of connections (pop3nio.c, metrics.c).
THEOREM CountersAreBounds == Spec => []CountersBound
  <1>1. Init => CountsBound
    <2> SUFFICES ASSUME Init PROVE CountsBound
      OBVIOUS
    <2>1. Live = {} /\ Pooled = {} /\ concurrent = 0 /\ poolSize = 0
      BY DEF Init, Live, Pooled
    <2> QED BY <2>1, FS_EmptySet DEF CountsBound
  <1>2. IInv /\ CountsBound /\ [Next]_vars => CountsBound'
    <2> SUFFICES ASSUME IInv, CountsBound, [Next]_vars PROVE CountsBound'
      OBVIOUS
    <2>1. CASE Select \/ EndIteration \/ EndBlocks
      BY <2>1, CountsStay DEF Select, EndIteration, EndBlocks, heap
    <2>2. ASSUME NEW fd \in Fds, Iteration(fd) PROVE CountsBound'
      BY <2>2, AcceptCounts, HandlerCounts DEF Iteration
    <2>3. ASSUME NEW fd \in Fds, Notification(fd) PROVE CountsBound'
      BY <2>3, NotificationCounts
    <2>4. ASSUME NEW t \in Thread, ThreadStep(t) PROVE CountsBound'
      BY <2>4, CountsStay DEF ThreadStep, ThreadResolves, ThreadNotifies, heap
    <2>5. CASE UNCHANGED vars
      BY <2>5, CountsStay DEF vars, heap
    <2> QED BY <2>1, <2>2, <2>3, <2>4, <2>5 DEF Next, Loop
  <1>3. IInv /\ CountsBound => CountersBound
    BY DEF IInv, TypeOK, CountsBound, CountersBound
  <1> QED BY <1>1, <1>2, <1>3, IInvAlways, PTL DEF Spec
=============================================================================
