---------------------------- MODULE MiddleProofs ----------------------------
(***************************************************************************)
(* Proofs about the way of the events to the middle layer, for any kinds   *)
(* of programs, any number of threads, syncs, barriers and buffers.        *)
(***************************************************************************)
EXTENDS MiddleLayer, FiniteSetTheorems, TLAPS

-----------------------------------------------------------------------------
(***************************************************************************)
(* What the runtime has stored.  A spot is a place in a buffer, be it in   *)
(* the file or a thread's own.                                             *)
(***************************************************************************)
EventSet ==
    [kind : {"block"}, long : BOOLEAN]
    \cup [kind : {"create", "start", "join", "exit"}, other : Context]
    \cup [kind : {"sync"}, addr : Addr, wait : BOOLEAN, num : Nat]
    \cup [kind : {"enter", "leave"}, num : Nat]

ProgramTypes ==
    /\ plan \in Programs
    /\ life \in [Context -> {"off", "run", "barrier", "exited"}]
    /\ creator \in [Context -> Context]
    /\ order \in [sync : Nat, barrier : Nat]
    /\ buffer \in [Context -> Seq(EventSet)]
    /\ file \in Seq([ctid : Context, events : Seq(EventSet)])

FileSpot   == UNION {{<<"file", b, i>> : i \in 1 .. Len(file[b].events)} : b \in 1 .. Len(file)}
BufferSpot == UNION {{<<"buffer", c, i>> : i \in 1 .. Len(buffer[c])} : c \in Context}
Spot       == FileSpot \cup BufferSpot

Owner(s) == IF s[1] = "file" THEN file[s[2]].ctid ELSE s[2]
At(s)    == IF s[1] = "file" THEN file[s[2]].events[s[3]] ELSE buffer[s[2]][s[3]]

\* No two events are syncs with the same number, or at a barrier with the same number,
\* or creates of the same thread; ...
SameKey(e, f) ==
    \/ e.kind = "sync" /\ f.kind = "sync" /\ e.num = f.num
    \/ e.kind \in {"enter", "leave"} /\ f.kind \in {"enter", "leave"} /\ e.num = f.num
    \/ e.kind = "create" /\ f.kind = "create" /\ e.other = f.other

Distinct == \A s, t \in Spot : SameKey(At(s), At(t)) => s = t

\* ... for a new number has not been drawn before, and a new thread was off.
Drawn(e) ==
    /\ e.kind = "sync" => e.num < order.sync
    /\ e.kind \in {"enter", "leave"} => e.num < order.barrier
    /\ e.kind = "create" => e.other # 0 /\ life[e.other] # "off"

AllDrawn == \A s \in Spot : Drawn(At(s))

\* What a thread has stored first, if it is not the main thread, and nothing else, is a
\* start; the thread it names has stored the create.
IsFirst(s) ==
    /\ s[3] = 1
    /\ IF s[1] = "file" THEN \A b \in BuffersOf(Owner(s)) : s[2] <= b
       ELSE BuffersOf(Owner(s)) = {}

Lives ==
    /\ life[0] # "off"
    /\ \A c \in Context :
          /\ life[c] = "off" => buffer[c] = <<>> /\ BuffersOf(c) = {}
          /\ life[c] = "exited" => buffer[c] = <<>>
          /\ c # 0 /\ life[c] \in {"run", "barrier"} /\ BuffersOf(c) = {} => buffer[c] # <<>>
    /\ \A b \in 1 .. Len(file) : file[b].events # <<>>

Starts ==
    \A s \in Spot :
        /\ At(s).kind = "start" <=> IsFirst(s) /\ Owner(s) # 0
        /\ At(s).kind = "start" =>
              \E t \in Spot : /\ At(t).kind = "create" /\ At(t).other = Owner(s)
                              /\ Owner(t) = At(s).other

Recorded == Distinct /\ AllDrawn /\ Lives /\ Starts

-----------------------------------------------------------------------------
(***************************************************************************)
(* What EventLib has read and EventList keeps.                             *)
(***************************************************************************)
Place == UNION {PlacesOf(c) : c \in Context}

Ctid(p) == file[p[1]].ctid

BeforeScan ==
    /\ pos = [buf |-> 0, event |-> 1]
    /\ DOMAIN list.queuedEvents = {} /\ DOMAIN list.waitingEvents = {}
    /\ list.ticketNum = 0 /\ list.barrierNum = 0
    /\ got = [c \in Context |-> 0]

FileEvents  == {EventAt(p) : p \in Place}
IsQueues(q) == DOMAIN q \subseteq Context /\ \A c \in DOMAIN q : q[c] \in Seq(FileEvents)

ListFields == {"queuedEvents", "waitingEvents", "eventQueueCurrent", "ticketNum", "barrierNum",
               "minQueuedTicket", "resetMinTicket", "currMinTicket", "recursive"}

ListTypes ==
    /\ DOMAIN list = ListFields
    /\ IsQueues(list.queuedEvents) /\ IsQueues(list.waitingEvents)
    /\ list.ticketNum \in Nat /\ list.barrierNum \in Nat
    /\ DOMAIN list.queuedEvents # {} =>
          list.eventQueueCurrent \in DOMAIN list.queuedEvents
    /\ got \in [Context -> Nat]

\* The buffers of a context that have not been read are its last ones; the one that is
\* being read is the one before them.
Reading ==
    /\ DOMAIN skipList = {file[b].ctid : b \in 1 .. Len(file)}
    /\ \A c \in DOMAIN skipList :
          /\ skipList[c] \subseteq BuffersOf(c)
          /\ \A b \in skipList[c], d \in BuffersOf(c) : b <= d => d \in skipList[c]
    /\ pos \in [buf : 0 .. Len(file), event : Nat \ {0}]
    /\ InBuffer => /\ pos.buf \notin skipList[file[pos.buf].ctid]
                   /\ \A d \in BuffersOf(file[pos.buf].ctid) :
                         pos.buf < d => d \in skipList[file[pos.buf].ctid]

\* The places of a context that have been read, and the events that have been kept.
Taken(c) ==
    {p \in PlacesOf(c) : /\ p[1] \notin skipList[c]
                         /\ p[1] = pos.buf => p[2] < pos.event}

Kept(c) ==
    IF c \in DOMAIN list.queuedEvents THEN list.queuedEvents[c]
    ELSE IF c \in DOMAIN list.waitingEvents THEN list.waitingEvents[c]
    ELSE <<>>

\* What has been kept follows what has been returned.
Follows(c, k, n) ==
    \A i \in 1 .. Len(k) : \E p \in PlacesOf(c) : k[i] = EventAt(p) /\ Nth(p) = n + i

Complete ==
    \A c \in Context :
        /\ Cardinality(Taken(c)) = got[c] + Len(Kept(c))
        /\ Follows(c, Kept(c), got[c])

Apart == \A c \in Context : Waiting(c) => c \notin DOMAIN list.queuedEvents

\* How many events of a context the middle layer has dealt with, and what it has created.
Dealt(c) == IF pc = "main" /\ event.ctid = c THEN got[c] - 1 ELSE got[c]

Created(c) ==
    \E p \in Place : /\ EventAt(p).kind = "create" /\ EventAt(p).other = c
                     /\ Nth(p) <= Dealt(Ctid(p))

Started(c) == \E p \in PlacesOf(c) : EventAt(p).kind = "start" /\ Nth(p) <= got[c]

\* A thread has a queue, or a mark, and has been started only when it has been created.
Allowed(c) ==
    \/ c \in DOMAIN list.queuedEvents
    \/ c \in DOMAIN list.waitingEvents /\ list.waitingEvents[c] = <<>>

CreatedFirst == \A c \in Context \ {0} : Allowed(c) \/ Started(c) => Created(c)

\* The numbers that are still to come are not below the counters.
Ahead ==
    \A p \in Place : Nth(p) > got[Ctid(p)] =>
        /\ EventAt(p).kind = "sync" => EventAt(p).num >= list.ticketNum
        /\ EventAt(p).kind \in {"enter", "leave"} => EventAt(p).num >= list.barrierNum

Scanned ==
    /\ \A c \in Context : buffer[c] = <<>>
    /\ Reading /\ Complete /\ Apart /\ CreatedFirst /\ Ahead

Steps == {"scan", "read", "main", "end", "aborted", "done"}

QueueInv ==
    /\ ProgramTypes /\ ListTypes /\ Recorded
    /\ \/ pc = "program" /\ BeforeScan
       \/ pc \in Steps /\ Scanned
    /\ ProgramOrder /\ GlobalOrder

-----------------------------------------------------------------------------
(***************************************************************************)
(* Operators.                                                              *)
(***************************************************************************)

\* A set of numbers that is not empty has a least one, which Min chooses.
LEMMA LeastNumber ==
  ASSUME NEW S \in SUBSET Nat, S # {}
  PROVE  Min(S) \in S /\ \A x \in S : Min(S) <= x
<1> DEFINE R == StrictSubsetOrdering(Nat)
           F == FiniteSubsetsOf(Nat)
           T == {0 .. n : n \in S}
<1>1. IsWellFoundedOn(R, F)
  BY FS_StrictSubsetOrderingWellFounded
<1>2. T # {} /\ T \subseteq F
  <2>1. ASSUME NEW n \in Nat PROVE 0 .. n \in F
    <3>1. IsFiniteSet(0 .. n) /\ 0 .. n \subseteq Nat
      BY FS_Interval
    <3> QED
      BY <3>1 DEF FiniteSubsetsOf
  <2> QED
    BY <2>1
<1> HIDE DEF R, F
<1>3. PICK t \in T : \A u \in T : ~(<<u, t>> \in R)
  BY <1>1, <1>2, WFMin
<1>4. PICK n \in S : t = 0 .. n
  OBVIOUS
<1>5. ASSUME NEW m \in S, m < n PROVE FALSE
  <2>1. 0 .. m \subseteq 0 .. n /\ 0 .. m \subseteq Nat /\ 0 .. n \subseteq Nat
    BY <1>5
  <2>2. n \in 0 .. n /\ n \notin 0 .. m
    BY <1>5
  <2>3. <<0 .. m, 0 .. n>> \in R
    BY <2>1, <2>2 DEF R, StrictSubsetOrdering
  <2> QED
    BY <1>3, <1>4, <2>3
<1>6. \A m \in S : n <= m
  BY <1>5
<1> QED
  BY <1>6 DEF Min

\* The name of the context is added to an event and changes nothing else.
LEMMA EventFields ==
  ASSUME NEW e \in EventSet, NEW c
  PROVE  LET x == [f \in DOMAIN e \cup {"ctid"} |-> IF f = "ctid" THEN c ELSE e[f]]
         IN  /\ x.ctid = c /\ x.kind = e.kind
             /\ e.kind \in {"sync", "enter", "leave"} => x.num = e.num /\ e.num \in Nat
             /\ e.kind \in {"create", "start", "join", "exit"} => x.other = e.other /\ e.other \in Context
<1> DEFINE x == [f \in DOMAIN e \cup {"ctid"} |-> IF f = "ctid" THEN c ELSE e[f]]
<1>1. CASE e \in [kind : {"block"}, long : BOOLEAN]
  BY <1>1
<1>2. CASE e \in [kind : {"create", "start", "join", "exit"}, other : Context]
  BY <1>2
<1>3. CASE e \in [kind : {"sync"}, addr : Addr, wait : BOOLEAN, num : Nat]
  BY <1>3
<1>4. CASE e \in [kind : {"enter", "leave"}, num : Nat]
  BY <1>4
<1> QED
  BY <1>1, <1>2, <1>3, <1>4 DEF EventSet

-----------------------------------------------------------------------------
(***************************************************************************)
(* Places.                                                                 *)
(***************************************************************************)

LEMMA PlaceFacts ==
  ASSUME ProgramTypes
  PROVE  /\ Len(file) \in Nat
         /\ \A b \in 1 .. Len(file) :
               /\ file[b].ctid \in Context /\ file[b].events \in Seq(EventSet)
               /\ Len(file[b].events) \in Nat
         /\ \A c, b, i : <<b, i>> \in PlacesOf(c) <=>
               /\ b \in 1 .. Len(file) /\ file[b].ctid = c
               /\ i \in 0 .. Len(file[b].events)
         /\ \A c : \A p \in PlacesOf(c) : p = <<p[1], p[2]>> /\ Ctid(p) = c
         /\ \A p \in Place : p \in PlacesOf(Ctid(p)) /\ Ctid(p) \in Context
         /\ \A c : \A p \in PlacesOf(c) : p \in Place
<1>1. Len(file) \in Nat
  BY DEF ProgramTypes
<1>2. ASSUME NEW b \in 1 .. Len(file)
      PROVE  /\ file[b].ctid \in Context /\ file[b].events \in Seq(EventSet)
             /\ Len(file[b].events) \in Nat
  <2> DEFINE B == [ctid : Context, events : Seq(EventSet)]
  <2>1. file[b] \in B
    <3>1. file \in Seq(B)
      BY DEF ProgramTypes
    <3> HIDE DEF B
    <3> QED
      BY <3>1
  <2>2. file[b].ctid \in Context /\ file[b].events \in Seq(EventSet)
    BY <2>1
  <2> QED
    BY <2>2
<1>3. \A c, b, i : <<b, i>> \in PlacesOf(c) <=>
               /\ b \in 1 .. Len(file) /\ file[b].ctid = c
               /\ i \in 0 .. Len(file[b].events)
  BY DEF PlacesOf, BuffersOf
<1>4. \A c : \A p \in PlacesOf(c) : p = <<p[1], p[2]>>
  BY DEF PlacesOf, BuffersOf
<1>5. \A c : \A p \in PlacesOf(c) : Ctid(p) = c
  BY <1>3, <1>4 DEF Ctid
<1>6. \A c : \A p \in PlacesOf(c) : c \in Context
  BY <1>2, <1>3, <1>4
<1> QED
  BY <1>1, <1>2, <1>3, <1>4, <1>5, <1>6 DEF Place

LEMMA PlacesFinite ==
  ASSUME ProgramTypes, NEW c
  PROVE  IsFiniteSet(PlacesOf(c))
<1> DEFINE B == BuffersOf(c)
           f == [b \in B |-> {b} \X (0 .. Len(file[b].events))]
           T == {f[b] : b \in B}
<1>1. IsFiniteSet(B)
  <2>1. Len(file) \in Int
    BY PlaceFacts
  <2>2. IsFiniteSet(1 .. Len(file)) /\ B \subseteq 1 .. Len(file)
    BY <2>1, FS_Interval DEF BuffersOf
  <2> QED
    BY <2>2, FS_Subset
<1>2. IsFiniteSet(T)
  <2>1. f \in Surjection(B, T)
    BY DEF Surjection
  <2> QED
    BY <1>1, <2>1, FS_Surjection
<1>3. ASSUME NEW b \in B PROVE IsFiniteSet({b} \X (0 .. Len(file[b].events)))
  <2>1. Len(file[b].events) \in Int
    BY PlaceFacts DEF BuffersOf
  <2>2. IsFiniteSet(0 .. Len(file[b].events))
    BY <2>1, FS_Interval
  <2>3. IsFiniteSet({b})
    BY FS_Singleton
  <2> QED
    BY <2>2, <2>3, FS_Product
<1>4. IsFiniteSet(UNION T)
  <2>1. \A t \in T : IsFiniteSet(t)
    BY <1>3
  <2> QED
    BY <1>2, <2>1, FS_UNION
<1>5. PlacesOf(c) = UNION T
  BY DEF PlacesOf
<1> QED
  BY <1>4, <1>5

\* The places of p's context up to p.
Upto(p) == {q \in PlacesOf(Ctid(p)) : q[1] < p[1] \/ (q[1] = p[1] /\ q[2] <= p[2])}

LEMMA NthFacts ==
  ASSUME ProgramTypes, NEW c, NEW p \in PlacesOf(c)
  PROVE  /\ IsFiniteSet(Upto(p)) /\ Upto(p) \subseteq PlacesOf(c) /\ p \in Upto(p)
         /\ Nth(p) = Cardinality(Upto(p)) /\ Nth(p) \in Nat /\ Nth(p) > 0
<1>1. Ctid(p) = c /\ p \in PlacesOf(c) /\ p[1] \in Nat /\ p[2] \in Nat
  BY PlaceFacts
<1>2. Upto(p) \subseteq PlacesOf(c) /\ p \in Upto(p)
  BY <1>1 DEF Upto
<1>3. IsFiniteSet(Upto(p))
  BY <1>2, PlacesFinite, FS_Subset
<1>4. Nth(p) = Cardinality(Upto(p))
  BY DEF Nth, Upto, Ctid
<1>5. Cardinality(Upto(p)) \in Nat /\ Cardinality(Upto(p)) # 0
  BY <1>2, <1>3, FS_CardinalityType, FS_EmptySet
<1> QED
  BY <1>2, <1>3, <1>4, <1>5

\* Places that differ have different numbers, in their order.
LEMMA NthGrows ==
  ASSUME ProgramTypes, NEW c, NEW p \in PlacesOf(c), NEW q \in PlacesOf(c),
         p[1] < q[1] \/ (p[1] = q[1] /\ p[2] < q[2])
  PROVE  Nth(p) < Nth(q)
<1>1. /\ p[1] \in Nat /\ p[2] \in Nat /\ q[1] \in Nat /\ q[2] \in Nat
      /\ Ctid(p) = c /\ Ctid(q) = c
      /\ \A r \in PlacesOf(c) : r[1] \in Nat /\ r[2] \in Nat
  BY PlaceFacts
<1>2. Upto(p) \subseteq Upto(q)
  BY <1>1 DEF Upto
<1>3. q \in Upto(q) /\ q \notin Upto(p)
  BY <1>1 DEF Upto
<1>4. /\ Cardinality(Upto(p)) <= Cardinality(Upto(q))
      /\ Cardinality(Upto(p)) # Cardinality(Upto(q))
  BY <1>2, <1>3, NthFacts, FS_Subset
<1> QED
  BY <1>4, NthFacts

LEMMA NthDiffers ==
  ASSUME ProgramTypes, NEW c, NEW p \in PlacesOf(c), NEW q \in PlacesOf(c), p # q
  PROVE  Nth(p) # Nth(q)
<1>1. /\ p[1] \in Nat /\ p[2] \in Nat /\ q[1] \in Nat /\ q[2] \in Nat
      /\ p[1] # q[1] \/ p[2] # q[2]
  BY PlaceFacts
<1>2. Nth(p) \in Nat /\ Nth(q) \in Nat
  BY NthFacts
<1> QED
  BY <1>1, <1>2, NthGrows

-----------------------------------------------------------------------------
(***************************************************************************)
(* The runtime's steps.                                                    *)
(***************************************************************************)

SpotShape ==
    /\ \A b \in 1 .. Len(file) : file[b].ctid \in Context /\ file[b].events \in Seq(EventSet)
    /\ \A c \in Context : buffer[c] \in Seq(EventSet)
    /\ \A s \in Spot :
          \/ /\ s = <<"file", s[2], s[3]>> /\ s[1] = "file"
             /\ s[2] \in 1 .. Len(file) /\ s[3] \in 1 .. Len(file[s[2]].events)
          \/ /\ s = <<"buffer", s[2], s[3]>> /\ s[1] = "buffer"
             /\ s[2] \in Context /\ s[3] \in 1 .. Len(buffer[s[2]])
    /\ \A b \in 1 .. Len(file) : \A i \in 1 .. Len(file[b].events) : <<"file", b, i>> \in Spot
    /\ \A c \in Context : \A i \in 1 .. Len(buffer[c]) : <<"buffer", c, i>> \in Spot
    /\ \A s \in Spot : At(s) \in EventSet /\ Owner(s) \in Context

LEMMA SpotFacts == ProgramTypes => SpotShape
<1> SUFFICES ASSUME ProgramTypes PROVE SpotShape
  OBVIOUS
<1>1. ASSUME NEW s \in FileSpot
      PROVE  /\ s = <<"file", s[2], s[3]>> /\ s[2] \in 1 .. Len(file)
             /\ s[3] \in 1 .. Len(file[s[2]].events)
  <2>1. PICK b \in 1 .. Len(file) : s \in {<<"file", b, i>> : i \in 1 .. Len(file[b].events)}
    BY DEF FileSpot
  <2>2. PICK i \in 1 .. Len(file[b].events) : s = <<"file", b, i>>
    BY <2>1
  <2> QED
    BY <2>2
<1>2. ASSUME NEW s \in BufferSpot
      PROVE  /\ s = <<"buffer", s[2], s[3]>> /\ s[2] \in Context
             /\ s[3] \in 1 .. Len(buffer[s[2]])
  <2>1. PICK c \in Context : s \in {<<"buffer", c, i>> : i \in 1 .. Len(buffer[c])}
    BY DEF BufferSpot
  <2>2. PICK i \in 1 .. Len(buffer[c]) : s = <<"buffer", c, i>>
    BY <2>1
  <2> QED
    BY <2>2
<1>3. ASSUME NEW b \in 1 .. Len(file), NEW i \in 1 .. Len(file[b].events)
      PROVE  <<"file", b, i>> \in FileSpot
  <2>1. <<"file", b, i>> \in {<<"file", b, j>> : j \in 1 .. Len(file[b].events)}
    OBVIOUS
  <2> QED
    BY <2>1 DEF FileSpot
<1>4. ASSUME NEW c \in Context, NEW i \in 1 .. Len(buffer[c])
      PROVE  <<"buffer", c, i>> \in BufferSpot
  <2>1. <<"buffer", c, i>> \in {<<"buffer", c, j>> : j \in 1 .. Len(buffer[c])}
    OBVIOUS
  <2> QED
    BY <2>1 DEF BufferSpot
<1>5. \A b \in 1 .. Len(file) : file[b].ctid \in Context /\ file[b].events \in Seq(EventSet)
  BY PlaceFacts
<1>6. \A c \in Context : buffer[c] \in Seq(EventSet)
  BY DEF ProgramTypes
<1>7. ASSUME NEW s \in FileSpot PROVE At(s) \in EventSet /\ Owner(s) \in Context
  <2>1. s[1] = "file" /\ s[2] \in 1 .. Len(file) /\ s[3] \in 1 .. Len(file[s[2]].events)
    BY <1>1
  <2>2. file[s[2]].ctid \in Context /\ file[s[2]].events \in Seq(EventSet)
    BY <1>5, <2>1
  <2>3. file[s[2]].events[s[3]] \in EventSet
    BY <2>1, <2>2
  <2> QED
    BY <2>1, <2>2, <2>3 DEF At, Owner
<1>8. ASSUME NEW s \in BufferSpot PROVE At(s) \in EventSet /\ Owner(s) \in Context
  <2>1. s[1] = "buffer" /\ s[2] \in Context /\ s[3] \in 1 .. Len(buffer[s[2]])
    BY <1>2
  <2>2. buffer[s[2]][s[3]] \in EventSet
    BY <1>6, <2>1
  <2> QED
    BY <2>1, <2>2 DEF At, Owner
<1>9. \A s \in Spot :
          \/ /\ s = <<"file", s[2], s[3]>> /\ s[1] = "file"
             /\ s[2] \in 1 .. Len(file) /\ s[3] \in 1 .. Len(file[s[2]].events)
          \/ /\ s = <<"buffer", s[2], s[3]>> /\ s[1] = "buffer"
             /\ s[2] \in Context /\ s[3] \in 1 .. Len(buffer[s[2]])
  BY <1>1, <1>2 DEF Spot
<1> QED
  BY <1>3, <1>4, <1>5, <1>6, <1>7, <1>8, <1>9 DEF SpotShape, Spot

\* The spots move by m, with what is there, and those of N are new: their keys are new,
\* and a start among them is the first event of a thread whose create comes with it.
LEMMA SpotsMove ==
  ASSUME ProgramTypes, ProgramTypes', Recorded, Lives', NEW m, NEW N, N \subseteq Spot',
         \A s \in Spot : /\ m[s] \in Spot' /\ At(m[s])' = At(s) /\ Owner(m[s])' = Owner(s)
                         /\ IsFirst(m[s])' <=> IsFirst(s),
         \A s \in Spot' : s \in N \/ \E t \in Spot : s = m[t],
         \A n \in N : \A s \in Spot : ~SameKey(At(n)', At(s)) /\ ~SameKey(At(s), At(n)'),
         \A n, k \in N : SameKey(At(n)', At(k)') => n = k,
         \A n \in N : Drawn(At(n))',
         \A n \in N : /\ At(n)'.kind = "start" <=> IsFirst(n)' /\ Owner(n)' # 0
                      /\ At(n)'.kind = "start" =>
                            \E t \in N : /\ At(t)'.kind = "create" /\ At(t)'.other = Owner(n)'
                                         /\ Owner(t)' = At(n)'.other,
         order.sync <= order'.sync, order.barrier <= order'.barrier,
         \A c \in Context : life'[c] = "off" => life[c] = "off"
  PROVE  Recorded'
<1>1. Distinct'
  <2> SUFFICES ASSUME NEW s \in Spot', NEW t \in Spot', SameKey(At(s)', At(t)')
               PROVE  s = t
    BY DEF Distinct, SameKey
  <2>1. CASE s \in N /\ t \in N
    BY <2>1
  <2>2. CASE s \in N /\ t \notin N
    <3>1. PICK u \in Spot : t = m[u]
      BY <2>2
    <3>2. At(t)' = At(u)
      BY <3>1
    <3> QED
      BY <2>2, <3>2
  <2>3. CASE s \notin N /\ t \in N
    <3>1. PICK u \in Spot : s = m[u]
      BY <2>3
    <3>2. At(s)' = At(u)
      BY <3>1
    <3> QED
      BY <2>3, <3>2
  <2>4. CASE s \notin N /\ t \notin N
    <3>1. PICK u \in Spot : s = m[u]
      BY <2>4
    <3>2. PICK v \in Spot : t = m[v]
      BY <2>4
    <3>3. At(s)' = At(u) /\ At(t)' = At(v)
      BY <3>1, <3>2
    <3>4. u = v
      BY <3>3 DEF Recorded, Distinct
    <3> QED
      BY <3>1, <3>2, <3>4
  <2> QED
    BY <2>1, <2>2, <2>3, <2>4
<1>2. AllDrawn'
  <2> SUFFICES ASSUME NEW s \in Spot' PROVE Drawn(At(s))'
    BY DEF AllDrawn
  <2>1. ASSUME NEW u \in Spot, s = m[u] PROVE Drawn(At(s))'
    <3>1. Drawn(At(u)) /\ At(s)' = At(u) /\ At(u) \in EventSet
      BY <2>1, SpotFacts DEF Recorded, AllDrawn, SpotShape
    <3>2. /\ order.sync \in Nat /\ order.barrier \in Nat
          /\ order'.sync \in Nat /\ order'.barrier \in Nat
      BY DEF ProgramTypes
    <3> DEFINE e == At(u)
    <3>3. /\ e.kind \in {"sync", "enter", "leave"} => e.num \in Nat
          /\ e.kind = "create" => e.other \in Context
      <4>1. e \in EventSet
        BY <3>1
      <4> HIDE DEF e
      <4> QED
        BY <4>1 DEF EventSet
    <3> HIDE DEF e
    <3>4. e = At(s)' /\ Drawn(e)
      BY <3>1 DEF e
    <3> QED
      BY <3>2, <3>3, <3>4 DEF Drawn
  <2> QED
    BY <2>1
<1>3. Starts'
  <2> SUFFICES ASSUME NEW s \in Spot'
               PROVE  /\ At(s)'.kind = "start" <=> IsFirst(s)' /\ Owner(s)' # 0
                      /\ At(s)'.kind = "start" =>
                            \E t \in Spot' : /\ At(t)'.kind = "create" /\ At(t)'.other = Owner(s)'
                                             /\ Owner(t)' = At(s)'.other
    BY DEF Starts
  <2>1. ASSUME NEW u \in Spot, s = m[u]
        PROVE  /\ At(s)'.kind = "start" <=> IsFirst(s)' /\ Owner(s)' # 0
               /\ At(s)'.kind = "start" =>
                     \E t \in Spot' : /\ At(t)'.kind = "create" /\ At(t)'.other = Owner(s)'
                                      /\ Owner(t)' = At(s)'.other
    <3>1. At(s)' = At(u) /\ Owner(s)' = Owner(u) /\ (IsFirst(s)' <=> IsFirst(u))
      BY <2>1
    <3>2. /\ At(u).kind = "start" <=> IsFirst(u) /\ Owner(u) # 0
          /\ At(u).kind = "start" =>
                \E t \in Spot : /\ At(t).kind = "create" /\ At(t).other = Owner(u)
                                /\ Owner(t) = At(u).other
      BY DEF Recorded, Starts
    <3>3. ASSUME At(u).kind = "start"
          PROVE  \E t \in Spot' : /\ At(t)'.kind = "create" /\ At(t)'.other = Owner(s)'
                                  /\ Owner(t)' = At(s)'.other
      <4>1. PICK t \in Spot : /\ At(t).kind = "create" /\ At(t).other = Owner(u)
                              /\ Owner(t) = At(u).other
        BY <3>2, <3>3
      <4>2. m[t] \in Spot' /\ At(m[t])' = At(t) /\ Owner(m[t])' = Owner(t)
        OBVIOUS
      <4> QED
        BY <3>1, <4>1, <4>2
    <3> QED
      BY <3>1, <3>2, <3>3
  <2> QED
    BY <2>1
<1> QED
  BY <1>1, <1>2, <1>3 DEF Recorded

\* Threads of D store an event each.
Stores(D, e) ==
    /\ D \in SUBSET Context /\ e \in [D -> EventSet]
    /\ buffer' = [c \in Context |-> IF c \in D THEN Append(buffer[c], e[c]) ELSE buffer[c]]

\* The events that have been stored move to m[s], with what is there; the events e[c] of
\* the threads of D are new, and to be found at fresh[c].
Moves(m, fresh, D, e) ==
    /\ \A s \in Spot : /\ m[s] \in Spot' /\ At(m[s])' = At(s) /\ Owner(m[s])' = Owner(s)
                       /\ IsFirst(m[s])' <=> IsFirst(s)
    /\ \A c \in D : /\ fresh[c] \in Spot' /\ At(fresh[c])' = e[c] /\ Owner(fresh[c])' = c
                    /\ IsFirst(fresh[c])' <=> buffer[c] = <<>> /\ BuffersOf(c) = {}
    /\ \A s \in Spot' : (\E c \in D : s = fresh[c]) \/ \E t \in Spot : s = m[t]

LEMMA StoresMove ==
  ASSUME ProgramTypes, ProgramTypes', file' = file, NEW D, NEW e, Stores(D, e)
  PROVE  \E m, fresh : Moves(m, fresh, D, e)
<1> USE DEF Stores
<1>a. PICK fresh : fresh = [c \in D |-> <<"buffer", c, Len(buffer[c]) + 1>>]
  OBVIOUS
<1>b. PICK m : m = [s \in Spot |-> s]
  OBVIOUS
<1>0. /\ \A c \in Context : /\ buffer[c] \in Seq(EventSet) /\ Len(buffer[c]) \in Nat
                            /\ c \in D => buffer'[c] = Append(buffer[c], e[c])
                            /\ c \notin D => buffer'[c] = buffer[c]
      /\ \A c : BuffersOf(c)' = BuffersOf(c)
      /\ D \subseteq Context
  BY DEF ProgramTypes, BuffersOf
<1>1. SpotShape /\ SpotShape'
  <2>1. (ProgramTypes => SpotShape)'
    BY SpotFacts, PTL
  <2> QED
    BY <2>1, SpotFacts
<1>3. ASSUME NEW s \in Spot
      PROVE  m[s] \in Spot' /\ At(m[s])' = At(s) /\ Owner(m[s])' = Owner(s)
             /\ (IsFirst(m[s])' <=> IsFirst(s))
  <2>0. m[s] = s
    BY <1>b
  <2>1. CASE /\ s = <<"file", s[2], s[3]>> /\ s[1] = "file"
             /\ s[2] \in 1 .. Len(file) /\ s[3] \in 1 .. Len(file[s[2]].events)
    <3>1. s \in Spot'
      BY <1>1, <2>1 DEF SpotShape
    <3> QED
      BY <1>0, <2>0, <2>1, <3>1 DEF At, Owner, IsFirst
  <2>2. CASE /\ s = <<"buffer", s[2], s[3]>> /\ s[1] = "buffer"
             /\ s[2] \in Context /\ s[3] \in 1 .. Len(buffer[s[2]])
    <3>1. s[3] \in 1 .. Len(buffer'[s[2]]) /\ buffer'[s[2]][s[3]] = buffer[s[2]][s[3]]
      BY <1>0, <2>2
    <3>2. s \in Spot'
      BY <1>1, <2>2, <3>1 DEF SpotShape
    <3> QED
      BY <1>0, <2>0, <2>2, <3>1, <3>2 DEF At, Owner, IsFirst
  <2> QED
    BY <1>1, <2>1, <2>2 DEF SpotShape
<1>4. ASSUME NEW c \in D
      PROVE  /\ fresh[c] \in Spot'
             /\ At(fresh[c])' = e[c] /\ Owner(fresh[c])' = c
             /\ IsFirst(fresh[c])' <=> buffer[c] = <<>> /\ BuffersOf(c) = {}
  <2>0. fresh[c] = <<"buffer", c, Len(buffer[c]) + 1>>
    BY <1>a
  <2>1. /\ Len(buffer[c]) + 1 \in 1 .. Len(buffer'[c])
        /\ buffer'[c][Len(buffer[c]) + 1] = e[c]
        /\ Len(buffer[c]) + 1 = 1 <=> buffer[c] = <<>>
    BY <1>0
  <2>2. fresh[c] \in Spot'
    BY <1>0, <1>1, <2>0, <2>1 DEF SpotShape
  <2> QED
    BY <1>0, <2>0, <2>1, <2>2 DEF At, Owner, IsFirst
<1>5. ASSUME NEW s \in Spot'
      PROVE  (\E c \in D : s = fresh[c]) \/ \E t \in Spot : s = m[t]
  <2>1. CASE /\ s = <<"file", s[2], s[3]>> /\ s[1] = "file"
             /\ s[2] \in 1 .. Len(file') /\ s[3] \in 1 .. Len(file'[s[2]].events)
    <3>1. s \in Spot
      BY <1>1, <2>1 DEF SpotShape
    <3> QED
      BY <1>b, <3>1
  <2>2. CASE /\ s = <<"buffer", s[2], s[3]>> /\ s[1] = "buffer"
             /\ s[2] \in Context /\ s[3] \in 1 .. Len(buffer'[s[2]])
    <3>1. CASE s[3] \in 1 .. Len(buffer[s[2]])
      <4>1. s \in Spot
        BY <1>1, <2>2, <3>1 DEF SpotShape
      <4> QED
        BY <1>b, <4>1
    <3>2. CASE s[3] \notin 1 .. Len(buffer[s[2]])
      <4>1. s[2] \in D /\ s[3] = Len(buffer[s[2]]) + 1
        BY <1>0, <2>2, <3>2
      <4>2. s = fresh[s[2]]
        BY <1>a, <2>2, <4>1
      <4> QED
        BY <4>1, <4>2
    <3> QED
      BY <3>1, <3>2
  <2>3. \/ /\ s = <<"file", s[2], s[3]>> /\ s[1] = "file"
           /\ s[2] \in 1 .. Len(file') /\ s[3] \in 1 .. Len(file'[s[2]].events)
        \/ /\ s = <<"buffer", s[2], s[3]>> /\ s[1] = "buffer"
           /\ s[2] \in Context /\ s[3] \in 1 .. Len(buffer'[s[2]])
    BY <1>1 DEF SpotShape
  <2> QED
    BY <2>1, <2>2, <2>3
<1>6. Moves(m, fresh, D, e)
  BY <1>3, <1>4, <1>5 DEF Moves
<1> QED
  BY <1>6

\* Their keys are new, and an event is a start if and only if it is a thread's first.
NewEvents(D, e) ==
    /\ \A c \in D : \A s \in Spot : ~SameKey(At(s), e[c]) /\ ~SameKey(e[c], At(s))
    /\ \A c, d \in D : SameKey(e[c], e[d]) => c = d
    /\ \A c \in D : Drawn(e[c])'
    /\ \A c \in D :
          /\ e[c].kind = "start" <=> c # 0 /\ buffer[c] = <<>> /\ BuffersOf(c) = {}
          /\ e[c].kind = "start" =>
                /\ e[c].other \in D /\ e[e[c].other].kind = "create"
                /\ e[e[c].other].other = c

LEMMA StoresKeep ==
  ASSUME ProgramTypes, ProgramTypes', Recorded, file' = file,
         NEW D, NEW e, Stores(D, e), NewEvents(D, e),
         order.sync <= order'.sync, order.barrier <= order'.barrier,
         \A c \in Context \ D : life'[c] = life[c],
         \A c \in D : life'[c] \in {"run", "barrier"}
  PROVE  Recorded'
<1>m. PICK m, fresh : Moves(m, fresh, D, e)
  BY StoresMove
<1>c. PICK N : N = {fresh[c] : c \in D}
  OBVIOUS
<1> USE DEF Stores, NewEvents
<1>0. /\ \A c \in Context : /\ buffer[c] \in Seq(EventSet) /\ Len(buffer[c]) \in Nat
                            /\ c \in D => buffer'[c] = Append(buffer[c], e[c])
                            /\ c \notin D => buffer'[c] = buffer[c]
      /\ \A c : BuffersOf(c)' = BuffersOf(c)
      /\ D \subseteq Context
  BY DEF ProgramTypes, BuffersOf
<1>2. Lives'
  <2>1. life'[0] # "off"
    BY EventQueueAssumption DEF Recorded, Lives, ProgramTypes
  <2>2. ASSUME NEW c \in Context
        PROVE  /\ life'[c] = "off" => buffer'[c] = <<>> /\ BuffersOf(c)' = {}
               /\ life'[c] = "exited" => buffer'[c] = <<>>
               /\ (c # 0 /\ life'[c] \in {"run", "barrier"} /\ BuffersOf(c)' = {})
                     => buffer'[c] # <<>>
    <3>1. CASE c \in D
      BY <1>0, <3>1, SMTT(60)
    <3>2. CASE c \notin D
      BY <1>0, <3>2 DEF Recorded, Lives
    <3> QED
      BY <3>1, <3>2
  <2>3. \A b \in 1 .. Len(file') : file'[b].events # <<>>
    BY DEF Recorded, Lives
  <2> QED
    BY <2>1, <2>2, <2>3 DEF Lives
<1>3. /\ \A s \in Spot : /\ m[s] \in Spot' /\ At(m[s])' = At(s) /\ Owner(m[s])' = Owner(s)
                         /\ IsFirst(m[s])' <=> IsFirst(s)
      /\ \A c \in D : /\ fresh[c] \in Spot' /\ At(fresh[c])' = e[c] /\ Owner(fresh[c])' = c
                      /\ IsFirst(fresh[c])' <=> buffer[c] = <<>> /\ BuffersOf(c) = {}
      /\ \A s \in Spot' : (\E c \in D : s = fresh[c]) \/ \E t \in Spot : s = m[t]
  BY <1>m DEF Moves
<1>4. \A c \in D : /\ fresh[c] \in Spot' /\ At(fresh[c])' = e[c] /\ Owner(fresh[c])' = c
                   /\ IsFirst(fresh[c])' <=> buffer[c] = <<>> /\ BuffersOf(c) = {}
  BY <1>3
<1>6. \A n \in N : \E c \in D : n = fresh[c]
  BY <1>c
<1>7. \A c \in D : fresh[c] \in N
  BY <1>c
<1>5. \A s \in Spot' : s \in N \/ \E t \in Spot : s = m[t]
  BY <1>3, <1>7
<1>8. N \subseteq Spot'
  BY <1>4, <1>6
<1>9. \A n \in N : \A s \in Spot : ~SameKey(At(n)', At(s)) /\ ~SameKey(At(s), At(n)')
  BY <1>4, <1>6
<1>10. \A n, k \in N : SameKey(At(n)', At(k)') => n = k
  BY <1>4, <1>6
<1>11. ASSUME NEW n \in N PROVE Drawn(At(n))'
  BY <1>4, <1>6 DEF Drawn
<1>12. ASSUME NEW n \in N
       PROVE  /\ At(n)'.kind = "start" <=> IsFirst(n)' /\ Owner(n)' # 0
              /\ At(n)'.kind = "start" =>
                    \E t \in N : /\ At(t)'.kind = "create" /\ At(t)'.other = Owner(n)'
                                 /\ Owner(t)' = At(n)'.other
  <2>1. PICK c \in D : n = fresh[c]
    BY <1>6
  <2>2. /\ At(n)' = e[c] /\ Owner(n)' = c
        /\ IsFirst(n)' <=> buffer[c] = <<>> /\ BuffersOf(c) = {}
    BY <1>4, <2>1
  <2>3. ASSUME e[c].kind = "start"
        PROVE  \E t \in N : /\ At(t)'.kind = "create" /\ At(t)'.other = c
                            /\ Owner(t)' = e[c].other
    <3>1. e[c].other \in D /\ e[e[c].other].kind = "create" /\ e[e[c].other].other = c
      BY <2>3
    <3>2. fresh[e[c].other] \in N
      BY <1>7, <3>1
    <3> QED
      BY <1>4, <3>1, <3>2
  <2> QED
    BY <2>2, <2>3
<1>13. \A c \in Context : life'[c] = "off" => life[c] = "off"
  OBVIOUS
<1> HIDE DEF Stores, NewEvents
<1> QED
  BY <1>2, <1>3, <1>5, <1>8, <1>9, <1>10, <1>11, <1>12, <1>13, SpotsMove

\* A thread's buffer goes to the file, with an exit at its end or as it is.
Flushes(c, x, D, e) ==
    /\ c \in Context /\ x \in Seq(EventSet)
    /\ \/ D = {} /\ x = buffer[c] /\ x # <<>>
       \/ D = {c} /\ e \in [D -> EventSet] /\ x = Append(buffer[c], e[c])
    /\ buffer' = [buffer EXCEPT ![c] = <<>>]
    /\ file' = Append(file, [ctid |-> c, events |-> x])

LEMMA FlushMoves ==
  ASSUME ProgramTypes, ProgramTypes', NEW c, NEW x, NEW D, NEW e, Flushes(c, x, D, e)
  PROVE  \E m, fresh : Moves(m, fresh, D, e)
<1> USE DEF Flushes
<1>a. PICK n : n = Len(file) + 1
  OBVIOUS
<1>b. PICK m : m = [s \in Spot |-> IF s[1] = "buffer" /\ s[2] = c THEN <<"file", n, s[3]>> ELSE s]
  OBVIOUS
<1>c. PICK fresh : fresh = [d \in D |-> <<"file", n, Len(buffer[c]) + 1>>]
  OBVIOUS
<1>k. PICK k : k = e[c]
  OBVIOUS
<1>0. /\ \A d \in Context : buffer[d] \in Seq(EventSet) /\ Len(buffer[d]) \in Nat
      /\ \A d \in Context \ {c} : buffer'[d] = buffer[d]
      /\ buffer'[c] = <<>>
      /\ Len(file) \in Nat /\ n \in Nat /\ Len(file') = n
      /\ \A b \in 1 .. Len(file) : file'[b] = file[b]
      /\ file'[n] = [ctid |-> c, events |-> x]
  <2> DEFINE B == [ctid : Context, events : Seq(EventSet)]
  <2>1. file \in Seq(B) /\ [ctid |-> c, events |-> x] \in B
    BY DEF ProgramTypes
  <2>2. /\ Len(file) \in Nat /\ n \in Nat /\ Len(file') = n
        /\ \A b \in 1 .. Len(file) : file'[b] = file[b]
        /\ file'[n] = [ctid |-> c, events |-> x]
    <3> DEFINE r == [ctid |-> c, events |-> x]
    <3>1. file' = Append(file, r) /\ r \in B
      BY <2>1
    <3> HIDE DEF B, r
    <3>2. /\ Len(file) \in Nat /\ n \in Nat /\ Len(file') = n
          /\ \A b \in 1 .. Len(file) : file'[b] = file[b]
          /\ file'[n] = r
      BY <1>a, <2>1, <3>1
    <3> QED
      BY <3>2 DEF r
  <2> QED
    BY <2>2 DEF ProgramTypes
<1>1. SpotShape /\ SpotShape'
  <2>1. (ProgramTypes => SpotShape)'
    BY SpotFacts, PTL
  <2> QED
    BY <2>1, SpotFacts
<1>2. /\ \A d : d # c => BuffersOf(d)' = BuffersOf(d)
      /\ BuffersOf(c)' = BuffersOf(c) \cup {n}
      /\ \A d : \A b \in BuffersOf(d) : b \in Nat /\ b < n
  <2>1. 1 .. Len(file') = (1 .. Len(file)) \cup {n} /\ n = Len(file) + 1
    BY <1>0, <1>a
  <2> QED
    BY <1>0, <2>1 DEF BuffersOf
<1>3. /\ Len(x) \in Nat /\ x # <<>>
      /\ \A i \in 1 .. Len(buffer[c]) : i \in 1 .. Len(x) /\ x[i] = buffer[c][i]
      /\ \A i \in 1 .. Len(x) : i \notin 1 .. Len(buffer[c]) => x[i] = k /\ i = Len(buffer[c]) + 1
  <2>1. CASE D = {} /\ x = buffer[c] /\ x # <<>>
    BY <1>0, <2>1
  <2>2. CASE x = Append(buffer[c], k) /\ k \in EventSet
    BY <1>0, <2>2, SMTT(60)
  <2> QED
    BY <1>k, <2>1, <2>2
<1>d. /\ (\E i \in 1 .. Len(x) : i \notin 1 .. Len(buffer[c])) => c \in D
      /\ \A d \in D : d = c /\ Len(buffer[c]) + 1 \in 1 .. Len(x) /\ x[Len(buffer[c]) + 1] = k
  <2>1. CASE D = {} /\ x = buffer[c]
    BY <2>1
  <2>2. CASE D = {c} /\ x = Append(buffer[c], k)
    <3>1. /\ Len(x) = Len(buffer[c]) + 1 /\ Len(buffer[c]) \in Nat
          /\ x[Len(buffer[c]) + 1] = k
      BY <1>0, <2>2
    <3> QED
      BY <2>2, <3>1
  <2> QED
    BY <1>k, <2>1, <2>2
<1>5. ASSUME NEW s \in Spot
      PROVE  m[s] \in Spot' /\ At(m[s])' = At(s) /\ Owner(m[s])' = Owner(s)
             /\ (IsFirst(m[s])' <=> IsFirst(s))
  <2>1. CASE /\ s = <<"file", s[2], s[3]>> /\ s[1] = "file"
             /\ s[2] \in 1 .. Len(file) /\ s[3] \in 1 .. Len(file[s[2]].events)
    <3>1. m[s] = s /\ s[2] \in 1 .. Len(file') /\ file'[s[2]] = file[s[2]]
      BY <1>0, <1>a, <1>b, <2>1
    <3>2. s \in Spot'
      BY <1>1, <2>1, <3>1 DEF SpotShape
    <3>3. At(s)' = At(s) /\ Owner(s)' = Owner(s)
      BY <2>1, <3>1 DEF At, Owner
    <3>4. IsFirst(s)' <=> IsFirst(s)
      <4>1. s[2] \in Nat /\ s[2] < n /\ s[2] <= n
        BY <1>0, <1>a, <2>1
      <4>2. (\A b \in BuffersOf(Owner(s))' : s[2] <= b) <=> (\A b \in BuffersOf(Owner(s)) : s[2] <= b)
        <5>1. PICK d : d = Owner(s) /\ d = Owner(s)'
          BY <3>3
        <5>2. (\A b \in BuffersOf(d)' : s[2] <= b) <=> (\A b \in BuffersOf(d) : s[2] <= b)
          <6>1. CASE d = c
            BY <1>2, <4>1, <6>1
          <6>2. CASE d # c
            BY <1>2, <6>2
          <6> QED
            BY <6>1, <6>2
        <5> QED
          BY <5>1, <5>2
      <4> QED
        BY <2>1, <3>3, <4>2 DEF IsFirst
    <3> QED
      BY <3>1, <3>2, <3>3, <3>4
  <2>2. CASE /\ s = <<"buffer", s[2], s[3]>> /\ s[1] = "buffer" /\ s[2] # c
             /\ s[2] \in Context /\ s[3] \in 1 .. Len(buffer[s[2]])
    <3>1. m[s] = s /\ buffer'[s[2]] = buffer[s[2]]
      BY <1>0, <1>b, <2>2
    <3>2. s \in Spot'
      BY <1>1, <2>2, <3>1 DEF SpotShape
    <3> QED
      BY <1>2, <2>2, <3>1, <3>2 DEF At, Owner, IsFirst
  <2>3. CASE /\ s = <<"buffer", s[2], s[3]>> /\ s[1] = "buffer" /\ s[2] = c
             /\ s[3] \in 1 .. Len(buffer[s[2]])
    <3>1. m[s] = <<"file", n, s[3]>>
      BY <1>b, <2>3
    <3>2. file'[n].ctid = c /\ file'[n].events = x /\ x[s[3]] = buffer[c][s[3]]
          /\ s[3] \in 1 .. Len(x)
      BY <1>0, <1>3, <2>3
    <3>3. m[s] \in Spot'
      BY <1>0, <1>1, <1>a, <3>1, <3>2, SMTT(60) DEF SpotShape
    <3>4. At(m[s])' = At(s) /\ Owner(m[s])' = c /\ Owner(s) = c
      <4>1. PICK t : t = m[s]
        OBVIOUS
      <4>2. t[1] = "file" /\ t[2] = n /\ t[3] = s[3]
        BY <3>1, <4>1
      <4>3. At(t)' = x[s[3]] /\ Owner(t)' = c
        BY <3>2, <4>2 DEF At, Owner
      <4>4. At(s) = buffer[c][s[3]] /\ Owner(s) = c
        BY <2>3 DEF At, Owner
      <4> QED
        BY <3>2, <4>1, <4>3, <4>4
    <3>5. (\A b \in BuffersOf(c)' : n <= b) <=> BuffersOf(c) = {}
      BY <1>0, <1>2
    <3>6. IsFirst(m[s])' <=> IsFirst(s)
      BY <2>3, <3>1, <3>4, <3>5 DEF IsFirst
    <3> QED
      BY <3>3, <3>4, <3>6
  <2> QED
    BY <1>1, <2>1, <2>2, <2>3 DEF SpotShape
<1>6. ASSUME NEW s \in Spot'
      PROVE  (\E d \in D : s = fresh[d]) \/ \E t \in Spot : s = m[t]
  <2>1. CASE /\ s = <<"file", s[2], s[3]>> /\ s[1] = "file"
             /\ s[2] \in 1 .. Len(file') /\ s[3] \in 1 .. Len(file'[s[2]].events)
    <3>1. CASE s[2] \in 1 .. Len(file)
      <4>1. s \in Spot
        BY <1>0, <1>1, <2>1, <3>1 DEF SpotShape
      <4> QED
        BY <1>b, <2>1, <4>1
    <3>2. CASE s[2] = n
      <4>1. s[3] \in 1 .. Len(x)
        BY <1>0, <2>1, <3>2
      <4>2. CASE s[3] \in 1 .. Len(buffer[c])
        <5>1. <<"buffer", c, s[3]>> \in Spot
          BY <1>1, <4>2 DEF SpotShape
        <5>2. m[<<"buffer", c, s[3]>>] = s
          BY <1>b, <2>1, <3>2, <5>1
        <5> QED
          BY <5>1, <5>2
      <4>3. CASE s[3] \notin 1 .. Len(buffer[c])
        <5>1. s[3] = Len(buffer[c]) + 1 /\ c \in D
          BY <1>0, <1>3, <1>d, <4>1, <4>3
        <5> QED
          BY <1>c, <2>1, <3>2, <5>1
      <4> QED
        BY <4>2, <4>3
    <3> QED
      BY <1>0, <1>a, <2>1, <3>1, <3>2
  <2>2. CASE /\ s = <<"buffer", s[2], s[3]>> /\ s[1] = "buffer"
             /\ s[2] \in Context /\ s[3] \in 1 .. Len(buffer'[s[2]])
    <3>1. s[2] # c /\ s[3] \in 1 .. Len(buffer[s[2]])
      BY <1>0, <2>2
    <3>2. s \in Spot
      BY <1>1, <2>2, <3>1 DEF SpotShape
    <3> QED
      BY <1>b, <3>1, <3>2
  <2> QED
    BY <1>1, <2>1, <2>2 DEF SpotShape
<1>7. ASSUME NEW d \in D
      PROVE  /\ fresh[d] \in Spot' /\ At(fresh[d])' = e[d] /\ Owner(fresh[d])' = d
             /\ IsFirst(fresh[d])' <=> buffer[d] = <<>> /\ BuffersOf(d) = {}
  <2>1. PICK i : i = Len(buffer[c]) + 1
    OBVIOUS
  <2>2. i \in 1 .. Len(x) /\ x[i] = k /\ d = c /\ e[d] = k
    BY <1>d, <1>k, <2>1
  <2>3. fresh[d] = <<"file", n, i>>
    BY <1>c, <2>1
  <2>4. fresh[d] \in Spot'
    BY <1>0, <1>1, <1>a, <2>2, <2>3, SMTT(60) DEF SpotShape
  <2>5. At(fresh[d])' = k /\ Owner(fresh[d])' = c
    BY <1>0, <2>2, <2>3 DEF At, Owner
  <2>6. (\A b \in BuffersOf(c)' : n <= b) <=> BuffersOf(c) = {}
    BY <1>0, <1>2
  <2>7. i = 1 <=> buffer[c] = <<>>
    BY <1>0, <2>1
  <2>8. IsFirst(fresh[d])' <=> buffer[c] = <<>> /\ BuffersOf(c) = {}
    BY <2>3, <2>5, <2>6, <2>7 DEF IsFirst
  <2> QED
    BY <2>2, <2>4, <2>5, <2>8
<1>8. Moves(m, fresh, D, e)
  BY <1>5, <1>6, <1>7 DEF Moves
<1> QED
  BY <1>8

LEMMA FlushKeeps ==
  ASSUME ProgramTypes, ProgramTypes', Recorded, NEW c \in Context, life[c] = "run",
         NEW D, NEW e, NEW x, Flushes(c, x, D, e), \A d \in D : e[d].kind = "exit",
         order' = order,
         \A d \in Context \ {c} : life'[d] = life[d],
         life'[c] \in {"run", "exited"}
  PROVE  Recorded'
<1>m. PICK m, fresh : Moves(m, fresh, D, e)
  BY FlushMoves
<1>b. PICK N : N = {fresh[d] : d \in D}
  OBVIOUS
<1> USE DEF Flushes
<1>a. PICK n : n = Len(file) + 1
  OBVIOUS
<1>0. /\ \A d \in Context : buffer[d] \in Seq(EventSet) /\ Len(buffer[d]) \in Nat
      /\ \A d \in Context \ {c} : buffer'[d] = buffer[d]
      /\ buffer'[c] = <<>>
      /\ Len(file) \in Nat /\ n \in Nat /\ Len(file') = n
      /\ \A b \in 1 .. Len(file) : file'[b] = file[b]
      /\ file'[n] = [ctid |-> c, events |-> x]
  <2> DEFINE B == [ctid : Context, events : Seq(EventSet)]
  <2>1. file \in Seq(B) /\ [ctid |-> c, events |-> x] \in B
    BY DEF ProgramTypes
  <2>2. /\ Len(file) \in Nat /\ n \in Nat /\ Len(file') = n
        /\ \A b \in 1 .. Len(file) : file'[b] = file[b]
        /\ file'[n] = [ctid |-> c, events |-> x]
    <3> DEFINE r == [ctid |-> c, events |-> x]
    <3>1. file' = Append(file, r) /\ r \in B
      BY <2>1
    <3> HIDE DEF B, r
    <3>2. /\ Len(file) \in Nat /\ n \in Nat /\ Len(file') = n
          /\ \A b \in 1 .. Len(file) : file'[b] = file[b]
          /\ file'[n] = r
      BY <1>a, <2>1, <3>1
    <3> QED
      BY <3>2 DEF r
  <2> QED
    BY <2>2 DEF ProgramTypes
<1>2. /\ \A d : d # c => BuffersOf(d)' = BuffersOf(d)
      /\ BuffersOf(c)' = BuffersOf(c) \cup {n}
      /\ \A d : \A b \in BuffersOf(d) : b \in Nat /\ b < n
  <2>1. 1 .. Len(file') = (1 .. Len(file)) \cup {n} /\ n = Len(file) + 1
    BY <1>0, <1>a
  <2> QED
    BY <1>0, <2>1 DEF BuffersOf
<1>3. Len(x) \in Nat /\ x # <<>>
  BY <1>0
<1>4. Lives'
  <2>1. life'[0] # "off"
    BY EventQueueAssumption DEF Recorded, Lives, ProgramTypes
  <2>2. ASSUME NEW d \in Context
        PROVE  /\ life'[d] = "off" => buffer'[d] = <<>> /\ BuffersOf(d)' = {}
               /\ life'[d] = "exited" => buffer'[d] = <<>>
               /\ (d # 0 /\ life'[d] \in {"run", "barrier"} /\ BuffersOf(d)' = {})
                     => buffer'[d] # <<>>
    <3>1. CASE d = c
      BY <1>0, <1>2, <3>1
    <3>2. CASE d # c
      BY <1>0, <1>2, <3>2, ZenonT(60) DEF Recorded, Lives
    <3> QED
      BY <3>1, <3>2
  <2>3. ASSUME NEW b \in 1 .. Len(file') PROVE file'[b].events # <<>>
    <3>1. b \in 1 .. Len(file) \/ b = n
      BY <1>0, <1>a
    <3> QED
      BY <1>0, <1>3, <3>1 DEF Recorded, Lives
  <2> QED
    BY <2>1, <2>2, <2>3 DEF Lives
<1>5. /\ \A s \in Spot : /\ m[s] \in Spot' /\ At(m[s])' = At(s) /\ Owner(m[s])' = Owner(s)
                         /\ IsFirst(m[s])' <=> IsFirst(s)
      /\ \A d \in D : /\ fresh[d] \in Spot' /\ At(fresh[d])' = e[d] /\ Owner(fresh[d])' = d
                      /\ IsFirst(fresh[d])' <=> buffer[d] = <<>> /\ BuffersOf(d) = {}
      /\ \A s \in Spot' : (\E d \in D : s = fresh[d]) \/ \E t \in Spot : s = m[t]
  BY <1>m DEF Moves
<1>6. \A s \in Spot' : s \in N \/ \E t \in Spot : s = m[t]
  BY <1>5, <1>b
<1>7. ASSUME NEW t \in N
      PROVE  t \in Spot' /\ At(t)'.kind = "exit" /\ Owner(t)' = c /\ ~(IsFirst(t)' /\ c # 0)
  <2>1. PICK d \in D : t = fresh[d]
    BY <1>b
  <2>2. /\ t \in Spot' /\ At(t)'.kind = "exit" /\ Owner(t)' = c
        /\ IsFirst(t)' => buffer[c] = <<>> /\ BuffersOf(c) = {}
    BY <1>5, <2>1
  <2> QED
    BY <2>2 DEF Recorded, Lives
<1>8. N \subseteq Spot'
  BY <1>7
<1>9. \A t \in N : \A s \in Spot : ~SameKey(At(t)', At(s)) /\ ~SameKey(At(s), At(t)')
  BY <1>7 DEF SameKey
<1>10. \A t, u \in N : SameKey(At(t)', At(u)') => t = u
  BY <1>7 DEF SameKey
<1>11. ASSUME NEW t \in N PROVE Drawn(At(t))'
  BY <1>7 DEF Drawn
<1>12. ASSUME NEW t \in N
       PROVE  /\ At(t)'.kind = "start" <=> IsFirst(t)' /\ Owner(t)' # 0
              /\ At(t)'.kind = "start" =>
                    \E u \in N : /\ At(u)'.kind = "create" /\ At(u)'.other = Owner(t)'
                                 /\ Owner(u)' = At(t)'.other
  BY <1>7
<1>13. \A d \in Context : life'[d] = "off" => life[d] = "off"
  OBVIOUS
<1>14. order.sync <= order'.sync /\ order.barrier <= order'.barrier
  BY DEF ProgramTypes
<1> QED
  BY <1>4, <1>5, <1>6, <1>8, <1>9, <1>10, <1>11, <1>12, <1>13, <1>14, SpotsMove, ZenonT(60)

\* A running thread stores an event, with a new number if it has one.
LEMMA StoreKeeps ==
  ASSUME ProgramTypes, Recorded, NEW c \in Context, life[c] \in {"run", "barrier"},
         NEW x \in EventSet, x.kind \notin {"start", "create"}, Store(c, x),
         plan' = plan, creator' = creator, file' = file,
         life' \in [Context -> {"off", "run", "barrier", "exited"}],
         \A d \in Context \ {c} : life'[d] = life[d],
         life'[c] \in {"run", "barrier"},
         order' \in [sync : Nat, barrier : Nat],
         order.sync <= order'.sync, order.barrier <= order'.barrier,
         x.kind = "sync" => order.sync <= x.num /\ x.num < order'.sync,
         x.kind \in {"enter", "leave"} => order.barrier <= x.num /\ x.num < order'.barrier
  PROVE  ProgramTypes' /\ Recorded'
<1>1. ProgramTypes'
  <2>1. buffer \in [Context -> Seq(EventSet)] /\ buffer' = [buffer EXCEPT ![c] = Append(@, x)]
    BY DEF ProgramTypes, Store
  <2>2. buffer' \in [Context -> Seq(EventSet)]
    BY <2>1
  <2> QED
    BY <2>2 DEF ProgramTypes
<1>2. PICK D \in SUBSET Context : D = {c}
  OBVIOUS
<1>3. PICK e \in [D -> EventSet] : e = [d \in D |-> x]
  OBVIOUS
<1>4. buffer' = [d \in Context |-> IF d \in D THEN Append(buffer[d], e[d]) ELSE buffer[d]]
  BY <1>2, <1>3 DEF ProgramTypes, Store
<1>5. ASSUME NEW s \in Spot PROVE ~SameKey(At(s), x) /\ ~SameKey(x, At(s))
  <2>1. PICK y \in EventSet : y = At(s)
    BY SpotFacts DEF SpotShape
  <2>2. /\ y.kind = "sync" => y.num < order.sync
        /\ y.kind \in {"enter", "leave"} => y.num < order.barrier
    BY <2>1 DEF Recorded, AllDrawn, Drawn
  <2>3. /\ y.kind \in {"sync", "enter", "leave"} => y.num \in Nat
        /\ x.kind \in {"sync", "enter", "leave"} => x.num \in Nat
    <3>1. \A z \in EventSet : z.kind \in {"sync", "enter", "leave"} => z.num \in Nat
      BY DEF EventSet
    <3> QED
      BY <3>1
  <2>4. order.sync \in Nat /\ order.barrier \in Nat
    BY DEF ProgramTypes
  <2> QED
    BY <2>1, <2>2, <2>3, <2>4 DEF SameKey
<1>6. c # 0 /\ buffer[c] = <<>> => BuffersOf(c) # {}
  BY DEF Recorded, Lives
<1>7. Drawn(x)'
  BY DEF Drawn
<1>8. \A d \in D : d = c /\ e[d] = x
  BY <1>2, <1>3
<1>9. \A d \in D : Drawn(e[d])'
  BY <1>7, <1>8 DEF Drawn
<1>10. \A d \in D : \A s \in Spot : ~SameKey(At(s), e[d]) /\ ~SameKey(e[d], At(s))
  BY <1>5, <1>8
<1>11. \A d, f \in D : SameKey(e[d], e[f]) => d = f
  BY <1>8
<1>12. ASSUME NEW d \in D
       PROVE  /\ e[d].kind = "start" <=> d # 0 /\ buffer[d] = <<>> /\ BuffersOf(d) = {}
              /\ e[d].kind = "start" =>
                    /\ e[d].other \in D /\ e[e[d].other].kind = "create"
                    /\ e[e[d].other].other = d
  BY <1>6, <1>8
<1>13. /\ \A d \in Context \ D : life'[d] = life[d]
       /\ \A d \in D : life'[d] \in {"run", "barrier"}
  BY <1>2
<1>14. Stores(D, e)
  BY <1>4 DEF Stores
<1>15. NewEvents(D, e)
  BY <1>9, <1>10, <1>11, <1>12 DEF NewEvents
<1> QED
  BY <1>1, <1>13, <1>14, <1>15, StoresKeep

\* The runtime's steps keep what has been recorded.
LEMMA ProgramKeeps ==
  ASSUME ProgramTypes, Recorded, Program
  PROVE  ProgramTypes' /\ Recorded'
<1>0. /\ plan' = plan /\ plan.threads \subseteq Context /\ plan.creators \subseteq Context
      /\ plan.addrs \subseteq Addr
      /\ life \in [Context -> {"off", "run", "barrier", "exited"}]
      /\ order \in [sync : Nat, barrier : Nat]
      /\ order.sync \in Nat /\ order.barrier \in Nat
      /\ creator \in [Context -> Context]
      /\ buffer \in [Context -> Seq(EventSet)]
  BY EventQueueAssumption DEF ProgramTypes, Program
<1>1. ASSUME NEW c \in plan.threads, NEW long \in BOOLEAN, BasicBlock(c, long)
      PROVE  ProgramTypes' /\ Recorded'
  <2>1. [kind |-> "block", long |-> long] \in EventSet
    BY DEF EventSet
  <2>2. c \in Context
    BY <1>0
  <2> DEFINE x == [kind |-> "block", long |-> long]
  <2>3. /\ life[c] = "run" /\ Store(c, x) /\ x.kind = "block" /\ x \in EventSet
        /\ creator' = creator /\ file' = file /\ life' = life /\ order' = order
    BY <1>1, <2>1 DEF BasicBlock
  <2>4. order.sync <= order'.sync /\ order.barrier <= order'.barrier
        /\ order' \in [sync : Nat, barrier : Nat]
    BY <1>0, <2>3
  <2> HIDE DEF x
  <2> QED
    BY <1>0, <2>2, <2>3, <2>4, StoreKeeps
<1>2. ASSUME NEW c \in plan.threads, NEW a \in plan.addrs, NEW w \in BOOLEAN, StoreSync(c, a, w)
      PROVE  ProgramTypes' /\ Recorded'
  <2> DEFINE x == [kind |-> "sync", addr |-> a, wait |-> w, num |-> order.sync]
  <2>1. x \in EventSet
    BY <1>0 DEF EventSet
  <2>2. c \in Context /\ life[c] = "run" /\ Store(c, x)
    BY <1>0, <1>2 DEF StoreSync
  <2>a. order' = [order EXCEPT !.sync = @ + 1]
    BY <1>2 DEF StoreSync
  <2>b. order \in [sync : Nat, barrier : Nat]
    BY <1>0
  <2>3. /\ order' \in [sync : Nat, barrier : Nat]
        /\ order'.sync = order.sync + 1 /\ order'.barrier = order.barrier
        /\ order.sync <= order'.sync /\ order.barrier <= order'.barrier /\ order.sync < order'.sync
    BY <2>a, <2>b
  <2>5. creator' = creator /\ file' = file /\ life' = life
    BY <1>2 DEF StoreSync
  <2>4. x.kind = "sync" /\ x.num = order.sync
    OBVIOUS
  <2> HIDE DEF x
  <2>6. /\ x.kind \notin {"start", "create"}
        /\ x.kind = "sync" => order.sync <= x.num /\ x.num < order'.sync
        /\ x.kind \in {"enter", "leave"} => order.barrier <= x.num /\ x.num < order'.barrier
    BY <1>0, <2>3, <2>4
  <2>7. /\ life' \in [Context -> {"off", "run", "barrier", "exited"}]
        /\ \A d \in Context \ {c} : life'[d] = life[d]
        /\ life[c] \in {"run", "barrier"} /\ life'[c] \in {"run", "barrier"}
    BY <1>0, <2>2, <2>5
  <2> QED
    BY <1>0, <2>1, <2>2, <2>3, <2>5, <2>6, <2>7, StoreKeeps
<1>3. ASSUME NEW c \in plan.threads, StoreBarrierEnter(c)
      PROVE  ProgramTypes' /\ Recorded'
  <2> DEFINE x == [kind |-> "enter", num |-> order.barrier]
  <2>1. x \in EventSet
    BY <1>0 DEF EventSet
  <2>2. c \in Context /\ life[c] = "run" /\ Store(c, x)
    BY <1>0, <1>3 DEF StoreBarrierEnter
  <2>a. order' = [order EXCEPT !.barrier = @ + 1]
    BY <1>3 DEF StoreBarrierEnter
  <2>b. order \in [sync : Nat, barrier : Nat]
    BY <1>0
  <2>3. /\ order' \in [sync : Nat, barrier : Nat]
        /\ order'.sync = order.sync /\ order'.barrier = order.barrier + 1
        /\ order.sync <= order'.sync /\ order.barrier <= order'.barrier
        /\ order.barrier < order'.barrier
    BY <2>a, <2>b
  <2>5. creator' = creator /\ file' = file /\ life' = [life EXCEPT ![c] = "barrier"]
    BY <1>3 DEF StoreBarrierEnter
  <2>4. x.kind = "enter" /\ x.num = order.barrier
    OBVIOUS
  <2> HIDE DEF x
  <2>6. /\ x.kind \notin {"start", "create"}
        /\ x.kind = "sync" => order.sync <= x.num /\ x.num < order'.sync
        /\ x.kind \in {"enter", "leave"} => order.barrier <= x.num /\ x.num < order'.barrier
    BY <1>0, <2>3, <2>4
  <2>7. /\ life' \in [Context -> {"off", "run", "barrier", "exited"}]
        /\ \A d \in Context \ {c} : life'[d] = life[d]
        /\ life[c] \in {"run", "barrier"} /\ life'[c] \in {"run", "barrier"}
    BY <1>0, <2>2, <2>5
  <2> QED
    BY <1>0, <2>1, <2>2, <2>3, <2>5, <2>6, <2>7, StoreKeeps
<1>4. ASSUME NEW c \in plan.threads, StoreBarrierLeave(c)
      PROVE  ProgramTypes' /\ Recorded'
  <2> DEFINE x == [kind |-> "leave", num |-> order.barrier]
  <2>1. x \in EventSet
    BY <1>0 DEF EventSet
  <2>2. c \in Context /\ life[c] = "barrier" /\ Store(c, x)
    BY <1>0, <1>4 DEF StoreBarrierLeave
  <2>a. order' = [order EXCEPT !.barrier = @ + 1]
    BY <1>4 DEF StoreBarrierLeave
  <2>b. order \in [sync : Nat, barrier : Nat]
    BY <1>0
  <2>3. /\ order' \in [sync : Nat, barrier : Nat]
        /\ order'.sync = order.sync /\ order'.barrier = order.barrier + 1
        /\ order.sync <= order'.sync /\ order.barrier <= order'.barrier
        /\ order.barrier < order'.barrier
    BY <2>a, <2>b
  <2>5. creator' = creator /\ file' = file /\ life' = [life EXCEPT ![c] = "run"]
    BY <1>4 DEF StoreBarrierLeave
  <2>4. x.kind = "leave" /\ x.num = order.barrier
    OBVIOUS
  <2> HIDE DEF x
  <2>6. /\ x.kind \notin {"start", "create"}
        /\ x.kind = "sync" => order.sync <= x.num /\ x.num < order'.sync
        /\ x.kind \in {"enter", "leave"} => order.barrier <= x.num /\ x.num < order'.barrier
    BY <1>0, <2>3, <2>4
  <2>7. /\ life' \in [Context -> {"off", "run", "barrier", "exited"}]
        /\ \A d \in Context \ {c} : life'[d] = life[d]
        /\ life[c] \in {"run", "barrier"} /\ life'[c] \in {"run", "barrier"}
    BY <1>0, <2>2, <2>5
  <2> QED
    BY <1>0, <2>1, <2>2, <2>3, <2>5, <2>6, <2>7, StoreKeeps
<1>5. ASSUME NEW c \in plan.threads, NEW d \in plan.threads, ThreadJoin(c, d)
      PROVE  ProgramTypes' /\ Recorded'
  <2> DEFINE x == [kind |-> "join", other |-> d]
  <2>1. x \in EventSet
    BY <1>0 DEF EventSet
  <2>2. c \in Context /\ life[c] = "run" /\ Store(c, x)
    BY <1>0, <1>5 DEF ThreadJoin
  <2>3. creator' = creator /\ file' = file /\ life' = life /\ order' = order
    BY <1>0, <1>5 DEF ThreadJoin
  <2>4. /\ x.kind = "join" /\ order' \in [sync : Nat, barrier : Nat]
        /\ order.sync <= order'.sync /\ order.barrier <= order'.barrier
    BY <1>0, <2>3
  <2> HIDE DEF x
  <2> QED
    BY <1>0, <2>1, <2>2, <2>3, <2>4, StoreKeeps
<1>6. ASSUME NEW c \in plan.threads, QueueBuffer(c)
      PROVE  ProgramTypes' /\ Recorded'
  <2>1. c \in Context /\ life[c] = "run" /\ buffer[c] # <<>>
    BY <1>0, <1>6 DEF QueueBuffer, LastKind
  <2>2. PICK k \in EventSet : k.kind = "exit"
    <3>1. [kind |-> "exit", other |-> c] \in EventSet
      BY <2>1 DEF EventSet
    <3> QED
      BY <3>1
  <2>3. PICK x \in Seq(EventSet) : x = buffer[c]
    BY <1>0, <2>1
  <2>4. /\ buffer' = [buffer EXCEPT ![c] = <<>>] /\ file' = Append(file, [ctid |-> c, events |-> x])
        /\ order' = order /\ life' = life /\ creator' = creator
    BY <1>6, <2>3 DEF QueueBuffer
  <2>5. ProgramTypes'
    <3>1. file' \in Seq([ctid : Context, events : Seq(EventSet)])
      <4> DEFINE B == [ctid : Context, events : Seq(EventSet)]
                 r == [ctid |-> c, events |-> x]
      <4>1. file \in Seq(B) /\ file' = Append(file, r) /\ r \in B
        BY <2>1, <2>4 DEF ProgramTypes
      <4> HIDE DEF B, r
      <4>2. file' \in Seq(B)
        BY <4>1
      <4> QED
        BY <4>2 DEF B
    <3> QED
      BY <1>0, <2>1, <2>4, <3>1 DEF ProgramTypes
  <2>6. Flushes(c, x, {}, <<>>)
    BY <2>1, <2>3, <2>4 DEF Flushes
  <2> QED
    BY <1>0, <2>1, <2>4, <2>5, <2>6, FlushKeeps
<1>7. ASSUME NEW c \in plan.threads, CleanupThread(c)
      PROVE  ProgramTypes' /\ Recorded'
  <2>1. c \in Context /\ life[c] = "run"
    BY <1>0, <1>7 DEF CleanupThread
  <2>2. PICK k \in EventSet : k = [kind |-> "exit", other |-> creator[c]]
    BY <1>0, <2>1 DEF EventSet
  <2>3. PICK x \in Seq(EventSet) : x = Append(buffer[c], k)
    <3>1. buffer[c] \in Seq(EventSet)
      BY <1>0, <2>1
    <3>2. Append(buffer[c], k) \in Seq(EventSet)
      BY <3>1
    <3> QED
      BY <3>2
  <2>4. /\ buffer' = [buffer EXCEPT ![c] = <<>>] /\ file' = Append(file, [ctid |-> c, events |-> x])
        /\ order' = order /\ life' = [life EXCEPT ![c] = "exited"] /\ creator' = creator
    BY <1>7, <2>2, <2>3 DEF CleanupThread
  <2>5. ProgramTypes'
    <3>1. file' \in Seq([ctid : Context, events : Seq(EventSet)])
      <4> DEFINE B == [ctid : Context, events : Seq(EventSet)]
                 r == [ctid |-> c, events |-> x]
      <4>1. file \in Seq(B) /\ file' = Append(file, r) /\ r \in B
        BY <2>1, <2>4 DEF ProgramTypes
      <4> HIDE DEF B, r
      <4>2. file' \in Seq(B)
        BY <4>1
      <4> QED
        BY <4>2 DEF B
    <3> QED
      BY <1>0, <2>1, <2>4, <3>1 DEF ProgramTypes
  <2>6. k.kind = "exit"
    BY <2>2
  <2>7. life'[c] \in {"run", "exited"} /\ \A d \in Context \ {c} : life'[d] = life[d]
    BY <1>0, <2>1, <2>4
  <2>8. PICK D : D = {c}
    OBVIOUS
  <2>9. PICK e \in [D -> EventSet] : e = [d \in D |-> k]
    OBVIOUS
  <2>10. Flushes(c, x, D, e) /\ \A d \in D : e[d].kind = "exit"
    BY <2>1, <2>3, <2>4, <2>6, <2>8, <2>9 DEF Flushes
  <2> QED
    BY <2>1, <2>4, <2>5, <2>7, <2>10, FlushKeeps
<1>8. ASSUME NEW p \in plan.threads, NEW c \in plan.threads, life[c] = "off", ThreadCreate(p, c)
      PROVE  ProgramTypes' /\ Recorded'
  <2>1. /\ p \in Context /\ c \in Context /\ life[p] = "run" /\ p # c /\ c # 0
        /\ buffer[c] = <<>> /\ BuffersOf(c) = {}
        /\ p # 0 /\ buffer[p] = <<>> => BuffersOf(p) # {}
    BY <1>0, <1>8 DEF ThreadCreate, Recorded, Lives
  <2>2. PICK x \in EventSet : x = [kind |-> "create", other |-> c]
    BY <2>1 DEF EventSet
  <2>3. PICK y \in EventSet : y = [kind |-> "start", other |-> p]
    BY <2>1 DEF EventSet
  <2>4. PICK D \in SUBSET Context : D = {p, c}
    BY <2>1
  <2>5. PICK e \in [D -> EventSet] : e = [d \in D |-> IF d = p THEN x ELSE y]
    OBVIOUS
  <2>6. e[p] = x /\ e[c] = y /\ \A d \in D : d = p \/ d = c
    BY <2>1, <2>4, <2>5
  <2>7. buffer' = [d \in Context |-> IF d \in D THEN Append(buffer[d], e[d]) ELSE buffer[d]]
    <3>1. buffer' = [buffer EXCEPT ![p] = Append(@, x), ![c] = <<y>>]
      BY <1>8, <2>2, <2>3 DEF ThreadCreate
    <3>2. Append(buffer[c], y) = <<y>>
      BY <2>1
    <3> QED
      BY <1>0, <2>1, <2>4, <2>6, <3>1, <3>2
  <2>8. /\ file' = file /\ order' = order /\ life' = [life EXCEPT ![c] = "run"]
        /\ creator' = [creator EXCEPT ![c] = p]
    BY <1>8 DEF ThreadCreate
  <2>9. ProgramTypes'
    <3>1. \A d \in Context : buffer'[d] \in Seq(EventSet)
      BY <1>0, <2>4, <2>7
    <3>2. buffer' \in [Context -> Seq(EventSet)]
      BY <2>7, <3>1
    <3>3. creator' \in [Context -> Context]
      BY <1>0, <2>1, <2>8
    <3>4. life' \in [Context -> {"off", "run", "barrier", "exited"}]
      BY <1>0, <2>1, <2>8
    <3> QED
      BY <1>0, <2>8, <3>2, <3>3, <3>4 DEF ProgramTypes
  <2>10. ASSUME NEW s \in Spot
         PROVE  /\ ~SameKey(At(s), x) /\ ~SameKey(x, At(s))
                /\ ~SameKey(At(s), y) /\ ~SameKey(y, At(s))
    <3>1. At(s).kind = "create" => At(s).other # c
      BY <1>8 DEF Recorded, AllDrawn, Drawn
    <3> QED
      BY <2>2, <2>3, <3>1 DEF SameKey
  <2>11. \A d \in D : \A s \in Spot : ~SameKey(At(s), e[d]) /\ ~SameKey(e[d], At(s))
    BY <2>6, <2>10
  <2>12. \A d, f \in D : SameKey(e[d], e[f]) => d = f
    BY <2>2, <2>3, <2>6 DEF SameKey
  <2>13. Drawn(x)' /\ Drawn(y)'
    BY <1>0, <2>1, <2>2, <2>3, <2>8 DEF Drawn
  <2>14. \A d \in D : Drawn(e[d])'
    BY <2>6, <2>13 DEF Drawn
  <2>15. \A d \in D : /\ e[d].kind = "start" <=>
                            d # 0 /\ buffer[d] = <<>> /\ BuffersOf(d) = {}
                      /\ e[d].kind = "start" =>
                            /\ e[d].other \in D /\ e[e[d].other].kind = "create"
                            /\ e[e[d].other].other = d
    BY <2>1, <2>2, <2>3, <2>4, <2>6
  <2>16. /\ \A d \in Context \ D : life'[d] = life[d]
         /\ \A d \in D : life'[d] \in {"run", "barrier"}
    BY <1>0, <2>1, <2>4, <2>8
  <2>17. order.sync <= order'.sync /\ order.barrier <= order'.barrier
    BY <1>0, <2>8
  <2>18. Stores(D, e)
    BY <2>7 DEF Stores
  <2>19. NewEvents(D, e)
    BY <2>11, <2>12, <2>14, <2>15 DEF NewEvents
  <2> QED
    BY <2>8, <2>9, <2>16, <2>17, <2>18, <2>19, StoresKeep
<1>9. PICK c \in plan.threads :
          \/ StoreBarrierEnter(c) \/ StoreBarrierLeave(c)
          \/ QueueBuffer(c) \/ CleanupThread(c)
          \/ \E long \in BOOLEAN : BasicBlock(c, long)
          \/ \E a \in plan.addrs, kind \in plan.does \cap {"sync", "wait"} :
                StoreSync(c, a, kind = "wait")
          \/ \E d \in plan.threads : (life[d] = "off" /\ ThreadCreate(c, d)) \/ ThreadJoin(c, d)
  BY DEF Program
<1>10. \A kind : (kind = "wait") \in BOOLEAN
  OBVIOUS
<1>11. CASE \E a \in plan.addrs, kind \in plan.does \cap {"sync", "wait"} :
               StoreSync(c, a, kind = "wait")
  <2>1. PICK a \in plan.addrs, kind \in plan.does \cap {"sync", "wait"} :
            StoreSync(c, a, kind = "wait")
    BY <1>11
  <2> QED
    BY <1>2, <1>10, <2>1
<1> QED
  BY <1>1, <1>3, <1>4, <1>5, <1>6, <1>7, <1>8, <1>9, <1>11

-----------------------------------------------------------------------------
(***************************************************************************)
(* The trace, which the middle layer does not change.                      *)
(***************************************************************************)

LEMMA SameTrace ==
  ASSUME UNCHANGED program
  PROVE  /\ ProgramTypes => ProgramTypes'
         /\ Recorded => Recorded'
         /\ buffer' = buffer /\ file' = file
         /\ \A c : BuffersOf(c)' = BuffersOf(c)
         /\ \A c : PlacesOf(c)' = PlacesOf(c)
         /\ Place' = Place
         /\ \A p : Ctid(p)' = Ctid(p) /\ EventAt(p)' = EventAt(p) /\ Nth(p)' = Nth(p)
         /\ FileEvents' = FileEvents
<1> USE DEF program
<1>1. ProgramTypes => ProgramTypes'
  BY DEF ProgramTypes
<1>2. \A c : BuffersOf(c)' = BuffersOf(c)
  BY DEF BuffersOf
<1>3. \A c : PlacesOf(c)' = PlacesOf(c)
  BY <1>2 DEF PlacesOf
<1>4. Place' = Place
  BY <1>3 DEF Place
<1>5. \A p : Ctid(p)' = Ctid(p) /\ EventAt(p)' = EventAt(p)
  BY DEF Ctid, EventAt
<1>6. \A p : Nth(p)' = Nth(p)
  BY <1>3 DEF Nth
<1>7. FileEvents' = FileEvents
  BY <1>4, <1>5 DEF FileEvents
<1>8. Recorded => Recorded'
  <2>1. /\ Spot' = Spot /\ \A s : At(s)' = At(s) /\ Owner(s)' = Owner(s)
        /\ \A s : IsFirst(s)' <=> IsFirst(s)
    BY <1>2 DEF Spot, FileSpot, BufferSpot, At, Owner, IsFirst
  <2>2. Distinct => Distinct'
    BY <2>1 DEF Distinct
  <2>3. AllDrawn => AllDrawn'
    BY <2>1 DEF AllDrawn, Drawn
  <2>4. Lives => Lives'
    BY <1>2 DEF Lives
  <2>5. Starts => Starts'
    BY <2>1 DEF Starts
  <2> QED
    BY <2>2, <2>3, <2>4, <2>5 DEF Recorded
<1> QED
  BY <1>1, <1>2, <1>3, <1>4, <1>5, <1>6, <1>7, <1>8

Kinds == {"block", "create", "start", "join", "exit", "sync", "enter", "leave", "buffer"}

\* An event is a header or has a spot.
LEMMA EventFacts ==
  ASSUME ProgramTypes, NEW p \in Place
  PROVE  /\ EventAt(p).ctid = Ctid(p) /\ EventAt(p).kind \in Kinds
         /\ p[2] = 0 => EventAt(p).kind = "buffer"
         /\ p[2] # 0 =>
               LET s == <<"file", p[1], p[2]>>
               IN  /\ s \in Spot /\ Owner(s) = Ctid(p) /\ EventAt(p).kind = At(s).kind
                   /\ EventAt(p).kind # "buffer"
                   /\ EventAt(p).kind \in {"sync", "enter", "leave"} => EventAt(p).num = At(s).num
                   /\ EventAt(p).kind \in {"create", "start", "join", "exit"} => EventAt(p).other = At(s).other
         /\ EventAt(p).kind \in {"sync", "enter", "leave"} => EventAt(p).num \in Nat
         /\ EventAt(p).kind \in {"create", "start", "join", "exit"} => EventAt(p).other \in Context
<1>1. /\ p = <<p[1], p[2]>> /\ p[1] \in 1 .. Len(file)
      /\ p[2] \in 0 .. Len(file[p[1]].events) /\ file[p[1]].events \in Seq(EventSet)
      /\ Len(file[p[1]].events) \in Nat
  BY PlaceFacts
<1>2. CASE p[2] = 0
  <2>1. EventAt(p) = [kind |-> "buffer", ctid |-> Ctid(p)]
    BY <1>2 DEF EventAt, Ctid
  <2> QED
    BY <1>2, <2>1 DEF Kinds
<1>3. CASE p[2] # 0
  <2> DEFINE e == file[p[1]].events[p[2]]
             s == <<"file", p[1], p[2]>>
  <2>1. e \in EventSet
    BY <1>1, <1>3
  <2>2. s \in Spot /\ At(s) = e /\ Owner(s) = Ctid(p)
    <3>1. p[2] \in 1 .. Len(file[p[1]].events)
      BY <1>1, <1>3
    <3>2. s \in Spot
      BY <1>1, <3>1, SpotFacts DEF SpotShape
    <3> QED
      BY <3>2 DEF At, Owner, Ctid
  <2>3. EventAt(p) = [f \in DOMAIN e \cup {"ctid"} |-> IF f = "ctid" THEN Ctid(p) ELSE e[f]]
    BY <1>3 DEF EventAt, Ctid
  <2>4. e.kind \in Kinds /\ e.kind # "buffer"
    <3> HIDE DEF e
    <3> QED
      BY <2>1 DEF EventSet, Kinds
  <2> HIDE DEF e, s
  <2>5. /\ EventAt(p).ctid = Ctid(p) /\ EventAt(p).kind = e.kind
        /\ e.kind \in {"sync", "enter", "leave"} => EventAt(p).num = e.num /\ e.num \in Nat
        /\ e.kind \in {"create", "start", "join", "exit"} => EventAt(p).other = e.other /\ e.other \in Context
    BY <2>1, <2>3, EventFields
  <2> USE DEF s
  <2> QED
    BY <1>3, <2>2, <2>4, <2>5
<1> QED
  BY <1>2, <1>3

\* A key is found at one place only.
LEMMA OnePlace ==
  ASSUME ProgramTypes, Recorded, NEW p \in Place, NEW q \in Place,
         SameKey(EventAt(p), EventAt(q))
  PROVE  p = q
<1>1. p[2] # 0 /\ q[2] # 0
  BY EventFacts DEF SameKey
<1> DEFINE s == <<"file", p[1], p[2]>>
           t == <<"file", q[1], q[2]>>
<1>2. /\ s \in Spot /\ EventAt(p).kind = At(s).kind
      /\ EventAt(p).kind \in {"sync", "enter", "leave"} => EventAt(p).num = At(s).num
      /\ EventAt(p).kind \in {"create", "start"} => EventAt(p).other = At(s).other
  BY <1>1, EventFacts
<1>3. /\ t \in Spot /\ EventAt(q).kind = At(t).kind
      /\ EventAt(q).kind \in {"sync", "enter", "leave"} => EventAt(q).num = At(t).num
      /\ EventAt(q).kind \in {"create", "start"} => EventAt(q).other = At(t).other
  BY <1>1, EventFacts
<1> HIDE DEF s, t
<1>4. SameKey(At(s), At(t))
  BY <1>2, <1>3 DEF SameKey
<1>5. s = t
  BY <1>2, <1>3, <1>4 DEF Recorded, Distinct
<1>6. p = <<p[1], p[2]>> /\ q = <<q[1], q[2]>>
  BY PlaceFacts
<1> QED
  BY <1>5, <1>6 DEF s, t

\* Every thread but the main one has its start before all that is no header.
LEMMA StartPlace ==
  ASSUME ProgramTypes, Recorded, \A c \in Context : buffer[c] = <<>>,
         NEW p \in Place, p[2] # 0, Ctid(p) # 0
  PROVE  \E s \in PlacesOf(Ctid(p)) : EventAt(s).kind = "start" /\ (s = p \/ Nth(s) < Nth(p))
<1> DEFINE c == Ctid(p)
<1>1. /\ p \in PlacesOf(c) /\ c \in Context /\ p[1] \in BuffersOf(c) /\ p = <<p[1], p[2]>>
      /\ p[2] \in Nat
  BY PlaceFacts DEF BuffersOf
<1>2. BuffersOf(c) \subseteq Nat
  BY PlaceFacts DEF BuffersOf
<1>3. PICK b \in BuffersOf(c) : \A d \in BuffersOf(c) : b <= d
  BY <1>1, <1>2, LeastNumber
<1> HIDE DEF c
<1>4. b \in 1 .. Len(file) /\ file[b].ctid = c /\ b <= p[1] /\ b \in Nat /\ p[1] \in Nat
  BY <1>1, <1>2, <1>3 DEF BuffersOf
<1>5. 1 \in 1 .. Len(file[b].events)
  <2>1. file[b].events # <<>> /\ file[b].events \in Seq(EventSet)
    BY <1>4, PlaceFacts DEF Recorded, Lives
  <2> QED
    BY <2>1
<1> DEFINE s == <<b, 1>>
           t == <<"file", b, 1>>
<1>6. s \in PlacesOf(c) /\ s \in Place /\ Ctid(s) = c
  <2>1. 1 \in 0 .. Len(file[b].events)
    BY <1>4, <1>5, PlaceFacts
  <2>2. s \in PlacesOf(c)
    BY <1>4, <2>1, PlaceFacts
  <2> QED
    BY <2>2, PlaceFacts
<1>7. t \in Spot /\ EventAt(s).kind = At(t).kind /\ Owner(t) = c
  BY <1>6, EventFacts
<1>8. IsFirst(t)
  BY <1>3, <1>7 DEF IsFirst
<1>9. EventAt(s).kind = "start"
  BY <1>7, <1>8 DEF c, Recorded, Starts
<1>10. s = p \/ Nth(s) < Nth(p)
  <2>1. s = p \/ b < p[1] \/ (b = p[1] /\ 1 < p[2])
    BY <1>1, <1>4
  <2> HIDE DEF s
  <2>2. s[1] = b /\ s[2] = 1
    BY DEF s
  <2> QED
    BY <1>1, <1>6, <2>1, <2>2, NthGrows
<1> QED
  BY <1>6, <1>9, <1>10 DEF c

\* Every create is of its own thread's, who names the creator.
LEMMA StartNamesCreator ==
  ASSUME ProgramTypes, Recorded, NEW s \in Place, EventAt(s).kind = "start",
         NEW p \in Place, EventAt(p).kind = "create", EventAt(p).other = Ctid(s)
  PROVE  Ctid(p) = EventAt(s).other /\ Ctid(s) # 0
<1>1. s[2] # 0 /\ p[2] # 0
  BY EventFacts
<1> DEFINE t == <<"file", s[1], s[2]>>
           u == <<"file", p[1], p[2]>>
<1>2. /\ t \in Spot /\ Owner(t) = Ctid(s) /\ At(t).kind = "start" /\ At(t).other = EventAt(s).other
      /\ u \in Spot /\ Owner(u) = Ctid(p) /\ At(u).kind = "create" /\ At(u).other = Ctid(s)
  BY <1>1, EventFacts
<1> HIDE DEF t, u
<1>3. PICK v \in Spot : At(v).kind = "create" /\ At(v).other = Owner(t) /\ Owner(v) = At(t).other
  BY <1>2 DEF Recorded, Starts
<1>4. v = u
  BY <1>2, <1>3 DEF Recorded, Distinct, SameKey
<1>5. Owner(t) # 0
  BY <1>2 DEF Recorded, Starts
<1> QED
  BY <1>2, <1>3, <1>4, <1>5

-----------------------------------------------------------------------------
(***************************************************************************)
(* EventLib reads the places of a context in their order.                  *)
(***************************************************************************)

LEMMA TakenFinite ==
  ASSUME ProgramTypes, NEW c
  PROVE  /\ Taken(c) \subseteq PlacesOf(c) /\ IsFiniteSet(Taken(c))
         /\ Cardinality(Taken(c)) \in Nat
<1>1. Taken(c) \subseteq PlacesOf(c)
  BY DEF Taken
<1> QED
  BY <1>1, PlacesFinite, FS_Subset, FS_CardinalityType

\* Between two buffers those that have been read are all that is taken.
BetweenBuffers ==
    ~InBuffer => \A c : Taken(c) = {p \in PlacesOf(c) : p[1] \notin skipList[c]}

LEMMA TakenBetween == ProgramTypes /\ Reading => BetweenBuffers
<1> SUFFICES ASSUME ProgramTypes, Reading, ~InBuffer, NEW c, NEW p \in PlacesOf(c), p[1] = pos.buf
             PROVE  p[2] < pos.event
  BY DEF BetweenBuffers, Taken
<1>1. p[1] \in 1 .. Len(file) /\ p[2] \in 0 .. Len(file[p[1]].events) /\ Len(file[p[1]].events) \in Nat
  BY PlaceFacts
<1>2. pos.buf > 0 /\ pos.event \in Nat
  BY <1>1 DEF Reading
<1> QED
  BY <1>1, <1>2 DEF InBuffer

\* The place p is taken, the next one of its context.
Takes(p) ==
    /\ p \in Place /\ p \notin Taken(Ctid(p)) /\ Upto(p) = Taken(Ctid(p)) \cup {p}
    /\ \A c \in Context : Taken(c)' = IF c = Ctid(p) THEN Taken(c) \cup {p} ELSE Taken(c)

LEMMA TakesNext ==
  ASSUME ProgramTypes, NEW p, Takes(p)
  PROVE  /\ p \in PlacesOf(Ctid(p)) /\ Ctid(p) \in Context
         /\ Nth(p) = Cardinality(Taken(Ctid(p))) + 1
         /\ \A c \in Context :
               Cardinality(Taken(c)') = Cardinality(Taken(c)) + IF c = Ctid(p) THEN 1 ELSE 0
<1>1. /\ p \in PlacesOf(Ctid(p)) /\ Ctid(p) \in Context
      /\ Nth(p) = Cardinality(Taken(Ctid(p)) \cup {p})
  BY PlaceFacts, NthFacts DEF Takes
<1>2. Cardinality(Taken(Ctid(p)) \cup {p}) = Cardinality(Taken(Ctid(p))) + 1
  BY TakenFinite, FS_AddElement DEF Takes
<1>3. ASSUME NEW c \in Context
      PROVE  Cardinality(Taken(c)') = Cardinality(Taken(c)) + IF c = Ctid(p) THEN 1 ELSE 0
  <2>1. Taken(c)' = IF c = Ctid(p) THEN Taken(c) \cup {p} ELSE Taken(c)
    BY DEF Takes
  <2>2. Cardinality(Taken(c)) \in Nat
    BY TakenFinite
  <2>3. CASE c = Ctid(p)
    BY <1>2, <2>1, <2>3
  <2>4. CASE c # Ctid(p)
    BY <2>1, <2>2, <2>4
  <2> QED
    BY <2>3, <2>4
<1> QED
  BY <1>1, <1>2, <1>3

LEMMA SeekTakesNone ==
  ASSUME ProgramTypes, Reading, Seek, UNCHANGED program
  PROVE  Reading' /\ \A c : Taken(c)' = Taken(c)
<1>1. skipList' = skipList /\ ~InBuffer
  BY DEF Seek
<1>2. CASE pos' = pos
  BY <1>1, <1>2, SameTrace DEF Reading, Taken, InBuffer
<1>3. CASE Unblocked # {} /\ pos' = Before(EarliestPos)
  <2>1. PICK b \in 1 .. Len(file) : EarliestPos = b
    <3>1. \A c \in Unblocked : skipList[c] \subseteq 1 .. Len(file) /\ skipList[c] # {}
      BY DEF Unblocked, Reading, BuffersOf
    <3>2. \A c \in Unblocked : Min(skipList[c]) \in 1 .. Len(file)
      <4> TAKE c \in Unblocked
      <4>1. skipList[c] \in SUBSET Nat /\ skipList[c] # {}
        BY <3>1
      <4> QED
        BY <3>1, <4>1, LeastNumber
    <3> DEFINE S == {Min(skipList[c]) : c \in Unblocked}
    <3>3. S \in SUBSET Nat /\ S # {} /\ S \subseteq 1 .. Len(file)
      BY <1>3, <3>2
    <3>4. EarliestPos = Min(S)
      BY DEF EarliestPos
    <3> HIDE DEF S
    <3>5. Min(S) \in S
      BY <3>3, LeastNumber
    <3> QED
      BY <3>3, <3>4, <3>5
  <2>2. /\ pos'.buf = b - 1 /\ DOMAIN pos' = {"buf", "event"}
        /\ pos'.event = 1 + IF b = 1 THEN 0 ELSE Len(file[b - 1].events)
        /\ pos' = [buf |-> b - 1, event |-> pos'.event]
    BY <1>3, <2>1 DEF Before
  <2>3. Len(file) \in Nat /\ b \in Nat /\ b <= Len(file) /\ b - 1 \in 0 .. Len(file)
        /\ (b # 1 => b - 1 \in 1 .. Len(file) /\ Len(file[b - 1].events) \in Nat)
    BY PlaceFacts
  <2>4. pos'.event \in Nat \ {0} /\ ~InBuffer'
    BY <2>2, <2>3, SameTrace DEF InBuffer
  <2>5. pos' \in [buf : 0 .. Len(file'), event : Nat \ {0}]
    <3>1. pos' \in [buf : 0 .. Len(file), event : Nat \ {0}]
      BY <2>2, <2>3, <2>4
    <3> QED
      BY <3>1, SameTrace
  <2>6. Reading'
    <3>1. /\ DOMAIN skipList = {file[d].ctid : d \in 1 .. Len(file)}
          /\ \A c \in DOMAIN skipList :
                /\ skipList[c] \subseteq BuffersOf(c)
                /\ \A d \in skipList[c], f \in BuffersOf(c) : d <= f => f \in skipList[c]
      BY DEF Reading
    <3>2. /\ DOMAIN skipList' = {file'[d].ctid : d \in 1 .. Len(file')}
          /\ \A c \in DOMAIN skipList' :
                /\ skipList'[c] \subseteq BuffersOf(c)'
                /\ \A d \in skipList'[c], f \in BuffersOf(c)' : d <= f => f \in skipList'[c]
      BY <1>1, <3>1, SameTrace
    <3> QED
      BY <2>4, <2>5, <3>2 DEF Reading
  <2>7. \A c : Taken(c)' = {p \in PlacesOf(c) : p[1] \notin skipList[c]}
    <3>1. BetweenBuffers'
      <4>1. (ProgramTypes /\ Reading => BetweenBuffers)'
        BY TakenBetween, PTL
      <4> QED
        BY <2>6, <4>1, SameTrace
    <3> QED
      BY <1>1, <2>4, <3>1, SameTrace DEF BetweenBuffers
  <2>8. \A c : Taken(c) = {p \in PlacesOf(c) : p[1] \notin skipList[c]}
    BY <1>1, TakenBetween DEF BetweenBuffers
  <2> QED
    BY <2>6, <2>7, <2>8
<1> QED
  BY <1>2, <1>3 DEF Seek


LEMMA HeaderTakesNext ==
  ASSUME ProgramTypes, Reading, UNCHANGED program, ~InBuffer, Valid(NextHeader),
         pos' = [buf |-> NextHeader, event |-> 1],
         skipList' = [skipList EXCEPT ![file[NextHeader].ctid] = @ \ {NextHeader}]
  PROVE  Reading' /\ Takes(<<NextHeader, 0>>)
<1>a. PICK b : b = NextHeader
  OBVIOUS
<1>b. PICK c : c = file[b].ctid
  OBVIOUS
<1>c. PICK p : p = <<b, 0>>
  OBVIOUS
<1>1. /\ b \in 1 .. Len(file) /\ b \in Nat /\ c \in Context /\ c \in DOMAIN skipList
      /\ skipList[c] # {} /\ Min(skipList[c]) = b /\ Len(file) \in Nat
  <2>1. pos.buf \in Nat /\ b = pos.buf + 1 /\ b <= Len(file)
    BY <1>a DEF Reading, NextHeader, Valid
  <2>2. b \in 1 .. Len(file)
    BY <2>1, PlaceFacts
  <2> QED
    BY <1>a, <1>b, <2>1, <2>2, PlaceFacts DEF Valid, Unblocked
<1>2. /\ \A d \in DOMAIN skipList : skipList[d] \subseteq BuffersOf(d)
      /\ \A d \in DOMAIN skipList : \A x \in skipList[d], y \in BuffersOf(d) : x <= y => y \in skipList[d]
      /\ \A d : BuffersOf(d) \subseteq Nat
      /\ \A d : \A x \in BuffersOf(d) : x \in 1 .. Len(file) /\ file[x].ctid = d
      /\ \A x \in 1 .. Len(file) : x \in BuffersOf(file[x].ctid)
      /\ DOMAIN skipList = {file[x].ctid : x \in 1 .. Len(file)}
  BY SMTT(60) DEF Reading, BuffersOf
<1>3. b \in skipList[c] /\ \A x \in skipList[c] : b <= x
  <2>1. skipList[c] \in SUBSET Nat
    BY <1>1, <1>2
  <2> QED
    BY <1>1, <2>1, LeastNumber
<1>4. /\ DOMAIN skipList' = DOMAIN skipList /\ skipList'[c] = skipList[c] \ {b}
      /\ \A d \in DOMAIN skipList : d # c => skipList'[d] = skipList[d]
  BY <1>1, <1>a, <1>b
<1>5. pos' \in [buf : 0 .. Len(file), event : Nat \ {0}] /\ pos'.buf = b /\ pos'.event = 1
  BY <1>1, <1>a
<1>6. Reading'
  <2>1. DOMAIN skipList' = {file'[x].ctid : x \in 1 .. Len(file')}
    BY <1>2, <1>4, SameTrace
  <2>2. ASSUME NEW d \in DOMAIN skipList
        PROVE  /\ skipList'[d] \subseteq BuffersOf(d)
               /\ \A x \in skipList'[d], y \in BuffersOf(d) : x <= y => y \in skipList'[d]
    <3>1. CASE d # c
      BY <1>2, <1>4, <3>1
    <3>2. CASE d = c
      <4>1. \A x \in skipList[c] : x \in Nat /\ (x # b => b < x)
        BY <1>1, <1>2, <1>3
      <4> QED
        BY <1>1, <1>2, <1>4, <3>2, <4>1
    <3> QED
      BY <3>1, <3>2
  <2>3. b \notin skipList'[c] /\ \A y \in BuffersOf(c) : b < y => y \in skipList'[c]
    BY <1>1, <1>2, <1>3, <1>4
  <2>4. /\ pos' \in [buf : 0 .. Len(file'), event : Nat \ {0}]
        /\ \A d \in DOMAIN skipList' :
              /\ skipList'[d] \subseteq BuffersOf(d)'
              /\ \A x \in skipList'[d], y \in BuffersOf(d)' : x <= y => y \in skipList'[d]
        /\ pos'.buf = b /\ file'[pos'.buf].ctid = c /\ b \notin skipList'[c]
        /\ \A y \in BuffersOf(c)' : b < y => y \in skipList'[c]
    BY <1>4, <1>5, <1>b, <2>2, <2>3, SameTrace
  <2> QED
    BY <2>1, <2>4 DEF Reading
<1>7. \A d : Taken(d) = {q \in PlacesOf(d) : q[1] \notin skipList[d]}
  BY TakenBetween DEF BetweenBuffers
<1>8. /\ \A d : \A q \in PlacesOf(d) : /\ q[1] \in BuffersOf(d) /\ q[1] \in Nat /\ q[2] \in Nat
                                      /\ q = <<q[1], q[2]>>
      /\ p \in PlacesOf(c) /\ p \in Place /\ Ctid(p) = c /\ p[1] = b /\ p[2] = 0
  <2>1. \A d : \A q \in PlacesOf(d) : /\ q[1] \in BuffersOf(d) /\ q[1] \in Nat /\ q[2] \in Nat
                                      /\ q = <<q[1], q[2]>>
    BY PlaceFacts DEF BuffersOf
  <2>2. 0 \in 0 .. Len(file[b].events)
    BY <1>1, PlaceFacts
  <2>3. p \in PlacesOf(c)
    BY <1>1, <1>b, <1>c, <2>2, PlaceFacts
  <2> QED
    BY <1>c, <2>1, <2>3, PlaceFacts
<1>9. \A q \in PlacesOf(c) : q[1] \notin skipList[c] <=> q[1] < b
  BY <1>1, <1>2, <1>3, <1>8
<1>10. p \notin Taken(c) /\ Upto(p) = Taken(c) \cup {p}
  <2>1. \A q \in PlacesOf(c) : (q[1] < b \/ (q[1] = b /\ q[2] <= 0)) <=> (q[1] < b \/ q = p)
    BY <1>8
  <2> QED
    BY <1>3, <1>7, <1>8, <1>9, <2>1 DEF Upto
<1>11. \A d : Taken(d)' = {q \in PlacesOf(d) : q[1] \notin skipList'[d] /\ (q[1] = b => q[2] < 1)}
  BY <1>5, SameTrace DEF Taken
<1>12. Taken(c)' = Taken(c) \cup {p}
  <2>1. \A q \in PlacesOf(c) : (q[1] \notin skipList'[c] /\ (q[1] = b => q[2] < 1))
                                   <=> (q[1] \notin skipList[c] \/ q = p)
    BY <1>3, <1>4, <1>8
  <2> QED
    BY <1>7, <1>8, <1>11, <2>1
<1>13. ASSUME NEW d \in Context, d # c PROVE Taken(d)' = Taken(d)
  <2>1. ASSUME NEW q \in PlacesOf(d) PROVE q[1] # b /\ skipList'[d] = skipList[d]
    <3>1. q[1] \in 1 .. Len(file) /\ file[q[1]].ctid = d /\ d \in DOMAIN skipList
      BY <1>2, <1>8
    <3> QED
      BY <1>4, <1>13, <1>b, <3>1
  <2> QED
    BY <1>7, <1>11, <2>1
<1>14. Takes(p)
  BY <1>8, <1>10, <1>12, <1>13 DEF Takes
<1> QED
  BY <1>6, <1>14, <1>a, <1>c

LEMMA EventTakesNext ==
  ASSUME ProgramTypes, Reading, UNCHANGED program, InBuffer,
         pos' = [pos EXCEPT !.event = @ + 1], skipList' = skipList
  PROVE  Reading' /\ Takes(<<pos.buf, pos.event>>)
<1>a. PICK b : b = pos.buf
  OBVIOUS
<1>b. PICK c : c = file[b].ctid
  OBVIOUS
<1>c. PICK i : i = pos.event
  OBVIOUS
<1>d. PICK p : p = <<b, i>>
  OBVIOUS
<1>1. /\ b \in 1 .. Len(file) /\ b \in Nat /\ c \in Context /\ Len(file) \in Nat
      /\ i \in Nat /\ i > 0 /\ i <= Len(file[b].events) /\ Len(file[b].events) \in Nat
  <2>1. b \in 0 .. Len(file) /\ b > 0 /\ i \in Nat \ {0} /\ i <= Len(file[b].events) /\ Len(file) \in Nat
    BY <1>a, <1>c, PlaceFacts DEF Reading, InBuffer
  <2>2. b \in 1 .. Len(file)
    BY <2>1
  <2> QED
    BY <1>b, <2>1, <2>2, PlaceFacts
<1>2. /\ \A d \in DOMAIN skipList : skipList[d] \subseteq BuffersOf(d)
      /\ \A d \in DOMAIN skipList : \A x \in skipList[d], y \in BuffersOf(d) : x <= y => y \in skipList[d]
      /\ \A d : BuffersOf(d) \subseteq Nat
      /\ \A d : \A x \in BuffersOf(d) : x \in 1 .. Len(file) /\ file[x].ctid = d
      /\ \A x \in 1 .. Len(file) : x \in BuffersOf(file[x].ctid)
      /\ DOMAIN skipList = {file[x].ctid : x \in 1 .. Len(file)}
  BY DEF Reading, BuffersOf
<1>3. /\ b \notin skipList[c] /\ \A y \in BuffersOf(c) : b < y => y \in skipList[c]
      /\ c \in DOMAIN skipList /\ b \in BuffersOf(c)
  BY <1>1, <1>2, <1>a, <1>b DEF Reading
<1>4. pos' \in [buf : 0 .. Len(file), event : Nat \ {0}] /\ pos'.buf = b /\ pos'.event = i + 1
  <2>1. pos \in [buf : 0 .. Len(file), event : Nat \ {0}]
    BY DEF Reading
  <2> QED
    BY <1>1, <1>a, <1>c, <2>1
<1>5. Reading'
  <2>1. DOMAIN skipList' = {file'[x].ctid : x \in 1 .. Len(file')}
    BY <1>2, SameTrace
  <2>2. /\ pos' \in [buf : 0 .. Len(file'), event : Nat \ {0}]
        /\ \A d \in DOMAIN skipList' :
              /\ skipList'[d] \subseteq BuffersOf(d)'
              /\ \A x \in skipList'[d], y \in BuffersOf(d)' : x <= y => y \in skipList'[d]
        /\ pos'.buf = b /\ file'[pos'.buf].ctid = c /\ b \notin skipList'[c]
        /\ \A y \in BuffersOf(c)' : b < y => y \in skipList'[c]
    BY <1>2, <1>3, <1>4, <1>b, SameTrace
  <2> QED
    BY <2>1, <2>2 DEF Reading
<1>6. \A d : Taken(d) = {q \in PlacesOf(d) : q[1] \notin skipList[d] /\ (q[1] = b => q[2] < i)}
  BY <1>a, <1>c DEF Taken
<1>7. \A d : Taken(d)' = {q \in PlacesOf(d) : q[1] \notin skipList[d] /\ (q[1] = b => q[2] < i + 1)}
  BY <1>4, SameTrace DEF Taken
<1>8. /\ \A d : \A q \in PlacesOf(d) : /\ q[1] \in BuffersOf(d) /\ q[1] \in Nat /\ q[2] \in Nat
                                      /\ q = <<q[1], q[2]>>
      /\ p \in PlacesOf(c) /\ p \in Place /\ Ctid(p) = c /\ p[1] = b /\ p[2] = i
  <2>1. \A d : \A q \in PlacesOf(d) : /\ q[1] \in BuffersOf(d) /\ q[1] \in Nat /\ q[2] \in Nat
                                      /\ q = <<q[1], q[2]>>
    BY PlaceFacts DEF BuffersOf
  <2>2. i \in 0 .. Len(file[b].events)
    BY <1>1
  <2>3. p \in PlacesOf(c)
    BY <1>1, <1>b, <1>d, <2>2, PlaceFacts
  <2> QED
    BY <1>d, <2>1, <2>3, PlaceFacts
<1>9. \A q \in PlacesOf(c) : q[1] \notin skipList[c] <=> q[1] <= b
  <2> TAKE q \in PlacesOf(c)
  <2>1. q[1] \in BuffersOf(c) /\ q[1] \in Nat
    BY <1>8
  <2>2. q[1] <= b \/ b < q[1]
    BY <1>1, <2>1
  <2>3. ASSUME q[1] <= b PROVE q[1] \notin skipList[c]
    BY <1>2, <1>3, <2>3
  <2>4. ASSUME b < q[1] PROVE q[1] \in skipList[c] /\ ~(q[1] <= b)
    BY <1>1, <1>3, <2>1, <2>4
  <2> QED
    BY <2>2, <2>3, <2>4
<1>10. p \notin Taken(c) /\ Upto(p) = Taken(c) \cup {p}
  <2>1. \A q \in PlacesOf(c) : (q[1] < b \/ (q[1] = b /\ q[2] <= i))
                                   <=> ((q[1] <= b /\ (q[1] = b => q[2] < i)) \/ q = p)
    BY <1>1, <1>8
  <2>2. p \notin Taken(c)
    BY <1>1, <1>6, <1>8
  <2> QED
    BY <1>6, <1>8, <1>9, <2>1, <2>2 DEF Upto
<1>11. Taken(c)' = Taken(c) \cup {p}
  <2>1. \A q \in PlacesOf(c) : (q[1] \notin skipList[c] /\ (q[1] = b => q[2] < i + 1))
                                   <=> ((q[1] \notin skipList[c] /\ (q[1] = b => q[2] < i)) \/ q = p)
    BY <1>1, <1>3, <1>8
  <2> QED
    BY <1>6, <1>7, <1>8, <2>1
<1>12. ASSUME NEW d \in Context, d # c PROVE Taken(d)' = Taken(d)
  <2>1. \A q \in PlacesOf(d) : q[1] # b
    BY <1>2, <1>8, <1>12, <1>b
  <2> QED
    BY <1>6, <1>7, <2>1
<1>13. Takes(p)
  BY <1>8, <1>10, <1>11, <1>12 DEF Takes
<1> QED
  BY <1>5, <1>13, <1>a, <1>c, <1>d

-----------------------------------------------------------------------------
(***************************************************************************)
(* What is kept and what is returned is what has been taken.               *)
(***************************************************************************)

LEMMA KeptTypes ==
  ASSUME ListTypes, NEW c \in Context
  PROVE  Kept(c) \in Seq(FileEvents) /\ Len(Kept(c)) \in Nat /\ got[c] \in Nat
<1>1. Kept(c) \in Seq(FileEvents)
  BY DEF ListTypes, IsQueues, Kept
<1>2. Len(Kept(c)) \in Nat
  BY <1>1
<1> QED
  BY <1>1, <1>2 DEF ListTypes

LEMMA FollowsSame ==
  ASSUME UNCHANGED program, NEW c, NEW k, NEW n
  PROVE  Follows(c, k, n)' <=> Follows(c, k, n)
BY SameTrace DEF Follows

\* An event is read and kept; ...
LEMMA KeepsComplete ==
  ASSUME ProgramTypes, ListTypes, Complete, UNCHANGED program, NEW p, Takes(p), got' = got,
         \A d \in Context : Kept(d)' = IF d = Ctid(p) THEN Append(Kept(d), EventAt(p)) ELSE Kept(d)
  PROVE  Complete'
<1> SUFFICES ASSUME NEW d \in Context
             PROVE  /\ Cardinality(Taken(d))' = got'[d] + Len(Kept(d)')
                    /\ Follows(d, Kept(d), got[d])'
  BY DEF Complete
<1>a. PICK k, n : k = Kept(d) /\ n = got[d] /\ k \in Seq(FileEvents) /\ Len(k) \in Nat /\ n \in Nat
  BY KeptTypes
<1>b. PICK e : e = EventAt(p)
  OBVIOUS
<1>1. /\ Cardinality(Taken(d)) = n + Len(k) /\ Follows(d, k, n) /\ Cardinality(Taken(d)) \in Nat
      /\ Cardinality(Taken(d)') = Cardinality(Taken(d)) + IF d = Ctid(p) THEN 1 ELSE 0
  BY <1>a, TakenFinite, TakesNext DEF Complete
<1>2. CASE d = Ctid(p)
  <2>1. Kept(d)' = Append(k, e) /\ e \in FileEvents /\ p \in PlacesOf(d) /\ Nth(p) = n + Len(k) + 1
    BY <1>1, <1>2, <1>a, <1>b, TakesNext DEF Takes, FileEvents
  <2>2. Len(Append(k, e)) = Len(k) + 1
    BY <1>a, <2>1
  <2>3. Follows(d, Append(k, e), n)
    <3>1. \A i \in 1 .. Len(Append(k, e)) :
             \/ i \in 1 .. Len(k) /\ Append(k, e)[i] = k[i]
             \/ i = Len(k) + 1 /\ Append(k, e)[i] = e
      BY <1>a, <2>1
    <3> SUFFICES ASSUME NEW i \in 1 .. Len(Append(k, e))
                 PROVE  \E q \in PlacesOf(d) : Append(k, e)[i] = EventAt(q) /\ Nth(q) = n + i
      BY DEF Follows
    <3>2. CASE i \in 1 .. Len(k) /\ Append(k, e)[i] = k[i]
      BY <1>1, <3>2 DEF Follows
    <3>3. CASE i = Len(k) + 1 /\ Append(k, e)[i] = e
      <4>1. n + Len(k) + 1 = n + i
        BY <1>a, <3>3
      <4> QED
        BY <1>b, <2>1, <3>3, <4>1
    <3> QED
      BY <3>1, <3>2, <3>3
  <2>4. Follows(d, Append(k, e), n)'
    BY <2>3, FollowsSame
  <2>5. Follows(d, Kept(d), got[d])'
    BY <1>a, <2>1, <2>4 DEF Follows
  <2> QED
    BY <1>1, <1>2, <1>a, <2>1, <2>2, <2>5
<1>3. CASE d # Ctid(p)
  <2>1. Kept(d)' = k /\ got'[d] = n
    BY <1>3, <1>a
  <2>2. Follows(d, k, n)'
    BY <1>1, FollowsSame
  <2>3. Follows(d, Kept(d), got[d])'
    BY <2>1, <2>2 DEF Follows
  <2> QED
    BY <1>1, <1>3, <1>a, <2>1, <2>3
<1> QED
  BY <1>2, <1>3

\* ... or it is returned at once, since nothing is kept; ...
LEMMA ReadsComplete ==
  ASSUME ProgramTypes, ListTypes, Complete, UNCHANGED program, NEW p, Takes(p),
         Kept(Ctid(p)) = <<>>, got' = [got EXCEPT ![Ctid(p)] = @ + 1],
         \A d \in Context : Kept(d)' = Kept(d)
  PROVE  Complete' /\ Nth(p) = got[Ctid(p)] + 1
<1>1. ASSUME NEW d \in Context
      PROVE  /\ Cardinality(Taken(d))' = got'[d] + Len(Kept(d)')
             /\ Follows(d, Kept(d), got[d])'
  <2>a. PICK k, n : k = Kept(d) /\ n = got[d] /\ k \in Seq(FileEvents) /\ Len(k) \in Nat /\ n \in Nat
    BY KeptTypes
  <2>1. /\ Cardinality(Taken(d)) = n + Len(k) /\ Follows(d, k, n) /\ Cardinality(Taken(d)) \in Nat
        /\ Cardinality(Taken(d)') = Cardinality(Taken(d)) + IF d = Ctid(p) THEN 1 ELSE 0
        /\ Kept(d)' = k
    BY <2>a, TakenFinite, TakesNext DEF Complete
  <2>2. CASE d = Ctid(p)
    <3>1. k = <<>> /\ got'[d] = n + 1 /\ Len(k) = 0
      BY <2>2, <2>a DEF ListTypes
    <3>2. Follows(d, Kept(d), got[d])'
      BY <2>1, <3>1 DEF Follows
    <3>3. Cardinality(Taken(d)') = n + 1 /\ Len(Kept(d)') = 0
      BY <2>1, <2>2, <2>a, <3>1
    <3> QED
      BY <2>a, <3>1, <3>2, <3>3
  <2>3. CASE d # Ctid(p)
    <3>1. got'[d] = n
      BY <2>3, <2>a DEF ListTypes
    <3>2. Follows(d, k, n)'
      BY <2>1, FollowsSame
    <3>3. Follows(d, Kept(d), got[d])'
      BY <2>1, <3>1, <3>2 DEF Follows
    <3> QED
      BY <2>1, <2>3, <3>1, <3>3
  <2> QED
    BY <2>2, <2>3
<1>2. Nth(p) = got[Ctid(p)] + 1
  <2>1. Cardinality(Taken(Ctid(p))) = got[Ctid(p)] + Len(Kept(Ctid(p)))
    BY TakesNext DEF Complete
  <2>2. Len(Kept(Ctid(p))) = 0 /\ got[Ctid(p)] \in Nat
    BY TakesNext, KeptTypes
  <2> QED
    BY <2>1, <2>2, TakesNext
<1> QED
  BY <1>1, <1>2 DEF Complete

\* ... or the first one that is kept is returned; ...
LEMMA TakesKeptComplete ==
  ASSUME ProgramTypes, ListTypes, Complete, UNCHANGED program, NEW c \in Context,
         Kept(c) # <<>>, got' = [got EXCEPT ![c] = @ + 1],
         \A d \in Context : Taken(d)' = Taken(d),
         \A d \in Context : Kept(d)' = IF d = c THEN Tail(Kept(d)) ELSE Kept(d)
  PROVE  /\ Complete'
         /\ \E p \in PlacesOf(c) : Head(Kept(c)) = EventAt(p) /\ Nth(p) = got[c] + 1
<1>1. ASSUME NEW d \in Context
      PROVE  /\ Cardinality(Taken(d))' = got'[d] + Len(Kept(d)')
             /\ Follows(d, Kept(d), got[d])'
  <2>a. PICK k, n : k = Kept(d) /\ n = got[d] /\ k \in Seq(FileEvents) /\ Len(k) \in Nat /\ n \in Nat
    BY KeptTypes
  <2>1. /\ Cardinality(Taken(d)) = n + Len(k) /\ Follows(d, k, n) /\ Cardinality(Taken(d)) \in Nat
        /\ Taken(d)' = Taken(d)
    BY <2>a, TakenFinite DEF Complete
  <2>2. CASE d = c
    <3>1. k # <<>> /\ got'[d] = n + 1 /\ Kept(d)' = Tail(k)
      BY <2>2, <2>a DEF ListTypes
    <3>2. /\ Len(Tail(k)) = Len(k) - 1 /\ Len(Tail(k)) \in Nat
          /\ \A i \in 1 .. Len(Tail(k)) : Tail(k)[i] = k[i + 1] /\ i + 1 \in 1 .. Len(k)
      BY <2>a, <3>1
    <3>3. Follows(d, Tail(k), n + 1)
      <4> SUFFICES ASSUME NEW i \in 1 .. Len(Tail(k))
                   PROVE  \E p \in PlacesOf(d) : Tail(k)[i] = EventAt(p) /\ Nth(p) = (n + 1) + i
        BY DEF Follows
      <4>1. PICK p \in PlacesOf(d) : k[i + 1] = EventAt(p) /\ Nth(p) = n + (i + 1)
        BY <2>1, <3>2 DEF Follows
      <4>2. n + (i + 1) = (n + 1) + i
        BY <2>a, <3>2
      <4> QED
        BY <3>2, <4>1, <4>2
    <3>4. Follows(d, Tail(k), n + 1)'
      BY <3>3, FollowsSame
    <3>5. Follows(d, Kept(d), got[d])'
      BY <3>1, <3>4 DEF Follows
    <3>6. Cardinality(Taken(d)') = (n + 1) + (Len(k) - 1)
      <4>1. Cardinality(Taken(d)') = n + Len(k)
        BY <2>1
      <4>2. \A x, y \in Nat : x + y = (x + 1) + (y - 1)
        OBVIOUS
      <4> QED
        BY <2>a, <4>1, <4>2
    <3> QED
      BY <3>1, <3>2, <3>5, <3>6
  <2>3. CASE d # c
    <3>1. got'[d] = n /\ Kept(d)' = k
      BY <2>3, <2>a DEF ListTypes
    <3>2. Follows(d, k, n)'
      BY <2>1, FollowsSame
    <3>3. Follows(d, Kept(d), got[d])'
      BY <3>1, <3>2 DEF Follows
    <3> QED
      BY <2>1, <3>1, <3>3
  <2> QED
    BY <2>2, <2>3
<1>2. \E p \in PlacesOf(c) : Head(Kept(c)) = EventAt(p) /\ Nth(p) = got[c] + 1
  <2>1. 1 \in 1 .. Len(Kept(c)) /\ Head(Kept(c)) = Kept(c)[1]
    BY KeptTypes
  <2> QED
    BY <2>1 DEF Complete, Follows
<1> QED
  BY <1>1, <1>2 DEF Complete

\* ... or nothing moves.
LEMMA StaysComplete ==
  ASSUME ProgramTypes, Complete, UNCHANGED program, got' = got,
         \A d \in Context : Taken(d)' = Taken(d) /\ Kept(d)' = Kept(d)
  PROVE  Complete'
<1> SUFFICES ASSUME NEW d \in Context
             PROVE  /\ Cardinality(Taken(d))' = got'[d] + Len(Kept(d)')
                    /\ Follows(d, Kept(d), got[d])'
  BY DEF Complete
<1>1. PICK k, n : k = Kept(d) /\ n = got[d] /\ k = Kept(d)' /\ n = got'[d]
  OBVIOUS
<1>2. Cardinality(Taken(d)) = n + Len(k) /\ Follows(d, k, n)
  BY <1>1 DEF Complete
<1>3. Follows(d, k, n)'
  BY <1>2, FollowsSame
<1>4. Follows(d, Kept(d), got[d])'
  BY <1>1, <1>3 DEF Follows
<1> QED
  BY <1>1, <1>2, <1>4

-----------------------------------------------------------------------------
(***************************************************************************)
(* Creates, and numbers.                                                   *)
(***************************************************************************)

LEMMA CreatedStays ==
  ASSUME ProgramTypes, UNCHANGED program, NEW c, Created(c),
         \A d \in Context : Dealt(d) \in Int /\ Dealt(d)' \in Int /\ Dealt(d) <= Dealt(d)'
  PROVE  Created(c)'
<1>1. PICK p \in Place : /\ EventAt(p).kind = "create" /\ EventAt(p).other = c
                         /\ Nth(p) <= Dealt(Ctid(p))
  BY DEF Created
<1>2. p \in PlacesOf(Ctid(p)) /\ Ctid(p) \in Context
  BY PlaceFacts
<1>3. Nth(p) \in Nat
  BY <1>2, NthFacts
<1>4. PICK d \in Context : d = Ctid(p)
  BY <1>2
<1>5. Nth(p) <= Dealt(d)'
  BY <1>1, <1>3, <1>4
<1>6. p \in Place' /\ EventAt(p)' = EventAt(p) /\ Nth(p)' = Nth(p) /\ Ctid(p)' = d
  BY <1>4, SameTrace
<1>7. Nth(p)' <= Dealt(Ctid(p))'
  BY <1>5, <1>6 DEF Dealt
<1> QED
  BY <1>1, <1>6, <1>7 DEF Created

\* A step that returns nothing.
LEMMA QuietKeeps ==
  ASSUME ProgramTypes, CreatedFirst, Ahead, ListTypes, UNCHANGED program, got' = got,
         pc # "main", pc' # "main",
         list'.ticketNum = list.ticketNum, list'.barrierNum = list.barrierNum,
         \A c \in Context \ {0} : Allowed(c)' => Allowed(c) \/ Created(c)
  PROVE  CreatedFirst' /\ Ahead' /\ ProgramOrder' /\ GlobalOrder'
<1>1. \A d \in Context : Dealt(d) \in Int /\ Dealt(d)' \in Int /\ Dealt(d) <= Dealt(d)'
  BY DEF Dealt, ListTypes
<1>2. ASSUME NEW c \in Context \ {0}, Allowed(c)' \/ Started(c)'
      PROVE  Created(c)'
  <2>1. Started(c)' => Started(c)
    BY SameTrace DEF Started
  <2>2. Created(c)
    BY <1>2, <2>1 DEF CreatedFirst
  <2> QED
    BY <1>1, <2>2, CreatedStays
<1>3. Ahead'
  BY SameTrace DEF Ahead
<1> QED
  BY <1>2, <1>3 DEF CreatedFirst, ProgramOrder, GlobalOrder

\* The event at p is returned, the next one of its context.
LEMMA ReturnKeeps ==
  ASSUME ProgramTypes, Recorded, CreatedFirst, Ahead, ListTypes, UNCHANGED program,
         NEW c \in Context, NEW p \in PlacesOf(c), NEW e, e = EventAt(p), Nth(p) = got[c] + 1,
         event' = e, got' = [got EXCEPT ![c] = @ + 1],
         pc # "main", pc' \in {"main", "aborted"},
         list'.ticketNum = list.ticketNum + IF e.kind = "sync" THEN 1 ELSE 0,
         list'.barrierNum = list.barrierNum + IF e.kind \in {"enter", "leave"} THEN 1 ELSE 0,
         e.kind = "sync" => e.num <= list.ticketNum,
         e.kind \in {"enter", "leave"} => e.num <= list.barrierNum,
         e.kind = "start" => Allowed(c),
         \A d \in Context \ {0} : Allowed(d)' => Allowed(d)
  PROVE  CreatedFirst' /\ Ahead' /\ ProgramOrder' /\ GlobalOrder'
<1>1. /\ p \in Place /\ Ctid(p) = c /\ e.ctid = c
      /\ e.kind \in {"sync", "enter", "leave"} => e.num \in Nat
      /\ e.kind = "start" => e.other \in Context
      /\ Nth(p) \in Nat /\ got[c] \in Nat /\ got'[c] = got[c] + 1
      /\ \A d \in Context : got[d] \in Nat /\ got'[d] \in Nat /\ (d # c => got'[d] = got[d])
      /\ list.ticketNum \in Nat /\ list.barrierNum \in Nat
  <2>1. p \in Place /\ Ctid(p) = c /\ Nth(p) \in Nat
    BY PlaceFacts, NthFacts
  <2>2. /\ e.ctid = c
        /\ e.kind \in {"sync", "enter", "leave"} => e.num \in Nat
        /\ e.kind = "start" => e.other \in Context
    BY <2>1, EventFacts
  <2> QED
    BY <2>1, <2>2 DEF ListTypes
<1>2. \A d \in Context : Dealt(d) \in Int /\ Dealt(d)' \in Int /\ Dealt(d) <= Dealt(d)'
  BY <1>1 DEF Dealt
<1>3. e.kind = "start" => c # 0 /\ Created(c)
  <2>1. ASSUME e.kind = "start" PROVE c # 0
    <3>1. p[2] # 0
      BY <1>1, <2>1, EventFacts
    <3>2. At(<<"file", p[1], p[2]>>).kind = "start" /\ <<"file", p[1], p[2]>> \in Spot
          /\ Owner(<<"file", p[1], p[2]>>) = c
      BY <1>1, <2>1, <3>1, EventFacts
    <3> QED
      BY <3>2 DEF Recorded, Starts
  <2> QED
    BY <2>1 DEF CreatedFirst
<1>4. CreatedFirst'
  <2> SUFFICES ASSUME NEW d \in Context \ {0}, Allowed(d)' \/ Started(d)' PROVE Created(d)'
    BY DEF CreatedFirst
  <2>1. ASSUME Started(d)', ~Started(d) PROVE Created(d)
    <3>1. PICK q \in PlacesOf(d) : EventAt(q).kind = "start" /\ Nth(q) <= got'[d]
      BY <2>1, SameTrace DEF Started
    <3>2. ~(Nth(q) <= got[d]) /\ Nth(q) \in Nat
      BY <2>1, <3>1, NthFacts DEF Started
    <3>3. d = c /\ Nth(q) = Nth(p)
      BY <1>1, <3>1, <3>2
    <3>4. q = p
      BY <3>3, NthDiffers
    <3> QED
      BY <1>3, <3>1, <3>3, <3>4
  <2>2. Created(d)
    BY <2>1 DEF CreatedFirst
  <2> QED
    BY <1>2, <2>2, CreatedStays
<1>5. Ahead'
  <2> SUFFICES ASSUME NEW q \in Place, Nth(q) > got'[Ctid(q)]
               PROVE  /\ EventAt(q).kind = "sync" => EventAt(q).num >= list'.ticketNum
                      /\ EventAt(q).kind \in {"enter", "leave"} => EventAt(q).num >= list'.barrierNum
    BY SameTrace DEF Ahead
  <2>1. q \in PlacesOf(Ctid(q)) /\ Ctid(q) \in Context /\ Nth(q) \in Nat
    BY PlaceFacts, NthFacts
  <2>2. q # p /\ Nth(q) > got[Ctid(q)]
    BY <1>1, <2>1
  <2>3. /\ EventAt(q).kind = "sync" => EventAt(q).num >= list.ticketNum
        /\ EventAt(q).kind \in {"enter", "leave"} => EventAt(q).num >= list.barrierNum
        /\ e.kind = "sync" => e.num = list.ticketNum
        /\ e.kind \in {"enter", "leave"} => e.num = list.barrierNum
    BY <1>1, <2>2 DEF Ahead
  <2>4. /\ EventAt(q).kind = "sync" /\ e.kind = "sync" => EventAt(q).num # e.num
        /\ EventAt(q).kind \in {"enter", "leave"} /\ e.kind \in {"enter", "leave"}
              => EventAt(q).num # e.num
    BY <1>1, <2>2, OnePlace DEF SameKey
  <2>5. EventAt(q).kind \in {"sync", "enter", "leave"} => EventAt(q).num \in Nat
    BY EventFacts
  <2> QED
    BY <1>1, <2>3, <2>4, <2>5
<1>6. ProgramOrder'
  <2>1. p \in PlacesOf(c)' /\ event' = EventAt(p)' /\ Nth(p)' = got'[c] /\ event'.ctid = c
    BY <1>1, SameTrace
  <2>2. PlacesOf(event.ctid)' = PlacesOf(c)'
    BY <2>1 DEF PlacesOf, BuffersOf
  <2> QED
    BY <2>1, <2>2 DEF ProgramOrder
<1>7. GlobalOrder'
  <2>1. event'.kind = "sync" => event'.num = list'.ticketNum - 1
    BY <1>1 DEF Ahead
  <2>2. event'.kind \in {"enter", "leave"} => event'.num = list'.barrierNum - 1
    BY <1>1 DEF Ahead
  <2>3. ASSUME e.kind = "start"
        PROVE  \E x \in Returned(e.other)' : x.kind = "create" /\ x.other = c
    <3>1. PICK q \in Place : /\ EventAt(q).kind = "create" /\ EventAt(q).other = c
                             /\ Nth(q) <= Dealt(Ctid(q))
      BY <1>3, <2>3 DEF Created
    <3>2. Ctid(q) = e.other
      BY <1>1, <2>3, <3>1, StartNamesCreator
    <3>3. q \in PlacesOf(e.other) /\ e.other \in Context /\ Nth(q) \in Nat
      BY <3>2, PlaceFacts, NthFacts
    <3>4. Nth(q) <= got'[e.other]
      BY <1>1, <3>1, <3>2, <3>3 DEF Dealt
    <3>5. EventAt(q)' \in Returned(e.other)'
      BY <3>3, <3>4, SameTrace DEF Returned
    <3> QED
      BY <3>1, <3>5, SameTrace
  <2>4. e.kind = "start" => \E x \in Returned(event.other)' : x.kind = "create" /\ x.other = event'.ctid
    <3>1. Returned(event.other)' = Returned(e.other)'
      BY DEF Returned, PlacesOf, BuffersOf
    <3> QED
      BY <1>1, <2>3, <3>1
  <2> QED
    BY <2>1, <2>2, <2>4 DEF GlobalOrder
<1> QED
  BY <1>4, <1>5, <1>6, <1>7

\* The create that is about to be taken is the first of its thread.
LEMMA NewCreate ==
  ASSUME ProgramTypes, Recorded, CreatedFirst, ListTypes, ProgramOrder, pc = "main",
         event.kind = "create"
  PROVE  event.other \in Context \ {0} /\ ~Allowed(event.other)
<1>1. PICK p \in PlacesOf(event.ctid) : event = EventAt(p) /\ Nth(p) = got[event.ctid]
  BY DEF ProgramOrder
<1>2. p \in Place /\ Ctid(p) = event.ctid /\ event.other \in Context /\ event.ctid \in Context
  <2>1. p \in Place /\ Ctid(p) = event.ctid /\ event.ctid \in Context
    BY <1>1, PlaceFacts
  <2> QED
    BY <1>1, <2>1, EventFacts
<1>3. event.other # 0
  <2>1. p[2] # 0
    BY <1>1, <1>2, EventFacts
  <2> DEFINE s == <<"file", p[1], p[2]>>
  <2>2. s \in Spot /\ At(s).kind = "create" /\ At(s).other = event.other
    BY <1>1, <1>2, <2>1, EventFacts
  <2> HIDE DEF s
  <2> QED
    BY <2>2 DEF Recorded, AllDrawn, Drawn
<1>4. ~Created(event.other)
  <2> SUFFICES ASSUME NEW q \in Place, EventAt(q).kind = "create",
                      EventAt(q).other = event.other, Nth(q) <= Dealt(Ctid(q))
               PROVE  FALSE
    BY DEF Created
  <2>1. q = p
    BY <1>1, <1>2, OnePlace DEF SameKey
  <2>2. Dealt(Ctid(q)) = got[event.ctid] - 1 /\ got[event.ctid] \in Nat
    BY <1>2, <2>1 DEF Dealt, ListTypes
  <2> QED
    BY <1>1, <2>1, <2>2
<1> QED
  BY <1>2, <1>3, <1>4 DEF CreatedFirst

\* The middle layer takes the event.
LEMMA TakeKeeps ==
  ASSUME ProgramTypes, Recorded, CreatedFirst, Ahead, ListTypes, ProgramOrder,
         UNCHANGED program, got' = got, pc = "main", pc' = "scan",
         list'.ticketNum = list.ticketNum, list'.barrierNum = list.barrierNum,
         \A d \in Context \ {0} :
             Allowed(d)' => Allowed(d) \/ (event.kind = "create" /\ d = event.other)
  PROVE  CreatedFirst' /\ Ahead' /\ ProgramOrder' /\ GlobalOrder'
<1>1. \A d \in Context : Dealt(d) \in Int /\ Dealt(d)' \in Int /\ Dealt(d) <= Dealt(d)'
  BY DEF Dealt, ListTypes
<1>2. ASSUME NEW c \in Context \ {0}, Allowed(c)' \/ Started(c)'
      PROVE  Created(c)'
  <2>1. Started(c)' => Started(c)
    BY SameTrace DEF Started
  <2>2. CASE Allowed(c) \/ Started(c)
    <3>1. Created(c)
      BY <2>2 DEF CreatedFirst
    <3> QED
      BY <1>1, <3>1, CreatedStays
  <2>3. CASE event.kind = "create" /\ c = event.other
    <3>1. PICK p \in PlacesOf(event.ctid) : event = EventAt(p) /\ Nth(p) = got[event.ctid]
      BY DEF ProgramOrder
    <3>2. p \in Place /\ Ctid(p) = event.ctid /\ event.ctid \in Context
      BY <3>1, PlaceFacts
    <3>3. PICK d \in Context : d = Ctid(p)
      BY <3>2
    <3>4. Dealt(d)' = got[d] /\ Nth(p) = got[d] /\ got[d] \in Nat
      BY <3>1, <3>2, <3>3 DEF Dealt, ListTypes
    <3>5. /\ p \in Place' /\ EventAt(p)' = event /\ Nth(p)' = got[d] /\ Ctid(p)' = d
      BY <3>1, <3>2, <3>3, SameTrace
    <3>6. Dealt(Ctid(p))' = got[d]
      BY <3>4, <3>5 DEF Dealt
    <3> QED
      BY <2>3, <3>4, <3>5, <3>6 DEF Created
  <2> QED
    BY <1>2, <2>1, <2>2, <2>3
<1>3. Ahead'
  BY SameTrace DEF Ahead
<1> QED
  BY <1>2, <1>3 DEF CreatedFirst, ProgramOrder, GlobalOrder

-----------------------------------------------------------------------------
(***************************************************************************)
(* The queues.                                                             *)
(***************************************************************************)

LEMMA PutFacts ==
  ASSUME NEW q, NEW c, NEW s
  PROVE  /\ DOMAIN Put(q, c, s) = DOMAIN q \cup {c} /\ Put(q, c, s)[c] = s
         /\ \A d \in DOMAIN q : d # c => Put(q, c, s)[d] = q[d]
         /\ IsQueues(q) /\ c \in Context /\ s \in Seq(FileEvents) => IsQueues(Put(q, c, s))
BY DEF Put, IsQueues

LEMMA WithoutFacts ==
  ASSUME NEW q, NEW c
  PROVE  /\ DOMAIN Without(q, c) = DOMAIN q \ {c}
         /\ \A d \in DOMAIN Without(q, c) : Without(q, c)[d] = q[d]
         /\ IsQueues(q) => IsQueues(Without(q, c))
BY DEF Without, IsQueues

LEMMA BeginFacts ==
  ASSUME NEW q, DOMAIN q \in SUBSET Nat
  PROVE  IF DOMAIN q = {} THEN Begin(q) = None ELSE Begin(q) \in DOMAIN q
BY LeastNumber DEF Begin

LEMMA AfterFacts ==
  ASSUME NEW q, DOMAIN q \in SUBSET Nat, NEW c \in Nat
  PROVE  After(q, c) = None \/ (After(q, c) \in DOMAIN q /\ After(q, c) # c)
<1> DEFINE r == [d \in {d \in DOMAIN q : d > c} |-> q[d]]
<1>1. After(q, c) = Begin(r) /\ DOMAIN r = {d \in DOMAIN q : d > c}
  BY DEF After
<1> HIDE DEF r
<1>2. DOMAIN r \in SUBSET Nat
  BY <1>1
<1>3. Begin(r) = None \/ Begin(r) \in DOMAIN r
  BY <1>2, BeginFacts
<1> QED
  BY <1>1, <1>3

LEMMA QueuesSame ==
  ASSUME UNCHANGED program, NEW q
  PROVE  IsQueues(q)' <=> IsQueues(q)
BY SameTrace DEF IsQueues

\* What every step of the middle layer keeps.
MiddleInv ==
    /\ ProgramTypes /\ ListTypes /\ Recorded /\ pc \in Steps /\ Scanned
    /\ ProgramOrder /\ GlobalOrder

\* A step that moves no event.
LEMMA StillKeeps ==
  ASSUME MiddleInv, UNCHANGED program, got' = got, pc # "main", pc' \in Steps \ {"main"},
         ListTypes', Reading', \A d \in Context : Taken(d)' = Taken(d),
         list'.ticketNum = list.ticketNum, list'.barrierNum = list.barrierNum,
         list'.waitingEvents = list.waitingEvents,
         DOMAIN list'.queuedEvents \subseteq DOMAIN list.queuedEvents,
         \A d \in DOMAIN list'.queuedEvents : list'.queuedEvents[d] = list.queuedEvents[d],
         \A d \in DOMAIN list.queuedEvents \ DOMAIN list'.queuedEvents : list.queuedEvents[d] = <<>>
  PROVE  MiddleInv'
<1> USE DEF MiddleInv
<1>1. ProgramTypes' /\ Recorded' /\ buffer' = buffer
  BY SameTrace
<1>2. ASSUME NEW d \in Context PROVE Kept(d)' = Kept(d)
  <2>1. CASE d \in DOMAIN list'.queuedEvents
    BY <2>1 DEF Kept
  <2>2. CASE d \in DOMAIN list.queuedEvents \ DOMAIN list'.queuedEvents
    <3>1. Kept(d) = <<>>
      BY <2>2 DEF Kept
    <3>2. ~Waiting(d)
      BY <2>2 DEF Scanned, Apart
    <3> QED
      BY <2>2, <3>1, <3>2 DEF Kept, Waiting
  <2>3. CASE d \notin DOMAIN list.queuedEvents
    BY <2>3 DEF Kept
  <2> QED
    BY <2>1, <2>2, <2>3
<1>3. Complete'
  BY <1>2, StaysComplete DEF Scanned
<1>4. Apart'
  BY DEF Scanned, Apart, Waiting
<1>5. \A d \in Context \ {0} : Allowed(d)' => Allowed(d)
  BY DEF Allowed
<1>6. CreatedFirst' /\ Ahead' /\ ProgramOrder' /\ GlobalOrder'
  BY <1>5, QuietKeeps DEF Scanned
<1> QED
  BY <1>1, <1>3, <1>4, <1>6 DEF Scanned

-----------------------------------------------------------------------------
(***************************************************************************)
(* The steps of the middle layer.                                          *)
(***************************************************************************)

\* A read event goes to a queue; ...
LEMMA AppendKeeps ==
  ASSUME MiddleInv, UNCHANGED program, NEW p, Takes(p), Reading', pc = "read", pc' = pc, got' = got,
         NEW which \in {"queuedEvents", "waitingEvents"},
         Ctid(p) \in DOMAIN list[which],
         which = "waitingEvents" => Ctid(p) \notin DOMAIN list.queuedEvents /\ Waiting(Ctid(p)),
         list' = [list EXCEPT ![which] = [list[which] EXCEPT ![Ctid(p)] = Append(@, EventAt(p))]]
  PROVE  MiddleInv'
<1> USE DEF MiddleInv
<1>a. PICK c \in Context : c = Ctid(p)
  BY TakesNext
<1>b. PICK e : e = EventAt(p) /\ e \in FileEvents
  BY DEF Takes, FileEvents
<1>c. PICK q : q = list[which]
  OBVIOUS
<1>d. PICK r : r = [q EXCEPT ![c] = Append(@, e)]
  OBVIOUS
<1>1. ProgramTypes' /\ Recorded' /\ buffer' = buffer
  BY SameTrace
<1>2. /\ DOMAIN list' = ListFields
      /\ list'[which] = r
      /\ \A f \in ListFields : f # which => list'[f] = list[f]
  <2>1. list' = [list EXCEPT ![which] = r]
    BY <1>a, <1>b, <1>c, <1>d
  <2>2. DOMAIN list = ListFields /\ which \in ListFields
    BY DEF ListTypes, ListFields
  <2> QED
    BY <2>1, <2>2
<1>3. DOMAIN r = DOMAIN q /\ r[c] = Append(q[c], e) /\ \A d \in DOMAIN q : d # c => r[d] = q[d]
  BY <1>a, <1>c, <1>d
<1>4. q[c] \in Seq(FileEvents) /\ IsQueues(r)
  <2>1. IsQueues(q) /\ c \in DOMAIN q
    BY <1>a, <1>c DEF ListTypes
  <2>2. q[c] \in Seq(FileEvents)
    BY <2>1 DEF IsQueues
  <2>3. r[c] \in Seq(FileEvents)
    BY <1>3, <1>b, <2>2
  <2> QED
    BY <1>3, <2>1, <2>2, <2>3 DEF IsQueues
<1>5. ListTypes'
  <2>1. /\ IsQueues(list'.queuedEvents) /\ IsQueues(list'.waitingEvents)
        /\ DOMAIN list'.queuedEvents = DOMAIN list.queuedEvents
    BY <1>2, <1>3, <1>4, <1>c DEF ListTypes, ListFields
  <2>2. IsQueues(list.queuedEvents)' /\ IsQueues(list.waitingEvents)'
    BY <2>1, SameTrace DEF IsQueues
  <2> QED
    BY <1>2, <2>1, <2>2 DEF ListTypes, ListFields
<1>6. ASSUME NEW d \in Context
      PROVE  Kept(d)' = IF d = c THEN Append(Kept(d), e) ELSE Kept(d)
  <2>1. CASE which = "queuedEvents"
    BY <1>2, <1>3, <1>a, <1>c, <2>1 DEF Kept, ListFields
  <2>2. CASE which = "waitingEvents"
    BY <1>2, <1>3, <1>a, <1>c, <2>2 DEF Kept, ListFields
  <2> QED
    BY <2>1, <2>2
<1>7. Complete'
  BY <1>6, <1>a, <1>b, KeepsComplete DEF Scanned
<1>8. Apart'
  <2>1. CASE which = "queuedEvents"
    BY <1>2, <1>3, <1>c, <2>1 DEF Scanned, Apart, Waiting, ListFields
  <2>2. CASE which = "waitingEvents"
    BY <1>2, <1>3, <1>a, <1>c, <2>2 DEF Scanned, Apart, Waiting, ListFields
  <2> QED
    BY <2>1, <2>2
<1>9. \A d \in Context \ {0} : Allowed(d)' => Allowed(d)
  <2>0. Append(q[c], e) # <<>>
    BY <1>4
  <2>1. CASE which = "queuedEvents"
    BY <1>2, <1>3, <1>c, <2>1 DEF Allowed, ListFields
  <2>2. CASE which = "waitingEvents"
    BY <1>2, <1>3, <1>c, <2>0, <2>2 DEF Allowed, ListFields
  <2> QED
    BY <2>1, <2>2
<1>10. CreatedFirst' /\ Ahead' /\ ProgramOrder' /\ GlobalOrder'
  BY <1>2, <1>9, QuietKeeps DEF Scanned, ListFields
<1> QED
  BY <1>1, <1>5, <1>7, <1>8, <1>10 DEF Scanned, Steps

LEMMA OneEvent ==
  ASSUME NEW S, NEW x \in S
  PROVE  <<x>> \in Seq(S)
OBVIOUS

\* ... or, with nothing kept of its context, starts one; ...
LEMMA PutKeeps ==
  ASSUME MiddleInv, UNCHANGED program, NEW p, Takes(p), Reading', pc = "read", pc' = "scan", got' = got,
         NEW which \in {"queuedEvents", "waitingEvents"},
         Ctid(p) \notin DOMAIN list.queuedEvents, ~Waiting(Ctid(p)),
         which = "queuedEvents" => Ticketed(EventAt(p)),
         DOMAIN list' = DOMAIN list,
         list'[which] = Put(list[which], Ctid(p), <<EventAt(p)>>),
         which = "queuedEvents" => /\ list'.waitingEvents = list.waitingEvents
                                   /\ list'.eventQueueCurrent = Begin(list'.queuedEvents),
         which = "waitingEvents" => /\ list'.queuedEvents = list.queuedEvents
                                    /\ list'.eventQueueCurrent = list.eventQueueCurrent,
         list'.ticketNum = list.ticketNum, list'.barrierNum = list.barrierNum
  PROVE  MiddleInv'
<1> USE DEF MiddleInv
<1>a. PICK c \in Context : c = Ctid(p)
  BY TakesNext
<1>b. PICK e : e = EventAt(p) /\ e \in FileEvents
  BY DEF Takes, FileEvents
<1>c. PICK q : q = list[which]
  OBVIOUS
<1>d. PICK r : r = Put(q, c, <<e>>)
  OBVIOUS
<1>1. ProgramTypes' /\ Recorded' /\ buffer' = buffer
  BY SameTrace
<1>2. DOMAIN r = DOMAIN q \cup {c} /\ r[c] = <<e>> /\ \A d \in DOMAIN q : d # c => r[d] = q[d]
  BY <1>d DEF Put
<1>3. IsQueues(q) /\ IsQueues(r) /\ list'[which] = r
  <2>1. IsQueues(q)
    BY <1>c DEF ListTypes
  <2>2. PICK s : s = <<e>> /\ s \in Seq(FileEvents)
    BY <1>b, OneEvent
  <2>3. IsQueues(r)
    BY <1>d, <2>1, <2>2, PutFacts
  <2>4. list'[which] = r
    BY <1>a, <1>b, <1>c, <1>d
  <2> QED
    BY <2>1, <2>3, <2>4
<1>4. ListTypes'
  <2>1. IsQueues(list'.queuedEvents) /\ IsQueues(list'.waitingEvents)
    BY <1>3 DEF ListTypes
  <2>2. DOMAIN list'.queuedEvents \in SUBSET Nat
    BY <2>1, EventQueueAssumption DEF IsQueues
  <2>3. DOMAIN list'.queuedEvents # {} => list'.eventQueueCurrent \in DOMAIN list'.queuedEvents
    BY <2>2, BeginFacts DEF ListTypes
  <2>4. IsQueues(list.queuedEvents)' /\ IsQueues(list.waitingEvents)'
    BY <2>1, SameTrace DEF IsQueues
  <2> QED
    BY <2>3, <2>4 DEF ListTypes
<1>5. Kept(c) = <<>>
  BY <1>a DEF Kept, Waiting
<1>6. ASSUME NEW d \in Context
      PROVE  Kept(d)' = IF d = c THEN Append(Kept(d), e) ELSE Kept(d)
  <2>0. Append(Kept(c), e) = <<e>>
    BY <1>5
  <2>1. CASE which = "queuedEvents"
    BY <1>2, <1>3, <1>c, <2>0, <2>1 DEF Kept
  <2>2. CASE which = "waitingEvents"
    BY <1>2, <1>3, <1>a, <1>c, <2>0, <2>2 DEF Kept
  <2> QED
    BY <2>1, <2>2
<1>7. Complete'
  BY <1>6, <1>a, <1>b, KeepsComplete DEF Scanned
<1>8. Apart'
  <2>1. CASE which = "queuedEvents"
    BY <1>2, <1>3, <1>a, <1>c, <2>1 DEF Scanned, Apart, Waiting
  <2>2. CASE which = "waitingEvents"
    BY <1>2, <1>3, <1>a, <1>c, <2>2 DEF Scanned, Apart, Waiting
  <2> QED
    BY <2>1, <2>2
<1>9. ASSUME NEW d \in Context \ {0}, Allowed(d)'
      PROVE  Allowed(d) \/ Created(d)
  <2>1. CASE which = "waitingEvents"
    <3>1. <<e>> # <<>>
      OBVIOUS
    <3> QED
      BY <1>2, <1>3, <1>9, <1>c, <2>1, <3>1 DEF Allowed
  <2>2. CASE which = "queuedEvents" /\ d # c
    BY <1>2, <1>3, <1>9, <1>c, <2>2 DEF Allowed
  <2>3. CASE which = "queuedEvents" /\ d = c
    <3>1. p \in Place /\ p[2] # 0 /\ Ctid(p) # 0 /\ e.kind # "start"
      BY <1>a, <1>b, <2>3, EventFacts DEF Takes, Ticketed
    <3>2. PICK s \in PlacesOf(c) : EventAt(s).kind = "start" /\ (s = p \/ Nth(s) < Nth(p))
      BY <1>a, <3>1, StartPlace DEF Scanned
    <3>3. Nth(p) = got[c] + 1 /\ Nth(s) < Nth(p) /\ Nth(s) \in Nat /\ got[c] \in Nat
      <4>1. Nth(p) = Cardinality(Taken(c)) + 1 /\ Cardinality(Taken(c)) = got[c] + Len(Kept(c))
        BY <1>a, TakesNext DEF Scanned, Complete
      <4>2. Len(Kept(c)) = 0 /\ got[c] \in Nat
        BY <1>5 DEF ListTypes
      <4> QED
        BY <1>b, <3>1, <3>2, <4>1, <4>2, NthFacts
    <3>4. Started(c)
      BY <3>2, <3>3 DEF Started
    <3> QED
      BY <2>3, <3>4 DEF Scanned, CreatedFirst
  <2> QED
    BY <2>1, <2>2, <2>3
<1>10. CreatedFirst' /\ Ahead' /\ ProgramOrder' /\ GlobalOrder'
  BY <1>9, QuietKeeps DEF Scanned
<1> QED
  BY <1>1, <1>4, <1>7, <1>8, <1>10 DEF Scanned, Steps

\* ... or it is returned.
LEMMA ReadReturnKeeps ==
  ASSUME MiddleInv, UNCHANGED program, NEW p, Takes(p), Reading', pc = "read",
         Ctid(p) \notin DOMAIN list.queuedEvents, ~Waiting(Ctid(p)),
         Return(EventAt(p)),
         DOMAIN list' = DOMAIN list, list'.queuedEvents = list.queuedEvents,
         list'.eventQueueCurrent = list.eventQueueCurrent,
         list'.waitingEvents = list.waitingEvents
            \/ list'.waitingEvents = Without(list.waitingEvents, Ctid(p)),
         list'.ticketNum = list.ticketNum + IF EventAt(p).kind = "sync" THEN 1 ELSE 0,
         list'.barrierNum = list.barrierNum
                            + IF EventAt(p).kind \in {"enter", "leave"} THEN 1 ELSE 0,
         EventAt(p).kind = "sync" => EventAt(p).num <= list.ticketNum,
         EventAt(p).kind \in {"enter", "leave"} => EventAt(p).num <= list.barrierNum,
         EventAt(p).kind = "start" => Allowed(Ctid(p))
  PROVE  MiddleInv'
<1> USE DEF MiddleInv
<1>a. PICK c \in Context : c = Ctid(p)
  BY TakesNext
<1>b. PICK e : e = EventAt(p) /\ e.ctid = c /\ p \in PlacesOf(c)
  BY <1>a, EventFacts, TakesNext DEF Takes
<1>c. /\ event' = e /\ pc' \in {"main", "aborted"} /\ got' = [got EXCEPT ![c] = @ + 1]
  BY <1>b DEF Return
<1>1. ProgramTypes' /\ Recorded' /\ buffer' = buffer
  BY SameTrace
<1>2. /\ IsQueues(list.waitingEvents) /\ IsQueues(list'.waitingEvents)
      /\ DOMAIN list'.waitingEvents \subseteq DOMAIN list.waitingEvents
      /\ \A d \in DOMAIN list.waitingEvents : d # c => d \in DOMAIN list'.waitingEvents
      /\ \A d \in DOMAIN list'.waitingEvents : list'.waitingEvents[d] = list.waitingEvents[d]
  <2>1. PICK w : w = list.waitingEvents /\ IsQueues(w)
    BY DEF ListTypes
  <2>2. CASE list'.waitingEvents = w
    BY <2>1, <2>2
  <2>3. CASE list'.waitingEvents = Without(w, c)
    BY <2>1, <2>3 DEF Without, IsQueues
  <2> QED
    BY <1>a, <2>1, <2>2, <2>3
<1>3. ListTypes'
  <2>1. IsQueues(list.queuedEvents)' /\ IsQueues(list.waitingEvents)'
    BY <1>2, SameTrace DEF ListTypes, IsQueues
  <2>2. got' \in [Context -> Nat] /\ list'.ticketNum \in Nat /\ list'.barrierNum \in Nat
    BY <1>c DEF ListTypes
  <2> QED
    BY <2>1, <2>2 DEF ListTypes
<1>4. Kept(c) = <<>>
  BY <1>a DEF Kept, Waiting
<1>5. ASSUME NEW d \in Context PROVE Kept(d)' = Kept(d)
  <2>1. CASE d = c
    <3>1. c \in DOMAIN list.waitingEvents => list.waitingEvents[c] = <<>>
      BY <1>a DEF Waiting
    <3> QED
      BY <1>2, <1>4, <1>a, <2>1, <3>1 DEF Kept
  <2>2. CASE d # c
    BY <1>2, <2>2 DEF Kept
  <2> QED
    BY <2>1, <2>2
<1>6. Complete' /\ Nth(p) = got[c] + 1
  BY <1>4, <1>5, <1>a, <1>c, ReadsComplete DEF Scanned
<1>7. Apart'
  BY <1>2 DEF Scanned, Apart, Waiting
<1>8. \A d \in Context \ {0} : Allowed(d)' => Allowed(d)
  BY <1>2 DEF Allowed
<1>9. CreatedFirst' /\ Ahead' /\ ProgramOrder' /\ GlobalOrder'
  BY <1>6, <1>8, <1>a, <1>b, <1>c, ReturnKeeps DEF Scanned
<1> QED
  BY <1>1, <1>3, <1>6, <1>7, <1>9, <1>c DEF Scanned, Steps

LEMMA CallsAgain ==
  ASSUME DOMAIN list = ListFields, NEW e, ReadTicketed(e), ~(e.num <= Counter(e)),
         NEW q, q = Put(list.queuedEvents, e.ctid, <<e>>)
  PROVE  \E l : /\ CallAgain(e, l) /\ DOMAIN l = DOMAIN list
                /\ l.queuedEvents = q /\ l.eventQueueCurrent = Begin(q)
                /\ l.waitingEvents = list.waitingEvents
                /\ l.ticketNum = list.ticketNum /\ l.barrierNum = list.barrierNum
<1> DEFINE l == [list EXCEPT !.queuedEvents = Put(list.queuedEvents, e.ctid, <<e>>),
                             !.eventQueueCurrent = Begin(Put(list.queuedEvents, e.ctid, <<e>>)),
                             !.resetMinTicket = TRUE,
                             !.minQueuedTicket = IF e.kind = "sync" THEN 0 ELSE @]
<1>1. CallAgain(e, l)
  BY DEF ReadTicketed
<1>2. /\ DOMAIN l = DOMAIN list
      /\ l.queuedEvents = q /\ l.eventQueueCurrent = Begin(q)
      /\ l.waitingEvents = list.waitingEvents
      /\ l.ticketNum = list.ticketNum /\ l.barrierNum = list.barrierNum
  BY DEF ListFields
<1> HIDE DEF l
<1> QED
  BY <1>1, <1>2


LEMMA DispatchKeeps ==
  ASSUME MiddleInv, UNCHANGED program, NEW p, Takes(p), Reading', pc = "read",
         Dispatch(EventAt(p))
  PROVE  MiddleInv'
<1>a. PICK c \in Context : c = Ctid(p)
  BY TakesNext DEF MiddleInv
<1>b. PICK e : e = EventAt(p)
  OBVIOUS
<1>0. e.ctid = c /\ e.kind \in Kinds /\ DOMAIN list = ListFields /\ p \in Place
      /\ list.ticketNum \in Nat /\ list.barrierNum \in Nat
  BY <1>a, <1>b, EventFacts DEF Takes, MiddleInv, ListTypes
<1>1. CASE /\ c \in DOMAIN list.queuedEvents
           /\ list' = [list EXCEPT !.queuedEvents[c] = Append(@, e)]
           /\ UNCHANGED <<skipSet, pc, event, got>>
  <2>1. PICK which \in {"queuedEvents", "waitingEvents"} : which = "queuedEvents"
    OBVIOUS
  <2> QED
    BY <1>1, <1>a, <1>b, <2>1, AppendKeeps
<1>2. CASE /\ c \notin DOMAIN list.queuedEvents /\ Waiting(c)
           /\ list' = [list EXCEPT !.waitingEvents[c] = Append(@, e)]
           /\ UNCHANGED <<skipSet, pc, event, got>>
  <2>1. PICK which \in {"queuedEvents", "waitingEvents"} : which = "waitingEvents"
    OBVIOUS
  <2>2. c \in DOMAIN list[which]
    BY <1>2, <2>1 DEF Waiting
  <2> QED
    BY <1>2, <1>a, <1>b, <2>1, <2>2, AppendKeeps
<1>3. ASSUME c \notin DOMAIN list.queuedEvents, ~Waiting(c), ReadTicketed(e)
      PROVE  MiddleInv'
  <2>2. ASSUME e.num <= Counter(e), list' = Counting(list, e), Return(e)
        PROVE  MiddleInv'
    <3>0. e.kind \in {"sync", "enter", "leave"}
      BY <1>3 DEF ReadTicketed, Ticketed
    <3>1. CASE e.kind = "sync"
      <4>1. list' = [list EXCEPT !.ticketNum = @ + 1] /\ e.num <= list.ticketNum
        BY <2>2, <3>1 DEF Counting, Counter
      <4>2. /\ DOMAIN list' = DOMAIN list
            /\ list'.queuedEvents = list.queuedEvents
            /\ list'.eventQueueCurrent = list.eventQueueCurrent
            /\ list'.waitingEvents = list.waitingEvents
            /\ list'.ticketNum = list.ticketNum + 1 /\ list'.barrierNum = list.barrierNum + 0
        BY <1>0, <4>1 DEF ListFields
      <4> QED
        BY <1>3, <1>a, <1>b, <2>2, <3>1, <4>1, <4>2, ReadReturnKeeps
    <3>2. CASE e.kind # "sync"
      <4>1. list' = [list EXCEPT !.barrierNum = @ + 1] /\ e.num <= list.barrierNum
        BY <2>2, <3>2 DEF Counting, Counter
      <4>2. /\ DOMAIN list' = DOMAIN list
            /\ list'.queuedEvents = list.queuedEvents
            /\ list'.eventQueueCurrent = list.eventQueueCurrent
            /\ list'.waitingEvents = list.waitingEvents
            /\ list'.ticketNum = list.ticketNum + 0 /\ list'.barrierNum = list.barrierNum + 1
        BY <1>0, <4>1 DEF ListFields
      <4>3. e.kind # "start" /\ e.kind \in {"enter", "leave"}
        BY <3>0, <3>2
      <4> QED
        BY <1>3, <1>a, <1>b, <2>2, <3>2, <4>1, <4>2, <4>3, ReadReturnKeeps
    <3> QED
      BY <3>1, <3>2
  <2>3. CASE ~(e.num <= Counter(e))
    <3>1. PICK which \in {"queuedEvents", "waitingEvents"} : which = "queuedEvents"
      OBVIOUS
    <3>a. PICK q : q = Put(list.queuedEvents, e.ctid, <<e>>)
      OBVIOUS
    <3>b. q = Put(list.queuedEvents, c, <<e>>)
      BY <1>0, <3>a
    <3>2. /\ pc' = "scan" /\ got' = got /\ DOMAIN list' = DOMAIN list
          /\ list'.queuedEvents = q /\ list'.eventQueueCurrent = Begin(q)
          /\ list'.waitingEvents = list.waitingEvents
          /\ list'.ticketNum = list.ticketNum /\ list'.barrierNum = list.barrierNum
      <4>1. \E l : /\ CallAgain(e, l) /\ DOMAIN l = DOMAIN list
                   /\ l.queuedEvents = q /\ l.eventQueueCurrent = Begin(q)
                   /\ l.waitingEvents = list.waitingEvents
                   /\ l.ticketNum = list.ticketNum /\ l.barrierNum = list.barrierNum
        BY <1>0, <1>3, <2>3, <3>a, CallsAgain
      <4> QED
        BY <1>0, <4>1 DEF CallAgain, ListFields
    <3>3. list'[which] = Put(list[which], c, <<e>>)
      BY <3>1, <3>2, <3>b
    <3> QED
      BY <1>3, <1>a, <1>b, <3>1, <3>2, <3>3, PutKeeps DEF ReadTicketed
  <2>4. CASE e.num <= Counter(e)
    <3>1. e.num \in Nat /\ Counter(e) \in Nat
      BY <1>0, <1>3, <1>b, EventFacts DEF ReadTicketed, Ticketed, Counter, MiddleInv
    <3>2. ~(e.num > Counter(e))
      BY <2>4, <3>1
    <3>3. list' = Counting(list, e) /\ Return(e)
      BY <1>3, <3>2 DEF ReadTicketed
    <3> QED
      BY <2>2, <2>4, <3>3
  <2> QED
    BY <2>3, <2>4
<1>4. ASSUME c \notin DOMAIN list.queuedEvents, ~Waiting(c), ReadStart(e)
      PROVE  MiddleInv'
  <2>0. e.kind = "start" /\ ~Ticketed(e)
    BY <1>4 DEF ReadStart, Ticketed
  <2>1. CASE c \in DOMAIN list.waitingEvents
    <3>1. list' = [list EXCEPT !.waitingEvents = Without(@, c)] /\ Return(e)
      BY <1>0, <1>4, <2>1 DEF ReadStart
    <3>2. /\ DOMAIN list' = DOMAIN list
          /\ list'.queuedEvents = list.queuedEvents
          /\ list'.eventQueueCurrent = list.eventQueueCurrent
          /\ list'.waitingEvents = Without(list.waitingEvents, c)
          /\ list'.ticketNum = list.ticketNum + 0 /\ list'.barrierNum = list.barrierNum + 0
      BY <1>0, <3>1 DEF ListFields
    <3>3. Allowed(c)
      BY <1>4, <2>1 DEF Allowed, Waiting
    <3> QED
      BY <1>4, <1>a, <1>b, <2>0, <3>1, <3>2, <3>3, ReadReturnKeeps
  <2>2. CASE c \notin DOMAIN list.waitingEvents
    <3>1. PICK which \in {"queuedEvents", "waitingEvents"} : which = "waitingEvents"
      OBVIOUS
    <3>2. CallAgain(e, [list EXCEPT !.waitingEvents = Put(@, c, <<e>>)])
      BY <1>0, <1>4, <2>2 DEF ReadStart
    <3>3. /\ pc' = "scan" /\ got' = got /\ DOMAIN list' = DOMAIN list
          /\ list'.waitingEvents = Put(list.waitingEvents, c, <<e>>)
          /\ list'.queuedEvents = list.queuedEvents
          /\ list'.eventQueueCurrent = list.eventQueueCurrent
          /\ list'.ticketNum = list.ticketNum /\ list'.barrierNum = list.barrierNum
      BY <1>0, <3>2 DEF CallAgain, ListFields
    <3>4. list'[which] = Put(list[which], c, <<e>>)
      BY <3>1, <3>3
    <3> QED
      BY <1>4, <1>a, <1>b, <3>1, <3>3, <3>4, PutKeeps
  <2> QED
    BY <2>1, <2>2
<1>5. ASSUME c \notin DOMAIN list.queuedEvents, ~Waiting(c), ReadPlain(e)
      PROVE  MiddleInv'
  <2>1. e.kind \notin {"sync", "enter", "leave", "start"} /\ list' = list /\ Return(e)
    BY <1>5 DEF ReadPlain, Ticketed
  <2>2. list'.ticketNum = list.ticketNum + 0 /\ list'.barrierNum = list.barrierNum + 0
    BY <1>0, <2>1
  <2> QED
    BY <1>5, <1>a, <1>b, <2>1, <2>2, ReadReturnKeeps
<1> QED
  BY <1>0, <1>1, <1>2, <1>3, <1>4, <1>5, <1>b DEF Dispatch

LEMMA ReadKeeps ==
  ASSUME MiddleInv, Read
  PROVE  MiddleInv'
<1>1. UNCHANGED program /\ pc = "read" /\ ProgramTypes /\ Reading
  BY DEF Read, MiddleInv, Scanned
<1>2. CASE Seek
  <2>1. list' = list /\ got' = got /\ pc' \in {"read", "end", "aborted"}
    BY <1>1, <1>2 DEF Seek
  <2>2. Reading' /\ \A d \in Context : Taken(d)' = Taken(d)
    BY <1>1, <1>2, SeekTakesNone
  <2>3. ListTypes'
    BY <1>1, <2>1, QueuesSame DEF MiddleInv, ListTypes, IsQueues
  <2> QED
    BY <1>1, <2>1, <2>2, <2>3, StillKeeps DEF Steps
<1>3. CASE ReadHeader
  <2>1. PICK p : p = <<NextHeader, 0>>
    OBVIOUS
  <2>2. Reading' /\ Takes(p)
    <3>1. /\ ~InBuffer /\ Valid(NextHeader) /\ pos' = [buf |-> NextHeader, event |-> 1]
          /\ skipList' = [skipList EXCEPT ![file[NextHeader].ctid] = @ \ {NextHeader}]
      BY <1>3 DEF ReadHeader
    <3>2. Reading' /\ Takes(<<NextHeader, 0>>)
      BY <1>1, <3>1, HeaderTakesNext
    <3>3. \A q : q = <<NextHeader, 0>> /\ Takes(<<NextHeader, 0>>) => Takes(q)
      BY Zenon DEF Takes
    <3> QED
      BY <2>1, <3>2, <3>3
  <2>3. Dispatch(EventAt(p))
    BY <1>3, <2>1 DEF ReadHeader
  <2> QED
    BY <1>1, <2>2, <2>3, DispatchKeeps
<1>4. CASE ReadEvent
  <2>1. PICK p : p = <<pos.buf, pos.event>>
    OBVIOUS
  <2>2. Reading' /\ Takes(p)
    BY <1>1, <1>4, <2>1, EventTakesNext DEF ReadEvent
  <2>3. Dispatch(EventAt(p))
    BY <1>4, <2>1 DEF ReadEvent
  <2> QED
    BY <1>1, <2>2, <2>3, DispatchKeeps
<1> QED
  BY <1>2, <1>3, <1>4 DEF Read

\* What the first loop returns is the first of a queue, ...
LEMMA ScanReturnKeeps ==
  ASSUME MiddleInv, UNCHANGED program, pc = "scan", pos' = pos, skipList' = skipList,
         NEW c, c = list.eventQueueCurrent, c \in DOMAIN list.queuedEvents,
         NEW e, e = Head(list.queuedEvents[c]), list.queuedEvents[c] # <<>>,
         Return(e), DOMAIN list' = DOMAIN list,
         list'.waitingEvents = list.waitingEvents,
         list'.queuedEvents = [list.queuedEvents EXCEPT ![c] = Tail(@)],
         list'.eventQueueCurrent \in DOMAIN list.queuedEvents,
         list'.ticketNum = list.ticketNum + IF e.kind = "sync" THEN 1 ELSE 0,
         list'.barrierNum = list.barrierNum + IF e.kind \in {"enter", "leave"} THEN 1 ELSE 0,
         e.kind = "sync" => e.num <= list.ticketNum,
         e.kind \in {"enter", "leave"} => e.num <= list.barrierNum
  PROVE  MiddleInv'
<1> USE DEF MiddleInv
<1>1. ProgramTypes' /\ Recorded' /\ buffer' = buffer
  BY SameTrace
<1>2. PICK q : q = list.queuedEvents /\ IsQueues(q)
  BY DEF ListTypes
<1>3. c \in Context /\ q[c] \in Seq(FileEvents) /\ q[c] # <<>> /\ Kept(c) = q[c]
  BY <1>2 DEF IsQueues, Kept
<1>4. e.ctid = c
  <2>1. Follows(c, Kept(c), got[c])
    BY <1>3 DEF Scanned, Complete
  <2>2. 1 \in 1 .. Len(Kept(c)) /\ Kept(c)[1] = e
    BY <1>2, <1>3
  <2>3. PICK p \in PlacesOf(c) : e = EventAt(p)
    BY <2>1, <2>2 DEF Follows
  <2>4. p \in Place /\ Ctid(p) = c
    BY PlaceFacts
  <2> QED
    BY <2>3, <2>4, EventFacts
<1>5. event' = e /\ pc' \in {"main", "aborted"} /\ got' = [got EXCEPT ![c] = @ + 1]
  BY <1>4 DEF Return
<1>6. PICK r : r = list'.queuedEvents
  OBVIOUS
<1>7. DOMAIN r = DOMAIN q /\ r[c] = Tail(q[c]) /\ \A d \in DOMAIN q : d # c => r[d] = q[d]
  BY <1>2, <1>6
<1>8. IsQueues(r)
  <2>1. Tail(q[c]) \in Seq(FileEvents)
    BY <1>3
  <2> QED
    BY <1>2, <1>7, <2>1 DEF IsQueues
<1>9. ListTypes'
  <2>1. IsQueues(list.queuedEvents)' /\ IsQueues(list.waitingEvents)'
    BY <1>6, <1>8, SameTrace DEF ListTypes, IsQueues
  <2>2. got' \in [Context -> Nat]
    BY <1>3, <1>5 DEF ListTypes
  <2>3. list'.eventQueueCurrent \in DOMAIN list'.queuedEvents
    BY <1>2, <1>6, <1>7
  <2>4. DOMAIN list' = ListFields /\ list'.ticketNum \in Nat /\ list'.barrierNum \in Nat
    BY DEF ListTypes
  <2> QED
    BY <2>1, <2>2, <2>3, <2>4 DEF ListTypes
<1>10. \A d \in Context : Taken(d)' = Taken(d)
  BY SameTrace DEF Taken
<1>11. Reading'
  BY SameTrace DEF Scanned, Reading, InBuffer, program
<1>12. ASSUME NEW d \in Context PROVE Kept(d)' = IF d = c THEN Tail(Kept(d)) ELSE Kept(d)
  BY <1>2, <1>3, <1>6, <1>7 DEF Kept
<1>13. Complete' /\ \E p \in PlacesOf(c) : Head(Kept(c)) = EventAt(p) /\ Nth(p) = got[c] + 1
  BY <1>3, <1>5, <1>10, <1>12, TakesKeptComplete DEF Scanned
<1>14. PICK p \in PlacesOf(c) : e = EventAt(p) /\ Nth(p) = got[c] + 1
  BY <1>2, <1>3, <1>13
<1>15. Apart'
  BY <1>2, <1>6, <1>7 DEF Scanned, Apart, Waiting
<1>16. (\A d \in Context \ {0} : Allowed(d)' => Allowed(d)) /\ Allowed(c)
  BY <1>2, <1>6, <1>7 DEF Allowed
<1>17. CreatedFirst' /\ Ahead' /\ ProgramOrder' /\ GlobalOrder'
  BY <1>3, <1>5, <1>14, <1>16, ReturnKeeps DEF Scanned
<1> QED
  BY <1>1, <1>5, <1>9, <1>11, <1>13, <1>15, <1>17 DEF Scanned, Steps

\* ... and otherwise it moves no event.
LEMMA ScanKeeps ==
  ASSUME MiddleInv, Scan
  PROVE  MiddleInv'
<1>1. UNCHANGED program /\ pc = "scan" /\ pos' = pos /\ skipList' = skipList
  BY DEF Scan, ScanEnds, ScanEmpty, ScanPlain, ScanTurn, ScanBlocked, lib
<1>2. Reading' /\ \A d \in Context : Taken(d)' = Taken(d)
  BY <1>1, SameTrace DEF MiddleInv, Scanned, Reading, InBuffer, program, Taken
<1>3. DOMAIN list = ListFields /\ IsQueues(list.queuedEvents) /\ IsQueues(list.waitingEvents)
  BY DEF MiddleInv, ListTypes
<1>4. CASE ScanEnds
  <2>1. list' = list /\ got' = got /\ pc' = "read"
    BY <1>4 DEF ScanEnds
  <2>2. ListTypes'
    BY <1>1, <2>1, QueuesSame DEF MiddleInv, ListTypes, IsQueues
  <2> QED
    BY <1>1, <1>2, <2>1, <2>2, StillKeeps DEF Steps
<1>5. PICK c : c = list.eventQueueCurrent
  OBVIOUS
<1>6. ASSUME ~ScanIsOver
      PROVE  c \in DOMAIN list.queuedEvents /\ c \in Nat /\ DOMAIN list.queuedEvents \in SUBSET Nat
  BY <1>3, <1>5, <1>6, EventQueueAssumption DEF ScanIsOver, MiddleInv, ListTypes, IsQueues
<1>7. CASE ScanEmpty
  <2>0. ~ScanIsOver /\ list.queuedEvents[c] = <<>>
    BY <1>5, <1>7 DEF ScanEmpty, Queue
  <2>1. PICK q : q = list.queuedEvents
    OBVIOUS
  <2>2. PICK rest : rest = Without(q, c)
    OBVIOUS
  <2>3. PICK next : next = IF After(q, c) = None THEN Begin(rest) ELSE After(q, c)
    OBVIOUS
  <2>4. list' = [list EXCEPT !.queuedEvents = rest, !.eventQueueCurrent = next]
        /\ pc' = pc /\ got' = got
    BY <1>5, <1>7, <2>1, <2>2, <2>3 DEF ScanEmpty
  <2>5. /\ DOMAIN list' = ListFields /\ list'.queuedEvents = rest /\ list'.eventQueueCurrent = next
        /\ list'.waitingEvents = list.waitingEvents
        /\ list'.ticketNum = list.ticketNum /\ list'.barrierNum = list.barrierNum
    BY <1>3, <2>4 DEF ListFields
  <2>6. DOMAIN rest = DOMAIN q \ {c} /\ IsQueues(rest) /\ \A d \in DOMAIN rest : rest[d] = q[d]
    BY <1>3, <2>1, <2>2, WithoutFacts
  <2>7. DOMAIN rest # {} => next \in DOMAIN rest
    <3>1. DOMAIN q \in SUBSET Nat /\ DOMAIN rest \in SUBSET Nat /\ c \in Nat
      BY <1>6, <2>0, <2>1, <2>6
    <3>2. DOMAIN rest # {} => Begin(rest) \in DOMAIN rest
      BY <3>1, BeginFacts
    <3>3. After(q, c) = None \/ (After(q, c) \in DOMAIN q /\ After(q, c) # c)
      BY <3>1, AfterFacts
    <3> QED
      BY <2>3, <2>6, <3>2, <3>3
  <2>8. ListTypes'
    <3>1. IsQueues(list.queuedEvents)' /\ IsQueues(list.waitingEvents)'
      BY <1>1, <1>3, <2>5, <2>6, SameTrace DEF IsQueues
    <3> QED
      BY <2>4, <2>5, <2>7, <3>1 DEF MiddleInv, ListTypes
  <2> QED
    BY <1>1, <1>2, <2>0, <2>1, <2>4, <2>5, <2>6, <2>8, StillKeeps DEF Steps
<1>8. ASSUME ~ScanIsOver, Queue # <<>>, ScanBlocked(Head(Queue))
      PROVE  MiddleInv'
  <2>1. /\ DOMAIN list' = ListFields
        /\ list'.queuedEvents = list.queuedEvents
        /\ list'.waitingEvents = list.waitingEvents
        /\ list'.ticketNum = list.ticketNum /\ list'.barrierNum = list.barrierNum
        /\ list'.eventQueueCurrent \in {After(list.queuedEvents, c), Begin(list.queuedEvents)} \ {None}
        /\ got' = got /\ pc' \in {"scan", "read"}
    <3>1. PICK e : e = Head(Queue)
      OBVIOUS
    <3>2. PICK next : next = After(list.queuedEvents, c)
      OBVIOUS
    <3>3. PICK first : first = Begin(list.queuedEvents) /\ first # None
      BY <1>6, <1>8, BeginFacts, EventQueueAssumption DEF None
    <3>4. PICK low : low = IF e.kind = "sync" THEN Min({e.num, list.currMinTicket}) ELSE list.currMinTicket
      OBVIOUS
    <3>5. CASE /\ next # None
               /\ list' = [list EXCEPT !.currMinTicket = low, !.eventQueueCurrent = next]
      BY <1>1, <1>3, <1>8, <3>2, <3>5 DEF ListFields, ScanBlocked
    <3>7. CASE next = None
      <4>1. PICK new : new = IF e.kind # "sync" THEN list.minQueuedTicket
                             ELSE IF list.resetMinTicket THEN low ELSE 0
        OBVIOUS
      <4>2. list' = [list EXCEPT !.currMinTicket = low, !.eventQueueCurrent = first,
                                 !.resetMinTicket = ~@, !.minQueuedTicket = new]
        BY <1>5, <1>8, <3>1, <3>2, <3>3, <3>4, <3>7, <4>1 DEF ScanBlocked
      <4>3. pc' = "read"
        BY <1>5, <1>8, <3>1, <3>2, <3>7 DEF ScanBlocked
      <4> QED
        BY <1>3, <1>8, <3>3, <3>7, <4>2, <4>3 DEF ListFields, ScanBlocked
    <3>8. CASE next # None
      <4>1. list' = [list EXCEPT !.currMinTicket = low, !.eventQueueCurrent = next]
        BY <1>5, <1>8, <3>1, <3>2, <3>4, <3>8 DEF ScanBlocked
      <4> QED
        BY <3>5, <3>8, <4>1
    <3> QED
      BY <3>7, <3>8
  <2>2. list'.eventQueueCurrent \in DOMAIN list.queuedEvents
    BY <1>6, <1>8, <2>1, AfterFacts, BeginFacts
  <2>3. ListTypes'
    BY <1>1, <2>1, <2>2, QueuesSame DEF MiddleInv, ListTypes
  <2> QED
    BY <1>1, <1>2, <2>1, <2>3, StillKeeps DEF Steps
<1>9. ASSUME ~ScanIsOver, Queue # <<>>, ScanPlain(Head(Queue))
      PROVE  MiddleInv'
  <2>0. c \in DOMAIN list.queuedEvents
    BY <1>6, <1>9
  <2>1. PICK e : e = Head(list.queuedEvents[c])
    OBVIOUS
  <2>2. /\ e.kind \notin {"sync", "enter", "leave"} /\ Return(e) /\ list.queuedEvents[c] # <<>>
        /\ list' = [list EXCEPT !.queuedEvents = [list.queuedEvents EXCEPT ![c] = Tail(@)]]
    BY <1>5, <1>9, <2>1 DEF ScanPlain, Queue, Ticketed
  <2>3. /\ DOMAIN list' = DOMAIN list
        /\ list'.queuedEvents = [list.queuedEvents EXCEPT ![c] = Tail(@)]
        /\ list'.waitingEvents = list.waitingEvents
        /\ list'.eventQueueCurrent = c
        /\ list'.ticketNum = list.ticketNum + 0 /\ list'.barrierNum = list.barrierNum + 0
    BY <1>3, <1>5, <2>2 DEF ListFields, MiddleInv, ListTypes
  <2> QED
    BY <1>1, <1>5, <2>0, <2>1, <2>2, <2>3, ScanReturnKeeps
<1>10. ASSUME ~ScanIsOver, Queue # <<>>, ScanTurn(Head(Queue))
       PROVE  MiddleInv'
  <2>0. c \in DOMAIN list.queuedEvents /\ Begin(list.queuedEvents) \in DOMAIN list.queuedEvents
    BY <1>6, <1>10, BeginFacts
  <2>1. PICK e : e = Head(list.queuedEvents[c])
    OBVIOUS
  <2>2. /\ Ticketed(e) /\ e.num = Counter(e) /\ Return(e) /\ list.queuedEvents[c] # <<>>
        /\ list' = [Counting(list, e) EXCEPT
                      !.queuedEvents = [Counting(list, e).queuedEvents EXCEPT ![c] = Tail(@)],
                      !.eventQueueCurrent = Begin(list.queuedEvents)]
    BY <1>5, <1>10, <2>1 DEF ScanTurn, Queue
  <2>3. PICK l : l = Counting(list, e)
    OBVIOUS
  <2>4. /\ DOMAIN l = ListFields
        /\ l.queuedEvents = list.queuedEvents /\ l.waitingEvents = list.waitingEvents
        /\ l.ticketNum = list.ticketNum + IF e.kind = "sync" THEN 1 ELSE 0
        /\ l.barrierNum = list.barrierNum + IF e.kind \in {"enter", "leave"} THEN 1 ELSE 0
    <3>1. list.ticketNum \in Nat /\ list.barrierNum \in Nat
      BY DEF MiddleInv, ListTypes
    <3>2. CASE e.kind = "sync"
      <4>1. l = [list EXCEPT !.ticketNum = @ + 1]
        BY <2>3, <3>2 DEF Counting
      <4> QED
        BY <1>3, <3>1, <3>2, <4>1 DEF ListFields
    <3>3. CASE e.kind # "sync"
      <4>1. l = [list EXCEPT !.barrierNum = @ + 1] /\ e.kind \in {"enter", "leave"}
        BY <2>2, <2>3, <3>3 DEF Counting, Ticketed
      <4> QED
        BY <1>3, <3>1, <3>3, <4>1 DEF ListFields
    <3> QED
      BY <3>2, <3>3
  <2>5. PICK q : q = [list.queuedEvents EXCEPT ![c] = Tail(@)]
    OBVIOUS
  <2>6. list' = [l EXCEPT !.queuedEvents = q, !.eventQueueCurrent = Begin(list.queuedEvents)]
    BY <2>2, <2>3, <2>4, <2>5
  <2>7. /\ DOMAIN list' = DOMAIN list
        /\ list'.queuedEvents = [list.queuedEvents EXCEPT ![c] = Tail(@)]
        /\ list'.waitingEvents = list.waitingEvents
        /\ list'.eventQueueCurrent = Begin(list.queuedEvents)
        /\ list'.ticketNum = l.ticketNum /\ list'.barrierNum = l.barrierNum
    BY <1>3, <2>4, <2>5, <2>6 DEF ListFields
  <2>8. /\ e.kind = "sync" => e.num <= list.ticketNum
        /\ e.kind \in {"enter", "leave"} => e.num <= list.barrierNum
    BY <2>2 DEF Counter, MiddleInv, ListTypes
  <2>9. /\ list'.ticketNum = list.ticketNum + IF e.kind = "sync" THEN 1 ELSE 0
        /\ list'.barrierNum = list.barrierNum + IF e.kind \in {"enter", "leave"} THEN 1 ELSE 0
        /\ list'.eventQueueCurrent \in DOMAIN list.queuedEvents
    BY <2>0, <2>4, <2>7
  <2>10. Return(e) /\ list.queuedEvents[c] # <<>>
    BY <2>2
  <2> QED
    BY <1>1, <1>5, <2>0, <2>1, <2>7, <2>8, <2>9, <2>10, ScanReturnKeeps
<1> QED
  BY <1>4, <1>7, <1>8, <1>9, <1>10 DEF Scan

\* The middle layer has dealt with the event.
LEMMA ConsumeKeeps ==
  ASSUME MiddleInv, Consume
  PROVE  MiddleInv'
<1>1. UNCHANGED program /\ pc = "main" /\ pc' = "scan" /\ pos' = pos /\ skipList' = skipList
      /\ got' = got
  BY DEF Consume
<1>2. Reading' /\ \A d \in Context : Taken(d)' = Taken(d)
  BY <1>1, SameTrace DEF MiddleInv, Scanned, Reading, InBuffer, program, Taken
<1>3. /\ DOMAIN list = ListFields /\ IsQueues(list.queuedEvents) /\ IsQueues(list.waitingEvents)
      /\ list.ticketNum \in Nat /\ list.barrierNum \in Nat
  BY DEF MiddleInv, ListTypes
<1>4. ASSUME list'.ticketNum = list.ticketNum, list'.barrierNum = list.barrierNum, ListTypes', Apart',
             \A d \in Context : Kept(d)' = Kept(d),
             \A d \in Context \ {0} :
                 Allowed(d)' => Allowed(d) \/ (event.kind = "create" /\ d = event.other)
      PROVE  MiddleInv'
  <2>1. Complete'
    BY <1>1, <1>2, <1>4, StaysComplete DEF MiddleInv, Scanned
  <2>2. CreatedFirst' /\ Ahead' /\ ProgramOrder' /\ GlobalOrder'
    BY <1>1, <1>4, TakeKeeps DEF MiddleInv, Scanned
  <2>3. ProgramTypes' /\ Recorded' /\ buffer' = buffer
    BY <1>1, SameTrace DEF MiddleInv
  <2> QED
    BY <1>1, <1>2, <1>4, <2>1, <2>2, <2>3 DEF MiddleInv, Scanned, Steps
<1>5. CASE event.kind = "create"
  <2>1. PICK c : c = event.other
    OBVIOUS
  <2>2. /\ c \in Context \ {0} /\ c \notin DOMAIN list.queuedEvents
        /\ c \in DOMAIN list.waitingEvents => list.waitingEvents[c] # <<>>
    BY <1>1, <1>5, <2>1, NewCreate DEF MiddleInv, Scanned, Allowed
  <2>3. PICK w : w = list.waitingEvents
    OBVIOUS
  <2>4. CASE /\ c \notin DOMAIN w
             /\ list' = [list EXCEPT !.waitingEvents = Put(w, c, <<>>),
                                     !.currMinTicket = Never, !.recursive = FALSE]
    <3>1. PICK r : r = Put(w, c, <<>>)
      OBVIOUS
    <3>2. DOMAIN r = DOMAIN w \cup {c} /\ r[c] = <<>> /\ \A d \in DOMAIN w : d # c => r[d] = w[d]
      BY <3>1 DEF Put
    <3>3. /\ DOMAIN list' = ListFields /\ list'.queuedEvents = list.queuedEvents
          /\ list'.waitingEvents = r /\ list'.eventQueueCurrent = list.eventQueueCurrent
          /\ list'.ticketNum = list.ticketNum /\ list'.barrierNum = list.barrierNum
      BY <1>3, <2>4, <3>1 DEF ListFields
    <3>4. IsQueues(r)
      <4>1. <<>> \in Seq(FileEvents)
        OBVIOUS
      <4> QED
        BY <1>3, <2>2, <2>3, <3>2, <4>1 DEF IsQueues
    <3>5. ListTypes'
      <4>1. IsQueues(list.queuedEvents)' /\ IsQueues(list.waitingEvents)'
        BY <1>1, <1>3, <3>3, <3>4, SameTrace DEF IsQueues
      <4> QED
        BY <1>1, <3>3, <4>1 DEF MiddleInv, ListTypes
    <3>6. \A d \in Context : Kept(d)' = Kept(d)
      BY <2>2, <2>3, <2>4, <3>2, <3>3 DEF Kept
    <3>7. Apart'
      BY <2>3, <2>4, <3>2, <3>3 DEF MiddleInv, Scanned, Apart, Waiting
    <3>8. \A d \in Context \ {0} :
              Allowed(d)' => Allowed(d) \/ (event.kind = "create" /\ d = event.other)
      BY <1>5, <2>1, <2>3, <3>2, <3>3 DEF Allowed
    <3> QED
      BY <1>4, <3>3, <3>5, <3>6, <3>7, <3>8
  <2>5. CASE /\ c \in DOMAIN w
             /\ list' = [list EXCEPT !.queuedEvents = Put(list.queuedEvents, c, w[c]),
                                     !.eventQueueCurrent = Begin(Put(list.queuedEvents, c, w[c])),
                                     !.waitingEvents = Without(w, c),
                                     !.currMinTicket = Never, !.recursive = FALSE]
    <3>1. PICK q : q = Put(list.queuedEvents, c, w[c])
      OBVIOUS
    <3>2. PICK r : r = Without(w, c)
      OBVIOUS
    <3>3. /\ DOMAIN q = DOMAIN list.queuedEvents \cup {c} /\ q[c] = w[c]
          /\ \A d \in DOMAIN list.queuedEvents : d # c => q[d] = list.queuedEvents[d]
          /\ DOMAIN r = DOMAIN w \ {c} /\ \A d \in DOMAIN r : r[d] = w[d]
      BY <3>1, <3>2 DEF Put, Without
    <3>4. /\ DOMAIN list' = ListFields /\ list'.queuedEvents = q
          /\ list'.waitingEvents = r /\ list'.eventQueueCurrent = Begin(q)
          /\ list'.ticketNum = list.ticketNum /\ list'.barrierNum = list.barrierNum
      BY <1>3, <2>5, <3>1, <3>2 DEF ListFields
    <3>5. IsQueues(q) /\ IsQueues(r)
      BY <1>3, <2>2, <2>3, <2>5, <3>3 DEF IsQueues
    <3>6. ListTypes'
      <4>1. IsQueues(list.queuedEvents)' /\ IsQueues(list.waitingEvents)'
        BY <1>1, <3>4, <3>5, SameTrace DEF IsQueues
      <4>2. DOMAIN q \in SUBSET Nat
        BY <3>5, EventQueueAssumption DEF IsQueues
      <4>3. Begin(q) \in DOMAIN q
        BY <3>3, <4>2, BeginFacts
      <4> QED
        BY <1>1, <3>4, <4>1, <4>3 DEF MiddleInv, ListTypes
    <3>7. \A d \in Context : Kept(d)' = Kept(d)
      BY <2>2, <2>3, <2>5, <3>3, <3>4 DEF Kept
    <3>8. Apart'
      BY <2>3, <2>5, <3>3, <3>4 DEF MiddleInv, Scanned, Apart, Waiting
    <3>9. \A d \in Context \ {0} :
              Allowed(d)' => Allowed(d) \/ (event.kind = "create" /\ d = event.other)
      BY <1>5, <2>1, <2>3, <3>3, <3>4 DEF Allowed
    <3> QED
      BY <1>4, <3>4, <3>6, <3>7, <3>8, <3>9
  <2> QED
    BY <1>5, <2>1, <2>3, <2>4, <2>5 DEF Consume, readyEvents
<1>6. CASE event.kind # "create"
  <2>1. list' = [list EXCEPT !.currMinTicket = Never, !.recursive = FALSE]
    BY <1>6 DEF Consume
  <2>2. /\ DOMAIN list' = ListFields /\ list'.queuedEvents = list.queuedEvents
        /\ list'.waitingEvents = list.waitingEvents
        /\ list'.eventQueueCurrent = list.eventQueueCurrent
        /\ list'.ticketNum = list.ticketNum /\ list'.barrierNum = list.barrierNum
    BY <1>3, <2>1 DEF ListFields
  <2>3. ListTypes'
    BY <1>1, <2>2, QueuesSame DEF MiddleInv, ListTypes
  <2>4. Apart' /\ \A d \in Context : (Kept(d)' = Kept(d)) /\ (Allowed(d)' => Allowed(d))
    BY <2>2 DEF MiddleInv, Scanned, Apart, Waiting, Kept, Allowed
  <2> QED
    BY <1>4, <2>2, <2>3, <2>4
<1> QED
  BY <1>5, <1>6

LEMMA FinishKeeps ==
  ASSUME MiddleInv, Finish
  PROVE  MiddleInv'
<1>1. /\ UNCHANGED program /\ pc = "end" /\ pc' = "done" /\ pos' = pos /\ skipList' = skipList
      /\ list' = list /\ got' = got
  BY DEF Finish, lib
<1>2. Reading' /\ \A d \in Context : Taken(d)' = Taken(d)
  BY <1>1, SameTrace DEF MiddleInv, Scanned, Reading, InBuffer, program, Taken
<1>3. ListTypes'
  BY <1>1, QueuesSame DEF MiddleInv, ListTypes
<1> QED
  BY <1>1, <1>2, <1>3, StillKeeps DEF Steps

\* Before the middle layer begins nothing has been read.
LEMMA BeginKeeps ==
  ASSUME ProgramTypes, ListTypes, Recorded, BeforeScan, BeginMiddle
  PROVE  MiddleInv'
<1>1. /\ UNCHANGED program /\ pos' = pos /\ list' = list /\ got' = got /\ pc' = "scan"
      /\ skipList' = [c \in {file[b].ctid : b \in 1 .. Len(file)} |-> BuffersOf(c)]
      /\ \A c \in Context : life[c] \in {"off", "exited"}
  BY DEF BeginMiddle
<1>2. ProgramTypes' /\ Recorded' /\ buffer' = buffer /\ file' = file
  BY <1>1, SameTrace
<1>3. ListTypes'
  BY <1>1, QueuesSame DEF ListTypes
<1>4. \A c \in Context : buffer[c] = <<>>
  BY <1>1 DEF Recorded, Lives
<1>5. Reading'
  <2>1. Len(file) \in Nat
    BY PlaceFacts
  <2> QED
    BY <1>1, <1>2, <2>1, SameTrace DEF Reading, InBuffer, BeforeScan
<1>6. \A c \in Context : Taken(c)' = {}
  <2> SUFFICES ASSUME NEW c \in Context, NEW p \in PlacesOf(c)
               PROVE  p[1] \in skipList'[c]
    BY <1>1, SameTrace DEF Taken
  <2>1. p[1] \in 1 .. Len(file) /\ file[p[1]].ctid = c
    BY PlaceFacts
  <2> QED
    BY <1>1, <2>1 DEF BuffersOf
<1>7. \A c \in Context : Kept(c)' = <<>> /\ ~Allowed(c)' /\ ~Waiting(c)'
  BY <1>1 DEF BeforeScan, Kept, Allowed, Waiting
<1>8. Complete'
  <2> SUFFICES ASSUME NEW c \in Context
               PROVE  /\ Cardinality(Taken(c)') = got'[c] + Len(Kept(c)')
                      /\ Follows(c, Kept(c), got[c])'
    BY DEF Complete
  <2>1. Cardinality({}) = 0 /\ Len(<<>>) = 0 /\ 1 .. 0 = {}
    BY FS_EmptySet
  <2>2. got'[c] = 0 /\ Taken(c)' = {} /\ Kept(c)' = <<>>
    BY <1>1, <1>6, <1>7 DEF BeforeScan
  <2>3. Cardinality(Taken(c)') = got'[c] + Len(Kept(c)')
    BY <2>1, <2>2
  <2>4. 1 .. Len(Kept(c)') = {}
    BY <2>1, <2>2
  <2>5. Follows(c, Kept(c), got[c])'
    BY <2>4 DEF Follows
  <2> QED
    BY <2>3, <2>5
<1>9. Apart'
  BY <1>7 DEF Apart
<1>10. CreatedFirst'
  <2> SUFFICES ASSUME NEW c \in Context, Started(c)'
               PROVE  FALSE
    BY <1>7 DEF CreatedFirst
  <2>1. PICK p \in PlacesOf(c) : Nth(p) <= got[c]
    BY <1>1, SameTrace DEF Started
  <2>2. Nth(p) \in Nat /\ Nth(p) > 0 /\ got[c] = 0
    BY NthFacts DEF BeforeScan
  <2> QED
    BY <2>1, <2>2
<1>11. Ahead'
  <2> SUFFICES ASSUME NEW p \in Place
               PROVE  /\ EventAt(p).kind = "sync" => EventAt(p).num >= list.ticketNum
                      /\ EventAt(p).kind \in {"enter", "leave"} => EventAt(p).num >= list.barrierNum
    BY <1>1, SameTrace DEF Ahead
  <2>1. EventAt(p).kind \in {"sync", "enter", "leave"} => EventAt(p).num \in Nat
    BY EventFacts
  <2> QED
    BY <2>1 DEF BeforeScan
<1> QED
  BY <1>1, <1>2, <1>3, <1>4, <1>5, <1>8, <1>9, <1>10, <1>11
     DEF MiddleInv, Scanned, Steps, ProgramOrder, GlobalOrder

LEMMA QueueInit == MiddleInit => QueueInv
<1> SUFFICES ASSUME MiddleInit PROVE QueueInv
  OBVIOUS
<1> USE DEF MiddleInit, Init
<1>1. ProgramTypes
  BY EventQueueAssumption DEF ProgramTypes
<1>2. ListTypes /\ BeforeScan
  BY DEF ListTypes, ListFields, IsQueues, BeforeScan
<1>3. Recorded
  <2>1. Spot = {} /\ \A c \in Context : BuffersOf(c) = {}
    BY DEF Spot, FileSpot, BufferSpot, BuffersOf
  <2>2. Distinct /\ AllDrawn /\ Starts
    BY <2>1 DEF Distinct, AllDrawn, Starts
  <2>3. Lives
    BY <2>1, EventQueueAssumption DEF Lives
  <2> QED
    BY <2>2, <2>3 DEF Recorded
<1> QED
  BY <1>1, <1>2, <1>3 DEF QueueInv, ProgramOrder, GlobalOrder

LEMMA QueueStep ==
  ASSUME QueueInv, [MiddleNext]_mvars
  PROVE  QueueInv'
<1>1. CASE pc = "program" /\ BeforeScan /\ Program
  <2>1. list' = list /\ got' = got /\ pos' = pos /\ pc' = pc
    BY <1>1 DEF Program, lib
  <2>2. ProgramTypes' /\ Recorded'
    BY <1>1, ProgramKeeps DEF QueueInv
  <2>3. BeforeScan'
    BY <1>1, <2>1 DEF BeforeScan
  <2>4. ListTypes'
    <3>1. IsQueues(list.queuedEvents)' /\ IsQueues(list.waitingEvents)'
      BY <1>1, <2>1 DEF BeforeScan, IsQueues
    <3> QED
      BY <2>1, <3>1 DEF QueueInv, ListTypes
  <2> QED
    BY <1>1, <2>1, <2>2, <2>3, <2>4 DEF QueueInv, ProgramOrder, GlobalOrder
<1>2. CASE pc = "program" /\ BeforeScan /\ BeginMiddle
  BY <1>2, BeginKeeps DEF QueueInv, MiddleInv
<1>3. CASE MiddleInv /\ (Scan \/ Read \/ Consume \/ Finish)
  <2>1. MiddleInv'
    BY <1>3, ScanKeeps, ReadKeeps, ConsumeKeeps, FinishKeeps
  <2> QED
    BY <2>1 DEF QueueInv, MiddleInv
<1>4. CASE UNCHANGED mvars
  <2>1. UNCHANGED <<program, pos, skipList, list, pc, event, got>>
    BY <1>4 DEF mvars, vars, lib
  <2>2. ProgramTypes' /\ Recorded' /\ buffer' = buffer
    BY <2>1, SameTrace DEF QueueInv
  <2>3. ListTypes'
    BY <2>1, QueuesSame DEF QueueInv, ListTypes
  <2>4. BeforeScan => BeforeScan'
    BY <2>1 DEF BeforeScan
  <2>5. ProgramOrder' /\ GlobalOrder'
    BY <2>1, SameTrace DEF QueueInv, ProgramOrder, GlobalOrder, Returned
  <2>6. Scanned => Scanned'
    <3>1. Reading => Reading'
      BY <2>1, SameTrace DEF Reading, InBuffer, program
    <3>2. \A c : Taken(c)' = Taken(c) /\ Kept(c)' = Kept(c)
      BY <2>1, SameTrace DEF Taken, Kept
    <3>3. Complete => Complete'
      BY <2>1, <3>2, StaysComplete DEF QueueInv
    <3>4. Apart => Apart'
      BY <2>1 DEF Apart, Waiting
    <3>5. CreatedFirst => CreatedFirst'
      BY <2>1, SameTrace DEF CreatedFirst, Allowed, Started, Created, Dealt
    <3>6. Ahead => Ahead'
      BY <2>1, SameTrace DEF Ahead
    <3> QED
      BY <2>2, <3>1, <3>3, <3>4, <3>5, <3>6 DEF Scanned
  <2> QED
    BY <2>1, <2>2, <2>3, <2>4, <2>5, <2>6 DEF QueueInv
<1>5. (pc = "program" /\ BeforeScan) \/ MiddleInv
  BY DEF QueueInv, MiddleInv
<1>6. /\ Scan => pc = "scan"
      /\ Read => pc = "read"
      /\ Consume => pc = "main"
      /\ Finish => pc = "end"
      /\ BeginMiddle => pc = "program"
      /\ Program => pc = "program"
      /\ MiddleInv => pc \in Steps
  BY DEF Scan, Read, Consume, Finish, BeginMiddle, Program, MiddleInv
<1> QED
  BY <1>1, <1>2, <1>3, <1>4, <1>5, <1>6 DEF MiddleNext, Middle, Handle, Steps

-----------------------------------------------------------------------------
(***************************************************************************)
(* The theorems.                                                           *)
(***************************************************************************)

\* What has been stored, read, kept and returned stays in the relation that QueueInv
\* states, whatever the program does and in whatever order its buffers are read.
THEOREM QueueInvariant == MiddleSpec => []QueueInv
<1>1. MiddleInit => QueueInv
  BY QueueInit
<1>2. QueueInv /\ [MiddleNext]_mvars => QueueInv'
  BY QueueStep
<1> QED
  BY <1>1, <1>2, PTL DEF MiddleSpec

\* getNextContechEvent and EventLib return the events of a context in the order in which
\* the context stored them, and none twice.
THEOREM MiddleProgramOrder == MiddleSpec => []ProgramOrder
<1>1. QueueInv => ProgramOrder
  BY DEF QueueInv
<1> QED
  BY <1>1, QueueInvariant, PTL

\* getNextContechEvent returns syncs and barriers by their numbers without a gap, and a
\* thread's start after the create of that thread.
THEOREM MiddleGlobalOrder == MiddleSpec => []GlobalOrder
<1>1. QueueInv => GlobalOrder
  BY DEF QueueInv
<1> QED
  BY <1>1, QueueInvariant, PTL

=============================================================================
